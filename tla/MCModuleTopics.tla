--------------------------- MODULE MCModuleTopics ---------------------------
(* Every pattern and topic of up to three segments, for modules with plain      *)
(* names, names with a dot and names with a wildcard.                           *)
EXTENDS ModuleTopics

CONSTANTS a, b

MCSegments == {a, b, System, Empty}
MCNames    == {<<a>>, <<b>>, <<a, b>>, <<Star>>, <<Hash>>, <<a, Star>>, <<Empty>>, <<System>>}
DottedNames == {<<a>>, <<a, b>>}
=============================================================================
