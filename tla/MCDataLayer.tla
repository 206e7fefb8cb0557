---------------------------- MODULE MCDataLayer ----------------------------
(* A cache of one key and two keys to write, so that every write of the    *)
(* other evicts; bodies with one field, with both and with neither, and a  *)
(* path outside the configured directory.                                  *)
EXTENDS DataLayer

CONSTANTS m1, k1, k2, inside, outside

MCModules == {m1}
MCKeys    == {k1, k2}
MCValues  == {inside, outside}
MCPaths   == {inside}
MCBodies  == {[value |-> outside, path |-> None], [value |-> None, path |-> inside],
              [value |-> outside, path |-> inside], [value |-> None, path |-> outside],
              [value |-> None, path |-> None]}
=============================================================================
