--------------------------- MODULE MCModuleEvents ---------------------------
(* One module, "me", with two subscribe calls, and a controller that publishes. *)
(* Topics and patterns are those of TopicPattern.                              *)
EXTENDS ModuleEvents

CONSTANTS ctl, c1, c2, me, x, Empty, System, Star, Hash

TP == INSTANCE TopicPattern WITH Segments <- {me, x, Empty, System}

Name == <<me>>

MCModules     == {Name}
MCSubscribers == {Name}
MCPublishers  == {Name, ctl}
MCChannels    == {c1, c2}
MCTopics      == {<<me, x>>}
MCPatterns    == {<<me, Hash>>, <<System, Star>>}
MCMatches     == {pt \in MCPatterns \X MCTopics : TP!Matching(pt[1], pt[2])}
MCPermitted   == {np \in MCModules \X MCPatterns : TP!Allowed(np[1], np[2])}
=============================================================================
