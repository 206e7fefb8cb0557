---------------------------- MODULE MCMessageBus ----------------------------
(* MessageBus with one pattern that matches one topic and one that matches *)
(* both, and a channel for each of two subscribe calls.                    *)
EXTENDS MessageBus

CONSTANTS p1, p2, s1, s2, c1, c2, ta, tb, onlyA, all

MCPublishers  == {p1, p2}
MCSubscribers == {s1, s2}
MCChannels    == {c1, c2}
MCTopics      == {ta, tb}
MCPatterns    == {onlyA, all}
MCMatches     == {<<onlyA, ta>>, <<all, ta>>, <<all, tb>>}

=============================================================================
