--------------------------- MODULE MCBroadcastHub ---------------------------
(* Small instances of BroadcastHub for TLC.                                 *)
EXTENDS BroadcastHub

CONSTANTS s1, s2, a1

OneStream  == {s1}
TwoStreams == {s1, s2}
OneActor   == {a1}

\* The streams are tabs of one actor.
Tabs == [s \in Stream |-> a1]

=============================================================================
