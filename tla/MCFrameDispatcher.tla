-------------------------- MODULE MCFrameDispatcher --------------------------
(* An instance for TLC: two sessions of one namespace, and so with one        *)
(* receiver; the first delivers more frames than the second.                  *)
EXTENDS FrameDispatcher

CONSTANTS s1, s2, r1

TwoSessions == {s1, s2}
OneReceiver == {r1}
AllInOne == [s \in Sessions |-> r1]
FirstIsBusier == [s \in Sessions |-> IF s = s1 THEN MaxFrames ELSE 1]
=============================================================================
