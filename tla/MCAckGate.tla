------------------------------ MODULE MCAckGate ------------------------------
(* An instance for TLC: a send and a stream share one receiver. The peer may *)
(* stream to either; only the stream is given chunks. Its formatter makes a  *)
(* value of the first and the last, nothing of the next, and fails on one.   *)
EXTENDS AckGate

CONSTANTS call, stream

SendAndStream == {call, stream}
OnlyStream == {stream}
OnlySend == {call}
StreamYields == [c \in Calls |-> IF c \in Streams THEN MaxChunks ELSE 0]
Formatted == [c \in Calls |-> [n \in 1 .. MaxChunks |->
                CASE n = 2 -> "nothing" [] n = 3 -> "raises" [] OTHER -> "value"]]
=============================================================================
