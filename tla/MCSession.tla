------------------------------ MODULE MCSession ------------------------------
(* The instance for TLC: the server's application sends, the client's does   *)
(* not; the client's program may be shut down.                               *)
EXTENDS Session

ServerSendsTwo == [x \in Ends |-> IF x = "server" THEN 2 ELSE 0]
ClientOnly == {"client"}
=============================================================================
