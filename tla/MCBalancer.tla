------------------------------ MODULE MCBalancer -----------------------------
(* Three sessions: two roles in one namespace, and one session in another;   *)
(* two callers, that ask for clients or for whatever there is.               *)
EXTENDS Balancer

CONSTANTS s1, s2, s3, A, B, c1, c2

Three == {s1, s2, s3}
Spaces == {A, B}
TwoRoles == {"client", "server"}
LastInB == [s \in Sessions |-> IF s = s3 THEN B ELSE A]
SecondServes == [s \in Sessions |-> IF s = s2 THEN "server" ELSE "client"]
TwoCallers == {c1, c2}
TwoLanes == {[ns |-> A, role |-> Nobody], [ns |-> A, role |-> "client"]}
=============================================================================
