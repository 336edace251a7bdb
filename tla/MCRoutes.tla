------------------------------ MODULE MCRoutes ------------------------------
(* Instances for TLC. The programs differ in order, in a route of another    *)
(* namespace that shifts the ids, and in a pattern registered twice; one     *)
(* serves nothing here.                                                      *)
EXTENDS Routes

R(pattern, type) == [pattern |-> pattern, type |-> type, ns |-> "core"]
Elsewhere == [pattern |-> "get", type |-> "message", ns |-> "other"]
Hook == [pattern |-> "connect", type |-> "connect", ns |-> "core"]

Plain == <<Hook, R("get", "message"), R("put", "message")>>
Swapped == <<R("put", "message"), R("get", "message")>>
Shifted == <<Elsewhere, Hook, R("get", "message"), R("put", "message")>>
Twice == <<R("get", "message"), R("get", "event"), R("get", "message")>>
Silent == <<Elsewhere>>

Some == {Plain, Swapped, Silent}
All == {Plain, Swapped, Shifted, Twice, Silent}
=============================================================================
