----------------------------- MODULE MCHmacAuth -----------------------------
(* An instance for TLC: one client with the default secret and one with a   *)
(* key id of its own and a clock that is ahead.                             *)
EXTENDS HmacAuth

ByTwo == {2}
TwoClients == {"c1", "c2"}
SecondIsAhead == [c \in TwoClients |-> IF c = "c1" THEN 0 ELSE 1]
TwoSecrets == {"shared", "own"}
SecondHasOwn == [c \in TwoClients |-> IF c = "c1" THEN "shared" ELSE "own"]
SecondHasKid == [c \in TwoClients |-> IF c = "c1" THEN "none" ELSE "k"]
TwoAreReplaced ==
    [r \in (TwoClients \cup {"server"}) \X TwoSecrets |->
       IF r \in {<<"c1", "shared">>, <<"server", "own">>} THEN 2 ELSE 1]
Ring == [kid \in {"k"} |-> "own"]
=============================================================================
