----------------------------- MODULE CallContract -----------------------------
(***************************************************************************)
(* What AttpTransmitter.send and request_stream promise the code that      *)
(* calls them, with no gate, no frames and no queues: a call is begun      *)
(* once, yields values the peer produced, in order and skipping no value,  *)
(* and ends once - with a result only if the peer concluded the exchange.  *)
(***************************************************************************)
EXTENDS Naturals, Sequences

CONSTANTS Calls,
          Values      \* of each call, the chunks its formatter makes a value of

VARIABLES outcome,    \* "none", "open", or how the call ended
          produced,   \* chunks the peer has produced, numbered from 1
          delivered,  \* chunk numbers handed to the loop body
          concluded   \* calls whose exchange the peer has ended

vars == <<outcome, produced, delivered, concluded>>

Init ==
    /\ outcome = [c \in Calls |-> "none"]
    /\ produced = [c \in Calls |-> 0]
    /\ delivered = [c \in Calls |-> <<>>]
    /\ concluded = {}

Begin(c) ==
    /\ outcome[c] = "none"
    /\ outcome' = [outcome EXCEPT ![c] = "open"]
    /\ UNCHANGED <<produced, delivered, concluded>>

Produce(c) ==
    /\ outcome[c] # "none" /\ c \notin concluded
    /\ produced' = [produced EXCEPT ![c] = @ + 1]
    /\ UNCHANGED <<outcome, delivered, concluded>>

Conclude(c) ==
    /\ outcome[c] # "none" /\ c \notin concluded
    /\ concluded' = concluded \cup {c}
    /\ UNCHANGED <<outcome, produced, delivered>>

\* The first value may be any produced one; after it none is skipped.
Follows(c, n) ==
    delivered[c] # <<>> =>
        LET last == delivered[c][Len(delivered[c])]
        IN  last < n /\ \A m \in Values[c] : ~(last < m /\ m < n)

Deliver(c) ==
    /\ outcome[c] = "open"
    /\ \E n \in Values[c] :
         /\ n \in 1 .. produced[c] /\ Follows(c, n)
         /\ delivered' = [delivered EXCEPT ![c] = Append(@, n)]
    /\ UNCHANGED <<outcome, produced, concluded>>

End(c) ==
    /\ outcome[c] = "open"
    /\ \/ c \in concluded /\ outcome' = [outcome EXCEPT ![c] = "value"]
       \/ \E o \in {"error", "abandoned"} : outcome' = [outcome EXCEPT ![c] = o]
    /\ UNCHANGED <<produced, delivered, concluded>>

Next == \E c \in Calls : Begin(c) \/ Produce(c) \/ Conclude(c) \/ Deliver(c) \/ End(c)
Spec == Init /\ [][Next]_vars
=============================================================================
