------------------------------- MODULE EventBus -------------------------------
(***************************************************************************)
(* The event buses of two connected nodes, and the error frames they send  *)
(* each other. A frame that fails is answered with an ERR under the same   *)
(* route id; the node that gets the ERR looks the id up in its own routes, *)
(* numbered by itself, and runs the error handler of whatever it finds     *)
(* there; if that raises, an ERR goes back, and one goes back as well when *)
(* nothing is found and the frame has a correlation id: the 404 carries an *)
(* AttpCommand, which cannot be serialised, so that building it raises and *)
(* the caller's id gets a 500 instead.                                     *)
(*                                                                         *)
(* Each node has one consumer (FrameDispatcher), so it deals with a frame  *)
(* to the end before it takes the next; what it writes appears at the end  *)
(* of that step. The connection keeps the order of frames and does not     *)
(* break here; that a reply may come before its call is registered is      *)
(* AckGate's subject, and here a call is registered when it is sent. A     *)
(* STREAM frame stands for all the frames of a stream that ended.          *)
(***************************************************************************)
EXTENDS Naturals, Sequences

CONSTANTS Nodes,
          Other,      \* the node at the other end of a node's connection
          Exchanges,  \* what the users of the two nodes begin; ids of the calls
          NoId,       \* the correlation id of a frame that carries none
          Ids,        \* the route ids the nodes may use
          MaxHops     \* bound: where the history counter `hop` stops

ASSUME EventBusAssumption ==
    /\ Other \in [Nodes -> Nodes]
    /\ \A n \in Nodes : Other[n] # n /\ Other[Other[n]] = n
    /\ NoId \notin Exchanges
    /\ Ids \subseteq Nat
    /\ MaxHops \in Nat /\ MaxHops > 2

VARIABLES
    routes,    \* what each node's router finds under each id
    handlers,  \* what the error handler of the route found there does
    begun,     \* the frame each exchange began with, once it has
    outcome,   \* how each exchange that awaits an answer ended for its caller
    link       \* frames on their way to, or queued at, each node

vars == <<routes, handlers, begun, outcome, link>>
fixed == <<routes, handlers>>

Kinds == {"CALL", "EMIT", "ERR", "ACK", "STREAM"}
\* A "stream" is a message route whose handler returns a StreamObject.
Types == {"none", "message", "stream", "event", "hook"}
Uses == {"send", "request_stream", "emit", "report"}
Effects == {"none", "works", "raises"}

\* `about` is the exchange a frame belongs to and `hop` counts the ERR frames
\* that led to it, itself included: neither is on the wire.
Frames == [kind : Kinds, id : Ids, corr : Exchanges \cup {NoId},
           about : Exchanges, hop : 0 .. MaxHops]
NotYet == [kind |-> "none"]

Init ==
    /\ routes \in [Nodes -> [Ids -> Types]]
    /\ \A n \in Nodes, i \in Ids : routes[n][i] = "hook" <=> i = 0 /\ routes[n][i] # "none"
    /\ handlers \in [Nodes -> [Ids -> Effects]]
    /\ \A n \in Nodes, i \in Ids : routes[n][i] \in {"none", "hook"} => handlers[n][i] = "none"
    /\ begun = [x \in Exchanges |-> NotYet]
    /\ outcome = [x \in Exchanges |-> "none"]
    /\ link = [n \in Nodes |-> <<>>]

-----------------------------------------------------------------------------
(* What users of the two nodes begin. *)

Begin(n, x, use, frame) ==
    /\ begun[x] = NotYet
    /\ begun' = [begun EXCEPT ![x] = [kind |-> use, id |-> frame.id, by |-> n]]
    /\ link' = [link EXCEPT ![Other[n]] = Append(@, frame)]
    /\ UNCHANGED fixed

\* send_call and send_event refuse an id below 1. The frame of a call does not
\* say whether the caller awaits one value or a stream.
Call(n, x, use, i) ==
    /\ i >= 1
    /\ Begin(n, x, use, [kind |-> "CALL", id |-> i, corr |-> x, about |-> x, hop |-> 0])
    /\ outcome' = [outcome EXCEPT ![x] = "waiting"]

Emit(n, x, i) ==
    /\ i >= 1
    /\ Begin(n, x, "emit", [kind |-> "EMIT", id |-> i, corr |-> NoId, about |-> x, hop |-> 0])
    /\ UNCHANGED outcome

\* send_error, called by a program: its route id is 0 unless it gives one.
Report(n, x, i) ==
    /\ Begin(n, x, "report", [kind |-> "ERR", id |-> i, corr |-> NoId, about |-> x, hop |-> 1])
    /\ UNCHANGED outcome

\* wait_for_ack's timer.
Timeout(x) ==
    /\ outcome[x] = "waiting"
    /\ outcome' = [outcome EXCEPT ![x] = "timeout"]
    /\ UNCHANGED <<fixed, begun, link>>

-----------------------------------------------------------------------------
(* One turn of _run at node n. *)

Up(hop) == IF hop < MaxHops THEN hop + 1 ELSE hop
Refusal(f) == [f EXCEPT !.kind = "ERR", !.hop = Up(f.hop)]

\* The frame is taken, and at most one goes back.
Reply(n, g) ==
    link' = [link EXCEPT ![n] = Tail(@), ![Other[n]] = Append(@, g)]
Silence(n) == link' = [link EXCEPT ![n] = Tail(@)]

\* relevant_route finds nothing: a frame with a correlation id is answered, any
\* other is dropped.
RouteMissingFault(n, f) ==
    /\ routes[n][f.id] = "none"
    /\ Reply(n, Refusal(f))
RouteMissing(n, f) ==
    /\ routes[n][f.id] = "none"
    /\ \/ f.corr # NoId /\ Reply(n, Refusal(f))
       \/ f.corr = NoId /\ Silence(n)

\* 405 for a route of another type, else the handler's result, the stream it
\* returns, or its exception, which may come after some chunks.
HandleCallFault(n, f) ==
    /\ f.kind = "CALL" /\ routes[n][f.id] # "none"
    /\ \/ routes[n][f.id] = "message" /\ Reply(n, [f EXCEPT !.kind = "ACK"])
       \/ routes[n][f.id] = "stream" /\ Reply(n, [f EXCEPT !.kind = "STREAM"])
       \/ Reply(n, [Refusal(f) EXCEPT !.corr = NoId])
HandleCall(n, f) ==
    /\ f.kind = "CALL" /\ routes[n][f.id] # "none"
    /\ \/ routes[n][f.id] = "message" /\ Reply(n, [f EXCEPT !.kind = "ACK"])
       \/ routes[n][f.id] = "stream" /\ Reply(n, [f EXCEPT !.kind = "STREAM"])
       \/ Reply(n, Refusal(f))

\* An event for a route of another type is dropped; a handler may raise.
HandleEmit(n, f) ==
    /\ f.kind = "EMIT" /\ routes[n][f.id] # "none"
    /\ \/ Silence(n)
       \/ routes[n][f.id] = "event" /\ Reply(n, Refusal(f))

\* The error handler of the pattern, if there is one. Hooks have none.
HandleErr(n, f) ==
    /\ f.kind = "ERR" /\ routes[n][f.id] # "none"
    /\ \/ handlers[n][f.id] \in {"none", "works"} /\ Silence(n)
       \/ handlers[n][f.id] = "raises" /\ Reply(n, Refusal(f))

Answers == {"ACK", "STREAM"}
HandleAck(n, f) == f.kind \in Answers /\ Silence(n)

\* handle_response: the gate of the node that made the call takes the frame to
\* the waiter. send passes over the frames of a stream; request_stream takes
\* an ACK for an error.
Ends(n, f) ==
    /\ f.kind \in Answers \cup {"ERR"} /\ f.corr # NoId
    /\ begun[f.corr].by = n /\ outcome[f.corr] = "waiting"
    /\ f.kind = "STREAM" => begun[f.corr].kind = "request_stream"
IsAnswer(f) == f.kind = (IF begun[f.corr].kind = "send" THEN "ACK" ELSE "STREAM")
Feed(n, f) ==
    outcome' = IF Ends(n, f)
               THEN [outcome EXCEPT ![f.corr] = IF IsAnswer(f) THEN "value" ELSE "error"]
               ELSE outcome

Run(n) ==
    /\ link[n] # <<>>
    /\ LET f == Head(link[n])
       IN  /\ Feed(n, f)
           /\ \/ f.kind \notin Answers /\ RouteMissing(n, f)
              \/ HandleCall(n, f) \/ HandleEmit(n, f) \/ HandleErr(n, f) \/ HandleAck(n, f)
    /\ UNCHANGED <<fixed, begun>>

-----------------------------------------------------------------------------
Users ==
    \E n \in Nodes, x \in Exchanges, i \in Ids :
        \/ \E use \in {"send", "request_stream"} : Call(n, x, use, i)
        \/ Emit(n, x, i)
        \/ Report(n, x, i)
Next == Users \/ (\E x \in Exchanges : Timeout(x)) \/ (\E n \in Nodes : Run(n))
Spec == Init /\ [][Next]_vars

\* The consumers run and handlers return; users and timers need not act.
FairSpec == Spec /\ \A n \in Nodes : WF_vars(Run(n))

-----------------------------------------------------------------------------
(* Properties. *)

TypeOK ==
    /\ routes \in [Nodes -> [Ids -> Types]]
    /\ handlers \in [Nodes -> [Ids -> Effects]]
    /\ begun \in [Exchanges -> [kind : Uses, id : Ids, by : Nodes] \cup {NotYet}]
    /\ outcome \in [Exchanges -> {"none", "waiting", "value", "error", "timeout"}]
    /\ link \in [Nodes -> Seq(Frames)]

Raises(n, i) == routes[n][i] # "none" /\ handlers[n][i] = "raises"
Returns(n, f) == Raises(n, f.id) \/ (routes[n][f.id] = "none" /\ f.corr # NoId)

\* However the two tables number their routes and whichever error handlers
\* raise: one failure makes at most two ERR frames, the report and one answer to
\* it, unless both nodes send back an error of that id and call, because the
\* error handler found there raises or because the id of a call is in neither
\* table. Then there is no end to them.
ErrorsAreBounded ==
    \A n \in Nodes : \A k \in 1 .. Len(link[n]) :
        LET f == link[n][k] IN f.hop > 2 => Returns(n, f) /\ Returns(Other[n], f)

\* With no help from its timer, a call is settled, whether or not the callee has
\* the route, and whatever error frames of other exchanges keep the two
\* consumers busy. A send to a route that streams is not: it has its timer only.
CallIsSettled ==
    \A x \in Exchanges :
        /\ outcome[x] = "waiting"
        /\ begun[x].kind = "send" => routes[Other[begun[x].by]][begun[x].id] # "stream"
        ~> outcome[x] # "waiting"
=============================================================================
