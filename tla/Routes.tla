------------------------------- MODULE Routes -------------------------------
(***************************************************************************)
(* AttpRouter: a node and the peers that serve one namespace to it. Each   *)
(* peer numbers its routes when its decorators are loaded (add_route) and  *)
(* tells them in READY (get_routes); the node keeps one remote table per   *)
(* role for all peers of the namespace (include_remote_routes), looks the  *)
(* route id of a call up in it (dispatch), and the peer finds its handler  *)
(* by that id (relevant_route). A peer may restart with other routes.      *)
(***************************************************************************)
EXTENDS Naturals, Sequences, FiniteSets, Lists

CONSTANTS
    Peers,
    Programs,  \* the programs a peer may run: the routes they add, in order
    Patterns,
    Namespace, \* the one the peers serve to the node
    MaxCalls   \* bound: calls on their way to one peer

Sides == {"client", "server"}
RouteTypes == {"message", "event", "connect", "disconnect"}

ASSUME RoutesAssumption ==
    /\ \A prog \in Programs : Len(prog) \in Nat
    /\ \A prog \in Programs : \A i \in 1 .. Len(prog) :
          /\ prog[i].type \in RouteTypes
          /\ prog[i].type \in {"message", "event"} => prog[i].pattern \in Patterns
    /\ MaxCalls \in Nat

-----------------------------------------------------------------------------
(* Tables.                                                                  *)

\* A hook for connect or disconnect gets 0, any other route the next index.
FirstIndex == 2
IsHook(route) == route.type \in {"connect", "disconnect"}
RouteId(prog, i) ==
    IF IsHook(prog[i]) THEN 0 ELSE FirstIndex + Cardinality({j \in 1 .. i - 1 : ~IsHook(prog[j])})
AddRoutes(prog) ==
    [i \in 1 .. Len(prog) |->
        [id |-> RouteId(prog, i), pattern |-> prog[i].pattern, type |-> prog[i].type, ns |-> prog[i].ns]]

NoRoute == [id |-> 0, pattern |-> "none", type |-> "none", ns |-> "none"]

\* The last of a table at some places, and the last of its namespace that has an
\* id, or a pattern and a type.
LastAt(table, places) ==
    IF places = {} THEN NoRoute ELSE table[CHOOSE i \in places : \A j \in places : j <= i]
Here(table) == {i \in 1 .. Len(table) : table[i].ns = Namespace}

GetRoutes(prog) == At(AddRoutes(prog), Here(AddRoutes(prog)))
RelevantRouteFault(prog, id) ==
    LET table == AddRoutes(prog) IN LastAt(table, {i \in 1 .. Len(table) : table[i].id = id})
RelevantRoute(prog, id) ==
    LET table == AddRoutes(prog) IN LastAt(table, {i \in Here(table) : table[i].id = id})
Dispatch(table, pattern, type) ==
    LastAt(table, {i \in Here(table) : table[i].pattern = pattern /\ table[i].type = type})

-----------------------------------------------------------------------------
VARIABLES
    role,    \* the node's role towards each peer, fixed by who dials whom
    program, \* what each peer runs
    session, \* the node's session with each peer
    remote,  \* the remote table of each role
    calls,   \* CALL and EMIT frames on their way to each peer
    outcome  \* what became of the last frame that arrived

routing == <<role, program, session, remote, calls, outcome>>

\* "checking": a server has set auth_flag and registered the session, but the
\* client's READY is still to be read. "rejecting": the ERR and DISCONNECT of a
\* mismatch are being written.
Registered(p) == session[p] \in {"checking", "open"} \cup (IF role[p] = "server" THEN {"rejecting"} ELSE {})

Wants == [pattern : Patterns, type : {"message", "event"}]
NoWant == [pattern |-> "none", type |-> "none"]
NoOutcome == [want |-> NoWant, open |-> FALSE, got |-> NoRoute, empty |-> TRUE]

RoutesInit ==
    /\ role \in [Peers -> Sides]
    /\ program \in [Peers -> Programs]
    /\ session = [p \in Peers |-> "none"]
    /\ remote = [x \in Sides |-> <<>>]
    /\ calls = [p \in Peers |-> <<>>]
    /\ outcome = NoOutcome

\* include_remote_routes. The digests of two tables agree when the tables do.
AcceptedFault(as, table) == TRUE
Accepted(as, table) == remote[as] = <<>> \/ remote[as] = table
IncludeRemoteRoutesFault(as, table) == remote' = [remote EXCEPT ![as] = @ \o table]
IncludeRemoteRoutes(as, table) ==
    remote' = IF remote[as] = <<>> THEN [remote EXCEPT ![as] = table] ELSE remote

\* A client reads READY before it registers the session.
ConnectAsClient(p) ==
    /\ session[p] = "none" /\ role[p] = "client"
    /\ LET table == GetRoutes(program[p])
       IN  /\ Accepted("client", table)
           /\ IncludeRemoteRoutes("client", table)
    /\ session' = [session EXCEPT ![p] = "open"]
    /\ UNCHANGED <<role, program, calls, outcome>>

\* A server registers it once the auth strategy has allowed the client.
ConnectAsServer(p) ==
    /\ session[p] = "none" /\ role[p] = "server"
    /\ session' = [session EXCEPT ![p] = "checking"]
    /\ UNCHANGED <<role, program, remote, calls, outcome>>

ReadReady(p) ==
    /\ session[p] = "checking"
    /\ LET table == GetRoutes(program[p])
       IN  \/ /\ Accepted("server", table)
              /\ IncludeRemoteRoutes("server", table)
              /\ session' = [session EXCEPT ![p] = "open"]
           \/ /\ ~Accepted("server", table)
              /\ session' = [session EXCEPT ![p] = "rejecting"]
              /\ UNCHANGED remote
    /\ UNCHANGED <<role, program, calls, outcome>>

\* The session ends, and what was on its way is lost; nothing clears remote.
Disconnect(p) ==
    /\ session[p] # "none"
    /\ session' = [session EXCEPT ![p] = "none"]
    /\ calls' = [calls EXCEPT ![p] = <<>>]
    /\ UNCHANGED <<role, program, remote, outcome>>

Redeploy(p) ==
    /\ session[p] = "none"
    /\ \E prog \in Programs : program' = [program EXCEPT ![p] = prog]
    /\ UNCHANGED <<role, session, remote, calls, outcome>>

-----------------------------------------------------------------------------
(* Calls.                                                                   *)

\* send_call and send_event refuse an id below 1.
Refuses(id) == id < 1
Write(p, want, id) ==
    calls' = [calls EXCEPT ![p] = Append(@, [want |-> want, id |-> id, open |-> session[p] = "open"])]

\* The balancer has chosen the session of p. A pattern that is not in the table
\* raises 404 on the spot, or for an event does nothing.
Send(p, want) ==
    /\ Registered(p) /\ Len(calls[p]) < MaxCalls
    /\ LET route == Dispatch(remote[role[p]], want.pattern, want.type)
       IN  route # NoRoute /\ ~Refuses(route.id) /\ Write(p, want, route.id)
    /\ UNCHANGED <<role, program, session, remote, outcome>>

\* A program may call send_call itself, with an id of its own.
SendCall(p, id) ==
    /\ Registered(p) /\ Len(calls[p]) < MaxCalls
    /\ ~Refuses(id) /\ Write(p, NoWant, id)
    /\ UNCHANGED <<role, program, session, remote, outcome>>

\* The peer's event bus: 404 without a route, 405 or silence for another type.
Arrive(p) ==
    /\ calls[p] # <<>>
    /\ outcome' = [want |-> Head(calls[p]).want, open |-> Head(calls[p]).open,
                   got |-> RelevantRoute(program[p], Head(calls[p]).id),
                   empty |-> GetRoutes(program[p]) = <<>>]
    /\ calls' = [calls EXCEPT ![p] = Tail(@)]
    /\ UNCHANGED <<role, program, session, remote>>

-----------------------------------------------------------------------------
RoutesNext ==
    \E p \in Peers :
        \/ ConnectAsClient(p) \/ ConnectAsServer(p) \/ ReadReady(p)
        \/ Disconnect(p) \/ Redeploy(p) \/ Arrive(p)
        \/ \E want \in Wants : Send(p, want)
        \/ \E id \in 0 .. FirstIndex : SendCall(p, id)

RoutesSpec == RoutesInit /\ [][RoutesNext]_routing

-----------------------------------------------------------------------------
(* Properties.                                                              *)

RoutesTypeOK ==
    /\ role \in [Peers -> Sides]
    /\ program \in [Peers -> Programs]
    /\ session \in [Peers -> {"none", "checking", "open", "rejecting"}]
    /\ remote \in [Sides -> {GetRoutes(prog) : prog \in Programs} \cup {<<>>}]
    /\ calls \in [Peers -> Seq([want : Wants \cup {NoWant}, id : Nat, open : BOOLEAN])]
    /\ outcome.want \in Wants \cup {NoWant}

\* Whoever redeploys and in whatever order peers come and go, the table the node
\* keeps is the table of each peer it has an accepted session with, unless the
\* peer has no routes at all.
TablesAgree ==
    \A p \in Peers :
        session[p] = "open" => GetRoutes(program[p]) \in {<<>>, remote[role[p]]}

\* A frame sent by pattern over an accepted session runs the handler the peer
\* registered last for that pattern, and misses only at a peer without routes.
HandlerIsMeant ==
    outcome.open /\ outcome.want # NoWant =>
        \/ outcome.got.pattern = outcome.want.pattern /\ outcome.got.type = outcome.want.type
        \/ outcome.got = NoRoute /\ outcome.empty

-----------------------------------------------------------------------------
(* What the code's own documentation says and the code does not keep.       *)

\* include_remote_routes refuses a table that does not match: no peer runs a
\* handler of another pattern than the caller asked for.
NoForeignHandler ==
    (outcome.want # NoWant /\ outcome.got.type = outcome.want.type) => outcome.got.pattern = outcome.want.pattern
=============================================================================
