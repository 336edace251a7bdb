------------------------------- MODULE Session -------------------------------
(***************************************************************************)
(* One connection and the two session drivers at its ends: the handshake   *)
(* AUTH, READY, READY, the traffic after it, and every way it ends.        *)
(*                                                                         *)
(* Three coroutines of a driver interleave: start followed by listen (run  *)
(* by on_connection or initiate_connection), the event handler _on_event,  *)
(* and start_listener, which reports a lost connection; terminate_all adds *)
(* a fourth. They suspend in socket writes, in the auth strategy, in       *)
(* auth_flag.wait and in incoming_listener.get; a step runs from one       *)
(* suspension to the next. How the transport cuts the bytes it reads into  *)
(* batches is arbitrary, and it runs one _on_event at a time.              *)
(***************************************************************************)
EXTENDS Naturals, Sequences

CONSTANTS MaxSent,  \* bound: frames the application at each end sends
          Stopping  \* the ends whose program may be shut down

ASSUME SessionAssumption ==
    /\ MaxSent \in [{"client", "server"} -> Nat]
    /\ Stopping \subseteq {"client", "server"}

VARIABLES
    link,       \* the connection: "up" or "down"
    wire,       \* events on their way to each end
    session,    \* whether _session is set
    reading,    \* whether start_listener still runs
    flag,       \* auth_flag
    signed,     \* whether the client has assigned self.authenticator
    start,      \* where the coroutine of start and listen stands
    handler,    \* where _on_event stands
    shutdown,   \* where terminate_all stands
    incoming,   \* incoming_listener
    registered, \* whether the session is in NamespaceDispatcher
    sent,       \* frames each end's application has sent
    allowed,    \* history: the auth strategy allowed the client
    stillborn,  \* history: the session was dead when it was registered
    delivered,  \* history: frames listen passed to the receiver
    skipped     \* history: frames an ERR of their batch took with it

net == <<link, wire>>
life == <<session, reading, flag, registered>>
past == <<allowed, stillborn, delivered, skipped>>
vars == <<net, life, signed, start, handler, shutdown, incoming, sent, past>>

Ends == {"client", "server"}
Other(x) == IF x = "client" THEN "server" ELSE "client"

Event(kind) == [kind |-> kind, n |-> 0]
\* What an application sends is numbered: data, and the errors of the event bus.
Frames == [kind : {"DATA", "ERR"}, n : 1 .. MaxSent["client"] + MaxSent["server"]]
Events == {Event(k) : k \in {"AUTH", "READY", "ERR", "DISCONNECT"}} \cup Frames
Numbers(q) == {q[i].n : i \in 1 .. Len(q)} \ {0}

\* What stop_listener puts into incoming_listener.
Sentinel == Event("NONE")

Init ==
    /\ link = "up"
    /\ wire = [x \in Ends |-> <<>>]
    /\ session = [x \in Ends |-> TRUE]
    /\ reading = [x \in Ends |-> TRUE]
    /\ flag = [x \in Ends |-> FALSE]
    /\ signed = FALSE
    /\ start = [x \in Ends |-> IF x = "client" THEN "new" ELSE "waiting"]
    /\ handler = [x \in Ends |-> "free"]
    /\ shutdown = [x \in Ends |-> "no"]
    /\ incoming = [x \in Ends |-> <<>>]
    /\ registered = [x \in Ends |-> FALSE]
    /\ sent = [x \in Ends |-> 0]
    /\ allowed = FALSE
    /\ stillborn = [x \in Ends |-> FALSE]
    /\ delivered = [x \in Ends |-> <<>>]
    /\ skipped = [x \in Ends |-> {}]

-----------------------------------------------------------------------------
(* What the coroutines share.                                              *)

\* The wires after x has handled its first event (if any) and written e.
Written(w, x, e) == IF link = "up" THEN [w EXCEPT ![Other(x)] = Append(@, e)] ELSE w
Read(x) == [wire EXCEPT ![x] = Tail(@)]
Goto(x, phase) == handler' = [handler EXCEPT ![x] = phase]

\* auth_flag.set resolves the waiter at once; what start does with that is its
\* own, later step.
WokenFault(x) == start
Woken(x) == [start EXCEPT ![x] = IF @ = "waiting" THEN "woken" ELSE @]

\* stop_listener, for whoever still listens.
FarewellFault(x) == <<>>
Farewell(x) == IF session[x] THEN <<Sentinel>> ELSE <<>>

\* handle_disconnect, with q the frames queued so far: it never suspends.
Drop(x, q) ==
    /\ incoming' = [incoming EXCEPT ![x] = q \o Farewell(x)]
    /\ link' = IF session[x] THEN "down" ELSE link
    /\ reading' = [reading EXCEPT ![x] = @ /\ ~session[x]]
    /\ session' = [session EXCEPT ![x] = FALSE]
    /\ flag' = [flag EXCEPT ![x] = FALSE]
    /\ registered' = [registered EXCEPT ![x] = FALSE]

\* close up to its write, or to its end when there is no session any more; w
\* are the wires before the write.
BeginClose(x, w) ==
    /\ IF session[x]
       THEN /\ incoming' = [incoming EXCEPT ![x] = Append(@, Sentinel)]
            /\ reading' = [reading EXCEPT ![x] = FALSE]
            /\ wire' = Written(w, x, Event("DISCONNECT"))
            /\ UNCHANGED <<session, flag, registered>>
       ELSE /\ flag' = [flag EXCEPT ![x] = FALSE]
            /\ registered' = [registered EXCEPT ![x] = FALSE]
            /\ wire' = w
            /\ UNCHANGED <<session, incoming, reading>>
    /\ UNCHANGED link
Closing(x, done) == IF session[x] THEN "closing" ELSE done

\* The rest of close. The write may have raised, and _session may be None by
\* now: either way it raises and leaves the driver as it is.
CloseRaises(x) == (~session[x] \/ link = "down") /\ UNCHANGED <<life, link>>
CloseReturnsFault(x) ==
    /\ session[x]
    /\ link' = "down"
    /\ session' = [session EXCEPT ![x] = FALSE]
    /\ flag' = [flag EXCEPT ![x] = FALSE]
    /\ UNCHANGED <<reading, registered>>
CloseReturns(x) ==
    /\ session[x]
    /\ link' = "down"
    /\ session' = [session EXCEPT ![x] = FALSE]
    /\ flag' = [flag EXCEPT ![x] = FALSE]
    /\ registered' = [registered EXCEPT ![x] = FALSE]
    /\ UNCHANGED reading

-----------------------------------------------------------------------------
(* start, then add_session, then listen.                                   *)

SendAuth ==
    /\ start["client"] = "new"
    /\ start' = [start EXCEPT !["client"] = IF session["client"] THEN "sending" ELSE "ended"]
    /\ wire' = IF session["client"] THEN Written(wire, "client", Event("AUTH")) ELSE wire
    /\ UNCHANGED <<link, life, signed, handler, shutdown, incoming, sent, past>>

\* The write of AUTH completes, or raises out of initiate_connection.
AuthSent ==
    /\ start["client"] = "sending"
    /\ \/ /\ signed' = TRUE
          /\ start' = [start EXCEPT !["client"] = IF flag["client"] THEN "woken" ELSE "waiting"]
       \/ /\ link = "down"
          /\ start' = [start EXCEPT !["client"] = "ended"]
          /\ UNCHANGED signed
    /\ UNCHANGED <<net, life, handler, shutdown, incoming, sent, past>>

StartTimesOutFault(x) ==
    /\ start[x] = "waiting" /\ x = "server"
    /\ BeginClose(x, wire)
    /\ start' = [start EXCEPT ![x] = Closing(x, "ended")]
    /\ UNCHANGED <<signed, handler, shutdown, sent, past>>
StartTimesOut(x) ==
    /\ start[x] = "waiting"
    /\ BeginClose(x, wire)
    /\ start' = [start EXCEPT ![x] = Closing(x, "ended")]
    /\ UNCHANGED <<signed, handler, shutdown, sent, past>>

StartClosed(x) ==
    /\ start[x] = "closing"
    /\ CloseReturns(x) \/ CloseRaises(x)
    /\ start' = [start EXCEPT ![x] = "ended"]
    /\ UNCHANGED <<wire, signed, handler, shutdown, incoming, sent, past>>

\* listen ends at once when auth_flag was cleared again since it was set.
Register(x) ==
    /\ start[x] = "woken"
    /\ registered' = [registered EXCEPT ![x] = TRUE]
    /\ stillborn' = [stillborn EXCEPT ![x] = ~session[x]]
    /\ start' = [start EXCEPT ![x] = IF flag[x] THEN "listening" ELSE "ended"]
    /\ UNCHANGED <<net, session, reading, flag, signed, handler, shutdown, incoming, sent,
                   allowed, delivered, skipped>>

\* listen wakes: it takes what is queued up to None; if auth_flag is clear, it
\* takes one frame and stops.
Listen(x) ==
    /\ start[x] = "listening" /\ incoming[x] # <<>>
    /\ LET q == incoming[x]
           most == IF flag[x] THEN Len(q) ELSE 1
           none == {i \in 1 .. most : q[i].kind = "NONE"}
           last == IF none = {} THEN most ELSE (CHOOSE i \in none : \A j \in none : i <= j) - 1
       IN  /\ delivered' = [delivered EXCEPT ![x] = @ \o SubSeq(q, 1, last)]
           /\ incoming' = [incoming EXCEPT ![x] = SubSeq(q, (IF none = {} THEN last ELSE last + 1) + 1, Len(q))]
           /\ start' = [start EXCEPT ![x] = IF flag[x] /\ none = {} THEN "listening" ELSE "ended"]
    /\ UNCHANGED <<net, life, signed, handler, shutdown, sent, allowed, stillborn, skipped>>

-----------------------------------------------------------------------------
(* _on_event.                                                              *)

Handles(x, kind) == handler[x] = "free" /\ wire[x] # <<>> /\ Head(wire[x]).kind = kind

OnDisconnect(x) ==
    /\ Handles(x, "DISCONNECT")
    /\ Drop(x, incoming[x])
    /\ wire' = Read(x)
    /\ UNCHANGED <<signed, start, handler, shutdown, sent, past>>

\* An ERR returns from the handler, and the rest of its batch is never looked at.
OnErr(x) ==
    /\ Handles(x, "ERR")
    /\ incoming' = [incoming EXCEPT ![x] = Append(@, Head(wire[x]))]
    /\ \E k \in 1 .. Len(wire[x]) :
         /\ wire' = [wire EXCEPT ![x] = SubSeq(@, k + 1, Len(@))]
         /\ skipped' = [skipped EXCEPT ![x] = @ \cup Numbers(SubSeq(wire[x], 2, k))]
    /\ UNCHANGED <<link, life, signed, start, handler, shutdown, sent, allowed, stillborn, delivered>>

AdmitsFault(x) == flag[x] /\ start[x] = "listening"
Admits(x) == flag[x]
OnData(x) ==
    /\ Handles(x, "DATA")
    /\ incoming' = [incoming EXCEPT ![x] = IF Admits(x) THEN Append(@, Head(wire[x])) ELSE @]
    /\ wire' = Read(x)
    /\ UNCHANGED <<link, life, signed, start, handler, shutdown, sent, past>>

\* The server starts the auth strategy, which may take its time.
OnAuth ==
    /\ Handles("server", "AUTH")
    /\ wire' = Read("server")
    /\ IF flag["server"] THEN UNCHANGED handler ELSE Goto("server", "checking")
    /\ UNCHANGED <<link, life, signed, start, shutdown, incoming, sent, past>>

\* auth_flag is set, whatever became of the connection, before READY is written.
GrantsFault(yes) == TRUE
Grants(yes) == yes
Checked(yes) ==
    /\ handler["server"] = "checking"
    /\ allowed' = (allowed \/ yes)
    /\ flag' = [flag EXCEPT !["server"] = Grants(yes)]
    /\ start' = IF Grants(yes) THEN Woken("server") ELSE start
    /\ wire' = IF session["server"]
               THEN Written(wire, "server", Event(IF Grants(yes) THEN "READY" ELSE "ERR")) ELSE wire
    /\ Goto("server", IF session["server"] THEN "greeting" ELSE "free")
    /\ UNCHANGED <<link, session, reading, registered, signed, shutdown, incoming, sent,
                   stillborn, delivered, skipped>>

\* The routes in READY differ from those kept for the namespace: an ERR, then
\* close; without a session the ERR raises at once.
OnReadyMismatch(x) ==
    /\ Handles(x, "READY")
    /\ \/ /\ session[x]
          /\ wire' = Written(Read(x), x, Event("ERR"))
          /\ incoming' = [incoming EXCEPT ![x] = Append(@, Event("READY"))]
          /\ Goto(x, "rejecting")
          /\ UNCHANGED <<life, link>>
       \/ /\ ~session[x]
          /\ Drop(x, Append(incoming[x], Event("READY")))
          /\ wire' = Read(x) /\ UNCHANGED handler
    /\ UNCHANGED <<signed, start, shutdown, sent, past>>

OnServerReady ==
    /\ Handles("server", "READY")
    /\ incoming' = [incoming EXCEPT !["server"] = Append(@, Event("READY"))]
    /\ wire' = Read("server")
    /\ UNCHANGED <<link, life, signed, start, handler, shutdown, sent, past>>

\* The client answers READY with READY. Reading self.authenticator raises while
\* start has not assigned it, and so does the write without a session.
Answers == signed /\ session["client"]
OnClientReady ==
    /\ Handles("client", "READY")
    /\ start' = Woken("client")
    /\ IF Answers
       THEN /\ flag' = [flag EXCEPT !["client"] = TRUE]
            /\ incoming' = [incoming EXCEPT !["client"] = Append(@, Event("READY"))]
            /\ wire' = Written(Read("client"), "client", Event("READY"))
            /\ Goto("client", "greeting")
            /\ UNCHANGED <<link, session, reading, registered>>
       ELSE /\ Drop("client", Append(incoming["client"], Event("READY")))
            /\ wire' = Read("client") /\ UNCHANGED handler
    /\ UNCHANGED <<signed, shutdown, sent, past>>

\* The write of READY, or of the server's 401, ends. If it raises, the server
\* only logs that, the client disconnects.
Greeted(x) ==
    /\ handler[x] = "greeting"
    /\ Goto(x, "free")
    /\ \/ UNCHANGED <<life, link, incoming>>
       \/ x = "client" /\ link = "down" /\ Drop(x, incoming[x])
    /\ UNCHANGED <<wire, signed, start, shutdown, sent, past>>

\* The ERR of a mismatch is out: close. If the ERR raised, the client
\* disconnects, the server closes all the same.
Rejected(x) ==
    /\ handler[x] = "rejecting"
    /\ \/ /\ BeginClose(x, wire)
          /\ Goto(x, Closing(x, "free"))
       \/ /\ x = "client" /\ link = "down" /\ Drop(x, incoming[x])
          /\ UNCHANGED wire /\ Goto(x, "free")
    /\ UNCHANGED <<signed, start, shutdown, sent, past>>

\* If that close raises, the client disconnects and the server closes once more.
HandlerClosed(x) ==
    /\ handler[x] \in {"closing", "reclosing"}
    /\ \/ /\ CloseReturns(x)
          /\ Goto(x, "free") /\ UNCHANGED <<wire, incoming>>
       \/ /\ CloseRaises(x)
          /\ x = "server" /\ handler[x] = "reclosing"
          /\ Goto(x, "free") /\ UNCHANGED <<wire, incoming>>
       \/ /\ ~session[x] \/ link = "down"
          /\ x = "client" /\ Drop(x, incoming[x])
          /\ Goto(x, "free") /\ UNCHANGED wire
       \/ /\ ~session[x] \/ link = "down"
          /\ x = "server" /\ handler[x] = "closing" /\ BeginClose(x, wire)
          /\ Goto(x, IF session[x] THEN "reclosing" ELSE "free")
    /\ UNCHANGED <<signed, start, shutdown, sent, past>>

-----------------------------------------------------------------------------
(* The rest of the program and of the world.                               *)

\* A frame of the application, over a session the balancer hands out.
Send(x) ==
    /\ registered[x] /\ session[x] /\ link = "up" /\ sent[x] < MaxSent[x]
    /\ sent' = [sent EXCEPT ![x] = @ + 1]
    /\ \E e \in Frames : e.n = sent'[x] /\ wire' = Written(wire, x, e)
    /\ UNCHANGED <<link, life, signed, start, handler, shutdown, incoming, past>>

\* The transmitter meets a session without a session id and drops it.
Rerotate(x) ==
    /\ registered[x] /\ ~session[x]
    /\ registered' = [registered EXCEPT ![x] = FALSE]
    /\ UNCHANGED <<net, session, reading, flag, signed, start, handler, shutdown, incoming, sent, past>>

\* terminate_all closes the sessions it finds registered.
Terminate(x) ==
    /\ x \in Stopping /\ shutdown[x] = "no" /\ registered[x]
    /\ BeginClose(x, wire)
    /\ shutdown' = [shutdown EXCEPT ![x] = Closing(x, "done")]
    /\ UNCHANGED <<signed, start, handler, sent, past>>

Terminated(x) ==
    /\ shutdown[x] = "closing"
    /\ CloseReturns(x) \/ CloseRaises(x)
    /\ shutdown' = [shutdown EXCEPT ![x] = "done"]
    /\ UNCHANGED <<wire, signed, start, handler, incoming, sent, past>>

Break ==
    /\ link = "up"
    /\ link' = "down"
    /\ wire' = [x \in Ends |-> <<>>]
    /\ UNCHANGED <<life, signed, start, handler, shutdown, incoming, sent, past>>

\* start_listener raises once everything sent before is read.
Lost(x) ==
    /\ link = "down" /\ reading[x] /\ wire[x] = <<>>
    /\ Drop(x, incoming[x])
    /\ UNCHANGED <<wire, signed, start, handler, shutdown, sent, past>>

-----------------------------------------------------------------------------
OnEvent(x) ==
    \/ OnDisconnect(x) \/ OnErr(x) \/ OnData(x) \/ OnReadyMismatch(x)
    \/ Greeted(x) \/ Rejected(x) \/ HandlerClosed(x)
OnHello == OnAuth \/ (\E yes \in BOOLEAN : Checked(yes)) \/ OnServerReady \/ OnClientReady
StartStep(x) == Register(x) \/ Listen(x) \/ StartClosed(x)

Next ==
    \/ SendAuth \/ AuthSent \/ OnHello \/ Break
    \/ \E x \in Ends :
         \/ StartTimesOut(x) \/ StartStep(x) \/ OnEvent(x)
         \/ Send(x) \/ Rerotate(x) \/ Terminate(x) \/ Terminated(x) \/ Lost(x)

Spec == Init /\ [][Next]_vars

\* The event loop runs every coroutine that can go on, writes end, and a lost
\* connection is noticed. No timer, no send and no shutdown is relied upon.
FairSpec ==
    /\ Spec
    /\ WF_vars(AuthSent) /\ WF_vars(OnHello)
    /\ \A x \in Ends : WF_vars(StartStep(x)) /\ WF_vars(OnEvent(x)) /\ WF_vars(Lost(x))

-----------------------------------------------------------------------------
(* Properties.                                                             *)

TypeOK ==
    /\ link \in {"up", "down"}
    /\ wire \in [Ends -> Seq(Events)]
    /\ session \in [Ends -> BOOLEAN]
    /\ reading \in [Ends -> BOOLEAN]
    /\ flag \in [Ends -> BOOLEAN]
    /\ signed \in BOOLEAN
    /\ start \in [Ends -> {"new", "sending", "waiting", "woken", "closing", "listening", "ended"}]
    /\ handler \in [Ends -> {"free", "checking", "greeting", "rejecting", "closing", "reclosing"}]
    /\ shutdown \in [Ends -> {"no", "closing", "done"}]
    /\ incoming \in [Ends -> Seq(Events \cup {Event("NONE")})]
    /\ registered \in [Ends -> BOOLEAN]
    /\ sent \in [Ends -> Nat] /\ \A x \in Ends : sent[x] <= MaxSent[x]
    /\ allowed \in BOOLEAN
    /\ stillborn \in [Ends -> BOOLEAN]
    /\ delivered \in [Ends -> Seq(Events)]
    /\ skipped \in [Ends -> SUBSET (Nat \ {0})]

\* Neither end treats the connection as authenticated, nor offers it to the
\* balancer, unless the server's strategy has allowed it.
AuthenticatedMeansAllowed ==
    \A x \in Ends : (flag[x] \/ registered[x]) => allowed

\* A session that is registered alive is not found in the registry once it is
\* dead, however many coroutines disconnect and close it at the same time.
DeadSessionLeaves ==
    \A x \in Ends : (registered[x] /\ ~session[x]) => stillborn[x]

\* The receiver gets the frames of a connection in order, and of those before
\* the last one it got none is missing but those an ERR took with it.
FramesAccounted ==
    \A x \in Ends : \A i \in 1 .. Len(delivered[x]) :
        LET n == delivered[x][i].n
        IN  /\ \A j \in 1 .. i - 1 : n > 0 => delivered[x][j].n < n
            /\ \A m \in 1 .. n : m \in Numbers(delivered[x]) \cup skipped[x]

\* Once the session is gone, listen returns: no coroutine is left waiting for
\* frames of a dead connection for ever. (That P leads to ~P is said as []<>~P.)
ListenEnds ==
    \A x \in Ends : []<>(start[x] = "listening" => session[x])

\* A client the server has allowed does not sit out its timer: it goes on, or
\* the connection is gone.
AllowedClientProceeds ==
    []<>(allowed /\ start["client"] = "waiting" => link = "down")

\* With a timer that fires, no end is stuck in the handshake: whatever is refused,
\* lost or closed meanwhile, start and on_connection come to listen or to an end.
HandshakeEnds ==
    \A x \in Ends : WF_vars(StartTimesOut(x)) =>
        []<>(start[x] \notin {"sending", "waiting", "woken", "closing"})
=============================================================================
