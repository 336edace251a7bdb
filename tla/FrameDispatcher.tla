--------------------------- MODULE FrameDispatcher ---------------------------
(***************************************************************************)
(* AttpFrameDispatcher: one asyncio task per receiver takes the frames of  *)
(* every session that feeds it, one at a time, and runs EventBus.emit and  *)
(* the user's handler to the end before it takes the next. The sessions a  *)
(* node accepts in a namespace feed one receiver, those it dials another.  *)
(* A task suspends in receiver.get, in the handler, and in each socket     *)
(* write; the code between two of these is one step.                       *)
(*                                                                         *)
(* A handler may itself call a peer (transmitter.send) and wait; the reply *)
(* comes in through a receiver like any other frame. What the reply does   *)
(* to the waiting call is AckGate's subject; here it only wakes the        *)
(* handler. Frames of one session are numbered in their order of arrival.  *)
(***************************************************************************)
EXTENDS Naturals, Sequences

CONSTANTS Sessions, Receivers,
          ReceiverOf,  \* the receiver of a session's namespace, on its side
          MaxFrames,   \* bound: frames any session delivers
          Quota,       \* bound: frames each session delivers
          MaxTasks,    \* bound: consumer tasks ever created
          MaxAsks      \* bound: calls made by handlers

ASSUME DispatcherAssumption ==
    /\ Receivers # {} /\ ReceiverOf \in [Sessions -> Receivers]
    /\ MaxFrames \in Nat
    /\ Quota \in [Sessions -> 0 .. MaxFrames]
    /\ MaxTasks \in Nat
    /\ MaxAsks \in Nat

VARIABLES
    link,     \* each session's connection
    arrived,  \* frames each session has delivered so far
    queue,    \* AttpReceiver._queue of each receiver
    owner,    \* AttpFrameDispatcher._tasks: the task recorded for a receiver
    task,     \* where each task stands
    serves,   \* the receiver a task reads
    cur,      \* the frame a task took last
    asks,     \* the handlers' own calls: the session used, whether answered
    waits,    \* the call a handler made last, as an index in asks
    handled,  \* history: frames of each session processed to the end
    answers   \* history: frames sent back for each CALL

vars == <<link, arrived, queue, owner, task, serves, cur, asks, waits, handled, answers>>

Tasks == 1 .. MaxTasks
NoTask == 0
Numbers == 1 .. MaxFrames
\* A BARE is a CALL without a correlation id.
Kinds == {"READY", "CALL", "BARE", "EMIT", "ERR", "REPLY"}
Frames == [from : Sessions, n : Numbers, kind : Kinds, to : 0 .. MaxAsks]
Nothing == [kind |-> "none"]

\* "reply", "report" and "fallback" each await one socket write.
Busy == {"handler", "asking", "reply", "report", "fallback"}
Running == Busy \cup {"idle"}

Init ==
    /\ link = [s \in Sessions |-> "new"]
    /\ arrived = [s \in Sessions |-> 0]
    /\ queue = [r \in Receivers |-> <<>>]
    /\ owner = [r \in Receivers |-> NoTask]
    /\ task = [t \in Tasks |-> "unborn"]
    /\ serves = [t \in Tasks |-> CHOOSE r \in Receivers : TRUE]
    /\ cur = [t \in Tasks |-> Nothing]
    /\ asks = <<>>
    /\ waits = [t \in Tasks |-> 0]
    /\ handled = [s \in Sessions |-> <<>>]
    /\ answers = [s \in Sessions |-> [n \in Numbers |-> 0]]

-----------------------------------------------------------------------------
(* Sessions. *)

\* start: nothing to do while the recorded task is not done.
IsConsumedFault(r) == FALSE
IsConsumed(r) == owner[r] # NoTask /\ task[owner[r]] \in Running

Start(r) ==
    \/ IsConsumed(r) /\ UNCHANGED <<owner, task, serves>>
    \/ /\ ~IsConsumed(r)
       /\ \E t \in Tasks :
            /\ task[t] = "unborn" /\ \A u \in Tasks : u < t => task[u] # "unborn"
            /\ owner' = [owner EXCEPT ![r] = t]
            /\ task' = [task EXCEPT ![t] = "idle"]
            /\ serves' = [serves EXCEPT ![t] = r]

\* on_connection and initiate_connection, once the session is authenticated.
Connect(s) ==
    /\ link[s] = "new"
    /\ link' = [link EXCEPT ![s] = "up"]
    /\ Start(ReceiverOf[s])
    /\ UNCHANGED <<arrived, queue, cur, asks, waits, handled, answers>>

\* From now on every write to the session raises.
Break(s) ==
    /\ link[s] = "up"
    /\ link' = [link EXCEPT ![s] = "down"]
    /\ UNCHANGED <<arrived, queue, owner, task, serves, cur, asks, waits, handled, answers>>

\* listen passes a frame on to the receiver.
Deliver(s, k, i) ==
    /\ link[s] = "up" /\ arrived[s] < Quota[s]
    /\ arrived' = [arrived EXCEPT ![s] = @ + 1]
    /\ queue' = [queue EXCEPT ![ReceiverOf[s]] =
                   Append(@, [from |-> s, n |-> arrived[s] + 1, kind |-> k, to |-> i])]
    /\ UNCHANGED <<link, owner, task, serves, cur, waits, handled, answers>>

\* READY, if it is delivered at all, comes first.
Request(s) ==
    /\ \E k \in Kinds \ {"REPLY"} : Deliver(s, k, 0) /\ (k = "READY" => arrived[s] = 0)
    /\ UNCHANGED asks

\* The peer answers a call some handler made.
Answer(i) ==
    /\ i \in 1 .. Len(asks) /\ ~asks[i].answered
    /\ asks' = [asks EXCEPT ![i].answered = TRUE]
    /\ Deliver(asks[i].via, "REPLY", i)

-----------------------------------------------------------------------------
(* The task. *)

Finish(t) ==
    /\ task' = [task EXCEPT ![t] = "idle"]
    /\ handled' = [handled EXCEPT ![cur[t].from] = Append(@, cur[t])]

Goto(t, phase) == task' = [task EXCEPT ![t] = phase] /\ UNCHANGED handled

\* A frame that starts neither a handler nor a write is dealt with at once; a
\* REPLY wakes the handler that waits for it.
Ignore(t, f) ==
    /\ handled' = [handled EXCEPT ![f.from] = Append(@, f)]
    /\ task' = [u \in Tasks |->
                  IF f.kind = "REPLY" /\ waits[u] = f.to /\ task[u] = "asking"
                  THEN "handler" ELSE task[u]]

\* _run and emit up to the first suspension. A handler starts, or there is none:
\* a route of the wrong type is refused to a CALL, and an unknown route fails a
\* CALL or an ERR of a call, because the 404 cannot be built. Without a
\* correlation id either is passed over. A READY is no request.
Get(t) ==
    /\ task[t] = "idle" /\ queue[serves[t]] # <<>>
    /\ LET f == Head(queue[serves[t]]) IN
         /\ cur' = [cur EXCEPT ![t] = f]
         /\ queue' = [queue EXCEPT ![serves[t]] = Tail(@)]
         /\ \/ f.kind # "CALL" /\ Ignore(t, f)
            \/ f.kind \in {"CALL", "BARE", "EMIT", "ERR"} /\ Goto(t, "handler")
            \/ f.kind \in {"CALL", "ERR"} /\ Goto(t, "report")
            \/ f.kind = "CALL" /\ Goto(t, "reply")
    /\ UNCHANGED <<link, arrived, owner, serves, asks, waits, answers>>

\* The callback returns, raises, or (Ask) calls a peer. A CALL is then answered,
\* and a BARE fails, because it cannot be. A CancelledError, of a task that the
\* callback awaited, passes every `except Exception`, and _run takes it for its
\* own cancellation: the task ends and the frame is not processed.
Handle(t) ==
    /\ task[t] = "handler"
    /\ \/ cur[t].kind = "CALL" /\ Goto(t, "reply")
       \/ cur[t].kind \notin {"CALL", "BARE"} /\ Finish(t)
       \/ Goto(t, "report")
       \/ Goto(t, "dead")
    /\ UNCHANGED <<link, arrived, queue, owner, serves, cur, asks, waits, answers>>

Ask(t) ==
    /\ task[t] = "handler" /\ Len(asks) < MaxAsks
    /\ \E s \in Sessions : link[s] = "up" /\ asks' = Append(asks, [via |-> s, answered |-> FALSE])
    /\ waits' = [waits EXCEPT ![t] = Len(asks) + 1]
    /\ Goto(t, "asking")
    /\ UNCHANGED <<link, arrived, queue, owner, serves, cur, answers>>

\* wait_for_ack's timer, in the handler.
CanGiveUpFault(t) == FALSE
CanGiveUp(t) == task[t] = "asking"
AskTimesOut(t) ==
    /\ CanGiveUp(t)
    /\ Goto(t, "handler")
    /\ UNCHANGED <<link, arrived, queue, owner, serves, cur, asks, waits, answers>>

Write(t) ==
    /\ link[cur[t].from] = "up"
    /\ answers' = [answers EXCEPT ![cur[t].from][cur[t].n] = @ + 1]
    /\ Finish(t)

\* The frame that answers a request; if that raises, emit reports it. Handlers
\* here return a value: the frames of a StreamObject are AckGate's subject.
Reply(t) ==
    /\ task[t] = "reply"
    /\ \/ Write(t)
       \/ Goto(t, "report") /\ link[cur[t].from] = "down" /\ UNCHANGED answers
    /\ UNCHANGED <<link, arrived, queue, owner, serves, cur, asks, waits>>

\* emit's except clauses: an ERR to the session. Building it may raise too (an
\* error detail that cannot be packed), and so does the write to a dead link:
\* then _run's own clause makes one more attempt, for a CALL that can be answered.
HasFallbackFault(f) == TRUE
HasFallback(f) == f.kind = "CALL"
ReportFault(t) ==
    /\ task[t] = "report" /\ Finish(t)
    /\ UNCHANGED <<link, arrived, queue, owner, serves, cur, asks, waits, answers>>
Report(t) ==
    /\ task[t] = "report"
    /\ \/ Write(t)
       \/ HasFallback(cur[t]) /\ Goto(t, "fallback") /\ UNCHANGED answers
       \/ ~HasFallback(cur[t]) /\ Finish(t) /\ UNCHANGED answers
    /\ UNCHANGED <<link, arrived, queue, owner, serves, cur, asks, waits>>

\* Nothing catches what this write raises: the task ends.
Fallback(t) ==
    /\ task[t] = "fallback"
    /\ \/ Write(t)
       \/ Goto(t, "dead") /\ link[cur[t].from] = "down" /\ UNCHANGED answers
    /\ UNCHANGED <<link, arrived, queue, owner, serves, cur, asks, waits>>

\* stop and stop_all: the tasks of some receivers are cancelled at their suspension.
Stop(rs) ==
    /\ owner' = [r \in Receivers |-> IF r \in rs THEN NoTask ELSE owner[r]]
    /\ task' = [t \in Tasks |->
                  IF \E r \in rs : owner[r] = t /\ task[t] \in Running
                  THEN "stopped" ELSE task[t]]
    /\ UNCHANGED <<link, arrived, queue, serves, cur, asks, waits, handled, answers>>

-----------------------------------------------------------------------------
Step(t) ==
    Get(t) \/ Handle(t) \/ AskTimesOut(t) \/ Reply(t) \/ Report(t) \/ Fallback(t)

Next ==
    \/ \E s \in Sessions : Connect(s) \/ Break(s) \/ Request(s)
    \/ \E i \in 1 .. MaxAsks : Answer(i)
    \/ \E t \in Tasks : Ask(t) \/ Step(t)
    \/ \E rs \in {Receivers} \cup {{r} : r \in Receivers} : Stop(rs)

Spec == Init /\ [][Next]_vars

\* Tasks are scheduled, handlers return, writes complete, and a handler's own
\* call is bounded by its timer.
FairSpec == Spec /\ \A t \in Tasks : WF_vars(Step(t))

-----------------------------------------------------------------------------
(* Properties. *)

TypeOK ==
    /\ link \in [Sessions -> {"new", "up", "down"}]
    /\ arrived \in [Sessions -> 0 .. MaxFrames]
    /\ queue \in [Receivers -> Seq(Frames)]
    /\ owner \in [Receivers -> Tasks \cup {NoTask}]
    /\ task \in [Tasks -> Running \cup {"unborn", "dead", "stopped"}]
    /\ serves \in [Tasks -> Receivers]
    /\ cur \in [Tasks -> Frames \cup {Nothing}]
    /\ asks \in Seq([via : Sessions, answered : BOOLEAN])
    /\ waits \in [Tasks -> 0 .. MaxAsks]
    /\ handled \in [Sessions -> Seq(Frames)]
    /\ answers \in [Sessions -> [Numbers -> Nat]]

\* No two tasks ever read the same receiver at the same time, however often
\* sessions of its namespace come, the dispatcher is stopped, or a task dies.
OneConsumer ==
    \A t, u \in Tasks :
        (t # u /\ task[t] \in Running /\ task[u] \in Running) => serves[t] # serves[u]

\* The frames of one session are processed to the end in the order of arrival.
HandledInOrder ==
    \A s \in Sessions : \A i \in 1 .. Len(handled[s]) - 1 :
        handled[s][i].n < handled[s][i + 1].n

\* A CALL of a session that is still connected has got exactly one frame back
\* once it is processed, on whichever path: the result, one of the refusals,
\* the report of emit, or the fallback of the dispatcher. None gets two.
CallAnsweredOnce ==
    \A s \in Sessions :
        /\ \A n \in Numbers : answers[s][n] <= 1
        /\ \A i \in 1 .. Len(handled[s]) :
             (handled[s][i].kind = "CALL" /\ link[s] = "up") => answers[s][handled[s][i].n] = 1

\* A consumer that is not stopped ends in two ways only: inside a handler, with a
\* CancelledError of its own, or at the last report on a CALL, when the session
\* that made it can no longer be written to. No other frame, refusal or report
\* ends it, whatever sessions break meanwhile.
DeathHasCause ==
    [][\A t \in Tasks :
          (task[t] \in Running /\ task'[t] = "dead") =>
              \/ task[t] = "handler"
              \/ cur[t].kind = "CALL" /\ link[cur[t].from] = "down"]_vars

Queued(s, n) ==
    \E i \in 1 .. Len(queue[ReceiverOf[s]]) :
        queue[ReceiverOf[s]][i].from = s /\ queue[ReceiverOf[s]][i].n = n

\* A frame in a receiver with a running consumer is taken, unless the consumer
\* ends first: no handler can starve the sessions that share its receiver.
QueuedFrameIsTaken ==
    \A s \in Sessions, n \in Numbers :
        (Queued(s, n) /\ IsConsumed(ReceiverOf[s])) ~>
            (~Queued(s, n) \/ ~IsConsumed(ReceiverOf[s]))

-----------------------------------------------------------------------------
(* What the code's documentation says and the code does not keep. *)

\* start: "Attach and start consuming a new receiver." A consumer that was not
\* stopped keeps consuming what the connected sessions deliver.
ConsumerSurvives ==
    \A s \in Sessions :
        (link[s] = "up" /\ owner[ReceiverOf[s]] # NoTask) => IsConsumed(ReceiverOf[s])
=============================================================================
