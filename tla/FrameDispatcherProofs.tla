------------------------ MODULE FrameDispatcherProofs ------------------------
(***************************************************************************)
(* Proofs about the dispatcher (FrameDispatcher), for any sessions,        *)
(* receivers and bounds.                                                   *)
(***************************************************************************)
EXTENDS FrameDispatcher, SequenceTheorems, TLAPS

-----------------------------------------------------------------------------
(* The first invariant: who reads what. A running task is the one recorded   *)
(* for its receiver, so two running tasks never share one; and the task that *)
(* tries the last write holds a CALL.                                        *)

Owned ==
    /\ \A t \in Tasks : task[t] \in Running => owner[serves[t]] = t
    /\ \A r \in Receivers :
         owner[r] # NoTask => serves[owner[r]] = r /\ task[owner[r]] # "unborn"

Holding ==
    \A t \in Tasks :
        /\ task[t] \in Busy => cur[t] \in Frames
        /\ task[t] = "fallback" => cur[t].kind = "CALL"

IInv == TypeOK /\ Owned /\ Holding

LEMMA FrameFields ==
  ASSUME NEW f \in Frames
  PROVE  f.from \in Sessions /\ f.n \in Numbers /\ f.kind \in Kinds /\ f.to \in 0 .. MaxAsks
BY DEF Frames

\* What a step of the task leaves and what it may change, phase by phase.
LEMMA TypeStep == IInv /\ [Next]_vars => TypeOK'
<1> SUFFICES ASSUME IInv, [Next]_vars PROVE TypeOK'
  OBVIOUS
<1>t. TypeOK /\ Holding
  BY DEF IInv
<1>a. DispatcherAssumption
  BY DispatcherAssumption
<1>f. ASSUME NEW t \in Tasks, task[t] \in Busy, Finish(t)
      PROVE  /\ task' \in [Tasks -> Running \cup {"unborn", "dead", "stopped"}]
             /\ handled' \in [Sessions -> Seq(Frames)]
  <2>1. cur[t] \in Frames /\ cur[t].from \in Sessions
    BY <1>f, <1>t, FrameFields DEF Holding
  <2>2. Append(handled[cur[t].from], cur[t]) \in Seq(Frames)
    BY <2>1, <1>t DEF TypeOK
  <2>3. QED
    BY <1>f, <2>1, <2>2, <1>t DEF Finish, TypeOK, Running
<1>g. ASSUME NEW t \in Tasks, NEW phase \in Busy \cup {"dead"}, Goto(t, phase)
      PROVE  /\ task' \in [Tasks -> Running \cup {"unborn", "dead", "stopped"}]
             /\ handled' \in [Sessions -> Seq(Frames)]
  BY <1>g, <1>t DEF Goto, TypeOK, Running
<1>w. ASSUME NEW t \in Tasks, task[t] \in Busy, Write(t)
      PROVE  answers' \in [Sessions -> [Numbers -> Nat]]
  <2>1. cur[t].from \in Sessions /\ cur[t].n \in Numbers
    BY <1>w, <1>t, FrameFields DEF Holding
  <2>2. QED
    BY <1>w, <2>1, <1>t DEF Write, TypeOK
<1>1. CASE UNCHANGED vars
  BY <1>1, <1>t DEF vars, TypeOK
<1>2. ASSUME NEW s \in Sessions, Connect(s) PROVE TypeOK'
  <2>1. ReceiverOf[s] \in Receivers
    BY <1>a DEF DispatcherAssumption
  <2>2. /\ owner' \in [Receivers -> Tasks \cup {NoTask}]
        /\ task' \in [Tasks -> Running \cup {"unborn", "dead", "stopped"}]
        /\ serves' \in [Tasks -> Receivers]
    <3>1. CASE IsConsumed(ReceiverOf[s]) /\ UNCHANGED <<owner, task, serves>>
      BY <3>1, <1>t DEF TypeOK
    <3>2. CASE ~(IsConsumed(ReceiverOf[s]) /\ UNCHANGED <<owner, task, serves>>)
      <4>1. PICK t \in Tasks : /\ owner' = [owner EXCEPT ![ReceiverOf[s]] = t]
                              /\ task' = [task EXCEPT ![t] = "idle"]
                              /\ serves' = [serves EXCEPT ![t] = ReceiverOf[s]]
        BY <1>2, <3>2 DEF Connect, Start
      <4>2. QED
        BY <4>1, <2>1, <1>t DEF TypeOK, Running
    <3>3. QED
      BY <3>1, <3>2
  <2>3. QED
    BY <1>2, <2>2, <1>t DEF Connect, TypeOK
<1>3. ASSUME NEW s \in Sessions, Break(s) PROVE TypeOK'
  BY <1>3, <1>t DEF Break, TypeOK
<1>4. ASSUME NEW s \in Sessions, NEW k \in Kinds, NEW i \in 0 .. MaxAsks, Deliver(s, k, i),
             asks' \in Seq([via : Sessions, answered : BOOLEAN])
      PROVE  TypeOK'
  <2>0. /\ ReceiverOf[s] \in Receivers /\ MaxFrames \in Nat
        /\ arrived[s] \in 0 .. MaxFrames /\ Quota[s] \in 0 .. MaxFrames
    BY <1>a, <1>t DEF DispatcherAssumption, TypeOK
  <2> DEFINE f == [from |-> s, n |-> arrived[s] + 1, kind |-> k, to |-> i]
  <2>1. arrived[s] + 1 \in 0 .. MaxFrames /\ arrived[s] + 1 \in Numbers
    BY <1>4, <2>0 DEF Deliver, Numbers
  <2>2. f \in Frames
    BY <2>1 DEF Frames
  <2>3. Append(queue[ReceiverOf[s]], f) \in Seq(Frames)
    BY <2>0, <2>2, <1>t DEF TypeOK
  <2>4. queue' \in [Receivers -> Seq(Frames)]
    BY <1>4, <2>0, <2>3, <1>t DEF Deliver, TypeOK
  <2>6. arrived' \in [Sessions -> 0 .. MaxFrames]
    BY <1>4, <2>1, <1>t DEF Deliver, TypeOK
  <2>5. QED
    BY <1>4, <2>4, <2>6, <1>t DEF Deliver, TypeOK
<1>5. ASSUME NEW s \in Sessions, Request(s) PROVE TypeOK'
  <2>1. 0 \in 0 .. MaxAsks /\ asks' \in Seq([via : Sessions, answered : BOOLEAN])
    BY <1>5, <1>a, <1>t DEF DispatcherAssumption, Request, TypeOK
  <2>2. QED
    BY <1>5, <1>4, <2>1 DEF Request
<1>6. ASSUME NEW i \in 1 .. MaxAsks, Answer(i) PROVE TypeOK'
  <2> DEFINE A == [via : Sessions, answered : BOOLEAN]
  <2>1. asks \in Seq(A) /\ i \in 1 .. Len(asks)
    BY <1>6, <1>t DEF Answer, TypeOK
  <2>2. asks[i] \in A
    BY <2>1, ElementOfSeq
  <2>3. asks' \in Seq(A) /\ asks[i].via \in Sessions
    <3>1. [asks[i] EXCEPT !.answered = TRUE] \in A
      BY <2>2
    <3>2. asks' = [asks EXCEPT ![i] = [asks[i] EXCEPT !.answered = TRUE]]
      BY <1>6 DEF Answer
    <3>3. QED
      BY <2>1, <2>2, <3>1, <3>2, ExceptSeq
  <2>4. "REPLY" \in Kinds /\ i \in 0 .. MaxAsks
    BY <1>a DEF DispatcherAssumption, Kinds
  <2>5. QED
    BY <1>6, <1>4, <2>3, <2>4 DEF Answer
<1>7. ASSUME NEW t \in Tasks, Get(t) PROVE TypeOK'
  <2> DEFINE f == Head(queue[serves[t]])
  <2>1. /\ serves[t] \in Receivers /\ queue[serves[t]] \in Seq(Frames)
        /\ f \in Frames /\ Tail(queue[serves[t]]) \in Seq(Frames) /\ f.from \in Sessions
    BY <1>7, <1>t, HeadTailProperties, FrameFields DEF Get, TypeOK
  <2>2. /\ queue' \in [Receivers -> Seq(Frames)]
        /\ cur' \in [Tasks -> Frames \cup {Nothing}]
    BY <1>7, <2>1, <1>t DEF Get, TypeOK
  <2>3. Append(handled[f.from], f) \in Seq(Frames)
    BY <2>1, <1>t DEF TypeOK
  <2>4. /\ task' \in [Tasks -> Running \cup {"unborn", "dead", "stopped"}]
        /\ handled' \in [Sessions -> Seq(Frames)]
    <3>1. CASE Ignore(t, f)
      BY <2>1, <2>3, <3>1, <1>t DEF Ignore, TypeOK, Running, Busy
    <3>2. CASE Goto(t, "handler") \/ Goto(t, "report") \/ Goto(t, "reply")
      BY <3>2, <1>g DEF Busy
    <3>3. QED
      BY <1>7, <3>1, <3>2 DEF Get
  <2>5. QED
    BY <1>7, <2>2, <2>4, <1>t DEF Get, TypeOK
<1>8. ASSUME NEW t \in Tasks, Handle(t) \/ AskTimesOut(t) PROVE TypeOK'
  <2>1. /\ task' \in [Tasks -> Running \cup {"unborn", "dead", "stopped"}]
        /\ handled' \in [Sessions -> Seq(Frames)]
    BY <1>8, <1>f, <1>g DEF Handle, AskTimesOut, Busy
  <2>2. QED
    BY <1>8, <2>1, <1>t DEF Handle, AskTimesOut, TypeOK
<1>9. ASSUME NEW t \in Tasks, Ask(t) PROVE TypeOK'
  <2> DEFINE A == [via : Sessions, answered : BOOLEAN]
  <2>1. /\ task' \in [Tasks -> Running \cup {"unborn", "dead", "stopped"}]
        /\ handled' \in [Sessions -> Seq(Frames)]
    BY <1>9, <1>g DEF Ask, Busy
  <2>2. PICK s \in Sessions : asks' = Append(asks, [via |-> s, answered |-> FALSE])
    BY <1>9 DEF Ask
  <2>3. asks \in Seq(A) /\ [via |-> s, answered |-> FALSE] \in A
    BY <1>t DEF TypeOK
  <2>4. asks' \in Seq(A)
    BY <2>2, <2>3
  <2>5. Len(asks) + 1 \in 0 .. MaxAsks
    BY <1>9, <2>3, <1>a DEF Ask, DispatcherAssumption
  <2>6. waits' \in [Tasks -> 0 .. MaxAsks]
    BY <1>9, <2>5, <1>t DEF Ask, TypeOK
  <2>7. QED
    BY <1>9, <2>1, <2>4, <2>6, <1>t DEF Ask, TypeOK
<1>10. ASSUME NEW t \in Tasks, Reply(t) \/ Report(t) \/ Fallback(t) PROVE TypeOK'
  <2>1. task[t] \in Busy
    BY <1>10 DEF Reply, Report, Fallback, Busy
  <2>2. /\ task' \in [Tasks -> Running \cup {"unborn", "dead", "stopped"}]
        /\ handled' \in [Sessions -> Seq(Frames)]
    BY <1>10, <2>1, <1>f, <1>g DEF Reply, Report, Fallback, Write, Busy
  <2>3. answers' \in [Sessions -> [Numbers -> Nat]]
    BY <1>10, <2>1, <1>w, <1>t DEF Reply, Report, Fallback, TypeOK
  <2>4. QED
    BY <1>10, <2>2, <2>3, <1>t DEF Reply, Report, Fallback, TypeOK
<1>11. ASSUME NEW rs \in SUBSET Receivers, Stop(rs) PROVE TypeOK'
  BY <1>11, <1>t DEF Stop, TypeOK
<1>12. QED
  BY <1>1, <1>2, <1>3, <1>5, <1>6, <1>7, <1>8, <1>9, <1>10, <1>11 DEF Next, Step

-----------------------------------------------------------------------------
(* No step but start makes a task run, or touches the record of the tasks.   *)

Calm ==
    /\ UNCHANGED <<owner, serves>>
    /\ \A u \in Tasks : /\ task'[u] \in Running => task[u] \in Running
                        /\ task[u] # "unborn" => task'[u] # "unborn"

LEMMA CalmKeeps ==
  ASSUME TypeOK, Owned, Calm
  PROVE  Owned'
<1>1. \A r \in Receivers : owner[r] # NoTask => owner[r] \in Tasks
  BY DEF TypeOK
<1>2. \A u \in Tasks : task'[u] \in Running => owner'[serves'[u]] = u
  BY DEF Owned, Calm
<1>3. \A r \in Receivers :
        owner'[r] # NoTask => serves'[owner'[r]] = r /\ task'[owner'[r]] # "unborn"
  BY <1>1 DEF Owned, Calm
<1>4. QED
  BY <1>2, <1>3 DEF Owned

LEMMA OwnedStep == IInv /\ [Next]_vars => Owned'
<1> SUFFICES ASSUME IInv, [Next]_vars PROVE Owned'
  OBVIOUS
<1>t. TypeOK /\ Owned
  BY DEF IInv
<1>g. ASSUME NEW t \in Tasks, NEW phase \in Running \cup {"dead"}, task[t] \in Running,
             task' = [task EXCEPT ![t] = phase], UNCHANGED <<owner, serves>>
      PROVE  Calm
  BY <1>g, <1>t DEF Calm, TypeOK, Running, Busy
<1>1. CASE UNCHANGED <<owner, serves, task>>
  BY <1>1, <1>t, CalmKeeps DEF Calm
<1>2. ASSUME NEW s \in Sessions, Connect(s) PROVE Owned'
  <2> DEFINE r == ReceiverOf[s]
  <2>0. r \in Receivers
    BY DispatcherAssumption DEF DispatcherAssumption
  <2>1. CASE UNCHANGED <<owner, task, serves>>
    BY <2>1, <1>1
  <2>2. CASE ~UNCHANGED <<owner, task, serves>>
    <3>1. PICK t \in Tasks : /\ task[t] = "unborn" /\ ~IsConsumed(r)
                            /\ owner' = [owner EXCEPT ![r] = t]
                            /\ task' = [task EXCEPT ![t] = "idle"]
                            /\ serves' = [serves EXCEPT ![t] = r]
      BY <1>2, <2>2 DEF Connect, Start
    <3>2. /\ owner'[r] = t /\ \A q \in Receivers : q # r => owner'[q] = owner[q]
          /\ task'[t] = "idle" /\ \A u \in Tasks : u # t => task'[u] = task[u]
          /\ serves'[t] = r /\ \A u \in Tasks : u # t => serves'[u] = serves[u]
      BY <3>1, <2>0, <1>t DEF TypeOK
    <3>3. ASSUME NEW u \in Tasks, task'[u] \in Running PROVE owner'[serves'[u]] = u
      <4>1. CASE u = t
        BY <4>1, <3>2
      <4>2. CASE u # t
        <5>1. task[u] \in Running /\ owner[serves[u]] = u /\ serves[u] \in Receivers
          BY <4>2, <3>2, <3>3, <1>t DEF Owned, TypeOK
        <5>2. u # NoTask
          BY DEF Tasks, NoTask
        <5>3. serves[u] # r
          BY <5>1, <5>2, <3>1 DEF IsConsumed
        <5>4. QED
          BY <4>2, <5>1, <5>3, <3>2
      <4>3. QED
        BY <4>1, <4>2
    <3>4. ASSUME NEW q \in Receivers, owner'[q] # NoTask
          PROVE  serves'[owner'[q]] = q /\ task'[owner'[q]] # "unborn"
      <4>1. CASE q = r
        BY <4>1, <3>2
      <4>2. CASE q # r
        <5>1. owner'[q] = owner[q] /\ owner[q] \in Tasks
          BY <4>2, <3>2, <3>4, <1>t DEF TypeOK
        <5>2. serves[owner[q]] = q /\ task[owner[q]] # "unborn"
          BY <5>1, <3>4, <1>t DEF Owned
        <5>3. owner[q] # t
          BY <5>2, <3>1
        <5>4. QED
          BY <5>1, <5>2, <5>3, <3>2
      <4>3. QED
        BY <4>1, <4>2
    <3>5. QED
      BY <3>3, <3>4 DEF Owned
  <2>3. QED
    BY <2>1, <2>2
<1>3. ASSUME NEW t \in Tasks, Get(t) PROVE Owned'
  <2>1. task[t] = "idle" /\ UNCHANGED <<owner, serves>>
    BY <1>3 DEF Get
  <2>2. CASE Ignore(t, Head(queue[serves[t]]))
    BY <2>1, <2>2, <1>t, CalmKeeps DEF Ignore, Calm, Running, Busy, TypeOK
  <2>3. CASE \E phase \in Busy : Goto(t, phase)
    BY <2>1, <2>3, <1>g, <1>t, CalmKeeps DEF Goto, Running
  <2>4. QED
    BY <1>3, <2>2, <2>3 DEF Get, Busy
<1>4. ASSUME NEW t \in Tasks,
             Ask(t) \/ Handle(t) \/ AskTimesOut(t) \/ Reply(t) \/ Report(t) \/ Fallback(t)
      PROVE  Owned'
  <2>1. task[t] \in Running /\ UNCHANGED <<owner, serves>>
    BY <1>4 DEF Ask, Handle, AskTimesOut, CanGiveUp, Reply, Report, Fallback, Running, Busy
  <2>2. \E phase \in Running \cup {"dead"} : task' = [task EXCEPT ![t] = phase]
    BY <1>4 DEF Ask, Handle, AskTimesOut, Reply, Report, Fallback, Write, Finish, Goto, Running, Busy
  <2>3. QED
    BY <2>1, <2>2, <1>g, <1>t, CalmKeeps
<1>5. ASSUME NEW rs \in SUBSET Receivers, Stop(rs) PROVE Owned'
  <2>1. UNCHANGED serves /\ \A u \in Tasks : task'[u] \in {task[u], "stopped"}
    BY <1>5 DEF Stop
  <2>2. ASSUME NEW u \in Tasks, task'[u] \in Running PROVE owner'[serves'[u]] = u
    <3>1. task[u] \in Running /\ task'[u] = task[u]
      BY <2>1, <2>2 DEF Running, Busy
    <3>2. serves[u] \in Receivers /\ owner[serves[u]] = u
      BY <3>1, <1>t DEF Owned, TypeOK
    <3>3. serves[u] \notin rs
      BY <3>1, <3>2, <1>5, <2>2 DEF Stop, Running, Busy
    <3>4. QED
      BY <3>2, <3>3, <1>5, <2>1 DEF Stop
  <2>3. ASSUME NEW r \in Receivers, owner'[r] # NoTask
        PROVE  serves'[owner'[r]] = r /\ task'[owner'[r]] # "unborn"
    <3>1. owner'[r] = owner[r]
      BY <1>5, <2>3 DEF Stop
    <3>2. owner[r] \in Tasks
      BY <3>1, <2>3, <1>t DEF TypeOK
    <3>3. QED
      BY <3>1, <3>2, <2>1, <2>3, <1>t DEF Owned
  <2>4. QED
    BY <2>2, <2>3 DEF Owned
<1>6. QED
  BY <1>1, <1>2, <1>3, <1>4, <1>5
     DEF Next, Step, vars, Break, Request, Answer, Deliver

-----------------------------------------------------------------------------
(* What a task holds.                                                        *)

LEMMA HoldingStep == IInv /\ [Next]_vars => Holding'
<1> SUFFICES ASSUME IInv, [Next]_vars PROVE Holding'
  OBVIOUS
<1>t. TypeOK /\ Holding
  BY DEF IInv
\* It is enough to look at the tasks whose phase or frame a step changes.
<1>s. ASSUME \A u \in Tasks :
               \/ cur'[u] = cur[u] /\ task'[u] = task[u]
               \/ cur'[u] = cur[u] /\ task[u] \in Busy /\ task'[u] \in Busy \ {"fallback"}
               \/ task'[u] \notin Busy
               \/ cur'[u] \in Frames /\ task'[u] \in Busy \ {"fallback"}
               \/ cur'[u] \in Frames /\ cur'[u].kind = "CALL" /\ task'[u] = "fallback"
      PROVE  Holding'
  BY <1>s, <1>t DEF Holding, Busy
<1>1. CASE UNCHANGED <<cur, task>>
  BY <1>1, <1>s
<1>2. ASSUME NEW s \in Sessions, Connect(s) PROVE Holding'
  <2>1. \A u \in Tasks : cur'[u] = cur[u] /\ task'[u] \in {task[u], "idle"}
    BY <1>2, <1>t DEF Connect, Start, TypeOK
  <2>2. QED
    BY <2>1, <1>s DEF Busy
<1>3. ASSUME NEW t \in Tasks, Get(t) PROVE Holding'
  <2> DEFINE f == Head(queue[serves[t]])
  <2>1. f \in Frames
    BY <1>3, <1>t, HeadTailProperties DEF Get, TypeOK
  <2>2. cur'[t] = f /\ task[t] = "idle" /\ \A u \in Tasks : u # t => cur'[u] = cur[u]
    BY <1>3, <1>t DEF Get, TypeOK
  <2>3. CASE Ignore(t, f)
    BY <2>2, <2>3, <1>s DEF Ignore, Busy
  <2>4. CASE Goto(t, "handler") \/ Goto(t, "report") \/ Goto(t, "reply")
    BY <2>1, <2>2, <2>4, <1>s, <1>t DEF Goto, Busy, TypeOK
  <2>5. QED
    BY <1>3, <2>3, <2>4 DEF Get
<1>4. ASSUME NEW t \in Tasks,
             Ask(t) \/ Handle(t) \/ AskTimesOut(t) \/ Reply(t) \/ Report(t) \/ Fallback(t)
      PROVE  Holding'
  <2>1. task[t] \in Busy /\ cur[t] \in Frames /\ UNCHANGED cur
    BY <1>4, <1>t DEF Ask, Handle, AskTimesOut, CanGiveUp, Reply, Report, Fallback, Busy, Holding
  <2> DEFINE Moves == \E phase \in (Busy \ {"fallback"}) \cup {"idle", "dead"} : task' = [task EXCEPT ![t] = phase]
             Retries == task' = [task EXCEPT ![t] = "fallback"] /\ cur[t].kind = "CALL"
  <2>2. Moves \/ Retries
    <3>1. CASE Ask(t) \/ Handle(t) \/ AskTimesOut(t) \/ Reply(t) \/ Fallback(t)
      BY <3>1 DEF Ask, Handle, AskTimesOut, Reply, Fallback, Write, Finish, Goto, Busy
    <3>2. CASE Report(t)
      BY <3>2 DEF Report, HasFallback, Write, Finish, Goto
    <3>3. QED
      BY <1>4, <3>1, <3>2
  <2>3. CASE Moves
    BY <2>1, <2>3, <1>s, <1>t DEF TypeOK, Busy
  <2>4. CASE Retries
    BY <2>1, <2>4, <1>s, <1>t DEF TypeOK
  <2>5. QED
    BY <2>2, <2>3, <2>4
<1>5. ASSUME NEW rs \in SUBSET Receivers, Stop(rs) PROVE Holding'
  BY <1>5, <1>s DEF Stop, Busy
<1>6. QED
  BY <1>1, <1>2, <1>3, <1>4, <1>5 DEF Next, Step, vars, Break, Request, Answer, Deliver

\* Which steps end a task, and what it holds then.
LEMMA DeathStep ==
  ASSUME IInv, [Next]_vars, NEW t \in Tasks, task[t] \in Running, task'[t] = "dead"
  PROVE  task[t] = "handler" \/ (cur[t].kind = "CALL" /\ link[cur[t].from] = "down")
<1>t. TypeOK /\ Holding
  BY DEF IInv
<1>a. task[t] # "dead"
  BY DEF Running, Busy
<1>1. ASSUME NEW u \in Tasks, Fallback(u) PROVE u = t => cur[t].kind = "CALL" /\ link[cur[t].from] = "down"
  BY <1>1, <1>a, <1>t DEF Fallback, Write, Finish, Goto, Holding, TypeOK
<1>2. ASSUME NEW u \in Tasks, Ask(u) \/ AskTimesOut(u) \/ Reply(u) \/ Report(u) PROVE FALSE
  <2>1. \E phase \in Busy \cup {"idle"} : task' = [task EXCEPT ![u] = phase]
    BY <1>2 DEF Ask, AskTimesOut, Reply, Report, Write, Finish, Goto, Busy
  <2>2. QED
    BY <2>1, <1>a, <1>t DEF TypeOK, Busy
<1>3. ASSUME NEW u \in Tasks, Handle(u) PROVE task[t] = "handler"
  <2>1. task[u] = "handler" /\ \E phase \in Busy \cup {"idle", "dead"} : task' = [task EXCEPT ![u] = phase]
    BY <1>3 DEF Handle, Finish, Goto, Busy
  <2>2. QED
    BY <2>1, <1>a, <1>t DEF TypeOK
<1>4. ASSUME NEW u \in Tasks, Fallback(u) PROVE u = t
  <2>1. \E phase \in {"idle", "dead"} : task' = [task EXCEPT ![u] = phase]
    BY <1>4 DEF Fallback, Write, Finish, Goto
  <2>2. QED
    BY <2>1, <1>a, <1>t DEF TypeOK
<1>5. ASSUME NEW u \in Tasks, Get(u) PROVE FALSE
  <2> DEFINE f == Head(queue[serves[u]])
  <2>1. CASE Ignore(u, f)
    BY <2>1, <1>a DEF Ignore
  <2>2. CASE Goto(u, "handler") \/ Goto(u, "report") \/ Goto(u, "reply")
    BY <2>2, <1>a, <1>t DEF Goto, TypeOK
  <2>3. QED
    BY <1>5, <2>1, <2>2 DEF Get
<1>6. ASSUME NEW s \in Sessions, Connect(s) PROVE FALSE
  BY <1>6, <1>a, <1>t DEF Connect, Start, TypeOK
<1>7. ASSUME NEW rs \in SUBSET Receivers, Stop(rs) PROVE FALSE
  BY <1>7, <1>a DEF Stop
<1>8. ASSUME UNCHANGED task PROVE FALSE
  BY <1>8, <1>a
<1>9. QED
  BY <1>1, <1>2, <1>3, <1>4, <1>5, <1>6, <1>7, <1>8
  DEF Next, Step, vars, Break, Request, Answer, Deliver

-----------------------------------------------------------------------------

LEMMA InitInv == Init => IInv
<1> SUFFICES ASSUME Init PROVE IInv
  OBVIOUS
<1>a. DispatcherAssumption
  BY DispatcherAssumption
<1>1. TypeOK
  BY <1>a DEF Init, TypeOK, DispatcherAssumption, NoTask
<1>2. Owned /\ Holding
  BY DEF Init, Owned, Holding, Running, Busy
<1>3. QED
  BY <1>1, <1>2 DEF IInv

\* The invariant of the tasks holds in every reachable state.
THEOREM Invariance == Spec => []IInv
<1>1. IInv /\ [Next]_vars => IInv'
  BY TypeStep, OwnedStep, HoldingStep DEF IInv
<1>2. QED
  BY InitInv, <1>1, PTL DEF Spec

\* Every variable of the dispatcher keeps its type.
THEOREM TypeCorrect == Spec => []TypeOK
<1>1. IInv => TypeOK
  BY DEF IInv
<1>2. QED
  BY Invariance, <1>1, PTL

\* Whatever sessions come and go, whatever stops or dies, one receiver is never
\* read by two tasks at once: start (dispatcher.py:30-39).
THEOREM ConsumersAreAlone == Spec => []OneConsumer
<1>1. IInv => OneConsumer
  BY DEF IInv, Owned, OneConsumer
<1>2. QED
  BY Invariance, <1>1, PTL

\* A consumer that nobody stops ends only with a CancelledError of a handler, or
\* at the last report on a CALL from a session that cannot be written to: the
\* except clauses of _run (dispatcher.py:85-106).
THEOREM ConsumersDieForCause == Spec => DeathHasCause
<1> DEFINE Cause == \A t \in Tasks :
                (task[t] \in Running /\ task'[t] = "dead") =>
                    \/ task[t] = "handler"
                    \/ cur[t].kind = "CALL" /\ link[cur[t].from] = "down"
<1>1. IInv /\ [Next]_vars => [Cause]_vars
  BY DeathStep
<1>2. QED
  BY Invariance, <1>1, PTL DEF Spec, DeathHasCause

-----------------------------------------------------------------------------
(* The second invariant: the way of a frame. The numbers of one session's    *)
(* frames ascend from those processed over the one a task holds to those     *)
(* queued; and a frame gets its answer in the step that completes it.        *)

SameFrom(f, g) == f.from = g.from

QueuedInOrder ==
    \A r \in Receivers : \A i \in 1 .. Len(queue[r]) :
        LET f == queue[r][i]
        IN  /\ ReceiverOf[f.from] = r /\ f.n <= arrived[f.from]
            /\ \A j \in 1 .. Len(queue[r]) : (i < j /\ SameFrom(f, queue[r][j])) => f.n < queue[r][j].n

HeldBeforeQueued ==
    \A t \in Tasks : task[t] \in Busy =>
        /\ ReceiverOf[cur[t].from] = serves[t] /\ cur[t].n <= arrived[cur[t].from]
        /\ \A i \in 1 .. Len(queue[serves[t]]) :
              SameFrom(cur[t], queue[serves[t]][i]) => cur[t].n < queue[serves[t]][i].n

HandledBeforeHeld ==
    \A s \in Sessions : \A i \in 1 .. Len(handled[s]) :
        /\ handled[s][i].n <= arrived[s]
        /\ \A r \in Receivers : \A j \in 1 .. Len(queue[r]) :
              queue[r][j].from = s => handled[s][i].n < queue[r][j].n
        /\ \A t \in Tasks : (task[t] \in Busy /\ cur[t].from = s) => handled[s][i].n < cur[t].n

Order == QueuedInOrder /\ HeldBeforeQueued /\ HandledBeforeHeld /\ HandledInOrder

Unanswered ==
    /\ \A s \in Sessions, n \in Numbers : n > arrived[s] => answers[s][n] = 0
    /\ \A r \in Receivers : \A i \in 1 .. Len(queue[r]) : answers[queue[r][i].from][queue[r][i].n] = 0
    /\ \A t \in Tasks : task[t] \in Busy => answers[cur[t].from][cur[t].n] = 0
    /\ \A s \in Sessions : link[s] = "new" => arrived[s] = 0

TInv == IInv /\ Order /\ Unanswered /\ CallAnsweredOnce

LEMMA QueuedAreFrames ==
  ASSUME TypeOK, NEW r \in Receivers, NEW i \in 1 .. Len(queue[r])
  PROVE  queue[r][i] \in Frames /\ queue[r][i].from \in Sessions /\ queue[r][i].n \in Numbers
<1>1. queue[r] \in Seq(Frames)
  BY DEF TypeOK
<1>2. queue[r][i] \in Frames
  BY <1>1, ElementOfSeq
<1>3. QED
  BY <1>2, FrameFields

LEMMA HandledAreFrames ==
  ASSUME TypeOK, NEW s \in Sessions, NEW i \in 1 .. Len(handled[s])
  PROVE  handled[s][i] \in Frames /\ handled[s][i].n \in Numbers
<1>1. handled[s] \in Seq(Frames)
  BY DEF TypeOK
<1>2. handled[s][i] \in Frames
  BY <1>1, ElementOfSeq
<1>3. QED
  BY <1>2, FrameFields

\* Two tasks never hold frames of the same session.
LEMMA HeldApart ==
  ASSUME TInv, NEW t \in Tasks, NEW u \in Tasks, task[t] \in Busy, task[u] \in Busy,
         cur[t].from = cur[u].from
  PROVE  t = u
<1>1. serves[t] = serves[u]
  BY DEF TInv, Order, HeldBeforeQueued
<1>2. QED
  BY <1>1 DEF TInv, IInv, Owned, Running

\* Steps that move no frame: a task may go on with its frame or give it up.
Quiet ==
    /\ UNCHANGED <<queue, arrived, handled, answers>>
    /\ \A u \in Tasks : task'[u] \in Busy =>
          task[u] \in Busy /\ cur'[u] = cur[u] /\ serves'[u] = serves[u]
    /\ \A s \in Sessions : link'[s] = "new" => link[s] = "new"
    /\ \A s \in Sessions : link'[s] = "up" => link[s] \in {"new", "up"}

LEMMA QuietKeeps ==
  ASSUME TInv, Quiet
  PROVE  Order' /\ Unanswered' /\ CallAnsweredOnce'
<1>t. TypeOK /\ Order /\ Unanswered /\ CallAnsweredOnce
  BY DEF TInv, IInv
<1>1. QueuedInOrder' /\ HandledInOrder'
  BY <1>t DEF Quiet, Order, QueuedInOrder, HandledInOrder
<1>2. HeldBeforeQueued'
  BY <1>t DEF Quiet, Order, HeldBeforeQueued
<1>3. HandledBeforeHeld'
  BY <1>t DEF Quiet, Order, HandledBeforeHeld
<1>4. Unanswered'
  BY <1>t DEF Quiet, Unanswered
<1>5. CallAnsweredOnce'
  <2>1. SUFFICES ASSUME NEW s \in Sessions, NEW i \in 1 .. Len(handled[s]),
                        handled[s][i].kind = "CALL", link'[s] = "up"
                 PROVE  answers[s][handled[s][i].n] = 1
    BY <1>t DEF Quiet, CallAnsweredOnce
  <2>2. handled[s][i].n \in Numbers /\ handled[s][i].n <= arrived[s]
    BY <1>t, HandledAreFrames DEF Order, HandledBeforeHeld
  <2>3. link[s] # "new"
    BY <2>2, <1>t DEF Unanswered, Numbers
  <2>4. QED
    BY <2>1, <2>3, <1>t DEF Quiet, CallAnsweredOnce
<1>6. QED
  BY <1>1, <1>2, <1>3, <1>4, <1>5 DEF Order

\* A frame is added to those processed.
Extends(s, f) == handled' = [handled EXCEPT ![s] = Append(@, f)]

LEMMA ExtendsBy ==
  ASSUME TypeOK, NEW s \in Sessions, NEW f \in Frames, Extends(s, f)
  PROVE  /\ \A x \in Sessions : x # s => handled'[x] = handled[x]
         /\ Len(handled[s]) \in Nat /\ Len(handled'[s]) = Len(handled[s]) + 1
         /\ handled'[s][Len(handled[s]) + 1] = f
         /\ \A i \in 1 .. Len(handled[s]) : handled'[s][i] = handled[s][i]
         /\ \A x \in Sessions : \A i \in 1 .. Len(handled'[x]) :
               \/ i \in 1 .. Len(handled[x]) /\ handled'[x][i] = handled[x][i]
               \/ x = s /\ i = Len(handled[x]) + 1 /\ handled'[x][i] = f
<1>1. handled[s] \in Seq(Frames) /\ Len(handled[s]) \in Nat
  BY DEF TypeOK
<1>2. handled'[s] = Append(handled[s], f) /\ \A x \in Sessions : x # s => handled'[x] = handled[x]
  BY DEF Extends, TypeOK
<1>3. /\ Len(handled'[s]) = Len(handled[s]) + 1
      /\ handled'[s][Len(handled[s]) + 1] = f
      /\ \A i \in 1 .. Len(handled[s]) : handled'[s][i] = handled[s][i]
  BY <1>1, <1>2, AppendProperties
<1>4. \A i \in 1 .. Len(handled'[s]) : i \in 1 .. Len(handled[s]) \/ i = Len(handled[s]) + 1
  BY <1>1, <1>3
<1>5. QED
  BY <1>1, <1>2, <1>3, <1>4

LEMMA ExtendsInOrder ==
  ASSUME TypeOK, HandledInOrder, NEW s \in Sessions, NEW f \in Frames, Extends(s, f),
         \A i \in 1 .. Len(handled[s]) : handled[s][i].n < f.n
  PROVE  HandledInOrder'
<1>1. SUFFICES ASSUME NEW x \in Sessions, NEW i \in 1 .. Len(handled'[x]) - 1
               PROVE  handled'[x][i].n < handled'[x][i + 1].n
  BY DEF HandledInOrder
<1>2. CASE x # s
  BY <1>2, ExtendsBy DEF HandledInOrder
<1>3. CASE x = s
  <2>1. /\ Len(handled[s]) \in Nat /\ Len(handled'[s]) = Len(handled[s]) + 1
        /\ handled'[s][Len(handled[s]) + 1] = f
        /\ \A j \in 1 .. Len(handled[s]) : handled'[s][j] = handled[s][j]
    BY ExtendsBy
  <2>2. i \in 1 .. Len(handled[s])
    BY <1>3, <2>1
  <2>3. CASE i \in 1 .. Len(handled[s]) - 1
    <3>1. i + 1 \in 1 .. Len(handled[s])
      BY <2>1, <2>3
    <3>2. QED
      BY <3>1, <2>1, <2>2, <2>3, <1>3 DEF HandledInOrder
  <2>4. CASE i = Len(handled[s])
    BY <2>4, <2>1, <2>2, <1>3
  <2>5. QED
    BY <2>1, <2>2, <2>3, <2>4
<1>4. QED
  BY <1>2, <1>3

\* The steps in which a task is done with its frame, having written an answer
\* or, for a frame that is no CALL, not.
Completes(t) ==
    /\ task[t] \in Busy /\ Finish(t)
    /\ UNCHANGED <<queue, arrived, cur, serves, link>>
    /\ \/ cur[t].kind # "CALL" /\ UNCHANGED answers
       \/ answers' = [answers EXCEPT ![cur[t].from][cur[t].n] = @ + 1]

LEMMA CompletesKeeps ==
  ASSUME TInv, NEW t \in Tasks, Completes(t)
  PROVE  Order' /\ Unanswered' /\ CallAnsweredOnce'
<1>t. TypeOK /\ Order /\ Unanswered /\ CallAnsweredOnce /\ Holding
  BY DEF TInv, IInv
<1> DEFINE f == cur[t]
<1>a. f \in Frames /\ f.from \in Sessions /\ f.n \in Numbers /\ f.n <= arrived[f.from]
      /\ serves[t] \in Receivers /\ ReceiverOf[f.from] = serves[t]
  BY <1>t, FrameFields DEF Completes, Holding, Order, HeldBeforeQueued, TypeOK
<1>b. \A u \in Tasks : task'[u] \in Busy => u # t /\ task[u] \in Busy /\ cur[u].from # f.from
  BY <1>t, HeldApart DEF Completes, Finish, TypeOK, Busy
<1>x. Extends(f.from, f)
  BY DEF Completes, Finish, Extends
<1>c. \A s \in Sessions : s # f.from => handled'[s] = handled[s]
  BY <1>t, <1>a, <1>x, ExtendsBy
<1>d. /\ Len(handled'[f.from]) = Len(handled[f.from]) + 1 /\ Len(handled[f.from]) \in Nat
      /\ handled'[f.from][Len(handled[f.from]) + 1] = f
      /\ \A i \in 1 .. Len(handled[f.from]) : handled'[f.from][i] = handled[f.from][i]
  BY <1>t, <1>a, <1>x, ExtendsBy
<1>e. \A i \in 1 .. Len(handled[f.from]) : handled[f.from][i].n < f.n
  BY <1>t, <1>a DEF Completes, Order, HandledBeforeHeld
<1>f. \A r \in Receivers : \A i \in 1 .. Len(queue[r]) :
        queue[r][i].from = f.from => f.n < queue[r][i].n
  BY <1>t, <1>a DEF Completes, Order, HeldBeforeQueued, QueuedInOrder, SameFrom
<1>1. QueuedInOrder'
  BY <1>t DEF Completes, Order, QueuedInOrder
<1>2. HeldBeforeQueued'
  BY <1>t, <1>b DEF Completes, Order, HeldBeforeQueued
<1>3. HandledBeforeHeld'
  <2>1. SUFFICES ASSUME NEW s \in Sessions, NEW i \in 1 .. Len(handled'[s])
                 PROVE  /\ handled'[s][i].n <= arrived[s]
                        /\ \A r \in Receivers : \A j \in 1 .. Len(queue[r]) :
                              queue[r][j].from = s => handled'[s][i].n < queue[r][j].n
                        /\ \A u \in Tasks : (task'[u] \in Busy /\ cur[u].from = s) =>
                              handled'[s][i].n < cur[u].n
    BY DEF Completes, HandledBeforeHeld
  <2>2. CASE s # f.from
    BY <2>2, <1>c, <1>b, <1>t DEF Order, HandledBeforeHeld
  <2>3. CASE s = f.from /\ i \in 1 .. Len(handled[s])
    BY <2>3, <1>d, <1>b, <1>t DEF Order, HandledBeforeHeld
  <2>4. CASE s = f.from /\ i = Len(handled[s]) + 1
    BY <2>4, <1>d, <1>a, <1>b, <1>f
  <2>5. QED
    BY <2>2, <2>3, <2>4, <1>d
<1>4. HandledInOrder'
  BY <1>t, <1>a, <1>e, <1>x, ExtendsInOrder DEF Order
<1>5. \A s \in Sessions, n \in Numbers : ~(s = f.from /\ n = f.n) => answers'[s][n] = answers[s][n]
  BY SMTT(30), <1>t, <1>a DEF Completes, TypeOK
<1>6. answers[f.from][f.n] = 0
  BY <1>t DEF Completes, Unanswered
<1>7. answers'[f.from][f.n] \in {0, 1} /\ (f.kind = "CALL" => answers'[f.from][f.n] = 1)
  BY <1>t, <1>a, <1>6 DEF Completes, TypeOK
<1>8. Unanswered'
  <2>1. \A s \in Sessions, n \in Numbers : n > arrived[s] => answers'[s][n] = 0
    <3>1. \A s \in Sessions, n \in Numbers : n > arrived[s] => ~(s = f.from /\ n = f.n)
      BY <1>a, <1>t DEF Numbers, TypeOK
    <3>2. QED
      BY <3>1, <1>5, <1>t DEF Unanswered
  <2>2. \A r \in Receivers : \A i \in 1 .. Len(queue[r]) : answers'[queue[r][i].from][queue[r][i].n] = 0
    <3>1. SUFFICES ASSUME NEW r \in Receivers, NEW i \in 1 .. Len(queue[r])
                   PROVE  answers'[queue[r][i].from][queue[r][i].n] = 0
      OBVIOUS
    <3>2. queue[r][i].from \in Sessions /\ queue[r][i].n \in Numbers
      BY <1>t, QueuedAreFrames
    <3>3. ~(queue[r][i].from = f.from /\ queue[r][i].n = f.n)
      BY <1>f, <1>a DEF Numbers
    <3>4. QED
      BY <3>2, <3>3, <1>5, <1>t DEF Unanswered
  <2>3. \A u \in Tasks : task'[u] \in Busy => answers'[cur[u].from][cur[u].n] = 0
    <3>1. SUFFICES ASSUME NEW u \in Tasks, task'[u] \in Busy
                   PROVE  answers'[cur[u].from][cur[u].n] = 0
      OBVIOUS
    <3>2. cur[u].from \in Sessions /\ cur[u].n \in Numbers /\ cur[u].from # f.from /\ task[u] \in Busy
      BY <3>1, <1>b, <1>t, FrameFields DEF Holding
    <3>3. QED
      BY <3>2, <1>5, <1>t DEF Unanswered
  <2>4. \A s \in Sessions : link[s] = "new" => arrived[s] = 0
    BY <1>t DEF Unanswered
  <2>5. QED
    BY <2>1, <2>2, <2>3, <2>4 DEF Completes, Unanswered
<1>9. CallAnsweredOnce'
  <2>1. \A s \in Sessions, n \in Numbers : answers'[s][n] <= 1
    BY <1>5, <1>7, <1>t DEF CallAnsweredOnce
  <2>2. SUFFICES ASSUME NEW s \in Sessions, NEW i \in 1 .. Len(handled'[s]),
                        handled'[s][i].kind = "CALL", link[s] = "up"
                 PROVE  answers'[s][handled'[s][i].n] = 1
    BY <2>1 DEF Completes, CallAnsweredOnce
  <2>3. CASE s # f.from
    <3>1. i \in 1 .. Len(handled[s]) /\ handled[s][i].n \in Numbers
      BY <2>3, <1>c, <1>t, HandledAreFrames
    <3>2. QED
      BY <3>1, <2>2, <2>3, <1>c, <1>5, <1>t DEF CallAnsweredOnce
  <2>4. CASE s = f.from /\ i \in 1 .. Len(handled[s])
    <3>1. handled[s][i].n \in Numbers /\ handled[s][i].n # f.n
      BY <2>4, <1>e, <1>a, <1>t, HandledAreFrames DEF Numbers
    <3>2. handled'[s][i] = handled[s][i]
      BY <2>4, <1>d
    <3>3. answers'[s][handled[s][i].n] = answers[s][handled[s][i].n]
      BY <3>1, <1>5
    <3>4. answers[s][handled[s][i].n] = 1
      BY <3>2, <2>2, <2>4, <1>t DEF CallAnsweredOnce
    <3>5. QED
      BY <3>2, <3>3, <3>4
  <2>5. CASE s = f.from /\ i = Len(handled[s]) + 1
    BY <2>5, <2>2, <1>d, <1>7
  <2>6. QED
    BY <2>3, <2>4, <2>5, <1>d
<1>10. QED
  BY <1>1, <1>2, <1>3, <1>4, <1>8, <1>9 DEF Order

LEMMA DeliverKeeps ==
  ASSUME TInv, NEW s \in Sessions, NEW k \in Kinds, NEW to \in 0 .. MaxAsks, Deliver(s, k, to)
  PROVE  Order' /\ Unanswered' /\ CallAnsweredOnce'
<1>t. TypeOK /\ Order /\ Unanswered /\ CallAnsweredOnce /\ Holding
  BY DEF TInv, IInv
<1> DEFINE r == ReceiverOf[s]
           new == [from |-> s, n |-> arrived[s] + 1, kind |-> k, to |-> to]
           last == Len(queue[r]) + 1
<1>a. r \in Receivers /\ arrived[s] \in Nat /\ queue[r] \in Seq(Frames) /\ Len(queue[r]) \in Nat
  BY DispatcherAssumption, <1>t DEF DispatcherAssumption, TypeOK
<1>b. UNCHANGED <<link, task, serves, cur, handled, answers>> /\ link[s] = "up"
  BY DEF Deliver
<1>c. arrived'[s] = arrived[s] + 1 /\ \A x \in Sessions : x # s => arrived'[x] = arrived[x]
  BY <1>t DEF Deliver, TypeOK
<1>d. \A x \in Sessions : arrived[x] \in Nat /\ arrived'[x] \in Nat /\ arrived[x] <= arrived'[x]
  <2>1. \A x \in Sessions : arrived[x] \in Nat
    BY DispatcherAssumption, <1>t DEF DispatcherAssumption, TypeOK
  <2>2. QED
    BY <2>1, <1>c
<1>e. /\ \A q \in Receivers : q # r => queue'[q] = queue[q]
      /\ queue'[r] = Append(queue[r], new)
  BY <1>a, <1>t DEF Deliver, TypeOK
<1>f. /\ Len(queue'[r]) = last /\ queue'[r][last] = new
      /\ \A j \in 1 .. Len(queue[r]) : queue'[r][j] = queue[r][j]
  BY <1>a, <1>e
\* What is in a queue after the step was there before, or is the new frame.
<1>g. \A q \in Receivers : \A j \in 1 .. Len(queue'[q]) :
        \/ j \in 1 .. Len(queue[q]) /\ queue'[q][j] = queue[q][j]
        \/ q = r /\ j = last /\ queue'[q][j] = new
  <2>1. SUFFICES ASSUME NEW q \in Receivers, NEW j \in 1 .. Len(queue'[q])
                 PROVE  \/ j \in 1 .. Len(queue[q]) /\ queue'[q][j] = queue[q][j]
                        \/ q = r /\ j = last /\ queue'[q][j] = new
    OBVIOUS
  <2>2. CASE q # r
    BY <2>2, <1>e
  <2>3. CASE q = r
    <3>1. j \in 1 .. Len(queue[r]) \/ j = last
      BY <2>3, <1>a, <1>f
    <3>2. QED
      BY <3>1, <2>3, <1>f
  <2>4. QED
    BY <2>2, <2>3
<1>h. \A q \in Receivers : \A j \in 1 .. Len(queue[q]) :
        /\ queue[q][j].from \in Sessions /\ queue[q][j].n \in Nat
        /\ ReceiverOf[queue[q][j].from] = q /\ queue[q][j].n <= arrived[queue[q][j].from]
  BY <1>t, QueuedAreFrames DEF Order, QueuedInOrder, Numbers
<1>1. QueuedInOrder'
  <2>1. SUFFICES ASSUME NEW q \in Receivers, NEW i \in 1 .. Len(queue'[q])
                 PROVE  /\ ReceiverOf[queue'[q][i].from] = q
                        /\ queue'[q][i].n <= arrived'[queue'[q][i].from]
                        /\ \A j \in 1 .. Len(queue'[q]) :
                             (i < j /\ queue'[q][i].from = queue'[q][j].from) =>
                                queue'[q][i].n < queue'[q][j].n
    BY DEF QueuedInOrder, SameFrom
  <2>2. CASE q = r /\ i = last
    BY <2>2, <1>a, <1>c, <1>f
  <2>3. CASE i \in 1 .. Len(queue[q]) /\ queue'[q][i] = queue[q][i]
    <3>1. /\ queue[q][i].from \in Sessions /\ queue[q][i].n \in Nat
          /\ ReceiverOf[queue[q][i].from] = q /\ queue[q][i].n <= arrived[queue[q][i].from]
      BY <2>3, <1>h
    <3>2. ReceiverOf[queue[q][i].from] = q /\ queue[q][i].n <= arrived'[queue[q][i].from]
      BY <3>1, <1>d
    <3>3. ASSUME NEW j \in 1 .. Len(queue'[q]), i < j, queue[q][i].from = queue'[q][j].from
          PROVE  queue[q][i].n < queue'[q][j].n
      <4>1. CASE j \in 1 .. Len(queue[q]) /\ queue'[q][j] = queue[q][j]
        BY <4>1, <3>3, <2>3, <1>t DEF Order, QueuedInOrder, SameFrom
      <4>2. CASE q = r /\ j = last /\ queue'[q][j] = new
        BY SMTT(30), <4>2, <3>3, <2>3, <1>h, <1>a
      <4>3. QED
        BY <4>1, <4>2, <1>g
    <3>4. QED
      BY <3>2, <3>3, <2>3
  <2>4. QED
    BY <2>2, <2>3, <1>g
<1>2. HeldBeforeQueued'
  <2>1. SUFFICES ASSUME NEW t \in Tasks, task[t] \in Busy
                 PROVE  /\ ReceiverOf[cur[t].from] = serves[t] /\ cur[t].n <= arrived'[cur[t].from]
                        /\ \A j \in 1 .. Len(queue'[serves[t]]) :
                             cur[t].from = queue'[serves[t]][j].from => cur[t].n < queue'[serves[t]][j].n
    BY <1>b DEF HeldBeforeQueued, SameFrom
  <2>2. /\ serves[t] \in Receivers /\ cur[t].from \in Sessions /\ cur[t].n \in Nat
        /\ arrived[cur[t].from] \in Nat /\ cur[t].n <= arrived[cur[t].from]
        /\ ReceiverOf[cur[t].from] = serves[t]
    BY <2>1, <1>t, FrameFields DEF Holding, TypeOK, Order, HeldBeforeQueued, Numbers
  <2>3. ASSUME NEW j \in 1 .. Len(queue'[serves[t]]), cur[t].from = queue'[serves[t]][j].from
        PROVE  cur[t].n < queue'[serves[t]][j].n
    <3>1. CASE j \in 1 .. Len(queue[serves[t]]) /\ queue'[serves[t]][j] = queue[serves[t]][j]
      BY <3>1, <2>1, <2>3, <1>t DEF Order, HeldBeforeQueued, SameFrom
    <3>2. CASE queue'[serves[t]][j] = new
      BY <3>2, <2>2, <2>3, <1>a
    <3>3. QED
      BY <3>1, <3>2, <2>2, <1>g
  <2>4. QED
    BY SMTT(30), <2>2, <2>3, <1>d
<1>3. HandledBeforeHeld'
  <2>1. SUFFICES ASSUME NEW x \in Sessions, NEW i \in 1 .. Len(handled[x])
                 PROVE  /\ handled[x][i].n <= arrived'[x]
                        /\ \A q \in Receivers : \A j \in 1 .. Len(queue'[q]) :
                              queue'[q][j].from = x => handled[x][i].n < queue'[q][j].n
    BY <1>b, <1>t DEF Order, HandledBeforeHeld
  <2>2. handled[x][i].n \in Nat /\ arrived[x] \in Nat /\ handled[x][i].n <= arrived[x]
    BY <1>t, HandledAreFrames DEF Order, HandledBeforeHeld, TypeOK, Numbers
  <2>3. ASSUME NEW q \in Receivers, NEW j \in 1 .. Len(queue'[q]), queue'[q][j].from = x
        PROVE  handled[x][i].n < queue'[q][j].n
    <3>1. CASE j \in 1 .. Len(queue[q]) /\ queue'[q][j] = queue[q][j]
      BY <3>1, <2>3, <1>t DEF Order, HandledBeforeHeld
    <3>2. CASE queue'[q][j] = new
      BY <3>2, <2>2, <2>3, <1>a
    <3>3. QED
      BY <3>1, <3>2, <1>g
  <2>4. QED
    BY <2>2, <2>3, <1>d
<1>4. HandledInOrder' /\ CallAnsweredOnce'
  BY <1>b, <1>t DEF Order, HandledInOrder, CallAnsweredOnce
<1>5. Unanswered'
  <2>1. ASSUME NEW x \in Sessions, NEW n \in Numbers, n > arrived'[x] PROVE answers[x][n] = 0
    <3>1. arrived[x] \in Nat /\ n \in Nat
      BY <1>t DEF TypeOK, Numbers
    <3>2. n > arrived[x]
      BY <2>1, <3>1, <1>c
    <3>3. QED
      BY <3>2, <1>t DEF Unanswered
  <2>2. ASSUME NEW q \in Receivers, NEW j \in 1 .. Len(queue'[q])
        PROVE  answers[queue'[q][j].from][queue'[q][j].n] = 0
    <3>1. CASE j \in 1 .. Len(queue[q]) /\ queue'[q][j] = queue[q][j]
      BY <3>1, <1>t DEF Unanswered
    <3>2. CASE queue'[q][j] = new
      <4>1. arrived[s] + 1 \in Numbers
        BY <1>a, DispatcherAssumption DEF Deliver, DispatcherAssumption, Numbers
      <4>2. QED
        BY <4>1, <3>2, <1>a, <1>t DEF Unanswered
    <3>3. QED
      BY <3>1, <3>2, <1>g
  <2>3. ASSUME NEW x \in Sessions, link[x] = "new" PROVE arrived'[x] = 0
    BY <2>3, <1>b, <1>c, <1>t DEF Unanswered
  <2>4. QED
    BY <2>1, <2>2, <2>3, <1>b, <1>t DEF Unanswered
<1>6. QED
  BY <1>1, <1>2, <1>3, <1>4, <1>5 DEF Order

\* The frame at the head of a queue goes to the task, or is processed at once.
LEMMA GetKeeps ==
  ASSUME TInv, NEW t \in Tasks, Get(t)
  PROVE  Order' /\ Unanswered' /\ CallAnsweredOnce'
<1>t. TypeOK /\ Order /\ Unanswered /\ CallAnsweredOnce /\ Holding /\ Owned
  BY DEF TInv, IInv
<1> DEFINE r == serves[t]
           f == Head(queue[r])
<1>a. /\ r \in Receivers /\ queue[r] \in Seq(Frames) /\ Len(queue[r]) \in Nat /\ Len(queue[r]) # 0
      /\ f = queue[r][1]
  BY <1>t DEF Get, TypeOK
<1>b. /\ f \in Frames /\ f.from \in Sessions /\ f.n \in Numbers
      /\ ReceiverOf[f.from] = r /\ f.n <= arrived[f.from] /\ answers[f.from][f.n] = 0
  BY <1>a, <1>t, QueuedAreFrames DEF Order, QueuedInOrder, Unanswered
<1>c. /\ UNCHANGED <<link, arrived, serves, answers>> /\ task[t] = "idle"
      /\ cur'[t] = f /\ \A u \in Tasks : u # t => cur'[u] = cur[u]
  BY <1>t DEF Get, TypeOK
<1>e. /\ \A q \in Receivers : q # r => queue'[q] = queue[q]
      /\ queue'[r] = Tail(queue[r])
  BY <1>a, <1>t DEF Get, TypeOK
<1>f. /\ Len(queue'[r]) = Len(queue[r]) - 1
      /\ \A j \in 1 .. Len(queue'[r]) : j + 1 \in 1 .. Len(queue[r]) /\ queue'[r][j] = queue[r][j + 1]
  BY <1>a, <1>e
\* What is left in a queue was there, in the same order, and behind f.
<1> DEFINE at(q, j) == IF q = r THEN j + 1 ELSE j
<1>g. \A q \in Receivers : \A j \in 1 .. Len(queue'[q]) :
        at(q, j) \in 1 .. Len(queue[q]) /\ queue'[q][j] = queue[q][at(q, j)]
  BY <1>e, <1>f
<1>h. \A q \in Receivers : \A j \in 1 .. Len(queue'[q]) :
        queue'[q][j].from = f.from => f.n < queue'[q][j].n
  <2>1. SUFFICES ASSUME NEW q \in Receivers, NEW j \in 1 .. Len(queue'[q]), queue'[q][j].from = f.from
                 PROVE  f.n < queue'[q][j].n
    OBVIOUS
  <2>2. ReceiverOf[queue[q][at(q, j)].from] = q
    BY <1>g, <1>t DEF Order, QueuedInOrder
  <2>3. q = r
    BY <2>1, <2>2, <1>g, <1>b
  <2>4. j + 1 \in 1 .. Len(queue[r]) /\ queue'[q][j] = queue[r][j + 1] /\ 1 < j + 1
    BY <2>3, <1>f
  <2>5. 1 \in 1 .. Len(queue[r])
    BY <1>a
  <2>6. QED
    BY <2>1, <2>4, <2>5, <1>a, <1>t DEF Order, QueuedInOrder, SameFrom
\* Another task that is busy reads another receiver.
<1>i. \A u \in Tasks : (u # t /\ task[u] \in Busy) => serves[u] # r /\ cur[u].from # f.from
  <2>1. SUFFICES ASSUME NEW u \in Tasks, u # t, task[u] \in Busy
                 PROVE  serves[u] # r /\ cur[u].from # f.from
    OBVIOUS
  <2>2. owner[serves[u]] = u /\ owner[r] = t
    BY <2>1, <1>c, <1>t DEF Owned, Running
  <2>3. ReceiverOf[cur[u].from] = serves[u]
    BY <2>1, <1>t DEF Order, HeldBeforeQueued
  <2>4. QED
    BY <2>1, <2>2, <2>3, <1>b
<1>1. QueuedInOrder'
  <2>1. SUFFICES ASSUME NEW q \in Receivers, NEW i \in 1 .. Len(queue'[q])
                 PROVE  /\ ReceiverOf[queue'[q][i].from] = q
                        /\ queue'[q][i].n <= arrived[queue'[q][i].from]
                        /\ \A j \in 1 .. Len(queue'[q]) :
                             (i < j /\ queue'[q][i].from = queue'[q][j].from) =>
                                queue'[q][i].n < queue'[q][j].n
    BY <1>c DEF QueuedInOrder, SameFrom
  <2>2. at(q, i) \in 1 .. Len(queue[q]) /\ queue'[q][i] = queue[q][at(q, i)]
    BY <1>g
  <2>3. ReceiverOf[queue'[q][i].from] = q /\ queue'[q][i].n <= arrived[queue'[q][i].from]
    BY <2>2, <1>t DEF Order, QueuedInOrder
  <2>4. ASSUME NEW j \in 1 .. Len(queue'[q]), i < j, queue'[q][i].from = queue'[q][j].from
        PROVE  queue'[q][i].n < queue'[q][j].n
    <3>1. at(q, i) < at(q, j)
      BY <2>4
    <3>2. at(q, j) \in 1 .. Len(queue[q]) /\ queue'[q][j] = queue[q][at(q, j)]
      BY <1>g
    <3>3. QED
      BY <2>2, <2>4, <3>1, <3>2, <1>t DEF Order, QueuedInOrder, SameFrom
  <2>5. QED
    BY <2>3, <2>4
<1>2. ASSUME NEW x \in Sessions, NEW i \in 1 .. Len(handled[x])
      PROVE  /\ handled[x][i].n <= arrived[x]
             /\ \A q \in Receivers : \A j \in 1 .. Len(queue'[q]) :
                   queue'[q][j].from = x => handled[x][i].n < queue'[q][j].n
             /\ x = f.from => handled[x][i].n < f.n
  <2>1. \A q \in Receivers : \A j \in 1 .. Len(queue[q]) :
          queue[q][j].from = x => handled[x][i].n < queue[q][j].n
    BY <1>2, <1>t DEF Order, HandledBeforeHeld
  <2>2. 1 \in 1 .. Len(queue[r])
    BY <1>a
  <2>3. x = f.from => handled[x][i].n < f.n
    BY <2>1, <2>2, <1>a
  <2>4. ASSUME NEW q \in Receivers, NEW j \in 1 .. Len(queue'[q]), queue'[q][j].from = x
        PROVE  handled[x][i].n < queue'[q][j].n
    <3>1. at(q, j) \in 1 .. Len(queue[q]) /\ queue'[q][j] = queue[q][at(q, j)]
      BY <1>g
    <3>2. QED
      BY <3>1, <2>1, <2>4
  <2>5. QED
    BY <1>2, <2>3, <2>4, <1>t DEF Order, HandledBeforeHeld
<1>3. ASSUME NEW q \in Receivers, NEW j \in 1 .. Len(queue'[q])
      PROVE  answers[queue'[q][j].from][queue'[q][j].n] = 0
  BY SMTT(30), <1>3, <1>g, <1>t DEF Unanswered
<1>4. CASE Goto(t, "handler") \/ Goto(t, "report") \/ Goto(t, "reply")
  <2>1. /\ UNCHANGED handled /\ task'[t] \in Busy
        /\ \A u \in Tasks : u # t => task'[u] = task[u]
    BY <1>4, <1>t DEF Goto, TypeOK, Busy
  <2>2. HeldBeforeQueued'
    <3>1. SUFFICES ASSUME NEW u \in Tasks, task'[u] \in Busy
                   PROVE  /\ ReceiverOf[cur'[u].from] = serves[u] /\ cur'[u].n <= arrived[cur'[u].from]
                          /\ \A j \in 1 .. Len(queue'[serves[u]]) :
                                cur'[u].from = queue'[serves[u]][j].from => cur'[u].n < queue'[serves[u]][j].n
      BY <1>c DEF HeldBeforeQueued, SameFrom
    <3>2. CASE u = t
      BY <3>2, <1>a, <1>b, <1>c, <1>h
    <3>3. CASE u # t
      <4>1. task[u] \in Busy /\ cur'[u] = cur[u] /\ serves[u] # r /\ serves[u] \in Receivers
        BY <3>1, <3>3, <2>1, <1>c, <1>i, <1>t DEF TypeOK
      <4>2. queue'[serves[u]] = queue[serves[u]]
        BY <4>1, <1>e
      <4>3. QED
        BY <4>1, <4>2, <1>t DEF Order, HeldBeforeQueued, SameFrom
    <3>4. QED
      BY <3>2, <3>3
  <2>3. HandledBeforeHeld'
    <3>1. ASSUME NEW x \in Sessions, NEW i \in 1 .. Len(handled[x]), NEW u \in Tasks,
                 task'[u] \in Busy, cur'[u].from = x
          PROVE  handled[x][i].n < cur'[u].n
      <4>1. CASE u = t
        BY <4>1, <3>1, <1>2, <1>c
      <4>2. CASE u # t
        BY <4>2, <3>1, <2>1, <1>c, <1>t DEF Order, HandledBeforeHeld
      <4>3. QED
        BY <4>1, <4>2
    <3>2. QED
      BY <3>1, <2>1, <1>2, <1>c DEF HandledBeforeHeld
  <2>4. HandledInOrder' /\ CallAnsweredOnce'
    BY <2>1, <1>c, <1>t DEF Order, HandledInOrder, CallAnsweredOnce
  <2>5. Unanswered'
    BY <2>1, <1>b, <1>c, <1>3, <1>t DEF Unanswered
  <2>6. QED
    BY <2>2, <2>3, <2>4, <2>5, <1>1 DEF Order
<1>5. CASE f.kind # "CALL" /\ Ignore(t, f)
  <2>1. \A u \in Tasks : task'[u] \in Busy => u # t /\ task[u] \in Busy /\ cur'[u] = cur[u]
    BY <1>5, <1>c, <1>t DEF Ignore, Busy, TypeOK
  <2>2. Extends(f.from, f)
    BY <1>5 DEF Ignore, Extends
  <2>3. \A s \in Sessions : \A i \in 1 .. Len(handled'[s]) :
          \/ i \in 1 .. Len(handled[s]) /\ handled'[s][i] = handled[s][i]
          \/ s = f.from /\ i = Len(handled[s]) + 1 /\ handled'[s][i] = f
    BY <2>2, <1>b, <1>t, ExtendsBy
  <2>6. HeldBeforeQueued'
    <3>1. SUFFICES ASSUME NEW u \in Tasks, task'[u] \in Busy
                   PROVE  /\ ReceiverOf[cur[u].from] = serves[u] /\ cur[u].n <= arrived[cur[u].from]
                          /\ \A j \in 1 .. Len(queue'[serves[u]]) :
                                cur[u].from = queue'[serves[u]][j].from => cur[u].n < queue'[serves[u]][j].n
      BY <2>1, <1>c DEF HeldBeforeQueued, SameFrom
    <3>2. task[u] \in Busy /\ serves[u] # r /\ serves[u] \in Receivers
      BY <3>1, <2>1, <1>i, <1>t DEF TypeOK
    <3>3. queue'[serves[u]] = queue[serves[u]]
      BY <3>2, <1>e
    <3>4. QED
      BY <3>2, <3>3, <1>t DEF Order, HeldBeforeQueued, SameFrom
  <2>7. HandledBeforeHeld'
    <3>1. SUFFICES ASSUME NEW x \in Sessions, NEW i \in 1 .. Len(handled'[x])
                   PROVE  /\ handled'[x][i].n <= arrived[x]
                          /\ \A q \in Receivers : \A j \in 1 .. Len(queue'[q]) :
                                queue'[q][j].from = x => handled'[x][i].n < queue'[q][j].n
                          /\ \A u \in Tasks : (task'[u] \in Busy /\ cur'[u].from = x) =>
                                handled'[x][i].n < cur'[u].n
      BY <1>c DEF HandledBeforeHeld
    <3>2. CASE i \in 1 .. Len(handled[x]) /\ handled'[x][i] = handled[x][i]
      BY <3>2, <1>2, <2>1, <1>t DEF Order, HandledBeforeHeld
    <3>3. CASE x = f.from /\ handled'[x][i] = f
      BY <3>3, <1>b, <1>h, <1>i, <2>1
    <3>4. QED
      BY <3>2, <3>3, <2>3
  <2>8. HandledInOrder'
    <3>1. \A i \in 1 .. Len(handled[f.from]) : handled[f.from][i].n < f.n
      BY <1>2, <1>b
    <3>2. QED
      BY <3>1, <2>2, <1>b, <1>t, ExtendsInOrder DEF Order
  <2>9. CallAnsweredOnce'
    BY <2>3, <1>5, <1>c, <1>t DEF CallAnsweredOnce
  <2>10. Unanswered'
    BY <2>1, <1>c, <1>3, <1>t DEF Unanswered
  <2>11. QED
    BY <2>6, <2>7, <2>8, <2>9, <2>10, <1>1 DEF Order
<1>6. QED
  BY <1>4, <1>5 DEF Get

LEMMA TrailStep == TInv /\ [Next]_vars => Order' /\ Unanswered' /\ CallAnsweredOnce'
<1> SUFFICES ASSUME TInv, [Next]_vars PROVE Order' /\ Unanswered' /\ CallAnsweredOnce'
  OBVIOUS
<1>t. TypeOK /\ Holding
  BY DEF TInv, IInv
<1>1. CASE UNCHANGED vars
  BY <1>1, QuietKeeps, <1>t DEF vars, Quiet, TypeOK
<1>2. ASSUME NEW s \in Sessions, Connect(s) PROVE Quiet
  BY <1>2, <1>t DEF Connect, Start, Quiet, TypeOK, Busy
<1>3. ASSUME NEW s \in Sessions, Break(s) PROVE Quiet
  BY <1>3, <1>t DEF Break, Quiet, TypeOK
<1>4. ASSUME NEW s \in Sessions, Request(s) PROVE Order' /\ Unanswered' /\ CallAnsweredOnce'
  <2>1. 0 \in 0 .. MaxAsks
    BY DispatcherAssumption DEF DispatcherAssumption
  <2>2. QED
    BY <1>4, <2>1, DeliverKeeps DEF Request
<1>5. ASSUME NEW i \in 1 .. MaxAsks, Answer(i) PROVE Order' /\ Unanswered' /\ CallAnsweredOnce'
  <2> DEFINE A == [via : Sessions, answered : BOOLEAN]
  <2>1. asks[i].via \in Sessions
    <3>1. asks \in Seq(A) /\ i \in 1 .. Len(asks)
      BY <1>5, <1>t DEF Answer, TypeOK
    <3>2. asks[i] \in A
      BY <3>1, ElementOfSeq
    <3>3. QED
      BY <3>2
  <2>2. "REPLY" \in Kinds /\ i \in 0 .. MaxAsks
    BY DispatcherAssumption DEF DispatcherAssumption, Kinds
  <2>3. QED
    BY <1>5, <2>1, <2>2, DeliverKeeps DEF Answer
<1>6. ASSUME NEW t \in Tasks, NEW phase \in Busy \cup {"dead"}, task[t] \in Busy, Goto(t, phase),
             UNCHANGED <<link, arrived, queue, serves, cur, answers>>
      PROVE  Quiet
  BY <1>6, <1>t DEF Goto, Quiet, TypeOK, Busy
<1>7. ASSUME NEW t \in Tasks, Handle(t) \/ Ask(t) \/ AskTimesOut(t) \/ Reply(t) \/ Report(t) \/ Fallback(t)
      PROVE  Completes(t) \/ Quiet
  <2>1. task[t] \in Busy
    BY <1>7 DEF Handle, Ask, AskTimesOut, CanGiveUp, Reply, Report, Fallback, Busy
  <2>2. CASE Handle(t) \/ Ask(t) \/ AskTimesOut(t)
    BY <2>1, <2>2, <1>6 DEF Handle, Ask, AskTimesOut, Completes, Busy
  <2>3. CASE Reply(t) \/ Report(t) \/ Fallback(t)
    BY <2>1, <2>3, <1>6 DEF Reply, Report, Fallback, Write, HasFallback, Completes, Busy
  <2>4. QED
    BY <1>7, <2>2, <2>3
<1>8. ASSUME NEW rs \in SUBSET Receivers, Stop(rs) PROVE Quiet
  BY <1>8, <1>t DEF Stop, Quiet, TypeOK, Busy, Running
<1>9. QED
  BY <1>1, <1>2, <1>3, <1>4, <1>5, <1>7, <1>8, QuietKeeps, CompletesKeeps, GetKeeps DEF Next, Step

LEMMA InitTrail == Init => TInv
<1> SUFFICES ASSUME Init PROVE TInv
  OBVIOUS
<1>1. IInv
  BY InitInv
<1>2. Order /\ CallAnsweredOnce
  BY DEF Init, Order, QueuedInOrder, HeldBeforeQueued, HandledBeforeHeld, HandledInOrder, CallAnsweredOnce, Busy
<1>3. Unanswered
  BY DEF Init, Unanswered, Busy
<1>4. QED
  BY <1>1, <1>2, <1>3 DEF TInv

\* So does that of the frames on their way to a handler.
THEOREM TrailInvariance == Spec => []TInv
<1>1. TInv /\ [Next]_vars => TInv'
  BY TypeStep, OwnedStep, HoldingStep, TrailStep DEF TInv, IInv
<1>2. QED
  BY InitTrail, <1>1, PTL DEF Spec

\* The frames of a session are processed in the order in which they arrived,
\* through any number of stops, deaths and successors of its consumer (_run,
\* dispatcher.py:70-99).
THEOREM FramesKeepTheirOrder == Spec => []HandledInOrder
<1>1. TInv => HandledInOrder
  BY DEF TInv, Order
<1>2. QED
  BY TrailInvariance, <1>1, PTL

\* A processed CALL has one answer, whichever of the four places that write one
\* it went through (eventbus.py:26-105, dispatcher.py:85-99).
THEOREM CallsGetOneAnswer == Spec => []CallAnsweredOnce
<1>1. TInv => CallAnsweredOnce
  BY DEF TInv
<1>2. QED
  BY TrailInvariance, <1>1, PTL
=============================================================================
