---------------------------- MODULE AckGateProofs ----------------------------
(***************************************************************************)
(* Proofs about the gate (AckGate), for any set of calls and any bound on  *)
(* the chunks of a stream.                                                 *)
(***************************************************************************)
EXTENDS AckGate, SequenceTheorems, TLAPS

-----------------------------------------------------------------------------
(* What adding a frame at the end, or taking one off the front, does to the *)
(* chunks a sequence of frames holds.                                       *)

\* An empty sequence holds no chunk.
LEMMA EmptyLane ==
  ASSUME NEW c
  PROVE  /\ \A m : ~Holds(<<>>, c, m)
         /\ Ascending(<<>>, c)
BY DEF Holds, Ascending

\* Append (Put, Push) adds the frame's chunk, if it is one of c's, and no other.
LEMMA AppendHolds ==
  ASSUME NEW S, NEW s \in Seq(S), NEW f \in S, NEW c, NEW m
  PROVE  Holds(Append(s, f), c, m) <=> Holds(s, c, m) \/ (IsChunk(f, c) /\ f.n = m)
<1> DEFINE t == Append(s, f)
<1>1. /\ Len(s) \in Nat /\ Len(t) = Len(s) + 1 /\ t[Len(s) + 1] = f
      /\ \A i \in 1 .. Len(s) : t[i] = s[i]
  OBVIOUS
<1>2. 1 .. Len(t) = (1 .. Len(s)) \cup {Len(s) + 1}
  BY <1>1
<1> HIDE DEF t
<1>3. Holds(t, c, m) <=> Holds(s, c, m) \/ (IsChunk(f, c) /\ f.n = m)
  BY <1>1, <1>2 DEF Holds
<1>4. QED
  BY <1>3 DEF t

\* Append keeps the chunks of c ascending when the frame's is the largest.
LEMMA AppendAscending ==
  ASSUME NEW S, NEW s \in Seq(S), NEW f \in S, NEW c, Ascending(s, c),
         IsChunk(f, c) => \A i \in 1 .. Len(s) : IsChunk(s[i], c) => s[i].n < f.n
  PROVE  Ascending(Append(s, f), c)
<1> DEFINE t == Append(s, f)
<1>1. /\ Len(s) \in Nat /\ Len(t) = Len(s) + 1 /\ t[Len(s) + 1] = f
      /\ \A i \in 1 .. Len(s) : t[i] = s[i]
  OBVIOUS
<1> HIDE DEF t
<1>2. SUFFICES ASSUME NEW i \in 1 .. Len(t), NEW j \in 1 .. Len(t),
                      i < j, IsChunk(t[i], c), IsChunk(t[j], c)
               PROVE  t[i].n < t[j].n
  BY DEF Ascending, t
<1>3. i \in 1 .. Len(s)
  BY <1>1, <1>2
<1>4. CASE j \in 1 .. Len(s)
  BY <1>1, <1>2, <1>3, <1>4 DEF Ascending
<1>5. CASE j = Len(s) + 1
  BY <1>1, <1>2, <1>3, <1>5
<1>6. QED
  BY <1>1, <1>4, <1>5

\* Taking the head (Feed, Take) removes its chunk and no other ...
LEMMA TailHolds ==
  ASSUME NEW S, NEW s \in Seq(S), s # <<>>, NEW c, NEW m
  PROVE  Holds(s, c, m) <=>
           (IsChunk(Head(s), c) /\ Head(s).n = m) \/ Holds(Tail(s), c, m)
<1> DEFINE t == Tail(s)
<1>1. /\ Len(s) \in Nat \ {0} /\ Len(t) = Len(s) - 1 /\ Head(s) = s[1]
      /\ \A i \in 1 .. Len(t) : t[i] = s[i + 1]
  BY HeadTailProperties, EmptySeq
<1> HIDE DEF t
<1>2. ASSUME NEW i \in 1 .. Len(s), i # 1
      PROVE  i - 1 \in 1 .. Len(t) /\ t[i - 1] = s[i]
  <2>1. i - 1 \in 1 .. Len(t)
    BY <1>1, <1>2
  <2>2. t[i - 1] = s[(i - 1) + 1]
    BY <1>1, <2>1
  <2>3. QED
    BY <2>1, <2>2
<1>3. \A i \in 1 .. Len(t) : i + 1 \in 1 .. Len(s)
  BY <1>1
<1>4. 1 \in 1 .. Len(s)
  BY <1>1
<1>5. Holds(s, c, m) <=> (IsChunk(s[1], c) /\ s[1].n = m) \/ Holds(t, c, m)
  BY <1>1, <1>2, <1>3, <1>4 DEF Holds
<1>6. QED
  BY <1>1, <1>5 DEF t

\* ... and when the chunks were ascending, the head's was the least.
LEMMA TailAscending ==
  ASSUME NEW S, NEW s \in Seq(S), s # <<>>, NEW c, Ascending(s, c)
  PROVE  /\ Ascending(Tail(s), c)
         /\ \A m : (IsChunk(Head(s), c) /\ Holds(Tail(s), c, m)) => Head(s).n < m
<1> DEFINE t == Tail(s)
<1>1. /\ Len(s) \in Nat \ {0} /\ Len(t) = Len(s) - 1 /\ Head(s) = s[1]
      /\ \A i \in 1 .. Len(t) : t[i] = s[i + 1]
  BY HeadTailProperties, EmptySeq
<1> HIDE DEF t
<1>2. \A i \in 1 .. Len(t) : i + 1 \in 1 .. Len(s) /\ 1 < i + 1
  BY <1>1
<1>3. 1 \in 1 .. Len(s)
  BY <1>1
<1>4. Ascending(t, c)
  <2>1. SUFFICES ASSUME NEW i \in 1 .. Len(t), NEW j \in 1 .. Len(t),
                        i < j, IsChunk(t[i], c), IsChunk(t[j], c)
                 PROVE  t[i].n < t[j].n
    BY DEF Ascending
  <2>2. i + 1 < j + 1
    BY <1>1, <2>1
  <2>3. QED
    BY <1>1, <1>2, <2>1, <2>2 DEF Ascending
<1>5. ASSUME NEW m, IsChunk(s[1], c), Holds(t, c, m)
      PROVE  s[1].n < m
  <2>1. PICK i \in 1 .. Len(t) : IsChunk(t[i], c) /\ t[i].n = m
    BY <1>5 DEF Holds
  <2>2. QED
    BY <1>1, <1>2, <1>3, <1>5, <2>1 DEF Ascending
<1>6. QED
  BY <1>1, <1>4, <1>5 DEF t

-----------------------------------------------------------------------------
(* The inductive invariant. TakenInOrder alone is not inductive: the chunk   *)
(* Take hands over must be the successor of the last one, which is what      *)
(* ChunkLanes says of the frames on their way; and TypeOK needs ChunkLanes   *)
(* to know that a CHUNK frame is numbered from 1.                            *)

Bookkeeping ==
    \A c \in Calls :
        /\ c \notin pendings => queue[c] = <<>>
        /\ \A i \in 1 .. Len(queue[c]) : queue[c][i].corr = c
        /\ caller[c] \in {"idle", "sending"} => taken[c] = <<>>
        /\ caller[c] = "idle" => peer[c] = "none"
        /\ c \notin Streams => taken[c] = <<>>

IInv == TypeOK /\ PendingMatchesWaiter /\ Bookkeeping /\ ChunkLanes /\ TakenInOrder

\* The two things a turn of the receive loop does: it ends the call and cleans
\* up, or takes the frame off the queue and goes on, waiting or suspended.
EndsIt(c) == IsResult(c, Head(queue[c]).kind) \/ IsFailure(c, Head(queue[c]).kind)
IsChunkTurn(c) == c \in Streams /\ Head(queue[c]).kind = "CHUNK"

LEMMA TakeForms ==
  ASSUME NEW c \in Calls, Take(c), TypeOK
  PROVE  /\ queue[c] # <<>> /\ caller[c] = "waiting" /\ UNCHANGED <<inbox, peer, sent, missed>>
         /\ EndsIt(c) => /\ Forget(c) /\ UNCHANGED <<taken, got>> /\ ~IsChunkTurn(c)
                         /\ caller' = [caller EXCEPT ![c] =
                               IF IsResult(c, Head(queue[c]).kind) THEN "returned" ELSE "failed"]
         /\ ~EndsIt(c) =>
              /\ UNCHANGED pendings
              /\ queue' = [queue EXCEPT ![c] = Tail(queue[c])]
              /\ \E v \in {"waiting", "paused"} : caller' = [caller EXCEPT ![c] = v]
              /\ taken' = IF IsChunkTurn(c)
                          THEN [taken EXCEPT ![c] = Append(taken[c], Head(queue[c]).n)] ELSE taken
              /\ got' = IF IsChunkTurn(c) /\ IsGiven(c, Head(queue[c]).n)
                        THEN [got EXCEPT ![c] = Append(got[c], Head(queue[c]).n)] ELSE got
<1> DEFINE f == Head(queue[c])
<1>1. queue[c] # <<>> /\ caller[c] = "waiting" /\ UNCHANGED <<inbox, peer, sent, missed>>
  BY DEF Take
<1>2. /\ IsResult(c, f.kind) => ~IsFailure(c, f.kind)
      /\ EndsIt(c) => ~IsChunkTurn(c)
  BY DEF IsResult, IsFailure, EndsIt, IsChunkTurn
<1>3. caller = [caller EXCEPT ![c] = "waiting"]
  BY <1>1 DEF TypeOK
<1>4. CASE EndsIt(c)
  BY <1>1, <1>2, <1>4 DEF Take, EndsIt, IsChunkTurn
<1>5. CASE ~EndsIt(c)
  BY <1>1, <1>3, <1>5 DEF Take, EndsIt, IsChunkTurn
<1>6. QED
  BY <1>1, <1>4, <1>5

\* The frames the gate and the peer build are frames.
LEMMA MsgFrame ==
  ASSUME NEW c \in Calls, NEW k \in Kinds, NEW n \in 0 .. MaxChunks
  PROVE  /\ Msg(c, k, n) \in Frames
         /\ \A d : IsChunk(Msg(c, k, n), d) <=> d = c /\ k = "CHUNK"
         /\ Msg(c, k, n).n = n
BY DEF Msg, Frames, IsChunk

\* The chunk Take hands over is one the peer has sent: numbered from 1.
LEMMA HeadChunk ==
  ASSUME IInv, NEW c \in Calls, queue[c] # <<>>, Head(queue[c]).kind = "CHUNK"
  PROVE  /\ Head(queue[c]) \in Frames
         /\ IsChunk(Head(queue[c]), c)
         /\ Holds(queue[c], c, Head(queue[c]).n)
         /\ Head(queue[c]).n \in 1 .. sent[c]
         /\ Head(queue[c]).n \in 1 .. MaxChunks
<1> DEFINE f == Head(queue[c])
<1>1. queue[c] \in Seq(Frames) /\ sent[c] \in 0 .. MaxChunks /\ MaxChunks \in Nat
  BY GateAssumption DEF IInv, TypeOK
<1>2. f \in Frames /\ Len(queue[c]) \in Nat \ {0} /\ f = queue[c][1]
  BY <1>1, HeadTailProperties, EmptySeq
<1>3. IsChunk(f, c)
  BY <1>2 DEF IInv, Bookkeeping, IsChunk
<1>4. Holds(queue[c], c, f.n)
  BY <1>2, <1>3 DEF Holds
<1>5. f.n \in 0 .. MaxChunks
  BY <1>2 DEF Frames
<1>6. f.n \in 1 .. sent[c]
  BY <1>4, <1>5 DEF IInv, ChunkLanes, Lane, InTransit
<1>7. QED
  BY <1>1, <1>2, <1>3, <1>4, <1>6

\* Every step keeps the types.
LEMMA TypeStep == IInv /\ [Next]_vars => TypeOK'
<1> SUFFICES ASSUME IInv, [Next]_vars PROVE TypeOK'
  OBVIOUS
<1> USE GateAssumption
<1>t. TypeOK
  BY DEF IInv
<1>p. ASSUME NEW f \in Frames PROVE Append(inbox, f) \in Seq(Frames)
  BY <1>t DEF TypeOK
<1>f. ASSUME NEW c \in Calls, Forget(c)
      PROVE  pendings' \subseteq Calls /\ queue' \in [Calls -> Seq(Frames)]
  BY <1>f, <1>t, EmptySeq DEF Forget, TypeOK
<1>1. CASE Feed
  <2>1. Head(inbox) \in Frames /\ Tail(inbox) \in Seq(Frames)
    BY <1>1, <1>t, HeadTailProperties DEF Feed, TypeOK
  <2>2. queue' \in [Calls -> Seq(Frames)]
    <3>1. CASE Accepts(Head(inbox)) /\ Put(Head(inbox))
      <4>1. Head(inbox).corr \in Calls
        BY <3>1, <1>t DEF Accepts, TypeOK
      <4>2. Append(queue[Head(inbox).corr], Head(inbox)) \in Seq(Frames)
        BY <4>1, <2>1, <1>t DEF TypeOK
      <4>3. QED
        BY <3>1, <4>1, <4>2, <1>t DEF Put, TypeOK
    <3>2. CASE UNCHANGED queue
      BY <3>2, <1>t DEF TypeOK
    <3>3. QED
      BY <1>1, <3>1, <3>2 DEF Feed
  <2>3. missed' \subseteq Calls
    BY <1>1, <1>t DEF Feed, TypeOK
  <2>4. QED
    BY <1>1, <2>1, <2>2, <2>3, <1>t DEF Feed, TypeOK
<1>2. ASSUME NEW c \in Calls, Peer(c) PROVE TypeOK'
  <2> DEFINE Progress == {"none", "called", "deferred", "answered",
                          "streaming", "closed"}
  <2>1. /\ UNCHANGED callerVars
        /\ peer' \in [Calls -> Progress]
        /\ UNCHANGED sent \/ PeerChunk(c)
    BY <1>2, <1>t
    DEF Peer, PeerDefer, PeerAnswer, PeerStartStream, PeerChunk,
        PeerEndStream, TypeOK
  <2>s. sent' \in [Calls -> 0 .. MaxChunks]
    <3>1. sent \in [Calls -> 0 .. MaxChunks]
      BY <1>t DEF TypeOK
    <3>2. ASSUME PeerChunk(c) PROVE sent[c] + 1 \in 0 .. MaxChunks
      BY <3>1, <3>2 DEF PeerChunk
    <3>3. QED
      BY <2>1, <3>1, <3>2 DEF PeerChunk
  <2>2. \E f \in Frames : Push(f)
    <3>1. sent[c] + 1 \in 0 .. MaxChunks \/ ~PeerChunk(c)
      BY <1>t DEF PeerChunk, TypeOK
    <3>2. \E d \in Calls, k \in Kinds, n \in 0 .. MaxChunks : Push(Msg(d, k, n))
      BY <1>2, <3>1
      DEF Peer, PeerDefer, PeerAnswer, PeerStartStream, PeerChunk,
          PeerEndStream, Kinds
    <3>3. QED
      BY <3>2, MsgFrame
  <2>3. QED
    BY <2>1, <2>s, <2>2, <1>p, <1>t DEF TypeOK, callerVars, Push
<1>3. ASSUME NEW c \in Calls, Caller(c) PROVE TypeOK'
  <2>1. CASE SendCall(c) \/ SendFails(c) \/ RequestAck(c) \/ Iterate(c) \/ Discard(c) \/ Resume(c)
    BY <2>1, <1>t
    DEF SendCall, SendFails, RequestAck, Iterate, Discard, Resume, TypeOK, Registered, Finished
  <2>2. CASE Timeout(c) \/ Collect(c) \/ Cancel(c)
    BY ZenonT(60), <2>2, <1>f, <1>t DEF Timeout, Collect, Cancel, TypeOK, Finished
  <2>3. CASE Take(c)
    <3>1. caller' \in [Calls -> {"idle", "sending"} \cup Registered \cup Finished]
      <4>1. \E v \in {"returned", "failed", "waiting", "paused"} : caller' = [caller EXCEPT ![c] = v]
        BY <2>3, <1>t, TakeForms
      <4>2. QED
        BY <4>1, <1>t DEF TypeOK, Registered, Finished
    <3>2. Tail(queue[c]) \in Seq(Frames)
      BY <2>3, <1>t, HeadTailProperties DEF Take, TypeOK
    <3>3. pendings' \subseteq Calls /\ queue' \in [Calls -> Seq(Frames)]
      BY ZenonT(60), <2>3, <3>2, <1>f, <1>t DEF Take, TypeOK
    <3>4. taken' \in [Calls -> Seq(1 .. MaxChunks)] /\ got' \in [Calls -> Seq(1 .. MaxChunks)]
      <4>1. CASE Head(queue[c]).kind = "CHUNK"
        <5>1. Head(queue[c]).n \in 1 .. MaxChunks
          BY <2>3, <4>1, HeadChunk DEF Take
        <5>2. /\ Append(taken[c], Head(queue[c]).n) \in Seq(1 .. MaxChunks)
              /\ Append(got[c], Head(queue[c]).n) \in Seq(1 .. MaxChunks)
          BY <5>1, <1>t DEF TypeOK
        <5>3. /\ taken' = taken \/ taken' = [taken EXCEPT ![c] = Append(taken[c], Head(queue[c]).n)]
              /\ got' = got \/ got' = [got EXCEPT ![c] = Append(got[c], Head(queue[c]).n)]
          BY <2>3, <1>t, TakeForms
        <5>4. taken' \in [Calls -> Seq(1 .. MaxChunks)]
          BY ZenonT(60), <5>2, <5>3, <1>t DEF TypeOK
        <5>5. got' \in [Calls -> Seq(1 .. MaxChunks)]
          BY ZenonT(60), <5>2, <5>3, <1>t DEF TypeOK
        <5>6. QED
          BY <5>4, <5>5
      <4>2. CASE Head(queue[c]).kind # "CHUNK"
        BY <2>3, <4>2, <1>t DEF Take, TypeOK
      <4>3. QED
        BY <4>1, <4>2
    <3>5. QED
      BY <2>3, <3>1, <3>3, <3>4, <1>t DEF Take, TypeOK
  <2>4. QED
    BY <1>3, <2>1, <2>2, <2>3 DEF Caller
<1>4. CASE UNCHANGED vars
  BY <1>4, <1>t DEF vars, TypeOK
<1>5. QED
  BY <1>1, <1>2, <1>3, <1>4 DEF Next

\* Every step keeps the gate's entries and the waiting coroutines in step.
LEMMA PendingStep == IInv /\ [Next]_vars => PendingMatchesWaiter'
<1> SUFFICES ASSUME IInv, [Next]_vars PROVE PendingMatchesWaiter'
  OBVIOUS
<1>t. TypeOK /\ PendingMatchesWaiter
  BY DEF IInv
<1>1. CASE Feed \/ UNCHANGED vars
  BY <1>1, <1>t DEF Feed, vars, PendingMatchesWaiter
<1>2. ASSUME NEW c \in Calls, Peer(c) PROVE PendingMatchesWaiter'
  BY <1>2, <1>t
  DEF Peer, PeerDefer, PeerAnswer, PeerStartStream, PeerChunk,
      PeerEndStream, callerVars, PendingMatchesWaiter
<1>3. ASSUME NEW c \in Calls, Caller(c) PROVE PendingMatchesWaiter'
  BY <1>3, <1>t
  DEF Caller, SendCall, SendFails, RequestAck, Take, CanTimeOut, Timeout, Iterate,
      Discard, Resume, Collect, Cancel, Forget, TypeOK, PendingMatchesWaiter, Registered
<1>4. QED
  BY <1>1, <1>2, <1>3 DEF Next

\* Every step keeps the bookkeeping facts.
LEMMA BookStep == IInv /\ [Next]_vars => Bookkeeping'
<1> SUFFICES ASSUME IInv, [Next]_vars PROVE Bookkeeping'
  OBVIOUS
<1>t. TypeOK /\ PendingMatchesWaiter /\ Bookkeeping
  BY DEF IInv
<1>1. CASE Feed
  <2>1. ASSUME NEW c \in Calls, queue'[c] # queue[c]
        PROVE  /\ c \in pendings /\ Head(inbox).corr = c
               /\ queue'[c] = Append(queue[c], Head(inbox))
    BY <1>1, <1>t, <2>1 DEF Feed, Accepts, Put, TypeOK
  <2>2. ASSUME NEW c \in Calls, NEW i \in 1 .. Len(queue'[c])
        PROVE  queue'[c][i].corr = c
    <3>1. queue[c] \in Seq(Frames)
      BY <1>t DEF TypeOK
    <3>2. CASE queue'[c] = queue[c]
      BY <2>2, <3>2, <1>t DEF Bookkeeping
    <3>3. CASE queue'[c] # queue[c]
      <4> DEFINE q == queue[c]  f == Head(inbox)
      <4>1. f.corr = c /\ queue'[c] = Append(q, f)
        BY <2>1, <3>3
      <4>2. i \in 1 .. Len(q) \/ i = Len(q) + 1
        BY <2>2, <3>1, <4>1
      <4>3. Append(q, f)[i] = IF i = Len(q) + 1 THEN f ELSE q[i]
        BY <3>1, <4>2
      <4>4. QED
        BY <4>1, <4>2, <4>3, <1>t DEF Bookkeeping
    <3>4. QED
      BY <3>2, <3>3
  <2>3. QED
    BY <1>1, <1>t, <2>1, <2>2 DEF Feed, Bookkeeping
<1>2. ASSUME NEW c \in Calls, Peer(c) PROVE Bookkeeping'
  BY <1>2, <1>t
  DEF Peer, PeerDefer, PeerAnswer, PeerStartStream, PeerChunk,
      PeerEndStream, callerVars, TypeOK, Bookkeeping
<1>3. ASSUME NEW c \in Calls, Caller(c) PROVE Bookkeeping'
  <2>1. CASE SendCall(c) \/ SendFails(c) \/ RequestAck(c) \/ Iterate(c) \/ Discard(c) \/ Resume(c)
    BY <2>1, <1>t
    DEF SendCall, SendFails, RequestAck, Iterate, Discard, Resume, TypeOK, Bookkeeping
  <2>2. CASE Forget(c) /\ UNCHANGED <<taken, peer>> /\ caller'[c] \notin {"idle", "sending"}
             /\ \A d \in Calls \ {c} : caller'[d] = caller[d]
    <3>1. queue'[c] = <<>> /\ \A d \in Calls \ {c} : queue'[d] = queue[d]
      BY <2>2, <1>t DEF Forget, TypeOK
    <3>2. \A d \in Calls : d \notin pendings' => d = c \/ d \notin pendings
      BY <2>2 DEF Forget
    <3>3. ASSUME NEW d \in Calls
          PROVE  /\ d \notin pendings' => queue'[d] = <<>>
                 /\ \A i \in 1 .. Len(queue'[d]) : queue'[d][i].corr = d
                 /\ caller'[d] \in {"idle", "sending"} => taken'[d] = <<>>
                 /\ caller'[d] = "idle" => peer'[d] = "none"
                 /\ d \notin Streams => taken'[d] = <<>>
      <4>1. CASE d = c
        BY <1>t, <2>2, <3>1, <4>1, EmptySeq DEF Bookkeeping
      <4>2. CASE d # c
        BY <1>t, <2>2, <3>1, <3>2, <4>2 DEF Bookkeeping
      <4>3. QED
        BY <4>1, <4>2
    <3>4. QED
      BY <3>3 DEF Bookkeeping
  <2>3. CASE Timeout(c) \/ Collect(c) \/ Cancel(c)
    BY <2>2, <2>3, <1>t DEF Timeout, Collect, Cancel, TypeOK
  <2>4. CASE Take(c)
    <3>1. CASE EndsIt(c)
      BY <2>2, <2>4, <3>1, <1>t, TakeForms DEF TypeOK
    <3>2. CASE ~EndsIt(c)
      <4> DEFINE q == queue[c]
      <4>1. /\ q \in Seq(Frames) /\ q # <<>> /\ c \in pendings
            /\ queue' = [queue EXCEPT ![c] = Tail(q)]
            /\ caller'[c] \in {"waiting", "paused"}
            /\ UNCHANGED <<pendings, peer>>
            /\ \A d \in Calls \ {c} : caller'[d] = caller[d] /\ taken'[d] = taken[d]
            /\ c \notin Streams => UNCHANGED taken
        <5>1. /\ queue[c] # <<>> /\ caller[c] = "waiting" /\ UNCHANGED <<pendings, peer>>
              /\ queue' = [queue EXCEPT ![c] = Tail(queue[c])]
              /\ \E v \in {"waiting", "paused"} : caller' = [caller EXCEPT ![c] = v]
              /\ taken' = IF IsChunkTurn(c)
                          THEN [taken EXCEPT ![c] = Append(taken[c], Head(queue[c]).n)] ELSE taken
          BY <2>4, <3>2, <1>t, TakeForms
        <5>2. c \in pendings
          BY <5>1, <1>t DEF PendingMatchesWaiter, Registered
        <5>3. caller'[c] \in {"waiting", "paused"} /\ \A d \in Calls \ {c} : caller'[d] = caller[d]
          BY <5>1, <1>t DEF TypeOK
        <5>4. /\ \A d \in Calls \ {c} : taken'[d] = taken[d]
              /\ c \notin Streams => UNCHANGED taken
          BY <5>1, <1>t DEF TypeOK, IsChunkTurn
        <5>5. QED
          BY <5>1, <5>2, <5>3, <5>4, <1>t DEF TypeOK
      <4>2. ASSUME NEW i \in 1 .. Len(Tail(q)) PROVE Tail(q)[i].corr = c
        <5>1. i + 1 \in 1 .. Len(q) /\ Tail(q)[i] = q[i + 1]
          BY <4>1, <4>2, HeadTailProperties, EmptySeq
        <5>2. QED
          BY <5>1, <1>t DEF Bookkeeping
      <4>3. QED
        BY <4>1, <4>2, <1>t DEF TypeOK, Bookkeeping
    <3>3. QED
      BY <2>4, <3>1, <3>2
  <2>5. QED
    BY <1>3, <2>1, <2>3, <2>4 DEF Caller
<1>4. CASE UNCHANGED vars
  BY <1>4, <1>t DEF vars, Bookkeeping
<1>5. QED
  BY <1>1, <1>2, <1>3, <1>4 DEF Next

\* Every step keeps what the generator has yielded in order: the chunk it
\* takes is the one that follows its last.
LEMMA OrderStep == IInv /\ [Next]_vars => TakenInOrder'
<1> SUFFICES ASSUME IInv, [Next]_vars PROVE TakenInOrder'
  OBVIOUS
<1>t. TypeOK /\ PendingMatchesWaiter /\ Bookkeeping /\ ChunkLanes /\ TakenInOrder
  BY DEF IInv
<1>1. CASE UNCHANGED taken
  BY <1>1, <1>t DEF TakenInOrder
<1>2. ASSUME NEW c \in Calls, Take(c), taken' # taken PROVE TakenInOrder'
  <2> DEFINE f == Head(queue[c])  g == taken[c]
  <2>1. /\ f.kind = "CHUNK" /\ queue[c] # <<>> /\ c \in pendings
        /\ taken' = [taken EXCEPT ![c] = Append(g, f.n)]
    BY <1>2, <1>t DEF Take, PendingMatchesWaiter, Registered
  <2>2. /\ f \in Frames /\ IsChunk(f, c) /\ f.n \in 1 .. sent[c] /\ f.n \in 1 .. MaxChunks
        /\ Holds(queue[c], c, f.n)
    BY <2>1, HeadChunk
  <2>3. g \in Seq(1 .. MaxChunks) /\ Len(g) \in Nat
    BY <1>t DEF TypeOK
  <2>4. g # <<>> => f.n = g[Len(g)] + 1
    <3> DEFINE L == g[Len(g)]
    <3>1. SUFFICES ASSUME g # <<>> PROVE f.n = L + 1
      OBVIOUS
    <3>2. /\ L \in 1 .. sent[c] /\ L < f.n
          /\ L < sent[c] => InTransit(c, L + 1)
      BY <1>t, <2>1, <2>2, <3>1, GateAssumption
      DEF ChunkLanes, Lane, LastTaken, InTransit, Frames
    <3>3. MaxChunks \in Nat /\ sent[c] \in 0 .. MaxChunks
      BY <1>t, GateAssumption DEF TypeOK
    <3>4. InTransit(c, L + 1) /\ L + 1 \in 0 .. MaxChunks
      BY <2>2, <3>2, <3>3
    <3>5. ~(L + 1 < f.n)
      <4>1. SUFFICES ASSUME L + 1 < f.n PROVE FALSE
        OBVIOUS
      <4>2. CASE Holds(queue[c], c, L + 1)
        <5>1. Holds(Tail(queue[c]), c, L + 1)
          BY <1>t, <2>1, <4>1, <4>2, <2>2, <3>2, <3>3, TailHolds DEF TypeOK
        <5>2. f.n < L + 1
          BY <1>t, <2>1, <2>2, <5>1, TailAscending DEF TypeOK, ChunkLanes, Lane
        <5>3. QED
          BY <5>2, <4>1, <2>2, <3>2, <3>3
      <4>3. CASE Holds(inbox, c, L + 1)
        <5>1. f.n < L + 1
          BY <1>t, <2>2, <3>4, <4>3, <3>3 DEF ChunkLanes, Lane
        <5>2. QED
          BY <5>1, <4>1, <2>2, <3>2, <3>3
      <4>4. QED
        BY <3>4, <4>2, <4>3 DEF InTransit
    <3>6. QED
      BY <2>2, <3>2, <3>3, <3>5
  <2>5. ASSUME NEW i \in 1 .. Len(Append(g, f.n)) - 1
        PROVE  Append(g, f.n)[i + 1] = Append(g, f.n)[i] + 1
    <3>1. /\ Len(Append(g, f.n)) = Len(g) + 1 /\ i \in 1 .. Len(g)
          /\ Append(g, f.n)[Len(g) + 1] = f.n
          /\ \A j \in 1 .. Len(g) : Append(g, f.n)[j] = g[j]
      BY <2>2, <2>3, <2>5
    <3>2. CASE i = Len(g)
      BY <2>3, <2>4, <3>1, <3>2, EmptySeq
    <3>3. CASE i < Len(g)
      BY <1>t, <2>3, <3>1, <3>3 DEF TakenInOrder
    <3>4. QED
      BY <2>3, <3>1, <3>2, <3>3
  <2>6. QED
    BY <1>t, <2>1, <2>5 DEF TakenInOrder, TypeOK
<1>3. QED
  BY <1>1, <1>2
  DEF Next, vars, Feed, Peer, PeerDefer, PeerAnswer, PeerStartStream,
      PeerChunk, PeerEndStream, callerVars, Caller, SendCall, SendFails, RequestAck,
      Timeout, Iterate, Discard, Resume, Collect, Cancel

\* A chunk at some place of a sequence of frames is held by it.
LEMMA ChunkAt ==
  ASSUME NEW s \in Seq(Frames), NEW c, NEW i \in 1 .. Len(s), IsChunk(s[i], c)
  PROVE  Holds(s, c, s[i].n) /\ s[i].n \in 0 .. MaxChunks
<1>1. Holds(s, c, s[i].n)
  BY DEF Holds
<1>2. s[i] \in Frames
  OBVIOUS
<1>3. QED
  BY <1>1, <1>2 DEF Frames

\* A frame that is no chunk of d's leaves d's lane alone.
LEMMA LaneQuiet ==
  ASSUME IInv, NEW d \in Calls, NEW f \in Frames, Push(f), ~IsChunk(f, d),
         UNCHANGED <<pendings, queue, taken>>, sent'[d] = sent[d]
  PROVE  Lane(d)'
<1>1. inbox \in Seq(Frames) /\ inbox' = Append(inbox, f) /\ Lane(d)
  BY DEF IInv, TypeOK, Push, ChunkLanes
<1>2. \A m : Holds(inbox', d, m) <=> Holds(inbox, d, m)
  BY <1>1, AppendHolds
<1>3. Ascending(inbox', d)
  BY <1>1, AppendAscending DEF Lane
<1>4. QED
  BY <1>1, <1>2, <1>3 DEF Lane, InTransit, LastTaken

\* A chunk the peer sends goes behind all that is on its way.
LEMMA LaneChunk ==
  ASSUME IInv, NEW c \in Calls, PeerChunk(c)
  PROVE  Lane(c)'
<1> DEFINE f == Msg(c, "CHUNK", sent[c] + 1)
<1>1. /\ inbox \in Seq(Frames) /\ inbox' = Append(inbox, f) /\ Lane(c)
      /\ sent[c] \in 0 .. MaxChunks /\ MaxChunks \in Nat /\ sent[c] < MaxChunks
      /\ sent'[c] = sent[c] + 1
      /\ UNCHANGED <<pendings, queue, taken>>
  <2>1. Quota[c] \in 0 .. MaxChunks /\ MaxChunks \in Nat
    BY GateAssumption
  <2>2. QED
    BY <2>1 DEF IInv, TypeOK, Push, PeerChunk, ChunkLanes, callerVars
<1>2. sent[c] + 1 \in 0 .. MaxChunks
  BY <1>1
<1>3. f \in Frames /\ IsChunk(f, c) /\ f.n = sent[c] + 1
  BY <1>2, MsgFrame DEF Kinds
<1> HIDE DEF f
<1>4. \A m : Holds(inbox', c, m) <=> Holds(inbox, c, m) \/ m = sent[c] + 1
  BY <1>1, <1>3, AppendHolds
<1>5. Ascending(inbox', c)
  <2>1. ASSUME NEW i \in 1 .. Len(inbox), IsChunk(inbox[i], c)
        PROVE  inbox[i].n < f.n
    <3>1. Holds(inbox, c, inbox[i].n) /\ inbox[i].n \in 0 .. MaxChunks
      BY <1>1, <2>1, ChunkAt
    <3>2. inbox[i].n \in 1 .. sent[c]
      BY <1>1, <3>1 DEF Lane, InTransit
    <3>3. QED
      BY <1>1, <1>3, <3>2
  <2>2. QED
    BY <1>1, <1>3, <2>1, AppendAscending DEF Lane
<1>6. /\ \A m \in 0 .. MaxChunks : InTransit(c, m)' => m \in 1 .. sent'[c]
      /\ \A m \in 0 .. MaxChunks :
           (Holds(inbox, c, m)' /\ m < sent'[c]) => Holds(inbox, c, m + 1)'
      /\ \A m \in 0 .. MaxChunks :
           (Holds(queue[c], c, m)' /\ m < sent'[c]) => InTransit(c, m + 1)'
      /\ \A m, k \in 0 .. MaxChunks :
           (Holds(queue[c], c, m)' /\ Holds(inbox, c, k)') => m < k
  BY <1>1, <1>4 DEF Lane, InTransit
<1>7. ASSUME c \in pendings', taken'[c] # <<>>
      PROVE  /\ LastTaken(c)' \in 1 .. sent'[c]
             /\ \A m \in 0 .. MaxChunks : InTransit(c, m)' => LastTaken(c)' < m
             /\ LastTaken(c)' < sent'[c] => InTransit(c, LastTaken(c) + 1)'
  <2>1. /\ LastTaken(c) \in 1 .. sent[c]
        /\ \A m \in 0 .. MaxChunks : InTransit(c, m) => LastTaken(c) < m
        /\ LastTaken(c) < sent[c] => InTransit(c, LastTaken(c) + 1)
        /\ LastTaken(c)' = LastTaken(c)
    BY <1>1, <1>7 DEF Lane, LastTaken
  <2>2. QED
    BY <1>1, <1>4, <2>1 DEF InTransit
<1>8. QED
  BY <1>1, <1>5, <1>6, <1>7 DEF Lane

\* Cleaning up empties the queue; the inbox's chunks are still a run.
LEMMA LaneForget ==
  ASSUME IInv, NEW c \in Calls, Forget(c), UNCHANGED <<inbox, sent>>
  PROVE  Lane(c)'
<1>1. /\ Lane(c) /\ queue'[c] = <<>> /\ c \notin pendings'
  BY DEF IInv, TypeOK, Forget, ChunkLanes
<1>2. QED
  BY <1>1, EmptyLane DEF Lane, InTransit

\* Feed moves a chunk from the front of the inbox to the back of the queue, or
\* drops it; it drops only what no registered call waits for.
LEMMA LaneFeed ==
  ASSUME IInv, NEW d \in Calls, Feed
  PROVE  Lane(d)'
<1> DEFINE f == Head(inbox)
<1>1. /\ inbox \in Seq(Frames) /\ queue[d] \in Seq(Frames) /\ MaxChunks \in Nat
      /\ inbox # <<>> /\ inbox' = Tail(inbox) /\ Lane(d) /\ f \in Frames
      /\ UNCHANGED <<pendings, taken, sent>> /\ sent[d] \in 0 .. MaxChunks
  BY GateAssumption, HeadTailProperties DEF IInv, TypeOK, Feed, ChunkLanes
<1>2. f.n \in 0 .. MaxChunks
  BY <1>1 DEF Frames
<1>3. /\ \A m : Holds(inbox, d, m) <=> (IsChunk(f, d) /\ f.n = m) \/ Holds(inbox', d, m)
      /\ Ascending(inbox', d)
      /\ \A m : (IsChunk(f, d) /\ Holds(inbox', d, m)) => f.n < m
  <2>1. \A m : Holds(inbox, d, m) <=> (IsChunk(f, d) /\ f.n = m) \/ Holds(Tail(inbox), d, m)
    BY <1>1, TailHolds
  <2>2. /\ Ascending(Tail(inbox), d)
        /\ \A m : (IsChunk(f, d) /\ Holds(Tail(inbox), d, m)) => f.n < m
    BY <1>1, TailAscending DEF Lane
  <2>3. QED
    BY <1>1, <2>1, <2>2
<1>l. /\ LastTaken(d)' = LastTaken(d)
      /\ (d \in pendings /\ taken[d] # <<>>) => LastTaken(d) \in 1 .. sent[d]
  BY <1>1 DEF Lane, LastTaken
<1>4. CASE ~IsChunk(f, d)
  <2>1. /\ \A m : Holds(queue'[d], d, m) <=> Holds(queue[d], d, m)
        /\ Ascending(queue'[d], d)
    <3>1. CASE queue'[d] = queue[d]
      BY <1>1, <3>1 DEF Lane
    <3>2. CASE queue'[d] = Append(queue[d], f)
      <4>1. \A m : Holds(queue'[d], d, m) <=> Holds(queue[d], d, m)
        BY <1>1, <1>4, <3>2, AppendHolds
      <4>2. Ascending(queue'[d], d)
        BY <1>1, <1>4, <3>2, AppendAscending DEF Lane
      <4>3. QED
        BY <4>1, <4>2
    <3>3. QED
      BY <3>1, <3>2 DEF Feed, Put, IInv, TypeOK
  <2>2. QED
    BY <1>1, <1>3, <1>4, <1>l, <2>1 DEF Lane, InTransit
<1>5. CASE IsChunk(f, d) /\ d \in pendings
  <2>1. queue'[d] = Append(queue[d], f)
    BY <1>1, <1>5 DEF Feed, Accepts, Put, IInv, TypeOK, IsChunk
  <2>2. \A m : Holds(queue'[d], d, m) <=> Holds(queue[d], d, m) \/ f.n = m
    BY <1>1, <1>5, <2>1, AppendHolds
  <2>3. Ascending(queue'[d], d)
    <3>1. ASSUME NEW i \in 1 .. Len(queue[d]), IsChunk(queue[d][i], d)
          PROVE  queue[d][i].n < f.n
      <4>1. Holds(queue[d], d, queue[d][i].n) /\ queue[d][i].n \in 0 .. MaxChunks
        BY <1>1, <3>1, ChunkAt
      <4>2. QED
        BY <1>1, <1>2, <1>3, <1>5, <4>1 DEF Lane
    <3>2. QED
      BY <1>1, <1>5, <2>1, <3>1, AppendAscending DEF Lane
  <2>4. /\ \A m \in 0 .. MaxChunks : InTransit(d, m)' <=> InTransit(d, m)
        /\ \A m : InTransit(d, m)' <=> InTransit(d, m)
    BY <1>3, <1>5, <2>2 DEF InTransit
  <2>5. /\ \A m \in 0 .. MaxChunks :
             (Holds(inbox, d, m)' /\ m < sent'[d]) => Holds(inbox, d, m + 1)'
        /\ \A m \in 0 .. MaxChunks :
             (Holds(queue[d], d, m)' /\ m < sent'[d]) => InTransit(d, m + 1)'
        /\ \A m, k \in 0 .. MaxChunks :
             (Holds(queue[d], d, m)' /\ Holds(inbox, d, k)') => m < k
    <3>1. ASSUME NEW m \in 0 .. MaxChunks, Holds(inbox, d, m)', m < sent'[d]
          PROVE  Holds(inbox, d, m + 1)'
      BY <1>1, <1>2, <1>3, <1>5, <3>1 DEF Lane
    <3>2. ASSUME NEW m \in 0 .. MaxChunks, Holds(queue[d], d, m)', m < sent'[d]
          PROVE  InTransit(d, m + 1)'
      BY <1>1, <1>2, <1>3, <1>5, <2>2, <2>4, <3>2 DEF Lane, InTransit
    <3>3. ASSUME NEW m \in 0 .. MaxChunks, NEW k \in 0 .. MaxChunks,
                 Holds(queue[d], d, m)', Holds(inbox, d, k)'
          PROVE  m < k
      BY <1>1, <1>2, <1>3, <1>5, <2>2, <3>3 DEF Lane
    <3>4. QED
      BY <3>1, <3>2, <3>3
  <2>6. QED
    BY <1>1, <1>3, <1>l, <2>3, <2>4, <2>5 DEF Lane
<1>6. CASE IsChunk(f, d) /\ d \notin pendings
  <2>1. queue'[d] = <<>> /\ queue[d] = <<>>
    BY <1>1, <1>6 DEF Feed, Accepts, Put, IInv, Bookkeeping, IsChunk
  <2>2. QED
    BY <1>1, <1>2, <1>3, <1>6, <2>1, EmptyLane DEF Lane, InTransit
<1>7. QED
  BY <1>4, <1>5, <1>6

\* A turn of the receive loop takes the lowest chunk of the lane and, for a
\* stream, makes it the last one yielded.
LEMMA LaneTake ==
  ASSUME IInv, NEW c \in Calls, Take(c), c \in pendings'
  PROVE  Lane(c)'
<1> DEFINE q == queue[c]  f == Head(queue[c])
<1>1. /\ q \in Seq(Frames) /\ q # <<>> /\ MaxChunks \in Nat /\ Lane(c) /\ f \in Frames
      /\ queue'[c] = Tail(q) /\ UNCHANGED <<pendings, inbox, sent>>
      /\ sent[c] \in 0 .. MaxChunks /\ taken[c] \in Seq(1 .. MaxChunks)
      /\ c \in pendings
      /\ taken'[c] = IF c \in Streams /\ f.kind = "CHUNK" THEN Append(taken[c], f.n) ELSE taken[c]
  <2>1. TypeOK /\ ChunkLanes /\ c \notin pendings \ {c}
    BY DEF IInv
  <2>2. /\ q # <<>> /\ UNCHANGED <<inbox, sent, pendings>>
        /\ queue' = [queue EXCEPT ![c] = Tail(q)]
        /\ taken' = IF c \in Streams /\ f.kind = "CHUNK"
                  THEN [taken EXCEPT ![c] = Append(@, f.n)] ELSE taken
    BY <2>1 DEF Take, Forget
  <2>3. QED
    BY <2>1, <2>2, HeadTailProperties, GateAssumption DEF TypeOK, ChunkLanes
<1>2. /\ \A m : Holds(q, c, m) <=> (IsChunk(f, c) /\ f.n = m) \/ Holds(queue'[c], c, m)
      /\ Ascending(queue'[c], c)
      /\ \A m : (IsChunk(f, c) /\ Holds(queue'[c], c, m)) => f.n < m
  <2>1. \A m : Holds(q, c, m) <=> (IsChunk(f, c) /\ f.n = m) \/ Holds(Tail(q), c, m)
    BY <1>1, TailHolds
  <2>2. /\ Ascending(Tail(q), c)
        /\ \A m : (IsChunk(f, c) /\ Holds(Tail(q), c, m)) => f.n < m
    BY <1>1, TailAscending DEF Lane
  <2>3. QED
    BY <1>1, <2>1, <2>2
<1>3. f.n \in 0 .. MaxChunks
  BY <1>1 DEF Frames
<1>4. /\ \A m \in 0 .. MaxChunks : InTransit(c, m)' => m \in 1 .. sent'[c]
      /\ \A m \in 0 .. MaxChunks :
           (Holds(inbox, c, m)' /\ m < sent'[c]) => Holds(inbox, c, m + 1)'
      /\ \A m, k \in 0 .. MaxChunks :
           (Holds(queue[c], c, m)' /\ Holds(inbox, c, k)') => m < k
  BY <1>1, <1>2 DEF Lane, InTransit
<1>5. ASSUME NEW m \in 0 .. MaxChunks, Holds(queue[c], c, m)', m < sent'[c]
      PROVE  InTransit(c, m + 1)'
  <2>1. InTransit(c, m + 1)
    BY <1>1, <1>2, <1>5 DEF Lane
  <2>2. IsChunk(f, c) => f.n # m + 1
    BY <1>2, <1>3, <1>5
  <2>3. QED
    BY <1>1, <1>2, <2>1, <2>2 DEF InTransit
<1>6. ASSUME taken'[c] # <<>>
      PROVE  /\ LastTaken(c)' \in 1 .. sent'[c]
             /\ \A m \in 0 .. MaxChunks : InTransit(c, m)' => LastTaken(c)' < m
             /\ LastTaken(c)' < sent'[c] => InTransit(c, LastTaken(c) + 1)'
  <2>1. CASE f.kind = "CHUNK" /\ c \in Streams
    <3>1. PICK n : n = f.n
      OBVIOUS
    <3>2. /\ IsChunk(f, c) /\ Holds(q, c, n) /\ n \in 1 .. sent[c] /\ n \in 1 .. MaxChunks
          /\ LastTaken(c)' = n
      BY <1>1, <2>1, <3>1, HeadChunk DEF LastTaken
    <3>3. ASSUME NEW m \in 0 .. MaxChunks, InTransit(c, m)' PROVE n < m
      BY <1>1, <1>2, <1>3, <3>1, <3>2, <3>3 DEF Lane, InTransit
    <3>4. ASSUME n < sent[c] PROVE InTransit(c, n + 1)'
      <4>1. InTransit(c, n + 1)
        BY <1>1, <1>3, <3>1, <3>2, <3>4 DEF Lane
      <4>2. Holds(q, c, n + 1) => Holds(queue'[c], c, n + 1)
        BY <1>2, <3>1, <3>2
      <4>3. QED
        BY <1>1, <4>1, <4>2 DEF InTransit
    <3>5. InTransit(c, LastTaken(c) + 1)' <=> InTransit(c, n + 1)'
      BY <3>2 DEF InTransit
    <3>6. QED
      BY <1>1, <3>2, <3>3, <3>4, <3>5
  <2>2. CASE ~(f.kind = "CHUNK" /\ c \in Streams)
    <3>1. c \in Streams /\ ~IsChunk(f, c) /\ taken'[c] = taken[c]
      BY <1>1, <1>6, <2>2 DEF IInv, Bookkeeping, IsChunk
    <3>2. QED
      BY <1>1, <1>2, <1>6, <3>1 DEF Lane, LastTaken, InTransit
  <2>3. QED
    BY <2>1, <2>2
<1>7. QED
  BY <1>2, <1>1, <1>4, <1>5, <1>6 DEF Lane

\* A step that leaves d's frames and chunks alone may register d, or drop it.
LEMMA LaneSame ==
  ASSUME IInv, NEW d \in Calls, UNCHANGED inbox, sent'[d] = sent[d],
         queue'[d] = queue[d], taken'[d] = taken[d],
         d \in pendings' => d \in pendings \/ taken[d] = <<>>
  PROVE  Lane(d)'
<1>1. Lane(d)
  BY DEF IInv, ChunkLanes
<1>2. QED
  BY <1>1 DEF Lane, InTransit, LastTaken

\* Every step keeps the lanes: no gap, no swap, no repeat on the way.
LEMMA LaneStep == IInv /\ [Next]_vars => ChunkLanes'
<1> SUFFICES ASSUME IInv, [Next]_vars, NEW d \in Calls PROVE Lane(d)'
  BY DEF ChunkLanes
<1>t. TypeOK /\ PendingMatchesWaiter /\ Bookkeeping
  BY DEF IInv
<1>1. CASE Feed
  BY <1>1, LaneFeed
<1>2. CASE UNCHANGED vars
  BY <1>2, LaneSame DEF vars
<1>3. ASSUME NEW c \in Calls, Peer(c) PROVE Lane(d)'
  <2>1. CASE PeerChunk(c)
    <3>1. CASE c = d
      BY <2>1, <3>1, LaneChunk
    <3>2. CASE c # d
      <4>1. sent[c] + 1 \in 0 .. MaxChunks
        BY <2>1, <1>t, GateAssumption DEF PeerChunk, TypeOK
      <4>2. /\ Push(Msg(c, "CHUNK", sent[c] + 1)) /\ sent'[d] = sent[d]
            /\ UNCHANGED <<pendings, queue, taken>>
        BY <2>1, <3>2, <1>t DEF PeerChunk, callerVars, TypeOK
      <4>3. QED
        BY <3>2, <4>1, <4>2, MsgFrame, LaneQuiet DEF Kinds
    <3>3. QED
      BY <3>1, <3>2
  <2>2. CASE ~PeerChunk(c)
    <3>1. \E e \in Calls, k \in Kinds \ {"CHUNK"} : Push(Msg(e, k, 0))
      BY <1>3, <2>2
      DEF Peer, PeerDefer, PeerAnswer, PeerStartStream, PeerEndStream, Kinds
    <3>2. UNCHANGED <<pendings, queue, taken, sent>>
      BY <1>3, <2>2
      DEF Peer, PeerDefer, PeerAnswer, PeerStartStream, PeerEndStream, callerVars
    <3>3. 0 \in 0 .. MaxChunks
      BY GateAssumption
    <3>4. QED
      BY <3>1, <3>2, <3>3, MsgFrame, LaneQuiet
  <2>3. QED
    BY <2>1, <2>2
<1>4. ASSUME NEW c \in Calls, Caller(c) PROVE Lane(d)'
  <2>0. UNCHANGED <<inbox, sent>>
    BY <1>4
    DEF Caller, SendCall, SendFails, RequestAck, Take, Timeout, Iterate, Discard, Resume, Collect, Cancel
  <2>1. CASE c # d
    <3>1. queue'[d] = queue[d] /\ taken'[d] = taken[d] /\ (d \in pendings' => d \in pendings)
      BY <1>4, <2>1, <1>t
      DEF Caller, SendCall, SendFails, RequestAck, Take, Timeout, Iterate, Discard,
          Resume, Collect, Cancel, Forget, TypeOK
    <3>2. QED
      BY <2>0, <3>1, LaneSame
  <2>2. CASE c = d /\ (SendCall(c) \/ SendFails(c) \/ RequestAck(c) \/ Iterate(c) \/ Discard(c) \/ Resume(c))
    <3>1. queue' = queue /\ taken' = taken /\ (d \in pendings' => d \in pendings \/ taken[d] = <<>>)
      BY <2>2, <1>t
      DEF SendCall, SendFails, RequestAck, Iterate, Discard, Resume, Bookkeeping
    <3>2. QED
      BY <2>0, <3>1, LaneSame
  <2>3. CASE c = d /\ (Timeout(c) \/ Collect(c) \/ Cancel(c))
    BY <2>0, <2>3, LaneForget DEF Timeout, Collect, Cancel
  <2>4. CASE c = d /\ Take(c)
    <3>1. CASE Forget(c)
      BY <2>0, <2>4, <3>1, LaneForget
    <3>2. CASE ~Forget(c)
      <4>1. c \in pendings'
        BY <2>4, <3>2, <1>t DEF Take, PendingMatchesWaiter, Registered
      <4>2. QED
        BY <2>4, <4>1, LaneTake
    <3>3. QED
      BY <3>1, <3>2
  <2>5. QED
    BY <1>4, <2>1, <2>2, <2>3, <2>4 DEF Caller
<1>5. QED
  BY <1>1, <1>2, <1>3, <1>4 DEF Next

-----------------------------------------------------------------------------
(* The theorems. *)

\* IInv holds in every reachable state, for any calls and any bound.
THEOREM Invariance == Spec => []IInv
<1>1. Init => IInv
  <2> SUFFICES ASSUME Init PROVE IInv
    OBVIOUS
  <2>1. TypeOK
    BY EmptySeq, GateAssumption DEF Init, TypeOK
  <2>2. PendingMatchesWaiter /\ Bookkeeping /\ TakenInOrder
    BY EmptySeq DEF Init, PendingMatchesWaiter, Registered, Bookkeeping, TakenInOrder
  <2>3. ChunkLanes
    BY EmptyLane DEF Init, ChunkLanes, Lane, InTransit
  <2>4. QED
    BY <2>1, <2>2, <2>3 DEF IInv
<1>2. IInv /\ [Next]_vars => IInv'
  BY TypeStep, PendingStep, BookStep, LaneStep, OrderStep DEF IInv
<1>3. QED
  BY <1>1, <1>2, PTL DEF Spec

\* Every variable keeps its type; among the rest, what a stream yields and what
\* its loop body is given are chunks, numbered from 1.
THEOREM TypeCorrect == Spec => []TypeOK
<1>1. IInv => TypeOK
  BY DEF IInv
<1>2. QED
  BY <1>1, Invariance, PTL

\* No call waits, or comes back to wait, without an entry in the gate; and no
\* call leaves one behind but a stream never iterated, or left in its loop and
\* not collected.
THEOREM PendingsAreWaiters == Spec => []PendingMatchesWaiter
<1>1. IInv => PendingMatchesWaiter
  BY DEF IInv
<1>2. QED
  BY <1>1, Invariance, PTL

\* What the generator of a stream has yielded, what the call's queue holds and
\* what is still in the inbox are one run of chunks without a gap.
THEOREM LanesHold == Spec => [](ChunkLanes /\ TakenInOrder)
<1>1. IInv => ChunkLanes /\ TakenInOrder
  BY DEF IInv
<1>2. QED
  BY <1>1, Invariance, PTL

-----------------------------------------------------------------------------
(* From the generator to the loop body: the formatter passes chunks over.    *)

Has(s, x) == \E i \in 1 .. Len(s) : s[i] = x

\* g holds what there is of V in t, in order, and t has nothing of V after it.
InLine(t, g, V) ==
    /\ t = <<>> => g = <<>>
    /\ g # <<>> => /\ g[Len(g)] <= t[Len(t)]
                   /\ \A k \in V : ~(g[Len(g)] < k /\ k <= t[Len(t)])
    /\ \A x \in V : Has(t, x) => Has(g, x)
    /\ \A x : Has(g, x) => x \in V /\ Has(t, x)
    /\ \A j \in 1 .. Len(g) - 1 :
         g[j] < g[j + 1] /\ \A k \in V : ~(g[j] < k /\ k < g[j + 1])

\* What the loop body has is what there is of value in what was yielded.
Loop(c) == InLine(taken[c], got[c], ValuesOf(c))
LoopGets == \A c \in Calls : Loop(c)

LEMMA AppendHas ==
  ASSUME NEW S, NEW s \in Seq(S), NEW e \in S
  PROVE  /\ \A x : Has(Append(s, e), x) <=> Has(s, x) \/ x = e
         /\ Len(s) \in Nat /\ Len(Append(s, e)) = Len(s) + 1
         /\ Append(s, e)[Len(s) + 1] = e /\ Append(s, e) # <<>>
         /\ \A i \in 1 .. Len(s) : Append(s, e)[i] = s[i]
<1> DEFINE t == Append(s, e)
<1>1. /\ Len(s) \in Nat /\ Len(t) = Len(s) + 1 /\ t[Len(s) + 1] = e /\ t # <<>>
      /\ \A i \in 1 .. Len(s) : t[i] = s[i]
  OBVIOUS
<1>2. 1 .. Len(t) = (1 .. Len(s)) \cup {Len(s) + 1}
  BY <1>1
<1> HIDE DEF t
<1>3. \A x : Has(t, x) <=> Has(s, x) \/ x = e
  BY <1>1, <1>2 DEF Has
<1>4. QED
  BY <1>1, <1>3 DEF t

\* The next chunk keeps them in line: given if it is of V, passed over if not.
LEMMA NextInLine ==
  ASSUME NEW M \in Nat, NEW t \in Seq(1 .. M), NEW g \in Seq(1 .. M),
         NEW V \in SUBSET (1 .. M), NEW n \in 1 .. M,
         InLine(t, g, V), t # <<>> => n = t[Len(t)] + 1
  PROVE  InLine(Append(t, n), IF n \in V THEN Append(g, n) ELSE g, V)
<1> DEFINE u == Append(t, n)
           h == Append(g, n)
<1>1. /\ Len(t) \in Nat /\ Len(u) = Len(t) + 1 /\ u[Len(u)] = n /\ u # <<>>
      /\ \A x : Has(u, x) <=> Has(t, x) \/ x = n
  BY SMTT(30), AppendHas
<1>2. /\ Len(g) \in Nat /\ Len(h) = Len(g) + 1 /\ h[Len(g) + 1] = n /\ h # <<>>
      /\ \A i \in 1 .. Len(g) : h[i] = g[i]
      /\ \A x : Has(h, x) <=> Has(g, x) \/ x = n
  BY AppendHas
<1> HIDE DEF u, h
<1>3. g # <<>> => /\ t # <<>> /\ t[Len(t)] \in 1 .. M /\ g[Len(g)] \in 1 .. M /\ Len(g) # 0
                  /\ g[Len(g)] <= t[Len(t)]
                  /\ \A k \in V : ~(g[Len(g)] < k /\ k <= t[Len(t)])
  BY EmptySeq DEF InLine
<1>4. ASSUME g # <<>>
      PROVE  g[Len(g)] < n /\ \A k \in V : ~(g[Len(g)] < k /\ k < n)
  <2>1. n = t[Len(t)] + 1
    BY <1>3, <1>4
  <2>2. \A k \in V : k < n => k <= t[Len(t)]
    BY <1>3, <1>4, <2>1
  <2>3. QED
    BY <1>3, <1>4, <2>1, <2>2
<1>5. CASE n \notin V
  <2>1. g # <<>> => /\ g[Len(g)] <= u[Len(u)]
                    /\ \A k \in V : ~(g[Len(g)] < k /\ k <= u[Len(u)])
    <3>1. \A k \in V : k <= n => k < n
      BY <1>5
    <3>2. QED
      BY <1>1, <1>3, <1>4, <3>1
  <2>2. /\ \A x \in V : Has(u, x) => Has(g, x)
        /\ \A x : Has(g, x) => x \in V /\ Has(u, x)
    BY <1>1, <1>5 DEF InLine
  <2>3. InLine(u, g, V)
    BY <1>1, <2>1, <2>2 DEF InLine
  <2>4. QED
    BY <1>5, <2>3 DEF u
<1>6. CASE n \in V
  <2>1. h[Len(h)] = u[Len(u)] /\ u[Len(u)] \in 1 .. M
    BY <1>1, <1>2
  <2>2. /\ \A x \in V : Has(u, x) => Has(h, x)
        /\ \A x : Has(h, x) => x \in V /\ Has(u, x)
    BY <1>1, <1>2, <1>6 DEF InLine
  <2>3. ASSUME NEW j \in 1 .. Len(h) - 1
        PROVE  h[j] < h[j + 1] /\ \A k \in V : ~(h[j] < k /\ k < h[j + 1])
    <3>1. CASE j = Len(g)
      <4>1. g # <<>> /\ h[j] = g[Len(g)] /\ h[j + 1] = n
        BY <1>2, <2>3, <3>1
      <4>2. QED
        BY <1>4, <4>1
    <3>2. CASE j # Len(g)
      <4>1. j \in 1 .. Len(g) - 1 /\ j \in 1 .. Len(g) /\ j + 1 \in 1 .. Len(g)
        BY <1>2, <2>3, <3>2
      <4>2. QED
        BY <1>2, <4>1 DEF InLine
    <3>3. QED
      BY <3>1, <3>2
  <2>4. h # <<>> => /\ h[Len(h)] <= u[Len(u)]
                    /\ \A k \in V : ~(h[Len(h)] < k /\ k <= u[Len(u)])
    BY <2>1
  <2>5. InLine(u, h, V)
    BY <1>1, <1>2, <2>2, <2>3, <2>4 DEF InLine
  <2>6. QED
    BY <1>6, <2>5 DEF u, h
<1>7. QED
  BY <1>5, <1>6

\* The chunk of a turn is the one after the last that was yielded.
LEMMA TakenNext ==
  ASSUME IInv, IInv', NEW c \in Calls, Take(c), IsChunkTurn(c)
  PROVE  /\ Head(queue[c]).n \in 1 .. sent[c] /\ Head(queue[c]).n \in 1 .. MaxChunks
         /\ IsChunk(Head(queue[c]), c)
         /\ ~EndsIt(c)
         /\ taken'[c] = Append(taken[c], Head(queue[c]).n)
         /\ taken[c] # <<>> => Head(queue[c]).n = LastTaken(c) + 1
<1> DEFINE f == Head(queue[c])  t == taken[c]
<1>1. /\ TypeOK /\ queue[c] # <<>> /\ ~EndsIt(c) /\ f.kind = "CHUNK"
      /\ taken' = [taken EXCEPT ![c] = Append(t, f.n)]
  BY TakeForms DEF IInv, IsChunkTurn
<1>2. f.n \in 1 .. sent[c] /\ f.n \in 1 .. MaxChunks /\ IsChunk(f, c)
  BY <1>1, HeadChunk
<1>3. t \in Seq(1 .. MaxChunks) /\ Len(t) \in Nat /\ taken'[c] = Append(t, f.n)
  BY <1>1 DEF TypeOK
<1>4. ASSUME t # <<>> PROVE f.n = t[Len(t)] + 1
  <2>1. /\ Len(t) \in 1 .. Len(taken'[c]) - 1
        /\ taken'[c][Len(t)] = t[Len(t)] /\ taken'[c][Len(t) + 1] = f.n
    BY <1>2, <1>3, <1>4, EmptySeq
  <2>2. taken'[c][Len(t) + 1] = taken'[c][Len(t)] + 1
    BY <2>1 DEF IInv, TakenInOrder
  <2>3. QED
    BY <2>1, <2>2
<1>5. QED
  BY <1>1, <1>2, <1>3, <1>4 DEF LastTaken

\* A turn of the loop: a value goes on to the body, anything else does not.
LEMMA LoopTake ==
  ASSUME IInv, IInv', NEW c \in Calls, Take(c), Loop(c)
  PROVE  Loop(c)'
<1> DEFINE n == Head(queue[c]).n
<1>t. /\ TypeOK /\ taken[c] \in Seq(1 .. MaxChunks) /\ got[c] \in Seq(1 .. MaxChunks)
      /\ ValuesOf(c)' = ValuesOf(c) /\ ValuesOf(c) \in SUBSET (1 .. MaxChunks)
      /\ MaxChunks \in Nat
  BY GateAssumption DEF IInv, TypeOK, ValuesOf
<1>1. CASE ~IsChunkTurn(c)
  <2>1. taken'[c] = taken[c] /\ got'[c] = got[c]
    BY <1>1, <1>t, TakeForms
  <2>2. QED
    BY <2>1, <1>t DEF Loop
<1>2. CASE IsChunkTurn(c)
  <2>1. /\ n \in 1 .. MaxChunks /\ taken'[c] = Append(taken[c], n)
        /\ taken[c] # <<>> => n = taken[c][Len(taken[c])] + 1
        /\ got'[c] = IF IsGiven(c, n) THEN Append(got[c], n) ELSE got[c]
    BY ZenonT(60), <1>2, <1>t, TakenNext, TakeForms DEF LastTaken, TypeOK
  <2>2. IsGiven(c, n) <=> n \in ValuesOf(c)
    BY <2>1 DEF IsGiven, ValuesOf
  <2>3. InLine(Append(taken[c], n), IF n \in ValuesOf(c) THEN Append(got[c], n) ELSE got[c],
               ValuesOf(c))
    BY <1>t, <2>1, NextInLine DEF Loop
  <2>4. QED
    BY <1>t, <2>1, <2>2, <2>3 DEF Loop
<1>3. QED
  BY <1>1, <1>2

\* Every step keeps what the loop bodies have in line with what was yielded.
LEMMA LoopStep == IInv /\ IInv' /\ LoopGets /\ [Next]_vars => LoopGets'
<1> SUFFICES ASSUME IInv, IInv', LoopGets, [Next]_vars, NEW d \in Calls PROVE Loop(d)'
  BY DEF LoopGets
<1>t. TypeOK /\ Loop(d)
  BY DEF IInv, LoopGets
<1>1. CASE Take(d)
  BY <1>1, <1>t, LoopTake
<1>2. CASE taken'[d] = taken[d] /\ got'[d] = got[d]
  BY <1>2, <1>t DEF Loop, ValuesOf
<1>3. ASSUME NEW c \in Calls, Take(c), c # d PROVE taken'[d] = taken[d] /\ got'[d] = got[d]
  BY ZenonT(60), <1>3, <1>t, TakeForms DEF TypeOK
<1>4. (\E c \in Calls : Take(c)) \/ UNCHANGED <<taken, got>>
  BY DEF Next, vars, Feed, Peer, PeerDefer, PeerAnswer, PeerStartStream, PeerChunk,
      PeerEndStream, callerVars, Caller, SendCall, SendFails, RequestAck, Timeout,
      Iterate, Discard, Resume, Collect, Cancel
<1>5. QED
  BY <1>1, <1>2, <1>3, <1>4

LEMMA LoopInvariance == Spec => []LoopGets
<1>1. Init => LoopGets
  <2>1. \A V : InLine(<<>>, <<>>, V)
    BY EmptySeq DEF InLine, Has
  <2>2. QED
    BY ZenonT(60), <2>1 DEF Init, LoopGets, Loop
<1>2. QED
  BY <1>1, LoopStep, Invariance, PTL DEF Spec

\* The loop over a stream gets values in the order the peer sent them, and
\* between two of them lacks no chunk that has a value - also when the loop is
\* left and entered again, or the formatter raises in between.
THEOREM StreamsInOrder == Spec => []ChunksInOrder
<1>1. TypeOK /\ LoopGets => ChunksInOrder
  <2> SUFFICES ASSUME TypeOK, LoopGets, NEW c \in Calls
               PROVE  /\ \A i \in 1 .. Len(got[c]) : got[c][i] \in ValuesOf(c)
                      /\ \A i \in 1 .. Len(got[c]) - 1 :
                           SkipsNoValue(c, got[c][i], got[c][i + 1])
    BY DEF ChunksInOrder
  <2>1. InLine(taken[c], got[c], ValuesOf(c))
    BY DEF LoopGets, Loop
  <2>2. QED
    BY <2>1 DEF InLine, Has, SkipsNoValue, ValuesOf
<1>2. QED
  BY <1>1, LoopInvariance, TypeCorrect, PTL

-----------------------------------------------------------------------------
(* The gate implements the contract.                                        *)

\* What IInv lacks to tell that a returned call was answered: a frame that
\* ends a call well is on its way only after the peer concluded.
Done == {c \in Calls : peer[c] \in {"answered", "closed"}}
Closing(f) == f.kind \in {"ACK", "STREAMEOS"}
ClosingLast ==
    /\ \A i \in 1 .. Len(inbox) : Closing(inbox[i]) => inbox[i].corr \in Done
    /\ \A c \in Calls : \A i \in 1 .. Len(queue[c]) : Closing(queue[c][i]) => c \in Done

\* The places of Tail(s) are places of s, one further (Feed, Take).
LEMMA TailPlaces ==
  ASSUME NEW S, NEW s \in Seq(S), s # <<>>, NEW i \in 1 .. Len(Tail(s))
  PROVE  i + 1 \in 1 .. Len(s) /\ Tail(s)[i] = s[i + 1]
BY HeadTailProperties, EmptySeq

\* The places of Append(s, f) are those of s and a last one, f's (Put, Push).
LEMMA AppendPlaces ==
  ASSUME NEW S, NEW s \in Seq(S), NEW f \in S, NEW i \in 1 .. Len(Append(s, f))
  PROVE  (i \in 1 .. Len(s) /\ Append(s, f)[i] = s[i]) \/ Append(s, f)[i] = f
OBVIOUS

\* A concluded exchange stays concluded: a call is begun once.
LEMMA DoneStays == IInv /\ [Next]_vars => Done \subseteq Done'
<1> SUFFICES ASSUME IInv, [Next]_vars PROVE Done \subseteq Done'
  OBVIOUS
<1>t. TypeOK /\ Bookkeeping
  BY DEF IInv
<1>1. CASE UNCHANGED peer
  BY <1>1 DEF Done
<1>2. ASSUME NEW c \in Calls, Peer(c) PROVE Done \subseteq Done'
  BY <1>2, <1>t
  DEF Peer, PeerDefer, PeerAnswer, PeerStartStream, PeerChunk,
      PeerEndStream, TypeOK, Done
<1>3. ASSUME NEW c \in Calls, SendCall(c) PROVE Done \subseteq Done'
  BY <1>3, <1>t DEF SendCall, TypeOK, Bookkeeping, Done
<1>4. QED
  BY <1>1, <1>2, <1>3
  DEF Next, vars, Feed, Caller, SendFails, RequestAck, Take, Timeout, Iterate, Discard, Resume, Collect, Cancel

\* Every step keeps ClosingLast.
LEMMA ClosingStep == IInv /\ ClosingLast /\ [Next]_vars => ClosingLast'
<1> SUFFICES ASSUME IInv, ClosingLast, [Next]_vars PROVE ClosingLast'
  OBVIOUS
<1>t. TypeOK /\ Bookkeeping /\ Done \subseteq Done'
  BY DoneStays DEF IInv
<1>1. ASSUME NEW i \in 1 .. Len(inbox'), Closing(inbox'[i])
      PROVE  inbox'[i].corr \in Done'
  <2>1. CASE UNCHANGED inbox
    BY <1>1, <1>t, <2>1 DEF ClosingLast
  <2>2. CASE Feed
    <3>1. i + 1 \in 1 .. Len(inbox) /\ inbox'[i] = inbox[i + 1]
      BY <1>1, <2>2, <1>t, TailPlaces DEF Feed, TypeOK
    <3>2. QED
      BY <1>1, <3>1, <1>t DEF ClosingLast
  <2>3. ASSUME NEW c \in Calls, Peer(c) PROVE inbox'[i].corr \in Done'
    <3>1. \E f \in Frames : Push(f) /\ (Closing(f) => f.corr \in Done')
      <4>1. /\ \A k \in Kinds, n \in 0 .. MaxChunks :
                 /\ Msg(c, k, n) \in Frames
                 /\ Closing(Msg(c, k, n)) <=> k \in {"ACK", "STREAMEOS"}
                 /\ Msg(c, k, n).corr = c
            /\ 0 \in 0 .. MaxChunks
        BY GateAssumption DEF Msg, Frames, Kinds, Closing
      <4>2. CASE PeerChunk(c)
        <5>1. sent[c] + 1 \in 0 .. MaxChunks
          BY <4>2, <1>t, GateAssumption DEF PeerChunk, TypeOK
        <5>2. QED
          BY <4>1, <4>2, <5>1 DEF PeerChunk, Kinds
      <4>3. CASE PeerDefer(c) \/ PeerStartStream(c)
        BY <4>1, <4>3 DEF PeerDefer, PeerStartStream, Kinds
      <4>4. CASE PeerAnswer(c) \/ PeerEndStream(c)
        <5>1. c \in Done'
          BY <4>4, <1>t DEF PeerAnswer, PeerEndStream, Done, TypeOK
        <5>2. QED
          BY <4>1, <4>4, <5>1 DEF PeerAnswer, PeerEndStream, Kinds
      <4>5. QED
        BY <2>3, <4>2, <4>3, <4>4 DEF Peer
    <3>2. PICK f \in Frames : Push(f) /\ (Closing(f) => f.corr \in Done')
      BY <3>1
    <3>3. (i \in 1 .. Len(inbox) /\ inbox'[i] = inbox[i]) \/ inbox'[i] = f
      <4>1. inbox \in Seq(Frames) /\ inbox' = Append(inbox, f)
        BY <3>2, <1>t DEF Push, TypeOK
      <4>2. QED
        BY <1>1, <4>1, AppendPlaces
    <3>4. QED
      BY <1>1, <3>2, <3>3, <1>t DEF ClosingLast
  <2>4. QED
    BY <2>1, <2>2, <2>3
    DEF Next, vars, Caller, SendCall, SendFails, RequestAck, Take, Timeout, Iterate,
        Discard, Resume, Collect, Cancel
<1>2. ASSUME NEW d \in Calls, NEW i \in 1 .. Len(queue'[d]), Closing(queue'[d][i])
      PROVE  d \in Done'
  <2>q. queue[d] \in Seq(Frames) /\ queue \in [Calls -> Seq(Frames)]
    BY <1>t DEF TypeOK
  <2>1. CASE queue'[d] = queue[d]
    BY <1>2, <1>t, <2>1 DEF ClosingLast
  <2>2. CASE queue'[d] = <<>>
    BY <1>2, <2>2
  <2>3. CASE queue'[d] = Tail(queue[d]) /\ queue[d] # <<>>
    <3>1. i + 1 \in 1 .. Len(queue[d]) /\ queue'[d][i] = queue[d][i + 1]
      BY <1>2, <2>3, <2>q, TailPlaces
    <3>2. QED
      BY <1>2, <1>t, <3>1 DEF ClosingLast
  <2>4. CASE Feed /\ queue'[d] # queue[d]
    <3> DEFINE f == Head(inbox)
    <3>1. f.corr = d /\ queue'[d] = Append(queue[d], f)
      BY <2>4, <2>q DEF Feed, Put
    <3>2. f \in Frames /\ f = inbox[1] /\ 1 \in 1 .. Len(inbox)
      BY <2>4, <1>t, HeadTailProperties, EmptySeq DEF Feed, TypeOK
    <3>3. (i \in 1 .. Len(queue[d]) /\ queue'[d][i] = queue[d][i]) \/ queue'[d][i] = f
      BY <1>2, <2>q, <3>1, <3>2, AppendPlaces
    <3>4. QED
      BY <1>2, <1>t, <3>1, <3>2, <3>3 DEF ClosingLast
  <2>5. ASSUME NEW c \in Calls, Caller(c)
        PROVE  queue'[d] = queue[d] \/ queue'[d] = <<>>
                 \/ (queue'[d] = Tail(queue[d]) /\ queue[d] # <<>>)
    BY <2>5, <2>q
    DEF Caller, SendCall, SendFails, RequestAck, Take, Timeout, Iterate, Discard, Resume, Collect, Cancel, Forget
  <2>6. ASSUME NEW c \in Calls, Peer(c) PROVE queue'[d] = queue[d]
    BY <2>6
    DEF Peer, PeerDefer, PeerAnswer, PeerStartStream, PeerChunk,
        PeerEndStream, callerVars
  <2>7. QED
    BY <2>1, <2>2, <2>3, <2>4, <2>5, <2>6 DEF Next, vars
<1>3. QED
  BY <1>1, <1>2 DEF ClosingLast

\* What a step of the mapping must say of one call for the contract to allow it.
Outs == [c \in Calls |-> Outcome(c)]
CVars == <<Outs, sent, got, Done>>

\* The coroutine's state alone decides the mapped outcome.
LEMMA OutcomeOf ==
  ASSUME TypeOK, NEW c \in Calls
  PROVE  /\ caller[c] = "idle" => Outcome(c) = "none"
         /\ caller[c] = "returned" => Outcome(c) = "value"
         /\ caller[c] \in {"failed", "timeout"} => Outcome(c) = "error"
         /\ caller[c] \in {"left", "discarded"} => Outcome(c) = "abandoned"
         /\ caller[c] \in {"sending", "open", "waiting", "paused"} => Outcome(c) = "open"
         /\ Outcome(c) = "none" => caller[c] = "idle"
BY DEF Outcome, TypeOK, Registered, Finished

\* When one coroutine moves, the mapped outcomes change at that call only.
LEMMA OutcomeStep ==
  ASSUME TypeOK, TypeOK', NEW c \in Calls, NEW v,
         caller' = [caller EXCEPT ![c] = v]
  PROVE  Outs' = [Outs EXCEPT ![c] = Outcome(c)']
<1>1. \A d \in Calls \ {c} : caller'[d] = caller[d]
  BY DEF TypeOK
<1>2. \A d \in Calls \ {c} : Outcome(d)' = Outcome(d)
  BY <1>1 DEF Outcome
<1>3. QED
  BY <1>2 DEF Outs

\* A coroutine that ends: the contract's End, in its two forms.
LEMMA EndStep ==
  ASSUME TypeOK, TypeOK', NEW c \in Calls, NEW v \in Finished,
         caller[c] \in {"sending", "open", "waiting", "paused"},
         caller' = [caller EXCEPT ![c] = v], v = "returned" => c \in Done,
         UNCHANGED <<sent, got, Done>>
  PROVE  Contract!End(c)
<1>1. caller'[c] = v
  BY DEF TypeOK
<1>2. /\ Outs[c] = "open" /\ Outs' = [Outs EXCEPT ![c] = Outcome(c)']
      /\ Outcome(c)' = IF v = "returned" THEN "value"
                       ELSE IF v \in {"failed", "timeout"} THEN "error" ELSE "abandoned"
  BY <1>1, OutcomeOf, OutcomeStep DEF Outs, Outcome, Finished
<1>3. QED
  BY <1>2 DEF Contract!End, Outs, Done

\* A step that changes nothing the contract sees.
LEMMA StutterStep ==
  ASSUME UNCHANGED <<sent, got>>, Done' = Done,
         \A d \in Calls : Outcome(d)' = Outcome(d)
  PROVE  UNCHANGED Contract!vars
BY DEF Contract!vars, Done

\* Each step of the gate is a step of the contract or changes nothing in it.
LEMMA ContractStep ==
  IInv /\ IInv' /\ LoopGets' /\ ClosingLast /\ [Next]_vars => [Contract!Next]_(Contract!vars)
<1> SUFFICES ASSUME IInv, IInv', LoopGets', ClosingLast, [Next]_vars
             PROVE  Contract!Next \/ UNCHANGED Contract!vars
  OBVIOUS
<1>t. /\ TypeOK /\ TypeOK' /\ Bookkeeping /\ PendingMatchesWaiter
  BY DEF IInv
<1>1. CASE Feed \/ UNCHANGED vars
  <2>1. UNCHANGED <<caller, sent, got, peer>>
    BY <1>1 DEF Feed, vars
  <2>2. QED
    BY <2>1, StutterStep DEF Done, Outcome
<1>2. ASSUME NEW c \in Calls, Peer(c) PROVE Contract!Next \/ UNCHANGED Contract!vars
  <2>1. UNCHANGED <<caller, got>> /\ (\A d \in Calls : Outcome(d)' = Outcome(d)) /\ Outs' = Outs
    BY <1>2
    DEF Peer, PeerDefer, PeerAnswer, PeerStartStream, PeerChunk,
        PeerEndStream, callerVars, Outcome, Outs
  <2>2. Outs[c] # "none"
    BY <1>2, <1>t, OutcomeOf
    DEF Outs, Bookkeeping, Peer, PeerDefer, PeerAnswer, PeerStartStream,
        PeerChunk, PeerEndStream
  <2>3. CASE PeerDefer(c) \/ PeerStartStream(c)
    <3>1. Done' = Done /\ UNCHANGED sent
      BY <2>3, <1>t DEF PeerDefer, PeerStartStream, Done, TypeOK
    <3>2. QED
      BY <2>1, <3>1, StutterStep
  <2>4. CASE PeerAnswer(c) \/ PeerEndStream(c)
    <3>1. c \notin Done /\ Done' = Done \cup {c} /\ UNCHANGED sent
      BY SMTT(30), <2>4, <1>t DEF PeerAnswer, PeerEndStream, Done, TypeOK
    <3>2. Contract!Conclude(c)
      BY <2>1, <2>2, <3>1 DEF Contract!Conclude, Outs, Done
    <3>3. QED
      BY <3>2 DEF Contract!Next
  <2>5. CASE PeerChunk(c)
    <3>1. c \notin Done /\ Done' = Done /\ sent' = [sent EXCEPT ![c] = @ + 1]
      BY <2>5, <1>t DEF PeerChunk, Done, TypeOK
    <3>2. Contract!Produce(c)
      BY <2>1, <2>2, <3>1 DEF Contract!Produce, Outs, Done
    <3>3. QED
      BY <3>2 DEF Contract!Next
  <2>6. QED
    BY <1>2, <2>3, <2>4, <2>5 DEF Peer
<1>3. ASSUME NEW c \in Calls, Caller(c) PROVE Contract!Next \/ UNCHANGED Contract!vars
  <2>1. CASE SendCall(c)
    <3>1. /\ Outs[c] = "none" /\ Outs' = [Outs EXCEPT ![c] = "open"]
          /\ UNCHANGED <<sent, got>>
      <4>1. caller'[c] = "sending"
        BY <2>1, <1>t DEF SendCall, TypeOK
      <4>2. Outcome(c)' = "open"
        BY <4>1 DEF Outcome
      <4>3. QED
        BY <2>1, <4>2, <1>t, OutcomeOf, OutcomeStep DEF SendCall, Outs
    <3>2. Done' = Done
      BY <2>1, <1>t DEF SendCall, Done, TypeOK, Bookkeeping
    <3>3. Contract!Begin(c)
      BY <3>1, <3>2 DEF Contract!Begin, Outs, Done
    <3>4. QED
      BY <3>3 DEF Contract!Next
  <2>2. CASE RequestAck(c) \/ Iterate(c) \/ Resume(c)
    <3>1. UNCHANGED <<sent, got, peer>> /\ \A d \in Calls : Outcome(d)' = Outcome(d)
      BY <2>2, <1>t DEF RequestAck, Iterate, Resume, Outcome, TypeOK
    <3>2. QED
      BY <3>1, StutterStep DEF Done
  <2>3. CASE SendFails(c) \/ Discard(c) \/ Collect(c) \/ Cancel(c) \/ Timeout(c)
    <3>1. Contract!End(c)
      BY <2>3, <1>t, EndStep DEF SendFails, Discard, Resume, Collect, Cancel, Timeout, CanTimeOut, Done, Finished
    <3>2. QED
      BY <3>1 DEF Contract!Next
  <2>4. CASE Take(c)
    <3> DEFINE f == Head(queue[c])
    <3>1. /\ queue[c] \in Seq(Frames) /\ queue[c] # <<>> /\ caller[c] = "waiting"
          /\ UNCHANGED <<sent, peer>> /\ c \in pendings
      BY <2>4, <1>t DEF Take, TypeOK, PendingMatchesWaiter, Registered
    <3>2. Done' = Done
      BY <3>1 DEF Done
    <3>3. CASE EndsIt(c)
      <4>1. \E v \in {"returned", "failed"} :
              /\ caller' = [caller EXCEPT ![c] = v] /\ UNCHANGED <<sent, got, Done>>
              /\ v = "returned" => IsResult(c, f.kind)
        BY <2>4, <3>1, <3>2, <3>3, <1>t, TakeForms
      <4>2. IsResult(c, f.kind) => c \in Done
        <5>1. f = queue[c][1] /\ 1 \in 1 .. Len(queue[c])
          BY <3>1, HeadTailProperties, EmptySeq
        <5>2. QED
          BY <5>1 DEF ClosingLast, IsResult, Closing
      <4>3. Contract!End(c)
        BY <3>1, <4>1, <4>2, <1>t, EndStep DEF Done, Finished
      <4>4. QED
        BY <4>3 DEF Contract!Next
    <3>4. CASE ~EndsIt(c)
      <4>1. \E v \in {"waiting", "paused"} : caller' = [caller EXCEPT ![c] = v]
        BY <2>4, <3>4, <1>t, TakeForms
      <4>2. Outs[c] = "open" /\ (\A d \in Calls : Outcome(d)' = Outcome(d)) /\ Outs' = Outs
        <5>1. ASSUME NEW d \in Calls PROVE Outcome(d)' = Outcome(d)
          <6>1. d # c => caller'[d] = caller[d]
            BY <4>1, <1>t DEF TypeOK
          <6>2. d = c => caller'[d] \in {"waiting", "paused"}
            BY <4>1, <1>t DEF TypeOK
          <6>3. QED
            BY <3>1, <6>1, <6>2 DEF Outcome
        <5>2. QED
          BY <3>1, <5>1, <1>t, OutcomeOf DEF Outs
      <4>3. CASE UNCHANGED got
        BY <3>1, <3>2, <4>2, <4>3, StutterStep
      <4>4. CASE ~UNCHANGED got
        <5> DEFINE g == got[c]
        <5>1. IsChunkTurn(c) /\ IsGiven(c, f.n) /\ got' = [got EXCEPT ![c] = Append(g, f.n)]
          BY <2>4, <3>4, <4>4, <1>t, TakeForms
        <5>2. f.n \in 1 .. sent[c] /\ f.n \in 1 .. MaxChunks
          BY <2>4, <5>1, TakenNext
        <5>3. f.n \in ValuesOf(c)
          BY <5>1, <5>2 DEF IsGiven, ValuesOf
        <5>4. g # <<>> => g[Len(g)] < f.n /\ \A m \in ValuesOf(c) : ~(g[Len(g)] < m /\ m < f.n)
          <6>1. /\ g \in Seq(1 .. MaxChunks) /\ Len(g) \in Nat
                /\ got'[c] = Append(g, f.n)
            BY <5>1, <1>t DEF TypeOK
          <6>2. SUFFICES ASSUME g # <<>>
                         PROVE  g[Len(g)] < f.n /\ \A m \in ValuesOf(c) : ~(g[Len(g)] < m /\ m < f.n)
            OBVIOUS
          <6>3. /\ Len(g) \in 1 .. Len(got'[c]) - 1
                /\ got'[c][Len(g)] = g[Len(g)] /\ got'[c][Len(g) + 1] = f.n
            BY <6>1, <6>2, <5>2, EmptySeq
          <6>4. InLine(taken'[c], got'[c], ValuesOf(c))
            BY DEF LoopGets, Loop, ValuesOf
          <6>5. QED
            BY <6>3, <6>4 DEF InLine
        <5>5. Contract!Follows(c, f.n)
          BY <5>4 DEF Contract!Follows
        <5>6. Contract!Deliver(c)
          BY <3>1, <3>2, <4>2, <5>1, <5>2, <5>3, <5>5 DEF Contract!Deliver, Outs, Done
        <5>7. QED
          BY <5>6 DEF Contract!Next
      <4>5. QED
        BY <4>3, <4>4
    <3>5. QED
      BY <3>3, <3>4
  <2>5. QED
    BY <1>3, <2>1, <2>2, <2>3, <2>4 DEF Caller
<1>4. QED
  BY <1>1, <1>2, <1>3 DEF Next

\* send and request_stream, gate and all, keep the promise of CallContract: a
\* value only after the peer's answer, chunks in order, one outcome per call.
THEOREM GateKeepsContract == Spec => ImplementsContract
<1>1. Init => ClosingLast
  BY DEF Init, ClosingLast
<1>2. Spec => []ClosingLast
  BY <1>1, Invariance, ClosingStep, PTL DEF Spec
<1>3. Init => Contract!Init
  BY DEF Init, Contract!Init, Outcome
<1>4. Spec => Contract!Init /\ [][Contract!Next]_(Contract!vars)
  BY <1>2, <1>3, Invariance, LoopInvariance, ContractStep, PTL DEF Spec
<1>5. QED
  BY <1>4 DEF ImplementsContract, Contract!Spec
-----------------------------------------------------------------------------
(* No wake-up is lost, and a stream that ends is complete.                   *)

Ends(c, k) == IsResult(c, k) \/ IsFailure(c, k)
HasEnd(s, c) == \E i \in 1 .. Len(s) : s[i].corr = c /\ Ends(c, s[i].kind)

Unfinished == {"sending"} \cup Registered

\* While a call is not finished, the frame that ends it is in the inbox or in
\* its queue as soon as the peer has sent it.
EndOnTheWay ==
    \A c \in Calls \ missed :
        (Over(c) /\ caller[c] \in Unfinished) => HasEnd(queue[c], c) \/ HasEnd(inbox, c)

LEMMA AppendEnds ==
  ASSUME NEW S, NEW s \in Seq(S), NEW f \in S, NEW c
  PROVE  HasEnd(Append(s, f), c) <=> HasEnd(s, c) \/ (f.corr = c /\ Ends(c, f.kind))
<1> DEFINE t == Append(s, f)
<1>1. /\ Len(s) \in Nat /\ Len(t) = Len(s) + 1 /\ t[Len(s) + 1] = f
      /\ \A i \in 1 .. Len(s) : t[i] = s[i]
  OBVIOUS
<1>2. 1 .. Len(t) = (1 .. Len(s)) \cup {Len(s) + 1}
  BY <1>1
<1> HIDE DEF t
<1>3. HasEnd(t, c) <=> HasEnd(s, c) \/ (f.corr = c /\ Ends(c, f.kind))
  BY <1>1, <1>2 DEF HasEnd
<1>4. QED
  BY <1>3 DEF t

LEMMA TailEnds ==
  ASSUME NEW S, NEW s \in Seq(S), s # <<>>, NEW c, HasEnd(s, c)
  PROVE  (Head(s).corr = c /\ Ends(c, Head(s).kind)) \/ HasEnd(Tail(s), c)
<1> DEFINE t == Tail(s)
<1>1. /\ Len(s) \in Nat \ {0} /\ Len(t) = Len(s) - 1 /\ Head(s) = s[1]
      /\ \A i \in 1 .. Len(t) : t[i] = s[i + 1]
  BY HeadTailProperties, EmptySeq
<1> HIDE DEF t
<1>2. PICK i \in 1 .. Len(s) : s[i].corr = c /\ Ends(c, s[i].kind)
  BY DEF HasEnd
<1>3. CASE i = 1
  BY <1>1, <1>2, <1>3
<1>4. CASE i # 1
  <2>1. i - 1 \in 1 .. Len(t) /\ (i - 1) + 1 = i
    BY <1>1, <1>4
  <2>2. t[i - 1] = s[i]
    BY <2>1, <1>1
  <2>3. QED
    BY <1>2, <2>1, <2>2 DEF HasEnd, t
<1>5. QED
  BY <1>3, <1>4

\* A frame of a call that is fed while the call is not finished is not lost
\* unless the call is counted as missed.
LEMMA FeedKeepsFrame ==
  ASSUME IInv, Feed, NEW c \in Calls, c \notin missed', caller[c] \in Unfinished, Head(inbox).corr = c
  PROVE  queue'[c] = Append(queue[c], Head(inbox))
<1>t. TypeOK /\ PendingMatchesWaiter
  BY DEF IInv
<1>1. caller[c] # "sending" \/ c \in pendings
  BY <1>t DEF Feed, Accepts
<1>2. c \in pendings
  BY <1>1, <1>t DEF PendingMatchesWaiter, Registered, Unfinished
<1>3. QED
  BY <1>2, <1>t DEF Feed, Accepts, Put, TypeOK

LEMMA EndStaysOnTheWay == IInv /\ EndOnTheWay /\ [Next]_vars => EndOnTheWay'
<1> SUFFICES ASSUME IInv, EndOnTheWay, [Next]_vars,
                    NEW c \in Calls, c \notin missed', Over(c)', caller'[c] \in Unfinished
             PROVE  HasEnd(queue'[c], c) \/ HasEnd(inbox', c)
  BY DEF EndOnTheWay
<1>t. TypeOK /\ PendingMatchesWaiter /\ Bookkeeping
  BY DEF IInv
<1>q. queue[c] \in Seq(Frames) /\ inbox \in Seq(Frames)
  BY <1>t DEF TypeOK
<1> DEFINE Before == HasEnd(queue[c], c) \/ HasEnd(inbox, c)
<1>1. CASE UNCHANGED vars
  BY <1>1 DEF vars, EndOnTheWay, Over
<1>2. CASE Feed
  <2> DEFINE f == Head(inbox)
  <2>1. c \notin missed /\ Over(c) /\ caller[c] \in Unfinished
    BY <1>2 DEF Feed, Over
  <2>2. Before
    BY <2>1 DEF EndOnTheWay
  <2>3. f \in Frames /\ inbox # <<>> /\ inbox' = Tail(inbox)
    BY <1>2, <1>q, HeadTailProperties DEF Feed
  <2>4. CASE f.corr = c
    <3>1. queue'[c] = Append(queue[c], f)
      BY <1>2, <2>1, <2>4, FeedKeepsFrame
    <3>2. QED
      BY <2>2, <2>3, <2>4, <3>1, <1>q, AppendEnds, TailEnds
  <2>5. CASE f.corr # c
    <3>1. queue'[c] = queue[c]
      BY <1>2, <2>5, <1>t DEF Feed, Put, Accepts, TypeOK
    <3>2. QED
      BY <2>2, <2>3, <2>5, <3>1, <1>q, TailEnds
  <2>6. QED
    BY <2>4, <2>5
<1>3. ASSUME NEW d \in Calls, Peer(d) PROVE HasEnd(queue'[c], c) \/ HasEnd(inbox', c)
  <2>1. UNCHANGED callerVars
    BY <1>3 DEF Peer, PeerDefer, PeerAnswer, PeerStartStream, PeerChunk, PeerEndStream
  <2>2. ASSUME NEW e \in Calls, NEW k \in Kinds, NEW n \in 0 .. MaxChunks, Push(Msg(e, k, n)),
               Over(c) \/ (e = c /\ Ends(c, k))
        PROVE  HasEnd(inbox', c) \/ HasEnd(queue'[c], c)
    <3>1. Msg(e, k, n) \in Frames /\ Msg(e, k, n).corr = e /\ Msg(e, k, n).kind = k
      BY MsgFrame DEF Msg
    <3>2. CASE Over(c)
      BY <3>1, <3>2, <2>1, <2>2, <1>q, AppendEnds DEF EndOnTheWay, Push, callerVars
    <3>3. CASE e = c /\ Ends(c, k)
      BY <3>1, <3>3, <2>2, <1>q, AppendEnds DEF Push
    <3>4. QED
      BY <2>2, <3>2, <3>3
  <2>z. 0 \in 0 .. MaxChunks
    BY GateAssumption
  <2>3. CASE PeerDefer(d) \/ PeerStartStream(d)
    <3>1. Over(c)
      BY <2>3, <1>t DEF PeerDefer, PeerStartStream, Over, TypeOK
    <3>2. \E e \in Calls, k \in Kinds : Push(Msg(e, k, 0))
      BY <2>3 DEF PeerDefer, PeerStartStream, Kinds
    <3>3. QED
      BY <2>2, <2>z, <3>1, <3>2
  <2>4. CASE PeerChunk(d)
    <3>1. Over(c) /\ sent[d] + 1 \in 0 .. MaxChunks
      BY <2>4, <1>t, GateAssumption DEF PeerChunk, Over, TypeOK
    <3>2. QED
      BY <2>2, <2>4, <3>1 DEF PeerChunk, Kinds
  <2>5. CASE PeerAnswer(d) \/ PeerEndStream(d)
    <3>1. CASE d # c
      <4>1. Over(c)
        BY <2>5, <3>1, <1>t DEF PeerAnswer, PeerEndStream, Over, TypeOK
      <4>2. \E k \in Kinds : Push(Msg(d, k, 0))
        BY <2>5 DEF PeerAnswer, PeerEndStream, Kinds
      <4>3. QED
        BY <2>2, <2>z, <4>1, <4>2
    <3>2. CASE d = c
      <4>1. \E k \in Kinds : Push(Msg(c, k, 0)) /\ Ends(c, k)
        <5>1. CASE PeerAnswer(c)
          BY <5>1 DEF PeerAnswer, Kinds, Ends, IsResult, IsFailure
        <5>2. CASE PeerEndStream(c)
          <6>1. Push(Msg(c, "ERR", 0)) \/ (Push(Msg(c, "STREAMEOS", 0)) /\ peer'[c] = "closed")
            BY <5>2, <1>t DEF PeerEndStream, TypeOK
          <6>2. (Push(Msg(c, "STREAMEOS", 0)) /\ peer'[c] = "closed") => c \in Streams
            BY DEF Over
          <6>3. QED
            BY <6>1, <6>2 DEF Kinds, Ends, IsResult, IsFailure
        <5>3. QED
          BY <2>5, <3>2, <5>1, <5>2
      <4>2. QED
        BY <2>2, <2>z, <4>1
    <3>3. QED
      BY <3>1, <3>2
  <2>6. QED
    BY <1>3, <2>3, <2>4, <2>5 DEF Peer
<1>4. ASSUME NEW d \in Calls, Caller(d) PROVE HasEnd(queue'[c], c) \/ HasEnd(inbox', c)
  <2>0. UNCHANGED <<inbox, missed>>
    BY <1>4 DEF Caller, SendCall, SendFails, RequestAck, Take, Timeout, Iterate, Discard, Resume, Collect, Cancel
  <2>1. CASE SendCall(d)
    <3>1. peer'[d] = "called" /\ \A e \in Calls \ {d} : peer'[e] = peer[e] /\ caller'[e] = caller[e]
      BY <2>1, <1>t DEF SendCall, TypeOK
    <3>2. c # d /\ Over(c) /\ caller[c] \in Unfinished /\ queue' = queue
      BY <2>1, <3>1 DEF Over, SendCall
    <3>3. QED
      BY <2>0, <3>2 DEF EndOnTheWay
  <2>2. CASE ~SendCall(d)
    <3>1. Over(c)
      BY <1>4, <2>2 DEF Caller, SendFails, RequestAck, Take, Timeout, Iterate, Discard, Resume, Collect, Cancel, Over
    <3>2. caller[c] \in Unfinished
      <4>1. ASSUME Take(d) PROVE caller[c] \in Unfinished
        BY <4>1, <1>t, TakeForms DEF TypeOK, Unfinished, Registered
      <4>2. QED
        BY <1>4, <2>2, <4>1, <1>t
        DEF Caller, SendFails, RequestAck, CanTimeOut, Timeout, Iterate, Discard, Resume,
            Collect, Cancel, TypeOK, Unfinished, Registered
    <3>3. Before
      BY <2>0, <3>1, <3>2 DEF EndOnTheWay
    <3>4. CASE queue'[c] = queue[c]
      BY <2>0, <3>3, <3>4
    <3>5. CASE queue'[c] # queue[c]
      <4>1. d = c /\ queue[c] # <<>> /\ queue'[c] = Tail(queue[c]) /\ ~Ends(c, Head(queue[c]).kind)
        <5>1. CASE Take(d)
          <6>1. d = c
            BY ZenonT(60), <3>5, <5>1, <1>t, TakeForms DEF Forget, TypeOK
          <6>2. ~EndsIt(c)
            BY <5>1, <6>1, <1>t, TakeForms DEF TypeOK, Unfinished, Registered
          <6>3. QED
            BY <5>1, <6>1, <6>2, <1>t, TakeForms DEF TypeOK, EndsIt, Ends
        <5>2. CASE ~Take(d)
          BY <1>4, <2>2, <3>5, <5>2, <1>t
          DEF Caller, SendFails, RequestAck, Timeout, Iterate, Discard, Resume, Collect,
              Cancel, Forget, TypeOK, Unfinished, Registered
        <5>3. QED
          BY <5>1, <5>2
      <4>2. QED
        BY <2>0, <3>3, <4>1, <1>q, TailEnds
    <3>6. QED
      BY <3>4, <3>5
  <2>3. QED
    BY <2>1, <2>2
<1>5. QED
  BY <1>1, <1>2, <1>3, <1>4 DEF Next

\* No lost wake-up: the queue of a coroutine that waits for an exchange that is
\* over holds the frame that ends it, once everything received has been fed.
THEOREM AnswersReachTheWaiter == Spec => []WaiterHasAnswer
<1>1. Init => EndOnTheWay
  BY DEF Init, EndOnTheWay, Over
<1>2. Spec => []EndOnTheWay
  BY <1>1, Invariance, EndStaysOnTheWay, PTL DEF Spec
<1>3. TypeOK /\ EndOnTheWay => WaiterHasAnswer
  BY DEF EndOnTheWay, HasEnd, Ends, Unfinished, WaiterHasAnswer, TypeOK
<1>4. QED
  BY <1>2, <1>3, TypeCorrect, PTL
-----------------------------------------------------------------------------
(* A stream that returns is complete: what its generator yields begins with  *)
(* the first chunk, and nothing is behind the frame that ends it.            *)

Eos(f, c) == f.corr = c /\ f.kind = "STREAMEOS"
HasEos(s, c) == \E i \in 1 .. Len(s) : Eos(s[i], c)
NoChunk(s, c) == \A i \in 1 .. Len(s) : ~IsChunk(s[i], c)
EosLast(s, c) == \A i, j \in 1 .. Len(s) : (i < j /\ Eos(s[i], c)) => ~IsChunk(s[j], c)

EndsAreLast ==
    \A c \in Calls :
        /\ EosLast(inbox, c) /\ EosLast(queue[c], c)
        /\ HasEos(queue[c], c) => NoChunk(inbox, c)

Counted(s) == s = [i \in 1 .. Len(s) |-> i]

\* What a stream whose frames were all fed in time has yielded, and what is left.
BeginsWithFirst ==
    \A c \in Streams \ missed :
        /\ Counted(taken[c])
        /\ (caller[c] \in Unfinished /\ taken[c] = <<>> /\ sent[c] # 0) => InTransit(c, 1)
        /\ caller[c] = "returned" => c \in Done /\ Len(taken[c]) = sent[c]

LEMMA AppendEos ==
  ASSUME NEW S, NEW s \in Seq(S), NEW f \in S, NEW c
  PROVE  /\ HasEos(Append(s, f), c) <=> HasEos(s, c) \/ Eos(f, c)
         /\ NoChunk(Append(s, f), c) <=> NoChunk(s, c) /\ ~IsChunk(f, c)
         /\ EosLast(s, c) /\ (HasEos(s, c) => ~IsChunk(f, c)) => EosLast(Append(s, f), c)
<1> DEFINE t == Append(s, f)
<1>1. /\ Len(s) \in Nat /\ Len(t) = Len(s) + 1 /\ t[Len(s) + 1] = f
      /\ \A i \in 1 .. Len(s) : t[i] = s[i]
  OBVIOUS
<1>2. 1 .. Len(t) = (1 .. Len(s)) \cup {Len(s) + 1}
  BY <1>1
<1> HIDE DEF t
<1>3. /\ HasEos(t, c) <=> HasEos(s, c) \/ Eos(f, c)
      /\ NoChunk(t, c) <=> NoChunk(s, c) /\ ~IsChunk(f, c)
  BY <1>1, <1>2 DEF HasEos, NoChunk
<1>4. ASSUME EosLast(s, c), HasEos(s, c) => ~IsChunk(f, c),
             NEW i \in 1 .. Len(t), NEW j \in 1 .. Len(t), i < j, Eos(t[i], c)
      PROVE  ~IsChunk(t[j], c)
  <2>1. i \in 1 .. Len(s) /\ t[i] = s[i]
    BY <1>1, <1>4
  <2>2. CASE j \in 1 .. Len(s)
    BY <1>1, <1>4, <2>1, <2>2 DEF EosLast
  <2>3. CASE j = Len(s) + 1
    BY <1>1, <1>4, <2>1, <2>3 DEF HasEos
  <2>4. QED
    BY <1>1, <2>2, <2>3
<1>5. QED
  BY <1>3, <1>4 DEF EosLast, t

LEMMA TailEos ==
  ASSUME NEW S, NEW s \in Seq(S), s # <<>>, NEW c
  PROVE  /\ HasEos(Tail(s), c) => HasEos(s, c)
         /\ NoChunk(s, c) => NoChunk(Tail(s), c)
         /\ EosLast(s, c) => EosLast(Tail(s), c)
         /\ EosLast(s, c) /\ Eos(Head(s), c) => NoChunk(Tail(s), c)
         /\ Eos(Head(s), c) => HasEos(s, c)
         /\ NoChunk(s, c) => ~IsChunk(Head(s), c)
<1> DEFINE t == Tail(s)
<1>1. /\ Len(s) \in Nat \ {0} /\ Len(t) = Len(s) - 1 /\ Head(s) = s[1]
      /\ \A i \in 1 .. Len(t) : t[i] = s[i + 1]
  BY HeadTailProperties, EmptySeq
<1> HIDE DEF t
<1>2. 1 \in 1 .. Len(s) /\ \A i \in 1 .. Len(t) : i + 1 \in 1 .. Len(s) /\ 1 < i + 1
  BY <1>1
<1>3. /\ HasEos(t, c) => HasEos(s, c)
      /\ NoChunk(s, c) => NoChunk(t, c)
      /\ EosLast(s, c) /\ Eos(Head(s), c) => NoChunk(t, c)
      /\ Eos(Head(s), c) => HasEos(s, c)
      /\ NoChunk(s, c) => ~IsChunk(Head(s), c)
  BY <1>1, <1>2 DEF HasEos, NoChunk, EosLast
<1>4. ASSUME EosLast(s, c), NEW i \in 1 .. Len(t), NEW j \in 1 .. Len(t), i < j, Eos(t[i], c)
      PROVE  ~IsChunk(t[j], c)
  <2>1. i + 1 < j + 1 /\ Eos(s[i + 1], c)
    BY <1>1, <1>4
  <2>2. QED
    BY <1>1, <1>2, <1>4, <2>1 DEF EosLast
<1>5. QED
  BY <1>3, <1>4 DEF EosLast, t

LEMMA EmptyEos ==
  ASSUME NEW c
  PROVE  ~HasEos(<<>>, c) /\ NoChunk(<<>>, c) /\ EosLast(<<>>, c)
BY DEF HasEos, NoChunk, EosLast

LEMMA NoChunkHolds ==
  ASSUME NEW s, NEW c, NoChunk(s, c), NEW m
  PROVE  ~Holds(s, c, m)
BY DEF NoChunk, Holds

\* A call that has a STREAMEOS on its way gets no more chunks.
LEMMA EosMeansDone ==
  ASSUME ClosingLast, NEW c \in Calls, HasEos(inbox, c) \/ HasEos(queue[c], c)
  PROVE  c \in Done
BY DEF ClosingLast, HasEos, Eos, Closing

LEMMA EndsStayLast == IInv /\ ClosingLast /\ EndsAreLast /\ [Next]_vars => EndsAreLast'
<1> SUFFICES ASSUME IInv, ClosingLast, EndsAreLast, [Next]_vars, NEW c \in Calls
             PROVE  /\ EosLast(inbox', c) /\ EosLast(queue'[c], c)
                    /\ HasEos(queue'[c], c) => NoChunk(inbox', c)
  BY DEF EndsAreLast
<1>t. TypeOK /\ Bookkeeping
  BY DEF IInv
<1>q. queue[c] \in Seq(Frames) /\ inbox \in Seq(Frames)
  BY <1>t DEF TypeOK
<1>b. /\ EosLast(inbox, c) /\ EosLast(queue[c], c)
      /\ HasEos(queue[c], c) => NoChunk(inbox, c)
  BY DEF EndsAreLast
<1>1. CASE UNCHANGED <<inbox, queue>>
  BY <1>1, <1>b
<1>2. CASE Feed
  <2> DEFINE f == Head(inbox)
  <2>1. f \in Frames /\ inbox # <<>> /\ inbox' = Tail(inbox)
    BY <1>2, <1>q, HeadTailProperties DEF Feed
  <2>2. EosLast(inbox', c) /\ (NoChunk(inbox, c) => NoChunk(inbox', c))
    BY <2>1, <1>q, <1>b, TailEos
  <2>3. CASE queue'[c] = queue[c]
    BY <2>2, <2>3, <1>b
  <2>4. CASE queue'[c] # queue[c]
    <3>1. f.corr = c /\ queue'[c] = Append(queue[c], f)
      BY <1>2, <2>4, <1>t DEF Feed, Put, Accepts, TypeOK
    <3>2. HasEos(queue[c], c) => ~IsChunk(f, c)
      BY <2>1, <1>q, <1>b, TailEos
    <3>3. EosLast(queue'[c], c)
      BY <3>1, <3>2, <2>1, <1>q, <1>b, AppendEos
    <3>4. HasEos(queue'[c], c) => NoChunk(inbox', c)
      BY <3>1, <2>1, <2>2, <1>q, <1>b, AppendEos, TailEos
    <3>5. QED
      BY <2>2, <3>3, <3>4
  <2>5. QED
    BY <2>3, <2>4
<1>3. ASSUME NEW d \in Calls, Peer(d)
      PROVE  /\ EosLast(inbox', c) /\ EosLast(queue'[c], c)
             /\ HasEos(queue'[c], c) => NoChunk(inbox', c)
  <2>1. UNCHANGED queue
    BY <1>3 DEF Peer, PeerDefer, PeerAnswer, PeerStartStream, PeerChunk, PeerEndStream,
                callerVars
  <2>2. ASSUME NEW e \in Calls, NEW k \in Kinds, NEW n \in 0 .. MaxChunks,
               Push(Msg(e, k, n)), (e = c /\ k = "CHUNK") => c \notin Done
        PROVE  /\ EosLast(inbox', c)
               /\ HasEos(queue[c], c) => NoChunk(inbox', c)
    <3>1. Msg(e, k, n) \in Frames /\ (IsChunk(Msg(e, k, n), c) <=> e = c /\ k = "CHUNK")
      BY MsgFrame
    <3>2. (HasEos(inbox, c) \/ HasEos(queue[c], c)) => ~IsChunk(Msg(e, k, n), c)
      BY <3>1, <2>2, EosMeansDone
    <3>3. QED
      BY <3>1, <3>2, <2>2, <1>q, <1>b, AppendEos DEF Push
  <2>3. \E e \in Calls, k \in Kinds, n \in 0 .. MaxChunks :
           Push(Msg(e, k, n)) /\ ((e = c /\ k = "CHUNK") => c \notin Done)
    <3>1. 0 \in 0 .. MaxChunks
      BY GateAssumption
    <3>2. CASE PeerChunk(d)
      <4>1. sent[d] + 1 \in 0 .. MaxChunks /\ d \notin Done
        BY <3>2, <1>t, GateAssumption DEF PeerChunk, TypeOK, Done
      <4>2. QED
        BY <3>2, <4>1 DEF PeerChunk, Kinds
    <3>3. CASE ~PeerChunk(d)
      <4>1. \E e \in Calls, k \in Kinds \ {"CHUNK"} : Push(Msg(e, k, 0))
        BY <1>3, <3>3
        DEF Peer, PeerDefer, PeerAnswer, PeerStartStream, PeerEndStream, Kinds
      <4>2. QED
        BY <3>1, <4>1
    <3>4. QED
      BY <3>2, <3>3
  <2>4. QED
    BY <2>1, <2>2, <2>3, <1>b
<1>4. ASSUME NEW d \in Calls, Caller(d)
      PROVE  /\ EosLast(inbox', c) /\ EosLast(queue'[c], c)
             /\ HasEos(queue'[c], c) => NoChunk(inbox', c)
  <2>1. UNCHANGED inbox
    BY <1>4 DEF Caller, SendCall, SendFails, RequestAck, Take, Timeout, Iterate, Discard, Resume, Collect, Cancel
  <2>2. \/ queue'[c] \in {queue[c], <<>>}
        \/ queue[c] # <<>> /\ queue'[c] = Tail(queue[c])
    BY <1>4, <1>t
    DEF Caller, SendCall, SendFails, RequestAck, Take, Timeout, Iterate, Discard, Resume, Collect, Cancel, Forget, TypeOK
  <2>3. QED
    BY <2>1, <2>2, <1>q, <1>b, TailEos, EmptyEos
<1>5. QED
  BY <1>1, <1>2, <1>3, <1>4 DEF Next, vars

\* The step of the consumer: a chunk is the next one, the end comes after all.
LEMMA TakeCounts ==
  ASSUME IInv, IInv', ClosingLast, EndsAreLast, BeginsWithFirst, NEW c \in Streams \ missed, Take(c)
  PROVE  /\ Counted(taken'[c])
         /\ (caller'[c] \in Unfinished /\ taken'[c] = <<>> /\ sent'[c] # 0) => InTransit(c, 1)'
         /\ caller'[c] = "returned" => c \in Done' /\ Len(taken'[c]) = sent'[c]
<1>t. TypeOK /\ PendingMatchesWaiter /\ Bookkeeping /\ c \in Calls /\ Lane(c)
  BY GateAssumption DEF IInv, ChunkLanes
<1> DEFINE f == Head(queue[c])
           g == taken[c]
<1>q. /\ queue[c] \in Seq(Frames) /\ queue[c] # <<>> /\ inbox \in Seq(Frames)
      /\ g \in Seq(1 .. MaxChunks) /\ Len(g) \in Nat /\ Counted(g)
      /\ caller[c] = "waiting" /\ c \in pendings /\ UNCHANGED <<inbox, sent, peer>>
      /\ sent[c] \in 0 .. MaxChunks /\ MaxChunks \in Nat
  <2>1. queue[c] # <<>> /\ caller[c] = "waiting" /\ UNCHANGED <<inbox, sent, peer>>
    BY <1>t, TakeForms
  <2>2. QED
    BY <1>t, <2>1, GateAssumption DEF TypeOK, PendingMatchesWaiter, Registered, BeginsWithFirst
<1>h. f \in Frames /\ f.corr = c /\ f = queue[c][1] /\ 1 \in 1 .. Len(queue[c])
  BY <1>q, <1>t, HeadTailProperties, EmptySeq DEF Bookkeeping
<1>g. g # <<>> => LastTaken(c) = Len(g) /\ Len(g) \in 1 .. Len(g)
  BY <1>q, EmptySeq DEF LastTaken, Counted
<1>f. (g = <<>> /\ sent[c] # 0) => InTransit(c, 1)
  BY <1>q, <1>t DEF BeginsWithFirst, Unfinished, Registered
<1>1. CASE IsResult(c, f.kind)
  <2>1. Eos(f, c)
    BY <1>1, <1>h DEF IsResult, Eos
  <2>2. c \in Done /\ Done' = Done
    <3>1. HasEos(queue[c], c)
      BY <2>1, <1>q, TailEos
    <3>2. c \in Done
      BY <3>1, <1>t, EosMeansDone
    <3>3. QED
      BY <3>2, <1>q DEF Done
  <2>3. NoChunk(inbox, c) /\ NoChunk(Tail(queue[c]), c) /\ ~IsChunk(f, c)
    BY <2>1, <1>q, <1>t, TailEos DEF EndsAreLast, Eos, IsChunk
  <2>4. \A m : ~Holds(inbox, c, m) /\ ~Holds(Tail(queue[c]), c, m)
    BY <2>3, NoChunkHolds
  <2>5. \A m : ~InTransit(c, m)
    BY <2>3, <2>4, <1>q, TailHolds DEF InTransit
  <2>6. Len(g) = sent[c]
    <3>1. CASE g = <<>>
      BY <3>1, <2>5, <1>f, <1>q
    <3>2. CASE g # <<>>
      <4>1. LastTaken(c) \in 1 .. sent[c] /\ (LastTaken(c) < sent[c] => InTransit(c, LastTaken(c) + 1))
        BY <3>2, <1>t, <1>q DEF Lane
      <4>2. QED
        BY <3>2, <4>1, <2>5, <1>g, <1>q
    <3>3. QED
      BY <3>1, <3>2
  <2>7. caller'[c] = "returned" /\ taken'[c] = g
    BY <1>1, <1>t, TakeForms DEF TypeOK, EndsIt
  <2>8. QED
    BY <2>2, <2>6, <2>7, <1>q DEF Unfinished, Registered
<1>2. CASE ~IsResult(c, f.kind) /\ IsFailure(c, f.kind)
  <2>1. caller'[c] = "failed" /\ taken'[c] = g
    BY <1>2, <1>t, TakeForms DEF TypeOK, EndsIt
  <2>2. QED
    BY <2>1, <1>q DEF Unfinished, Registered
<1>3. CASE ~IsResult(c, f.kind) /\ ~IsFailure(c, f.kind) /\ f.kind # "CHUNK"
  <2>1. caller'[c] # "returned" /\ taken' = taken /\ queue'[c] = Tail(queue[c])
    BY ZenonT(60), <1>3, <1>t, TakeForms DEF TypeOK, EndsIt, IsChunkTurn
  <2>2. InTransit(c, 1) => InTransit(c, 1)'
    BY <2>1, <1>3, <1>q, TailHolds DEF InTransit, IsChunk
  <2>3. QED
    BY <2>1, <2>2, <1>f, <1>q
<1>4. CASE ~IsResult(c, f.kind) /\ ~IsFailure(c, f.kind) /\ f.kind = "CHUNK"
  <2>1. /\ IsChunkTurn(c) /\ taken'[c] = Append(g, f.n) /\ f.n \in 1 .. sent[c]
        /\ IsChunk(f, c) /\ (g # <<>> => f.n = LastTaken(c) + 1)
    BY <1>4, <1>t, TakenNext DEF IsChunkTurn
  <2>c. caller'[c] # "returned"
    BY <1>4, <1>t, TakeForms DEF TypeOK, EndsIt
  <2>2. /\ Len(taken'[c]) = Len(g) + 1 /\ taken'[c][Len(g) + 1] = f.n
        /\ \A i \in 1 .. Len(g) : taken'[c][i] = g[i]
    BY <2>1, <1>q
  <2>3. f.n = Len(g) + 1
    <3>1. CASE g # <<>>
      BY <3>1, <2>1, <1>g
    <3>2. CASE g = <<>>
      <4>1. InTransit(c, 1)
        BY <3>2, <2>1, <1>f, <1>q
      <4>2. CASE f.n # 1
        <5>0. f.n \in 0 .. MaxChunks /\ 1 \in 0 .. MaxChunks
          BY <2>1, <1>q
        <5>1. Holds(queue[c], c, f.n) /\ f.n \in 0 .. MaxChunks /\ 1 \in 0 .. MaxChunks
          BY <5>0, <2>1, <1>q, TailHolds
        <5>2. ~Holds(inbox, c, 1)
          BY <5>1, <4>2, <2>1, <1>t, <1>q DEF Lane
        <5>3. Holds(Tail(queue[c]), c, 1)
          BY <5>2, <4>1, <4>2, <1>q, TailHolds DEF InTransit
        <5>4. f.n < 1
          BY <5>3, <2>1, <1>t, <1>q, TailAscending DEF Lane
        <5>5. QED
          BY <5>4, <2>1, <1>q
      <4>3. QED
        BY <4>2, <3>2
    <3>3. QED
      BY <3>1, <3>2
  <2>4. Counted(taken'[c])
    <3>1. \A i \in 1 .. Len(taken'[c]) : taken'[c][i] = i
      <4>1. ASSUME NEW i \in 1 .. Len(taken'[c]) PROVE taken'[c][i] = i
        <5>1. CASE i \in 1 .. Len(g)
          BY <5>1, <2>2, <1>q DEF Counted
        <5>2. CASE i = Len(g) + 1
          BY <5>2, <2>2, <2>3
        <5>3. QED
          BY <5>1, <5>2, <2>2, <1>q
      <4>2. QED
        BY <4>1
    <3>2. taken'[c] \in Seq(1 .. MaxChunks)
      BY <1>t DEF IInv, TypeOK
    <3>3. QED
      BY <3>1, <3>2 DEF Counted
  <2>5. taken'[c] # <<>>
    BY <2>2, <1>q, EmptySeq
  <2>6. QED
    BY <2>c, <2>4, <2>5
<1>5. QED
  BY <1>1, <1>2, <1>3, <1>4

\* Nothing is sent for a call that was not made.
NothingSentYet == \A c \in Calls : caller[c] = "idle" => sent[c] = 0

LEMMA NothingSentStep == IInv /\ NothingSentYet /\ [Next]_vars => NothingSentYet'
<1> SUFFICES ASSUME IInv, NothingSentYet, [Next]_vars, NEW c \in Calls, caller'[c] = "idle"
             PROVE  sent'[c] = 0
  BY DEF NothingSentYet
<1>t. TypeOK /\ Bookkeeping
  BY DEF IInv
<1>1. CASE UNCHANGED vars \/ Feed
  BY <1>1 DEF vars, Feed, NothingSentYet
<1>2. ASSUME NEW d \in Calls, Peer(d) PROVE sent'[c] = 0
  <2>1. caller[c] = "idle" /\ peer[c] = "none" /\ sent[c] = 0
    BY <1>2, <1>t
    DEF Peer, PeerDefer, PeerAnswer, PeerStartStream, PeerChunk, PeerEndStream,
        callerVars, Bookkeeping, NothingSentYet
  <2>2. CASE PeerChunk(d)
    BY <2>1, <2>2, <1>t DEF PeerChunk, TypeOK
  <2>3. CASE ~PeerChunk(d)
    BY <1>2, <2>1, <2>3
    DEF Peer, PeerDefer, PeerAnswer, PeerStartStream, PeerEndStream
  <2>4. QED
    BY <2>2, <2>3
<1>3. ASSUME NEW d \in Calls, Caller(d) PROVE sent'[c] = 0
  <2>1. caller[c] = "idle" /\ UNCHANGED sent
    BY <1>3, <1>t
    DEF Caller, SendCall, SendFails, RequestAck, Take, Timeout, Iterate, Discard, Resume, Collect, Cancel, TypeOK
  <2>2. QED
    BY <2>1 DEF NothingSentYet
<1>4. QED
  BY <1>1, <1>2, <1>3 DEF Next

LEMMA BeginStep ==
  IInv /\ IInv' /\ ClosingLast /\ EndsAreLast /\ NothingSentYet /\ BeginsWithFirst /\ [Next]_vars
    => BeginsWithFirst'
<1> SUFFICES ASSUME IInv, IInv', ClosingLast, EndsAreLast, NothingSentYet, BeginsWithFirst, [Next]_vars,
                    NEW c \in Streams, c \notin missed'
             PROVE  /\ Counted(taken'[c])
                    /\ (caller'[c] \in Unfinished /\ taken'[c] = <<>> /\ sent'[c] # 0) => InTransit(c, 1)'
                    /\ caller'[c] = "returned" => c \in Done' /\ Len(taken'[c]) = sent'[c]
  BY DEF BeginsWithFirst
<1>t. TypeOK /\ PendingMatchesWaiter /\ Bookkeeping /\ c \in Calls /\ Lane(c) /\ Done \subseteq Done'
  BY GateAssumption, DoneStays DEF IInv, ChunkLanes
<1>q. queue[c] \in Seq(Frames) /\ inbox \in Seq(Frames) /\ sent[c] \in Nat
  BY <1>t, GateAssumption DEF TypeOK
<1>m. c \notin missed
  BY DEF Next, vars, Feed, Peer, PeerDefer, PeerAnswer, PeerStartStream, PeerChunk,
         PeerEndStream, callerVars, Caller, SendCall, SendFails, RequestAck, Take, Timeout, Iterate,
         Discard, Resume, Collect, Cancel
<1>b. /\ Counted(taken[c])
      /\ (caller[c] \in Unfinished /\ taken[c] = <<>> /\ sent[c] # 0) => InTransit(c, 1)
      /\ caller[c] = "returned" => c \in Done /\ Len(taken[c]) = sent[c]
  BY <1>m DEF BeginsWithFirst
<1>1. CASE UNCHANGED vars
  BY <1>1, <1>b DEF vars, InTransit, Done
<1>2. CASE Feed
  <2> DEFINE f == Head(inbox)
  <2>1. /\ f \in Frames /\ inbox # <<>> /\ inbox' = Tail(inbox)
        /\ UNCHANGED <<caller, peer, sent, taken>>
    BY <1>2, <1>q, HeadTailProperties DEF Feed
  <2>2. ASSUME caller[c] \in Unfinished, InTransit(c, 1) PROVE InTransit(c, 1)'
    <3>1. CASE IsChunk(f, c)
      <4>1. queue'[c] = Append(queue[c], f)
        BY <1>2, <2>2, <3>1, <1>t, FeedKeepsFrame DEF IsChunk
      <4>2. QED
        BY <4>1, <2>1, <2>2, <1>q, AppendHolds, TailHolds DEF InTransit
    <3>2. CASE ~IsChunk(f, c)
      <4>1. queue'[c] = queue[c] \/ queue'[c] = Append(queue[c], f)
        BY <1>2, <1>t DEF Feed, Put, TypeOK
      <4>2. Holds(queue[c], c, 1) => Holds(queue'[c], c, 1)
        <5>1. CASE queue'[c] = queue[c]
          BY <5>1
        <5>2. CASE queue'[c] = Append(queue[c], f)
          BY <5>2, <2>1, <1>q, AppendHolds
        <5>3. QED
          BY <4>1, <5>1, <5>2
      <4>3. Holds(inbox, c, 1) => Holds(inbox', c, 1)
        BY <3>2, <2>1, <1>q, TailHolds
      <4>4. QED
        BY <4>2, <4>3, <2>2 DEF InTransit
    <3>3. QED
      BY <3>1, <3>2
  <2>3. QED
    BY <2>1, <2>2, <1>b DEF Done
<1>3. ASSUME NEW d \in Calls, Peer(d)
      PROVE  /\ Counted(taken'[c])
             /\ (caller'[c] \in Unfinished /\ taken'[c] = <<>> /\ sent'[c] # 0) => InTransit(c, 1)'
             /\ caller'[c] = "returned" => c \in Done' /\ Len(taken'[c]) = sent'[c]
  <2>1. UNCHANGED <<caller, taken, queue>>
    BY <1>3 DEF Peer, PeerDefer, PeerAnswer, PeerStartStream, PeerChunk, PeerEndStream,
                callerVars
  <2>2. ASSUME NEW m \in Frames, Push(m), sent'[c] = sent[c] \/ (sent[c] # 0 /\ caller[c] # "returned")
                                            \/ (IsChunk(m, c) /\ m.n = 1 /\ caller[c] # "returned")
        PROVE  /\ (caller'[c] \in Unfinished /\ taken'[c] = <<>> /\ sent'[c] # 0) => InTransit(c, 1)'
               /\ caller'[c] = "returned" => c \in Done' /\ Len(taken'[c]) = sent'[c]
    <3>1. Holds(inbox', c, 1) <=> Holds(inbox, c, 1) \/ (IsChunk(m, c) /\ m.n = 1)
      BY <2>2, <1>q, AppendHolds DEF Push
    <3>2. InTransit(c, 1) \/ (IsChunk(m, c) /\ m.n = 1) => InTransit(c, 1)'
      BY <3>1, <2>1 DEF InTransit
    <3>3. QED
      BY <3>2, <2>1, <2>2, <1>b, <1>t
  <2>3. CASE PeerChunk(d)
    <3>1. sent[d] + 1 \in 0 .. MaxChunks /\ sent[d] \in Nat
      BY <2>3, <1>t, GateAssumption DEF PeerChunk, TypeOK
    <3> DEFINE m == Msg(d, "CHUNK", sent[d] + 1)
    <3>2. m \in Frames /\ Push(m) /\ (IsChunk(m, c) <=> c = d) /\ m.n = sent[d] + 1
      BY <2>3, <3>1, MsgFrame DEF PeerChunk, Kinds
    <3>3. CASE d # c
      <4>1. sent'[c] = sent[c]
        BY <2>3, <3>3, <1>t DEF PeerChunk, TypeOK
      <4>2. QED
        BY <4>1, <3>2, <2>1, <2>2, <1>b
    <3>4. CASE d = c
      <4>1. caller[c] # "returned"
        BY <2>3, <3>4, <1>b DEF PeerChunk, Done
      <4>2. QED
        BY <4>1, <3>1, <3>2, <3>4, <2>1, <2>2, <1>b
    <3>5. QED
      BY <3>3, <3>4
  <2>4. CASE ~PeerChunk(d)
    <3>1. /\ UNCHANGED sent
          /\ \E e \in Calls, k \in Kinds : Push(Msg(e, k, 0))
      BY <1>3, <2>4
      DEF Peer, PeerDefer, PeerAnswer, PeerStartStream, PeerEndStream, Kinds
    <3>2. \E m \in Frames : Push(m)
      BY <3>1, MsgFrame, GateAssumption
    <3>3. QED
      BY <3>1, <3>2, <2>1, <2>2, <1>b
  <2>5. QED
    BY <2>3, <2>4
<1>4. ASSUME NEW d \in Calls, Caller(d)
      PROVE  /\ Counted(taken'[c])
             /\ (caller'[c] \in Unfinished /\ taken'[c] = <<>> /\ sent'[c] # 0) => InTransit(c, 1)'
             /\ caller'[c] = "returned" => c \in Done' /\ Len(taken'[c]) = sent'[c]
  <2>0. UNCHANGED <<inbox, sent>>
    BY <1>4 DEF Caller, SendCall, SendFails, RequestAck, Take, Timeout, Iterate, Discard, Resume, Collect, Cancel
  <2>1. CASE d = c /\ Take(c)
    BY <2>1, <1>m, TakeCounts
  <2>2. CASE d = c /\ (Timeout(c) \/ Collect(c) \/ Cancel(c) \/ SendFails(c))
    <3>1. taken' = taken /\ caller'[c] \notin Unfinished \cup {"returned"}
      BY <2>2, <1>t DEF Timeout, Collect, Cancel, SendFails, TypeOK, Unfinished, Registered
    <3>2. QED
      BY <3>1, <1>b
  <2>3. CASE d = c /\ (RequestAck(c) \/ Iterate(c) \/ Discard(c) \/ Resume(c))
    <3>1. taken' = taken /\ queue' = queue /\ caller[c] \in Unfinished /\ caller'[c] \in Unfinished
      BY <2>3, <1>t DEF RequestAck, Iterate, Discard, Resume, TypeOK, Unfinished, Registered
    <3>2. QED
      BY <2>0, <3>1, <1>b DEF Unfinished, Registered, InTransit
  <2>4. CASE d = c /\ SendCall(c)
    <3>1. taken' = taken /\ caller'[c] = "sending" /\ sent[c] = 0
      BY <2>4, <1>t DEF SendCall, TypeOK, NothingSentYet
    <3>2. QED
      BY <2>0, <3>1, <1>b
  <2>5. CASE d # c
    <3>1. taken'[c] = taken[c] /\ queue'[c] = queue[c] /\ caller'[c] = caller[c]
      BY <1>4, <2>5, <1>t
      DEF Caller, SendCall, SendFails, RequestAck, Take, Timeout, Iterate, Discard, Resume, Collect, Cancel, Forget, TypeOK
    <3>2. QED
      BY <2>0, <3>1, <1>b, <1>t DEF InTransit
  <2>6. QED
    BY <1>4, <2>1, <2>2, <2>3, <2>4, <2>5 DEF Caller
<1>5. QED
  BY <1>1, <1>2, <1>3, <1>4 DEF Next

\* The loop over a stream that ends normally was given every value, in order,
\* unless frames of it came before it was registered.
THEOREM StreamsAreComplete == Spec => []EndedStreamIsComplete
<1>1. Init => ClosingLast /\ EndsAreLast /\ NothingSentYet /\ BeginsWithFirst
  <2> SUFFICES ASSUME Init PROVE ClosingLast /\ EndsAreLast /\ NothingSentYet /\ BeginsWithFirst
    OBVIOUS
  <2>1. ClosingLast /\ EndsAreLast /\ NothingSentYet
    BY EmptyEos DEF Init, ClosingLast, EndsAreLast, NothingSentYet
  <2>2. Counted(<<>>)
    BY DEF Counted
  <2>3. ASSUME NEW c \in Streams
        PROVE  taken[c] = <<>> /\ sent[c] = 0 /\ caller[c] # "returned"
    BY GateAssumption DEF Init
  <2>4. QED
    BY <2>1, <2>2, <2>3 DEF BeginsWithFirst
<1>2. Spec => []ClosingLast
  BY <1>1, Invariance, ClosingStep, PTL DEF Spec
<1>3. Spec => []EndsAreLast
  BY <1>1, <1>2, Invariance, EndsStayLast, PTL DEF Spec
<1>4. Spec => []NothingSentYet
  BY <1>1, Invariance, NothingSentStep, PTL DEF Spec
<1>5. Spec => []BeginsWithFirst
  BY <1>1, <1>2, <1>3, <1>4, Invariance, BeginStep, PTL DEF Spec
<1>6. TypeOK /\ LoopGets /\ BeginsWithFirst => EndedStreamIsComplete
  <2> SUFFICES ASSUME TypeOK, LoopGets, BeginsWithFirst,
                      NEW c \in Streams, c \notin missed, caller[c] = "returned"
               PROVE  /\ \A i \in 1 .. Len(got[c]) - 1 : got[c][i] < got[c][i + 1]
                      /\ {got[c][i] : i \in 1 .. Len(got[c])} = ValuesOf(c) \cap 1 .. sent[c]
    BY DEF EndedStreamIsComplete
  <2>1. c \in Calls /\ InLine(taken[c], got[c], ValuesOf(c))
    BY GateAssumption DEF LoopGets, Loop
  <2>2. Counted(taken[c]) /\ Len(taken[c]) = sent[c]
    BY DEF BeginsWithFirst
  <2>3. \A x : Has(taken[c], x) <=> x \in 1 .. sent[c]
    BY <2>2 DEF Counted, Has
  <2>4. \A x : Has(got[c], x) <=> x \in ValuesOf(c) /\ x \in 1 .. sent[c]
    BY <2>1, <2>3 DEF InLine
  <2>5. {got[c][i] : i \in 1 .. Len(got[c])} = ValuesOf(c) \cap 1 .. sent[c]
    BY <2>4 DEF Has
  <2>6. \A i \in 1 .. Len(got[c]) - 1 : got[c][i] < got[c][i + 1]
    BY <2>1 DEF InLine
  <2>7. QED
    BY <2>5, <2>6
<1>7. QED
  BY <1>5, <1>6, LoopInvariance, TypeCorrect, PTL
=============================================================================
