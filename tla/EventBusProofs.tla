--------------------------- MODULE EventBusProofs ---------------------------
(***************************************************************************)
(* Proofs about what a node does with a request: the error frames that one *)
(* failure can make (EventBus), and the arguments of its handler, whatever *)
(* the payload is wrapped under (Binding).                                 *)
(***************************************************************************)
EXTENDS EventBus, Binding, ListsProofs, SequenceTheorems, TLAPS

-----------------------------------------------------------------------------
(* The invariant. A frame on its way to node n tells what came before it:   *)
(* the first ERR of a failure only that something failed, the second that   *)
(* the node it comes from sends such errors back, and any later one that    *)
(* the node it goes to had done so already.                                 *)

Bears(n, f) ==
    /\ f.kind # "ERR" <=> f.hop = 0
    /\ f.hop >= 2 => Returns(Other[n], f)
    /\ f.hop > 2 => Returns(n, f)

Chain == \A n \in Nodes : \A k \in 1 .. Len(link[n]) : Bears(n, link[n][k])

IInv == TypeOK /\ Chain

-----------------------------------------------------------------------------
(* Sequences. *)

LEMMA AppendKeeps ==
  ASSUME NEW S, NEW s \in Seq(S), NEW e \in S, NEW k \in 1 .. Len(Append(s, e))
  PROVE  \/ k \in 1 .. Len(s) /\ Append(s, e)[k] = s[k]
         \/ Append(s, e)[k] = e
  OBVIOUS

LEMMA TailKeeps ==
  ASSUME NEW S, NEW s \in Seq(S), s # <<>>, NEW k \in 1 .. Len(Tail(s))
  PROVE  k + 1 \in 1 .. Len(s) /\ Tail(s)[k] = s[k + 1]
  OBVIOUS

LEMMA HeadIsFirst ==
  ASSUME NEW S, NEW s \in Seq(S), s # <<>>
  PROVE  1 \in 1 .. Len(s) /\ Head(s) = s[1] /\ Head(s) \in S /\ Tail(s) \in Seq(S)
  OBVIOUS

-----------------------------------------------------------------------------
(* What taking a frame and writing one do to the invariant.                 *)

\* The tables are fixed: it is enough that each frame of the next state bears
\* its marks by the tables of this one.
LEMMA ChainByFrames ==
  ASSUME UNCHANGED fixed,
         \A m \in Nodes : \A k \in 1 .. Len(link'[m]) :
             \E f \in Frames : link'[m][k] = f /\ Bears(m, f)
  PROVE  Chain'
<1>1. ASSUME NEW m \in Nodes, NEW k \in 1 .. Len(link'[m]) PROVE Bears(m, link[m][k])'
  <2>1. PICK f \in Frames : link'[m][k] = f /\ Bears(m, f)
    BY <1>1
  <2>2. Bears(m, f)'
    BY <2>1 DEF Bears, Returns, Raises, fixed
  <2>3. QED
    BY <2>1, <2>2 DEF Bears, Returns, Raises
<1>2. QED
  BY <1>1 DEF Chain

\* A frame of this state, in the form ChainByFrames asks for.
LEMMA OldFrames ==
  ASSUME IInv, NEW m \in Nodes, NEW k \in 1 .. Len(link[m])
  PROVE  link[m][k] \in Frames /\ Bears(m, link[m][k])
  BY DEF IInv, TypeOK, Chain

LEMMA SilenceKeeps ==
  ASSUME IInv, UNCHANGED fixed, NEW n \in Nodes, link[n] # <<>>, Silence(n)
  PROVE  link' \in [Nodes -> Seq(Frames)] /\ Chain'
<1>1. link \in [Nodes -> Seq(Frames)] /\ link[n] \in Seq(Frames)
  BY DEF IInv, TypeOK
<1>2. Tail(link[n]) \in Seq(Frames)
  BY <1>1, HeadIsFirst
<1>3. link' \in [Nodes -> Seq(Frames)]
  BY <1>1, <1>2 DEF Silence
<1>4. ASSUME NEW m \in Nodes, NEW k \in 1 .. Len(link'[m])
      PROVE  \E f \in Frames : link'[m][k] = f /\ Bears(m, f)
  <2>1. CASE m = n
    <3>1. link'[m] = Tail(link[n])
      BY <1>1, <2>1 DEF Silence
    <3>2. k + 1 \in 1 .. Len(link[n]) /\ link'[m][k] = link[n][k + 1]
      BY <1>1, <1>4, <3>1, TailKeeps
    <3>3. QED
      BY <2>1, <3>2, OldFrames
  <2>2. CASE m # n
    BY <1>1, <1>4, <2>2, OldFrames DEF Silence
  <2>3. QED
    BY <2>1, <2>2
<1>5. QED
  BY <1>3, <1>4, ChainByFrames

\* A frame that bears its marks may be written to the other node.
LEMMA BeginKeeps ==
  ASSUME IInv, EventBusAssumption, UNCHANGED fixed, NEW n \in Nodes, NEW g \in Frames,
         Bears(Other[n], g),
         link' = [link EXCEPT ![Other[n]] = Append(@, g)]
  PROVE  link' \in [Nodes -> Seq(Frames)] /\ Chain'
<1>1. link \in [Nodes -> Seq(Frames)] /\ Other[n] \in Nodes
  BY DEF IInv, TypeOK, EventBusAssumption
<1>2. Append(link[Other[n]], g) \in Seq(Frames)
  BY <1>1
<1>3. link' \in [Nodes -> Seq(Frames)]
  BY <1>1, <1>2
<1>4. ASSUME NEW m \in Nodes, NEW k \in 1 .. Len(link'[m])
      PROVE  \E f \in Frames : link'[m][k] = f /\ Bears(m, f)
  <2>1. CASE m = Other[n]
    <3>1. link'[m] = Append(link[m], g)
      BY <1>1, <2>1
    <3>2. \/ k \in 1 .. Len(link[m]) /\ link'[m][k] = link[m][k]
          \/ link'[m][k] = g
      BY <1>1, <1>4, <3>1, AppendKeeps
    <3>3. QED
      BY <2>1, <3>2, OldFrames
  <2>2. CASE m # Other[n]
    BY <1>1, <1>4, <2>2, OldFrames
  <2>3. QED
    BY <2>1, <2>2
<1>5. QED
  BY <1>3, <1>4, ChainByFrames

LEMMA ReplyKeeps ==
  ASSUME IInv, EventBusAssumption, UNCHANGED fixed, NEW n \in Nodes, NEW g \in Frames,
         link[n] # <<>>, Bears(Other[n], g), Reply(n, g)
  PROVE  link' \in [Nodes -> Seq(Frames)] /\ Chain'
<1>1. /\ link \in [Nodes -> Seq(Frames)] /\ Other[n] \in Nodes /\ Other[n] # n
      /\ link[n] \in Seq(Frames)
  BY DEF IInv, TypeOK, EventBusAssumption
<1>2. Append(link[Other[n]], g) \in Seq(Frames) /\ Tail(link[n]) \in Seq(Frames)
  BY <1>1, HeadIsFirst
<1>3. link' \in [Nodes -> Seq(Frames)]
  BY <1>1, <1>2 DEF Reply
<1>4. ASSUME NEW m \in Nodes, NEW k \in 1 .. Len(link'[m])
      PROVE  \E f \in Frames : link'[m][k] = f /\ Bears(m, f)
  <2>1. CASE m = Other[n]
    <3>1. link'[m] = Append(link[m], g)
      BY <1>1, <2>1 DEF Reply
    <3>2. \/ k \in 1 .. Len(link[m]) /\ link'[m][k] = link[m][k]
          \/ link'[m][k] = g
      BY <1>1, <1>4, <3>1, AppendKeeps
    <3>3. QED
      BY <2>1, <3>2, OldFrames
  <2>2. CASE m = n
    <3>1. link'[m] = Tail(link[n])
      BY <1>1, <2>2 DEF Reply
    <3>2. k + 1 \in 1 .. Len(link[n]) /\ link'[m][k] = link[n][k + 1]
      BY <1>1, <1>4, <3>1, TailKeeps
    <3>3. QED
      BY <2>2, <3>2, OldFrames
  <2>3. CASE m # Other[n] /\ m # n
    BY <1>1, <1>4, <2>3, OldFrames DEF Reply
  <2>4. QED
    BY <2>1, <2>2, <2>3
<1>5. QED
  BY <1>3, <1>4, ChainByFrames

-----------------------------------------------------------------------------
(* The handlers. *)

\* The ERR that answers f is a frame, one hop further on.
LEMMA RefusalType ==
  ASSUME EventBusAssumption, NEW f \in Frames
  PROVE  /\ Refusal(f) \in Frames
         /\ Refusal(f).kind = "ERR" /\ Refusal(f).id = f.id /\ Refusal(f).corr = f.corr
         /\ Refusal(f).hop = Up(f.hop) /\ Up(f.hop) >= 1
         /\ f.hop = 0 => Up(f.hop) = 1
<1>1. /\ f.hop \in 0 .. MaxHops /\ f.id \in Ids /\ f.about \in Exchanges
      /\ f.corr \in Exchanges \cup {NoId} /\ MaxHops \in Nat /\ MaxHops > 2
  BY DEF Frames, EventBusAssumption
<1>2. Up(f.hop) \in 0 .. MaxHops /\ Up(f.hop) >= 1 /\ (f.hop = 0 => Up(f.hop) = 1)
  BY <1>1 DEF Up
<1>3. "ERR" \in Kinds
  BY DEF Kinds
<1>4. QED
  BY <1>1, <1>2, <1>3 DEF Refusal, Frames

\* A frame that is no ERR starts a failure and is refused by the first ERR; an
\* ERR is answered only by a node that sends such errors back.
LEMMA RefusalBears ==
  ASSUME EventBusAssumption, NEW n \in Nodes, NEW f \in Frames, Bears(n, f),
         f.kind = "ERR" => Returns(n, f)
  PROVE  Bears(Other[n], Refusal(f))
<1> DEFINE g == Refusal(f)
<1>1. /\ g.kind = "ERR" /\ g.id = f.id /\ g.corr = f.corr /\ g.hop = Up(f.hop)
      /\ Up(f.hop) >= 1 /\ (f.hop = 0 => Up(f.hop) = 1)
  BY RefusalType
<1>2. Other[Other[n]] = n /\ f.hop \in Nat
  BY DEF EventBusAssumption, Frames
<1>3. \A m : Returns(m, g) = Returns(m, f)
  BY <1>1 DEF Returns
<1> HIDE DEF g
<1>4. CASE f.kind # "ERR"
  BY <1>1, <1>4 DEF Bears, g
<1>5. CASE f.kind = "ERR"
  <2>1. f.hop >= 1 /\ Returns(n, f)
    BY <1>2, <1>5 DEF Bears
  <2>2. Up(f.hop) > 2 => f.hop >= 2
    BY <1>2, <2>1 DEF Up
  <2>3. QED
    BY <1>1, <1>2, <1>3, <2>1, <2>2 DEF Bears, g
<1>6. QED
  BY <1>4, <1>5

\* An answer is a frame, and no ERR.
LEMMA AnswerBears ==
  ASSUME NEW n \in Nodes, NEW f \in Frames, Bears(n, f), f.kind # "ERR", NEW k \in Answers
  PROVE  [f EXCEPT !.kind = k] \in Frames /\ Bears(Other[n], [f EXCEPT !.kind = k])
<1>1. f.hop = 0 /\ k \in Kinds \ {"ERR"}
  BY DEF Bears, Answers, Kinds
<1>2. [f EXCEPT !.kind = k] \in Frames
  BY <1>1 DEF Frames
<1>3. QED
  BY <1>1, <1>2 DEF Bears, Frames

LEMMA RunKeeps ==
  ASSUME IInv, EventBusAssumption, NEW n \in Nodes, Run(n)
  PROVE  IInv'
<1> DEFINE f == Head(link[n])
<1>1. link[n] # <<>> /\ link[n] \in Seq(Frames) /\ UNCHANGED fixed /\ UNCHANGED begun
  BY DEF IInv, TypeOK, Run
<1>2. f \in Frames /\ Bears(n, f)
  <2>1. 1 \in 1 .. Len(link[n]) /\ f = link[n][1]
    BY <1>1, HeadIsFirst
  <2>2. QED
    BY <2>1, OldFrames
<1>3. /\ f.kind \in Kinds /\ f.id \in Ids /\ f.corr \in Exchanges \cup {NoId}
      /\ f.about \in Exchanges /\ f.hop \in 0 .. MaxHops
  BY <1>2 DEF Frames
<1>4. link' \in [Nodes -> Seq(Frames)] /\ Chain'
  <2>1. CASE Silence(n)
    BY <1>1, <2>1, SilenceKeeps
  <2>2. CASE (f.kind = "ERR" => Returns(n, f)) /\ Reply(n, Refusal(f))
    BY <1>1, <1>2, <2>2, RefusalType, RefusalBears, ReplyKeeps
  <2>3. ASSUME NEW k \in Answers, f.kind # "ERR", Reply(n, [f EXCEPT !.kind = k])
        PROVE  link' \in [Nodes -> Seq(Frames)] /\ Chain'
    <3> HIDE DEF f
    <3>1. [f EXCEPT !.kind = k] \in Frames /\ Bears(Other[n], [f EXCEPT !.kind = k])
      BY <1>2, <2>3, AnswerBears
    <3>2. QED
      BY <1>1, <2>3, <3>1, ReplyKeeps
  <2>4. "ACK" \in Answers /\ "STREAM" \in Answers
    BY DEF Answers
  <2>5. \/ f.kind \notin Answers /\ RouteMissing(n, f)
        \/ HandleCall(n, f) \/ HandleEmit(n, f) \/ HandleErr(n, f) \/ HandleAck(n, f)
    BY DEF Run
  <2> HIDE DEF f
  <2>6. QED
    BY <2>1, <2>2, <2>3, <2>4, <2>5
    DEF RouteMissing, HandleCall, HandleEmit, HandleErr, HandleAck, Raises, Returns
<1>5. outcome' \in [Exchanges -> {"none", "waiting", "value", "error", "timeout"}]
  <2>1. Feed(n, f)
    BY DEF Run
  <2>2. QED
    BY <2>1 DEF IInv, TypeOK, Feed
<1>6. QED
  BY <1>1, <1>4, <1>5 DEF IInv, TypeOK, fixed

LEMMA UsersKeep ==
  ASSUME IInv, EventBusAssumption, NEW n \in Nodes, NEW x \in Exchanges, NEW i \in Ids,
         (\E use \in {"send", "request_stream"} : Call(n, x, use, i)) \/ Emit(n, x, i) \/ Report(n, x, i)
  PROVE  IInv'
<1> DEFINE Written(g) == link' = [link EXCEPT ![Other[n]] = Append(@, g)]
<1>1. MaxHops \in Nat /\ MaxHops > 2 /\ Other[n] \in Nodes
  BY DEF EventBusAssumption
<1>2. UNCHANGED fixed
  BY DEF Call, Emit, Report, Begin
<1>3. \E g \in Frames : Bears(Other[n], g) /\ Written(g)
  <2> DEFINE G(k, c, h) == [kind |-> k, id |-> i, corr |-> c, about |-> x, hop |-> h]
  <2>1. /\ G("CALL", x, 0) \in Frames /\ G("EMIT", NoId, 0) \in Frames
        /\ G("ERR", NoId, 1) \in Frames
    BY <1>1 DEF Frames, Kinds
  <2>2. /\ Bears(Other[n], G("CALL", x, 0)) /\ Bears(Other[n], G("EMIT", NoId, 0))
        /\ Bears(Other[n], G("ERR", NoId, 1))
    BY DEF Bears
  <2>3. Written(G("CALL", x, 0)) \/ Written(G("EMIT", NoId, 0)) \/ Written(G("ERR", NoId, 1))
    BY DEF Call, Emit, Report, Begin
  <2>4. QED
    BY <2>1, <2>2, <2>3
<1>4. link' \in [Nodes -> Seq(Frames)] /\ Chain'
  BY <1>2, <1>3, BeginKeeps
<1>5. begun' \in [Exchanges -> [kind : Uses, id : Ids, by : Nodes] \cup {NotYet}]
  <2>1. \E k \in Uses : begun' = [begun EXCEPT ![x] = [kind |-> k, id |-> i, by |-> n]]
    BY DEF Call, Emit, Report, Begin, Uses
  <2>2. QED
    BY <2>1 DEF IInv, TypeOK
<1>6. outcome' \in [Exchanges -> {"none", "waiting", "value", "error", "timeout"}]
  BY DEF IInv, TypeOK, Call, Emit, Report
<1>7. QED
  BY <1>2, <1>4, <1>5, <1>6 DEF IInv, TypeOK, fixed

-----------------------------------------------------------------------------
(* Theorems. *)

LEMMA Invariance == Spec => []IInv
<1> USE EventBusAssumption
<1>1. Init => IInv
  <2>1. SUFFICES ASSUME Init PROVE IInv
    OBVIOUS
  <2>2. <<>> \in Seq(Frames)
    OBVIOUS
  <2>3. TypeOK
    BY <2>1, <2>2 DEF Init, TypeOK
  <2>4. Chain
    BY <2>1 DEF Init, Chain
  <2>5. QED
    BY <2>3, <2>4 DEF IInv
<1>2. IInv /\ [Next]_vars => IInv'
  <2>1. SUFFICES ASSUME IInv, [Next]_vars PROVE IInv'
    OBVIOUS
  <2>2. CASE Users
    BY <2>1, <2>2, UsersKeep DEF Users
  <2>3. ASSUME NEW x \in Exchanges, Timeout(x) PROVE IInv'
    <3>1. outcome' \in [Exchanges -> {"none", "waiting", "value", "error", "timeout"}]
      BY <2>1, <2>3 DEF Timeout, IInv, TypeOK
    <3>2. UNCHANGED <<routes, handlers, begun, link>>
      BY <2>3 DEF Timeout, fixed
    <3>3. QED
      BY <2>1, <3>1, <3>2 DEF IInv, TypeOK, Chain, Bears, Returns, Raises
  <2>4. ASSUME NEW n \in Nodes, Run(n) PROVE IInv'
    BY <2>1, <2>4, RunKeeps
  <2>5. CASE UNCHANGED vars
    BY <2>1, <2>5 DEF vars, IInv, TypeOK, Chain, Bears, Returns, Raises
  <2>6. QED
    BY <2>1, <2>2, <2>3, <2>4, <2>5 DEF Next
<1>3. QED
  BY <1>1, <1>2, PTL DEF Spec

\* Every variable of the two buses keeps its type, whatever tables and handlers
\* the nodes have (EventBus).
THEOREM TypeCorrect == Spec => []TypeOK
<1>1. IInv => TypeOK
  BY DEF IInv
<1>2. QED
  BY <1>1, Invariance, PTL

\* One failure makes at most two ERR frames (emit's error paths), for any tables,
\* handlers and number of exchanges, unless both nodes send back an error of
\* that id and call.
THEOREM ErrorsStayBounded == Spec => []ErrorsAreBounded
<1>1. IInv => ErrorsAreBounded
  <2>1. SUFFICES ASSUME IInv, NEW n \in Nodes, NEW k \in 1 .. Len(link[n]), link[n][k].hop > 2
                 PROVE  Returns(n, link[n][k]) /\ Returns(Other[n], link[n][k])
    BY DEF ErrorsAreBounded
  <2>2. link[n][k].hop \in Nat /\ Bears(n, link[n][k])
    BY <2>1, OldFrames, EventBusAssumption DEF Frames
  <2>3. QED
    BY <2>1, <2>2 DEF Bears
<1>2. QED
  BY <1>1, Invariance, PTL

-----------------------------------------------------------------------------
(* The arguments of a handler.                                               *)

\* What is wrapped is the one dictionary that is found under the name of an envelope.
LEMMA WrappedIsFound ==
    ASSUME NEW i \in 1 .. Len(Envelopes), NEW d
    PROVE  LET p == [n \in {Envelopes[i]} |-> Dict(d)]
           IN  Len(Maps(p)) = 2 /\ Maps(p)[1] = p /\ Maps(p)[2] = d
<1> DEFINE e == Envelopes[i]
           p == [n \in {e} |-> Dict(d)]
           places == {k \in 1 .. Len(Envelopes) : Envelopes[k] \in DOMAIN p /\ IsDict(p[Envelopes[k]])}
<1>1. DOMAIN p = {e} /\ p[e] = Dict(d)
  OBVIOUS
<1>2. IsDict(Dict(d)) /\ Dict(d).items = d
  BY DEF IsDict, Dict
<1>3. Envelopes \in Seq({"data", "payload", "body", "params"}) /\ Len(Envelopes) = 4
  BY DEF Envelopes
<1>4. \A k \in 1 .. Len(Envelopes) : Envelopes[k] = e => k = i
  <2>1. /\ Envelopes[1] = "data" /\ Envelopes[2] = "payload"
        /\ Envelopes[3] = "body" /\ Envelopes[4] = "params"
    BY DEF Envelopes
  <2>2. \A k, l \in 1 .. 4 : Envelopes[k] = Envelopes[l] => k = l
    BY <2>1
  <2> QED
    BY <1>3, <2>2
<1> HIDE DEF p
<1>5. places = {i}
  BY <1>1, <1>2, <1>4
<1>6. At(Envelopes, places) = <<e>>
  BY <1>3, <1>5, AtOne
<1>7. Nested(p) = [k \in 1 .. Len(<<e>>) |-> p[<<e>>[k]].items]
  BY <1>6 DEF Nested
<1>8. Nested(p) = <<d>>
  <2>1. Len(<<e>>) = 1 /\ <<e>>[1] = e
    OBVIOUS
  <2>2. \A k \in 1 .. 1 : p[<<e>>[k]].items = d
    BY <1>1, <1>2, <2>1
  <2>3. Nested(p) = [k \in 1 .. 1 |-> d]
    BY <1>7, <2>1, <2>2
  <2> QED
    BY <2>3
<1>9. Maps(p) = <<p>> \o <<d>>
  BY <1>1, <1>8 DEF Maps
<1>10. Len(Maps(p)) = 2 /\ Maps(p)[1] = p /\ Maps(p)[2] = d
  <2>1. <<p>> \in Seq({p, d}) /\ <<d>> \in Seq({p, d}) /\ Len(<<p>>) = 1 /\ Len(<<d>>) = 1
    OBVIOUS
  <2>2. Len(Maps(p)) = 2
    BY <1>9, <2>1
  <2>3. Maps(p)[1] = p
    BY <1>9, <2>1
  <2>4. Maps(p)[2] = d
    <3>1. \A k \in 1 .. 1 + 1 : (<<p>> \o <<d>>)[k] = IF k <= 1 THEN <<p>>[k] ELSE <<d>>[k - 1]
      <4> HIDE DEF p
      <4> QED
        BY <2>1, ConcatProperties
    <3>2. (<<p>> \o <<d>>)[2] = <<d>>[2 - 1]
      BY <3>1
    <3>3. <<d>>[2 - 1] = d
      OBVIOUS
    <3> QED
      BY <1>9, <3>2, <3>3
  <2> QED
    BY <2>2, <2>3, <2>4
<1> QED
  BY <1>10 DEF p

\* A content that wraps nothing is looked through alone.
LEMMA ContentIsFound ==
    ASSUME NEW d, Nested(d) = <<>>
    PROVE  IF DOMAIN d = {} THEN Len(Maps(d)) = 0 ELSE Len(Maps(d)) = 1 /\ Maps(d)[1] = d
<1>1. CASE DOMAIN d = {}
  BY <1>1 DEF Maps
<1>2. CASE DOMAIN d # {}
  <2>1. Maps(d) = <<d>> \o <<>>
    BY <1>2 DEF Maps
  <2> QED
    BY <1>2, <2>1
<1> QED
  BY <1>1, <1>2

\* Wrapped or not, every argument is the same.
LEMMA WrappingIsTransparent ==
    ASSUME envelope \in {NoEnvelope} \cup {Envelopes[k] : k \in 1 .. Len(Envelopes)}, IsPlainContent,
           NEW k \in 1 .. Len(signature)
    PROVE  Value(Received, k) = Value(content, k)
<1>1. CASE envelope = NoEnvelope
  BY <1>1 DEF Received
<1>2. CASE envelope # NoEnvelope
  <2> DEFINE p == Received
             d == content
  <2>1. PICK i \in 1 .. Len(Envelopes) : envelope = Envelopes[i]
    BY <1>2
  <2>2. p = [n \in {envelope} |-> Dict(d)] /\ DOMAIN p = {envelope}
    BY <1>2 DEF Received
  <2>3. Len(Maps(p)) = 2 /\ Maps(p)[1] = p /\ Maps(p)[2] = d
    BY ZenonT(60), <2>1, <2>2, WrappedIsFound
  <2>4. IF DOMAIN d = {} THEN Len(Maps(d)) = 0 ELSE Len(Maps(d)) = 1 /\ Maps(d)[1] = d
    BY ContentIsFound DEF IsPlainContent
  <2>5. envelope \notin Fields /\ signature[k].name # envelope
    BY DEF IsPlainContent
  <2> HIDE DEF p, d
  <2>6. Source(p) = d /\ Source(d) = d
    BY <2>2, <2>3, <2>4, <2>5 DEF Source
  <2>7. ASSUME NEW name, name # envelope
        PROVE  /\ Holders(p, name) # {} <=> Holders(d, name) # {}
               /\ Holders(p, name) # {} => LookedUp(p, name) = LookedUp(d, name)
    <3>1. Holders(p, name) = IF name \in DOMAIN d THEN {2} ELSE {}
      <4>1. name \notin DOMAIN Maps(p)[1]
        BY <2>2, <2>3, <2>7
      <4>2. 1 .. Len(Maps(p)) = {1, 2}
        BY <2>3
      <4> QED
        BY <2>3, <4>1, <4>2 DEF Holders
    <3>2. Holders(d, name) = IF name \in DOMAIN d THEN {1} ELSE {}
      <4>1. CASE DOMAIN d = {}
        BY <2>4, <4>1 DEF Holders
      <4>2. CASE DOMAIN d # {}
        <5>0. 1 .. 1 = {1}
          OBVIOUS
        <5>1. 1 .. Len(Maps(d)) = {1} /\ Maps(d)[1] = d
          BY <2>4, <4>2, <5>0
        <5> QED
          BY <5>1 DEF Holders
      <4> QED
        BY <4>1, <4>2
    <3>3. ASSUME name \in DOMAIN d PROVE LookedUp(p, name) = d[name] /\ LookedUp(d, name) = d[name]
      <4>1. Holders(p, name) = {2} /\ Holders(d, name) = {1}
        BY <3>1, <3>2, <3>3
      <4>2. Maps(d)[1] = d
        BY <2>4, <3>3
      <4>3. (CHOOSE j \in {2} : \A l \in {2} : j <= l) = 2 /\ (CHOOSE j \in {1} : \A l \in {1} : j <= l) = 1
        OBVIOUS
      <4> QED
        BY <2>3, <4>1, <4>2, <4>3 DEF LookedUp
    <3> QED
      BY <3>1, <3>2, <3>3
  <2>8. Argument(signature[k], p) = Argument(signature[k], d)
    BY <2>5, <2>7 DEF Argument
  <2> QED
    BY <2>6, <2>8 DEF Value, p, d
<1> QED
  BY <1>1, <1>2

\* The arguments so far are those of the frame, in the order of the parameters.
BindInv ==
    /\ signature \in Signatures
    /\ envelope \in {NoEnvelope} \cup {Envelopes[k] : k \in 1 .. Len(Envelopes)}
    /\ args \in Seq({Value(Received, k) : k \in 1 .. Len(signature)})
    /\ Len(args) <= Len(signature)
    /\ \A k \in 1 .. Len(args) : args[k] = Value(Received, k)
    /\ raised => Len(args) < Len(signature) /\ Value(Received, Len(args) + 1) = Failure

\* Initially there is no argument.
LEMMA InitBindInv == BindInit => BindInv
<1> SUFFICES ASSUME BindInit PROVE BindInv
  OBVIOUS
<1>1. args = <<>> /\ Len(args) = 0 /\ ~raised /\ signature \in Signatures /\ Len(signature) \in Nat
  BY BindingAssumption DEF BindInit
<1>2. args \in Seq({Value(Received, k) : k \in 1 .. Len(signature)})
  BY <1>1
<1>3. envelope \in {NoEnvelope} \cup {Envelopes[k] : k \in 1 .. Len(Envelopes)}
  BY DEF BindInit
<1> QED
  BY <1>1, <1>2, <1>3 DEF BindInv

\* A parameter more keeps the invariant.
LEMMA NextBindInv == BindInv /\ [BindNext]_binding => BindInv'
<1> SUFFICES ASSUME BindInv, [BindNext]_binding PROVE BindInv'
  OBVIOUS
<1> DEFINE V(k) == Value(Received, k)
           W(k) == Value(Received, k)'
           n == Len(args)
           T == {V(k) : k \in 1 .. Len(signature)}
<1>1. signature' = signature /\ content' = content /\ envelope' = envelope
  BY DEF BindNext, BindArgument, binding
<1>2. \A k \in 1 .. Len(signature) : W(k) = V(k)
  BY <1>1 DEF Value, IsSingleModel, Received
<1>3. /\ args \in Seq(T) /\ n <= Len(signature) /\ n \in Nat /\ Len(signature) \in Nat
      /\ \A k \in 1 .. n : args[k] = V(k)
      /\ raised => n < Len(signature) /\ V(n + 1) = Failure
  BY BindingAssumption DEF BindInv
<1>4. ASSUME /\ args' \in Seq(T) /\ Len(args') <= Len(signature)
             /\ \A k \in 1 .. Len(args') : args'[k] = V(k)
             /\ raised' => Len(args') < Len(signature) /\ V(Len(args') + 1) = Failure
      PROVE  BindInv'
  <2>1. {W(k) : k \in 1 .. Len(signature)} = T
    BY <1>2
  <2>2. Len(args') \in Nat
    BY <1>4
  <2>3. \A k \in 1 .. Len(args') : k \in 1 .. Len(signature)
    BY <1>3, <1>4, <2>2
  <2>4. \A k \in 1 .. Len(args') : args'[k] = W(k)
    BY <1>2, <1>4, <2>3
  <2>5. ASSUME NEW m \in Nat, m = Len(args'), raised' PROVE m < Len(signature) /\ W(m + 1) = Failure
    <3>1. m < Len(signature) /\ V(m + 1) = Failure
      BY <1>4, <2>5
    <3>2. m + 1 \in 1 .. Len(signature)
      BY <1>3, <3>1
    <3> HIDE DEF V, W
    <3> QED
      BY <1>2, <3>1, <3>2
  <2> HIDE DEF T
  <2> QED
    BY <1>1, <1>4, <2>1, <2>2, <2>4, <2>5 DEF BindInv
<1>5. CASE BindArgument
  <2> DEFINE value == V(n + 1)
  <2>1. /\ ~raised /\ n < Len(signature)
        /\ args' = IF value = Failure THEN args ELSE Append(args, value)
        /\ raised' = (value = Failure)
    BY <1>5 DEF BindArgument
  <2>2. value \in T
    BY <1>3, <2>1
  <2> HIDE DEF V, T
  <2>3. CASE value = Failure
    BY <1>3, <1>4, <2>1, <2>3
  <2>4. CASE value # Failure
    <3>1. /\ args' \in Seq(T) /\ Len(args') = n + 1
          /\ \A k \in 1 .. n : args'[k] = args[k]
          /\ args'[n + 1] = value
      <4> HIDE DEF value
      <4> QED
        BY <1>3, <2>1, <2>2, <2>4, AppendProperties
    <3>2. \A k \in 1 .. n + 1 : args'[k] = V(k)
      <4> SUFFICES ASSUME NEW k \in 1 .. n + 1 PROVE args'[k] = V(k)
        OBVIOUS
      <4>1. CASE k = n + 1
        BY <3>1, <4>1
      <4>2. CASE k # n + 1
        <5>1. k \in 1 .. n
          BY <1>3, <4>2
        <5> QED
          BY <1>3, <3>1, <5>1
      <4> QED
        BY <4>1, <4>2
    <3>3. /\ args' \in Seq(T) /\ Len(args') <= Len(signature)
          /\ \A k \in 1 .. Len(args') : args'[k] = V(k)
          /\ ~raised'
      <4>1. ~raised'
        BY <2>1, <2>4
      <4>2. n + 1 <= Len(signature)
        BY <1>3, <2>1
      <4> QED
        BY <3>1, <3>2, <4>1, <4>2
    <3> QED
      BY <1>4, <3>3
  <2> QED
    BY <2>3, <2>4
<1>6. CASE UNCHANGED binding
  <2>1. args' = args /\ raised' = raised
    BY <1>6 DEF binding
  <2> QED
    BY <1>3, <1>4, <2>1
<1> QED
  BY <1>5, <1>6 DEF BindNext

\* The invariant of the binding holds in every reachable state.
THEOREM BindInvariance == BindSpec => []BindInv
  BY InitBindInv, NextBindInv, PTL DEF BindSpec

\* A handler gets the same arguments, and fails at the same one, whether its caller has
\* wrapped the payload under any of the envelopes or not, for every signature.
THEOREM EnvelopesAreTransparent == BindSpec => []EnvelopeIsTransparent
<1>1. BindInv => EnvelopeIsTransparent
  <2> SUFFICES ASSUME BindInv, IsPlainContent
               PROVE  /\ \A k \in 1 .. Len(args) : args[k] = Value(content, k)
                      /\ raised => Value(content, Len(args) + 1) = Failure
    BY DEF EnvelopeIsTransparent
  <2>1. Len(args) \in Nat /\ Len(signature) \in Nat /\ Len(args) <= Len(signature)
    BY BindingAssumption DEF BindInv
  <2>2. \A k \in 1 .. Len(signature) : Value(Received, k) = Value(content, k)
    BY WrappingIsTransparent DEF BindInv
  <2>3. \A k \in 1 .. Len(args) : k \in 1 .. Len(signature)
    BY <2>1
  <2>4. raised => Len(args) + 1 \in 1 .. Len(signature)
    BY <2>1 DEF BindInv
  <2> QED
    BY <2>2, <2>3, <2>4 DEF BindInv
<1> QED
  BY <1>1, BindInvariance, PTL
=============================================================================
