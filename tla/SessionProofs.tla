---------------------------- MODULE SessionProofs ----------------------------
(***************************************************************************)
(* Invariants of a connection, for any number of frames and whichever end  *)
(* is shut down: its types; nothing counts as authenticated before the     *)
(* strategy has allowed the client; a dead session is not left in the      *)
(* registry; and the receiver misses no frame but those an ERR took.       *)
(*                                                                         *)
(* The second is strengthened to what can make an end believe it is        *)
(* authenticated: a READY on the wire to the client, and a start that has  *)
(* been woken. allowed is never taken back, so only the steps taken before *)
(* it is set need a look.                                                  *)
(*                                                                         *)
(* For the last, what was delivered, what is queued and what is on the     *)
(* wire of an end is followed as one ascending run of numbers that has no  *)
(* gap as long as the end expects frames (Framed). A frame that comes when *)
(* none is expected is dropped; from then on the end must not deliver any, *)
(* which takes its flag, its session and the NONE in its queue into the    *)
(* invariant (Flagless, NoneQueued), and that a client is handed a single  *)
(* READY, before any frame (ReadyOnce, AuthOnce, Silence).                 *)
(***************************************************************************)
EXTENDS Session, ListsProofs

Phases == {"new", "sending", "waiting", "woken", "closing", "listening", "ended"}

Shape ==
    /\ wire \in [Ends -> Seq(Events)]
    /\ session \in [Ends -> BOOLEAN]
    /\ flag \in [Ends -> BOOLEAN]
    /\ registered \in [Ends -> BOOLEAN]
    /\ start \in [Ends -> Phases]
    /\ stillborn \in [Ends -> BOOLEAN]
    /\ allowed \in BOOLEAN

\* No READY is on its way to the client.
NoReady(w) == \A i \in 1 .. Len(w["client"]) : w["client"][i].kind # "READY"

\* Nobody believes to be authenticated, nor is about to.
Innocent ==
    /\ \A x \in Ends : ~flag[x] /\ ~registered[x] /\ start[x] # "woken"
    /\ NoReady(wire)

IInv == Shape /\ (allowed \/ Innocent) /\ DeadSessionLeaves

-----------------------------------------------------------------------------
(* Wires.                                                                   *)

Wires == [Ends -> Seq(Events)]

LEMMA KnownEvents ==
    /\ \A k \in {"AUTH", "READY", "ERR", "DISCONNECT"} : Event(k) \in Events /\ Event(k).kind = k
    /\ \A e \in Frames : e \in Events /\ e.kind # "READY"
BY DEF Event, Events, Frames

\* Writing anything but a READY of the server.
LEMMA WrittenWire ==
    ASSUME NEW w \in Wires, NEW x \in Ends, NEW e \in Events
    PROVE  /\ Written(w, x, e) \in Wires
           /\ NoReady(w) /\ (x = "client" \/ e.kind # "READY") => NoReady(Written(w, x, e))
<1>1. Other(x) \in Ends /\ (x = "client" => Other(x) = "server")
  BY DEF Ends, Other
<1>2. w[Other(x)] \in Seq(Events)
  BY <1>1 DEF Wires
<1>3. /\ Append(w[Other(x)], e) \in Seq(Events)
      /\ Len(Append(w[Other(x)], e)) = Len(w[Other(x)]) + 1
      /\ Len(w[Other(x)]) \in Nat
      /\ \A i \in 1 .. Len(w[Other(x)]) : Append(w[Other(x)], e)[i] = w[Other(x)][i]
      /\ Append(w[Other(x)], e)[Len(w[Other(x)]) + 1] = e
  BY <1>2, AppendProperties
<1>4. Written(w, x, e) \in Wires
  BY <1>1, <1>3 DEF Written, Wires
<1>5. ASSUME NoReady(w), x = "client" \/ e.kind # "READY"
      PROVE  NoReady(Written(w, x, e))
  <2>1. CASE Other(x) = "client" /\ link = "up"
    <3>1. Written(w, x, e)["client"] = Append(w["client"], e)
      BY <2>1 DEF Written, Wires, Ends
    <3>2. x # "client"
      BY <1>1, <2>1
    <3> QED
      BY <1>3, <1>5, <2>1, <3>1, <3>2 DEF NoReady
  <2>2. CASE ~(Other(x) = "client" /\ link = "up")
    <3>1. Written(w, x, e)["client"] = w["client"]
      BY <2>2 DEF Written, Wires, Ends
    <3> QED
      BY <1>5, <3>1 DEF NoReady
  <2> QED
    BY <2>1, <2>2
<1> QED
  BY <1>4, <1>5

\* Taking k + 1 events off one wire.
LEMMA CutWire ==
    ASSUME NEW w \in Wires, NEW x \in Ends, NEW k \in 1 .. Len(w[x])
    PROVE  LET cut == [w EXCEPT ![x] = SubSeq(@, k + 1, Len(@))]
           IN  cut \in Wires /\ (NoReady(w) => NoReady(cut))
<1> DEFINE s == SubSeq(w[x], k + 1, Len(w[x]))
           cut == [w EXCEPT ![x] = s]
<1>1. w[x] \in Seq(Events) /\ Len(w[x]) \in Nat
  BY DEF Wires
<1>2. \A i \in k + 1 .. Len(w[x]) : w[x][i] \in Events
  BY <1>1, ElementOfSeq
<1>3. /\ s \in Seq(Events)
      /\ Len(s) = IF k + 1 <= Len(w[x]) THEN Len(w[x]) - (k + 1) + 1 ELSE 0
      /\ \A i \in 1 .. Len(w[x]) - (k + 1) + 1 : s[i] = w[x][k + 1 + i - 1]
  BY <1>1, <1>2, SubSeqProperties
<1>4. \A i \in 1 .. Len(s) : k + i \in 1 .. Len(w[x]) /\ s[i] = w[x][k + i]
  BY <1>1, <1>3
<1> HIDE DEF s
<1>5. cut \in Wires
  BY <1>3 DEF Wires
<1>6. ASSUME NoReady(w) PROVE NoReady(cut)
  <2>1. CASE x = "client"
    <3>1. cut["client"] = s
      BY <2>1 DEF Wires
    <3> QED
      BY <1>4, <1>6, <2>1, <3>1 DEF NoReady
  <2>2. CASE x # "client"
    <3>1. cut["client"] = w["client"]
      BY <2>2 DEF Wires, Ends
    <3> QED
      BY <1>6, <3>1 DEF NoReady
  <2> QED
    BY <2>1, <2>2
<1> QED
  BY <1>5, <1>6 DEF s

\* Taking the first event off a wire.
LEMMA ReadWire ==
    ASSUME wire \in Wires, NEW x \in Ends, wire[x] # <<>>
    PROVE  Read(x) \in Wires /\ (NoReady(wire) => NoReady(Read(x)))
<1> DEFINE s == Tail(wire[x])
<1>1. wire[x] \in Seq(Events)
  BY DEF Wires
<1>2. /\ s \in Seq(Events)
      /\ Len(s) = Len(wire[x]) - 1
      /\ Len(wire[x]) \in Nat
      /\ \A i \in 1 .. Len(s) : s[i] = wire[x][i + 1]
  BY <1>1, HeadTailProperties
<1>3. \A i \in 1 .. Len(s) : i + 1 \in 1 .. Len(wire[x]) /\ s[i] = wire[x][i + 1]
  BY <1>2
<1> HIDE DEF s
<1>4. Read(x) = [wire EXCEPT ![x] = s]
  BY DEF Read, s
<1>5. Read(x) \in Wires
  BY <1>2, <1>4 DEF Wires
<1>6. ASSUME NoReady(wire) PROVE NoReady(Read(x))
  <2>1. CASE x = "client"
    <3>1. Read(x)["client"] = s
      BY <1>4, <2>1 DEF Wires
    <3> QED
      BY <1>3, <1>6, <2>1, <3>1 DEF NoReady
  <2>2. CASE x # "client"
    <3>1. Read(x)["client"] = wire["client"]
      BY <1>4, <2>2 DEF Wires, Ends
    <3> QED
      BY <1>6, <3>1 DEF NoReady
  <2> QED
    BY <2>1, <2>2
<1> QED
  BY <1>5, <1>6
-----------------------------------------------------------------------------
(* Steps that grant nothing.                                                *)

Stays == UNCHANGED <<session, flag, registered>>
Leaves(x) ==
    /\ session' \in {session, [session EXCEPT ![x] = FALSE]}
    /\ flag' = [flag EXCEPT ![x] = FALSE]
    /\ registered' = [registered EXCEPT ![x] = FALSE]

\* The life of x goes on or ends, and nothing new makes an end believe anything.
CalmStep(x) ==
    /\ Stays \/ Leaves(x)
    /\ wire' \in Wires
    /\ start' \in [Ends -> Phases]
    /\ Innocent => NoReady(wire') /\ \A y \in Ends : start'[y] # "woken"
    /\ UNCHANGED <<stillborn, allowed>>

LEMMA CalmKeeps == ASSUME IInv, NEW x \in Ends, CalmStep(x) PROVE IInv'
<1>1. Shape'
  BY DEF IInv, Shape, CalmStep, Stays, Leaves, Wires
<1>2. (allowed \/ Innocent)'
  <2>1. CASE allowed
    BY <2>1 DEF CalmStep
  <2>2. CASE Innocent
    <3>1. \A y \in Ends : ~flag'[y] /\ ~registered'[y]
      BY <2>2 DEF IInv, Shape, CalmStep, Stays, Leaves, Innocent
    <3>2. NoReady(wire') /\ \A y \in Ends : start'[y] # "woken"
      BY <2>2 DEF CalmStep
    <3> QED
      BY <3>1, <3>2 DEF Innocent, NoReady
  <2> QED
    BY <2>1, <2>2 DEF IInv
<1>3. DeadSessionLeaves'
  <2> SUFFICES ASSUME NEW y \in Ends, registered'[y], ~session'[y] PROVE stillborn'[y]
    BY DEF DeadSessionLeaves
  <2>1. registered[y] /\ ~session[y]
    BY DEF IInv, Shape, CalmStep, Stays, Leaves
  <2> QED
    BY <2>1 DEF IInv, DeadSessionLeaves, CalmStep
<1> QED
  BY <1>1, <1>2, <1>3 DEF IInv

\* The pieces of actions, as calm steps.
LEMMA DropLeaves == ASSUME NEW x \in Ends, NEW q, Drop(x, q) PROVE Leaves(x)
BY DEF Drop, Leaves

LEMMA CloseReturnsLeaves == ASSUME NEW x \in Ends, CloseReturns(x) PROVE Leaves(x)
BY DEF CloseReturns, Leaves

LEMMA CloseRaisesStays == ASSUME NEW x \in Ends, CloseRaises(x) PROVE Stays
BY DEF CloseRaises, Stays, life

LEMMA BeginCloseIsCalm ==
    ASSUME NEW x \in Ends, NEW w \in Wires, BeginClose(x, w)
    PROVE  /\ Stays \/ Leaves(x)
           /\ wire' \in Wires
           /\ NoReady(w) => NoReady(wire')
<1>1. Event("DISCONNECT") \in Events /\ Event("DISCONNECT").kind # "READY"
  BY KnownEvents
<1>2. CASE session[x]
  BY <1>1, <1>2, WrittenWire DEF BeginClose, Stays
<1>3. CASE ~session[x]
  BY <1>3 DEF BeginClose, Leaves
<1> QED
  BY <1>2, <1>3
-----------------------------------------------------------------------------
(* The actions.                                                             *)

LEMMA StartSteps ==
    ASSUME IInv, NEW x \in Ends,
           SendAuth \/ AuthSent \/ StartTimesOut(x) \/ StartClosed(x) \/ Listen(x)
    PROVE  IInv'
<1> USE DEF IInv, Shape
<1>0. "client" \in Ends /\ wire \in Wires /\ Phases # {}
  BY DEF Ends, Wires, Phases
<1>1. CASE SendAuth
  <2>1. Event("AUTH") \in Events
    BY KnownEvents
  <2>2. wire' \in Wires /\ (NoReady(wire) => NoReady(wire'))
    BY <1>0, <1>1, <2>1, WrittenWire DEF SendAuth
  <2>3. /\ Stays /\ UNCHANGED <<stillborn, allowed>>
        /\ start' \in [Ends -> Phases]
        /\ \A y \in Ends : start'[y] = "woken" => start[y] = "woken"
    BY <1>0, <1>1 DEF SendAuth, Stays, life, past, Phases
  <2>4. CalmStep("client")
    BY <2>2, <2>3 DEF CalmStep, Innocent
  <2> QED
    BY <1>0, <2>4, CalmKeeps
<1>2. CASE AuthSent
  <2>1. /\ Stays /\ UNCHANGED <<wire, stillborn, allowed>>
        /\ start' \in [Ends -> Phases]
        /\ \A y \in Ends : start'[y] = "woken" => start[y] = "woken" \/ flag[y]
    BY <1>0, <1>2 DEF AuthSent, Stays, net, life, past, Phases
  <2>2. CalmStep("client")
    BY <1>0, <2>1 DEF CalmStep, Innocent
  <2> QED
    BY <1>0, <2>2, CalmKeeps
<1>3. CASE StartTimesOut(x)
  <2>1. /\ Stays \/ Leaves(x)
        /\ wire' \in Wires
        /\ NoReady(wire) => NoReady(wire')
    BY <1>0, <1>3, BeginCloseIsCalm DEF StartTimesOut
  <2>2. /\ UNCHANGED <<stillborn, allowed>>
        /\ start' \in [Ends -> Phases]
        /\ \A y \in Ends : start'[y] = "woken" => start[y] = "woken"
    BY <1>3 DEF StartTimesOut, Closing, past, Phases
  <2>3. CalmStep(x)
    BY <2>1, <2>2 DEF CalmStep, Innocent
  <2> QED
    BY <2>3, CalmKeeps
<1>4. CASE StartClosed(x)
  <2>1. Stays \/ Leaves(x)
    BY <1>4, CloseReturnsLeaves, CloseRaisesStays DEF StartClosed
  <2>2. /\ UNCHANGED <<wire, stillborn, allowed>>
        /\ start' \in [Ends -> Phases]
        /\ \A y \in Ends : start'[y] = "woken" => start[y] = "woken"
    BY <1>4 DEF StartClosed, past, Phases
  <2>3. CalmStep(x)
    BY <1>0, <2>1, <2>2 DEF CalmStep, Innocent
  <2> QED
    BY <2>3, CalmKeeps
<1>5. CASE Listen(x)
  <2>1. Stays /\ UNCHANGED <<wire, stillborn, allowed>>
    BY <1>5 DEF Listen, Stays, net, life
  <2>2. start' \in [Ends -> Phases] /\ \A y \in Ends : start'[y] = "woken" => start[y] = "woken"
    BY <1>5 DEF Listen, Phases
  <2>3. CalmStep(x)
    BY <1>0, <2>1, <2>2 DEF CalmStep, Innocent
  <2> QED
    BY <2>3, CalmKeeps
<1> QED
  BY <1>1, <1>2, <1>3, <1>4, <1>5

\* Only a start that was woken registers, and a session that is dead by then is
\* one that the history knows.
LEMMA RegisterStep == ASSUME IInv, NEW x \in Ends, Register(x) PROVE IInv'
<1>1. Shape'
  BY DEF IInv, Shape, Register, net, Phases
<1>2. allowed'
  BY DEF IInv, Innocent, Register
<1>3. DeadSessionLeaves'
  BY DEF IInv, Shape, DeadSessionLeaves, Register
<1> QED
  BY <1>1, <1>2, <1>3 DEF IInv

\* Reading an event that grants nothing: DISCONNECT, ERR, DATA, AUTH, or a READY
\* that is refused or is the client's.
LEMMA EventSteps ==
    ASSUME IInv, NEW x \in Ends,
           OnDisconnect(x) \/ OnErr(x) \/ OnData(x) \/ OnAuth \/ OnReadyMismatch(x) \/ OnServerReady
    PROVE  IInv'
<1> USE DEF IInv, Shape
<1>0. wire \in Wires /\ "server" \in Ends
  BY DEF Ends, Wires
<1>1. CASE OnDisconnect(x)
  <2>1. Leaves(x)
    BY <1>1, DropLeaves DEF OnDisconnect
  <2>2. wire' \in Wires /\ (NoReady(wire) => NoReady(wire'))
    BY <1>0, <1>1, ReadWire DEF OnDisconnect, Handles
  <2>3. UNCHANGED <<start, stillborn, allowed>>
    BY <1>1 DEF OnDisconnect, past
  <2>4. CalmStep(x)
    BY <2>1, <2>2, <2>3 DEF CalmStep, Innocent
  <2> QED
    BY <2>4, CalmKeeps
<1>2. CASE OnErr(x)
  <2>1. Stays /\ UNCHANGED <<start, stillborn, allowed>>
    BY <1>2 DEF OnErr, Stays, life
  <2>2. wire' \in Wires /\ (NoReady(wire) => NoReady(wire'))
    <3>1. PICK k \in 1 .. Len(wire[x]) : wire' = [wire EXCEPT ![x] = SubSeq(@, k + 1, Len(@))]
      BY <1>2 DEF OnErr
    <3> QED
      BY <1>0, <3>1, CutWire
  <2>3. CalmStep(x)
    BY <2>1, <2>2 DEF CalmStep, Innocent
  <2> QED
    BY <2>3, CalmKeeps
<1>3. CASE OnData(x)
  <2>1. Stays /\ UNCHANGED <<start, stillborn, allowed>>
    BY <1>3 DEF OnData, Stays, life, past
  <2>2. wire' \in Wires /\ (NoReady(wire) => NoReady(wire'))
    BY <1>0, <1>3, ReadWire DEF OnData, Handles
  <2>3. CalmStep(x)
    BY <2>1, <2>2 DEF CalmStep, Innocent
  <2> QED
    BY <2>3, CalmKeeps
<1>4. CASE OnAuth
  <2>1. Stays /\ UNCHANGED <<start, stillborn, allowed>>
    BY <1>4 DEF OnAuth, Stays, life, past
  <2>2. wire' \in Wires /\ (NoReady(wire) => NoReady(wire'))
    BY <1>0, <1>4, ReadWire DEF OnAuth, Handles
  <2>3. CalmStep(x)
    BY <2>1, <2>2 DEF CalmStep, Innocent
  <2> QED
    BY <2>3, CalmKeeps
<1>5. CASE OnReadyMismatch(x)
  <2>1. Read(x) \in Wires /\ (NoReady(wire) => NoReady(Read(x)))
    BY <1>0, <1>5, ReadWire DEF OnReadyMismatch, Handles
  <2>2. Event("ERR") \in Events /\ Event("ERR").kind # "READY"
    BY KnownEvents
  <2>3. wire' \in {Read(x), Written(Read(x), x, Event("ERR"))} /\ UNCHANGED <<start, stillborn, allowed>>
    BY <1>5 DEF OnReadyMismatch, past
  <2>4. Stays \/ Leaves(x)
    BY <1>5, DropLeaves DEF OnReadyMismatch, Stays, life
  <2>5. wire' \in Wires /\ (NoReady(wire) => NoReady(wire'))
    BY <2>1, <2>2, <2>3, WrittenWire
  <2>6. CalmStep(x)
    BY <2>3, <2>4, <2>5 DEF CalmStep, Innocent
  <2> QED
    BY <2>6, CalmKeeps
<1>6. CASE OnServerReady
  <2>1. Stays /\ UNCHANGED <<start, stillborn, allowed>>
    BY <1>6 DEF OnServerReady, Stays, life, past
  <2>2. wire' \in Wires /\ (NoReady(wire) => NoReady(wire'))
    BY <1>0, <1>6, ReadWire DEF OnServerReady, Handles
  <2>3. CalmStep(x)
    BY <2>1, <2>2 DEF CalmStep, Innocent
  <2> QED
    BY <2>3, CalmKeeps
<1> QED
  BY <1>1, <1>2, <1>3, <1>4, <1>5, <1>6
\* The strategy's verdict: only a yes sets the flag and writes READY, and then
\* the client is allowed.
LEMMA CheckedStep == ASSUME IInv, NEW yes \in BOOLEAN, Checked(yes) PROVE IInv'
<1> USE DEF IInv, Shape
<1>0. wire \in Wires /\ "server" \in Ends
  BY DEF Ends, Wires
<1>1. \A k \in {"READY", "ERR"} : Event(k) \in Events /\ Event(k).kind = k
  BY KnownEvents
<1>2. wire' \in {wire, Written(wire, "server", Event(IF yes THEN "READY" ELSE "ERR"))}
  BY DEF Checked, Grants
<1>3. wire' \in Wires
  BY <1>0, <1>1, <1>2, WrittenWire
<1>4. UNCHANGED <<session, registered, stillborn>> /\ allowed' = (allowed \/ yes)
  BY DEF Checked
<1>5. start' \in [Ends -> Phases]
  <2>1. start' = start \/ start' = Woken("server")
    BY DEF Checked
  <2> QED
    BY <2>1 DEF Woken, Phases
<1>6. flag' \in [Ends -> BOOLEAN]
  BY DEF Checked, Grants
<1>7. Shape'
  BY <1>3, <1>4, <1>5, <1>6 DEF Wires
<1>8. (allowed \/ Innocent)'
  <2>1. CASE allowed \/ yes
    BY <1>4, <2>1
  <2>2. CASE ~allowed /\ ~yes
    <3>1. Innocent
      BY <2>2
    <3>2. NoReady(wire')
      BY <1>0, <1>1, <1>2, <2>2, <3>1, WrittenWire DEF Innocent
    <3>3. start' = start /\ \A y \in Ends : ~flag'[y]
      BY <2>2, <3>1 DEF Checked, Grants, Innocent
    <3> QED
      BY <1>4, <3>1, <3>2, <3>3 DEF Innocent, NoReady
  <2> QED
    BY <2>1, <2>2
<1>9. DeadSessionLeaves'
  BY <1>4 DEF DeadSessionLeaves
<1> QED
  BY <1>7, <1>8, <1>9

\* The client believes READY, which is on the wire only if it is allowed.
LEMMA ClientReadyStep == ASSUME IInv, OnClientReady PROVE IInv'
<1> USE DEF IInv, Shape
<1>0. wire \in Wires /\ "client" \in Ends
  BY DEF Ends, Wires
<1>1. allowed
  <2>1. wire["client"] # <<>> /\ Head(wire["client"]).kind = "READY"
    BY DEF OnClientReady, Handles
  <2>2. wire["client"] \in Seq(Events)
    BY <1>0
  <2>3. 1 \in 1 .. Len(wire["client"]) /\ Head(wire["client"]) = wire["client"][1]
    BY <2>1, <2>2, EmptySeq
  <2> QED
    BY <2>1, <2>3 DEF Innocent, NoReady
<1>2. Read("client") \in Wires
  BY <1>0, ReadWire DEF OnClientReady, Handles
<1>3. Event("READY") \in Events
  BY KnownEvents
<1>4. UNCHANGED <<stillborn, allowed>> /\ start' = Woken("client")
  BY DEF OnClientReady, past
<1>5. start' \in [Ends -> Phases]
  BY <1>4 DEF Woken, Phases
<1>6. CASE Answers
  <2>1. wire' \in Wires
    BY <1>0, <1>2, <1>3, <1>6, WrittenWire DEF OnClientReady
  <2>2. UNCHANGED <<session, registered>> /\ flag' \in [Ends -> BOOLEAN]
    BY <1>6 DEF OnClientReady
  <2> QED
    BY <1>1, <1>4, <1>5, <2>1, <2>2 DEF Wires, DeadSessionLeaves
<1>7. CASE ~Answers
  <2>1. Leaves("client") /\ wire' = Read("client")
    BY <1>0, <1>7, DropLeaves DEF OnClientReady
  <2>2. /\ session' \in {session, [session EXCEPT !["client"] = FALSE]}
        /\ flag' = [flag EXCEPT !["client"] = FALSE]
        /\ registered' = [registered EXCEPT !["client"] = FALSE]
    BY <2>1 DEF Leaves
  <2>3. Shape'
    BY <1>2, <1>4, <1>5, <2>1, <2>2 DEF Wires
  <2>4. DeadSessionLeaves'
    BY <1>4, <2>2 DEF DeadSessionLeaves
  <2> QED
    BY <1>1, <1>4, <2>3, <2>4
<1> QED
  BY <1>6, <1>7

\* The later parts of the event handler.
LEMMA HandlerSteps ==
    ASSUME IInv, NEW x \in Ends, Greeted(x) \/ Rejected(x) \/ HandlerClosed(x)
    PROVE  IInv'
<1> USE DEF IInv, Shape
<1>0. wire \in Wires
  BY DEF Wires
<1>1. CASE Greeted(x)
  <2>1. Stays \/ Leaves(x)
    BY <1>1, DropLeaves DEF Greeted, Stays, life
  <2>2. UNCHANGED <<wire, start, stillborn, allowed>>
    BY <1>1 DEF Greeted, past
  <2>3. CalmStep(x)
    BY <1>0, <2>1, <2>2 DEF CalmStep, Innocent
  <2> QED
    BY <2>3, CalmKeeps
<1>2. CASE Rejected(x)
  <2>1. /\ Stays \/ Leaves(x)
        /\ wire' \in Wires
        /\ NoReady(wire) => NoReady(wire')
    <3>1. CASE BeginClose(x, wire)
      BY <1>0, <3>1, BeginCloseIsCalm
    <3>2. CASE Drop(x, incoming[x]) /\ UNCHANGED wire
      BY <1>0, <3>2, DropLeaves
    <3> QED
      BY <1>2, <3>1, <3>2 DEF Rejected
  <2>2. UNCHANGED <<start, stillborn, allowed>>
    BY <1>2 DEF Rejected, past
  <2>3. CalmStep(x)
    BY <2>1, <2>2 DEF CalmStep, Innocent
  <2> QED
    BY <2>3, CalmKeeps
<1>3. CASE HandlerClosed(x)
  <2>1. /\ Stays \/ Leaves(x)
        /\ wire' \in Wires
        /\ NoReady(wire) => NoReady(wire')
    <3>1. CASE CloseReturns(x) /\ UNCHANGED wire
      BY <1>0, <3>1, CloseReturnsLeaves
    <3>2. CASE CloseRaises(x) /\ UNCHANGED wire
      BY <1>0, <3>2, CloseRaisesStays
    <3>3. CASE Drop(x, incoming[x]) /\ UNCHANGED wire
      BY <1>0, <3>3, DropLeaves
    <3>4. CASE BeginClose(x, wire)
      BY <1>0, <3>4, BeginCloseIsCalm
    <3> QED
      BY <1>3, <3>1, <3>2, <3>3, <3>4 DEF HandlerClosed
  <2>2. UNCHANGED <<start, stillborn, allowed>>
    BY <1>3 DEF HandlerClosed, past
  <2>3. CalmStep(x)
    BY <2>1, <2>2 DEF CalmStep, Innocent
  <2> QED
    BY <2>3, CalmKeeps
<1> QED
  BY <1>1, <1>2, <1>3

\* The application, the program's shutdown, and the connection.
LEMMA WorldSteps ==
    ASSUME IInv, NEW x \in Ends,
           Send(x) \/ Rerotate(x) \/ Terminate(x) \/ Terminated(x) \/ Break \/ Lost(x)
    PROVE  IInv'
<1> USE DEF IInv, Shape
<1>0. wire \in Wires
  BY DEF Wires
<1>1. CASE Send(x)
  <2>1. Stays /\ UNCHANGED <<start, stillborn, allowed>>
    BY <1>1 DEF Send, Stays, life, past
  <2>2. PICK e \in Frames : wire' = Written(wire, x, e)
    BY <1>1 DEF Send
  <2>3. wire' \in Wires /\ (NoReady(wire) => NoReady(wire'))
    BY <1>0, <2>2, KnownEvents, WrittenWire
  <2>4. CalmStep(x)
    BY <2>1, <2>3 DEF CalmStep, Innocent
  <2> QED
    BY <2>4, CalmKeeps
<1>2. CASE Rerotate(x)
  <2>1. /\ registered' = [registered EXCEPT ![x] = FALSE]
        /\ UNCHANGED <<wire, session, flag, start, stillborn, allowed>>
    BY <1>2 DEF Rerotate, net, past
  <2>2. Shape'
    BY <2>1
  <2>3. (allowed \/ Innocent)'
    BY <2>1 DEF Innocent, NoReady
  <2>4. DeadSessionLeaves'
    BY <2>1 DEF DeadSessionLeaves
  <2> QED
    BY <2>2, <2>3, <2>4
<1>3. CASE Terminate(x)
  <2>1. /\ Stays \/ Leaves(x)
        /\ wire' \in Wires
        /\ NoReady(wire) => NoReady(wire')
    BY <1>0, <1>3, BeginCloseIsCalm DEF Terminate
  <2>2. UNCHANGED <<start, stillborn, allowed>>
    BY <1>3 DEF Terminate, past
  <2>3. CalmStep(x)
    BY <2>1, <2>2 DEF CalmStep, Innocent
  <2> QED
    BY <2>3, CalmKeeps
<1>4. CASE Terminated(x)
  <2>1. Stays \/ Leaves(x)
    BY <1>4, CloseReturnsLeaves, CloseRaisesStays DEF Terminated
  <2>2. UNCHANGED <<wire, start, stillborn, allowed>>
    BY <1>4 DEF Terminated, past
  <2>3. CalmStep(x)
    BY <1>0, <2>1, <2>2 DEF CalmStep, Innocent
  <2> QED
    BY <2>3, CalmKeeps
<1>5. CASE Break
  <2>1. Stays /\ UNCHANGED <<start, stillborn, allowed>>
    BY <1>5 DEF Break, Stays, life, past
  <2>2. wire' \in Wires /\ NoReady(wire')
    <3>1. "client" \in Ends
      BY DEF Ends
    <3>2. wire' = [y \in Ends |-> <<>>]
      BY <1>5 DEF Break
    <3>3. wire' \in Wires
      BY <3>2 DEF Wires
    <3>4. wire'["client"] = <<>>
      BY <3>1, <3>2
    <3> QED
      BY <3>3, <3>4 DEF NoReady
  <2>3. CalmStep(x)
    BY <2>1, <2>2 DEF CalmStep, Innocent
  <2> QED
    BY <2>3, CalmKeeps
<1>6. CASE Lost(x)
  <2>1. Leaves(x)
    BY <1>6, DropLeaves DEF Lost
  <2>2. UNCHANGED <<wire, start, stillborn, allowed>>
    BY <1>6 DEF Lost, past
  <2>3. CalmStep(x)
    BY <1>0, <2>1, <2>2 DEF CalmStep, Innocent
  <2> QED
    BY <2>3, CalmKeeps
<1> QED
  BY <1>1, <1>2, <1>3, <1>4, <1>5, <1>6

-----------------------------------------------------------------------------
(* The theorems.                                                            *)

LEMMA InitIInv == Init => IInv
<1> SUFFICES ASSUME Init PROVE IInv
  OBVIOUS
<1>1. Shape
  <2>1. wire \in [Ends -> Seq(Events)] /\ start \in [Ends -> Phases]
    BY DEF Init, Phases
  <2>2. /\ session \in [Ends -> BOOLEAN] /\ flag \in [Ends -> BOOLEAN]
        /\ registered \in [Ends -> BOOLEAN] /\ stillborn \in [Ends -> BOOLEAN]
        /\ allowed \in BOOLEAN
    BY DEF Init
  <2> QED
    BY <2>1, <2>2 DEF Shape
<1>2. Innocent
  <2>1. wire["client"] = <<>>
    BY DEF Init, Ends
  <2>2. \A x \in Ends : start[x] # "woken"
    BY DEF Init
  <2> QED
    BY <2>1, <2>2 DEF Init, Innocent, NoReady
<1>3. DeadSessionLeaves
  BY DEF Init, DeadSessionLeaves
<1> QED
  BY <1>1, <1>2, <1>3 DEF IInv

LEMMA NextIInv == ASSUME IInv, [Next]_vars PROVE IInv'
<1>0. "client" \in Ends
  BY DEF Ends
<1>1. ASSUME NEW x \in Ends,
             \/ StartTimesOut(x) \/ StartStep(x) \/ OnEvent(x)
             \/ Send(x) \/ Rerotate(x) \/ Terminate(x) \/ Terminated(x) \/ Lost(x)
      PROVE  IInv'
  BY <1>1, StartSteps, RegisterStep, EventSteps, HandlerSteps, WorldSteps DEF StartStep, OnEvent
<1>2. CASE SendAuth \/ AuthSent \/ Break
  BY <1>0, <1>2, StartSteps, WorldSteps
<1>3. CASE OnHello
  BY <1>0, <1>3, EventSteps, CheckedStep, ClientReadyStep DEF OnHello
<1>4. CASE UNCHANGED vars
  <2>1. UNCHANGED <<wire, session, flag, registered, start, stillborn, allowed>>
    BY <1>4 DEF vars, net, life, past
  <2>2. CalmStep("client")
    BY <2>1 DEF CalmStep, Stays, Innocent, IInv, Shape, Wires
  <2> QED
    BY <1>0, <2>2, CalmKeeps
<1> QED
  BY <1>1, <1>2, <1>3, <1>4 DEF Next

\* The strengthened invariant holds in every reachable state.
THEOREM Invariance == Spec => []IInv
BY InitIInv, NextIInv, PTL DEF Spec

\* No end treats the connection as authenticated, or offers it to the balancer,
\* before the server's auth strategy has allowed the client.
THEOREM NobodyBelievesEarly == Spec => []AuthenticatedMeansAllowed
<1>1. IInv => AuthenticatedMeansAllowed
  BY DEF IInv, Innocent, AuthenticatedMeansAllowed
<1> QED
  BY <1>1, Invariance, PTL

\* A session that dies after it was registered leaves the registry in the same
\* step, whichever of the coroutines ends it.
THEOREM TheDeadLeave == Spec => []DeadSessionLeaves
<1>1. IInv => DeadSessionLeaves
  BY DEF IInv
<1> QED
  BY <1>1, Invariance, PTL
-----------------------------------------------------------------------------
(* The frames of a queue.                                                  *)

Queued == Events \cup {Event("NONE")}
Upto(n) == 1 .. n
Below(A, B) == \A a \in A, b \in B : a < b

\* The numbered frames of a queue ascend.
Rising(s) == \A i, j \in 1 .. Len(s) : (i < j /\ s[j].n > 0) => s[i].n < s[j].n

\* No NONE among the first i.
Open(q, i) == \A j \in 1 .. i : q[j].kind # "NONE"

\* What was delivered (d), what is queued for listen (q) and what is on the wire
\* (w) is one ascending run of frames.
InRow(d, q, w, top) ==
    /\ Rising(d) /\ Rising(q) /\ Rising(w)
    /\ Below(Numbers(d), Numbers(q))
    /\ Below(Numbers(d) \cup Numbers(q), Numbers(w))
    /\ \A n \in Numbers(d) \cup Numbers(q) \cup Numbers(w) : n <= top

\* Nothing is missing in it but what an ERR took (s), as long as frames are
\* still expected.
Whole(d, q, w, s, top, expects, up) ==
    expects =>
      LET all == Numbers(d) \cup Numbers(q) \cup Numbers(w)
      IN  /\ \A n \in all : Upto(n) \subseteq all \cup s
          /\ up => Upto(top) \subseteq all \cup s

\* Nothing is missing before what listen is going to take.
Ripe(d, q, s, awake) ==
    awake =>
      \A i \in 1 .. Len(q) :
        Open(q, i) => Upto(q[i].n) \subseteq Numbers(d) \cup Numbers(q) \cup s

\* Nothing is missing before what listen took.
Given(d, s) == \A n \in Numbers(d) : Upto(n) \subseteq Numbers(d) \cup s

-----------------------------------------------------------------------------
\* What an event and a queue are made of.
LEMMA EventFields ==
    /\ \A e \in Queued : e.n \in Nat
    /\ \A e \in Events : e \in Queued /\ e.kind # "NONE"
    /\ Event("NONE") \in Queued /\ Event("NONE").kind = "NONE"
    /\ \A k : Event(k).n = 0 /\ Event(k).kind = k
BY SessionAssumption DEF Queued, Events, Event, Frames

\* A wire carries less than a queue may hold.
LEMMA EventSeqs == \A s \in Seq(Events) : s \in Seq(Queued)
<1> SUFFICES ASSUME NEW s \in Seq(Events) PROVE s \in Seq(Queued)
  OBVIOUS
<1>1. \A i \in 1 .. Len(s) : s[i] \in Queued
  BY ElementOfSeq, EventFields
<1> QED
  BY <1>1

\* An event of a queue, and its number.
LEMMA Element ==
    ASSUME NEW s \in Seq(Queued), NEW i \in 1 .. Len(s)
    PROVE  s[i] \in Queued /\ s[i].n \in Nat /\ (s[i].n > 0 => s[i].n \in Numbers(s))
<1>1. s[i] \in Queued
  BY ElementOfSeq
<1>2. s[i].n \in Nat
  BY <1>1, EventFields
<1> QED
  BY <1>1, <1>2 DEF Numbers

LEMMA NumberIsSomewhere ==
    ASSUME NEW s \in Seq(Queued), NEW n \in Numbers(s)
    PROVE  n \in Nat /\ n > 0 /\ \E i \in 1 .. Len(s) : s[i].n = n
<1>1. PICK i \in 1 .. Len(s) : s[i].n = n
  BY DEF Numbers
<1>2. n \in Nat /\ n # 0
  BY <1>1, Element DEF Numbers
<1> QED
  BY <1>1, <1>2

\* The numbers of a queue, by position.
LEMMA InNumbers ==
    ASSUME NEW s, NEW n
    PROVE  n \in Numbers(s) <=> n # 0 /\ \E i \in 1 .. Len(s) : s[i].n = n
BY DEF Numbers

\* An empty queue, and one with an event more.
LEMMA EmptyHasNone == Numbers(<<>>) = {} /\ Rising(<<>>)
BY DEF Numbers, Rising

LEMMA Appended ==
    ASSUME NEW s \in Seq(Queued), NEW e \in Queued
    PROVE  /\ Append(s, e) \in Seq(Queued) /\ Len(Append(s, e)) = Len(s) + 1
           /\ \A i \in 1 .. Len(s) : Append(s, e)[i] = s[i]
           /\ Append(s, e)[Len(s) + 1] = e
           /\ Numbers(Append(s, e)) = Numbers(s) \cup ({e.n} \ {0})
           /\ Rising(s) /\ (e.n > 0 => \A n \in Numbers(s) : n < e.n) => Rising(Append(s, e))
<1> DEFINE t == Append(s, e)
<1>1. /\ t \in Seq(Queued) /\ Len(t) = Len(s) + 1 /\ Len(s) \in Nat
      /\ \A i \in 1 .. Len(s) : t[i] = s[i]
      /\ t[Len(s) + 1] = e
  BY AppendProperties
<1> HIDE DEF t
<1>2. Numbers(t) = Numbers(s) \cup ({e.n} \ {0})
  <2>1. \A i \in 1 .. Len(t) : i \in 1 .. Len(s) \/ i = Len(s) + 1
    BY <1>1
  <2>2. \A i \in 1 .. Len(s) : i \in 1 .. Len(t)
    BY <1>1
  <2>3. Len(s) + 1 \in 1 .. Len(t)
    BY <1>1
  <2> QED
    BY <1>1, <2>1, <2>2, <2>3 DEF Numbers
<1>3. ASSUME Rising(s), e.n > 0 => \A n \in Numbers(s) : n < e.n
      PROVE  Rising(t)
  <2> SUFFICES ASSUME NEW i \in 1 .. Len(t), NEW j \in 1 .. Len(t), i < j, t[j].n > 0
               PROVE  t[i].n < t[j].n
    BY DEF Rising
  <2>1. i \in 1 .. Len(s) /\ t[i] = s[i]
    BY <1>1
  <2>2. CASE j \in 1 .. Len(s)
    BY <1>1, <1>3, <2>1, <2>2 DEF Rising
  <2>3. CASE j = Len(s) + 1
    <3>1. t[j] = e /\ e.n \in Nat
      BY <1>1, <2>3, EventFields
    <3>2. s[i].n \in Nat /\ (s[i].n > 0 => s[i].n \in Numbers(s))
      BY <2>1, Element
    <3> QED
      BY <1>3, <2>1, <3>1, <3>2
  <2> QED
    BY <1>1, <2>2, <2>3
<1> QED
  BY <1>1, <1>2, <1>3 DEF t

\* A queue cut in two after its first k events.
LEMMA Split ==
    ASSUME NEW s \in Seq(Queued), NEW k \in 0 .. Len(s)
    PROVE  LET a == SubSeq(s, 1, k)  b == SubSeq(s, k + 1, Len(s))
           IN  /\ a \in Seq(Queued) /\ Len(a) = k /\ \A i \in 1 .. k : a[i] = s[i]
               /\ b \in Seq(Queued) /\ Len(b) = Len(s) - k
               /\ \A i \in 1 .. Len(s) - k : b[i] = s[i + k]
               /\ Numbers(s) = Numbers(a) \cup Numbers(b)
               /\ Rising(s) => Rising(a) /\ Rising(b) /\ Below(Numbers(a), Numbers(b))
<1> DEFINE a == SubSeq(s, 1, k)
           b == SubSeq(s, k + 1, Len(s))
<1>0. Len(s) \in Nat /\ k \in Nat /\ k <= Len(s)
  OBVIOUS
<1>1. a \in Seq(Queued) /\ Len(a) = k /\ \A i \in 1 .. k : a[i] = s[i]
  <2>1. \A i \in 1 .. k : s[i] \in Queued
    BY <1>0, ElementOfSeq
  <2>2. /\ a \in Seq(Queued)
        /\ Len(a) = IF 1 <= k THEN k - 1 + 1 ELSE 0
        /\ \A i \in 1 .. k - 1 + 1 : a[i] = s[1 + i - 1]
    BY <1>0, <2>1, SubSeqProperties
  <2> HIDE DEF a
  <2> QED
    BY <1>0, <2>2
<1>2. b \in Seq(Queued) /\ Len(b) = Len(s) - k /\ \A i \in 1 .. Len(s) - k : b[i] = s[i + k]
  <2>1. \A i \in k + 1 .. Len(s) : s[i] \in Queued
    BY <1>0, ElementOfSeq
  <2>2. /\ b \in Seq(Queued)
        /\ Len(b) = IF k + 1 <= Len(s) THEN Len(s) - (k + 1) + 1 ELSE 0
        /\ \A i \in 1 .. Len(s) - (k + 1) + 1 : b[i] = s[k + 1 + i - 1]
    BY <1>0, <2>1, SubSeqProperties
  <2> HIDE DEF b
  <2> QED
    BY <1>0, <2>2
<1> HIDE DEF a, b
<1>3. \A i \in 1 .. Len(b) : i + k \in 1 .. Len(s) /\ b[i] = s[i + k]
  BY <1>0, <1>2
<1>4. \A i \in 1 .. Len(a) : i \in 1 .. Len(s) /\ a[i] = s[i]
  BY <1>0, <1>1
<1>5. Numbers(s) = Numbers(a) \cup Numbers(b)
  <2>1. ASSUME NEW i \in 1 .. Len(s)
        PROVE  (\E j \in 1 .. Len(a) : a[j] = s[i]) \/ (\E j \in 1 .. Len(b) : b[j] = s[i])
    <3>1. CASE i <= k
      BY <1>0, <1>1, <3>1
    <3>2. CASE i > k
      <4>1. i - k \in 1 .. Len(b) /\ (i - k) + k = i
        BY <1>0, <1>2, <3>2
      <4> QED
        BY <1>3, <4>1
    <3> QED
      BY <1>0, <3>1, <3>2
  <2>2. \A n : n \in Numbers(s) => n \in Numbers(a) \cup Numbers(b)
    BY <2>1, InNumbers
  <2>3. \A n : n \in Numbers(a) => n \in Numbers(s)
    BY <1>4, InNumbers
  <2>4. \A n : n \in Numbers(b) => n \in Numbers(s)
    BY <1>3, InNumbers
  <2> QED
    BY <2>2, <2>3, <2>4
<1>6. ASSUME Rising(s) PROVE Rising(a) /\ Rising(b) /\ Below(Numbers(a), Numbers(b))
  <2>1. Rising(a)
    BY <1>4, <1>6 DEF Rising
  <2>2. Rising(b)
    <3> SUFFICES ASSUME NEW i \in 1 .. Len(b), NEW j \in 1 .. Len(b), i < j, b[j].n > 0
                 PROVE  b[i].n < b[j].n
      BY DEF Rising
    <3>1. i + k < j + k
      BY <1>0
    <3> QED
      BY <1>3, <1>6, <3>1 DEF Rising
  <2>3. ASSUME NEW m \in Numbers(a), NEW n \in Numbers(b) PROVE m < n
    <3>1. PICK i \in 1 .. Len(a) : a[i].n = m
      BY <1>1, NumberIsSomewhere
    <3>2. PICK j \in 1 .. Len(b) : b[j].n = n
      BY <1>2, NumberIsSomewhere
    <3>3. n > 0
      BY <1>2, NumberIsSomewhere
    <3>4. i < j + k
      BY <1>0, <1>1, <3>1, <3>2
    <3> QED
      BY <1>3, <1>4, <1>6, <3>1, <3>2, <3>3, <3>4 DEF Rising
  <2> QED
    BY <2>1, <2>2, <2>3 DEF Below
<1> QED
  BY <1>1, <1>2, <1>5, <1>6 DEF a, b

\* Two queues one after the other.
LEMMA Joined ==
    ASSUME NEW s \in Seq(Queued), NEW t \in Seq(Queued)
    PROVE  /\ s \o t \in Seq(Queued)
           /\ Numbers(s \o t) = Numbers(s) \cup Numbers(t)
           /\ Rising(s) /\ Rising(t) /\ Below(Numbers(s), Numbers(t)) => Rising(s \o t)
<1> DEFINE c == s \o t
<1>0. Len(s) \in Nat /\ Len(t) \in Nat
  OBVIOUS
<1>1. c \in Seq(Queued) /\ Len(c) = Len(s) + Len(t)
  BY ConcatProperties
<1>2. /\ \A i \in 1 .. Len(s) : i \in 1 .. Len(c) /\ c[i] = s[i]
      /\ \A i \in 1 .. Len(t) : i + Len(s) \in 1 .. Len(c) /\ c[i + Len(s)] = t[i]
  BY <1>0
<1> HIDE DEF c
<1>3. ASSUME NEW i \in 1 .. Len(c)
      PROVE  i \in 1 .. Len(s) \/ (i - Len(s) \in 1 .. Len(t) /\ i = (i - Len(s)) + Len(s))
  BY <1>0, <1>1
<1>4. Numbers(c) = Numbers(s) \cup Numbers(t)
  <2>1. \A i \in 1 .. Len(c) : (\E j \in 1 .. Len(s) : c[i] = s[j]) \/ (\E j \in 1 .. Len(t) : c[i] = t[j])
    BY <1>2, <1>3
  <2>2. \A n : n \in Numbers(c) => n \in Numbers(s) \cup Numbers(t)
    BY <2>1, InNumbers
  <2>3. ASSUME NEW n \in Numbers(s) PROVE n \in Numbers(c)
    <3>1. PICK i \in 1 .. Len(s) : s[i].n = n /\ n # 0
      BY InNumbers
    <3>2. i \in 1 .. Len(c) /\ c[i].n = n
      BY <1>2, <3>1
    <3> QED
      BY <3>1, <3>2, InNumbers
  <2>4. ASSUME NEW n \in Numbers(t) PROVE n \in Numbers(c)
    <3>1. PICK i \in 1 .. Len(t) : t[i].n = n /\ n # 0
      BY InNumbers
    <3>2. i + Len(s) \in 1 .. Len(c) /\ c[i + Len(s)].n = n
      BY <1>2, <3>1
    <3> QED
      BY <3>1, <3>2, InNumbers
  <2> QED
    BY <2>2, <2>3, <2>4
<1>5. ASSUME Rising(s), Rising(t), Below(Numbers(s), Numbers(t)) PROVE Rising(c)
  <2> SUFFICES ASSUME NEW i \in 1 .. Len(c), NEW j \in 1 .. Len(c), i < j, c[j].n > 0
               PROVE  c[i].n < c[j].n
    BY DEF Rising
  <2>1. CASE j \in 1 .. Len(s)
    <3>1. i \in 1 .. Len(s)
      BY <1>0, <2>1
    <3>2. c[i] = s[i] /\ c[j] = s[j]
      BY <1>2, <2>1, <3>1
    <3> QED
      BY <1>5, <2>1, <3>1, <3>2 DEF Rising
  <2>2. CASE j \notin 1 .. Len(s)
    <3>1. j - Len(s) \in 1 .. Len(t) /\ c[j] = t[j - Len(s)]
      BY <1>2, <1>3, <2>2
    <3>2. CASE i \in 1 .. Len(s)
      <4>1. c[i] = s[i] /\ s[i].n \in Nat /\ (s[i].n > 0 => s[i].n \in Numbers(s))
        BY <1>2, <3>2, Element
      <4>2. c[j].n \in Nat /\ c[j].n \in Numbers(t)
        BY <3>1, Element
      <4> QED
        BY <1>5, <4>1, <4>2 DEF Below
    <3>3. CASE i \notin 1 .. Len(s)
      <4>1. i - Len(s) \in 1 .. Len(t) /\ c[i] = t[i - Len(s)]
        BY <1>2, <1>3, <3>3
      <4>2. i - Len(s) < j - Len(s)
        BY <1>0, <4>1, <3>1
      <4> QED
        BY <1>5, <3>1, <4>1, <4>2 DEF Rising
    <3> QED
      BY <3>2, <3>3
  <2> QED
    BY <2>1, <2>2
<1> QED
  BY <1>1, <1>4, <1>5 DEF c
-----------------------------------------------------------------------------
(* The frames of an end, and the steps that move them.                     *)

Framed(d, q, w, s, top, expects, awake, up) ==
    /\ InRow(d, q, w, top)
    /\ Whole(d, q, w, s, top, expects, up)
    /\ Ripe(d, q, s, awake)
    /\ Given(d, s)

\* Queue t is queue s and perhaps events without a number behind it.
Grown(s, t) ==
    /\ t \in Seq(Queued)
    /\ Len(s) <= Len(t)
    /\ \A i \in 1 .. Len(s) : t[i] = s[i]
    /\ \A i \in 1 .. Len(t) : i > Len(s) => t[i].n = 0

\* The frames of s and t are the same.
Same(s, t) == t \in Seq(Queued) /\ Numbers(t) = Numbers(s) /\ (Rising(s) => Rising(t))

\* Events without a number change nothing, step by step.
LEMMA GrownIsSame ==
    ASSUME NEW s \in Seq(Queued), NEW t, Grown(s, t)
    PROVE  Same(s, t)
<1>0. Len(s) \in Nat /\ t \in Seq(Queued) /\ Len(t) \in Nat /\ Len(s) <= Len(t)
  BY DEF Grown
<1>1. \A i \in 1 .. Len(s) : i \in 1 .. Len(t) /\ t[i] = s[i]
  BY <1>0 DEF Grown
<1>2. \A i \in 1 .. Len(t) : t[i].n # 0 => i \in 1 .. Len(s)
  BY <1>0 DEF Grown
<1>3. ASSUME NEW n \in Numbers(t) PROVE n \in Numbers(s)
  BY <1>1, <1>2, InNumbers
<1>4. ASSUME NEW n \in Numbers(s) PROVE n \in Numbers(t)
  <2>1. PICK i \in 1 .. Len(s) : s[i].n = n /\ n # 0
    BY InNumbers
  <2>2. i \in 1 .. Len(t) /\ t[i].n = n
    BY <1>1, <2>1
  <2> QED
    BY <2>1, <2>2, InNumbers
<1>5. ASSUME Rising(s) PROVE Rising(t)
  <2> SUFFICES ASSUME NEW i \in 1 .. Len(t), NEW j \in 1 .. Len(t), i < j, t[j].n > 0
               PROVE  t[i].n < t[j].n
    BY DEF Rising
  <2>1. j \in 1 .. Len(s)
    BY <1>2
  <2>2. i \in 1 .. Len(s)
    BY <1>0, <2>1
  <2> QED
    BY <1>1, <1>5, <2>1, <2>2 DEF Rising
<1> QED
  BY <1>0, <1>3, <1>4, <1>5 DEF Same

LEMMA GrownTwice ==
    ASSUME NEW s \in Seq(Queued), NEW t, NEW u, Grown(s, t), Grown(t, u)
    PROVE  Grown(s, u)
<1>0. Len(s) \in Nat /\ t \in Seq(Queued) /\ Len(t) \in Nat /\ u \in Seq(Queued) /\ Len(u) \in Nat
  BY DEF Grown
<1>1. \A i \in 1 .. Len(s) : i \in 1 .. Len(t) /\ u[i] = s[i]
  BY <1>0 DEF Grown
<1>2. ASSUME NEW i \in 1 .. Len(u), i > Len(s) PROVE u[i].n = 0
  <2>1. CASE i > Len(t)
    BY <2>1 DEF Grown
  <2>2. CASE i \in 1 .. Len(t)
    BY <1>2, <2>2 DEF Grown
  <2> QED
    BY <1>0, <2>1, <2>2
<1> QED
  BY <1>0, <1>1, <1>2 DEF Grown

LEMMA GrownByOne ==
    ASSUME NEW s \in Seq(Queued), NEW e \in Queued, e.n = 0
    PROVE  Grown(s, s) /\ Grown(s, Append(s, e)) /\ Append(s, e) = s \o <<e>>
<1>1. Len(s) \in Nat
  OBVIOUS
<1> QED
  BY <1>1, Appended DEF Grown

\* A frame of the row has all the smaller ones before it, if frames were expected
\* or none was ever sent.
LEMMA RowIsWhole ==
    ASSUME NEW d \in Seq(Queued), NEW q \in Seq(Queued), NEW w \in Seq(Queued), NEW s,
           NEW top \in Nat,
           InRow(d, q, w, top), Whole(d, q, w, s, top, TRUE, FALSE) \/ top = 0,
           NEW n \in Numbers(d) \cup Numbers(q)
    PROVE  Upto(n) \subseteq Numbers(d) \cup Numbers(q) \cup s
<1>1. n \in Nat /\ n > 0 /\ n <= top
  BY NumberIsSomewhere DEF InRow
<1>2. Whole(d, q, w, s, top, TRUE, FALSE)
  BY <1>1 DEF Whole
<1>3. ASSUME NEW m \in Upto(n) PROVE m \in Numbers(d) \cup Numbers(q) \cup s
  <2>1. m \in Nat /\ m <= n
    BY <1>1 DEF Upto
  <2>2. m \in Numbers(d) \cup Numbers(q) \cup Numbers(w) \cup s
    BY <1>2, <1>3 DEF Whole
  <2>3. m \in Numbers(w) => n < m
    BY DEF InRow, Below
  <2> QED
    BY <1>1, <2>1, <2>2, <2>3
<1> QED
  BY <1>3

\* Steps that move, lose and add no frame.
LEMMA QuietStep ==
    ASSUME NEW d \in Seq(Queued), NEW q \in Seq(Queued), NEW w \in Seq(Queued), NEW s,
           NEW top \in Nat, NEW expects \in BOOLEAN, NEW awake \in BOOLEAN, NEW up \in BOOLEAN,
           NEW q2, NEW w2, NEW expects2 \in BOOLEAN, NEW awake2 \in BOOLEAN, NEW up2 \in BOOLEAN,
           Framed(d, q, w, s, top, expects, awake, up),
           Grown(q, q2), Same(w, w2) \/ (w2 = <<>> /\ ~up2), up2 => up,
           expects2 => expects \/ top = 0,
           awake2 => awake \/ expects \/ top = 0
    PROVE  Framed(d, q2, w2, s, top, expects2, awake2, up2)
<1> USE DEF Framed
<1>1. Same(q, q2)
  BY GrownIsSame
<1>2. /\ Numbers(q2) = Numbers(q) /\ Rising(q2) /\ Rising(w2)
      /\ Numbers(w2) = Numbers(w) \/ (Numbers(w2) = {} /\ ~up2)
      /\ w2 \in Seq(Queued) /\ q2 \in Seq(Queued)
  <2>1. Numbers(q2) = Numbers(q) /\ Rising(q2) /\ q2 \in Seq(Queued)
    BY <1>1 DEF Same, InRow
  <2>2. CASE Same(w, w2)
    BY <2>1, <2>2 DEF Same, InRow
  <2>3. CASE w2 = <<>> /\ ~up2
    <3>1. <<>> \in Seq(Queued)
      OBVIOUS
    <3> QED
      BY <2>1, <2>3, <3>1, EmptyHasNone
  <2> QED
    BY <2>2, <2>3
<1>3. InRow(d, q2, w2, top)
  BY <1>2 DEF InRow, Below
<1>0. expects \/ top = 0 => Whole(d, q, w, s, top, TRUE, FALSE) \/ top = 0
  BY DEF Whole
<1>4. Whole(d, q2, w2, s, top, expects2, up2)
  <2> SUFFICES ASSUME expects2 PROVE Whole(d, q2, w2, s, top, TRUE, up2)
    BY DEF Whole
  <2>1. \A n \in Numbers(d) \cup Numbers(q) : Upto(n) \subseteq Numbers(d) \cup Numbers(q) \cup s
    BY <1>0, RowIsWhole
  <2>2. CASE Numbers(w2) = {} /\ ~up2
    BY <1>2, <2>1, <2>2 DEF Whole
  <2>3. CASE Numbers(w2) = Numbers(w) /\ expects
    BY <1>2, <2>3 DEF Whole
  <2>4. CASE Numbers(w2) = Numbers(w) /\ top = 0
    <3>1. Upto(top) = {}
      BY <2>4 DEF Upto
    <3>2. \A n \in Numbers(d) \cup Numbers(q) \cup Numbers(w) : FALSE
      BY <2>4, NumberIsSomewhere DEF InRow
    <3> QED
      BY <1>2, <2>4, <3>1, <3>2 DEF Whole
  <2> QED
    BY <1>2, <2>2, <2>3, <2>4
<1>5. Ripe(d, q2, s, awake2)
  <2> SUFFICES ASSUME awake2, NEW i \in 1 .. Len(q2), Open(q2, i)
               PROVE  Upto(q2[i].n) \subseteq Numbers(d) \cup Numbers(q) \cup s
    BY <1>2 DEF Ripe
  <2>1. CASE q2[i].n = 0
    <3>1. Upto(q2[i].n) = {}
      BY <2>1 DEF Upto
    <3> QED
      BY <3>1
  <2>2. CASE q2[i].n # 0
    <3>1. q2[i].n \in Numbers(q)
      BY <1>2, <2>2, InNumbers
    <3>2. CASE expects \/ top = 0
      BY <1>0, <3>1, <3>2, RowIsWhole
    <3>3. CASE awake
      <4>1. Len(q) \in Nat /\ Len(q2) \in Nat
        BY <1>2
      <4>2. i \in 1 .. Len(q) /\ q2[i] = q[i]
        BY <2>2, <4>1 DEF Grown
      <4>3. \A j \in 1 .. i : q2[j] = q[j]
        BY <4>1, <4>2 DEF Grown
      <4>4. Open(q, i)
        BY <4>3 DEF Open
      <4> QED
        BY <3>3, <4>2, <4>4 DEF Ripe
    <3> QED
      BY <3>2, <3>3
  <2> QED
    BY <2>1, <2>2
<1> QED
  BY <1>3, <1>4, <1>5

\* The other end sends its next frame, the reader takes an event and k - 1 more
\* with it, and listen takes what it finds.
Numbered(w, top, w2, top2) ==
    /\ top2 = top + 1
    /\ \E e \in Queued : e.n = top2 /\ w2 = Append(w, e)
Taken(q, w, s, k, q2, w2, s2) ==
    /\ q2 = Append(q, w[1])
    /\ w2 = SubSeq(w, k + 1, Len(w))
    /\ s2 = s \cup Numbers(SubSeq(w, 2, k))
Heard(d, q, awake, last, cut, d2, q2, awake2) ==
    /\ awake
    /\ last \in 0 .. Len(q) /\ \A j \in 1 .. last : q[j].kind # "NONE"
    /\ cut \in last .. Len(q)
    /\ cut = last \/ (cut = last + 1 /\ q[cut].n = 0)
    /\ d2 = d \o SubSeq(q, 1, last)
    /\ q2 = SubSeq(q, cut + 1, Len(q))
    /\ awake2 => cut = Len(q)

\* The other end sends its next frame.
LEMMA SendStep ==
    ASSUME NEW d \in Seq(Queued), NEW q \in Seq(Queued), NEW w \in Seq(Queued), NEW s,
           NEW top \in Nat, NEW expects \in BOOLEAN, NEW awake \in BOOLEAN, NEW up \in BOOLEAN,
           Framed(d, q, w, s, top, expects, awake, up),
           NEW w2, NEW top2, Numbered(w, top, w2, top2),
           NEW expects2 \in BOOLEAN, expects2 => expects /\ up
    PROVE  Framed(d, q, w2, s, top2, expects2, awake, up)
<1> USE DEF Framed
<1>0. /\ top2 = top + 1
      /\ \E e \in Queued : e.n = top2 /\ w2 = Append(w, e)
  BY DEF Numbered
<1>1. \A n \in Numbers(d) \cup Numbers(q) \cup Numbers(w) : n \in Nat /\ n <= top
  BY NumberIsSomewhere DEF InRow
<1>2. Numbers(w2) = Numbers(w) \cup {top2} /\ Rising(w2)
  <2>1. PICK e \in Queued : e.n = top2 /\ w2 = Append(w, e)
    BY <1>0
  <2>2. {e.n} \ {0} = {top2}
    BY <1>0, <2>1
  <2>3. \A n \in Numbers(w) : n < e.n
    BY <1>0, <1>1, <2>1
  <2> QED
    BY <2>1, <2>2, <2>3, Appended DEF InRow
<1>3. InRow(d, q, w2, top2)
  BY <1>0, <1>1, <1>2 DEF InRow, Below
<1>4. Whole(d, q, w2, s, top2, expects2, up)
  <2> SUFFICES ASSUME expects2 PROVE Whole(d, q, w2, s, top2, TRUE, up)
    BY DEF Whole
  <2>1. Upto(top) \subseteq Numbers(d) \cup Numbers(q) \cup Numbers(w) \cup s
    BY DEF Whole
  <2>2. \A m \in Upto(top2) : m \in Upto(top) \/ m = top2
    BY <1>0 DEF Upto
  <2>3. Upto(top2) \subseteq Numbers(d) \cup Numbers(q) \cup Numbers(w2) \cup s
    BY <1>2, <2>1, <2>2
  <2>4. \A n \in Numbers(d) \cup Numbers(q) \cup Numbers(w2) : Upto(n) \subseteq Upto(top2)
    BY <1>0, <1>1, <1>2 DEF Upto
  <2> QED
    BY <2>3, <2>4 DEF Whole
<1> QED
  BY <1>3, <1>4

\* An event is read: it is queued, or it is not and the end expects no frames; an
\* ERR takes the next k - 1 events with it, into s.
LEMMA ReadStep ==
    ASSUME NEW d \in Seq(Queued), NEW q \in Seq(Queued), NEW w \in Seq(Queued), NEW s,
           NEW top \in Nat, NEW expects \in BOOLEAN, NEW awake \in BOOLEAN, NEW up \in BOOLEAN,
           Framed(d, q, w, s, top, expects, awake, up),
           NEW k \in 1 .. Len(w), NEW q2, NEW w2, NEW s2, Taken(q, w, s, k, q2, w2, s2),
           NEW expects2 \in BOOLEAN, expects2 => expects,
           awake => expects \/ \E i \in 1 .. Len(q) : q[i].kind = "NONE"
    PROVE  Framed(d, q2, w2, s2, top, expects2, awake, up)
<1> USE DEF Framed
<1> DEFINE gone == Numbers(SubSeq(w, 2, k))
<1>9. q2 = Append(q, w[1]) /\ w2 = SubSeq(w, k + 1, Len(w)) /\ s2 = s \cup gone
  BY DEF Taken
<1>0. Len(w) \in Nat /\ k \in Nat /\ k \in 0 .. Len(w) /\ 1 \in 1 .. Len(w) /\ Len(q) \in Nat
  OBVIOUS
<1>1. w[1] \in Queued /\ w[1].n \in Nat /\ (w[1].n > 0 => w[1].n \in Numbers(w))
  BY <1>0, Element
<1>2. /\ w2 \in Seq(Queued)
      /\ Numbers(w) = Numbers(SubSeq(w, 1, k)) \cup Numbers(w2)
      /\ Rising(w2) /\ Below(Numbers(SubSeq(w, 1, k)), Numbers(w2))
  BY <1>0, <1>9, Split DEF InRow
<1>3. Numbers(SubSeq(w, 1, k)) = ({w[1].n} \ {0}) \cup gone
  <2> DEFINE a == SubSeq(w, 1, k)
  <2>1. a \in Seq(Queued) /\ Len(a) = k /\ \A i \in 1 .. k : a[i] = w[i]
    BY <1>0, Split
  <2>2. \A i \in 2 .. k : w[i] \in Queued
    BY <1>0, ElementOfSeq
  <2>3. /\ Len(SubSeq(w, 2, k)) = IF 2 <= k THEN k - 2 + 1 ELSE 0
        /\ \A i \in 1 .. k - 2 + 1 : SubSeq(w, 2, k)[i] = w[2 + i - 1]
    BY <1>0, <2>2, SubSeqProperties
  <2> DEFINE b == SubSeq(w, 2, k)
  <2>4. Len(b) = k - 1 /\ \A i \in 1 .. Len(b) : i + 1 \in 1 .. k /\ b[i] = w[i + 1]
    <3> HIDE DEF b
    <3>1. Len(b) = k - 1
      BY <1>0, <2>3 DEF b
    <3>2. ASSUME NEW i \in 1 .. Len(b) PROVE i + 1 \in 1 .. k /\ b[i] = w[i + 1]
      <4>1. i \in 1 .. k - 2 + 1 /\ 2 + i - 1 = i + 1
        BY <1>0, <3>1
      <4> QED
        BY <1>0, <2>3, <4>1 DEF b
    <3> QED
      BY <3>1, <3>2
  <2> HIDE DEF a, b
  <2>5. ASSUME NEW n \in Numbers(a) PROVE n \in ({w[1].n} \ {0}) \cup Numbers(b)
    <3>1. PICK i \in 1 .. k : w[i].n = n /\ n # 0
      BY <2>1, InNumbers
    <3>2. CASE i = 1
      BY <3>1, <3>2
    <3>3. CASE i # 1
      <4>1. i - 1 \in 1 .. Len(b) /\ (i - 1) + 1 = i
        BY <1>0, <2>4, <3>3
      <4>2. b[i - 1].n = n
        BY <2>4, <3>1, <4>1
      <4> QED
        BY <3>1, <4>1, <4>2, InNumbers
    <3> QED
      BY <3>2, <3>3
  <2>6. ASSUME NEW n \in Numbers(b) PROVE n \in Numbers(a)
    <3>1. PICK i \in 1 .. Len(b) : b[i].n = n /\ n # 0
      BY InNumbers
    <3>2. i + 1 \in 1 .. Len(a) /\ a[i + 1].n = n
      BY <2>1, <2>4, <3>1
    <3> QED
      BY <3>1, <3>2, InNumbers
  <2>7. ASSUME NEW n \in {w[1].n} \ {0} PROVE n \in Numbers(a)
    <3>1. 1 \in 1 .. Len(a) /\ a[1].n = n /\ n # 0
      BY <1>0, <2>1
    <3> QED
      BY <3>1, InNumbers
  <2> QED
    BY <2>5, <2>6, <2>7 DEF a, b
<1>4. /\ q2 \in Seq(Queued) /\ Len(q2) = Len(q) + 1 /\ (\A i \in 1 .. Len(q) : q2[i] = q[i])
      /\ Numbers(q2) = Numbers(q) \cup ({w[1].n} \ {0})
      /\ Rising(q2)
  <2>1. w[1].n > 0 => \A n \in Numbers(q) : n < w[1].n
    BY <1>1 DEF InRow, Below
  <2> QED
    BY <1>1, <1>9, <2>1, Appended DEF InRow
<1>10. s2 = s \cup gone
  BY <1>9
<1> HIDE DEF gone
<1>5. InRow(d, q2, w2, top)
  BY <1>2, <1>3, <1>4 DEF InRow, Below
<1>6. Whole(d, q2, w2, s2, top, expects2, up)
  <2> SUFFICES ASSUME expects2 PROVE Whole(d, q2, w2, s2, top, TRUE, up)
    BY DEF Whole
  <2>1. /\ Numbers(q2) \subseteq Numbers(q) \cup Numbers(w) /\ Numbers(w2) \subseteq Numbers(w)
        /\ Numbers(d) \cup Numbers(q) \cup Numbers(w) \cup s = Numbers(d) \cup Numbers(q2) \cup Numbers(w2) \cup s2
    BY <1>2, <1>3, <1>4, <1>10
  <2> QED
    BY <2>1 DEF Whole
<1>7. Ripe(d, q2, s2, awake)
  <2> SUFFICES ASSUME awake, NEW i \in 1 .. Len(q2), Open(q2, i)
               PROVE  Upto(q2[i].n) \subseteq Numbers(d) \cup Numbers(q2) \cup s2
    BY DEF Ripe
  <2>1. CASE i \in 1 .. Len(q)
    <3>1. q2[i] = q[i] /\ \A j \in 1 .. i : q2[j] = q[j]
      BY <1>0, <1>4, <2>1
    <3>2. Open(q, i)
      BY <3>1 DEF Open
    <3> QED
      BY <1>4, <1>10, <2>1, <3>1, <3>2 DEF Ripe
  <2>2. CASE i = Len(q) + 1
    <3>1. expects
      <4>1. \A j \in 1 .. Len(q) : q[j].kind # "NONE"
        BY <1>0, <1>4, <2>2 DEF Open
      <4> QED
        BY <4>1
    <3>2. CASE q2[i].n = 0
      <4>1. Upto(q2[i].n) = {}
        BY <3>2 DEF Upto
      <4> QED
        BY <4>1
    <3>3. CASE q2[i].n # 0
      <4>1. q2[i].n \in Numbers(q2)
        BY <3>3, InNumbers
      <4>2. Whole(d, q2, w2, s2, top, TRUE, FALSE)
        <5>1. /\ Numbers(q2) \subseteq Numbers(q) \cup Numbers(w) /\ Numbers(w2) \subseteq Numbers(w)
              /\ Numbers(d) \cup Numbers(q) \cup Numbers(w) \cup s
                   = Numbers(d) \cup Numbers(q2) \cup Numbers(w2) \cup s2
          BY <1>2, <1>3, <1>4, <1>10
        <5> QED
          BY <3>1, <5>1 DEF Whole
      <4> HIDE DEF Framed
      <4>3. \A n \in Numbers(d) \cup Numbers(q2) : Upto(n) \subseteq Numbers(d) \cup Numbers(q2) \cup s2
        BY <1>2, <1>4, <1>5, <4>2, RowIsWhole
      <4> QED
        BY <4>1, <4>3
    <3> QED
      BY <3>2, <3>3
  <2> QED
    BY <1>0, <1>4, <2>1, <2>2
<1>8. Given(d, s2)
  BY <1>10 DEF Given
<1> QED
  BY <1>5, <1>6, <1>7, <1>8

\* A frame that comes when none is expected is dropped.
LEMMA LoseStep ==
    ASSUME NEW d \in Seq(Queued), NEW q \in Seq(Queued), NEW w \in Seq(Queued), NEW s,
           NEW top \in Nat, NEW expects \in BOOLEAN, NEW awake \in BOOLEAN, NEW up \in BOOLEAN,
           Framed(d, q, w, s, top, expects, awake, up),
           NEW w2, Numbers(w2) \subseteq Numbers(w), Rising(w) => Rising(w2),
           NEW expects2 \in BOOLEAN, ~expects2
    PROVE  Framed(d, q, w2, s, top, expects2, awake, up)
<1>1. InRow(d, q, w2, top)
  BY DEF Framed, InRow, Below
<1>2. Whole(d, q, w2, s, top, expects2, up)
  BY DEF Whole
<1> QED
  BY <1>1, <1>2 DEF Framed

\* listen takes what is queued before the first NONE, and the NONE; it goes on
\* only if it took everything.
LEMMA ListenStep ==
    ASSUME NEW d \in Seq(Queued), NEW q \in Seq(Queued), NEW w \in Seq(Queued), NEW s,
           NEW top \in Nat, NEW expects \in BOOLEAN, NEW awake \in BOOLEAN, NEW up \in BOOLEAN,
           Framed(d, q, w, s, top, expects, awake, up),
           NEW last, NEW cut, NEW d2, NEW q2, NEW awake2 \in BOOLEAN,
           Heard(d, q, awake, last, cut, d2, q2, awake2)
    PROVE  Framed(d2, q2, w, s, top, expects, awake2, up)
<1> DEFINE a == SubSeq(q, 1, last)
           c == SubSeq(q, cut + 1, Len(q))
<1>10. d2 = d \o a /\ q2 = c
  BY DEF Heard
<1>0. /\ awake /\ (awake2 => cut = Len(q)) /\ Len(q) \in Nat
      /\ last \in 0 .. Len(q) /\ \A j \in 1 .. last : q[j].kind # "NONE"
      /\ cut \in 0 .. Len(q) /\ last <= cut
      /\ cut = last \/ (cut = last + 1 /\ q[cut].n = 0)
  BY DEF Heard
<1>1. /\ a \in Seq(Queued) /\ Len(a) = last /\ \A i \in 1 .. last : a[i] = q[i]
      /\ Rising(a) /\ Numbers(a) \subseteq Numbers(q)
      /\ Below(Numbers(a), Numbers(SubSeq(q, last + 1, Len(q))))
      /\ Numbers(q) = Numbers(a) \cup Numbers(SubSeq(q, last + 1, Len(q)))
  BY <1>0, Split DEF Framed, InRow
<1>2. /\ c \in Seq(Queued) /\ Len(c) = Len(q) - cut
      /\ Rising(c) /\ \A i \in 1 .. Len(c) : c[i] = q[i + cut]
  BY <1>0, Split DEF Framed, InRow
<1>3. Numbers(c) = Numbers(SubSeq(q, last + 1, Len(q)))
  <2> DEFINE r == SubSeq(q, last + 1, Len(q))
  <2>1. /\ r \in Seq(Queued) /\ Len(r) = Len(q) - last /\ \A i \in 1 .. Len(q) - last : r[i] = q[i + last]
    BY <1>0, Split
  <2>2. CASE cut = last
    BY <2>2
  <2>3. CASE cut = last + 1 /\ q[cut].n = 0
    <3> HIDE DEF r, c
    <3>1. ASSUME NEW n \in Numbers(r) PROVE n \in Numbers(c)
      <4>1. PICK i \in 1 .. Len(r) : r[i].n = n /\ n # 0
        BY InNumbers
      <4>2. r[i] = q[i + last] /\ i # 1
        BY <1>0, <2>1, <2>3, <4>1
      <4>3. i - 1 \in 1 .. Len(c) /\ (i - 1) + cut = i + last
        BY <1>0, <1>2, <2>1, <2>3, <4>2
      <4>4. c[i - 1].n = n
        BY <1>2, <4>1, <4>2, <4>3
      <4> QED
        BY <4>1, <4>3, <4>4, InNumbers
    <3>2. ASSUME NEW n \in Numbers(c) PROVE n \in Numbers(r)
      <4>1. PICK i \in 1 .. Len(c) : c[i].n = n /\ n # 0
        BY InNumbers
      <4>2. i + 1 \in 1 .. Len(r) /\ (i + 1) + last = i + cut
        BY <1>0, <1>2, <2>1, <2>3
      <4>3. r[i + 1].n = n
        BY <1>2, <2>1, <4>1, <4>2
      <4> QED
        BY <4>1, <4>2, <4>3, InNumbers
    <3> QED
      BY <3>1, <3>2 DEF r
  <2> QED
    BY <1>0, <2>2, <2>3
<1> HIDE DEF a, c
<1>4. Below(Numbers(a), Numbers(c)) /\ Numbers(q) = Numbers(a) \cup Numbers(c)
  BY <1>1, <1>3
<1>5. d2 \in Seq(Queued) /\ Numbers(d2) = Numbers(d) \cup Numbers(a) /\ Rising(d2)
  <2>1. Below(Numbers(d), Numbers(a)) /\ Rising(d)
    BY <1>1 DEF Framed, InRow, Below
  <2> QED
    BY <1>1, <2>1, <1>10, Joined
<1>6. InRow(d2, c, w, top)
  BY <1>2, <1>4, <1>5 DEF Framed, InRow, Below
<1>7. Whole(d2, c, w, s, top, expects, up)
  <2>1. Numbers(d2) \cup Numbers(c) = Numbers(d) \cup Numbers(q)
    BY <1>4, <1>5
  <2> QED
    BY <2>1 DEF Framed, Whole
<1>8. Ripe(d2, c, s, awake2)
  BY <1>0, <1>2 DEF Ripe
<1>9. Given(d2, s)
  <2> SUFFICES ASSUME NEW n \in Numbers(d2), NEW m \in Upto(n)
               PROVE  m \in Numbers(d2) \cup s
    BY DEF Given
  <2>1. CASE n \in Numbers(d)
    BY <1>5, <2>1 DEF Framed, Given
  <2>2. CASE n \in Numbers(a)
    <3>1. PICK i \in 1 .. Len(a) : a[i].n = n
      BY <2>2, InNumbers
    <3>2. i \in 1 .. Len(q) /\ q[i].n = n /\ Open(q, i)
      BY <1>0, <1>1, <3>1 DEF Open
    <3>3. m \in Numbers(d) \cup Numbers(q) \cup s
      BY <1>0, <3>2 DEF Framed, Ripe
    <3>4. m \in Numbers(c) => n < m
      BY <1>4, <2>2 DEF Below
    <3>5. n \in Nat /\ m \in Nat /\ m <= n
      BY <1>1, <2>2, NumberIsSomewhere DEF Upto
    <3> QED
      BY <1>4, <1>5, <3>3, <3>4, <3>5
  <2> QED
    BY <1>5, <2>1, <2>2
<1> QED
  BY <1>6, <1>7, <1>8, <1>9, <1>10 DEF Framed
-----------------------------------------------------------------------------
(* What is on the wires besides frames.                                    *)

Has(s, kind) == \E i \in 1 .. Len(s) : s[i].kind = kind
One(s, kind) == \A i, j \in 1 .. Len(s) : s[i].kind = kind /\ s[j].kind = kind => i = j
\* No frame is before READY.
ReadyFirst(s) == \A i, j \in 1 .. Len(s) : i < j /\ s[j].kind = "READY" => s[i].n = 0

\* The events that an ordinary step writes to y: AUTH and the server's READY are
\* written once.
Unmarked(y) == {e \in Events : e.kind # "AUTH" /\ (e.kind = "READY" => y = "server")}

\* Wire t is wire s without its first events, and perhaps with one more behind.
Flow(s, t, new) ==
    \E k \in 0 .. Len(s) :
       LET b == SubSeq(s, k + 1, Len(s)) IN t = b \/ \E e \in new : t = Append(b, e)

\* Events of a kind that is not written do not appear, nor double, nor fall behind.
LEMMA FlowKeeps ==
    ASSUME NEW s \in Seq(Events), NEW new \in SUBSET Events, NEW t, Flow(s, t, new),
           NEW kind, \A e \in new : e.kind # kind
    PROVE  /\ Has(t, kind) => Has(s, kind)
           /\ One(s, kind) => One(t, kind)
           /\ kind = "READY" /\ ReadyFirst(s) => ReadyFirst(t)
<1>1. PICK k \in 0 .. Len(s) :
         LET b == SubSeq(s, k + 1, Len(s)) IN t = b \/ \E e \in new : t = Append(b, e)
  BY DEF Flow
<1> DEFINE b == SubSeq(s, k + 1, Len(s))
<1>2. s \in Seq(Queued) /\ Len(s) \in Nat
  BY EventSeqs
<1>3. b \in Seq(Queued) /\ Len(b) = Len(s) - k /\ \A i \in 1 .. Len(s) - k : b[i] = s[i + k]
  BY <1>2, Split
<1>4. t = b \/ \E e \in new : t = Append(b, e)
  BY <1>1
<1> HIDE DEF b
<1>5. \A i \in 1 .. Len(b) : i + k \in 1 .. Len(s) /\ b[i] = s[i + k]
  BY <1>2, <1>3
<1>6. ASSUME NEW e \in new, t = Append(b, e)
      PROVE  /\ Len(t) = Len(b) + 1 /\ \A i \in 1 .. Len(b) : t[i] = b[i]
             /\ t[Len(b) + 1] = e /\ e.kind # kind
  BY <1>3, <1>6, EventFields, Appended
<1>7. \A i \in 1 .. Len(t) :
         (i \in 1 .. Len(b) /\ t[i] = s[i + k] /\ i + k \in 1 .. Len(s))
         \/ (i = Len(b) + 1 /\ t[i].kind # kind)
  <2>1. CASE t = b
    BY <1>5, <2>1
  <2>2. CASE \E e \in new : t = Append(b, e)
    <3>1. PICK e \in new : t = Append(b, e)
      BY <2>2
    <3>2. Len(b) \in Nat
      BY <1>3
    <3>3. \A i \in 1 .. Len(t) : i \in 1 .. Len(b) \/ i = Len(b) + 1
      BY <1>6, <3>1, <3>2
    <3> QED
      BY <1>5, <1>6, <3>1, <3>3
  <2> QED
    BY <1>4, <2>1, <2>2
<1>8. Has(t, kind) => Has(s, kind)
  BY <1>7 DEF Has
<1>9. ASSUME One(s, kind) PROVE One(t, kind)
  <2> SUFFICES ASSUME NEW i \in 1 .. Len(t), NEW j \in 1 .. Len(t), t[i].kind = kind, t[j].kind = kind
               PROVE  i = j
    BY DEF One
  <2>1. t[i] = s[i + k] /\ i + k \in 1 .. Len(s) /\ t[j] = s[j + k] /\ j + k \in 1 .. Len(s)
    BY <1>7
  <2>2. i + k = j + k
    BY <1>9, <2>1 DEF One
  <2> QED
    BY <1>3, <1>7, <2>2
<1>10. ASSUME kind = "READY", ReadyFirst(s) PROVE ReadyFirst(t)
  <2> SUFFICES ASSUME NEW i \in 1 .. Len(t), NEW j \in 1 .. Len(t), i < j, t[j].kind = "READY"
               PROVE  t[i].n = 0
    BY DEF ReadyFirst
  <2>1. j \in 1 .. Len(b) /\ t[j] = s[j + k] /\ j + k \in 1 .. Len(s)
    BY <1>7, <1>10
  <2>2. i \in 1 .. Len(b)
    BY <1>3, <2>1
  <2>3. t[i] = s[i + k] /\ i + k \in 1 .. Len(s) /\ i + k < j + k
    BY <1>3, <1>7, <2>1, <2>2
  <2> QED
    BY <1>10, <2>1, <2>3 DEF ReadyFirst
<1> QED
  BY <1>8, <1>9, <1>10

\* What an action does to a wire, as a flow.
LEMMA FlowForms ==
    ASSUME NEW s \in Seq(Events), NEW new \in SUBSET Events
    PROVE  /\ Flow(s, s, new) /\ Flow(s, <<>>, new)
           /\ \A k \in 0 .. Len(s) : Flow(s, SubSeq(s, k + 1, Len(s)), new)
           /\ s # <<>> => Flow(s, Tail(s), new)
           /\ \A e \in new : Flow(s, Append(s, e), new) /\ (s # <<>> => Flow(s, Append(Tail(s), e), new))
<1>1. Len(s) \in Nat /\ 0 \in 0 .. Len(s) /\ Len(s) \in 0 .. Len(s)
  OBVIOUS
<1>2. \A i \in 1 .. Len(s) : s[i] \in Events
  BY ElementOfSeq
<1>3. SubSeq(s, 0 + 1, Len(s)) = s
  <2>1. SubSeq(s, 1, Len(s)) = s
    OBVIOUS
  <2> QED
    BY <2>1
<1>4. SubSeq(s, Len(s) + 1, Len(s)) = <<>>
  OBVIOUS
<1>5. s # <<>> => 1 \in 0 .. Len(s) /\ SubSeq(s, 1 + 1, Len(s)) = Tail(s)
  <2>1. s # <<>> => Len(s) # 0 /\ Tail(s) = SubSeq(s, 2, Len(s))
    BY EmptySeq, TailIsSubSeq
  <2> QED
    BY <1>1, <2>1
<1>6. \A k \in 0 .. Len(s) : Flow(s, SubSeq(s, k + 1, Len(s)), new)
                            /\ \A e \in new : Flow(s, Append(SubSeq(s, k + 1, Len(s)), e), new)
  BY DEF Flow
<1> QED
  BY <1>1, <1>3, <1>4, <1>5, <1>6

-----------------------------------------------------------------------------
(* Events without a number carry no frame.                                   *)

LEMMA OnlyFramesCount == \A e \in Events : e.kind \notin {"DATA", "ERR"} => e.n = 0
BY DEF Events, Event, Frames

\* Writing and reading what has no number leaves the frames the same.
LEMMA SameForms ==
    ASSUME NEW s \in Seq(Queued)
    PROVE  /\ Same(s, s)
           /\ s # <<>> /\ Head(s).n = 0 => Same(s, Tail(s))
           /\ \A e \in Queued : e.n = 0 => Same(s, Append(s, e))
           /\ \A e \in Queued : s # <<>> /\ Head(s).n = 0 /\ e.n = 0 => Same(s, Append(Tail(s), e))
<1>1. Same(s, s)
  BY DEF Same
<1>2. ASSUME NEW u \in Seq(Queued), NEW e \in Queued, e.n = 0 PROVE Same(u, Append(u, e))
  <2>1. {e.n} \ {0} = {} /\ ~(e.n > 0)
    BY <1>2
  <2>2. /\ Append(u, e) \in Seq(Queued)
        /\ Numbers(Append(u, e)) = Numbers(u) \cup ({e.n} \ {0})
        /\ Rising(u) => Rising(Append(u, e))
    BY <2>1, Appended
  <2> QED
    BY <2>1, <2>2 DEF Same
<1>3. ASSUME s # <<>>, Head(s).n = 0 PROVE Same(s, Tail(s))
  <2>1. 1 \in 0 .. Len(s) /\ Len(s) \in Nat /\ 1 \in 1 .. Len(s) /\ Head(s) = s[1]
    BY <1>3, EmptySeq
  <2> DEFINE a == SubSeq(s, 1, 1)  b == SubSeq(s, 1 + 1, Len(s))
  <2>2. /\ a \in Seq(Queued) /\ Len(a) = 1 /\ \A i \in 1 .. 1 : a[i] = s[i]
        /\ b \in Seq(Queued)
        /\ Numbers(s) = Numbers(a) \cup Numbers(b)
        /\ Rising(s) => Rising(b)
    BY <2>1, Split
  <2> HIDE DEF a
  <2>3. Numbers(a) = {}
    <3>1. ASSUME NEW n \in Numbers(a) PROVE FALSE
      <4>1. PICK i \in 1 .. Len(a) : a[i].n = n /\ n # 0
        BY InNumbers
      <4>2. a[i] = s[1]
        BY <2>2, <4>1
      <4> QED
        BY <1>3, <2>1, <4>1, <4>2
    <3> QED
      BY <3>1
  <2>4. b = Tail(s)
    BY <1>3, TailIsSubSeq
  <2> QED
    BY <2>2, <2>3, <2>4 DEF Same
<1>4. ASSUME NEW e \in Queued, s # <<>>, Head(s).n = 0, e.n = 0
      PROVE  Same(s, Append(Tail(s), e))
  <2>1. Same(s, Tail(s))
    BY <1>3, <1>4
  <2>2. Tail(s) \in Seq(Queued)
    BY <2>1 DEF Same
  <2>3. Same(Tail(s), Append(Tail(s), e))
    BY <1>2, <1>4, <2>2
  <2> QED
    BY <2>1, <2>3 DEF Same
<1> QED
  BY <1>1, <1>2, <1>3, <1>4
-----------------------------------------------------------------------------
(* The invariant.                                                          *)

Handlers == {"free", "checking", "greeting", "rejecting", "closing", "reclosing"}
Shutdowns == {"no", "closing", "done"}

Expects(x) == flag[x] \/ (x = "client" /\ Has(wire[x], "READY"))
Awake(x) == start[x] \in {"woken", "listening"}
Up == link = "up"

FramesOf(x) ==
    Framed(delivered[x], incoming[x], wire[x], skipped[x], sent[Other(x)], Expects(x), Awake(x), Up)

AuthOnce ==
    /\ One(wire["server"], "AUTH")
    /\ start["client"] = "new" => ~Has(wire["server"], "AUTH")
    /\ start["client"] = "new" \/ Has(wire["server"], "AUTH") =>
         ~allowed /\ handler["server"] # "checking"
    /\ handler["server"] = "checking" => ~allowed

ReadyOnce ==
    /\ One(wire["client"], "READY") /\ ReadyFirst(wire["client"])
    /\ Has(wire["client"], "READY") => ~flag["client"] /\ ~Awake("client")

Silence == ~allowed => \A x \in Ends : sent[x] = 0 /\ start[x] # "listening"

\* An end that has lost its session, or is about to, has told its listen so.
Ending(x) ==
    \/ ~session[x] \/ start[x] = "closing" \/ shutdown[x] = "closing"
    \/ handler[x] \in {"closing", "reclosing"}
NoneQueued(x) == Ending(x) /\ start[x] # "ended" => Has(incoming[x], "NONE")
Flagless(x) == Awake(x) /\ ~flag[x] => ~session[x]

FInv ==
    /\ IInv /\ TypeOK
    /\ AuthOnce /\ ReadyOnce /\ Silence
    /\ \A x \in Ends : NoneQueued(x) /\ Flagless(x) /\ FramesOf(x)

-----------------------------------------------------------------------------
(* What an ordinary step of x does.                                          *)

Carried(y, t) ==
    Flow(wire[y], t, Unmarked(y)) /\ (Same(wire[y], t) \/ (t = <<>> /\ link' = "down"))

\* The life of x goes on or ends, and its listen is told.
Piece(x) ==
    /\ link' \in {"up", "down"} /\ (link' = "up" => link = "up")
    /\ reading' \in [Ends -> BOOLEAN]
    /\ session' \in [Ends -> BOOLEAN] /\ flag' \in [Ends -> BOOLEAN]
    /\ incoming' \in [Ends -> Seq(Queued)]
    /\ \A y \in Ends : y # x => session'[y] = session[y] /\ flag'[y] = flag[y] /\ incoming'[y] = incoming[y]
    /\ flag'[x] => flag[x]
    /\ session'[x] => session[x] /\ flag'[x] = flag[x]
    /\ Grown(incoming[x], incoming'[x])

Phase(x) ==
    /\ start' \in [Ends -> Phases] /\ handler' \in [Ends -> Handlers] /\ shutdown' \in [Ends -> Shutdowns]
    /\ signed' \in BOOLEAN
    /\ \A y \in Ends : y # x => start'[y] = start[y] /\ handler'[y] = handler[y] /\ shutdown'[y] = shutdown[y]
    /\ start'[x] # "ended" => start[x] # "ended"
    /\ start'[x] = "new" => start[x] = "new"
    /\ start'[x] = "listening" => start[x] = "listening" \/ allowed
    /\ Awake(x)' => Awake(x) \/ flag[x]
    /\ handler'[x] = "checking" => handler[x] = "checking"

Still == UNCHANGED <<sent, delivered, skipped, allowed>>

\* Whoever ends a session, or sets out to, has queued NONE.
Told(x) == Ending(x)' => Ending(x) \/ Has(incoming'[x], "NONE") \/ start'[x] = "ended"

Ordinary(x) ==
    /\ Piece(x) /\ Phase(x) /\ Told(x) /\ Still
    /\ \A y \in Ends : Carried(y, wire'[y])

-----------------------------------------------------------------------------
\* The types, as they are used.
LEMMA Typed ==
    ASSUME TypeOK
    PROVE  /\ link \in {"up", "down"} /\ reading \in [Ends -> BOOLEAN] /\ signed \in BOOLEAN
           /\ wire \in [Ends -> Seq(Events)] /\ session \in [Ends -> BOOLEAN] /\ flag \in [Ends -> BOOLEAN]
           /\ start \in [Ends -> Phases] /\ registered \in [Ends -> BOOLEAN]
           /\ handler \in [Ends -> Handlers] /\ shutdown \in [Ends -> Shutdowns]
           /\ incoming \in [Ends -> Seq(Queued)] /\ sent \in [Ends -> Nat]
           /\ delivered \in [Ends -> Seq(Events)] /\ skipped \in [Ends -> SUBSET (Nat \ {0})]
           /\ allowed \in BOOLEAN
           /\ \A x \in Ends : wire[x] \in Seq(Queued) /\ delivered[x] \in Seq(Queued)
           /\ \A x \in Ends : sent[Other(x)] \in Nat
<1>1. \A x \in Ends : Other(x) \in Ends
  BY DEF Ends, Other
<1>2. \A x \in Ends : wire[x] \in Seq(Queued) /\ delivered[x] \in Seq(Queued)
  BY EventSeqs DEF TypeOK
<1> QED
  BY <1>1, <1>2 DEF TypeOK, Phases, Handlers, Shutdowns, Queued

\* Steps that move no frame, for one end.
LEMMA QuietEnd ==
    ASSUME TypeOK, NEW x \in Ends, FramesOf(x),
           delivered'[x] = delivered[x], skipped'[x] = skipped[x], sent'[Other(x)] = sent[Other(x)],
           Grown(incoming[x], incoming'[x]),
           Same(wire[x], wire'[x]) \/ (wire'[x] = <<>> /\ ~Up'),
           Up' => Up,
           Expects(x)' => Expects(x) \/ sent[Other(x)] = 0,
           Awake(x)' => Awake(x) \/ Expects(x) \/ sent[Other(x)] = 0
    PROVE  FramesOf(x)'
<1>1. /\ delivered[x] \in Seq(Queued) /\ incoming[x] \in Seq(Queued) /\ wire[x] \in Seq(Queued)
      /\ sent[Other(x)] \in Nat
  BY Typed
<1>2. /\ Expects(x) \in BOOLEAN /\ Awake(x) \in BOOLEAN /\ Up \in BOOLEAN
      /\ Expects(x)' \in BOOLEAN /\ Awake(x)' \in BOOLEAN /\ Up' \in BOOLEAN
  BY DEF Expects, Awake, Up
<1>3. Framed(delivered[x], incoming[x], wire[x], skipped[x], sent[Other(x)], Expects(x), Awake(x), Up)
  BY DEF FramesOf
<1>4. Framed(delivered[x], incoming'[x], wire'[x], skipped[x], sent[Other(x)], Expects(x)', Awake(x)', Up')
  BY <1>1, <1>2, <1>3, QuietStep
<1> QED
  BY <1>4 DEF FramesOf
-----------------------------------------------------------------------------
(* Ordinary steps keep it.                                                 *)

\* What an ordinary step writes is neither AUTH nor the server's READY.
LEMMA UnmarkedKinds ==
    /\ \A y \in Ends : Unmarked(y) \in SUBSET Events /\ \A e \in Unmarked(y) : e.kind # "AUTH"
    /\ \A e \in Unmarked("client") : e.kind # "READY"
BY DEF Unmarked, Ends

\* The marks stay where they are or go, as the wires carry on.
LEMMA MarksStay ==
    ASSUME TypeOK, \A y \in Ends : Flow(wire[y], wire'[y], Unmarked(y))
    PROVE  /\ Has(wire'["server"], "AUTH") => Has(wire["server"], "AUTH")
           /\ One(wire["server"], "AUTH") => One(wire'["server"], "AUTH")
           /\ Has(wire'["client"], "READY") => Has(wire["client"], "READY")
           /\ One(wire["client"], "READY") => One(wire'["client"], "READY")
           /\ ReadyFirst(wire["client"]) => ReadyFirst(wire'["client"])
<1>1. /\ "server" \in Ends /\ "client" \in Ends
      /\ wire["server"] \in Seq(Events) /\ wire["client"] \in Seq(Events)
  BY Typed DEF Ends
<1>2. /\ Has(wire'["server"], "AUTH") => Has(wire["server"], "AUTH")
      /\ One(wire["server"], "AUTH") => One(wire'["server"], "AUTH")
  BY <1>1, UnmarkedKinds, FlowKeeps
<1>3. /\ Has(wire'["client"], "READY") => Has(wire["client"], "READY")
      /\ One(wire["client"], "READY") => One(wire'["client"], "READY")
      /\ ReadyFirst(wire["client"]) => ReadyFirst(wire'["client"])
  BY <1>1, UnmarkedKinds, FlowKeeps
<1> QED
  BY <1>2, <1>3

\* The handshake is where it was, once the marks on the wires are.
LEMMA ControlKept ==
    ASSUME TypeOK, AuthOnce, ReadyOnce, Silence,
           \A y \in Ends : Flow(wire[y], wire'[y], Unmarked(y)),
           start'["client"] = "new" => start["client"] = "new",
           handler'["server"] = "checking" => handler["server"] = "checking",
           allowed' = allowed,
           flag'["client"] => flag["client"],
           Awake("client")' => Awake("client") \/ flag["client"],
           allowed \/ (sent' = sent /\ \A y \in Ends : start'[y] = "listening" => start[y] = "listening")
    PROVE  AuthOnce' /\ ReadyOnce' /\ Silence'
<1>1. AuthOnce'
  BY MarksStay DEF AuthOnce
<1>2. ReadyOnce'
  BY MarksStay DEF ReadyOnce
<1>3. Silence'
  BY DEF Silence
<1> QED
  BY <1>1, <1>2, <1>3

\* An end none of whose coroutines moves, and the one whose does.
LEMMA BystanderKept ==
    ASSUME NEW y \in Ends, NoneQueued(y), Flagless(y),
           session'[y] = session[y], flag'[y] = flag[y], incoming'[y] = incoming[y],
           start'[y] = start[y], handler'[y] = handler[y], shutdown'[y] = shutdown[y]
    PROVE  NoneQueued(y)' /\ Flagless(y)'
BY DEF NoneQueued, Flagless, Ending, Awake

\* A NONE that is queued stays queued.
LEMMA GrownKeepsNone ==
    ASSUME NEW s \in Seq(Queued), NEW t, Grown(s, t), Has(s, "NONE")
    PROVE  Has(t, "NONE")
<1>1. Len(s) \in Nat /\ Len(t) \in Nat
  BY DEF Grown
<1>2. PICK i \in 1 .. Len(s) : s[i].kind = "NONE"
  BY DEF Has
<1>3. i \in 1 .. Len(t) /\ t[i] = s[i]
  BY <1>1, <1>2 DEF Grown
<1> QED
  BY <1>2, <1>3 DEF Has

\* The end that acts.
LEMMA ActorKept ==
    ASSUME TypeOK, NEW x \in Ends, NoneQueued(x), Flagless(x), Piece(x), Told(x),
           start'[x] # "ended" => start[x] # "ended",
           Awake(x)' => Awake(x) \/ flag[x]
    PROVE  NoneQueued(x)' /\ Flagless(x)'
<1>1. incoming[x] \in Seq(Queued)
  BY Typed
<1>2. Has(incoming[x], "NONE") => Has(incoming'[x], "NONE")
  BY <1>1, GrownKeepsNone DEF Piece
<1>3. NoneQueued(x)'
  <2> SUFFICES ASSUME Ending(x)', start'[x] # "ended" PROVE Has(incoming'[x], "NONE")
    BY DEF NoneQueued
  <2>1. Ending(x) \/ Has(incoming'[x], "NONE")
    BY DEF Told
  <2> QED
    BY <1>2, <2>1 DEF NoneQueued
<1>4. Flagless(x)'
  <2> SUFFICES ASSUME Awake(x)', ~flag'[x] PROVE ~session'[x]
    BY DEF Flagless
  <2> QED
    BY DEF Flagless, Piece
<1> QED
  BY <1>3, <1>4

\* An ordinary step keeps the invariant.
LEMMA OrdinaryKeeps == ASSUME FInv, IInv', NEW x \in Ends, Ordinary(x) PROVE FInv'
<1> USE DEF FInv
<1>0. "client" \in Ends /\ "server" \in Ends /\ \A y \in Ends : Other(y) \in Ends
  BY DEF Ends, Other
<1>1. TypeOK'
  <2>1. Shape'
    BY DEF IInv
  <2>2. /\ link' \in {"up", "down"} /\ reading' \in [Ends -> BOOLEAN]
        /\ signed' \in BOOLEAN /\ handler' \in [Ends -> Handlers]
        /\ shutdown' \in [Ends -> Shutdowns] /\ incoming' \in [Ends -> Seq(Queued)]
    BY DEF Ordinary, Piece, Phase
  <2>3. /\ sent' \in [Ends -> Nat] /\ (\A y \in Ends : sent'[y] <= MaxSent[y])
        /\ delivered' \in [Ends -> Seq(Events)] /\ skipped' \in [Ends -> SUBSET (Nat \ {0})]
    BY DEF Ordinary, Still, TypeOK
  <2> QED
    BY <2>1, <2>2, <2>3 DEF TypeOK, Shape, Phases, Handlers, Shutdowns, Queued
<1>2. AuthOnce' /\ ReadyOnce' /\ Silence'
  <2>1. \A y \in Ends : Flow(wire[y], wire'[y], Unmarked(y))
    BY DEF Ordinary, Carried
  <2>2. start'["client"] = "new" => start["client"] = "new"
    BY <1>0 DEF Ordinary, Phase
  <2>3. handler'["server"] = "checking" => handler["server"] = "checking"
    BY <1>0 DEF Ordinary, Phase
  <2>4. allowed' = allowed /\ sent' = sent
    BY DEF Ordinary, Still
  <2>5. flag'["client"] => flag["client"]
    BY <1>0 DEF Ordinary, Piece
  <2>6. Awake("client")' => Awake("client") \/ flag["client"]
    BY <1>0 DEF Ordinary, Phase, Awake
  <2>7. allowed \/ \A y \in Ends : start'[y] = "listening" => start[y] = "listening"
    BY DEF Ordinary, Phase
  <2> QED
    BY <2>1, <2>2, <2>3, <2>4, <2>5, <2>6, <2>7, ControlKept
<1>3. ASSUME NEW y \in Ends PROVE NoneQueued(y)' /\ Flagless(y)'
  <2>1. CASE y = x
    BY <2>1, ActorKept DEF Ordinary, Phase
  <2>2. CASE y # x
    BY <2>2, BystanderKept DEF Ordinary, Piece, Phase
  <2> QED
    BY <2>1, <2>2
<1>4. ASSUME NEW y \in Ends PROVE FramesOf(y)'
  <2>1. incoming[y] \in Seq(Queued)
    BY Typed
  <2>2. Grown(incoming[y], incoming'[y])
    <3>1. Event("NONE") \in Queued /\ Event("NONE").n = 0
      BY EventFields
    <3>2. Grown(incoming[y], incoming[y])
      BY <2>1, <3>1, GrownByOne
    <3> QED
      BY <3>2 DEF Ordinary, Piece
  <2>3. delivered'[y] = delivered[y] /\ skipped'[y] = skipped[y] /\ sent'[Other(y)] = sent[Other(y)]
    BY DEF Ordinary, Still
  <2>4. Same(wire[y], wire'[y]) \/ (wire'[y] = <<>> /\ ~Up')
    BY DEF Ordinary, Carried, Up
  <2>5. Up' => Up
    BY DEF Ordinary, Piece, Up
  <2>6. Expects(y)' => Expects(y)
    <3>1. flag'[y] => flag[y]
      BY DEF Ordinary, Piece
    <3>2. Has(wire'["client"], "READY") => Has(wire["client"], "READY")
      BY MarksStay DEF Ordinary, Carried
    <3> QED
      BY <3>1, <3>2 DEF Expects
  <2>7. Awake(y)' => Awake(y) \/ Expects(y)
    <3>1. CASE y = x
      BY <3>1 DEF Ordinary, Phase, Expects
    <3>2. CASE y # x
      BY <3>2 DEF Ordinary, Phase, Awake
    <3> QED
      BY <3>1, <3>2
  <2> QED
    BY <2>2, <2>3, <2>4, <2>5, <2>6, <2>7, QuietEnd
<1> QED
  BY <1>1, <1>2, <1>3, <1>4
-----------------------------------------------------------------------------
(* The pieces of ordinary steps.                                           *)

\* The wires of an ordinary step: an event without a number may be read, and one
\* written.
LEMMA WiresCarryOn ==
    ASSUME TypeOK, NEW x \in Ends, NEW w,
           w = wire \/ (w = Read(x) /\ wire[x] # <<>> /\ Head(wire[x]).n = 0),
           wire' = w \/ \E e \in Unmarked(Other(x)) : e.n = 0 /\ wire' = Written(w, x, e)
    PROVE  \A y \in Ends : Carried(y, wire'[y])
<1> SUFFICES ASSUME NEW y \in Ends PROVE Carried(y, wire'[y])
  OBVIOUS
<1>1. wire \in [Ends -> Seq(Events)] /\ wire[y] \in Seq(Events) /\ wire[y] \in Seq(Queued)
  BY Typed
<1>2. Other(x) \in Ends /\ x # Other(x)
  BY DEF Ends, Other
<1>3. /\ w \in [Ends -> Seq(Events)]
      /\ w[y] = wire[y] \/ (y = x /\ w[y] = Tail(wire[y]) /\ wire[y] # <<>> /\ Head(wire[y]).n = 0)
  <2>1. CASE w = wire
    BY <1>1, <2>1
  <2>2. CASE w = Read(x) /\ wire[x] # <<>> /\ Head(wire[x]).n = 0
    <3>1. wire[x] \in Seq(Events) /\ Tail(wire[x]) \in Seq(Events)
      BY <1>1, <2>2, HeadTailProperties
    <3> QED
      BY <1>1, <2>2, <3>1 DEF Read
  <2> QED
    BY <2>1, <2>2
<1>4. \/ wire'[y] = w[y]
      \/ /\ y = Other(x) /\ w[y] = wire[y]
         /\ \E e \in Unmarked(y) : e.n = 0 /\ wire'[y] = Append(wire[y], e)
  <2>1. CASE wire' = w
    BY <2>1
  <2>2. CASE \E e \in Unmarked(Other(x)) : e.n = 0 /\ wire' = Written(w, x, e)
    <3>1. PICK e \in Unmarked(Other(x)) : e.n = 0 /\ wire' = Written(w, x, e)
      BY <2>2
    <3>2. CASE y = Other(x)
      BY <1>2, <1>3, <3>1, <3>2 DEF Written
    <3>3. CASE y # Other(x)
      BY <1>3, <3>1, <3>3 DEF Written
    <3> QED
      BY <3>2, <3>3
  <2> QED
    BY <2>1, <2>2
<1>5. CASE wire'[y] = wire[y]
  BY <1>1, <1>5, UnmarkedKinds, FlowForms, SameForms DEF Carried
<1>6. CASE wire'[y] = Tail(wire[y]) /\ wire[y] # <<>> /\ Head(wire[y]).n = 0
  BY <1>1, <1>6, UnmarkedKinds, FlowForms, SameForms DEF Carried
<1>7. CASE \E e \in Unmarked(y) : e.n = 0 /\ wire'[y] = Append(wire[y], e)
  <2>1. PICK e \in Unmarked(y) : e.n = 0 /\ wire'[y] = Append(wire[y], e)
    BY <1>7
  <2>2. e \in Queued
    BY UnmarkedKinds, EventFields
  <2> QED
    BY <1>1, <2>1, <2>2, UnmarkedKinds, FlowForms, SameForms DEF Carried
<1> QED
  BY <1>3, <1>4, <1>5, <1>6, <1>7

\* No wire changes; every wire is cut.
LEMMA WiresKept == ASSUME TypeOK, wire' = wire PROVE \A y \in Ends : Carried(y, wire'[y])
BY "client" \in Ends, WiresCarryOn DEF Ends

LEMMA WiresLost ==
    ASSUME TypeOK, link' = "down", wire' = [y \in Ends |-> <<>>]
    PROVE  \A y \in Ends : Carried(y, wire'[y])
BY Typed, UnmarkedKinds, FlowForms DEF Carried

\* The events that may be written in an ordinary step.
LEMMA PlainEvents ==
    /\ \A y \in Ends : \A k \in {"ERR", "DISCONNECT"} : Event(k) \in Unmarked(y) /\ Event(k).n = 0
    /\ Event("READY") \in Unmarked("server") /\ Event("READY").n = 0
    /\ Event("READY") \in Queued /\ Event("READY").n = 0
    /\ Event("NONE") \in Queued /\ Event("NONE").n = 0 /\ Event("NONE").kind = "NONE"
BY DEF Unmarked, Queued, Events, Event

-----------------------------------------------------------------------------
(* What becomes of an end.                                                   *)

\* The end goes on as it was.
LEMMA PieceStill ==
    ASSUME TypeOK, NEW x \in Ends, UNCHANGED <<session, reading, flag>>,
           link' = link, incoming' = incoming
    PROVE  Piece(x)
<1>1. incoming[x] \in Seq(Queued)
  BY Typed
<1>2. Grown(incoming[x], incoming[x])
  BY <1>1, PlainEvents, GrownByOne
<1> QED
  BY <1>2, Typed DEF Piece

\* One more event without a number is queued.
LEMMA PieceQueued ==
    ASSUME TypeOK, NEW x \in Ends, UNCHANGED <<session, flag>>, link' = link,
           reading' \in [Ends -> BOOLEAN],
           NEW e \in Queued, e.n = 0, incoming' = [incoming EXCEPT ![x] = Append(@, e)]
    PROVE  Piece(x)
<1>1. incoming[x] \in Seq(Queued) /\ incoming \in [Ends -> Seq(Queued)]
  BY Typed
<1>2. Grown(incoming[x], Append(incoming[x], e)) /\ Append(incoming[x], e) \in Seq(Queued)
  BY <1>1, Appended, GrownByOne
<1> QED
  BY <1>1, <1>2, Typed DEF Piece

\* stop_listener has queued NONE.
LEMMA LastIsThere ==
    ASSUME NEW s \in Seq(Queued)
    PROVE  Has(Append(s, Sentinel), "NONE")
<1>1. Len(Append(s, Sentinel)) = Len(s) + 1 /\ Len(s) \in Nat /\ Append(s, Sentinel)[Len(s) + 1] = Sentinel
  BY PlainEvents, Appended DEF Sentinel
<1> QED
  BY <1>1, PlainEvents DEF Has, Sentinel

\* handle_disconnect, the first half of close, and the second.
LEMMA DropPiece ==
    ASSUME TypeOK, NEW x \in Ends, NEW q \in Seq(Queued), Grown(incoming[x], q), Drop(x, q)
    PROVE  Piece(x) /\ (session[x] => Has(incoming'[x], "NONE")) /\ link' \in {"down", link}
<1>1. incoming[x] \in Seq(Queued) /\ incoming \in [Ends -> Seq(Queued)]
  BY Typed
<1>2. CASE session[x]
  <2>1. incoming'[x] = Append(q, Sentinel) /\ incoming' = [incoming EXCEPT ![x] = Append(q, Sentinel)]
    <3>1. Append(q, Sentinel) = q \o <<Sentinel>>
      BY PlainEvents, GrownByOne DEF Sentinel
    <3> QED
      BY <1>1, <1>2, <3>1 DEF Drop, Farewell
  <2>2. Append(q, Sentinel) \in Seq(Queued) /\ Grown(q, Append(q, Sentinel))
    BY PlainEvents, Appended, GrownByOne DEF Sentinel
  <2>3. Grown(incoming[x], Append(q, Sentinel))
    BY <1>1, <2>2, GrownTwice
  <2>4. Has(Append(q, Sentinel), "NONE")
    BY LastIsThere
  <2> QED
    BY <1>1, <1>2, <2>1, <2>2, <2>3, <2>4, Typed DEF Drop, Piece
<1>3. CASE ~session[x]
  <2>1. incoming' = [incoming EXCEPT ![x] = q]
    BY <1>3 DEF Drop, Farewell
  <2> QED
    BY ZenonT(60), <1>1, <1>3, <2>1, Typed DEF Drop, Piece
<1> QED
  BY <1>2, <1>3

LEMMA BeginClosePiece ==
    ASSUME TypeOK, NEW x \in Ends, NEW w, BeginClose(x, w)
    PROVE  /\ Piece(x) /\ (session[x] => Has(incoming'[x], "NONE")) /\ session' = session
           /\ wire' = w \/ \E e \in Unmarked(Other(x)) : e.n = 0 /\ wire' = Written(w, x, e)
<1>1. incoming[x] \in Seq(Queued) /\ incoming \in [Ends -> Seq(Queued)] /\ Other(x) \in Ends
  BY Typed DEF Ends, Other
<1>2. CASE session[x]
  <2>1. Piece(x)
    BY <1>2, PlainEvents, PieceQueued, Typed DEF BeginClose, Sentinel
  <2>2. Has(incoming'[x], "NONE")
    BY <1>1, <1>2, LastIsThere DEF BeginClose
  <2> QED
    BY <1>1, <1>2, <2>1, <2>2, PlainEvents DEF BeginClose
<1>3. CASE ~session[x]
  <2>1. Grown(incoming[x], incoming[x])
    BY <1>1, PlainEvents, GrownByOne
  <2>2. Piece(x)
    BY <1>1, <1>3, <2>1, Typed DEF BeginClose, Piece
  <2> QED
    BY <1>3, <2>2 DEF BeginClose
<1> QED
  BY <1>2, <1>3

LEMMA ClosedPiece ==
    ASSUME TypeOK, NEW x \in Ends, CloseReturns(x) \/ CloseRaises(x), incoming' = incoming
    PROVE  Piece(x)
<1>1. incoming[x] \in Seq(Queued) /\ incoming \in [Ends -> Seq(Queued)]
  BY Typed
<1>2. Grown(incoming[x], incoming[x])
  BY <1>1, PlainEvents, GrownByOne
<1>3. CASE CloseReturns(x)
  BY <1>1, <1>2, <1>3, Typed DEF CloseReturns, Piece
<1>4. CASE CloseRaises(x)
  BY <1>4, PieceStill DEF CloseRaises, life
<1> QED
  BY <1>3, <1>4
-----------------------------------------------------------------------------
(* The actions that are ordinary steps.                                    *)

\* A start that was woken was woken by a READY of a server that allows.
LEMMA WokenIsAllowed == ASSUME FInv, NEW x \in Ends, start[x] = "woken" \/ flag[x] PROVE allowed
BY DEF FInv, IInv, Innocent

\* Steps of start and listen.
LEMMA OrdinaryStarts ==
    ASSUME FInv, NEW x \in Ends,
           (x = "client" /\ AuthSent) \/ StartTimesOut(x) \/ StartClosed(x) \/ Register(x)
    PROVE  Ordinary(x)
<1>0. TypeOK
  BY DEF FInv
<1> USE Typed, <1>0
<1>1. CASE x = "client" /\ AuthSent
  <2>1. Piece(x) /\ Still /\ \A y \in Ends : Carried(y, wire'[y])
    BY <1>1, PieceStill, WiresKept DEF AuthSent, net, life, past, Still
  <2>2. Phase(x)
    BY <1>1 DEF AuthSent, Phase, Phases, Awake
  <2>3. Told(x)
    BY <1>1 DEF AuthSent, Told, Ending, life
  <2> QED
    BY <2>1, <2>2, <2>3 DEF Ordinary
<1>2. CASE StartTimesOut(x)
  <2>1. /\ Piece(x) /\ (session[x] => Has(incoming'[x], "NONE")) /\ session' = session
        /\ \A y \in Ends : Carried(y, wire'[y])
    BY <1>2, BeginClosePiece, WiresCarryOn DEF StartTimesOut
  <2>2. Phase(x) /\ Still
    BY <1>2 DEF StartTimesOut, Closing, Phase, Phases, Awake, Still, past
  <2>3. Told(x)
    BY <1>2, <2>1 DEF StartTimesOut, Told, Ending
  <2> QED
    BY <2>1, <2>2, <2>3 DEF Ordinary
<1>3. CASE StartClosed(x)
  <2>1. Piece(x)
    BY <1>3, ClosedPiece DEF StartClosed
  <2>2. Phase(x) /\ Still /\ \A y \in Ends : Carried(y, wire'[y])
    BY <1>3, WiresKept DEF StartClosed, Phase, Phases, Awake, Still, past
  <2>3. Told(x)
    BY <1>3 DEF StartClosed, Told
  <2> QED
    BY <2>1, <2>2, <2>3 DEF Ordinary
<1>4. CASE Register(x)
  <2>1. Piece(x) /\ Still /\ \A y \in Ends : Carried(y, wire'[y])
    BY <1>4, PieceStill, WiresKept DEF Register, net, Still
  <2>2. Phase(x)
    BY <1>4, WokenIsAllowed DEF Register, Phase, Phases, Awake
  <2>3. Told(x)
    BY <1>4 DEF Register, Told, Ending
  <2> QED
    BY <2>1, <2>2, <2>3 DEF Ordinary
<1> QED
  BY <1>1, <1>2, <1>3, <1>4

\* Steps of the rest of the program and of the world.
LEMMA OrdinaryWorld ==
    ASSUME FInv, NEW x \in Ends,
           Rerotate(x) \/ Terminate(x) \/ Terminated(x) \/ Lost(x) \/ Break \/ UNCHANGED vars
    PROVE  Ordinary(x)
<1>0. TypeOK
  BY DEF FInv
<1> USE Typed, <1>0
<1>1. CASE Rerotate(x)
  <2>1. Piece(x) /\ Still /\ \A y \in Ends : Carried(y, wire'[y])
    BY <1>1, PieceStill, WiresKept DEF Rerotate, net, past, Still
  <2>2. Phase(x) /\ Told(x)
    BY <1>1 DEF Rerotate, Phase, Awake, Told, Ending
  <2> QED
    BY <2>1, <2>2 DEF Ordinary
<1>2. CASE Terminate(x)
  <2>1. /\ Piece(x) /\ (session[x] => Has(incoming'[x], "NONE")) /\ session' = session
        /\ \A y \in Ends : Carried(y, wire'[y])
    BY <1>2, BeginClosePiece, WiresCarryOn DEF Terminate
  <2>2. Phase(x) /\ Still
    BY <1>2 DEF Terminate, Closing, Phase, Shutdowns, Awake, Still, past
  <2>3. Told(x)
    BY <1>2, <2>1 DEF Terminate, Told, Ending
  <2> QED
    BY <2>1, <2>2, <2>3 DEF Ordinary
<1>3. CASE Terminated(x)
  <2>1. Piece(x)
    BY <1>3, ClosedPiece DEF Terminated
  <2>2. Phase(x) /\ Still /\ \A y \in Ends : Carried(y, wire'[y])
    BY <1>3, WiresKept DEF Terminated, Phase, Shutdowns, Awake, Still, past
  <2>3. Told(x)
    BY <1>3 DEF Terminated, Told, Ending
  <2> QED
    BY <2>1, <2>2, <2>3 DEF Ordinary
<1>4. CASE Lost(x)
  <2>1. incoming[x] \in Seq(Queued) /\ Grown(incoming[x], incoming[x])
    BY PlainEvents, GrownByOne
  <2>2. Piece(x) /\ (session[x] => Has(incoming'[x], "NONE"))
    BY <1>4, <2>1, DropPiece DEF Lost
  <2>3. Phase(x) /\ Still /\ \A y \in Ends : Carried(y, wire'[y])
    BY <1>4, WiresKept DEF Lost, Phase, Awake, Still, past
  <2>4. Told(x)
    BY <2>2 DEF Told, Ending
  <2> QED
    BY <2>2, <2>3, <2>4 DEF Ordinary
<1>5. CASE Break
  <2>1. Piece(x)
    <3>1. Grown(incoming[x], incoming[x])
      BY PlainEvents, GrownByOne
    <3> QED
      BY <1>5, <3>1 DEF Break, life, Piece
  <2>2. Still /\ Phase(x) /\ Told(x) /\ \A y \in Ends : Carried(y, wire'[y])
    BY <1>5, WiresLost DEF Break, life, past, Still, Phase, Awake, Told, Ending
  <2> QED
    BY <2>1, <2>2 DEF Ordinary
<1>6. CASE UNCHANGED vars
  <2>1. Piece(x) /\ Still /\ \A y \in Ends : Carried(y, wire'[y])
    BY <1>6, PieceStill, WiresKept DEF vars, net, life, past, Still
  <2>2. Phase(x) /\ Told(x)
    BY <1>6 DEF vars, life, Phase, Awake, Told, Ending
  <2> QED
    BY <2>1, <2>2 DEF Ordinary
<1> QED
  BY <1>1, <1>2, <1>3, <1>4, <1>5, <1>6

\* The handler reads an event without a number, and answers it or not.
LEMMA FirstIsPlain ==
    ASSUME TypeOK, NEW x \in Ends, NEW kind, Handles(x, kind), kind \notin {"DATA", "ERR"}
    PROVE  wire[x] # <<>> /\ Head(wire[x]).n = 0
<1>1. wire[x] # <<>> /\ Head(wire[x]) \in Events /\ Head(wire[x]).kind = kind
  <2>1. wire[x] \in Seq(Events) /\ wire[x] # <<>>
    BY Typed DEF Handles
  <2> QED
    BY <2>1, HeadTailProperties DEF Handles
<1> QED
  BY <1>1, OnlyFramesCount

\* Steps of _on_event that read an event, and those that end something.
LEMMA OrdinaryReads ==
    ASSUME FInv, NEW x \in Ends,
           OnDisconnect(x) \/ OnReadyMismatch(x) \/ (x = "server" /\ OnServerReady)
    PROVE  Ordinary(x)
<1>0. TypeOK
  BY DEF FInv
<1> USE Typed, <1>0
<1>9. /\ incoming[x] \in Seq(Queued) /\ Grown(incoming[x], incoming[x])
      /\ Append(incoming[x], Event("READY")) \in Seq(Queued)
      /\ Grown(incoming[x], Append(incoming[x], Event("READY")))
  BY PlainEvents, GrownByOne, Appended
<1>1. CASE OnDisconnect(x)
  <2>1. Piece(x) /\ (session[x] => Has(incoming'[x], "NONE"))
    BY <1>1, <1>9, DropPiece DEF OnDisconnect
  <2>2. \A y \in Ends : Carried(y, wire'[y])
    BY <1>1, FirstIsPlain, WiresCarryOn DEF OnDisconnect
  <2>3. Phase(x) /\ Still
    BY <1>1 DEF OnDisconnect, Phase, Awake, Still, past
  <2>4. Told(x)
    BY <2>1 DEF Told, Ending, OnDisconnect
  <2> QED
    BY <2>1, <2>2, <2>3, <2>4 DEF Ordinary
<1>2. CASE OnReadyMismatch(x)
  <2>0. wire[x] # <<>> /\ Head(wire[x]).n = 0 /\ handler[x] = "free"
    BY <1>2, FirstIsPlain DEF OnReadyMismatch, Handles
  <2>1. Still /\ UNCHANGED <<signed, start, shutdown>>
    BY <1>2 DEF OnReadyMismatch, past, Still
  <2>2. CASE /\ session[x]
             /\ wire' = Written(Read(x), x, Event("ERR"))
             /\ incoming' = [incoming EXCEPT ![x] = Append(@, Event("READY"))]
             /\ Goto(x, "rejecting")
             /\ UNCHANGED <<life, link>>
    <3>1. Piece(x)
      BY <2>2, PlainEvents, PieceQueued DEF life
    <3>2. \A y \in Ends : Carried(y, wire'[y])
      BY <2>0, <2>2, PlainEvents, WiresCarryOn, Other(x) \in Ends DEF Other, Ends
    <3>3. Phase(x) /\ Told(x)
      BY <2>0, <2>1, <2>2 DEF Goto, Handlers, Phase, Awake, Told, Ending, life
    <3> QED
      BY <2>1, <3>1, <3>2, <3>3 DEF Ordinary
  <2>3. CASE /\ ~session[x]
             /\ Drop(x, Append(incoming[x], Event("READY")))
             /\ wire' = Read(x) /\ UNCHANGED handler
    <3>1. Piece(x)
      BY <1>9, <2>3, DropPiece
    <3>2. \A y \in Ends : Carried(y, wire'[y])
      BY <2>0, <2>3, WiresCarryOn
    <3>3. Phase(x) /\ Told(x)
      BY <2>1, <2>3 DEF Phase, Awake, Told, Ending
    <3> QED
      BY <2>1, <3>1, <3>2, <3>3 DEF Ordinary
  <2> QED
    BY <1>2, <2>2, <2>3 DEF OnReadyMismatch
<1>3. CASE x = "server" /\ OnServerReady
  <2>1. Piece(x)
    BY <1>3, PlainEvents, PieceQueued DEF OnServerReady, life
  <2>2. \A y \in Ends : Carried(y, wire'[y])
    BY <1>3, FirstIsPlain, WiresCarryOn DEF OnServerReady
  <2>3. Phase(x) /\ Told(x) /\ Still
    BY <1>3 DEF OnServerReady, Phase, Awake, Told, Ending, life, past, Still
  <2> QED
    BY <2>1, <2>2, <2>3 DEF Ordinary
<1> QED
  BY <1>1, <1>2, <1>3

LEMMA OrdinaryEnds ==
    ASSUME FInv, NEW x \in Ends, Greeted(x) \/ Rejected(x) \/ HandlerClosed(x)
    PROVE  Ordinary(x)
<1>0. TypeOK
  BY DEF FInv
<1> USE Typed, <1>0
<1>1. Still /\ UNCHANGED <<signed, start, shutdown>>
  BY DEF Greeted, Rejected, HandlerClosed, past, Still
<1>2. ASSUME Drop(x, incoming[x]), wire' = wire, Goto(x, "free") PROVE Ordinary(x)
  <2>0. incoming[x] \in Seq(Queued) /\ Grown(incoming[x], incoming[x])
    BY PlainEvents, GrownByOne
  <2>1. Piece(x) /\ (session[x] => Has(incoming'[x], "NONE"))
    BY <1>2, <2>0, DropPiece
  <2>2. Phase(x) /\ \A y \in Ends : Carried(y, wire'[y])
    BY <1>1, <1>2, WiresKept DEF Goto, Handlers, Phase, Awake
  <2>3. Told(x)
    BY <2>1 DEF Told, Ending
  <2> QED
    BY <1>1, <2>1, <2>2, <2>3 DEF Ordinary
<1>3. ASSUME BeginClose(x, wire), NEW next \in {"closing", "reclosing"},
             Goto(x, IF session[x] THEN next ELSE "free")
      PROVE  Ordinary(x)
  <2>1. /\ Piece(x) /\ (session[x] => Has(incoming'[x], "NONE")) /\ session' = session
        /\ \A y \in Ends : Carried(y, wire'[y])
    BY <1>3, BeginClosePiece, WiresCarryOn
  <2>2. Phase(x)
    BY <1>1, <1>3 DEF Goto, Handlers, Phase, Awake
  <2>3. Told(x)
    BY <1>1, <1>3, <2>1 DEF Goto, Told, Ending
  <2> QED
    BY <1>1, <2>1, <2>2, <2>3 DEF Ordinary
<1>4. ASSUME CloseReturns(x) \/ CloseRaises(x), Goto(x, "free"), UNCHANGED <<wire, incoming>>,
             handler[x] \in {"closing", "reclosing"}
      PROVE  Ordinary(x)
  <2>1. Piece(x)
    BY <1>4, ClosedPiece
  <2>2. Phase(x) /\ \A y \in Ends : Carried(y, wire'[y])
    BY <1>1, <1>4, WiresKept DEF Goto, Handlers, Phase, Awake
  <2>3. Told(x)
    BY <1>4 DEF Told, Ending
  <2> QED
    BY <1>1, <2>1, <2>2, <2>3 DEF Ordinary
<1>5. CASE Greeted(x)
  <2>1. CASE UNCHANGED <<life, link, incoming>>
    <3>1. Piece(x)
      BY <2>1, PieceStill DEF life
    <3>2. Phase(x) /\ Told(x) /\ \A y \in Ends : Carried(y, wire'[y])
      BY <1>1, <1>5, <2>1, WiresKept DEF Greeted, Goto, Handlers, Phase, Awake, Told, Ending, life
    <3> QED
      BY <1>1, <3>1, <3>2 DEF Ordinary
  <2> QED
    BY <1>2, <1>5, <2>1 DEF Greeted
<1>6. CASE Rejected(x)
  BY <1>2, <1>3, <1>6 DEF Rejected, Closing
<1>7. CASE HandlerClosed(x)
  <2>0. handler[x] \in {"closing", "reclosing"}
    BY <1>7 DEF HandlerClosed
  <2>1. \/ (CloseReturns(x) \/ CloseRaises(x)) /\ Goto(x, "free") /\ UNCHANGED <<wire, incoming>>
        \/ Drop(x, incoming[x]) /\ Goto(x, "free") /\ UNCHANGED wire
        \/ BeginClose(x, wire) /\ Goto(x, IF session[x] THEN "reclosing" ELSE "free")
    BY <1>7 DEF HandlerClosed
  <2> QED
    BY <1>2, <1>3, <1>4, <2>0, <2>1
<1> QED
  BY <1>5, <1>6, <1>7
-----------------------------------------------------------------------------
(* The handshake.                                                          *)

\* The types of a step that passes no frame.
LEMMA TypeNext ==
    ASSUME TypeOK, IInv', link' \in {"up", "down"}, reading' \in [Ends -> BOOLEAN], signed' \in BOOLEAN,
           handler' \in [Ends -> Handlers], shutdown' \in [Ends -> Shutdowns],
           incoming' \in [Ends -> Seq(Queued)],
           sent' = sent, delivered' = delivered, skipped' = skipped
    PROVE  TypeOK'
BY DEF TypeOK, IInv, Shape, Phases, Handlers, Shutdowns, Queued

\* The only event of its kind is read.
LEMMA ReadAway ==
    ASSUME NEW s \in Seq(Events), s # <<>>, NEW kind, Head(s).kind = kind, One(s, kind)
    PROVE  Has(s, kind) /\ ~Has(Tail(s), kind)
<1>1. /\ Len(s) \in Nat /\ Len(s) > 0 /\ Head(s) = s[1] /\ Len(Tail(s)) = Len(s) - 1
      /\ \A i \in 1 .. Len(Tail(s)) : Tail(s)[i] = s[i + 1]
  BY HeadTailProperties, EmptySeq
<1>2. Has(s, kind)
  BY <1>1 DEF Has
<1>3. ASSUME NEW i \in 1 .. Len(Tail(s)), Tail(s)[i].kind = kind PROVE FALSE
  <2>1. i + 1 \in 1 .. Len(s) /\ s[i + 1].kind = kind /\ 1 \in 1 .. Len(s) /\ s[1].kind = kind
    BY <1>1, <1>3
  <2>2. i + 1 = 1
    BY <2>1 DEF One
  <2> QED
    BY <1>1, <2>2
<1> QED
  BY <1>2, <1>3 DEF Has

\* The event written last is the only one of its kind.
LEMMA WrittenOnce ==
    ASSUME NEW s \in Seq(Events), NEW e \in Events, ~Has(s, e.kind)
    PROVE  One(Append(s, e), e.kind)
<1>1. /\ Len(s) \in Nat /\ Len(Append(s, e)) = Len(s) + 1
      /\ \A i \in 1 .. Len(s) : Append(s, e)[i] = s[i]
  BY AppendProperties
<1>2. \A i \in 1 .. Len(Append(s, e)) : i \in 1 .. Len(s) \/ i = Len(s) + 1
  BY <1>1
<1> QED
  BY <1>1, <1>2 DEF One, Has

-----------------------------------------------------------------------------
\* AUTH is written once, before anything is allowed.
LEMMA SendAuthKeeps == ASSUME FInv, IInv', SendAuth PROVE FInv'
<1> USE DEF FInv
<1>0. /\ "client" \in Ends /\ "server" \in Ends /\ Other("client") = "server"
      /\ Event("AUTH") \in Events /\ Event("AUTH").kind = "AUTH" /\ Event("AUTH").n = 0
      /\ Event("AUTH") \in Queued
  BY DEF Ends, Other, Events, Event, Queued
<1>1. CASE ~session["client"]
  <2>1. Piece("client") /\ Still /\ \A y \in Ends : Carried(y, wire'[y])
    BY <1>0, <1>1, PieceStill, WiresKept DEF SendAuth, life, past, Still
  <2>2. Phase("client") /\ Told("client")
    BY <1>0, <1>1, Typed DEF SendAuth, Phase, Phases, Awake, Told, Ending, life
  <2>3. Ordinary("client")
    BY <2>1, <2>2 DEF Ordinary
  <2> QED
    BY <1>0, <2>3, OrdinaryKeeps
<1>2. CASE session["client"]
  <2>1. /\ UNCHANGED <<link, session, reading, flag, signed, handler, shutdown, incoming>>
        /\ UNCHANGED <<sent, delivered, skipped, allowed>>
        /\ start["client"] = "new" /\ start' = [start EXCEPT !["client"] = "sending"]
    BY <1>2 DEF SendAuth, life, past
  <2>2. /\ wire'["client"] = wire["client"]
        /\ wire'["server"] = wire["server"] \/ wire'["server"] = Append(wire["server"], Event("AUTH"))
        /\ wire["server"] \in Seq(Events) /\ wire["client"] \in Seq(Events)
        /\ wire["server"] \in Seq(Queued) /\ wire["client"] \in Seq(Queued)
    BY <1>0, <1>2, Typed DEF SendAuth, Written
  <2>3. TypeOK'
    BY <2>1, TypeNext, Typed
  <2>4. AuthOnce'
    <3>1. ~Has(wire["server"], "AUTH") /\ ~allowed /\ handler["server"] # "checking"
      BY <2>1 DEF AuthOnce
    <3>2. One(wire'["server"], "AUTH")
      BY <1>0, <2>2, <3>1, WrittenOnce DEF AuthOnce
    <3> QED
      BY <2>1, <3>1, <3>2, <1>0, Typed DEF AuthOnce
  <2>5. ReadyOnce' /\ Silence'
    BY <1>0, <2>1, <2>2, Typed DEF ReadyOnce, Silence, Awake
  <2>6. ASSUME NEW y \in Ends PROVE NoneQueued(y)' /\ Flagless(y)' /\ FramesOf(y)'
    <3>1. NoneQueued(y)' /\ Flagless(y)'
      BY <2>1, Typed DEF NoneQueued, Flagless, Ending, Awake
    <3>2. Grown(incoming[y], incoming[y])
      BY Typed, PlainEvents, GrownByOne
    <3>3. Same(wire[y], wire'[y])
      BY <1>0, <2>2, SameForms DEF Ends
    <3>4. Expects(y)' => Expects(y)
      BY <2>1, <2>2 DEF Expects
    <3>5. Awake(y)' => Awake(y)
      BY <2>1, Typed DEF Awake
    <3> QED
      BY <2>1, <3>1, <3>2, <3>3, <3>4, <3>5, QuietEnd DEF Up
  <2> QED
    BY <2>3, <2>4, <2>5, <2>6
<1> QED
  BY <1>1, <1>2

\* AUTH is read once: the strategy is asked once.
LEMMA OnAuthKeeps == ASSUME FInv, IInv', OnAuth PROVE FInv'
<1> USE DEF FInv
<1>0. "client" \in Ends /\ "server" \in Ends
  BY DEF Ends
<1>1. /\ wire["server"] # <<>> /\ Head(wire["server"]).n = 0 /\ Head(wire["server"]).kind = "AUTH"
      /\ handler["server"] = "free" /\ wire' = Read("server")
  BY <1>0, FirstIsPlain DEF OnAuth, Handles
<1>2. \A y \in Ends : Carried(y, wire'[y])
  BY <1>0, <1>1, WiresCarryOn
<1>3. /\ UNCHANGED <<link, session, reading, flag, signed, start, shutdown, incoming>>
      /\ UNCHANGED <<sent, delivered, skipped, allowed>>
  BY DEF OnAuth, life, past
<1>4. CASE flag["server"]
  <2>1. Piece("server") /\ Still
    BY <1>0, <1>3, PieceStill DEF Still
  <2>2. Phase("server") /\ Told("server")
    BY <1>0, <1>3, <1>4, Typed DEF OnAuth, Phase, Awake, Told, Ending
  <2>3. Ordinary("server")
    BY <1>2, <2>1, <2>2 DEF Ordinary
  <2> QED
    BY <1>0, <2>3, OrdinaryKeeps
<1>5. CASE ~flag["server"]
  <2>1. handler' = [handler EXCEPT !["server"] = "checking"]
    BY <1>5 DEF OnAuth, Goto
  <2>2. TypeOK'
    <3>1. handler' \in [Ends -> Handlers]
      BY <2>1, Typed DEF Handlers
    <3> QED
      BY <1>3, <3>1, TypeNext, Typed
  <2>3. AuthOnce'
    <3>1. wire["server"] \in Seq(Events) /\ wire'["server"] = Tail(wire["server"])
      BY <1>0, <1>1, Typed DEF Read
    <3>2. Has(wire["server"], "AUTH") /\ ~Has(wire'["server"], "AUTH")
      BY <1>1, <3>1, ReadAway DEF AuthOnce
    <3>3. ~allowed /\ start["client"] # "new"
      BY <3>2 DEF AuthOnce
    <3> QED
      BY <1>3, <3>2, <3>3 DEF AuthOnce, One, Has
  <2>4. ReadyOnce' /\ Silence'
    <3>1. wire'["client"] = wire["client"]
      BY <1>0, <1>1, Typed DEF Read
    <3> QED
      BY <1>3, <3>1 DEF ReadyOnce, Silence, Awake
  <2>5. ASSUME NEW y \in Ends PROVE NoneQueued(y)' /\ Flagless(y)' /\ FramesOf(y)'
    <3>1. NoneQueued(y)' /\ Flagless(y)'
      BY <1>1, <1>3, <2>1, Typed DEF NoneQueued, Flagless, Ending, Awake
    <3>2. Grown(incoming[y], incoming[y])
      BY Typed, PlainEvents, GrownByOne
    <3>3. Same(wire[y], wire'[y]) \/ (wire'[y] = <<>> /\ ~Up')
      BY <1>2 DEF Carried, Up
    <3>4. Expects(y)' => Expects(y)
      BY <1>0, <1>1, <1>3, Typed DEF Expects, Read
    <3> QED
      BY <1>3, <3>1, <3>2, <3>3, <3>4, QuietEnd DEF Up, Awake
  <2> QED
    BY <2>2, <2>3, <2>4, <2>5
<1> QED
  BY <1>4, <1>5

\* Nothing that is sent is numbered before the strategy has allowed the client.
LEMMA NoFrameYet ==
    ASSUME FInv, ~allowed
    PROVE  /\ Innocent
           /\ \A x \in Ends : sent[Other(x)] = 0
           /\ \A i \in 1 .. Len(wire["client"]) : wire["client"][i].n = 0
<1>1. "client" \in Ends /\ \A x \in Ends : Other(x) \in Ends
  BY DEF Ends, Other
<1>2. \A x \in Ends : sent[Other(x)] = 0
  BY <1>1 DEF FInv, Silence
<1>3. \A n \in Numbers(wire["client"]) : n <= 0
  BY <1>1, <1>2 DEF FInv, FramesOf, Framed, InRow
<1>4. wire["client"] \in Seq(Queued)
  BY <1>1, Typed DEF FInv
<1>5. ASSUME NEW i \in 1 .. Len(wire["client"]) PROVE wire["client"][i].n = 0
  <2>1. wire["client"][i].n \in Nat /\ (wire["client"][i].n > 0 => wire["client"][i].n \in Numbers(wire["client"]))
    BY <1>4, Element
  <2> QED
    BY <1>3, <2>1
<1> QED
  BY <1>2, <1>5 DEF FInv, IInv

\* The strategy answers. If it allows, the only READY for the client is written,
\* before any frame.
LEMMA CheckedKeeps == ASSUME FInv, IInv', NEW yes \in BOOLEAN, Checked(yes) PROVE FInv'
<1> USE DEF FInv
<1>0. "client" \in Ends /\ "server" \in Ends /\ Other("server") = "client" /\ Other("client") = "server"
  BY DEF Ends, Other
<1>1. /\ ~allowed /\ Innocent /\ ~flag["server"] /\ ~flag["client"]
      /\ start["server"] # "woken" /\ start["client"] # "woken"
      /\ (\A x \in Ends : sent[Other(x)] = 0)
      /\ (\A i \in 1 .. Len(wire["client"]) : wire["client"][i].n = 0)
  BY <1>0, NoFrameYet DEF Checked, AuthOnce, Innocent
<1>2. /\ UNCHANGED <<link, session, reading, registered, signed, shutdown, incoming>>
      /\ UNCHANGED <<sent, delivered, skipped>>
      /\ handler["server"] = "checking"
      /\ handler' = [handler EXCEPT !["server"] = IF session["server"] THEN "greeting" ELSE "free"]
  BY DEF Checked, Goto
<1>3. CASE ~yes
  <2>1. flag' = flag /\ start' = start /\ allowed' = allowed
    BY <1>0, <1>1, <1>3, Typed DEF Checked, Grants
  <2>2. Piece("server") /\ Still
    BY <1>0, <1>2, <2>1, PieceStill DEF Still
  <2>3. Phase("server") /\ Told("server")
    BY <1>0, <1>2, <2>1, Typed DEF Phase, Handlers, Awake, Told, Ending
  <2>4. \A y \in Ends : Carried(y, wire'[y])
    BY <1>0, <1>3, PlainEvents, WiresCarryOn DEF Checked, Grants
  <2>5. Ordinary("server")
    BY <2>2, <2>3, <2>4 DEF Ordinary
  <2> QED
    BY <1>0, <2>5, OrdinaryKeeps
<1>4. CASE yes
  <2>1. /\ allowed' = TRUE /\ flag' = [flag EXCEPT !["server"] = TRUE] /\ start' = Woken("server")
        /\ wire' = wire \/ wire' = Written(wire, "server", Event("READY"))
    BY <1>4 DEF Checked, Grants
  <2>2. /\ wire'["server"] = wire["server"]
        /\ wire'["client"] = wire["client"] \/ wire'["client"] = Append(wire["client"], Event("READY"))
        /\ wire["server"] \in Seq(Queued) /\ wire["client"] \in Seq(Queued) /\ wire["client"] \in Seq(Events)
        /\ Event("READY") \in Events /\ Event("READY").kind = "READY"
    BY <1>0, <2>1, Typed, KnownEvents DEF Written
  <2>3. TypeOK'
    <3>1. handler' \in [Ends -> Handlers]
      BY <1>2, Typed DEF Handlers
    <3> QED
      BY <1>2, <3>1, TypeNext, Typed
  <2>4. start'["client"] = start["client"] /\ flag'["client"] = flag["client"] /\ handler'["server"] # "checking"
    BY <1>0, <1>2, <2>1, Typed DEF Woken
  <2>5. AuthOnce'
    <3>1. start["client"] # "new" /\ ~Has(wire["server"], "AUTH")
      BY <1>2 DEF AuthOnce
    <3> QED
      BY <2>2, <2>4, <3>1 DEF AuthOnce
  <2>6. ReadyOnce'
    <3>1. ~Has(wire["client"], "READY")
      BY <1>1 DEF Innocent, NoReady, Has
    <3>2. One(wire'["client"], "READY")
      BY <2>2, <3>1, WrittenOnce DEF ReadyOnce
    <3>3. ReadyFirst(wire'["client"])
      <4>1. CASE wire'["client"] = wire["client"]
        BY <4>1 DEF ReadyOnce
      <4>2. CASE wire'["client"] = Append(wire["client"], Event("READY"))
        <5>1. /\ Len(wire'["client"]) = Len(wire["client"]) + 1 /\ Len(wire["client"]) \in Nat
              /\ \A i \in 1 .. Len(wire["client"]) : wire'["client"][i] = wire["client"][i]
          BY <2>2, <4>2, AppendProperties
        <5>2. \A i, j \in 1 .. Len(wire'["client"]) : i < j => i \in 1 .. Len(wire["client"])
          BY <5>1
        <5> QED
          BY <1>1, <5>1, <5>2 DEF ReadyFirst
      <4> QED
        BY <2>2, <4>1, <4>2
    <3>4. ~flag["client"] /\ ~Awake("client")
      BY <1>0, <1>1 DEF Silence, Awake
    <3> QED
      BY <2>4, <3>2, <3>3, <3>4 DEF ReadyOnce, Awake
  <2>7. Silence'
    BY <2>1 DEF Silence
  <2>8. ASSUME NEW y \in Ends PROVE NoneQueued(y)' /\ Flagless(y)' /\ FramesOf(y)'
    <3>1. NoneQueued(y)'
      BY <1>2, <2>1, Typed DEF NoneQueued, Ending, Woken
    <3>2. Flagless(y)'
      BY <1>2, <2>1, Typed DEF Flagless, Awake, Woken
    <3>3. Grown(incoming[y], incoming[y])
      BY Typed, PlainEvents, GrownByOne
    <3>4. Same(wire[y], wire'[y])
      BY <1>0, <2>2, PlainEvents, SameForms DEF Ends
    <3> QED
      BY <1>1, <1>2, <3>1, <3>2, <3>3, <3>4, QuietEnd DEF Up
  <2> QED
    BY <2>3, <2>5, <2>6, <2>7, <2>8
<1> QED
  BY <1>3, <1>4

\* The client reads its READY, and expects frames from now on or has no session.
LEMMA OnClientReadyKeeps == ASSUME FInv, IInv', OnClientReady PROVE FInv'
<1> USE DEF FInv
<1>0. "client" \in Ends /\ "server" \in Ends /\ Other("server") = "client" /\ Other("client") = "server"
  BY DEF Ends, Other
<1>1. /\ wire["client"] # <<>> /\ Head(wire["client"]).n = 0 /\ Head(wire["client"]).kind = "READY"
      /\ wire["client"] \in Seq(Events) /\ handler["client"] = "free"
  BY <1>0, FirstIsPlain, Typed DEF OnClientReady, Handles
<1>2. Has(wire["client"], "READY") /\ ~Has(Tail(wire["client"]), "READY")
  BY <1>1, ReadAway DEF ReadyOnce
<1>3. ~flag["client"] /\ ~Awake("client") /\ Expects("client")
  BY <1>2 DEF ReadyOnce, Expects
<1>4. allowed
  BY <1>2 DEF IInv, Innocent, NoReady, Has
<1>5. /\ UNCHANGED <<signed, shutdown, sent, delivered, skipped, allowed>> /\ start' = Woken("client")
  BY DEF OnClientReady, past
<1>6. /\ \A y \in Ends : Carried(y, wire'[y])
      /\ wire'["client"] = Tail(wire["client"])
  <2>1. wire' = Read("client") \/ wire' = Written(Read("client"), "client", Event("READY"))
    BY DEF OnClientReady
  <2>2. \A y \in Ends : Carried(y, wire'[y])
    BY <1>0, <1>1, <2>1, PlainEvents, WiresCarryOn
  <2>3. wire'["client"] = Tail(wire["client"])
    BY <1>0, <2>1, Typed DEF Read, Written
  <2> QED
    BY <2>2, <2>3
<1>7. /\ incoming["client"] \in Seq(Queued) /\ incoming \in [Ends -> Seq(Queued)]
      /\ Append(incoming["client"], Event("READY")) \in Seq(Queued)
      /\ Grown(incoming["client"], Append(incoming["client"], Event("READY")))
  BY <1>0, Typed, PlainEvents, GrownByOne, Appended
<1>8. /\ link' \in {"up", "down"} /\ (link' = "up" => link = "up")
      /\ reading' \in [Ends -> BOOLEAN] /\ incoming' \in [Ends -> Seq(Queued)]
      /\ handler' \in [Ends -> Handlers]
      /\ Grown(incoming["client"], incoming'["client"])
      /\ session'["server"] = session["server"] /\ flag'["server"] = flag["server"]
      /\ incoming'["server"] = incoming["server"] /\ handler'["server"] = handler["server"]
      /\ flag'["client"] \/ ~session'["client"]
      /\ session'["client"] \/ ~session["client"] \/ Has(incoming'["client"], "NONE")
      /\ handler'["client"] \notin {"closing", "reclosing"}
  <2>1. CASE Answers
    <3>1. /\ UNCHANGED <<link, session, reading>>
          /\ flag' = [flag EXCEPT !["client"] = TRUE]
          /\ incoming' = [incoming EXCEPT !["client"] = Append(@, Event("READY"))]
          /\ handler' = [handler EXCEPT !["client"] = "greeting"]
      BY <2>1 DEF OnClientReady, Goto
    <3>2. session["client"]
      BY <2>1 DEF Answers
    <3>3. handler' \in [Ends -> Handlers] /\ handler'["client"] = "greeting" /\ handler'["server"] = handler["server"]
      BY <1>0, <3>1, Typed DEF Handlers
    <3>4. /\ incoming' \in [Ends -> Seq(Queued)] /\ incoming'["server"] = incoming["server"]
          /\ Grown(incoming["client"], incoming'["client"])
      BY <1>0, <1>7, <3>1
    <3>5. flag'["client"] /\ flag'["server"] = flag["server"]
      BY <1>0, <3>1, Typed
    <3> QED
      BY <3>1, <3>2, <3>3, <3>4, <3>5, Typed
  <2>2. CASE ~Answers
    <3>1. Drop("client", Append(incoming["client"], Event("READY"))) /\ handler' = handler
      BY <2>2 DEF OnClientReady
    <3>2. Piece("client") /\ (session["client"] => Has(incoming'["client"], "NONE"))
      BY <1>0, <1>7, <3>1, DropPiece
    <3> QED
      BY <1>0, <1>1, <3>1, <3>2, Typed DEF Piece, Drop
  <2> QED
    BY <2>1, <2>2
<1>9. TypeOK'
  BY <1>5, <1>8, TypeNext, Typed
<1>10. /\ start'["server"] = start["server"]
       /\ start'["client"] = IF start["client"] = "waiting" THEN "woken" ELSE start["client"]
  BY <1>0, <1>5, Typed DEF Woken
<1>11. AuthOnce'
  <2>1. /\ Has(wire'["server"], "AUTH") => Has(wire["server"], "AUTH")
        /\ One(wire["server"], "AUTH") => One(wire'["server"], "AUTH")
    BY <1>6, MarksStay DEF Carried
  <2> QED
    BY <1>4, <1>5, <1>8, <1>10, <2>1 DEF AuthOnce
<1>12. ReadyOnce' /\ Silence'
  <2>1. /\ One(wire["client"], "READY") => One(wire'["client"], "READY")
        /\ ReadyFirst(wire["client"]) => ReadyFirst(wire'["client"])
    BY <1>6, MarksStay DEF Carried
  <2> QED
    BY <1>2, <1>4, <1>5, <1>6, <2>1 DEF ReadyOnce, Silence
<1>13. NoneQueued("client")' /\ Flagless("client")' /\ NoneQueued("server")' /\ Flagless("server")'
  <2>1. NoneQueued("client")'
    <3> SUFFICES ASSUME Ending("client")', start'["client"] # "ended" PROVE Has(incoming'["client"], "NONE")
      BY DEF NoneQueued
    <3>1. ~session["client"] \/ start["client"] = "closing" \/ shutdown["client"] = "closing"
          \/ Has(incoming'["client"], "NONE")
      BY <1>5, <1>8, <1>10 DEF Ending
    <3>2. Ending("client") => Has(incoming["client"], "NONE")
      BY <1>0, <1>10 DEF NoneQueued
    <3> QED
      BY <1>7, <1>8, <3>1, <3>2, GrownKeepsNone DEF Ending
  <2>2. Flagless("client")'
    BY <1>8 DEF Flagless
  <2> QED
    BY <1>0, <1>5, <1>8, <1>10, <2>1, <2>2 DEF NoneQueued, Flagless, Ending, Awake
<1>14. ASSUME NEW y \in Ends PROVE FramesOf(y)'
  <2>1. Grown(incoming[y], incoming'[y])
    <3>1. Grown(incoming["server"], incoming["server"])
      BY <1>0, Typed, PlainEvents, GrownByOne
    <3> QED
      BY <1>8, <3>1 DEF Ends
  <2>2. Same(wire[y], wire'[y]) \/ (wire'[y] = <<>> /\ ~Up')
    BY <1>6 DEF Carried, Up
  <2>3. Expects(y)' => Expects(y)
    BY <1>3, <1>8 DEF Expects, Ends
  <2>4. Awake(y)' => Awake(y) \/ Expects(y)
    BY <1>3, <1>10 DEF Awake, Ends
  <2> QED
    BY <1>5, <1>8, <2>1, <2>2, <2>3, <2>4, QuietEnd DEF Up
<1> QED
  BY <1>9, <1>11, <1>12, <1>13, <1>14 DEF Ends
-----------------------------------------------------------------------------
(* The frames.                                                             *)

\* A frame that is sent, read, or dropped, at the end it is for.
LEMMA SentFrame ==
    ASSUME TypeOK, NEW y \in Ends, FramesOf(y), link = "up", link' = "up",
           delivered'[y] = delivered[y], incoming'[y] = incoming[y], skipped'[y] = skipped[y],
           Numbered(wire[y], sent[Other(y)], wire'[y], sent'[Other(y)]),
           Expects(y)' => Expects(y), start'[y] = start[y]
    PROVE  FramesOf(y)'
<1>1. /\ delivered[y] \in Seq(Queued) /\ incoming[y] \in Seq(Queued) /\ wire[y] \in Seq(Queued)
      /\ sent[Other(y)] \in Nat
  BY Typed
<1>2. /\ Expects(y) \in BOOLEAN /\ Awake(y) \in BOOLEAN /\ Expects(y)' \in BOOLEAN
      /\ Awake(y)' = Awake(y) /\ Up \in BOOLEAN /\ Up' = Up /\ (Expects(y)' => Expects(y) /\ Up)
  BY DEF Expects, Awake, Up
<1>3. Framed(delivered[y], incoming[y], wire[y], skipped[y], sent[Other(y)], Expects(y), Awake(y), Up)
  BY DEF FramesOf
<1>5. Framed(delivered[y], incoming[y], wire'[y], skipped[y], sent'[Other(y)], Expects(y)', Awake(y), Up)
  BY <1>1, <1>2, <1>3, SendStep
<1> QED
  BY <1>2, <1>5 DEF FramesOf

LEMMA ReadFrame ==
    ASSUME TypeOK, NEW x \in Ends, FramesOf(x), NEW k \in 1 .. Len(wire[x]),
           delivered'[x] = delivered[x], sent'[Other(x)] = sent[Other(x)], link' = link, start'[x] = start[x],
           incoming'[x] = Append(incoming[x], wire[x][1]),
           wire'[x] = SubSeq(wire[x], k + 1, Len(wire[x])),
           skipped'[x] = skipped[x] \cup Numbers(SubSeq(wire[x], 2, k)),
           Expects(x)' => Expects(x),
           Awake(x) => Expects(x) \/ Has(incoming[x], "NONE")
    PROVE  FramesOf(x)'
<1>1. /\ delivered[x] \in Seq(Queued) /\ incoming[x] \in Seq(Queued) /\ wire[x] \in Seq(Queued)
      /\ sent[Other(x)] \in Nat
  BY Typed
<1>2. /\ Expects(x) \in BOOLEAN /\ Awake(x) \in BOOLEAN /\ Expects(x)' \in BOOLEAN
      /\ Awake(x)' = Awake(x) /\ Up \in BOOLEAN /\ Up' = Up
  BY DEF Expects, Awake, Up
<1>3. Framed(delivered[x], incoming[x], wire[x], skipped[x], sent[Other(x)], Expects(x), Awake(x), Up)
  BY DEF FramesOf
<1>4. Awake(x) => Expects(x) \/ \E i \in 1 .. Len(incoming[x]) : incoming[x][i].kind = "NONE"
  BY DEF Has
<1>5. Taken(incoming[x], wire[x], skipped[x], k, incoming'[x], wire'[x], skipped'[x])
  BY DEF Taken
<1>6. Framed(delivered[x], incoming'[x], wire'[x], skipped'[x], sent[Other(x)], Expects(x)', Awake(x), Up)
  BY SMTT(30), <1>1, <1>2, <1>3, <1>4, <1>5, ReadStep
<1> QED
  BY <1>2, <1>6 DEF FramesOf

LEMMA LostFrame ==
    ASSUME TypeOK, NEW x \in Ends, FramesOf(x), NEW k \in 0 .. Len(wire[x]),
           delivered'[x] = delivered[x], sent'[Other(x)] = sent[Other(x)], link' = link, start'[x] = start[x],
           incoming'[x] = incoming[x], skipped'[x] = skipped[x],
           wire'[x] = SubSeq(wire[x], k + 1, Len(wire[x])), ~Expects(x)'
    PROVE  FramesOf(x)'
<1>1. /\ delivered[x] \in Seq(Queued) /\ incoming[x] \in Seq(Queued) /\ wire[x] \in Seq(Queued)
      /\ sent[Other(x)] \in Nat
  BY Typed
<1>2. /\ Expects(x) \in BOOLEAN /\ Awake(x) \in BOOLEAN /\ Expects(x)' \in BOOLEAN
      /\ Awake(x)' = Awake(x) /\ Up \in BOOLEAN /\ Up' = Up
  BY DEF Expects, Awake, Up
<1>3. Framed(delivered[x], incoming[x], wire[x], skipped[x], sent[Other(x)], Expects(x), Awake(x), Up)
  BY DEF FramesOf
<1>4. Numbers(wire'[x]) \subseteq Numbers(wire[x]) /\ (Rising(wire[x]) => Rising(wire'[x]))
  BY <1>1, Split
<1>5. Framed(delivered[x], incoming[x], wire'[x], skipped[x], sent[Other(x)], Expects(x)', Awake(x), Up)
  BY <1>1, <1>2, <1>3, <1>4, LoseStep
<1> QED
  BY <1>2, <1>5 DEF FramesOf

\* An application sends.
LEMMA SendKeeps == ASSUME FInv, IInv', NEW x \in Ends, Send(x) PROVE FInv'
<1> USE DEF FInv
<1>0. Other(x) \in Ends /\ Other(x) # x /\ Other(Other(x)) = x
  BY DEF Ends, Other
<1>1. /\ UNCHANGED <<link, session, reading, flag, signed, start, handler, shutdown, incoming>>
      /\ UNCHANGED <<delivered, skipped, allowed>>
      /\ link = "up" /\ sent' = [sent EXCEPT ![x] = @ + 1] /\ sent[x] < MaxSent[x]
  BY DEF Send, life, past
<1>2. allowed
  BY DEF IInv, Innocent, Send
<1>3. PICK e \in Frames : e.n = sent'[x] /\ wire' = Written(wire, x, e)
  BY DEF Send
<1>4. e \in Events /\ e \in Queued /\ e.kind \notin {"AUTH", "READY"} /\ e \in Unmarked(Other(x))
  BY DEF Events, Queued, Frames, Unmarked
<1>5. /\ wire[Other(x)] \in Seq(Events) /\ wire'[Other(x)] = Append(wire[Other(x)], e)
      /\ wire[x] \in Seq(Events) /\ wire'[x] = wire[x]
  BY <1>0, <1>1, <1>3, Typed DEF Written
<1>6. \A y \in Ends : Flow(wire[y], wire'[y], Unmarked(y))
  <2>1. \A y \in Ends : y = x \/ y = Other(x)
    BY DEF Ends, Other
  <2> QED
    BY <1>0, <1>4, <1>5, <2>1, UnmarkedKinds, FlowForms
<1>7. /\ sent' \in [Ends -> Nat] /\ \A y \in Ends : sent'[y] <= MaxSent[y]
      /\ sent'[x] = sent[x] + 1 /\ sent'[Other(x)] = sent[Other(x)]
  BY <1>0, <1>1, SessionAssumption DEF TypeOK, Ends
<1>8. TypeOK'
  BY <1>1, <1>7 DEF TypeOK, IInv, Shape, Phases
<1>9. AuthOnce' /\ ReadyOnce' /\ Silence'
  BY <1>1, <1>2, <1>6, ControlKept DEF Awake
<1>10. ASSUME NEW y \in Ends PROVE NoneQueued(y)' /\ Flagless(y)'
  BY <1>1, BystanderKept
<1>11. FramesOf(x)'
  <2>1. Grown(incoming[x], incoming[x])
    BY Typed, PlainEvents, GrownByOne
  <2>2. Same(wire[x], wire[x])
    BY Typed, SameForms
  <2>3. Expects(x)' => Expects(x)
    BY <1>1, <1>5 DEF Expects
  <2> QED
    BY <1>1, <1>5, <1>7, <2>1, <2>2, <2>3, QuietEnd DEF Up, Awake
<1>12. FramesOf(Other(x))'
  <2>1. Expects(Other(x))' => Expects(Other(x))
    <3>1. Has(wire'["client"], "READY") => Has(wire["client"], "READY")
      BY <1>6, MarksStay
    <3> QED
      BY <1>1, <3>1 DEF Expects
  <2>2. Numbered(wire[Other(x)], sent[x], wire'[Other(x)], sent'[x])
    BY <1>3, <1>4, <1>5, <1>7 DEF Numbered
  <2> QED
    BY <1>0, <1>1, <1>7, <2>1, <2>2, SentFrame
<1> QED
  <2>1. \A y \in Ends : y = x \/ y = Other(x)
    BY DEF Ends, Other
  <2> QED
    BY <1>8, <1>9, <1>10, <1>11, <1>12, <2>1

\* Reading a frame moves nothing at the other end.
LEMMA ReadFrameKeeps ==
    ASSUME FInv, IInv', NEW x \in Ends, NEW k \in 1 .. Len(wire[x]),
           UNCHANGED <<link, life, signed, start, handler, shutdown, sent, allowed, delivered>>,
           wire' = [wire EXCEPT ![x] = SubSeq(@, k + 1, Len(@))],
           NEW q \in Seq(Queued), incoming' = [incoming EXCEPT ![x] = q],
           Has(incoming[x], "NONE") => Has(q, "NONE"),
           skipped' \in [Ends -> SUBSET (Nat \ {0})], \A y \in Ends : y # x => skipped'[y] = skipped[y],
           FramesOf(x)'
    PROVE  FInv'
<1> USE DEF FInv, life
<1>1. /\ wire[x] \in Seq(Events) /\ wire'[x] = SubSeq(wire[x], k + 1, Len(wire[x]))
      /\ \A y \in Ends : y # x => wire'[y] = wire[y] /\ wire[y] \in Seq(Events) /\ wire[y] \in Seq(Queued)
  BY Typed
<1>2. \A y \in Ends : Flow(wire[y], wire'[y], Unmarked(y))
  <2>1. k \in 0 .. Len(wire[x])
    BY <1>1
  <2> QED
    BY <1>1, <2>1, UnmarkedKinds, FlowForms
<1>3. TypeOK'
  BY Typed DEF TypeOK, IInv, Shape, Phases, Queued
<1>4. AuthOnce' /\ ReadyOnce' /\ Silence'
  BY <1>2, ControlKept DEF Awake
<1>5. NoneQueued(x)' /\ Flagless(x)'
  BY Typed DEF NoneQueued, Flagless, Ending, Awake
<1>6. ASSUME NEW y \in Ends, y # x PROVE NoneQueued(y)' /\ Flagless(y)' /\ FramesOf(y)'
  <2>1. incoming'[y] = incoming[y]
    BY <1>6, Typed
  <2>2. NoneQueued(y)' /\ Flagless(y)'
    BY <2>1, BystanderKept
  <2>3. Grown(incoming[y], incoming[y]) /\ Same(wire[y], wire[y])
    BY Typed, PlainEvents, GrownByOne, SameForms
  <2>4. Expects(y)' => Expects(y)
    BY <1>1, <1>6 DEF Expects
  <2> QED
    BY <1>1, <1>6, <2>1, <2>2, <2>3, <2>4, QuietEnd DEF Up, Awake
<1> QED
  BY <1>3, <1>4, <1>5, <1>6

\* DATA is queued if the end is authenticated, and dropped if it is not.
LEMMA OnDataKeeps == ASSUME FInv, IInv', NEW x \in Ends, OnData(x) PROVE FInv'
<1> USE DEF FInv
<1>1. /\ UNCHANGED <<link, life, signed, start, handler, shutdown, sent, allowed, delivered, skipped>>
      /\ incoming' = [incoming EXCEPT ![x] = IF flag[x] THEN Append(@, Head(wire[x])) ELSE @]
      /\ wire' = Read(x) /\ wire[x] # <<>> /\ Head(wire[x]).kind = "DATA"
  BY DEF OnData, Admits, Handles, past
<1> DEFINE w == wire[x]
           q == incoming[x]
<1>2. /\ w \in Seq(Events) /\ w \in Seq(Queued) /\ q \in Seq(Queued)
      /\ delivered[x] \in Seq(Queued) /\ sent[Other(x)] \in Nat
      /\ wire \in [Ends -> Seq(Events)] /\ incoming \in [Ends -> Seq(Queued)]
      /\ skipped \in [Ends -> SUBSET (Nat \ {0})] /\ flag \in [Ends -> BOOLEAN]
  BY Typed
<1>3. 1 \in 1 .. Len(w) /\ Head(w) = w[1] /\ Head(w) \in Events /\ w[1] \in Queued /\ 1 + 1 = 2 /\ Len(w) \in Nat
  BY <1>1, <1>2, EmptySeq, HeadTailProperties, EventFields
<1> DEFINE k == 1
<1>4. /\ k \in 1 .. Len(w) /\ k \in 0 .. Len(w) /\ wire'[x] = Tail(w) /\ Tail(w) = SubSeq(w, k + 1, Len(w))
      /\ wire' = [wire EXCEPT ![x] = SubSeq(@, k + 1, Len(@))]
  <2>1. Tail(w) = SubSeq(w, 2, Len(w))
    BY <1>1, <1>2, TailIsSubSeq
  <2>2. Tail(w) = SubSeq(w, k + 1, Len(w))
    BY <2>1
  <2>3. wire'[x] = Tail(w) /\ wire' = [wire EXCEPT ![x] = Tail(w)]
    BY <1>1, <1>2 DEF Read
  <2>4. wire' = [wire EXCEPT ![x] = SubSeq(w, k + 1, Len(w))]
    BY <2>2, <2>3
  <2>5. k \in 1 .. Len(w) /\ k \in 0 .. Len(w)
    BY <1>3
  <2> QED
    BY <2>2, <2>3, <2>4, <2>5
<1>5. w[1].n > 0
  BY <1>1, <1>3, SessionAssumption DEF Events, Event, Frames
<1>6. Numbers(SubSeq(w, 2, k)) = {}
  <2>1. \A i \in 2 .. 1 : w[i] \in Queued
    OBVIOUS
  <2>2. SubSeq(w, 2, 1) \in Seq(Queued) /\ Len(SubSeq(w, 2, 1)) = 0
    BY <1>2, <2>1, SubSeqProperties
  <2>3. SubSeq(w, 2, 1) = <<>>
    BY <2>2, EmptySeq
  <2> QED
    BY <2>3, EmptyHasNone
<1> HIDE DEF k
<1>7. flag'[x] = flag[x]
  BY <1>1 DEF life
<1>8. CASE flag[x]
  <2>1. incoming' = [incoming EXCEPT ![x] = Append(q, w[1])] /\ incoming'[x] = Append(q, w[1])
    BY <1>1, <1>2, <1>3, <1>8
  <2>2. /\ Append(q, w[1]) \in Seq(Queued) /\ Len(Append(q, w[1])) = Len(q) + 1 /\ Len(q) \in Nat
        /\ \A i \in 1 .. Len(q) : Append(q, w[1])[i] = q[i]
    BY <1>2, <1>3, Appended
  <2>3. Has(q, "NONE") => Has(Append(q, w[1]), "NONE")
    <3>1. \A i \in 1 .. Len(q) : i \in 1 .. Len(Append(q, w[1]))
      BY <2>2
    <3> QED
      BY <2>2, <3>1 DEF Has
  <2>4. Expects(x)
    BY <1>8 DEF Expects
  <2>5. skipped'[x] = skipped[x] \cup Numbers(SubSeq(w, 2, k))
    BY <1>1, <1>6
  <2>6. FramesOf(x)'
    BY <1>1, <1>4, <2>1, <2>4, <2>5, ReadFrame
  <2> QED
    BY <1>1, <1>2, <1>4, <2>1, <2>2, <2>3, <2>6, ReadFrameKeeps
<1>9. CASE ~flag[x]
  <2>1. incoming' = incoming /\ incoming' = [incoming EXCEPT ![x] = q]
    BY <1>1, <1>2, <1>9
  <2>2. ~Expects(x)'
    <3> SUFFICES ASSUME x = "client", NEW i \in 1 .. Len(wire'[x]), wire'[x][i].kind = "READY" PROVE FALSE
      BY <1>7, <1>9 DEF Expects, Has
    <3>1. i + 1 \in 1 .. Len(w) /\ w[i + 1].kind = "READY" /\ 1 < i + 1
      <4>1. Len(Tail(w)) = Len(w) - 1 /\ \A j \in 1 .. Len(Tail(w)) : Tail(w)[j] = w[j + 1]
        BY <1>1, <1>2, HeadTailProperties
      <4> QED
        BY <1>3, <1>4, <4>1
    <3>2. w[1].n = 0
      BY <1>3, <3>1 DEF ReadyOnce, ReadyFirst
    <3> QED
      BY <1>5, <3>2
  <2>3. FramesOf(x)'
    BY <1>1, <1>4, <2>1, <2>2, LostFrame
  <2> QED
    BY <1>1, <1>2, <1>4, <2>1, <2>3, ReadFrameKeeps
<1> QED
  BY <1>8, <1>9

\* An ERR is queued whatever the end thinks: if it expects no frames, behind the NONE.
LEMMA OnErrKeeps == ASSUME FInv, IInv', NEW x \in Ends, OnErr(x) PROVE FInv'
<1> USE DEF FInv
<1> DEFINE w == wire[x]
           q == incoming[x]
<1>1. PICK k \in 1 .. Len(w) :
         /\ wire' = [wire EXCEPT ![x] = SubSeq(@, k + 1, Len(@))]
         /\ skipped' = [skipped EXCEPT ![x] = @ \cup Numbers(SubSeq(w, 2, k))]
  BY DEF OnErr
<1>2. /\ w \in Seq(Events) /\ w \in Seq(Queued) /\ q \in Seq(Queued)
      /\ delivered[x] \in Seq(Queued) /\ sent[Other(x)] \in Nat
      /\ wire \in [Ends -> Seq(Events)] /\ incoming \in [Ends -> Seq(Queued)]
      /\ skipped \in [Ends -> SUBSET (Nat \ {0})]
  BY Typed
<1>3. /\ UNCHANGED <<link, life, signed, start, handler, shutdown, sent, allowed, delivered>>
      /\ incoming' = [incoming EXCEPT ![x] = Append(@, w[1])] /\ w[1] \in Queued
  <2>1. Head(w) = w[1] /\ w # <<>> /\ Head(w) \in Events
    BY <1>2, HeadTailProperties DEF OnErr, Handles
  <2> QED
    BY <2>1, EventFields DEF OnErr
<1>4. /\ wire'[x] = SubSeq(w, k + 1, Len(w)) /\ incoming'[x] = Append(q, w[1])
      /\ incoming' = [incoming EXCEPT ![x] = Append(q, w[1])]
      /\ skipped'[x] = skipped[x] \cup Numbers(SubSeq(w, 2, k))
  BY <1>1, <1>2, <1>3
<1>5. flag'[x] = flag[x]
  BY <1>3 DEF life
<1>6. Expects(x)' => Expects(x)
  <2>1. k \in 0 .. Len(w) /\ Len(w) \in Nat
    BY <1>2
  <2>2. Flow(w, wire'[x], Unmarked(x))
    BY <1>2, <1>4, <2>1, UnmarkedKinds, FlowForms
  <2>3. x = "client" => (Has(wire'[x], "READY") => Has(w, "READY"))
    BY <1>2, <2>2, UnmarkedKinds, FlowKeeps
  <2> QED
    BY <1>5, <2>3 DEF Expects
<1>7. Awake(x) => Expects(x) \/ Has(q, "NONE")
  <2> SUFFICES ASSUME Awake(x), ~flag[x] PROVE Has(q, "NONE")
    BY DEF Expects
  <2>1. Ending(x) /\ start[x] # "ended"
    BY DEF Flagless, Ending, Awake
  <2> QED
    BY <2>1 DEF NoneQueued
<1>8. FramesOf(x)'
  BY <1>3, <1>4, <1>6, <1>7, ReadFrame
<1>9. Append(q, w[1]) \in Seq(Queued) /\ (Has(q, "NONE") => Has(Append(q, w[1]), "NONE"))
  <2>1. /\ Append(q, w[1]) \in Seq(Queued) /\ Len(Append(q, w[1])) = Len(q) + 1 /\ Len(q) \in Nat
        /\ \A i \in 1 .. Len(q) : Append(q, w[1])[i] = q[i]
    BY <1>2, <1>3, Appended
  <2>2. \A i \in 1 .. Len(q) : i \in 1 .. Len(Append(q, w[1]))
    BY <2>1
  <2> QED
    BY <2>1, <2>2 DEF Has
<1>10. skipped' \in [Ends -> SUBSET (Nat \ {0})] /\ \A y \in Ends : y # x => skipped'[y] = skipped[y]
  <2>1. \A i \in 2 .. k : i \in 1 .. Len(w)
    BY <1>2
  <2>2. \A i \in 2 .. k : w[i] \in Queued
    BY <1>2, <2>1, ElementOfSeq
  <2>3. SubSeq(w, 2, k) \in Seq(Queued)
    BY <1>2, <2>2, SubSeqProperties
  <2>4. \A n \in Numbers(SubSeq(w, 2, k)) : n \in Nat \ {0}
    <3> DEFINE t == SubSeq(w, 2, k)
    <3>1. t \in Seq(Queued)
      BY <2>3
    <3> HIDE DEF t
    <3>2. \A n \in Numbers(t) : n \in Nat /\ n > 0
      BY <3>1, NumberIsSomewhere
    <3> QED
      BY <3>2 DEF t
  <2> QED
    BY <1>1, <1>2, <2>4
<1> QED
  BY <1>1, <1>3, <1>4, <1>8, <1>9, <1>10, ReadFrameKeeps

\* listen takes what is queued before NONE, and leaves nothing if it goes on.
LEMMA HeardFrames ==
    ASSUME TypeOK, NEW x \in Ends, FramesOf(x),
           sent' = sent, skipped' = skipped, wire' = wire, flag' = flag, link' = link,
           NEW last, NEW cut,
           Heard(delivered[x], incoming[x], Awake(x), last, cut, delivered'[x], incoming'[x], Awake(x)')
    PROVE  FramesOf(x)'
<1>1. /\ delivered[x] \in Seq(Queued) /\ incoming[x] \in Seq(Queued) /\ wire[x] \in Seq(Queued)
      /\ sent[Other(x)] \in Nat
  BY Typed
<1>2. /\ Expects(x) \in BOOLEAN /\ Awake(x)' \in BOOLEAN /\ Awake(x) \in BOOLEAN
      /\ Expects(x)' = Expects(x) /\ Up \in BOOLEAN /\ Up' = Up
  BY DEF Expects, Awake, Up
<1>3. Framed(delivered[x], incoming[x], wire[x], skipped[x], sent[Other(x)], Expects(x), Awake(x), Up)
  BY DEF FramesOf
<1>4. Framed(delivered'[x], incoming'[x], wire[x], skipped[x], sent[Other(x)], Expects(x), Awake(x)', Up)
  BY <1>1, <1>2, <1>3, ListenStep
<1> QED
  BY <1>2, <1>4 DEF FramesOf

LEMMA ListenKeeps == ASSUME FInv, IInv', NEW x \in Ends, Listen(x) PROVE FInv'
<1> USE DEF FInv
<1>1. /\ UNCHANGED <<link, wire, session, reading, flag, signed, handler, shutdown, sent, allowed, skipped>>
      /\ start[x] = "listening" /\ incoming[x] # <<>>
  BY DEF Listen, net, life
<1> DEFINE q == incoming[x]
           most == IF flag[x] THEN Len(q) ELSE 1
           none == {i \in 1 .. most : q[i].kind = "NONE"}
           last == IF none = {} THEN most ELSE (CHOOSE i \in none : \A j \in none : i <= j) - 1
           cut == IF none = {} THEN last ELSE last + 1
<1>2. /\ delivered' = [delivered EXCEPT ![x] = @ \o SubSeq(q, 1, last)]
      /\ incoming' = [incoming EXCEPT ![x] = SubSeq(q, cut + 1, Len(q))]
      /\ start' = [start EXCEPT ![x] = IF flag[x] /\ none = {} THEN "listening" ELSE "ended"]
  BY DEF Listen
<1>3. /\ q \in Seq(Queued) /\ Len(q) \in Nat /\ Len(q) > 0
      /\ delivered[x] \in Seq(Events) /\ delivered \in [Ends -> Seq(Events)]
      /\ incoming \in [Ends -> Seq(Queued)] /\ start \in [Ends -> Phases]
  BY <1>1, Typed, EmptySeq
<1> HIDE DEF q
<1>4. most \in 1 .. Len(q) /\ (flag[x] => most = Len(q))
  BY <1>3
<1> HIDE DEF most
<1>5. /\ last \in 0 .. Len(q) /\ cut \in last .. Len(q)
      /\ \A j \in 1 .. last : q[j].kind # "NONE"
      /\ cut = last \/ (cut = last + 1 /\ q[cut].kind = "NONE")
      /\ none = {} => last = most /\ cut = most
  <2>1. CASE none = {}
    <3>1. last = most /\ cut = most
      BY <2>1
    <3> HIDE DEF last, cut
    <3>2. \A j \in 1 .. most : q[j].kind # "NONE"
      BY <2>1
    <3> QED
      BY <1>3, <1>4, <3>1, <3>2
  <2>2. CASE none # {}
    <3>1. none \in SUBSET Nat
      BY <1>4
    <3> DEFINE first == CHOOSE i \in none : \A j \in none : i <= j
    <3>2. first \in none /\ \A j \in none : first <= j
      <4>1. \E i \in none : \A j \in none : i <= j
        BY <2>2, <3>1, Least
      <4> QED
        BY <4>1
    <3>3. last = first - 1 /\ cut = last + 1
      BY <2>2
    <3> HIDE DEF first, last, cut
    <3>4. first \in 1 .. most /\ q[first].kind = "NONE"
      BY <3>2
    <3>5. \A j \in 1 .. last : j \in 1 .. most /\ ~ (first <= j)
      BY <1>4, <3>3, <3>4
    <3>6. \A j \in 1 .. last : q[j].kind # "NONE"
      BY <3>2, <3>5
    <3>7. cut = first /\ last \in 0 .. Len(q) /\ cut \in last .. Len(q)
      BY <1>3, <1>4, <3>3, <3>4
    <3> QED
      BY <2>2, <3>3, <3>4, <3>6, <3>7
  <2> QED
    BY <2>1, <2>2
<1>6. none = {} => \A i \in 1 .. most : q[i].kind # "NONE"
  OBVIOUS
<1> HIDE DEF none, last, cut
<1>7. cut = last \/ (cut = last + 1 /\ q[cut].n = 0)
  <2>1. CASE cut = last + 1 /\ q[cut].kind = "NONE"
    <3>1. cut \in 1 .. Len(q)
      BY <1>3, <1>5, <2>1
    <3>2. q[cut] \in Queued
      BY <1>3, <3>1, ElementOfSeq
    <3>3. q[cut] \in Events \/ q[cut] = Event("NONE")
      BY <3>2 DEF Queued
    <3> QED
      BY <2>1, <3>3, EventFields
  <2> QED
    BY <1>5, <2>1
<1>8. delivered' \in [Ends -> Seq(Events)] /\ incoming' \in [Ends -> Seq(Queued)]
  <2>1. SubSeq(q, 1, last) \in Seq(Events)
    <3>1. ASSUME NEW i \in 1 .. last PROVE q[i] \in Events
      <4>1. i \in 1 .. Len(q)
        BY <1>3, <1>5
      <4>2. q[i] \in Queued /\ q[i].kind # "NONE"
        BY <1>3, <1>5, <4>1, ElementOfSeq
      <4> QED
        BY <4>2, EventFields DEF Queued
    <3>2. last \in Nat /\ Len(q) \in Nat /\ last \in Int
      BY <1>3, <1>5
    <3> QED
      BY <3>1, <3>2, SubSeqProperties
  <2>2. SubSeq(q, cut + 1, Len(q)) \in Seq(Queued)
    <3>1. cut \in 0 .. Len(q)
      BY <1>3, <1>5
    <3> QED
      BY <1>3, <3>1, Split
  <2>3. delivered[x] \o SubSeq(q, 1, last) \in Seq(Events)
    BY <1>3, <2>1, ConcatProperties
  <2> QED
    BY <1>2, <1>3, <2>2, <2>3
<1>9. TypeOK'
  BY <1>1, <1>8 DEF TypeOK, IInv, Shape, Phases, Queued
<1>10. start'[x] = "listening" => flag[x] /\ none = {}
  BY <1>2, <1>3
<1>11. AuthOnce' /\ ReadyOnce' /\ Silence'
  <2>1. \A y \in Ends : Flow(wire[y], wire'[y], Unmarked(y))
    BY <1>1, Typed, UnmarkedKinds, FlowForms
  <2>2. allowed
    BY <1>1 DEF Silence
  <2>3. start'["client"] = "new" => start["client"] = "new"
    BY <1>2, <1>3
  <2>4. Awake("client")' => Awake("client")
    BY <1>1, <1>2, <1>3 DEF Awake
  <2> QED
    BY <1>1, <2>1, <2>2, <2>3, <2>4, ControlKept
<1>12. NoneQueued(x)' /\ Flagless(x)'
  <2>1. NoneQueued(x)'
    <3> SUFFICES ASSUME Ending(x)', start'[x] # "ended" PROVE FALSE
      BY DEF NoneQueued
    <3>1. start'[x] = "listening" /\ flag[x] /\ none = {}
      BY <1>2, <1>3, <1>10
    <3>2. Ending(x)
      BY <1>1, <3>1 DEF Ending
    <3>3. Has(q, "NONE")
      BY <1>1, <3>2 DEF NoneQueued, q
    <3> QED
      BY <1>4, <1>6, <3>1, <3>3 DEF Has
  <2>2. Flagless(x)'
    <3>1. Awake(x)' => start'[x] = "listening"
      BY <1>2, <1>3 DEF Awake
    <3> QED
      BY <1>1, <1>10, <3>1 DEF Flagless
  <2> QED
    BY <2>1, <2>2
<1>13. FramesOf(x)'
  <2>1. Awake(x)
    BY <1>1 DEF Awake
  <2>2. Awake(x)' => cut = Len(q)
    BY <1>2, <1>3, <1>4, <1>5, <1>10 DEF Awake
  <2>3. Heard(delivered[x], incoming[x], Awake(x), last, cut, delivered'[x], incoming'[x], Awake(x)')
    BY <1>2, <1>3, <1>5, <1>7, <2>1, <2>2 DEF Heard, q
  <2> QED
    BY <1>1, <2>3, HeardFrames
<1>14. ASSUME NEW y \in Ends, y # x PROVE NoneQueued(y)' /\ Flagless(y)' /\ FramesOf(y)'
  <2>1. incoming'[y] = incoming[y] /\ start'[y] = start[y] /\ delivered'[y] = delivered[y]
    BY <1>2, <1>3, <1>14
  <2>2. NoneQueued(y)' /\ Flagless(y)'
    BY <1>1, <2>1, BystanderKept
  <2>3. Grown(incoming[y], incoming[y]) /\ Same(wire[y], wire[y])
    BY Typed, PlainEvents, GrownByOne, SameForms
  <2> QED
    BY <1>1, <2>1, <2>2, <2>3, QuietEnd DEF Up, Awake, Expects
<1> QED
  BY <1>9, <1>11, <1>12, <1>13, <1>14
-----------------------------------------------------------------------------
(* The theorems on types and frames.                                       *)

\* The invariant holds at first, and every step keeps it.
LEMMA InitFInv == Init => FInv
<1> SUFFICES ASSUME Init PROVE FInv
  OBVIOUS
<1> USE DEF Init
<1>0. <<>> \in Seq(Events) /\ <<>> \in Seq(Queued) /\ Len(<<>>) = 0
  OBVIOUS
<1>1. IInv
  BY InitIInv
<1>2. TypeOK
  <2>1. start \in [Ends -> Phases] /\ handler \in [Ends -> Handlers] /\ shutdown \in [Ends -> Shutdowns]
    BY DEF Phases, Handlers, Shutdowns
  <2>2. sent \in [Ends -> Nat] /\ \A x \in Ends : sent[x] <= MaxSent[x]
    BY SessionAssumption DEF Ends
  <2> QED
    BY <1>0, <2>1, <2>2 DEF TypeOK, Phases, Handlers, Shutdowns, Queued
<1>3. AuthOnce /\ ReadyOnce /\ Silence
  BY <1>0 DEF AuthOnce, ReadyOnce, Silence, One, Has, ReadyFirst, Awake, Ends
<1>4. ASSUME NEW x \in Ends PROVE NoneQueued(x) /\ Flagless(x) /\ FramesOf(x)
  <2>1. Other(x) \in Ends
    BY DEF Ends, Other
  <2>2. delivered[x] = <<>> /\ incoming[x] = <<>> /\ wire[x] = <<>> /\ skipped[x] = {} /\ sent[Other(x)] = 0
        /\ ~Awake(x) /\ ~Ending(x)
    BY <2>1 DEF Awake, Ending
  <2>3. Numbers(<<>>) = {} /\ Rising(<<>>) /\ Upto(0) = {}
    BY EmptyHasNone DEF Upto
  <2>4. FramesOf(x)
    BY <1>0, <2>2, <2>3 DEF FramesOf, Framed, InRow, Whole, Ripe, Given, Below
  <2> QED
    BY <2>2, <2>4 DEF NoneQueued, Flagless
<1> QED
  BY <1>1, <1>2, <1>3, <1>4 DEF FInv

LEMMA NextFInv == ASSUME FInv, [Next]_vars PROVE FInv'
<1>0. IInv' /\ "client" \in Ends /\ "server" \in Ends
  BY NextIInv DEF FInv, Ends
<1>1. CASE SendAuth
  BY <1>0, <1>1, SendAuthKeeps
<1>2. CASE OnHello
  BY <1>0, <1>2, OnAuthKeeps, CheckedKeeps, OnClientReadyKeeps, OrdinaryReads, OrdinaryKeeps DEF OnHello
<1>3. CASE AuthSent
  BY <1>0, <1>3, OrdinaryStarts, OrdinaryKeeps
<1>4. CASE Break \/ UNCHANGED vars
  BY <1>0, <1>4, OrdinaryWorld, OrdinaryKeeps
<1>5. ASSUME NEW x \in Ends, StartTimesOut(x) \/ StartStep(x) PROVE FInv'
  BY <1>0, <1>5, OrdinaryStarts, OrdinaryKeeps, ListenKeeps DEF StartStep
<1>6. ASSUME NEW x \in Ends, OnEvent(x) PROVE FInv'
  BY <1>0, <1>6, OrdinaryReads, OrdinaryEnds, OrdinaryKeeps, OnErrKeeps, OnDataKeeps DEF OnEvent
<1>7. ASSUME NEW x \in Ends, Send(x) \/ Rerotate(x) \/ Terminate(x) \/ Terminated(x) \/ Lost(x) PROVE FInv'
  BY <1>0, <1>7, SendKeeps, OrdinaryWorld, OrdinaryKeeps
<1> QED
  BY <1>1, <1>2, <1>3, <1>4, <1>5, <1>6, <1>7 DEF Next

\* What listen was given by then is in order and whole.
LEMMA GivenIsAccounted == ASSUME FInv PROVE FramesAccounted
<1> SUFFICES ASSUME NEW x \in Ends, NEW i \in 1 .. Len(delivered[x])
             PROVE  LET n == delivered[x][i].n
                    IN  /\ \A j \in 1 .. i - 1 : n > 0 => delivered[x][j].n < n
                        /\ \A m \in 1 .. n : m \in Numbers(delivered[x]) \cup skipped[x]
  BY DEF FramesAccounted
<1> DEFINE d == delivered[x]
<1>1. d \in Seq(Queued) /\ Len(d) \in Nat /\ Rising(d) /\ Given(d, skipped[x])
  <2>1. d \in Seq(Queued)
    BY Typed DEF FInv
  <2>2. FramesOf(x)
    BY DEF FInv
  <2>3. Rising(d) /\ Given(d, skipped[x])
    BY <2>2 DEF FramesOf, Framed, InRow
  <2> QED
    BY <2>1, <2>3
<1>2. d[i].n \in Nat /\ (d[i].n > 0 => d[i].n \in Numbers(d))
  BY <1>1, Element
<1>3. \A j \in 1 .. i - 1 : d[i].n > 0 => d[j].n < d[i].n
  BY <1>1 DEF Rising
<1>4. \A m \in 1 .. d[i].n : m \in Numbers(d) \cup skipped[x]
  BY <1>1, <1>2 DEF Given, Upto
<1> QED
  BY <1>3, <1>4

\* The invariant holds in every reachable state.
THEOREM FrameInvariance == Spec => []FInv
BY InitFInv, NextFInv, PTL DEF Spec

\* Every variable keeps its type, however many frames are sent; the bound on what an
\* end sends is kept.
THEOREM TypeCorrect == Spec => []TypeOK
<1>1. FInv => TypeOK
  BY DEF FInv
<1> QED
  BY <1>1, FrameInvariance, PTL

\* listen passes the frames of a connection to the receiver in the order they were
\* sent; of those before the last it passed none is missing but what an ERR of the
\* same batch took with it.
THEOREM FramesAreAccounted == Spec => []FramesAccounted
BY FrameInvariance, GivenIsAccounted, PTL
=============================================================================
