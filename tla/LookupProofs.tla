---------------------------- MODULE LookupProofs ----------------------------
(***************************************************************************)
(* How a call finds its way: which route of which peer, and which session. *)
(*                                                                         *)
(* Routes: the table a node keeps fits every peer it has accepted, for any *)
(* peers, roles and programs, since a table is only replaced while it is   *)
(* empty, and then the peers accepted so far have no routes. No two routes *)
(* of a program share an id, so that the id a pattern has in that table    *)
(* leads the peer to the handler of that pattern; and a call on its way    *)
(* over an accepted session keeps the session, the program and the table   *)
(* it was looked up in.                                                    *)
(*                                                                         *)
(* Balancer: what a call chooses is alive and registered, and a call fails *)
(* only for want of candidates, for any sessions, callers and lanes. What  *)
(* is registered has joined, what has joined and lives is registered, and  *)
(* behind a cacher that does not suspend nobody leaves the registry while  *)
(* a call chooses from it.                                                 *)
(*                                                                         *)
(* QSequence, the lists that both look in: a query that is run late gives  *)
(* what it would have given at once, for any items, functions and lists,   *)
(* since a list that is still to be read has nothing of its own, and reads *)
(* one that has been read.                                                 *)
(***************************************************************************)
EXTENDS Routes, Balancer, QSequence, ListsProofs, FiniteSetTheorems

-----------------------------------------------------------------------------
(* Tables of routes.                                                        *)

\* The last of a table at some places is at the greatest of them.
LEMMA LastIsGreatest ==
    ASSUME NEW table, Len(table) \in Nat, NEW places \in SUBSET (1 .. Len(table)), places # {}
    PROVE  \E i \in places : LastAt(table, places) = table[i]
<1>1. \E i \in places : \A j \in places : j <= i
  BY Greatest
<1>2. (CHOOSE i \in places : \A j \in places : j <= i) \in places
  BY <1>1
<1> QED
  BY <1>2 DEF LastAt

\* The routes of a program that are numbered before a place are counted.
LEMMA CountsAreNumbers ==
    ASSUME NEW prog \in Programs, NEW i \in 1 .. Len(prog)
    PROVE  LET before == {j \in 1 .. i - 1 : ~IsHook(prog[j])}
           IN  IsFiniteSet(before) /\ Cardinality(before) \in Nat
<1> DEFINE before == {j \in 1 .. i - 1 : ~IsHook(prog[j])}
<1>1. Len(prog) \in Nat
  BY RoutesAssumption
<1>2. i - 1 \in Int /\ 1 \in Int
  BY <1>1
<1>3. IsFiniteSet(1 .. i - 1)
  BY <1>2, FS_Interval
<1>4. before \subseteq 1 .. i - 1
  OBVIOUS
<1>5. IsFiniteSet(before)
  <2> HIDE DEF before
  <2> QED
    BY <1>3, <1>4, FS_Subset
<1> QED
  BY <1>5, FS_CardinalityType

\* The routes of a program are a list.
LEMMA RoutesAreListed ==
    ASSUME NEW prog \in Programs
    PROVE  /\ Len(prog) \in Nat
           /\ AddRoutes(prog) \in Seq({AddRoutes(prog)[i] : i \in 1 .. Len(prog)})
           /\ Len(AddRoutes(prog)) = Len(prog)
<1>1. Len(prog) \in Nat
  BY RoutesAssumption
<1>2. AddRoutes(prog) \in Seq({AddRoutes(prog)[i] : i \in 1 .. Len(prog)})
  <2>1. AddRoutes(prog) \in [1 .. Len(prog) -> {AddRoutes(prog)[i] : i \in 1 .. Len(prog)}]
    BY DEF AddRoutes
  <2> QED
    BY <1>1, <2>1, IsASeq
<1>3. Len(AddRoutes(prog)) = Len(prog)
  <2>1. DOMAIN AddRoutes(prog) = 1 .. Len(prog)
    BY DEF AddRoutes
  <2> QED
    BY <1>1, <1>2, <2>1, LenProperties
<1> QED
  BY <1>1, <1>2, <1>3

\* What a peer tells in READY: its routes of the namespace, and no others.
LEMMA GetRoutesHolds ==
    ASSUME NEW prog \in Programs
    PROVE  LET full == AddRoutes(prog)
               told == GetRoutes(prog)
           IN  /\ told \in Seq({full[i] : i \in 1 .. Len(prog)})
               /\ Len(told) \in Nat
               /\ \A k \in 1 .. Len(told) : \E i \in Here(full) : told[k] = full[i]
               /\ told = <<>> => Here(full) = {}
               /\ Here(full) \in SUBSET (1 .. Len(prog))
<1> DEFINE full == AddRoutes(prog)
           told == GetRoutes(prog)
           S == {full[i] : i \in 1 .. Len(prog)}
<1>1. full \in Seq(S) /\ Len(full) = Len(prog) /\ Len(prog) \in Nat
  BY RoutesAreListed
<1>2. Here(full) \in SUBSET (1 .. Len(prog))
  BY <1>1 DEF Here
<1>3. /\ told \in Seq(S)
      /\ \A k \in 1 .. Len(told) : \E i \in Here(full) \cap (1 .. Len(full)) : told[k] = full[i]
      /\ \A i \in Here(full) \cap (1 .. Len(full)) : \E k \in 1 .. Len(told) : told[k] = full[i]
  <2> HIDE DEF full, S
  <2>1. /\ At(full, Here(full)) \in Seq(S)
        /\ \A k \in 1 .. Len(At(full, Here(full))) : \E i \in Here(full) \cap (1 .. Len(full)) : At(full, Here(full))[k] = full[i]
        /\ \A i \in Here(full) \cap (1 .. Len(full)) : \E k \in 1 .. Len(At(full, Here(full))) : At(full, Here(full))[k] = full[i]
    BY <1>1, AtHolds
  <2>2. told = At(full, Here(full))
    BY DEF GetRoutes, full
  <2> QED
    BY <2>1, <2>2
<1>4. ASSUME told = <<>> PROVE Here(full) = {}
  <2>1. 1 .. Len(told) = {}
    BY <1>4
  <2> HIDE DEF told, full
  <2> QED
    BY <1>1, <1>2, <1>3, <2>1
<1> HIDE DEF told, full, S
<1> QED
  BY <1>1, <1>2, <1>3, <1>4 DEF told, full, S

\* No two routes of a program have one id, except hooks, which have none.
LEMMA IdsDiffer ==
    ASSUME NEW prog \in Programs, NEW i \in 1 .. Len(prog), NEW j \in 1 .. Len(prog), ~IsHook(prog[i]),
           AddRoutes(prog)[i].id = AddRoutes(prog)[j].id
    PROVE  i = j
<1>1. Len(prog) \in Nat
  BY RoutesAreListed
<1>2. RouteId(prog, i) = RouteId(prog, j)
  BY DEF AddRoutes
<1>3. ~IsHook(prog[j])
  <2>1. RouteId(prog, i) # 0
    <3>1. Cardinality({k \in 1 .. i - 1 : ~IsHook(prog[k])}) \in Nat
      BY CountsAreNumbers
    <3> QED
      BY <3>1 DEF RouteId, FirstIndex
  <2> QED
    BY <1>2, <2>1 DEF RouteId
<1>4. ASSUME NEW a \in 1 .. Len(prog), NEW b \in 1 .. Len(prog), a < b, ~IsHook(prog[a]), ~IsHook(prog[b])
      PROVE  RouteId(prog, a) # RouteId(prog, b)
  <2> DEFINE A == {k \in 1 .. a - 1 : ~IsHook(prog[k])}
             B == {k \in 1 .. b - 1 : ~IsHook(prog[k])}
  <2>1. IsFiniteSet(A) /\ IsFiniteSet(B) /\ Cardinality(A) \in Nat /\ Cardinality(B) \in Nat
    BY CountsAreNumbers
  <2>2. A \cup {a} \subseteq B /\ a \notin A
    BY <1>1, <1>4
  <2>3. RouteId(prog, a) = FirstIndex + Cardinality(A) /\ RouteId(prog, b) = FirstIndex + Cardinality(B)
    BY <1>4 DEF RouteId
  <2> HIDE DEF A, B
  <2>4. Cardinality(A \cup {a}) = Cardinality(A) + 1
    BY <2>1, <2>2, FS_AddElement
  <2>5. Cardinality(A \cup {a}) <= Cardinality(B)
    BY <2>1, <2>2, FS_Subset
  <2> QED
    BY <2>1, <2>3, <2>4, <2>5 DEF FirstIndex
<1> QED
  BY <1>1, <1>2, <1>3, <1>4

\* The id a pattern has in the table of a peer leads the peer to the handler it
\* registered for that pattern.
LEMMA IdLeadsToHandler ==
    ASSUME NEW prog \in Programs, NEW want \in Wants,
           Dispatch(GetRoutes(prog), want.pattern, want.type) # NoRoute
    PROVE  LET route == Dispatch(GetRoutes(prog), want.pattern, want.type)
               got == RelevantRoute(prog, route.id)
           IN  got.pattern = want.pattern /\ got.type = want.type
<1> DEFINE full == AddRoutes(prog)
           told == GetRoutes(prog)
           route == Dispatch(told, want.pattern, want.type)
           matching == {k \in Here(told) : told[k].pattern = want.pattern /\ told[k].type = want.type}
           same == {k \in Here(full) : full[k].id = route.id}
<1>1. Len(prog) \in Nat /\ Len(full) = Len(prog) /\ Here(full) \in SUBSET (1 .. Len(prog))
  BY RoutesAreListed, GetRoutesHolds
<1>2. Len(told) \in Nat /\ \A k \in 1 .. Len(told) : \E i \in Here(full) : told[k] = full[i]
  BY GetRoutesHolds
<1>3. PICK k \in matching : route = told[k]
  <2>1. matching \in SUBSET (1 .. Len(told))
    BY DEF Here
  <2>2. route = LastAt(told, matching)
    BY DEF Dispatch
  <2>3. matching # {}
    BY <2>2 DEF LastAt
  <2> HIDE DEF matching, told
  <2> QED
    BY <1>2, <2>1, <2>2, <2>3, LastIsGreatest
<1>4. PICK i \in Here(full) : route = full[i]
  BY <1>2, <1>3 DEF Here
<1>5. full[i].pattern = want.pattern /\ full[i].type = want.type
  BY <1>3, <1>4
<1>6. i \in 1 .. Len(prog)
  BY <1>1
<1>7. ~IsHook(prog[i])
  <2>1. full[i].type = prog[i].type
    BY <1>6 DEF AddRoutes
  <2> QED
    BY <1>5, <2>1 DEF IsHook, Wants
<1>8. same = {i}
  <2>1. i \in same
    BY <1>4
  <2>2. ASSUME NEW j \in same PROVE j = i
    BY <1>1, <1>4, <1>6, <1>7, <2>2, IdsDiffer
  <2> QED
    BY <2>1, <2>2
<1>9. RelevantRoute(prog, route.id) = full[i]
  <2>1. RelevantRoute(prog, route.id) = LastAt(full, same)
    BY DEF RelevantRoute
  <2>2. PICK j \in same : LastAt(full, same) = full[j]
    <3>1. same \in SUBSET (1 .. Len(full))
      BY <1>1
    <3>2. same # {}
      BY <1>8
    <3> HIDE DEF same, full
    <3> QED
      BY <1>1, <3>1, <3>2, LastIsGreatest
  <2> QED
    BY <1>8, <2>1, <2>2
<1> QED
  BY <1>5, <1>9

-----------------------------------------------------------------------------
(* The invariant: the node's tables, and the calls on their way.            *)

Tables == {GetRoutes(prog) : prog \in Programs} \cup {<<>>}
Call == [want : Wants \cup {NoWant}, id : Nat, open : BOOLEAN]

OnlyServersCheck == \A p \in Peers : session[p] \in {"checking", "rejecting"} => role[p] = "server"

\* A call by pattern over an accepted session: that session is still there, and
\* the table it was looked up in is still the one of its role.
Fresh(frame, status, table) ==
    frame.want # NoWant /\ frame.open =>
        LET route == Dispatch(table, frame.want.pattern, frame.want.type)
        IN  status = "open" /\ route # NoRoute /\ frame.id = route.id
CallsAreFresh ==
    \A p \in Peers : \A k \in 1 .. Len(calls[p]) : Fresh(calls[p][k], session[p], remote[role[p]])

RoutesIInv == RoutesTypeOK /\ OnlyServersCheck /\ TablesAgree /\ CallsAreFresh /\ HandlerIsMeant

\* Initially no session is accepted and no call on its way.
LEMMA InitRoutesIInv == RoutesInit => RoutesIInv
<1> SUFFICES ASSUME RoutesInit PROVE RoutesIInv
  OBVIOUS
<1>1. calls \in [Peers -> Seq(Call)]
  BY DEF RoutesInit
<1>2. RoutesTypeOK
  BY <1>1 DEF RoutesInit, RoutesTypeOK, NoOutcome, Call
<1>3. CallsAreFresh
  BY DEF RoutesInit, CallsAreFresh
<1> QED
  BY <1>2, <1>3 DEF RoutesInit, RoutesIInv, OnlyServersCheck, TablesAgree, HandlerIsMeant, NoOutcome

\* A table the node keeps is a list of routes whose ids are numbers.
LEMMA FoundIsNumbered ==
    ASSUME NEW table \in Tables, NEW want \in Wants, Dispatch(table, want.pattern, want.type) # NoRoute
    PROVE  Dispatch(table, want.pattern, want.type).id \in Nat
<1> DEFINE places == {k \in Here(table) : table[k].pattern = want.pattern /\ table[k].type = want.type}
<1>1. CASE table = <<>>
  <2>1. places = {}
    BY <1>1 DEF Here
  <2>2. Dispatch(table, want.pattern, want.type) = LastAt(table, places)
    BY DEF Dispatch
  <2> HIDE DEF places
  <2>3. Dispatch(table, want.pattern, want.type) = NoRoute
    BY <2>1, <2>2 DEF LastAt
  <2> QED
    BY <2>3
<1>2. CASE table # <<>>
  <2>1. PICK prog \in Programs : table = GetRoutes(prog)
    BY <1>2 DEF Tables
  <2>2. /\ Len(table) \in Nat
        /\ \A k \in 1 .. Len(table) : \E i \in 1 .. Len(prog) : table[k] = AddRoutes(prog)[i]
    BY <2>1, GetRoutesHolds
  <2>3. Dispatch(table, want.pattern, want.type) = LastAt(table, places)
    BY DEF Dispatch
  <2>4. places \in SUBSET (1 .. Len(table))
    BY DEF Here
  <2>5. places # {}
    <3> HIDE DEF places
    <3> QED
      BY <2>3 DEF LastAt
  <2>6. PICK k \in 1 .. Len(table) : Dispatch(table, want.pattern, want.type) = table[k]
    <3> HIDE DEF places
    <3> QED
      BY <2>2, <2>3, <2>4, <2>5, LastIsGreatest
  <2>7. PICK i \in 1 .. Len(prog) : table[k] = AddRoutes(prog)[i]
    BY <2>2
  <2>8. table[k].id = RouteId(prog, i)
    BY <2>7 DEF AddRoutes
  <2>9. RouteId(prog, i) \in Nat
    <3>1. Cardinality({j \in 1 .. i - 1 : ~IsHook(prog[j])}) \in Nat
      BY CountsAreNumbers
    <3> QED
      BY <3>1 DEF RouteId, FirstIndex
  <2> QED
    BY <2>6, <2>8, <2>9
<1> QED
  BY <1>1, <1>2

\* In an empty table nothing is found.
LEMMA NothingIsFound == ASSUME NEW want PROVE Dispatch(<<>>, want.pattern, want.type) = NoRoute
<1> DEFINE places == {k \in Here(<<>>) : <<>>[k].pattern = want.pattern /\ <<>>[k].type = want.type}
<1>1. places = {}
  BY DEF Here
<1>2. Dispatch(<<>>, want.pattern, want.type) = LastAt(<<>>, places)
  BY DEF Dispatch
<1> HIDE DEF places
<1> QED
  BY <1>1, <1>2 DEF LastAt

\* A call on its way over an accepted session finds the handler that is meant, or
\* a peer without routes.
LEMMA FreshFindsHandler ==
    ASSUME RoutesIInv, NEW p \in Peers, NEW frame \in Call, Fresh(frame, session[p], remote[role[p]]),
           frame.want # NoWant, frame.open
    PROVE  LET got == RelevantRoute(program[p], frame.id)
           IN  \/ got.pattern = frame.want.pattern /\ got.type = frame.want.type
               \/ got = NoRoute /\ GetRoutes(program[p]) = <<>>
<1> DEFINE prog == program[p]
           want == frame.want
           table == remote[role[p]]
<1>1. prog \in Programs /\ want \in Wants
  BY DEF RoutesIInv, RoutesTypeOK, Call
<1>2. /\ session[p] = "open"
      /\ Dispatch(table, want.pattern, want.type) # NoRoute
      /\ frame.id = Dispatch(table, want.pattern, want.type).id
  BY DEF Fresh
<1>3. GetRoutes(prog) = <<>> \/ GetRoutes(prog) = table
  BY <1>2 DEF RoutesIInv, TablesAgree
<1>4. CASE GetRoutes(prog) = table
  BY <1>1, <1>2, <1>4, IdLeadsToHandler
<1>5. CASE GetRoutes(prog) = <<>>
  <2> DEFINE full == AddRoutes(prog)
             same == {i \in Here(full) : full[i].id = frame.id}
  <2>1. Here(full) = {}
    BY <1>1, <1>5, GetRoutesHolds
  <2>2. same = {}
    BY <2>1
  <2>3. RelevantRoute(prog, frame.id) = LastAt(full, same)
    BY DEF RelevantRoute
  <2> HIDE DEF same
  <2>4. RelevantRoute(prog, frame.id) = NoRoute
    BY <2>2, <2>3 DEF LastAt
  <2> QED
    BY <1>5, <2>4
<1> QED
  BY <1>3, <1>4, <1>5

\* What a step has to do for the calls on their way to stay as they should be: it
\* replaces no table but an empty one.
LEMMA CallsStayFresh ==
    ASSUME RoutesTypeOK, CallsAreFresh, role' = role,
           \A q \in Peers : \A k \in 1 .. Len(calls'[q]) : \E l \in 1 .. Len(calls[q]) : calls'[q][k] = calls[q][l],
           \A q \in Peers : Len(calls'[q]) > 0 /\ session[q] = "open" => session'[q] = "open",
           \A q \in Peers : remote'[role[q]] = remote[role[q]] \/ remote[role[q]] = <<>>
    PROVE  CallsAreFresh'
<1> SUFFICES ASSUME NEW q \in Peers, NEW k \in 1 .. Len(calls'[q])
             PROVE  Fresh(calls'[q][k], session'[q], remote'[role[q]])
  BY DEF CallsAreFresh
<1> DEFINE frame == calls'[q][k]
<1>1. PICK l \in 1 .. Len(calls[q]) : frame = calls[q][l]
  OBVIOUS
<1>2. Fresh(frame, session[q], remote[role[q]])
  BY <1>1 DEF CallsAreFresh
<1>3. CASE frame.want # NoWant /\ frame.open
  <2>1. /\ session[q] = "open"
        /\ Dispatch(remote[role[q]], frame.want.pattern, frame.want.type) # NoRoute
    BY <1>2, <1>3 DEF Fresh
  <2>2. remote'[role[q]] = remote[role[q]]
    BY <2>1, NothingIsFound
  <2>3. session'[q] = "open"
    BY <2>1
  <2> QED
    BY <1>2, <2>1, <2>2, <2>3
<1>4. CASE ~(frame.want # NoWant /\ frame.open)
  BY <1>4 DEF Fresh
<1> QED
  BY <1>3, <1>4

\* A peer whose table is accepted: the kept table becomes or is the peer's, and
\* whoever was accepted before still agrees with it.
LEMMA AcceptKeepsAgreement ==
    ASSUME RoutesIInv, NEW p \in Peers, session[p] # "open",
           Accepted(role[p], GetRoutes(program[p])),
           IncludeRemoteRoutes(role[p], GetRoutes(program[p])),
           session' = [session EXCEPT ![p] = "open"],
           UNCHANGED <<role, program, calls, outcome>>
    PROVE  RoutesIInv'
<1> DEFINE table == GetRoutes(program[p])
<1>1. role[p] \in Sides /\ program[p] \in Programs
  BY DEF RoutesIInv, RoutesTypeOK
<1>2. RoutesTypeOK'
  <2>1. remote' \in [Sides -> Tables]
    <3>1. table \in Tables
      BY <1>1 DEF Tables
    <3>2. remote \in [Sides -> Tables]
      BY DEF RoutesIInv, RoutesTypeOK, Tables
    <3> HIDE DEF table
    <3> QED
      BY <1>1, <3>1, <3>2 DEF IncludeRemoteRoutes, table
  <2> QED
    BY <2>1 DEF RoutesIInv, RoutesTypeOK, Tables
<1>3. remote'[role[p]] = table
  BY <1>1 DEF RoutesIInv, RoutesTypeOK, Accepted, IncludeRemoteRoutes
<1>4. ASSUME NEW q \in Peers
      PROVE  remote'[role[q]] = remote[role[q]] \/ remote[role[q]] = <<>>
  <2>1. role[q] \in Sides
    BY DEF RoutesIInv, RoutesTypeOK
  <2> QED
    BY <1>1, <2>1 DEF RoutesIInv, RoutesTypeOK, IncludeRemoteRoutes
<1>5. TablesAgree'
  <2> SUFFICES ASSUME NEW q \in Peers, session'[q] = "open"
               PROVE  GetRoutes(program[q]) \in {<<>>, remote'[role[q]]}
    BY DEF TablesAgree
  <2>1. CASE q = p
    BY <2>1, <1>3
  <2>2. CASE q # p
    <3>1. GetRoutes(program[q]) \in {<<>>, remote[role[q]]}
      BY <2>2 DEF RoutesIInv, RoutesTypeOK, TablesAgree
    <3> QED
      BY <1>4, <3>1
  <2> QED
    BY <2>1, <2>2
<1>6. OnlyServersCheck'
  BY DEF RoutesIInv, RoutesTypeOK, OnlyServersCheck
<1>7. CallsAreFresh'
  <2>1. \A q \in Peers : session[q] = "open" => session'[q] = "open"
    BY DEF RoutesIInv, RoutesTypeOK
  <2> QED
    BY <1>4, <2>1, CallsStayFresh DEF RoutesIInv
<1> QED
  BY <1>2, <1>5, <1>6, <1>7 DEF RoutesIInv, HandlerIsMeant

\* A step that accepts nobody, keeps the table, and takes no session from a call
\* on its way.
LEMMA OthersKeepAgreement ==
    ASSUME RoutesIInv, RoutesTypeOK', OnlyServersCheck', UNCHANGED <<role, remote, outcome>>,
           \A q \in Peers : session'[q] = "open" => session[q] = "open" /\ program'[q] = program[q],
           \A q \in Peers : (calls'[q] = calls[q] /\ (session[q] = "open" => session'[q] = "open")) \/ calls'[q] = <<>>
    PROVE  RoutesIInv'
<1>1. TablesAgree'
  <2> SUFFICES ASSUME NEW q \in Peers, session'[q] = "open"
               PROVE  GetRoutes(program'[q]) \in {<<>>, remote[role[q]]}
    BY DEF TablesAgree
  <2>1. GetRoutes(program[q]) \in {<<>>, remote[role[q]]}
    BY DEF RoutesIInv, TablesAgree
  <2> QED
    BY <2>1
<1>2. CallsAreFresh'
  <2>1. ASSUME NEW q \in Peers, NEW k \in 1 .. Len(calls'[q])
        PROVE  \E l \in 1 .. Len(calls[q]) : calls'[q][k] = calls[q][l]
    OBVIOUS
  <2>2. ASSUME NEW q \in Peers, Len(calls'[q]) > 0, session[q] = "open"
        PROVE  session'[q] = "open"
    BY <2>2
  <2> QED
    BY <2>1, <2>2, CallsStayFresh DEF RoutesIInv
<1> QED
  BY <1>1, <1>2 DEF RoutesIInv, HandlerIsMeant

\* A call that is written is of its type, and fresh if it was looked up.
LEMMA WriteKeepsAgreement ==
    ASSUME RoutesIInv, NEW p \in Peers, NEW want \in Wants \cup {NoWant}, NEW id \in Nat,
           Write(p, want, id), UNCHANGED <<role, program, session, remote, outcome>>,
           want # NoWant => LET route == Dispatch(remote[role[p]], want.pattern, want.type)
                            IN  route # NoRoute /\ id = route.id
    PROVE  RoutesIInv'
<1> DEFINE frame == [want |-> want, id |-> id, open |-> session[p] = "open"]
<1>1. calls \in [Peers -> Seq(Call)]
  BY DEF RoutesIInv, RoutesTypeOK, Call
<1>2. frame \in Call
  BY DEF Call
<1>3. calls' = [calls EXCEPT ![p] = Append(@, frame)]
  BY DEF Write
<1>4. calls[p] \in Seq(Call)
  BY <1>1
<1>5. Fresh(frame, session[p], remote[role[p]])
  BY DEF Fresh
<1> HIDE DEF frame
<1>6. calls' \in [Peers -> Seq(Call)]
  BY <1>1, <1>2, <1>3, <1>4
<1>7. RoutesTypeOK'
  BY <1>6 DEF RoutesIInv, RoutesTypeOK, Call
<1>8. CallsAreFresh'
  <2> SUFFICES ASSUME NEW q \in Peers, NEW k \in 1 .. Len(calls'[q])
               PROVE  Fresh(calls'[q][k], session[q], remote[role[q]])
    BY DEF CallsAreFresh
  <2>1. CASE q # p
    <3>1. calls'[q] = calls[q]
      BY <1>1, <1>3, <2>1
    <3> QED
      BY <3>1 DEF RoutesIInv, CallsAreFresh
  <2>2. CASE q = p
    <3>1. calls'[q] = Append(calls[q], frame)
      BY <1>1, <1>3, <2>2
    <3>2. CASE k = Len(calls[q]) + 1
      BY <1>2, <1>4, <1>5, <2>2, <3>1, <3>2
    <3>3. CASE k # Len(calls[q]) + 1
      <4>1. k \in 1 .. Len(calls[q]) /\ calls'[q][k] = calls[q][k]
        BY <1>2, <1>4, <2>2, <3>1, <3>3
      <4> QED
        BY <4>1 DEF RoutesIInv, CallsAreFresh
    <3> QED
      BY <3>2, <3>3
  <2> QED
    BY <2>1, <2>2
<1> QED
  BY <1>7, <1>8 DEF RoutesIInv, OnlyServersCheck, TablesAgree, HandlerIsMeant

\* A call that arrives leaves the others as they are.
LEMMA ArriveKeepsAgreement ==
    ASSUME RoutesIInv, NEW p \in Peers, Arrive(p)
    PROVE  RoutesIInv'
<1> DEFINE frame == Head(calls[p])
<1>1. calls \in [Peers -> Seq(Call)] /\ calls[p] # <<>>
  BY DEF RoutesIInv, RoutesTypeOK, Call, Arrive
<1>2. calls[p] \in Seq(Call)
  BY <1>1
<1>3. frame \in Call /\ frame = calls[p][1] /\ 1 \in 1 .. Len(calls[p])
  BY <1>1, <1>2
<1>4. /\ calls' = [calls EXCEPT ![p] = Tail(@)]
      /\ outcome' = [want |-> frame.want, open |-> frame.open,
                     got |-> RelevantRoute(program[p], frame.id), empty |-> GetRoutes(program[p]) = <<>>]
      /\ UNCHANGED <<role, program, session, remote>>
  BY DEF Arrive
<1>5. Fresh(frame, session[p], remote[role[p]])
  BY <1>3 DEF RoutesIInv, CallsAreFresh
<1> HIDE DEF frame
<1>6. /\ Tail(calls[p]) \in Seq(Call)
      /\ Len(Tail(calls[p])) = Len(calls[p]) - 1
      /\ \A k \in 1 .. Len(Tail(calls[p])) : Tail(calls[p])[k] = calls[p][k + 1]
  BY <1>1, <1>2, HeadTailProperties
<1>7. RoutesTypeOK'
  <2>1. calls' \in [Peers -> Seq(Call)]
    BY <1>1, <1>4, <1>6
  <2>2. outcome'.want \in Wants \cup {NoWant}
    BY <1>3, <1>4 DEF Call
  <2> QED
    BY <1>4, <2>1, <2>2 DEF RoutesIInv, RoutesTypeOK, Call
<1>8. CallsAreFresh'
  <2>1. ASSUME NEW q \in Peers, NEW k \in 1 .. Len(calls'[q])
        PROVE  \E l \in 1 .. Len(calls[q]) : calls'[q][k] = calls[q][l]
    <3>1. CASE q # p
      BY <1>1, <1>4, <3>1
    <3>2. CASE q = p
      <4>1. calls'[q] = Tail(calls[p])
        BY <1>1, <1>4, <3>2
      <4>2. k + 1 \in 1 .. Len(calls[q]) /\ calls'[q][k] = calls[q][k + 1]
        BY <1>2, <1>6, <3>2, <4>1
      <4> QED
        BY <4>2
    <3> QED
      BY <3>1, <3>2
  <2> QED
    BY <1>4, <2>1, CallsStayFresh DEF RoutesIInv
<1>9. HandlerIsMeant'
  <2> SUFFICES ASSUME frame.open, frame.want # NoWant
               PROVE  LET got == RelevantRoute(program[p], frame.id)
                      IN  \/ got.pattern = frame.want.pattern /\ got.type = frame.want.type
                          \/ got = NoRoute /\ GetRoutes(program[p]) = <<>>
    BY <1>4 DEF HandlerIsMeant
  <2> QED
    BY <1>3, <1>5, FreshFindsHandler
<1> QED
  BY <1>4, <1>7, <1>8, <1>9 DEF RoutesIInv, OnlyServersCheck, TablesAgree

\* Every step keeps the invariant.
LEMMA NextRoutesIInv == ASSUME RoutesIInv, [RoutesNext]_routing PROVE RoutesIInv'
<1> USE DEF RoutesIInv
<1>1. ASSUME NEW p \in Peers, ConnectAsClient(p) PROVE RoutesIInv'
  <2>1. role[p] = "client" /\ session[p] # "open"
    BY <1>1 DEF ConnectAsClient
  <2> QED
    BY <1>1, <2>1, AcceptKeepsAgreement DEF ConnectAsClient
<1>2. ASSUME NEW p \in Peers, ConnectAsServer(p) PROVE RoutesIInv'
  BY <1>2, OthersKeepAgreement DEF ConnectAsServer, RoutesTypeOK, OnlyServersCheck
<1>3. ASSUME NEW p \in Peers, ReadReady(p) PROVE RoutesIInv'
  <2>1. CASE Accepted("server", GetRoutes(program[p])) /\ session' = [session EXCEPT ![p] = "open"]
    <3>1. role[p] = "server" /\ session[p] # "open"
      BY <1>3 DEF ReadReady, OnlyServersCheck
    <3> QED
      BY <1>3, <2>1, <3>1, AcceptKeepsAgreement DEF ReadReady
  <2>2. CASE ~Accepted("server", GetRoutes(program[p]))
    BY <1>3, <2>2, OthersKeepAgreement DEF ReadReady, RoutesTypeOK, OnlyServersCheck
  <2> QED
    BY <1>3, <2>1, <2>2 DEF ReadReady
<1>4. ASSUME NEW p \in Peers, Disconnect(p) PROVE RoutesIInv'
  <2>1. <<>> \in Seq([want : Wants \cup {NoWant}, id : Nat, open : BOOLEAN])
    OBVIOUS
  <2>2. RoutesTypeOK'
    BY <1>4, <2>1 DEF Disconnect, RoutesTypeOK
  <2>3. OnlyServersCheck'
    BY <1>4 DEF Disconnect, RoutesTypeOK, OnlyServersCheck
  <2>4. \A q \in Peers : (calls'[q] = calls[q] /\ (session[q] = "open" => session'[q] = "open")) \/ calls'[q] = <<>>
    BY <1>4 DEF Disconnect, RoutesTypeOK
  <2>5. \A q \in Peers : session'[q] = "open" => session[q] = "open" /\ program'[q] = program[q]
    BY <1>4 DEF Disconnect, RoutesTypeOK
  <2>6. UNCHANGED <<role, remote, outcome>>
    BY <1>4 DEF Disconnect
  <2> QED
    BY <2>2, <2>3, <2>4, <2>5, <2>6, OthersKeepAgreement
<1>5. ASSUME NEW p \in Peers, Redeploy(p) PROVE RoutesIInv'
  BY <1>5, OthersKeepAgreement DEF Redeploy, RoutesTypeOK, OnlyServersCheck
<1>6. ASSUME NEW p \in Peers, Arrive(p) PROVE RoutesIInv'
  BY <1>6, ArriveKeepsAgreement
<1>7. ASSUME NEW p \in Peers, NEW want \in Wants, Send(p, want) PROVE RoutesIInv'
  <2> DEFINE route == Dispatch(remote[role[p]], want.pattern, want.type)
  <2>1. remote[role[p]] \in Tables
    BY DEF RoutesTypeOK, Tables
  <2>2. route # NoRoute /\ Write(p, want, route.id) /\ UNCHANGED <<role, program, session, remote, outcome>>
    BY <1>7 DEF Send
  <2>3. route.id \in Nat
    BY <2>1, <2>2, FoundIsNumbered
  <2> QED
    BY <2>2, <2>3, WriteKeepsAgreement
<1>8. ASSUME NEW p \in Peers, NEW id \in 0 .. FirstIndex, SendCall(p, id) PROVE RoutesIInv'
  <2>1. id \in Nat
    BY DEF FirstIndex
  <2> QED
    BY <1>8, <2>1, WriteKeepsAgreement DEF SendCall
<1>9. CASE UNCHANGED routing
  BY <1>9, OthersKeepAgreement DEF routing, RoutesTypeOK, OnlyServersCheck
<1> QED
  BY <1>1, <1>2, <1>3, <1>4, <1>5, <1>6, <1>7, <1>8, <1>9 DEF RoutesNext

\* The invariant holds in every reachable state.
THEOREM RoutesInvariance == RoutesSpec => []RoutesIInv
<1>1. RoutesInit => RoutesIInv
  BY InitRoutesIInv
<1>2. RoutesIInv /\ [RoutesNext]_routing => RoutesIInv'
  BY NextRoutesIInv
<1> QED
  BY <1>1, <1>2, PTL DEF RoutesSpec

\* The tables and the calls keep their types, for any peers, programs and roles.
THEOREM RoutesTypeCorrect == RoutesSpec => []RoutesTypeOK
<1>1. RoutesIInv => RoutesTypeOK
  BY DEF RoutesIInv
<1> QED
  BY <1>1, RoutesInvariance, PTL

\* The table that calls to an accepted peer are looked up in is that peer's own,
\* unless the peer has no routes: for any peers, programs and redeployments.
THEOREM TablesFit == RoutesSpec => []TablesAgree
<1>1. RoutesIInv => TablesAgree
  BY DEF RoutesIInv
<1> QED
  BY <1>1, RoutesInvariance, PTL

\* A call by pattern over an accepted session runs the handler the peer registered
\* for that pattern, however the programs number their routes.
THEOREM HandlersAreMeant == RoutesSpec => []HandlerIsMeant
<1>1. RoutesIInv => HandlerIsMeant
  BY DEF RoutesIInv
<1> QED
  BY <1>1, RoutesInvariance, PTL

-----------------------------------------------------------------------------
(* The registry and the choice of a session.                                *)

Draws == [step : {"asking", "answered"}, lane : Lanes, list : Seq(Sessions) \ {<<>>}, total : Nat \ {0}, index : Nat]
Choosing(c) == call[c].step \in {"asking", "answered"}

\* What is registered has joined, in its namespace; and what has joined leaves the
\* registry only dead.
MembersJoined == \A ns \in Namespaces : \A s \in Members(ns) : s \in joined /\ NamespaceOf[s] = ns
LiveAreMembers == \A s \in joined \cap live : s \in Members(NamespaceOf[s])

\* The candidates a choice goes on with have joined; and behind a cacher that does
\* not suspend they are all still registered.
Listed(s, lane, there) == s \in joined /\ NamespaceOf[s] = lane.ns /\ (cacher = "memory" => Contains(there, s))
CandidatesJoined ==
    \A c \in Callers : Choosing(c) =>
        \A i \in 1 .. Len(call[c].list) : Listed(call[c].list[i], call[c].lane, registry[call[c].lane.ns])

IInv == TypeOK /\ MembersJoined /\ LiveAreMembers /\ CandidatesJoined

\* Initially nothing is registered and nobody chooses.
LEMMA InitIInv == Init => IInv
<1> SUFFICES ASSUME Init PROVE IInv
  OBVIOUS
<1>1. \A ns \in Namespaces : Members(ns) = {}
  BY DEF Init, Members
<1>2. TypeOK
  BY BalancerAssumption DEF Init, TypeOK, Calls
<1>3. \A c \in Callers : ~Choosing(c)
  BY DEF Init, Choosing, Idle
<1> QED
  BY <1>1, <1>2, <1>3 DEF Init, IInv, MembersJoined, LiveAreMembers, CandidatesJoined

\* What dispatch returns: the members of the lane's namespace that match it.
LEMMA CandidatesHold ==
    ASSUME TypeOK, NEW lane \in Lanes
    PROVE  /\ Candidates(lane) \in Seq(Sessions)
           /\ \A i \in 1 .. Len(Candidates(lane)) : Candidates(lane)[i] \in Members(lane.ns)
           /\ Candidates(lane) = <<>> => \A s \in Members(lane.ns) : ~Matches(s, lane)
<1> DEFINE list == registry[lane.ns]
           places == {i \in 1 .. Len(list) : Matches(list[i], lane)}
<1>1. list \in Seq(Sessions)
  BY BalancerAssumption DEF TypeOK
<1>2. Candidates(lane) = At(list, places)
  BY DEF Candidates
<1> HIDE DEF places
<1>3. /\ Candidates(lane) \in Seq(Sessions)
      /\ \A k \in 1 .. Len(Candidates(lane)) : \E i \in places \cap (1 .. Len(list)) : Candidates(lane)[k] = list[i]
      /\ \A i \in places \cap (1 .. Len(list)) : \E k \in 1 .. Len(Candidates(lane)) : Candidates(lane)[k] = list[i]
  <2> HIDE DEF list
  <2>1. /\ At(list, places) \in Seq(Sessions)
        /\ \A k \in 1 .. Len(At(list, places)) : \E i \in places \cap (1 .. Len(list)) : At(list, places)[k] = list[i]
        /\ \A i \in places \cap (1 .. Len(list)) : \E k \in 1 .. Len(At(list, places)) : At(list, places)[k] = list[i]
    BY <1>1, AtHolds
  <2> QED
    BY <1>2, <2>1
<1>4. ASSUME NEW k \in 1 .. Len(Candidates(lane)) PROVE Candidates(lane)[k] \in Members(lane.ns)
  BY <1>3 DEF Members
<1>5. ASSUME Candidates(lane) = <<>>, NEW s \in Members(lane.ns) PROVE ~Matches(s, lane)
  <2>1. PICK i \in 1 .. Len(list) : s = list[i]
    BY DEF Members
  <2>2. 1 .. Len(Candidates(lane)) = {}
    BY <1>5
  <2>3. i \notin places
    BY <1>3, <2>2
  <2> QED
    BY <2>1, <2>3 DEF places
<1> QED
  BY <1>3, <1>4, <1>5

\* remove_session takes nobody else out of the registry, and puts nobody in.
LEMMA UnregisteredHolds ==
    ASSUME TypeOK, NEW s \in Sessions, registry' = Unregistered(s)
    PROVE  /\ registry' \in [Namespaces -> Seq(Sessions)]
           /\ \A ns \in Namespaces : Members(ns)' \subseteq Members(ns)
           /\ \A ns \in Namespaces : \A u \in Members(ns) : u # s => u \in Members(ns)'
<1> DEFINE home == NamespaceOf[s]
           list == registry[home]
           rest == RemoveFirst(list, s)
<1>1. home \in Namespaces
  BY BalancerAssumption
<1>2. registry \in [Namespaces -> Seq(Sessions)] /\ list \in Seq(Sessions)
  BY <1>1 DEF TypeOK
<1>3. registry' = [registry EXCEPT ![home] = rest]
  BY DEF Unregistered
<1>4. /\ rest \in Seq(Sessions)
      /\ \A k \in 1 .. Len(rest) : Contains(list, rest[k])
      /\ \A k \in 1 .. Len(list) : list[k] # s => Contains(rest, list[k])
  BY <1>2, RemoveFirstKeeps
<1>5. registry'[home] = rest /\ \A ns \in Namespaces : ns # home => registry'[ns] = registry[ns]
  <2> HIDE DEF rest, home
  <2> QED
    BY <1>1, <1>2, <1>3
<1> HIDE DEF rest
<1>6. registry' \in [Namespaces -> Seq(Sessions)]
  BY <1>2, <1>3, <1>4
<1>7. ASSUME NEW ns \in Namespaces PROVE Members(ns)' \subseteq Members(ns)
  BY <1>4, <1>5 DEF Members, Contains
<1>8. ASSUME NEW ns \in Namespaces, NEW u \in Members(ns), u # s PROVE u \in Members(ns)'
  <2>1. PICK k \in 1 .. Len(registry[ns]) : u = registry[ns][k]
    BY DEF Members
  <2>2. CASE ns # home
    BY <1>5, <2>1, <2>2 DEF Members
  <2>3. CASE ns = home
    <3>1. k \in 1 .. Len(list) /\ list[k] # s /\ u = list[k]
      BY <1>8, <2>1, <2>3
    <3>2. Contains(rest, u)
      BY <1>4, <3>1
    <3>3. PICK l \in 1 .. Len(rest) : rest[l] = u
      BY <3>2 DEF Contains
    <3>4. registry'[ns] = rest
      BY <1>5, <2>3
    <3> QED
      BY <3>3, <3>4 DEF Members
  <2> QED
    BY <2>2, <2>3
<1> QED
  BY <1>6, <1>7, <1>8

\* A session that is added joins its namespace, and nothing else changes there.
LEMMA AddHolds ==
    ASSUME TypeOK, NEW s \in Sessions, Add(s)
    PROVE  /\ registry' \in [Namespaces -> Seq(Sessions)]
           /\ \A ns \in Namespaces : Members(ns)' = IF ns = NamespaceOf[s] THEN Members(ns) \cup {s} ELSE Members(ns)
<1> DEFINE home == NamespaceOf[s]
           list == registry[home]
           more == Append(list, s)
<1>1. home \in Namespaces
  BY BalancerAssumption
<1>2. registry \in [Namespaces -> Seq(Sessions)] /\ list \in Seq(Sessions)
  BY <1>1 DEF TypeOK
<1>3. registry' = [registry EXCEPT ![home] = more]
  BY DEF Add
<1>4. /\ more \in Seq(Sessions)
      /\ Len(more) = Len(list) + 1 /\ Len(list) \in Nat
      /\ \A k \in 1 .. Len(list) : more[k] = list[k]
      /\ more[Len(list) + 1] = s
  BY <1>2, AppendProperties
<1>5. registry'[home] = more /\ \A ns \in Namespaces : ns # home => registry'[ns] = registry[ns]
  <2> HIDE DEF more, home
  <2> QED
    BY <1>1, <1>2, <1>3
<1> HIDE DEF more
<1>6. registry' \in [Namespaces -> Seq(Sessions)]
  BY <1>2, <1>3, <1>4
<1>7. Members(home)' = Members(home) \cup {s}
  <2>1. Members(home) = {list[i] : i \in 1 .. Len(list)} /\ Members(home)' = {more[i] : i \in 1 .. Len(more)}
    BY <1>5 DEF Members
  <2>2. 1 .. Len(more) = 1 .. Len(list) \cup {Len(list) + 1}
    BY <1>4
  <2> HIDE DEF list
  <2> QED
    BY <1>4, <2>1, <2>2
<1>8. ASSUME NEW ns \in Namespaces, ns # home PROVE Members(ns)' = Members(ns)
  BY <1>5, <1>8 DEF Members
<1> QED
  BY <1>6, <1>7, <1>8

\* A caller that chooses has a list with something in it.
LEMMA ChoosingDraws ==
    ASSUME TypeOK, NEW c \in Callers, Choosing(c)
    PROVE  call[c] \in Draws /\ call[c].lane.ns \in Namespaces /\ Len(call[c].list) \in Nat \ {0}
<1>1. call[c] \in Calls
  BY DEF TypeOK
<1>2. call[c] \in Draws
  BY <1>1 DEF Calls, Draws, Choosing, Idle, Looking
<1>3. call[c].lane \in Lanes /\ call[c].list \in Seq(Sessions) /\ call[c].list # <<>>
  BY <1>2 DEF Draws
<1>4. Len(call[c].list) \in Nat \ {0}
  BY <1>3, EmptySeq
<1> QED
  BY <1>2, <1>3, <1>4, BalancerAssumption

\* One that looks has a lane.
LEMMA LookingHasLane ==
    ASSUME TypeOK, NEW c \in Callers, call[c].step = "looking"
    PROVE  call[c].lane \in Lanes
<1>1. call[c] \in Calls
  BY DEF TypeOK
<1> QED
  BY <1>1 DEF Calls, Draws, Idle, Looking

\* The answer of the strategy is listed, too.
LEMMA AnswerIsListed ==
    ASSUME IInv, NEW c \in Callers, Choosing(c)
    PROVE  Answer(call[c]) \in Sessions /\ Listed(Answer(call[c]), call[c].lane, registry[call[c].lane.ns])
<1> DEFINE k == call[c]
           there == registry[k.lane.ns]
<1>1. k \in Draws /\ k.lane.ns \in Namespaces /\ Len(k.list) \in Nat \ {0}
  BY ChoosingDraws DEF IInv
<1>2. \A i \in 1 .. Len(k.list) : Listed(k.list[i], k.lane, there)
  BY DEF IInv, CandidatesJoined
<1>3. k.list \in Seq(Sessions) /\ there \in Seq(Sessions)
  BY <1>1 DEF Draws, IInv, TypeOK
<1>4. CASE k.index \in 1 .. Len(Shown(k)) /\ k.index <= k.total
  <2>1. Answer(k) = Shown(k)[k.index]
    BY <1>4 DEF Answer
  <2>2. CASE Filtered(k.lane)
    <3>1. Answer(k) = k.list[k.index] /\ k.index \in 1 .. Len(k.list)
      BY <1>4, <2>1, <2>2 DEF Shown
    <3> HIDE DEF k, there
    <3> QED
      BY <1>2, <1>3, <3>1 DEF k, there
  <2>3. CASE ~Filtered(k.lane)
    <3>1. Answer(k) = there[k.index] /\ k.index \in 1 .. Len(there)
      BY <1>4, <2>1, <2>3 DEF Shown
    <3>2. Answer(k) \in Members(k.lane.ns) /\ Contains(there, Answer(k))
      BY <3>1 DEF Members, Contains
    <3>3. Answer(k) \in joined /\ NamespaceOf[Answer(k)] = k.lane.ns
      BY <1>1, <3>2 DEF IInv, MembersJoined
    <3>4. joined \subseteq Sessions
      BY DEF IInv, TypeOK
    <3> QED
      BY <3>2, <3>3, <3>4 DEF Listed
  <2> QED
    BY <2>2, <2>3
<1>5. CASE ~(k.index \in 1 .. Len(Shown(k)) /\ k.index <= k.total)
  <2>1. Answer(k) = k.list[1] /\ 1 \in 1 .. Len(k.list)
    BY <1>1, <1>5 DEF Answer
  <2> HIDE DEF k, there
  <2> QED
    BY <1>2, <1>3, <2>1 DEF k, there
<1> QED
  BY <1>4, <1>5

\* A choice that goes on keeps its candidates, while the registry stays as it is
\* under one that relies on it.
LEMMA ChoicesKeep ==
    ASSUME IInv, cacher' = cacher, joined \subseteq joined',
           \A c \in Callers : Choosing(c)' =>
               Choosing(c) /\ call'[c].list = call[c].list /\ call'[c].lane = call[c].lane,
           cacher = "memory" => registry' = registry \/ \A c \in Callers : ~Choosing(c)'
    PROVE  CandidatesJoined'
<1> SUFFICES ASSUME NEW c \in Callers, Choosing(c)', NEW i \in 1 .. Len(call'[c].list)
             PROVE  LET s == call'[c].list[i]
                    IN  /\ s \in joined' /\ NamespaceOf[s] = call'[c].lane.ns
                        /\ cacher = "memory" => Contains(registry'[call'[c].lane.ns], s)
  BY DEF CandidatesJoined, Listed
<1>1. Choosing(c) /\ call'[c].list = call[c].list /\ call'[c].lane = call[c].lane
  OBVIOUS
<1>2. Listed(call[c].list[i], call[c].lane, registry[call[c].lane.ns])
  BY <1>1 DEF IInv, CandidatesJoined
<1> QED
  BY <1>1, <1>2 DEF Listed

\* Behind a cacher that does not suspend, who does not hold the event loop does
\* not choose.
LEMMA FreeChooseNot ==
    ASSUME cacher = "memory", NEW c \in Callers, ~Holds(c)
    PROVE  ~Choosing(c)
BY DEF Holds, Choosing, Idle

\* A session is added.
LEMMA AddKeeps == ASSUME IInv, NEW s \in Sessions, Add(s) PROVE IInv'
<1>1. /\ registry' \in [Namespaces -> Seq(Sessions)]
      /\ \A ns \in Namespaces : Members(ns)' = IF ns = NamespaceOf[s] THEN Members(ns) \cup {s} ELSE Members(ns)
  BY AddHolds DEF IInv
<1>2. joined' = joined \cup {s} /\ UNCHANGED <<live, cacher, counter, call, last>> /\ Free(Callers)
  BY DEF Add
<1>3. TypeOK'
  BY <1>1, <1>2 DEF IInv, TypeOK
<1>4. MembersJoined'
  BY <1>1, <1>2 DEF IInv, MembersJoined
<1>5. LiveAreMembers'
  <2> SUFFICES ASSUME NEW u \in joined' \cap live' PROVE u \in Members(NamespaceOf[u])'
    BY DEF LiveAreMembers
  <2>1. NamespaceOf[u] \in Namespaces
    BY <1>3, BalancerAssumption DEF TypeOK
  <2> QED
    BY <1>1, <1>2, <2>1 DEF IInv, LiveAreMembers
<1>6. CandidatesJoined'
  <2>1. cacher = "memory" => \A c \in Callers : ~Choosing(c)'
    BY <1>2, FreeChooseNot DEF Free, Choosing
  <2> QED
    BY <1>2, <2>1, ChoicesKeep DEF Choosing
<1> QED
  BY <1>3, <1>4, <1>5, <1>6 DEF IInv

\* What leaves the registry is dead.
LEMMA LeaveKeepsMembers ==
    ASSUME IInv, NEW s \in Sessions, registry' = Unregistered(s), s \notin live', live' \subseteq live, joined' = joined
    PROVE  /\ registry' \in [Namespaces -> Seq(Sessions)]
           /\ MembersJoined' /\ LiveAreMembers'
<1>1. /\ registry' \in [Namespaces -> Seq(Sessions)]
      /\ \A ns \in Namespaces : Members(ns)' \subseteq Members(ns)
      /\ \A ns \in Namespaces : \A u \in Members(ns) : u # s => u \in Members(ns)'
  BY UnregisteredHolds DEF IInv
<1>2. MembersJoined'
  BY <1>1 DEF IInv, MembersJoined
<1>3. LiveAreMembers'
  <2> SUFFICES ASSUME NEW u \in joined' \cap live' PROVE u \in Members(NamespaceOf[u])'
    BY DEF LiveAreMembers
  <2>1. NamespaceOf[u] \in Namespaces /\ u # s
    BY BalancerAssumption DEF IInv, TypeOK
  <2> QED
    BY <1>1, <2>1 DEF IInv, LiveAreMembers
<1> QED
  BY <1>1, <1>2, <1>3

\* A session dies.
LEMMA DieKeeps == ASSUME IInv, NEW s \in Sessions, Die(s) PROVE IInv'
<1>1. /\ registry' = Unregistered(s) /\ live' = live \ {s} /\ UNCHANGED <<joined, cacher, counter, call, last>>
      /\ Free(Callers)
  BY DEF Die
<1>2. registry' \in [Namespaces -> Seq(Sessions)] /\ MembersJoined' /\ LiveAreMembers'
  BY <1>1, LeaveKeepsMembers
<1>3. TypeOK'
  BY <1>1, <1>2 DEF IInv, TypeOK
<1>4. CandidatesJoined'
  <2>1. cacher = "memory" => \A c \in Callers : ~Choosing(c)'
    BY <1>1, FreeChooseNot DEF Free, Choosing
  <2> QED
    BY <1>1, <2>1, ChoicesKeep DEF Choosing
<1> QED
  BY <1>2, <1>3, <1>4 DEF IInv

\* A caller goes on without the registry: what it chooses from, if anything, is
\* what it had.
LEMMA CallerKeeps ==
    ASSUME IInv, NEW c \in Callers, NEW k \in Calls, call' = [call EXCEPT ![c] = k],
           UNCHANGED <<registry, live, joined, cacher>>,
           counter' \in 0 .. Wrap - 1,
           last' \in [lane : Lanes \cup {NoLane}, pick : Sessions \cup Failures \cup {Nobody}],
           k.step \in {"asking", "answered"} =>
               \/ Choosing(c) /\ k.list = call[c].list /\ k.lane = call[c].lane
               \/ \A i \in 1 .. Len(k.list) : k.list[i] \in Members(k.lane.ns) /\ k.lane.ns \in Namespaces
    PROVE  IInv'
<1>1. TypeOK'
  BY DEF IInv, TypeOK
<1>2. MembersJoined' /\ LiveAreMembers'
  BY DEF IInv, MembersJoined, LiveAreMembers, Members
<1>3. CandidatesJoined'
  <2> SUFFICES ASSUME NEW d \in Callers, Choosing(d)', NEW i \in 1 .. Len(call'[d].list)
               PROVE  Listed(call'[d].list[i], call'[d].lane, registry[call'[d].lane.ns])
    BY DEF CandidatesJoined, Listed
  <2>1. CASE d # c
    <3>1. call'[d] = call[d]
      BY <2>1 DEF IInv, TypeOK
    <3> QED
      BY <3>1 DEF IInv, CandidatesJoined, Choosing
  <2>2. CASE d = c
    <3>1. call'[d] = k
      BY <2>2 DEF IInv, TypeOK
    <3>2. k.step \in {"asking", "answered"}
      BY <3>1 DEF Choosing
    <3>3. CASE Choosing(c) /\ k.list = call[c].list /\ k.lane = call[c].lane
      BY <2>2, <3>1, <3>3 DEF IInv, CandidatesJoined
    <3>4. CASE \A j \in 1 .. Len(k.list) : k.list[j] \in Members(k.lane.ns) /\ k.lane.ns \in Namespaces
      <4>1. k.list[i] \in Members(k.lane.ns) /\ k.lane.ns \in Namespaces
        BY <3>1, <3>4
      <4>2. k.list[i] \in joined /\ NamespaceOf[k.list[i]] = k.lane.ns
        BY <4>1 DEF IInv, MembersJoined
      <4>3. Contains(registry[k.lane.ns], k.list[i])
        BY <4>1 DEF Members, Contains
      <4> QED
        BY <3>1, <4>2, <4>3 DEF Listed
    <3> QED
      BY <3>2, <3>3, <3>4
  <2> QED
    BY <2>1, <2>2
<1> QED
  BY <1>1, <1>2, <1>3 DEF IInv

\* The strategy is asked with candidates that are registered, at least one.
LEMMA AskKeeps == ASSUME IInv, NEW c \in Callers, Ask(c) PROVE IInv'
<1> DEFINE lane == call[c].lane
           list == Candidates(lane)
           kept == Kept(lane, list)
           k == Waiting("asking", lane, kept, Len(list), 0)
<1>1. lane \in Lanes
  BY LookingHasLane DEF IInv, Ask
<1>2. list \in Seq(Sessions) /\ list # <<>> /\ \A i \in 1 .. Len(list) : list[i] \in Members(lane.ns)
  BY <1>1, CandidatesHold DEF IInv, Ask, Wanting
<1>3. Len(list) \in Nat \ {0}
  <2> HIDE DEF list
  <2> QED
    BY <1>2, EmptySeq
<1>4. kept \in Seq(Sessions) \ {<<>>} /\ \A i \in 1 .. Len(kept) : kept[i] \in Members(lane.ns)
  <2> HIDE DEF list, lane
  <2>1. CASE Filtered(lane)
    BY <1>2, <2>1 DEF Kept
  <2>2. CASE ~Filtered(lane)
    <3>1. kept = <<list[1]>> /\ list[1] \in Sessions
      BY <1>2, <1>3, <2>2 DEF Kept
    <3>2. Len(kept) = 1 /\ kept[1] = list[1] /\ 1 \in 1 .. Len(list)
      BY <1>3, <3>1
    <3> QED
      BY <1>2, <3>1, <3>2
  <2> QED
    BY <2>1, <2>2
<1> HIDE DEF list, kept
<1>5. k \in Calls
  BY <1>1, <1>3, <1>4 DEF Calls, Waiting
<1>6. call' = [call EXCEPT ![c] = k] /\ UNCHANGED <<registry, live, joined, cacher, counter, last>>
  BY DEF Ask, list, kept
<1>7. k.list = kept /\ k.lane = lane
  BY DEF Waiting
<1>8. lane.ns \in Namespaces
  BY <1>1, BalancerAssumption
<1> HIDE DEF k, lane
<1> QED
  BY <1>4, <1>5, <1>6, <1>7, <1>8, CallerKeeps DEF IInv, TypeOK

\* An answer comes, or none.
LEMMA AnsweredKeeps ==
    ASSUME IInv, NEW c \in Callers, call[c].step = "asking", NEW index \in Nat,
           call' = [call EXCEPT ![c] = Waiting("answered", @.lane, @.list, @.total, index)],
           UNCHANGED <<registry, live, joined, cacher, last>>, counter' \in 0 .. Wrap - 1
    PROVE  IInv'
<1> DEFINE k == Waiting("answered", call[c].lane, call[c].list, call[c].total, index)
<1>1. Choosing(c) /\ call[c] \in Draws
  BY ChoosingDraws DEF IInv, Choosing
<1>2. k \in Calls /\ k.list = call[c].list /\ k.lane = call[c].lane
  BY <1>1 DEF Calls, Draws, Waiting
<1>3. call' = [call EXCEPT ![c] = k]
  OBVIOUS
<1> HIDE DEF k
<1> QED
  BY <1>1, <1>2, <1>3, CallerKeeps DEF IInv, TypeOK

\* The counter stays below Wrap, and the index is a number.
LEMMA IncrementKeeps == ASSUME IInv, NEW c \in Callers, Increment(c) PROVE IInv'
<1>1. Choosing(c) /\ call[c] \in Draws
  BY ChoosingDraws DEF IInv, Choosing, Increment
<1>2. counter \in Nat /\ Wrap \in Nat \ {0} /\ call[c].total \in Nat \ {0}
  BY <1>1, BalancerAssumption DEF IInv, TypeOK, Draws
<1>3. NextIndex(call[c].total) \in Nat
  BY <1>2 DEF NextIndex
<1>4. (counter + 1) % Wrap \in 0 .. Wrap - 1
  BY <1>2
<1> QED
  BY <1>3, <1>4, AnsweredKeeps DEF Increment

\* A cacher that raises leaves an index the strategy will not use.
LEMMA CacherRaisesKeeps == ASSUME IInv, NEW c \in Callers, CacherRaises(c) PROVE IInv'
<1>1. Choosing(c) /\ call[c] \in Draws
  BY ChoosingDraws DEF IInv, Choosing, CacherRaises
<1>2. call[c].total + 1 \in Nat
  BY <1>1 DEF Draws
<1>3. counter' \in 0 .. Wrap - 1
  BY DEF IInv, TypeOK, CacherRaises
<1> QED
  BY <1>2, <1>3, AnsweredKeeps DEF CacherRaises

\* A choice that ends.
LEMMA ConcludeKeeps ==
    ASSUME IInv, NEW c \in Callers, NEW pick \in Sessions \cup Failures \cup {Nobody},
           Conclude(c, pick), call[c].lane \in Lanes, UNCHANGED <<registry, live, joined, cacher, counter>>
    PROVE  IInv'
<1>1. Idle \in Calls /\ Idle.step \notin {"asking", "answered"}
  BY DEF Calls, Idle
<1> QED
  BY <1>1, CallerKeeps DEF Conclude, IInv, TypeOK

\* The answer is taken, or the dead session dropped and the call started over.
LEMMA TakeKeeps == ASSUME IInv, NEW c \in Callers, Take(c) PROVE IInv'
<1> DEFINE s == Answer(call[c])
<1>1. Choosing(c) /\ call[c] \in Draws
  BY ChoosingDraws DEF IInv, Choosing, Take
<1>2. s \in Sessions
  BY <1>1, AnswerIsListed
<1>3. call[c].lane \in Lanes
  BY <1>1 DEF Draws
<1> HIDE DEF s
<1>4. UNCHANGED <<live, joined, cacher, counter>> /\ Free(Callers \ {c})
  BY DEF Take
<1>5. CASE Conclude(c, s) /\ UNCHANGED registry
  BY <1>2, <1>3, <1>4, <1>5, ConcludeKeeps
<1>6. CASE Conclude(c, "not registered") /\ UNCHANGED registry
  BY <1>3, <1>4, <1>6, ConcludeKeeps DEF Failures
<1>7. CASE ~Usable(s) /\ Rerotate(s) /\ call' = [call EXCEPT ![c] = Again(@)] /\ UNCHANGED last
  <2>1. registry' \in [Namespaces -> Seq(Sessions)] /\ MembersJoined' /\ LiveAreMembers'
    BY <1>2, <1>4, <1>7, LeaveKeepsMembers DEF Rerotate, Usable
  <2>2. call' = [call EXCEPT ![c] = Looking(call[c].lane)] /\ Looking(call[c].lane) \in Calls
    BY <1>3, <1>7 DEF Again, Calls
  <2>3. TypeOK'
    BY <1>4, <1>7, <2>1, <2>2 DEF IInv, TypeOK
  <2>4. call'[c].step = "looking" /\ \A d \in Callers : d # c => call'[d] = call[d]
    BY <2>2 DEF IInv, TypeOK, Looking
  <2>5. cacher = "memory" => \A d \in Callers : ~Choosing(d)'
    BY <1>4, <2>4, FreeChooseNot DEF Free, Choosing
  <2>6. CandidatesJoined'
    BY <1>4, <2>4, <2>5, ChoicesKeep DEF Choosing
  <2> QED
    BY <2>1, <2>3, <2>6 DEF IInv
<1> QED
  BY <1>5, <1>6, <1>7 DEF Take, s

\* Every step keeps the invariant.
LEMMA NextIInv == ASSUME IInv, [Next]_vars PROVE IInv'
<1>1. ASSUME NEW s \in Sessions, Add(s) \/ Die(s) PROVE IInv'
  BY <1>1, AddKeeps, DieKeeps
<1>2. ASSUME NEW c \in Callers, NEW lane \in Lanes, Begin(c, lane) PROVE IInv'
  <2>1. Looking(lane) \in Calls /\ Looking(lane).step = "looking"
    BY DEF Calls, Looking
  <2> QED
    BY <1>2, <2>1, CallerKeeps DEF Begin, IInv, TypeOK
<1>3. ASSUME NEW c \in Callers, NEW lane \in Lanes, NEW s \in Sessions, TakeNamed(c, lane, s) PROVE IInv'
  <2>1. call' = [call EXCEPT ![c] = Idle] /\ Idle \in Calls /\ Idle.step \notin {"asking", "answered"}
    BY <1>3 DEF TakeNamed, Calls, Idle, IInv, TypeOK
  <2>2. last' \in [lane : Lanes \cup {NoLane}, pick : Sessions \cup Failures \cup {Nobody}]
    BY <1>3 DEF TakeNamed, Failures
  <2>3. UNCHANGED <<registry, live, joined, cacher, counter>>
    BY <1>3 DEF TakeNamed
  <2> QED
    BY <2>1, <2>2, <2>3, CallerKeeps DEF IInv, TypeOK
<1>4. ASSUME NEW c \in Callers, Fail(c) PROVE IInv'
  <2>1. call[c].lane \in Lanes
    BY <1>4, LookingHasLane DEF IInv, Fail
  <2> QED
    BY <1>4, <2>1, ConcludeKeeps DEF Fail, Failures
<1>5. ASSUME NEW c \in Callers, Ask(c) \/ Increment(c) \/ CacherRaises(c) \/ Take(c) PROVE IInv'
  BY <1>5, AskKeeps, IncrementKeeps, CacherRaisesKeeps, TakeKeeps
<1>6. CASE UNCHANGED vars
  BY <1>6 DEF vars, IInv, TypeOK, MembersJoined, LiveAreMembers, CandidatesJoined, Listed, Members, Choosing
<1> QED
  BY <1>1, <1>2, <1>3, <1>4, <1>5, <1>6 DEF Next

\* The invariant of the registry holds in every reachable state.
THEOREM Invariance == Spec => []IInv
<1>1. Init => IInv
  BY InitIInv
<1>2. IInv /\ [Next]_vars => IInv'
  BY NextIInv
<1> QED
  BY <1>1, <1>2, PTL DEF Spec

\* The registry, the counter and the choices keep their types, for any sessions,
\* callers and lanes, whichever cacher there is.
THEOREM TypeCorrect == Spec => []TypeOK
<1>1. IInv => TypeOK
  BY DEF IInv
<1> QED
  BY <1>1, Invariance, PTL

\* What a step chooses can be written to and is registered.
LEMMA ChoiceIsUsable ==
    ASSUME IInv, [Next]_vars, last'.pick # last.pick, last'.pick \in Sessions
    PROVE  last'.pick \in live /\ last'.pick \in Members(NamespaceOf[last'.pick])
<1>0. "no candidate" \notin Sessions /\ "not registered" \notin Sessions
  BY BalancerAssumption DEF Failures
<1>1. ASSUME NEW c \in Callers, Take(c) PROVE last'.pick \in live /\ last'.pick \in Members(NamespaceOf[last'.pick])
  <2> DEFINE s == Answer(call[c])
  <2>1. Choosing(c)
    BY <1>1 DEF Choosing, Take
  <2>2. s \in Sessions /\ Listed(s, call[c].lane, registry[call[c].lane.ns])
    BY <2>1, AnswerIsListed
  <2> HIDE DEF s
  <2>3. Conclude(c, s) /\ Usable(s)
    <3>1. CASE Conclude(c, "not registered")
      BY <1>0, <3>1 DEF Conclude
    <3>2. CASE UNCHANGED last
      BY <3>2
    <3> QED
      BY <1>1, <3>1, <3>2 DEF Take, s
  <2>4. last'.pick = s /\ s \in live /\ s \in joined
    BY <2>2, <2>3 DEF Conclude, Usable, Listed
  <2> QED
    BY <2>4 DEF IInv, LiveAreMembers
<1>2. ASSUME NEW c \in Callers, NEW lane \in Lanes, NEW s \in Sessions, TakeNamed(c, lane, s)
      PROVE  last'.pick \in live /\ last'.pick \in Members(NamespaceOf[last'.pick])
  <2>1. last'.pick = s /\ Named(lane.ns, s)
    BY <1>0, <1>2 DEF TakeNamed
  <2>2. lane.ns \in Namespaces
    BY BalancerAssumption
  <2> QED
    BY <2>1, <2>2 DEF Named, IInv, MembersJoined
<1>3. ASSUME NEW c \in Callers, Fail(c) PROVE FALSE
  BY <1>0, <1>3 DEF Fail, Conclude
<1>4. CASE UNCHANGED last
  BY <1>4
<1> QED
  BY <1>1, <1>2, <1>3, <1>4 DEF Next, Add, Die, Begin, Ask, Increment, CacherRaises, vars

\* Whatever a call chooses is alive and registered at that moment, however old the
\* list it was drawn from and whoever came and went meanwhile.
THEOREM ChoicesAreUsable == Spec => ChosenIsUsable
<1>1. IInv /\ [Next]_vars =>
        [(last'.pick # last.pick /\ last'.pick \in Sessions) =>
           last'.pick \in live /\ last'.pick \in Members(NamespaceOf[last'.pick])]_vars
  BY ChoiceIsUsable
<1> QED
  BY <1>1, Invariance, PTL DEF Spec, ChosenIsUsable

\* A call that fails has found nobody, or was not the first to drop a dead session.
LEMMA FailureIsWant ==
    ASSUME IInv, [Next]_vars, NEW c \in Callers, call[c] # Idle, call'[c] = Idle, last'.pick \in Failures
    PROVE  \/ /\ last'.pick = "no candidate"
              /\ \A s \in Members(call[c].lane.ns) : Matches(s, call[c].lane) => s \notin live
           \/ last'.pick = "not registered" /\ cacher = "remote"
<1>0. call \in [Callers -> Calls]
  BY DEF IInv, TypeOK
<1>1. \A d \in Callers : Choosing(d)' => call'[d] # Idle
  BY DEF Choosing, Idle
<1>2. ASSUME NEW d \in Callers, Fail(d)
      PROVE  last'.pick = "no candidate" /\ \A s \in Members(call[c].lane.ns) : ~Matches(s, call[c].lane)
  <2>1. c = d
    BY <1>0, <1>2 DEF Fail, Conclude
  <2>2. call[c].lane \in Lanes
    BY <1>2, <2>1, LookingHasLane DEF IInv, Fail
  <2> QED
    BY <1>2, <2>1, <2>2, CandidatesHold DEF Fail, Conclude, Wanting, IInv
<1>3. ASSUME NEW d \in Callers, Take(d)
      PROVE  last'.pick = "not registered" /\ cacher = "remote"
  <2> DEFINE s == Answer(call[d])
  <2>1. c = d
    <3>1. \E k : call' = [call EXCEPT ![d] = k]
      BY <1>3 DEF Take, Conclude
    <3> QED
      BY <1>0, <3>1
  <2>2. Choosing(d)
    BY <1>3 DEF Choosing, Take
  <2>3. s \in Sessions /\ Listed(s, call[d].lane, registry[call[d].lane.ns])
    BY <2>2, AnswerIsListed
  <2>4. Looking(call[d].lane) # Idle
    BY DEF Looking, Idle
  <2>5. s \notin Failures
    BY <2>3, BalancerAssumption
  <2> HIDE DEF s
  <2>6. s \notin Members(NamespaceOf[s]) /\ Conclude(d, "not registered")
    <3>1. ~Conclude(d, s)
      BY <2>5 DEF Conclude
    <3>2. call' # [call EXCEPT ![d] = Again(@)]
      BY <1>0, <2>1, <2>4 DEF Again
    <3> QED
      BY <1>3, <3>1, <3>2 DEF Take, s
  <2>7. cacher # "memory"
    BY <2>3, <2>6 DEF Listed, Contains, Members
  <2> QED
    BY <2>6, <2>7 DEF Conclude, IInv, TypeOK
<1>4. ASSUME NEW d \in Callers, Ask(d) \/ Increment(d) \/ CacherRaises(d) PROVE FALSE
  <2>1. c = d
    BY <1>0, <1>4 DEF Ask, Increment, CacherRaises
  <2>2. call'[d].step \in {"asking", "answered"}
    BY <1>0, <1>4 DEF Ask, Increment, CacherRaises, Waiting
  <2> QED
    BY <1>1, <2>1, <2>2 DEF Choosing
<1>5. ASSUME NEW d \in Callers, NEW lane \in Lanes, Begin(d, lane) PROVE FALSE
  <2>1. c = d
    BY <1>0, <1>5 DEF Begin
  <2> QED
    BY <1>5, <2>1 DEF Begin
<1>6. CASE UNCHANGED call
  BY <1>6
<1> QED
  BY <1>2, <1>3, <1>4, <1>5, <1>6 DEF Next, Add, Die, TakeNamed, vars

\* No live session is overlooked: a call fails for want of candidates only if there
\* is none, and otherwise only behind a cacher that suspends.
THEOREM FailuresAreForWant == Spec => FailsOnlyForWant
<1>1. IInv /\ [Next]_vars =>
        [\A c \in Callers :
           (call[c] # Idle /\ call'[c] = Idle /\ last'.pick \in Failures) =>
               \/ /\ last'.pick = "no candidate"
                  /\ \A s \in Members(call[c].lane.ns) : Matches(s, call[c].lane) => s \notin live
               \/ last'.pick = "not registered" /\ cacher = "remote"]_vars
  BY FailureIsWant
<1> QED
  BY <1>1, Invariance, PTL DEF Spec, FailsOnlyForWant

-----------------------------------------------------------------------------
(* Lists that are read late.                                                 *)

\* A sequence of something.
IsList(s) == \E S : s \in Seq(S)

\* What At takes from a list is a list.
LEMMA PlacesAreAList ==
    ASSUME NEW s, IsList(s), NEW places \in SUBSET (1 .. Len(s))
    PROVE  IsList(At(s, places))
<1>1. PICK S : s \in Seq(S)
  BY DEF IsList
<1>2. At(s, places) \in Seq(S)
  BY <1>1, AtHolds
<1> QED
  BY <1>2 DEF IsList

\* A function of the places 1 .. n is a list of that length.
LEMMA FunctionIsAList ==
    ASSUME NEW n \in Nat, NEW f, f = [k \in 1 .. n |-> f[k]]
    PROVE  IsList(f) /\ Len(f) = n
<1> DEFINE S == {f[k] : k \in 1 .. n}
<1>1. f \in Seq(S) /\ Len(f) = n
  OBVIOUS
<1> HIDE DEF S
<1> QED
  BY <1>1 DEF IsList

\* Every query gives a list.
LEMMA ResultIsAList ==
    ASSUME NEW s, IsList(s), NEW query \in LazyQueries \cup EagerQueries
    PROVE  IsList(Result(query, s))
<1>1. PICK S : s \in Seq(S)
  BY DEF IsList
<1>2. Len(s) \in Nat /\ 2 * Len(s) \in Nat
  BY <1>1
<1>3. IsList(Where(s)) /\ IsList(Distinct(s)) /\ IsList(Group(s))
  <2>1. IsList(Where(s))
    BY PlacesAreAList DEF Where
  <2>2. IsList(Distinct(s))
    BY PlacesAreAList DEF Distinct
  <2>3. IsList(Group(s))
    BY PlacesAreAList DEF Group
  <2> QED
    BY <2>1, <2>2, <2>3
<1>4. IsList(Select(s)) /\ IsList(SelectMany(s)) /\ IsList(OrderBy(s))
  <2>1. Select(s) = [k \in 1 .. Len(s) |-> Select(s)[k]]
    BY DEF Select
  <2>2. SelectMany(s) = [k \in 1 .. 2 * Len(s) |-> SelectMany(s)[k]]
    BY DEF SelectMany
  <2>3. OrderBy(s) = [k \in 1 .. Len(s) |-> OrderBy(s)[k]]
    <3> DEFINE Upto(x) == Cardinality({j \in 1 .. Len(s) : s[j] <= x})
               Item(k) == CHOOSE x \in Range(s) : Upto(x) >= k /\ \A y \in Range(s) : Upto(y) >= k => x <= y
    <3>1. OrderBy(s) = [k \in 1 .. Len(s) |-> Item(k)]
      BY Zenon DEF OrderBy
    <3> HIDE DEF Item
    <3> QED
      BY <3>1
  <2>4. IsList(Select(s))
    BY <1>2, <2>1, FunctionIsAList
  <2>5. IsList(SelectMany(s))
    BY <1>2, <2>2, FunctionIsAList
  <2>6. IsList(OrderBy(s))
    BY <1>2, <2>3, FunctionIsAList
  <2> QED
    BY <2>4, <2>5, <2>6
<1>5. IsList(Slice(s))
  <2>1. Slice(s) \in Seq(S)
    BY <1>1 DEF Slice
  <2> QED
    BY <2>1 DEF IsList
<1> QED
  BY <1>3, <1>4, <1>5 DEF Result, LazyQueries, EagerQueries

\* So does every mutator.
LEMMA MutatedIsAList ==
    ASSUME NEW s, IsList(s), NEW how \in Mutators
    PROVE  IsList(Mutated(how, s))
<1>1. PICK S : s \in Seq(S)
  BY DEF IsList
<1>2. CASE how \in {"append"} \X Items
  <2>1. how[1] = "append" /\ Mutated(how, s) = Append(s, how[2])
    BY <1>2 DEF Mutated
  <2>2. s \in Seq(S \cup {how[2]})
    BY <1>1
  <2>3. Append(s, how[2]) \in Seq(S \cup {how[2]})
    BY <2>2
  <2> QED
    BY <2>1, <2>3 DEF IsList
<1>3. CASE how = <<"pop">>
  <2>1. Mutated(how, s) = SubSeq(s, 1, Len(s) - 1)
    BY <1>3 DEF Mutated
  <2>2. SubSeq(s, 1, Len(s) - 1) \in Seq(S)
    BY <1>1
  <2> QED
    BY <2>1, <2>2 DEF IsList
<1>4. CASE how = <<"reverse">>
  <2>1. Mutated(how, s) = Reverse(s)
    BY <1>4 DEF Mutated
  <2>2. Reverse(s) = [k \in 1 .. Len(s) |-> Reverse(s)[k]]
    BY DEF Reverse
  <2>3. Len(s) \in Nat
    BY <1>1
  <2>4. IsList(Reverse(s))
    BY <2>2, <2>3, FunctionIsAList
  <2> QED
    BY <2>1, <2>4
<1> QED
  BY <1>2, <1>3, <1>4 DEF Mutators

\* A list of its own that is empty adds nothing.
LEMMA NothingBefore ==
    ASSUME NEW s, IsList(s)
    PROVE  <<>> \o s = s
  BY DEF IsList

\* The invariant, of lists L that should hold E and are known to differ in P: a list
\* that is still to be read has nothing of its own, and reads one that has been read.
ContentIn(L, k) ==
    IF L[k].source # Nothing THEN L[k].items \o Result(L[k].source.query, L[L[k].source.of].items)
    ELSE L[k].items

ReadsFrom(L, P, k, of) ==
    /\ L[k].items = <<>>
    /\ L[k].source.query \in LazyQueries
    /\ of \in 1 .. Len(L)
    /\ L[of].source = Nothing
    /\ of \in P => k \in P

Tracked(L, E, P) ==
    /\ IsList(L) /\ IsList(E) /\ Len(E) = Len(L)
    /\ \A k \in 1 .. Len(L) :
         /\ IsList(L[k].items)
         /\ L[k].source # Nothing => ReadsFrom(L, P, k, L[k].source.of)
         /\ k \notin P => ContentIn(L, k) = E[k]

LazyInv == Tracked(lists, eager, parted)

\* What a list holds once its query has been run is a list.
LEMMA ContentIsAList ==
    ASSUME NEW L, NEW E, NEW P, Tracked(L, E, P), NEW k \in 1 .. Len(L)
    PROVE  IsList(ContentIn(L, k))
<1>1. CASE L[k].source = Nothing
  BY <1>1 DEF Tracked, ContentIn
<1>2. CASE L[k].source # Nothing
  <2> DEFINE of == L[k].source.of
             r == Result(L[k].source.query, L[of].items)
  <2>1. ReadsFrom(L, P, k, of)
    BY <1>2 DEF Tracked
  <2>2. IsList(L[of].items) /\ L[k].source.query \in LazyQueries /\ L[k].items = <<>>
    BY <2>1 DEF Tracked, ReadsFrom
  <2>3. IsList(r)
    BY <2>2, ResultIsAList
  <2>4. ContentIn(L, k) = L[k].items \o r
    BY <1>2 DEF ContentIn
  <2> HIDE DEF r, of
  <2> QED
    BY <2>2, <2>3, <2>4, NothingBefore
<1> QED
  BY <1>1, <1>2

\* A list as it is after a use of the one at k.
Used(L, k) == [L EXCEPT ![k] = [items |-> ContentIn(L, k), source |-> Nothing]]

\* A use changes nothing of what any list holds.
LEMMA UseKeeps ==
    ASSUME NEW L, NEW E, NEW P, Tracked(L, E, P), NEW k \in 1 .. Len(L)
    PROVE  /\ Tracked(Used(L, k), E, P) /\ Len(Used(L, k)) = Len(L)
           /\ Used(L, k)[k] = [items |-> ContentIn(L, k), source |-> Nothing]
           /\ \A l \in 1 .. Len(L) \ {k} : Used(L, k)[l] = L[l]
<1> DEFINE M == Used(L, k)
           x == [items |-> ContentIn(L, k), source |-> Nothing]
<1>1. PICK S : L \in Seq(S)
  BY DEF Tracked, IsList
<1>2. /\ M \in Seq(S \cup {x}) /\ Len(M) = Len(L)
      /\ M[k] = x
      /\ \A l \in 1 .. Len(L) \ {k} : M[l] = L[l]
  <2> HIDE DEF x
  <2>1. M = [L EXCEPT ![k] = x]
    BY DEF Used, x
  <2> HIDE DEF M
  <2>2. L \in Seq(S \cup {x})
    BY <1>1
  <2> QED
    BY <2>1, <2>2
<1>3. M[k].items = ContentIn(L, k) /\ M[k].source = Nothing
  BY <1>2
<1> HIDE DEF M, x
<1>4. IsList(M)
  BY <1>2 DEF IsList
<1>5. ASSUME NEW l \in 1 .. Len(L)
      PROVE  /\ IsList(M[l].items)
             /\ M[l].source # Nothing => ReadsFrom(M, P, l, M[l].source.of)
             /\ ContentIn(M, l) = ContentIn(L, l)
  <2>1. CASE l = k
    BY <1>3, <2>1, ContentIsAList DEF ContentIn
  <2>2. CASE l # k
    <3>1. M[l] = L[l] /\ IsList(M[l].items)
      BY <1>2, <2>2 DEF Tracked
    <3>2. CASE L[l].source = Nothing
      BY <3>1, <3>2 DEF ContentIn
    <3>3. CASE L[l].source # Nothing
      <4> DEFINE of == L[l].source.of
      <4>1. ReadsFrom(L, P, l, of)
        BY <3>3 DEF Tracked
      <4>2. M[of].source = Nothing /\ M[of].items = L[of].items
        BY <1>2, <1>3, <4>1 DEF ReadsFrom, ContentIn
      <4>3. ReadsFrom(M, P, l, of)
        BY <1>2, <3>1, <4>1, <4>2 DEF ReadsFrom
      <4>4. ContentIn(M, l) = ContentIn(L, l)
        BY <3>1, <4>2 DEF ContentIn
      <4> QED
        BY <3>1, <4>3, <4>4
    <3> QED
      BY <3>2, <3>3
  <2> QED
    BY <2>1, <2>2
<1>6. Tracked(M, E, P)
  BY <1>2, <1>4, <1>5 DEF Tracked
<1> QED
  BY <1>2, <1>6 DEF M, x

\* A new list x that should hold `meant`.
LEMMA AdditionKeeps ==
    ASSUME NEW L, NEW E, NEW P, Tracked(L, E, P), NEW x, NEW meant, NEW Q,
           Q = P \/ Q = P \cup {Len(L) + 1},
           IsList(x.items),
           x.source # Nothing =>
               /\ x.items = <<>> /\ x.source.query \in LazyQueries
               /\ x.source.of \in 1 .. Len(L) /\ L[x.source.of].source = Nothing
               /\ x.source.of \in P => Len(L) + 1 \in Q,
           Len(L) + 1 \notin Q =>
               meant = IF x.source # Nothing THEN x.items \o Result(x.source.query, L[x.source.of].items)
                       ELSE x.items
    PROVE  Tracked(Append(L, x), Append(E, meant), Q)
<1> DEFINE M == Append(L, x)
           F == Append(E, meant)
           n == Len(L)
<1>1. PICK S : L \in Seq(S)
  BY DEF Tracked, IsList
<1>2. PICK T : E \in Seq(T)
  BY DEF Tracked, IsList
<1>3. n \in Nat /\ Len(E) = n
  BY <1>1 DEF Tracked
<1>4. /\ M \in Seq(S \cup {x}) /\ Len(M) = n + 1
      /\ M[n + 1] = x /\ \A l \in 1 .. n : M[l] = L[l]
  <2>1. L \in Seq(S \cup {x})
    BY <1>1
  <2> QED
    BY <2>1, AppendProperties
<1>5. /\ F \in Seq(T \cup {meant}) /\ Len(F) = n + 1
      /\ F[n + 1] = meant /\ \A l \in 1 .. n : F[l] = E[l]
  <2>1. E \in Seq(T \cup {meant})
    BY <1>2
  <2> QED
    BY <1>3, <2>1, AppendProperties
<1>6. IsList(M) /\ IsList(F)
  BY <1>4, <1>5 DEF IsList
<1> HIDE DEF M, F
<1>7. ASSUME NEW l \in 1 .. n
      PROVE  /\ IsList(M[l].items)
             /\ M[l].source # Nothing => ReadsFrom(M, Q, l, M[l].source.of)
             /\ l \notin Q => ContentIn(M, l) = F[l]
  <2>1. M[l] = L[l] /\ F[l] = E[l] /\ IsList(M[l].items) /\ (l \in P <=> l \in Q)
    BY <1>3, <1>4, <1>5 DEF Tracked
  <2>2. CASE L[l].source = Nothing
    <3>1. ContentIn(M, l) = ContentIn(L, l)
      BY <2>1, <2>2 DEF ContentIn
    <3> QED
      BY <2>1, <2>2, <3>1 DEF Tracked
  <2>3. CASE L[l].source # Nothing
    <3> DEFINE of == L[l].source.of
    <3>1. ReadsFrom(L, P, l, of)
      BY <2>3 DEF Tracked
    <3>2. of \in 1 .. n /\ M[of] = L[of] /\ (of \in P <=> of \in Q) /\ of \in 1 .. n + 1
      BY <1>3, <1>4, <3>1 DEF ReadsFrom
    <3>3. ReadsFrom(M, Q, l, of)
      BY <1>4, <2>1, <3>1, <3>2 DEF ReadsFrom
    <3>4. ContentIn(M, l) = ContentIn(L, l)
      BY <2>1, <3>2 DEF ContentIn
    <3>5. l \notin Q => ContentIn(M, l) = F[l]
      BY <2>1, <3>4 DEF Tracked
    <3> QED
      BY <2>1, <3>3, <3>5
  <2> QED
    BY <2>2, <2>3
<1>8. /\ IsList(M[n + 1].items)
      /\ M[n + 1].source # Nothing => ReadsFrom(M, Q, n + 1, M[n + 1].source.of)
      /\ n + 1 \notin Q => ContentIn(M, n + 1) = F[n + 1]
  <2> DEFINE of == x.source.of
  <2>1. CASE x.source = Nothing
    BY <1>4, <1>5, <2>1 DEF ContentIn
  <2>2. CASE x.source # Nothing
    <3>1. of \in 1 .. n /\ M[of] = L[of] /\ (of \in P <=> of \in Q) /\ of \in 1 .. n + 1
      BY <1>3, <1>4, <2>2
    <3>2. ReadsFrom(M, Q, n + 1, of)
      BY <1>4, <2>2, <3>1 DEF ReadsFrom
    <3>3. n + 1 \notin Q => ContentIn(M, n + 1) = F[n + 1]
      BY <1>4, <1>5, <2>2, <3>1 DEF ContentIn
    <3> QED
      BY <1>4, <3>2, <3>3
  <2> QED
    BY <2>1, <2>2
<1>9. \A l \in 1 .. n + 1 : l \in 1 .. n \/ l = n + 1
  BY <1>3
<1>10. Tracked(M, F, Q)
  BY <1>4, <1>5, <1>6, <1>7, <1>8, <1>9 DEF Tracked
<1> QED
  BY <1>10 DEF M, F

\* A change of the list at k, that makes all differ that are still to be read from it.
LEMMA ChangeKeeps ==
    ASSUME NEW L, NEW E, NEW P, Tracked(L, E, P), NEW k \in 1 .. Len(L),
           NEW items, L[k] = [items |-> items, source |-> Nothing], NEW how \in Mutators
    PROVE  Tracked([L EXCEPT ![k].items = Mutated(how, @)], [E EXCEPT ![k] = Mutated(how, @)],
                P \cup {l \in 1 .. Len(L) : L[l].source # Nothing /\ L[l].source.of = k})
<1> DEFINE Q == P \cup {l \in 1 .. Len(L) : L[l].source # Nothing /\ L[l].source.of = k}
           M == [L EXCEPT ![k].items = Mutated(how, @)]
           F == [E EXCEPT ![k] = Mutated(how, @)]
           x == [items |-> Mutated(how, items), source |-> Nothing]
           n == Len(L)
<1>1. PICK S : L \in Seq(S)
  BY DEF Tracked, IsList
<1>2. PICK T : E \in Seq(T)
  BY DEF Tracked, IsList
<1>3. n \in Nat /\ Len(E) = n
  BY <1>1 DEF Tracked
<1>4. /\ M \in Seq(S \cup {x}) /\ Len(M) = n
      /\ M[k] = x /\ \A l \in 1 .. n \ {k} : M[l] = L[l]
  <2>1. L \in Seq(S \cup {x})
    BY <1>1
  <2>2. M = [L EXCEPT ![k] = x]
    <3>1. [L[k] EXCEPT !.items = Mutated(how, L[k].items)] = x
      OBVIOUS
    <3> QED
      BY <3>1
  <2> HIDE DEF M, x
  <2> QED
    BY <2>1, <2>2
<1>5. /\ F \in Seq(T \cup {Mutated(how, E[k])}) /\ Len(F) = n
      /\ F[k] = Mutated(how, E[k]) /\ \A l \in 1 .. n \ {k} : F[l] = E[l]
  <2>1. E \in Seq(T \cup {Mutated(how, E[k])})
    BY <1>2
  <2> QED
    BY <1>3, <2>1
<1>6. IsList(M) /\ IsList(F)
  BY <1>4, <1>5 DEF IsList
<1>7. M[k].items = Mutated(how, items) /\ M[k].source = Nothing
  BY <1>4
<1>8. \A l \in 1 .. n : M[l].source = L[l].source
  BY <1>4
<1>9. L[k].items = items /\ L[k].source = Nothing /\ IsList(items)
  BY DEF Tracked
<1> HIDE DEF M, F, x
<1>10. \A l \in 1 .. n : L[l].source # Nothing /\ L[l].source.of = k => l \in Q
  OBVIOUS
<1>11. P \subseteq Q /\ \A l \in Q : l \in P \/ (l \in 1 .. n /\ L[l].source # Nothing)
  OBVIOUS
<1> HIDE DEF Q
<1>12. ASSUME NEW l \in 1 .. n
      PROVE  /\ IsList(M[l].items)
             /\ M[l].source # Nothing => ReadsFrom(M, Q, l, M[l].source.of)
             /\ l \notin Q => ContentIn(M, l) = F[l]
  <2>1. CASE l = k
    <3>1. IsList(M[k].items)
      BY <1>7, <1>9, MutatedIsAList
    <3>2. k \notin Q => ContentIn(L, k) = E[k]
      BY <1>11 DEF Tracked
    <3>3. ContentIn(L, k) = items /\ ContentIn(M, k) = Mutated(how, items)
      BY <1>7, <1>9 DEF ContentIn
    <3> QED
      BY <1>5, <1>7, <2>1, <3>1, <3>2, <3>3
  <2>2. CASE l # k
    <3>1. M[l] = L[l] /\ F[l] = E[l] /\ IsList(M[l].items)
      BY <1>4, <1>5, <2>2 DEF Tracked
    <3>2. CASE L[l].source = Nothing
      <4>1. ContentIn(M, l) = ContentIn(L, l)
        BY <3>1, <3>2 DEF ContentIn
      <4> QED
        BY <1>11, <3>1, <3>2, <4>1 DEF Tracked
    <3>3. CASE L[l].source # Nothing
      <4> DEFINE of == L[l].source.of
      <4>1. ReadsFrom(L, P, l, of)
        BY <3>3 DEF Tracked
      <4>2. of \in 1 .. n /\ M[of].source = Nothing
        BY <1>8, <4>1 DEF ReadsFrom
      <4>3. of \in Q => l \in Q
        BY <1>11, <4>1 DEF ReadsFrom
      <4>4. ReadsFrom(M, Q, l, of)
        BY <1>4, <3>1, <4>1, <4>2, <4>3 DEF ReadsFrom
      <4>5. ASSUME l \notin Q PROVE ContentIn(M, l) = F[l]
        <5>1. of # k /\ l \notin P
          BY <1>10, <1>11, <3>3, <4>5
        <5>2. M[of] = L[of]
          BY <1>4, <4>2, <5>1
        <5>3. ContentIn(M, l) = ContentIn(L, l)
          BY <3>1, <5>2 DEF ContentIn
        <5> QED
          BY <3>1, <5>1, <5>3 DEF Tracked
      <4> QED
        BY <3>1, <4>4, <4>5
    <3> QED
      BY <3>2, <3>3
  <2> QED
    BY <2>1, <2>2
<1>13. Tracked(M, F, Q)
  BY <1>4, <1>5, <1>6, <1>12 DEF Tracked
<1> QED
  BY <1>13 DEF M, F, Q

\* Initially there is one list, with a content of its own.
LEMMA InitLazyInv == QInit => LazyInv
<1> SUFFICES ASSUME NEW content \in SeqOf(Items, MaxLength), ListInit(content) PROVE LazyInv
  BY DEF QInit
<1>1. IsList(content)
  <2>1. content \in UNION {[1 .. m -> Items] : m \in 0 .. MaxLength}
    BY DEF SeqOf
  <2>2. PICK m \in 0 .. MaxLength : content \in [1 .. m -> Items]
    BY <2>1
  <2>3. m \in Nat /\ content = [k \in 1 .. m |-> content[k]]
    BY <2>2
  <2> QED
    BY <2>3, FunctionIsAList
<1> DEFINE x == [items |-> content, source |-> Nothing]
<1>2. lists = <<x>> /\ eager = <<content>> /\ parted = {}
  BY DEF ListInit
<1>3. x.items = content /\ x.source = Nothing
  OBVIOUS
<1> HIDE DEF x
<1>4. IsList(lists) /\ IsList(eager) /\ Len(eager) = Len(lists) /\ Len(lists) = 1
  <2>1. lists \in Seq({x}) /\ eager \in Seq({content}) /\ Len(eager) = 1 /\ Len(lists) = 1
    BY <1>2
  <2> QED
    BY <2>1 DEF IsList
<1>5. \A k \in 1 .. Len(lists) : lists[k] = x /\ eager[k] = content
  BY <1>2, <1>4
<1> QED
  BY <1>1, <1>3, <1>4, <1>5 DEF LazyInv, Tracked, ContentIn

\* Every use, query and change keeps the invariant.
LEMMA NextLazyInv == LazyInv /\ [QNext]_lazy => LazyInv'
<1> SUFFICES ASSUME LazyInv, [QNext]_lazy PROVE LazyInv'
  OBVIOUS
<1> DEFINE M(k) == Used(lists, k)
<1>1. \A k : Content(k) = ContentIn(lists, k) /\ EnsureMaterialized(k) = M(k)
  BY DEF Content, ContentIn, EnsureMaterialized, Used, IsLazy
<1>2. ASSUME NEW k \in 1 .. Len(lists)
      PROVE  /\ Tracked(M(k), eager, parted) /\ Len(M(k)) = Len(lists)
             /\ M(k)[k] = [items |-> ContentIn(lists, k), source |-> Nothing]
             /\ M(k)[k].items = ContentIn(lists, k) /\ M(k)[k].source = Nothing
             /\ \A l \in 1 .. Len(lists) \ {k} : M(k)[l] = lists[l]
             /\ IsList(ContentIn(lists, k))
             /\ k \notin parted => ContentIn(lists, k) = eager[k]
  <2>1. Tracked(lists, eager, parted)
    BY DEF LazyInv
  <2>2. /\ Tracked(M(k), eager, parted) /\ Len(M(k)) = Len(lists)
        /\ M(k)[k] = [items |-> ContentIn(lists, k), source |-> Nothing]
        /\ \A l \in 1 .. Len(lists) \ {k} : M(k)[l] = lists[l]
    BY <2>1, UseKeeps
  <2>3. IsList(ContentIn(lists, k))
    BY <2>1, ContentIsAList
  <2>4. k \notin parted => ContentIn(lists, k) = eager[k]
    BY <2>1 DEF Tracked
  <2>5. M(k)[k].items = ContentIn(lists, k) /\ M(k)[k].source = Nothing
    BY <2>2
  <2> QED
    BY <2>2, <2>3, <2>4, <2>5
<1>3. Tracked(lists', eager', parted') => LazyInv'
  BY DEF LazyInv
<1> HIDE DEF M
<1>4. ASSUME NEW k \in 1 .. Len(lists), Read(k) PROVE LazyInv'
  BY <1>1, <1>2, <1>3, <1>4 DEF Read
<1>5. ASSUME NEW k \in 1 .. Len(lists), NEW query \in LazyQueries, QueryLazily(k, query) PROVE LazyInv'
  <2> DEFINE x == [items |-> <<>>, source |-> [query |-> query, of |-> k]]
             meant == Result(query, eager[k])
             c == ContentIn(lists, k)
  <2>1. /\ lists' = Append(M(k), x) /\ eager' = Append(eager, meant)
        /\ parted' = IF k \in parted THEN parted \cup {Len(M(k)) + 1} ELSE parted
    BY <1>1, <1>2, <1>5 DEF QueryLazily, NewList
  <2>2. x.items = <<>> /\ x.source.query = query /\ x.source.of = k
    OBVIOUS
  <2>3. x.source # Nothing
    <3>1. DOMAIN x.source = {"query", "of"} /\ DOMAIN Nothing = {"query"}
      BY DEF Nothing
    <3> QED
      BY <3>1
  <2>4. IsList(x.items)
    <3>1. <<>> \in Seq({})
      OBVIOUS
    <3> QED
      BY <2>2, <3>1 DEF IsList
  <2>5. k \in 1 .. Len(M(k)) /\ M(k)[k].source = Nothing /\ M(k)[k].items = c
    BY <1>2
  <2>6. k \notin parted => meant = x.items \o Result(query, c)
    <3>1. IsList(Result(query, c))
      BY <1>2, ResultIsAList
    <3>2. <<>> \o Result(query, c) = Result(query, c)
      BY <3>1, NothingBefore
    <3> QED
      BY <1>2, <2>2, <3>2
  <2>7. Tracked(M(k), eager, parted)
    BY <1>2
  <2>8. parted' = parted \/ parted' = parted \cup {Len(M(k)) + 1}
    BY <2>1
  <2>9. Len(M(k)) + 1 \notin parted' => k \notin parted
    BY <2>1
  <2>10. k \in parted => Len(M(k)) + 1 \in parted'
    BY <2>1
  <2> HIDE DEF x, meant, c
  <2>11. Len(M(k)) + 1 \notin parted' =>
           meant = IF x.source # Nothing THEN x.items \o Result(x.source.query, M(k)[x.source.of].items)
                   ELSE x.items
    BY <2>2, <2>3, <2>5, <2>6, <2>9
  <2>12. Tracked(Append(M(k), x), Append(eager, meant), parted')
    BY <2>2, <2>3, <2>4, <2>5, <2>7, <2>8, <2>10, <2>11, AdditionKeeps
  <2> QED
    BY <1>3, <2>1, <2>12
<1>6. ASSUME NEW k \in 1 .. Len(lists), NEW items, IsList(items), NEW meant, NEW apart \in BOOLEAN,
             NewList(k, [items |-> items, source |-> Nothing], meant, apart),
             ~apart => meant = items
      PROVE  LazyInv'
  <2> DEFINE x == [items |-> items, source |-> Nothing]
  <2>1. /\ lists' = Append(M(k), x) /\ eager' = Append(eager, meant)
        /\ parted' = IF apart THEN parted \cup {Len(M(k)) + 1} ELSE parted
    BY <1>1, <1>2, <1>6 DEF NewList
  <2>2. x.items = items /\ x.source = Nothing
    OBVIOUS
  <2>3. Tracked(M(k), eager, parted)
    BY <1>2
  <2>4. parted' = parted \/ parted' = parted \cup {Len(M(k)) + 1}
    BY <2>1
  <2>5. Len(M(k)) + 1 \notin parted' => meant = items
    BY <1>6, <2>1
  <2> HIDE DEF x
  <2>6. Tracked(Append(M(k), x), Append(eager, meant), parted')
    BY <1>6, <2>2, <2>3, <2>4, <2>5, AdditionKeeps
  <2> QED
    BY <1>3, <2>1, <2>6
<1>7. ASSUME NEW k \in 1 .. Len(lists), NEW query \in EagerQueries, QueryAtOnce(k, query) PROVE LazyInv'
  <2> DEFINE r == Result(query, ContentIn(lists, k))
             meant == Result(query, eager[k])
             apart == k \in parted
  <2>1. NewList(k, [items |-> r, source |-> Nothing], meant, apart)
    BY <1>1, <1>7 DEF QueryAtOnce
  <2>2. IsList(r)
    BY <1>2, ResultIsAList
  <2>3. ~apart => meant = r
    BY <1>2
  <2>4. apart \in BOOLEAN
    OBVIOUS
  <2> HIDE DEF r, meant, apart
  <2> QED
    BY <1>6, <2>1, <2>2, <2>3, <2>4
<1>8. ASSUME NEW k \in 1 .. Len(lists), NEW l \in 1 .. Len(lists), Concat(k, l) PROVE LazyInv'
  <2> DEFINE r == M(k)[k].items \o M(k)[l].items
             meant == eager[k] \o eager[l]
             apart == {k, l} \cap parted # {} \/ M(k)[l].source # Nothing
  <2>1. NewList(k, [items |-> r, source |-> Nothing], meant, apart)
    BY <1>1, <1>8 DEF Concat
  <2>2. IsList(r)
    <3>1. IsList(M(k)[k].items) /\ IsList(M(k)[l].items)
      BY <1>2 DEF Tracked
    <3>2. PICK S : M(k)[k].items \in Seq(S)
      BY <3>1 DEF IsList
    <3>3. PICK T : M(k)[l].items \in Seq(T)
      BY <3>1 DEF IsList
    <3>4. M(k)[k].items \in Seq(S \cup T) /\ M(k)[l].items \in Seq(S \cup T)
      BY <3>2, <3>3
    <3>5. r \in Seq(S \cup T)
      BY <3>4
    <3> QED
      BY <3>5 DEF IsList
  <2>3. ASSUME ~apart PROVE meant = r
    <3>1. ContentIn(M(k), k) = eager[k] /\ ContentIn(M(k), l) = eager[l]
      BY <1>2, <2>3 DEF Tracked
    <3>2. M(k)[k].source = Nothing /\ M(k)[l].source = Nothing
      BY <1>2, <2>3
    <3> QED
      BY <3>1, <3>2 DEF ContentIn
  <2>4. apart \in BOOLEAN
    OBVIOUS
  <2> HIDE DEF r, meant, apart
  <2> QED
    BY <1>6, <2>1, <2>2, <2>3, <2>4
<1>9. ASSUME NEW k \in 1 .. Len(lists), NEW how \in Mutators, Change(k, how) PROVE LazyInv'
  <2>1. /\ lists' = [M(k) EXCEPT ![k].items = Mutated(how, @)]
        /\ eager' = [eager EXCEPT ![k] = Mutated(how, @)]
        /\ parted' = parted \cup Unread(k)
    BY <1>1, <1>9 DEF Change
  <2> DEFINE c == ContentIn(lists, k)
             U == {l \in 1 .. Len(M(k)) : M(k)[l].source # Nothing /\ M(k)[l].source.of = k}
  <2>2. M(k)[k] = [items |-> c, source |-> Nothing] /\ Tracked(M(k), eager, parted) /\ k \in 1 .. Len(M(k))
    BY <1>2
  <2>3. Tracked([M(k) EXCEPT ![k].items = Mutated(how, @)], [eager EXCEPT ![k] = Mutated(how, @)], parted \cup U)
    BY <2>2, ChangeKeeps
  <2>4. U = Unread(k)
    <3>1. \A l \in 1 .. Len(lists) : l # k => M(k)[l] = lists[l]
      BY <1>2
    <3>2. M(k)[k].source = Nothing
      BY <2>2
    <3>3. lists[k].source # Nothing => lists[k].source.of # k
      BY DEF LazyInv, Tracked, ReadsFrom
    <3>4. Len(M(k)) = Len(lists)
      BY <1>2
    <3> QED
      BY <3>1, <3>2, <3>3, <3>4 DEF Unread, IsLazy
  <2> QED
    BY <1>3, <2>1, <2>3, <2>4
<1>10. CASE UNCHANGED lazy
  <2>1. lists' = lists /\ eager' = eager /\ parted' = parted
    BY <1>10 DEF lazy
  <2> QED
    BY <2>1 DEF LazyInv
<1> QED
  BY <1>4, <1>5, <1>7, <1>8, <1>9, <1>10 DEF QNext

\* The invariant of the lists holds in every reachable state.
THEOREM LazyInvariance == QSpec => []LazyInv
  BY InitLazyInv, NextLazyInv, PTL DEF QSpec

\* Whatever is asked of lists, and in whatever order, a list that is read late holds
\* what it would have held had its query been run at once, unless the list it reads was
\* changed in between or an operand of + was still to be read.
THEOREM LateIsAtOnce == QSpec => []LazyIsTransparent
<1>1. LazyInv => LazyIsTransparent
  BY DEF LazyInv, Tracked, LazyIsTransparent, ContentIn, Content, IsLazy
<1> QED
  BY <1>1, LazyInvariance, PTL
=============================================================================
