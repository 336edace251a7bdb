------------------------------ MODULE Balancer ------------------------------
(***************************************************************************)
(* The registry of sessions (NamespaceDispatcher) and how the transmitter  *)
(* picks one for a call: acquire_session, the round-robin strategy with    *)
(* its counter, and the retry that drops a session without a session id.   *)
(* The only suspension is the question to the cacher that keeps the        *)
(* counter. The in-memory one answers at once, and nothing else happens    *)
(* while a call is choosing; behind another StrategyCacher the sessions    *)
(* come and go, and other calls choose, before the answer is there.        *)
(***************************************************************************)
EXTENDS Naturals, Sequences, FiniteSets, Lists

CONSTANTS Sessions, Namespaces, Roles,
          NamespaceOf, RoleOf,  \* of each session
          Callers,              \* coroutines that send, emit or request a stream
          Lanes,                \* what they ask for
          Wrap                  \* the counter is kept modulo Wrap

Nobody == "nobody"  \* no role in particular, no session
Failures == {"no candidate", "not registered"}

\* The counter is only used modulo a number of candidates: a Wrap that each of
\* these numbers divides loses nothing.
ASSUME BalancerAssumption ==
    /\ Lanes \subseteq [ns : Namespaces, role : Roles \cup {Nobody}]
    /\ NamespaceOf \in [Sessions -> Namespaces]
    /\ RoleOf \in [Sessions -> Roles]
    /\ Sessions \cap (Failures \cup {Nobody}) = {}
    /\ Wrap \in Nat \ {0}
    /\ \A ns \in Namespaces : \A n \in 1 .. Cardinality({s \in Sessions : NamespaceOf[s] = ns}) : Wrap % n = 0

VARIABLES
    registry, \* NamespaceDispatcher.namespaces
    live,     \* sessions with a session id
    joined,   \* sessions that were registered once
    cacher,   \* the in-memory one, or one that suspends
    counter,  \* "round_robin_index" in the cacher, modulo Wrap
    call,     \* what each caller is about
    last      \* the lane and the result of the last choice

vars == <<registry, live, joined, cacher, counter, call, last>>

NoLane == [ns |-> Nobody, role |-> Nobody]

\* A caller between calls; one in acquire_session; one that waits for the
\* cacher, with its candidates and their number; one with the answer.
Idle == [step |-> "idle"]
Looking(lane) == [step |-> "looking", lane |-> lane]
Waiting(step, lane, list, total, index) ==
    [step |-> step, lane |-> lane, list |-> list, total |-> total, index |-> index]

Init ==
    /\ registry = [ns \in Namespaces |-> <<>>]
    /\ live = Sessions
    /\ joined = {}
    /\ cacher \in {"memory", "remote"}
    /\ counter = 0
    /\ call = [c \in Callers |-> Idle]
    /\ last = [lane |-> NoLane, pick |-> Nobody]

Members(ns) == {registry[ns][i] : i \in 1 .. Len(registry[ns])}

\* NamespaceDispatcher.dispatch, without a session id.
Matches(s, lane) == lane.role \in {RoleOf[s], Nobody}
Candidates(lane) ==
    LET list == registry[lane.ns] IN At(list, {i \in 1 .. Len(list) : Matches(list[i], lane)})

\* remove_session takes the session out; it raises if it is not there.
Unregistered(s) == [registry EXCEPT ![NamespaceOf[s]] = RemoveFirst(@, s)]

\* Between two suspensions a coroutine has the event loop to itself.
Holds(c) == call[c].step = "looking" \/ (cacher = "memory" /\ call[c] # Idle)
Free(callers) == \A c \in callers : ~Holds(c)

-----------------------------------------------------------------------------
(* Sessions come and go. One that died before it was registered is added all *)
(* the same; one that dies later is removed with it.                         *)

AddFault(s) ==
    /\ Free(Callers) /\ s \notin joined
    /\ joined' = joined \cup {s}
    /\ registry' = [registry EXCEPT ![NamespaceOf[s]] = Append(@, NamespaceOf[s])]
    /\ UNCHANGED <<live, cacher, counter, call, last>>
Add(s) ==
    /\ Free(Callers) /\ s \notin joined
    /\ joined' = joined \cup {s}
    /\ registry' = [registry EXCEPT ![NamespaceOf[s]] = Append(@, s)]
    /\ UNCHANGED <<live, cacher, counter, call, last>>

Die(s) ==
    /\ Free(Callers) /\ s \in live
    /\ live' = live \ {s}
    /\ registry' = Unregistered(s)
    /\ UNCHANGED <<joined, cacher, counter, call, last>>

-----------------------------------------------------------------------------
(* A call chooses its session.                                               *)

Begin(c, lane) ==
    /\ Free(Callers) /\ call[c] = Idle
    /\ call' = [call EXCEPT ![c] = Looking(lane)]
    /\ UNCHANGED <<registry, live, joined, cacher, counter, last>>

Conclude(c, pick) ==
    /\ last' = [lane |-> call[c].lane, pick |-> pick]
    /\ call' = [call EXCEPT ![c] = Idle]

\* A role makes a list of its own, which first() fills here; without a role the
\* strategy gets the registry's list itself, and sees what is done to it.
Filtered(lane) == lane.role # Nobody
Kept(lane, list) == IF Filtered(lane) THEN list ELSE <<list[1]>>
Shown(k) == IF Filtered(k.lane) THEN k.list ELSE registry[k.lane.ns]

\* NoBalancingCandidateFound.
WantingFault(lane) == \A i \in 1 .. Len(Candidates(lane)) : i = 1 => Candidates(lane)[i] \notin live
Wanting(lane) == Candidates(lane) = <<>>
Fail(c) ==
    /\ call[c].step = "looking" /\ Wanting(call[c].lane)
    /\ Conclude(c, "no candidate")
    /\ UNCHANGED <<registry, live, joined, cacher, counter>>

\* The strategy counts the candidates and asks the cacher.
Ask(c) ==
    /\ call[c].step = "looking" /\ ~Wanting(call[c].lane)
    /\ LET list == Candidates(call[c].lane)
       IN  call' = [call EXCEPT ![c] = Waiting("asking", @.lane, Kept(@.lane, list), Len(list), 0)]
    /\ UNCHANGED <<registry, live, joined, cacher, counter, last>>

\* The counter is incremented: increment and next_index. The index is from 1.
NextIndexFault(total) == total
NextIndex(total) == (counter % total) + 1
Increment(c) ==
    /\ call[c].step = "asking"
    /\ counter' = (counter + 1) % Wrap
    /\ call' = [call EXCEPT ![c] = Waiting("answered", @.lane, @.list, @.total, NextIndex(@.total))]
    /\ UNCHANGED <<registry, live, joined, cacher, last>>

\* A cacher that is not in memory may raise instead.
CacherRaises(c) ==
    /\ call[c].step = "asking" /\ cacher = "remote"
    /\ call' = [call EXCEPT ![c] = Waiting("answered", @.lane, @.list, @.total, @.total + 1)]
    /\ UNCHANGED <<registry, live, joined, cacher, counter, last>>

\* Whatever goes wrong in the strategy, the default candidate is the answer: the
\* first of those the question was asked with.
Answer(k) == IF k.index \in 1 .. Len(Shown(k)) /\ k.index <= k.total THEN Shown(k)[k.index] ELSE k.list[1]

\* A candidate without a session id is dropped, and the call starts over; if
\* another has dropped it, remove_session raises out of the call.
RerotateFault(s) == UNCHANGED registry
Rerotate(s) == registry' = Unregistered(s)
Again(k) == Looking(k.lane)
UsableFault(s) == TRUE
Usable(s) == s \in live
Take(c) ==
    /\ call[c].step = "answered" /\ Free(Callers \ {c})
    /\ LET s == Answer(call[c])
       IN  \/ /\ Usable(s) /\ Conclude(c, s) /\ UNCHANGED registry
           \/ /\ ~Usable(s) /\ s \in Members(NamespaceOf[s])
              /\ Rerotate(s)
              /\ call' = [call EXCEPT ![c] = Again(@)] /\ UNCHANGED last
           \/ /\ ~Usable(s) /\ s \notin Members(NamespaceOf[s])
              /\ Conclude(c, "not registered") /\ UNCHANGED registry
    /\ UNCHANGED <<live, joined, cacher, counter>>

\* A call that names a session gets that one, if its session id is still set,
\* and the strategy is not asked.
Named(ns, s) == s \in live /\ s \in Members(ns)
TakeNamed(c, lane, s) ==
    /\ Free(Callers) /\ call[c] = Idle
    /\ last' = [lane |-> NoLane, pick |-> IF Named(lane.ns, s) /\ Matches(s, lane) THEN s ELSE "no candidate"]
    /\ UNCHANGED <<registry, live, joined, cacher, counter, call>>

-----------------------------------------------------------------------------
Next ==
    \/ \E s \in Sessions : Add(s) \/ Die(s)
    \/ \E c \in Callers, lane \in Lanes : Begin(c, lane) \/ \E s \in Sessions : TakeNamed(c, lane, s)
    \/ \E c \in Callers : Fail(c) \/ Ask(c) \/ Increment(c) \/ CacherRaises(c) \/ Take(c)

Spec == Init /\ [][Next]_vars

\* A choice goes on to its next suspension, a cacher answers or raises, and the
\* event loop gets round to every coroutine whose answer is there.
FairSpec ==
    Spec /\ \A c \in Callers : WF_vars(Fail(c) \/ Ask(c) \/ Increment(c) \/ CacherRaises(c)) /\ SF_vars(Take(c))

-----------------------------------------------------------------------------
(* Properties.                                                               *)

Calls ==
    {Idle} \cup {Looking(lane) : lane \in Lanes} \cup
    [step : {"asking", "answered"}, lane : Lanes, list : Seq(Sessions) \ {<<>>}, total : Nat \ {0}, index : Nat]

TypeOK ==
    /\ registry \in [Namespaces -> Seq(Sessions)]
    /\ live \subseteq Sessions
    /\ joined \subseteq Sessions
    /\ cacher \in {"memory", "remote"}
    /\ counter \in 0 .. Wrap - 1
    /\ call \in [Callers -> Calls]
    /\ last \in [lane : Lanes \cup {NoLane}, pick : Sessions \cup Failures \cup {Nobody}]

\* Every choice, with a lane or by name, ends in a session that can be written
\* to and is registered, or in a failure, however old the list it chose from.
ChosenIsUsable ==
    [][(last'.pick # last.pick /\ last'.pick \in Sessions) =>
         last'.pick \in live /\ last'.pick \in Members(NamespaceOf[last'.pick])]_vars

\* A call fails for want of candidates only if no live session it could have
\* used is registered: dead ones in front of it never hide it. With a cacher that
\* does not suspend it never fails otherwise: with one that does, who drops a
\* dead session second fails with the ValueError of remove_session.
FailsOnlyForWant ==
    [][\A c \in Callers :
         (call[c] # Idle /\ call'[c] = Idle /\ last'.pick \in Failures) =>
             \/ /\ last'.pick = "no candidate"
                /\ \A s \in Members(call[c].lane.ns) : Matches(s, call[c].lane) => s \notin live
             \/ last'.pick = "not registered" /\ cacher = "remote"]_vars

\* Every choice ends, however many dead sessions it meets: the recursion of
\* send and emit is bounded by what is registered, and no caller chooses for ever.
ChoiceEnds == \A c \in Callers : []<>(call[c] = Idle)

Counted == \E c \in Callers : Increment(c)
Raised == \E c \in Callers : CacherRaises(c)
Served(s, lane) ==
    []<>(last.pick = s) \/ <>[](s \notin Members(lane.ns) \/ ~Matches(s, lane) \/ s \notin live)

\* While the calls of one lane are the only ones, and the cacher answers, each
\* of its sessions gets its turn for ever, how ever the calls overlap.
SoleLaneIsFair ==
    \A lane \in Lanes : \A s \in Sessions :
        (<>[](last.lane = lane) /\ []<><<Counted>>_vars /\ <>[][~Raised]_vars) => Served(s, lane)
=============================================================================
