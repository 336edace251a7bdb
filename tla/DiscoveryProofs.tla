--------------------------- MODULE DiscoveryProofs ---------------------------
(***************************************************************************)
(* Proofs about the loop over the peers (Discovery), for any number of     *)
(* peers, any namespaces and any configurations, and about the scan that   *)
(* takes the comments out of a configuration file (JsonComments), for      *)
(* texts of any length.                                                    *)
(***************************************************************************)
EXTENDS Discovery, JsonComments, ListsProofs, FiniteSetTheorems, TLAPS

-----------------------------------------------------------------------------
(* The inductive invariant.                                                *)

Phases == {"booting", "rejected", "choosing", "dialing", "starting", "awaiting", "closing",
           "listening", "crashed", "finished"}
WithPeer == {"dialing", "starting", "awaiting", "closing", "listening"}

Types ==
    /\ config \in Configs
    /\ at \in Phases
    /\ peer \in 1 .. NPeers + 1
    /\ fate \in [Peers -> {"untried", "failed", "refused", "served"}]
    /\ open \subseteq Peers /\ ending \subseteq Peers
    /\ registry \in [Namespaces -> SUBSET Peers]
    /\ consumed \subseteq Namespaces
    /\ stopping \in BOOLEAN
    /\ stillborn \subseteq Peers

\* Between two peers the loop may be past the last one.
AtAPeer == at \in WithPeer => peer \in Peers

\* The configuration is fixed, so what a peer is sent is fixed too.
Credentials(p) == Joined(config, p).credentials
ShownIsFixed == shown \in [Peers -> SUBSET {Credentials(p) : p \in Peers}]
                /\ \A p \in Peers : shown[p] \subseteq {Credentials(p)}

\* A session is registered under its own namespace, and not before listen: what
\* close ends after a timeout is not in the registry.
RegisteredLate ==
    \A ns \in Namespaces : \A p \in registry[ns] :
        /\ ns = JoinedNamespace(p)
        /\ p < peer \/ (p = peer /\ at = "listening")

\* The loop runs only for a configuration that was accepted, and a peer is dialed
\* only with an authenticator that could be made.
CouldBeMade ==
    /\ at \notin {"booting", "rejected"} => ~Rejects(config)
    /\ at \in WithPeer => ~MakingRaises(config, peer)

IInv == Types /\ AtAPeer /\ CouldBeMade /\ ShownIsFixed /\ RegisteredLate /\ OnlyFailedStayOpen /\ DeadLeave

\* The namespace a peer is given is one of the registry's.
LEMMA NamespaceExists ==
  ASSUME IInv, at \in WithPeer
  PROVE  JoinedNamespace(peer) \in Namespaces
BY DiscoveryAssumption DEF JoinedNamespace, IInv, Types, AtAPeer, CouldBeMade, WithPeer

LEMMA InitIInv == Init => IInv
<1> SUFFICES ASSUME Init PROVE IInv
  OBVIOUS
<1>1. 1 \in 1 .. NPeers + 1
  BY DiscoveryAssumption
<1>2. Types /\ AtAPeer /\ CouldBeMade
  BY <1>1 DEF Init, Types, AtAPeer, CouldBeMade, Phases, WithPeer
<1>3. ShownIsFixed
  BY DEF Init, ShownIsFixed
<1>4. RegisteredLate /\ OnlyFailedStayOpen /\ DeadLeave
  BY DEF Init, RegisteredLate, OnlyFailedStayOpen, DeadLeave
<1>5. QED
  BY <1>2, <1>3, <1>4 DEF IInv

\* The rest of an iteration keeps the invariant, whatever the outcome f, if the
\* peer's connection is closed, or f is the failure that leaves it open, or it was
\* served and its close has begun; it is closed here only after the timeout, when nothing is
\* registered.
LEMMA MovingOn ==
  ASSUME IInv, at \in WithPeer, NEW f \in {"failed", "refused", "served"}, MoveOn(peer, f),
         open' \subseteq open, open \ {peer} \subseteq open',
         ending \subseteq ending', ending' \subseteq ending \cup {peer},
         f = "failed" \/ peer \notin open' \/ (f = "served" /\ peer \in ending'),
         peer \notin open' => peer \notin open \/ at = "closing",
         UNCHANGED <<config, registry, consumed, stopping, stillborn, shown>>
  PROVE  IInv'
<1>1. peer \in Peers /\ peer' = peer + 1 /\ NPeers \in Nat
  BY DiscoveryAssumption DEF IInv, AtAPeer, MoveOn
<1>2. Types'
  BY <1>1 DEF IInv, Types, MoveOn, Phases, Peers
<1>3. AtAPeer' /\ CouldBeMade'
  BY DEF IInv, AtAPeer, CouldBeMade, MoveOn, WithPeer
<1>4. ShownIsFixed'
  BY DEF IInv, ShownIsFixed, Credentials
<1>5. RegisteredLate'
  BY <1>1 DEF IInv, Types, RegisteredLate, JoinedNamespace, MoveOn, Peers
<1>6. OnlyFailedStayOpen'
  BY <1>1 DEF IInv, Types, OnlyFailedStayOpen, MoveOn
<1>7. DeadLeave'
  <2> SUFFICES ASSUME NEW ns \in Namespaces, NEW p \in registry[ns] PROVE p \in open' \/ p \in stillborn
    BY DEF DeadLeave
  <2>1. CASE p # peer
    BY <2>1 DEF IInv, DeadLeave
  <2>2. CASE p = peer
    <3>1. at = "listening"
      BY <2>2, <1>1 DEF IInv, RegisteredLate, Peers
    <3>2. QED
      BY <2>2, <3>1 DEF IInv, DeadLeave
  <2>3. QED
    BY <2>1, <2>2
<1>8. QED
  BY <1>2, <1>3, <1>4, <1>5, <1>6, <1>7 DEF IInv

\* A step that only moves the loop, with the same peer and not out of listen.
LEMMA Walking ==
  ASSUME IInv, at # "listening", at' \in Phases, at' \in WithPeer => peer \in Peers, CouldBeMade',
         UNCHANGED <<config, peer, fate, open, ending, registry, consumed, stopping, stillborn, shown>>
  PROVE  IInv'
<1>1. Types' /\ AtAPeer'
  BY DEF IInv, Types, AtAPeer
<1>2. ShownIsFixed' /\ RegisteredLate'
  BY DEF IInv, ShownIsFixed, Credentials, RegisteredLate, JoinedNamespace
<1>3. OnlyFailedStayOpen' /\ DeadLeave'
  BY DEF IInv, OnlyFailedStayOpen, DeadLeave
<1>4. QED
  BY <1>1, <1>2, <1>3 DEF IInv

LEMMA StepIInv == IInv /\ [Next]_vars => IInv'
<1> SUFFICES ASSUME IInv, [Next]_vars PROVE IInv'
  OBVIOUS
<1>1. CASE Provide
  <2>1. CouldBeMade'
    BY <1>1 DEF Provide, CouldBeMade, WithPeer
  <2>2. QED
    BY <1>1, <2>1, Walking DEF Provide, Phases, WithPeer
<1>2. CASE ChooseAuthenticator
  <2>1. CouldBeMade'
    BY <1>2 DEF ChooseAuthenticator, IInv, CouldBeMade, WithPeer
  <2>2. QED
    BY <1>2, <2>1, Walking DEF ChooseAuthenticator, Phases
<1>3. CASE Finish
  <2>1. CouldBeMade'
    BY <1>3 DEF Finish, IInv, CouldBeMade, WithPeer
  <2>2. QED
    BY <1>3, <2>1, Walking DEF Finish, Phases, WithPeer
<1>4. CASE DialFails
  BY <1>4, MovingOn DEF DialFails, Raise, WithPeer
<1>5. CASE StartFails
  BY <1>5, MovingOn DEF StartFails, Raise, WithPeer
<1>6. CASE StartTimesOut
  <2>1. peer \in Peers
    BY <1>6 DEF StartTimesOut, IInv, AtAPeer, WithPeer
  <2>2. CouldBeMade'
    BY <1>6 DEF StartTimesOut, IInv, CouldBeMade, WithPeer
  <2>3. QED
    BY <1>6, <2>1, <2>2, Walking DEF StartTimesOut, Phases
<1>7. CASE Closed
  <2>1. /\ at = "closing" /\ ending \subseteq ending' /\ ending' \subseteq ending \cup {peer}
        /\ UNCHANGED <<config, registry, consumed, stopping, stillborn, shown>>
    BY <1>7 DEF Closed
  <2>2. CASE open' = Flush /\ MoveOn(peer, "refused")
    BY <2>1, <2>2, MovingOn DEF Flush, WithPeer
  <2>3. CASE UNCHANGED open /\ Raise(peer)
    BY <2>1, <2>3, MovingOn DEF Raise, WithPeer
  <2>4. QED
    BY <1>7, <2>2, <2>3 DEF Closed
<1>8. CASE Listened
  BY <1>8, MovingOn DEF Listened, WithPeer
<1>9. CASE Dialed
  <2>1. peer \in Peers
    BY <1>9 DEF Dialed, IInv, AtAPeer, WithPeer
  <2>2. Types' /\ AtAPeer' /\ CouldBeMade'
    BY <1>9, <2>1 DEF Dialed, IInv, Types, AtAPeer, CouldBeMade, Phases, WithPeer
  <2>3. ShownIsFixed' /\ RegisteredLate'
    BY <1>9 DEF Dialed, IInv, ShownIsFixed, Credentials, RegisteredLate, JoinedNamespace
  <2>4. OnlyFailedStayOpen' /\ DeadLeave'
    BY <1>9 DEF Dialed, IInv, OnlyFailedStayOpen, DeadLeave
  <2>5. QED
    BY <2>2, <2>3, <2>4 DEF IInv
<1>10. CASE Authenticate
  <2>1. peer \in Peers
    BY <1>10 DEF Authenticate, IInv, AtAPeer, WithPeer
  <2>2. Types' /\ AtAPeer' /\ CouldBeMade'
    BY <1>10, <2>1 DEF Authenticate, IInv, Types, AtAPeer, CouldBeMade, Phases, WithPeer
  <2>3. ShownIsFixed'
    BY <1>10, <2>1 DEF Authenticate, IInv, ShownIsFixed, Credentials
  <2>4. RegisteredLate' /\ OnlyFailedStayOpen' /\ DeadLeave'
    BY <1>10 DEF Authenticate, IInv, RegisteredLate, JoinedNamespace, OnlyFailedStayOpen, DeadLeave
  <2>5. QED
    BY <2>2, <2>3, <2>4 DEF IInv
<1>11. CASE Register
  <2>1. peer \in Peers /\ JoinedNamespace(peer) \in Namespaces
    BY <1>11, NamespaceExists DEF Register, IInv, AtAPeer, WithPeer
  <2>2. Types'
    BY <1>11, <2>1 DEF Register, IInv, Types, Phases
  <2>3. AtAPeer' /\ CouldBeMade' /\ ShownIsFixed'
    BY <1>11, <2>1 DEF Register, IInv, AtAPeer, CouldBeMade, ShownIsFixed, Credentials, WithPeer
  <2>4. ASSUME NEW ns \in Namespaces, NEW p \in registry'[ns]
        PROVE  /\ ns = JoinedNamespace(p)' /\ (p < peer' \/ (p = peer' /\ at' = "listening"))
               /\ p \in open' \/ p \in stillborn'
    <3>1. CASE p \in registry[ns]
      <4>1. ns = JoinedNamespace(p) /\ (p < peer \/ p = peer) /\ (p \in open \/ p \in stillborn)
        BY <3>1 DEF IInv, RegisteredLate, DeadLeave
      <4>2. QED
        BY <1>11, <4>1 DEF Register, JoinedNamespace
    <3>2. CASE p \notin registry[ns]
      <4>1. p = peer /\ ns = JoinedNamespace(peer)
        BY <1>11, <2>1, <3>2, <2>4 DEF Register, IInv, Types
      <4>2. QED
        BY <1>11, <4>1 DEF Register, JoinedNamespace
    <3>3. QED
      BY <3>1, <3>2
  <2>5. RegisteredLate' /\ DeadLeave'
    BY <2>4 DEF RegisteredLate, DeadLeave
  <2>6. OnlyFailedStayOpen'
    BY <1>11 DEF Register, IInv, OnlyFailedStayOpen
  <2>7. QED
    BY <2>2, <2>3, <2>5, <2>6 DEF IInv
<1>12. CASE Shutdown
  <2>1. Types' /\ AtAPeer' /\ CouldBeMade'
    BY <1>12 DEF Shutdown, IInv, Types, AtAPeer, CouldBeMade
  <2>2. ShownIsFixed' /\ RegisteredLate'
    BY <1>12 DEF Shutdown, IInv, ShownIsFixed, Credentials, RegisteredLate, JoinedNamespace
  <2>3. OnlyFailedStayOpen' /\ DeadLeave'
    BY <1>12 DEF Shutdown, IInv, OnlyFailedStayOpen, DeadLeave
  <2>4. QED
    BY <2>1, <2>2, <2>3 DEF IInv
<1>13. ASSUME NEW p \in Peers, Disconnect(p) PROVE IInv'
  <2>1. Types' /\ AtAPeer' /\ CouldBeMade'
    BY <1>13 DEF Disconnect, Unregister, IInv, Types, AtAPeer, CouldBeMade
  <2>2. ShownIsFixed' /\ OnlyFailedStayOpen'
    BY <1>13 DEF Disconnect, IInv, ShownIsFixed, Credentials, OnlyFailedStayOpen
  <2>3. ASSUME NEW ns \in Namespaces, NEW q \in registry'[ns]
        PROVE  q \in registry[ns] /\ (q # p \/ ns # JoinedNamespace(p))
    BY <1>13, <2>3 DEF Disconnect, Unregister, IInv, Types
  <2>4. RegisteredLate'
    BY <1>13, <2>3 DEF Disconnect, IInv, RegisteredLate, JoinedNamespace
  <2>5. DeadLeave'
    BY <1>13, <2>3 DEF Disconnect, IInv, RegisteredLate, DeadLeave
  <2>6. QED
    BY <2>1, <2>2, <2>4, <2>5 DEF IInv
<1>14. ASSUME NEW p \in Peers, CloseBegins(p) PROVE IInv'
  <2>1. Types' /\ AtAPeer' /\ CouldBeMade' /\ ShownIsFixed'
    BY <1>14 DEF CloseBegins, IInv, Types, AtAPeer, CouldBeMade, ShownIsFixed, Credentials
  <2>2. RegisteredLate' /\ OnlyFailedStayOpen' /\ DeadLeave'
    BY <1>14 DEF CloseBegins, IInv, RegisteredLate, JoinedNamespace, OnlyFailedStayOpen, DeadLeave
  <2>3. QED
    BY <2>1, <2>2 DEF IInv
<1>15. CASE UNCHANGED vars
  <2>1. Types' /\ AtAPeer' /\ CouldBeMade' /\ ShownIsFixed'
    BY <1>15 DEF vars, IInv, Types, AtAPeer, CouldBeMade, ShownIsFixed, Credentials
  <2>2. RegisteredLate' /\ OnlyFailedStayOpen' /\ DeadLeave'
    BY <1>15 DEF vars, IInv, RegisteredLate, JoinedNamespace, OnlyFailedStayOpen, DeadLeave
  <2>3. QED
    BY <2>1, <2>2 DEF IInv
<1>16. QED
  BY <1>1, <1>2, <1>3, <1>4, <1>5, <1>6, <1>7, <1>8, <1>9, <1>10, <1>11, <1>12, <1>13, <1>14, <1>15
  DEF Next, Loop

LEMMA Invariance == Spec => []IInv
BY InitIInv, StepIInv, PTL DEF Spec

-----------------------------------------------------------------------------
(* What it gives.                                                          *)

\* A set within a singleton has at most one element.
LEMMA AtMostOne ==
  ASSUME NEW x, NEW S \in SUBSET {x}
  PROVE  Cardinality(S) <= 1
<1>1. IsFiniteSet({x}) /\ Cardinality({x}) = 1
  BY FS_Singleton
<1>2. Cardinality(S) <= Cardinality({x})
  BY <1>1, FS_Subset
<1>3. QED
  BY <1>1, <1>2

\* The loop's variables keep their types, and no peer is ever sent credentials of
\* two kinds.
THEOREM TypeCorrect == Spec => []TypeOK
<1>1. IInv => TypeOK
  <2> SUFFICES ASSUME IInv PROVE TypeOK
    OBVIOUS
  <2>1. \A p \in Peers : Cardinality(shown[p]) <= 1
    BY AtMostOne DEF IInv, ShownIsFixed
  <2>2. QED
    BY <2>1 DEF IInv, Types, TypeOK, Phases
<1>2. QED
  BY <1>1, Invariance, PTL

\* The loop forgets no connection, for any peers in any order: one it leaves open
\* had a start or a close that raised, or was served and is being closed elsewhere.
THEOREM OnlyFailedAreLeftOpen == Spec => []OnlyFailedStayOpen
<1>1. IInv => OnlyFailedStayOpen
  BY DEF IInv
<1>2. QED
  BY <1>1, Invariance, PTL

\* A dead session is never offered to the balancer, unless it was dead when it
\* was registered.
THEOREM TheDeadAreNotOffered == Spec => []DeadLeave
<1>1. IInv => DeadLeave
  BY DEF IInv
<1>2. QED
  BY <1>1, Invariance, PTL

-----------------------------------------------------------------------------
(* The credentials.                                                          *)

\* A chain of "or" gives the first of its options that is true, or the last.
LEMMA FirstGivenHolds ==
    ASSUME NEW options, NEW n \in Nat \ {0}, DOMAIN options = 1 .. n, Len(options) = n
    PROVE  \/ FirstGiven(options) = options[n] /\ \A i \in 1 .. n : options[i] \in {None, Empty}
           \/ \E i \in 1 .. n : /\ FirstGiven(options) = options[i] /\ options[i] \notin {None, Empty}
                                /\ \A j \in 1 .. i - 1 : options[j] \in {None, Empty}
<1> DEFINE given == {i \in DOMAIN options : options[i] \notin {None, Empty}}
           IsFirst(i) == \A j \in given : i <= j
<1>1. FirstGiven(options) = options[IF given = {} THEN Len(options) ELSE CHOOSE i \in given : IsFirst(i)]
  BY DEF FirstGiven
<1>2. CASE given = {}
  BY <1>1, <1>2
<1>3. CASE given # {}
  <2>1. given \in SUBSET Nat
    OBVIOUS
  <2>2. \E i \in given : IsFirst(i)
    <3> HIDE DEF given
    <3> QED
      BY <1>3, <2>1, Least
  <2> HIDE DEF IsFirst
  <2>3. PICK i \in given : i = (CHOOSE j \in given : IsFirst(j)) /\ IsFirst(i)
    BY <2>2
  <2>4. FirstGiven(options) = options[i]
    BY <1>1, <1>3, <2>3
  <2>5. \A j \in 1 .. i - 1 : options[j] \in {None, Empty}
    <3>1. \A j \in 1 .. i - 1 : j \in 1 .. n /\ ~(i <= j)
      OBVIOUS
    <3> QED
      BY <2>3, <3>1 DEF IsFirst
  <2> QED
    BY <2>3, <2>4, <2>5
<1> QED
  BY <1>2, <1>3

\* Of the four a factory takes the first that is not empty, or the last.
FactoryTakes(x, s, t, a, d) ==
    \/ x \in {s, t} \ {None, Empty}
    \/ {s, t} \subseteq {None, Empty} /\ x = a /\ a \notin {None, Empty}
    \/ {s, t, a} \subseteq {None, Empty} /\ x = d

LEMMA FactoryTakesFirst ==
    ASSUME NEW c, NEW e
    PROVE  FactoryTakes(FactorySecret(c, e), Own(e, "secret"), Own(e, "shared_secret"),
                        Own(e, "authorization"), DefaultSecret(c))
<1> DEFINE s == Own(e, "secret")
           t == Own(e, "shared_secret")
           a == Own(e, "authorization")
           d == DefaultSecret(c)
           x == FactorySecret(c, e)
           options == <<s, t, a, d>>
<1>1. /\ DOMAIN options = 1 .. 4 /\ Len(options) = 4
      /\ options[1] = s /\ options[2] = t /\ options[3] = a /\ options[4] = d
  OBVIOUS
<1>2. x = FirstGiven(options)
  BY DEF FactorySecret
<1> HIDE DEF s, t, a, d, x, options
<1>3. \/ x = options[4] /\ \A i \in 1 .. 4 : options[i] \in {None, Empty}
      \/ \E i \in 1 .. 4 : /\ x = options[i] /\ options[i] \notin {None, Empty}
                            /\ \A j \in 1 .. i - 1 : options[j] \in {None, Empty}
  <2>1. 4 \in Nat \ {0}
    OBVIOUS
  <2> QED
    BY <1>1, <1>2, <2>1, FirstGivenHolds
<1>4. ASSUME x = options[4], \A i \in 1 .. 4 : options[i] \in {None, Empty}
      PROVE  FactoryTakes(x, s, t, a, d)
  <2>1. s \in {None, Empty} /\ t \in {None, Empty} /\ a \in {None, Empty}
    BY <1>1, <1>4
  <2> QED
    BY <1>1, <1>4, <2>1 DEF FactoryTakes
<1>5. ASSUME NEW i \in 1 .. 4, x = options[i], options[i] \notin {None, Empty},
             \A j \in 1 .. i - 1 : options[j] \in {None, Empty}
      PROVE  FactoryTakes(x, s, t, a, d)
  <2>1. CASE i \in {1, 2}
    BY <1>1, <1>5, <2>1 DEF FactoryTakes
  <2>2. CASE i = 3
    <3>1. 1 \in 1 .. i - 1 /\ 2 \in 1 .. i - 1
      BY <2>2
    <3> QED
      BY <1>1, <1>5, <2>2, <3>1 DEF FactoryTakes
  <2>3. CASE i = 4
    <3>1. 1 \in 1 .. i - 1 /\ 2 \in 1 .. i - 1 /\ 3 \in 1 .. i - 1
      BY <2>3
    <3> QED
      BY <1>1, <1>5, <2>3, <3>1 DEF FactoryTakes
  <2> QED
    BY <2>1, <2>2, <2>3
<1>6. FactoryTakes(x, s, t, a, d)
  BY <1>3, <1>4, <1>5
<1> QED
  BY <1>6 DEF s, t, a, d, x

\* A peer is sent what its own entry names, or what is meant for all, for any entries
\* in any order, and what was given to provideAttp for it if that was done.
THEOREM CredentialsAreOfTheEntry == Spec => []CredentialsFollowEntry
<1>1. IInv => CredentialsFollowEntry
  <2> SUFFICES ASSUME IInv, NEW p \in Peers, NEW x \in shown[p]
               PROVE  LET named(fields) == {Own(config.peers[p], field) : field \in fields} \ {None, Empty}
                          secrets == named({"secret", "shared_secret"})
                          tokens == named({"authorization"})
                          given == config.authenticator
                      IN  IF MakesFactory(config)
                          THEN \/ x \in secrets
                               \/ secrets = {} /\ x \in tokens
                               \/ secrets = {} /\ tokens = {} /\ x = DefaultSecret(config)
                          ELSE \/ given.kind \in {"instance", "class"} /\ x = given.credentials
                               \/ given.kind = "callable" /\ given.makes[p] # None /\ x = given.makes[p].credentials
                               \/ /\ given.kind = None \/ (given.kind = "callable" /\ given.makes[p] = None)
                                  /\ x = Own(config.peers[p], "authorization")
    BY DEF CredentialsFollowEntry
  <2> DEFINE s == Own(config.peers[p], "secret")
             t == Own(config.peers[p], "shared_secret")
             a == Own(config.peers[p], "authorization")
             d == DefaultSecret(config)
             kind == config.authenticator.kind
  <2>1. /\ x = Joined(config, p).credentials
        /\ kind \in {None, "instance", "class", "callable"}
        /\ None \notin {"instance", "class", "callable", "factory"}
    BY GivenAssumption DEF IInv, Types, ShownIsFixed, Credentials
  <2>2. CASE MakesFactory(config)
    <3>1. x = FactorySecret(config, config.peers[p])
      BY <2>1, <2>2 DEF Joined, AuthenticatorOf
    <3>2. FactoryTakes(x, s, t, a, d)
      BY <3>1, FactoryTakesFirst
    <3>3. /\ {Own(config.peers[p], field) : field \in {"secret", "shared_secret"}} = {s, t}
          /\ {Own(config.peers[p], field) : field \in {"authorization"}} = {a}
      OBVIOUS
    <3> HIDE DEF s, t, a, d
    <3> QED
      BY <2>2, <3>2, <3>3 DEF FactoryTakes, d
  <2>3. CASE ~MakesFactory(config)
    BY <2>1, <2>3 DEF Joined, AuthenticatorOf
  <2> QED
    BY <2>2, <2>3
<1> QED
  BY <1>1, Invariance, PTL

-----------------------------------------------------------------------------
(* The scan over a configuration file.                                       *)

\* Two texts with the same first n characters have the same literals up to there.
LEMMA LiteralsAreRead ==
    ASSUME NEW t, NEW u, NEW n \in Nat, \A k \in 1 .. n : t[k] = u[k]
    PROVE  /\ \A j \in 1 .. n + 1 : Escaping(t, j) = Escaping(u, j)
           /\ \A j \in 1 .. n : Delimits(t, j) <=> Delimits(u, j)
           /\ \A j \in 1 .. n + 1 : Inside(t, j) <=> Inside(u, j)
<1>1. ASSUME NEW j \in 1 .. n + 1 PROVE Escaping(t, j) = Escaping(u, j)
  <2>1. \A k \in 1 .. j - 1 : \A l \in k .. j - 1 : t[l] = u[l]
    OBVIOUS
  <2> QED
    BY <2>1 DEF Escaping
<1>2. ASSUME NEW j \in 1 .. n PROVE Delimits(t, j) <=> Delimits(u, j)
  <2>1. Escaping(t, j) = Escaping(u, j)
    BY <1>1
  <2> QED
    BY <2>1 DEF Delimits
<1>3. ASSUME NEW j \in 1 .. n + 1 PROVE Inside(t, j) <=> Inside(u, j)
  <2>1. {k \in 1 .. j - 1 : Delimits(t, k)} = {k \in 1 .. j - 1 : Delimits(u, k)}
    BY <1>2
  <2> QED
    BY <2>1 DEF Inside
<1> QED
  BY <1>1, <1>2, <1>3

\* The places of a text are finitely many.
LEMMA PlacesCount ==
    ASSUME NEW n \in Nat, NEW S \in SUBSET (1 .. n)
    PROVE  /\ IsFiniteSet(S) /\ Cardinality(S) \in Nat
           /\ \A x : x \notin S => Cardinality(S \cup {x}) = Cardinality(S) + 1
<1>1. IsFiniteSet(1 .. n)
  BY FS_Interval
<1>2. IsFiniteSet(S)
  BY <1>1, FS_Subset
<1> QED
  BY <1>2, FS_CardinalityType, FS_AddElement

\* The backslashes before the end of a text of n characters do not pair up: what
\* comes next is escaped.
Escaped(t, n) == Cardinality(Escaping(t, n + 1)) % 2 = 1

\* What one more character does to the literal the end of a text is in.
LEMMA OneMoreCharacter ==
    ASSUME NEW t, NEW n \in Nat
    PROVE  /\ Escaped(t, n + 1) <=> t[n + 1] = "backslash" /\ ~Escaped(t, n)
           /\ Delimits(t, n + 1) <=> t[n + 1] = "quote" /\ ~Escaped(t, n)
           /\ Inside(t, n + 2) <=> IF Delimits(t, n + 1) THEN ~Inside(t, n + 1) ELSE Inside(t, n + 1)
<1> DEFINE e == Escaping(t, n + 1)
           f == Escaping(t, n + 2)
           d == {k \in 1 .. n : Delimits(t, k)}
<1>1. e \in SUBSET (1 .. n) /\ d \in SUBSET (1 .. n)
  BY DEF Escaping
<1>2. Cardinality(e) \in Nat /\ Cardinality(d) \in Nat
  BY <1>1, PlacesCount
<1>3. Delimits(t, n + 1) <=> t[n + 1] = "quote" /\ ~Escaped(t, n)
  BY <1>2 DEF Delimits, Escaped
<1>4. Escaped(t, n + 1) <=> t[n + 1] = "backslash" /\ ~Escaped(t, n)
  <2>0. f = {k \in 1 .. n + 1 : \A l \in k .. n + 1 : t[l] = "backslash"}
        /\ e = {k \in 1 .. n : \A l \in k .. n : t[l] = "backslash"}
    BY DEF Escaping
  <2>1. CASE t[n + 1] = "backslash"
    <3>1. f = e \cup {n + 1} /\ n + 1 \notin e
      <4>1. 1 .. n + 1 = 1 .. n \cup {n + 1} /\ n + 1 \notin 1 .. n
        OBVIOUS
      <4>2. \A k \in 1 .. n : k .. n + 1 = k .. n \cup {n + 1}
        OBVIOUS
      <4>3. n + 1 .. n + 1 = {n + 1}
        OBVIOUS
      <4> HIDE DEF e, f
      <4> QED
        BY <2>0, <2>1, <4>1, <4>2, <4>3
    <3>2. Cardinality(f) = Cardinality(e) + 1
      BY <1>1, <3>1, PlacesCount
    <3>3. Cardinality(f) % 2 = 1 <=> ~(Cardinality(e) % 2 = 1)
      <4> HIDE DEF e, f
      <4> QED
        BY <1>2, <3>2
    <3> QED
      BY <2>1, <3>3 DEF Escaped
  <2>2. CASE t[n + 1] # "backslash"
    <3>1. f = {}
      <4>1. \A k \in 1 .. n + 1 : n + 1 \in k .. n + 1
        OBVIOUS
      <4> HIDE DEF f
      <4> QED
        BY <2>0, <2>2, <4>1
    <3>2. Cardinality(f) = 0
      BY <3>1, FS_EmptySet
    <3> QED
      BY <2>2, <3>2 DEF Escaped
  <2> QED
    BY <2>1, <2>2
<1>5. Inside(t, n + 2) <=> IF Delimits(t, n + 1) THEN ~Inside(t, n + 1) ELSE Inside(t, n + 1)
  <2> DEFINE g == {k \in 1 .. n + 1 : Delimits(t, k)}
  <2>0. (Inside(t, n + 2) <=> Cardinality(g) % 2 = 1) /\ (Inside(t, n + 1) <=> Cardinality(d) % 2 = 1)
    BY DEF Inside
  <2>1. 1 .. n + 1 = 1 .. n \cup {n + 1} /\ n + 1 \notin 1 .. n
    OBVIOUS
  <2>2. CASE Delimits(t, n + 1)
    <3>1. g = d \cup {n + 1} /\ n + 1 \notin d
      BY <2>1, <2>2
    <3>2. Cardinality(g) = Cardinality(d) + 1
      BY <1>1, <3>1, PlacesCount
    <3> HIDE DEF d, g
    <3>3. Cardinality(g) % 2 = 1 <=> ~(Cardinality(d) % 2 = 1)
      BY <1>2, <3>2
    <3> QED
      BY <2>0, <2>2, <3>3
  <2>3. CASE ~Delimits(t, n + 1)
    <3>1. g = d
      BY <2>1, <2>3
    <3> QED
      BY <2>0, <2>3, <3>1
  <2> QED
    BY <2>2, <2>3
<1> QED
  BY <1>3, <1>4, <1>5

-----------------------------------------------------------------------------
ScanTypes ==
    /\ raw \in Seq(Characters) /\ result \in Seq(Characters)
    /\ pos \in Nat \ {0}
    /\ in_string \in Quotes \cup {NoQuote} /\ escape \in BOOLEAN

\* As long as what is kept is JSON, the scan knows whether the end of it is within a
\* literal and whether the next character is escaped.
KnowsLiteral(text, n, literal, escaping) ==
    /\ literal = IF Inside(text, n + 1) THEN "quote" ELSE NoQuote
    /\ escaping <=> Escaped(text, n)
    /\ escaping => literal # NoQuote

\* A slash that was kept outside of a literal is not followed by what would make it a
\* comment.
SlashIsAlone(text, n, literal, next) ==
    (n > 0 /\ text[n] = "slash" /\ literal = NoQuote /\ next <= Len(raw)) => raw[next] \notin {"slash", "star"}

Tracks ==
    IsJson(result) =>
        /\ KnowsLiteral(result, Len(result), in_string, escape)
        /\ HasNoComment(result)
        /\ SlashIsAlone(result, Len(result), in_string, pos)

ScanInv == ScanTypes /\ Tracks

LEMMA InitScanInv == ScanInit => ScanInv
<1> SUFFICES ASSUME ScanInit PROVE ScanInv
  OBVIOUS
<1>1. raw \in Seq(Characters)
  BY JsonCommentsAssumption DEF ScanInit, Texts
<1>2. result = <<>> /\ Len(result) = 0 /\ pos = 1 /\ in_string = NoQuote /\ escape = FALSE
  BY DEF ScanInit
<1>3. ScanTypes
  <2>1. result \in Seq(Characters)
    BY <1>2
  <2>2. in_string \in Quotes \cup {NoQuote} /\ escape \in BOOLEAN
    BY <1>2
  <2> QED
    BY <1>1, <1>2, <2>1, <2>2 DEF ScanTypes
<1>4. ~Inside(result, 1) /\ ~Escaped(result, 0)
  <2>1. {k \in 1 .. 0 : Delimits(result, k)} = {} /\ Escaping(result, 1) = {}
    BY DEF Escaping
  <2>2. Cardinality({}) = 0
    BY FS_EmptySet
  <2>3. Inside(result, 1) <=> Cardinality({k \in 1 .. 0 : Delimits(result, k)}) % 2 = 1
    BY DEF Inside
  <2> QED
    BY <2>1, <2>2, <2>3 DEF Escaped
<1>5. Tracks
  BY <1>2, <1>4 DEF Tracks, KnowsLiteral, HasNoComment, SlashIsAlone
<1> QED
  BY <1>3, <1>5 DEF ScanInv

\* The beginning of JSON is JSON, as far as a scanner sees it.
LEMMA BeginningIsJson ==
    ASSUME NEW t \in Seq(Characters), NEW u \in Seq(Characters), Len(t) <= Len(u),
           \A k \in 1 .. Len(t) : t[k] = u[k], IsJson(u)
    PROVE  IsJson(t)
<1> SUFFICES ASSUME NEW j \in 1 .. Len(t), t[j] \in {"apostrophe", "backslash"} PROVE Inside(t, j)
  BY DEF IsJson
<1>1. j \in 1 .. Len(u) /\ u[j] = t[j] /\ Len(t) \in Nat /\ j \in 1 .. Len(t) + 1
  OBVIOUS
<1>2. Inside(u, j)
  BY <1>1 DEF IsJson
<1> QED
  BY <1>1, <1>2, LiteralsAreRead

\* A character that is kept.
LEMMA KeepHolds ==
    ASSUME ScanInv, ~Scanned, Keep, raw' = raw
    PROVE  LET n == Len(result)
           IN  /\ n \in Nat /\ result' \in Seq(Characters) /\ Len(result') = n + 1
               /\ \A k \in 1 .. n : result'[k] = result[k]
               /\ result'[n + 1] = raw[pos]
               /\ pos \in 1 .. Len(raw) /\ raw[pos] \in Characters
               /\ pos' = pos + 1 /\ pos' \in Nat \ {0}
<1> DEFINE n == Len(result)
<1>1. raw \in Seq(Characters) /\ result \in Seq(Characters) /\ pos \in Nat \ {0} /\ n \in Nat
  BY DEF ScanInv, ScanTypes
<1>2. pos \in 1 .. Len(raw) /\ raw[pos] \in Characters
  BY <1>1 DEF Scanned
<1>3. result' = Append(result, raw[pos]) /\ pos' = pos + 1
  BY DEF Keep
<1>4. /\ result' \in Seq(Characters) /\ Len(result') = n + 1
      /\ \A k \in 1 .. n : result'[k] = result[k]
      /\ result'[n + 1] = raw[pos]
  BY <1>1, <1>2, <1>3, AppendProperties
<1> QED
  BY <1>1, <1>2, <1>3, <1>4

\* What the literals of a text are after a character that is kept, if it is JSON still.
LEMMA KeptInLiteral ==
    ASSUME ScanInv, ~Scanned, Keep, raw' = raw, IsJson(result')
    PROVE  LET n == Len(result)
               c == raw[pos]
           IN  /\ IsJson(result)
               /\ Inside(result', n + 1) <=> Inside(result, n + 1)
               /\ Escaped(result', n + 1) <=> c = "backslash" /\ ~Escaped(result, n)
               /\ Inside(result', n + 2) <=>
                    IF c = "quote" /\ ~Escaped(result, n) THEN ~Inside(result, n + 1) ELSE Inside(result, n + 1)
               /\ c \in {"apostrophe", "backslash"} => Inside(result, n + 1)
<1> DEFINE n == Len(result)
           c == raw[pos]
<1>1. /\ n \in Nat /\ result' \in Seq(Characters) /\ Len(result') = n + 1 /\ result \in Seq(Characters)
      /\ \A k \in 1 .. n : result'[k] = result[k]
      /\ result'[n + 1] = c
  BY KeepHolds DEF ScanInv, ScanTypes
<1>2. IsJson(result)
  BY <1>1, BeginningIsJson
<1>3. (Inside(result', n + 1) <=> Inside(result, n + 1)) /\ Escaping(result', n + 1) = Escaping(result, n + 1)
  <2>1. \A j \in 1 .. n + 1 : Inside(result', j) <=> Inside(result, j)
    <3> HIDE DEF n
    <3> QED
      BY <1>1, LiteralsAreRead
  <2>2. \A j \in 1 .. n + 1 : Escaping(result', j) = Escaping(result, j)
    <3> HIDE DEF n
    <3> QED
      BY <1>1, LiteralsAreRead
  <2>3. n + 1 \in 1 .. n + 1
    BY <1>1
  <2> QED
    BY <2>1, <2>2, <2>3
<1>4. Escaped(result', n) <=> Escaped(result, n)
  BY <1>3 DEF Escaped
<1>5. /\ Escaped(result', n + 1) <=> result'[n + 1] = "backslash" /\ ~Escaped(result', n)
      /\ Delimits(result', n + 1) <=> result'[n + 1] = "quote" /\ ~Escaped(result', n)
      /\ Inside(result', n + 2) <=> IF Delimits(result', n + 1) THEN ~Inside(result', n + 1) ELSE Inside(result', n + 1)
  BY <1>1, OneMoreCharacter
<1>6. c \in {"apostrophe", "backslash"} => Inside(result', n + 1)
  BY <1>1 DEF IsJson
<1> QED
  BY <1>1, <1>2, <1>3, <1>4, <1>5, <1>6

\* A character that is kept makes no comment with the one before it.
LEMMA KeptMakesNoComment ==
    ASSUME ScanInv, ~Scanned, Keep, raw' = raw, IsJson(result')
    PROVE  HasNoComment(result')
<1> DEFINE n == Len(result)
<1>1. /\ n \in Nat /\ Len(result') = n + 1
      /\ \A k \in 1 .. n : result'[k] = result[k]
      /\ result'[n + 1] = raw[pos]
  BY KeepHolds
<1>2. IsJson(result)
  BY KeptInLiteral
<1>3. /\ KnowsLiteral(result, n, in_string, escape) /\ HasNoComment(result)
      /\ SlashIsAlone(result, n, in_string, pos)
  BY <1>2 DEF ScanInv, Tracks
<1> SUFFICES ASSUME NEW j \in 1 .. n, result'[j] = "slash", result'[j + 1] \in {"slash", "star"}
             PROVE  Inside(result', j)
  BY <1>1 DEF HasNoComment
<1>4. j \in 1 .. n + 1 /\ result[j] = "slash" /\ (Inside(result', j) <=> Inside(result, j))
  <2>1. \A k \in 1 .. n + 1 : Inside(result', k) <=> Inside(result, k)
    <3> HIDE DEF n
    <3> QED
      BY <1>1, LiteralsAreRead
  <2>2. j \in 1 .. n + 1 /\ result[j] = "slash"
    BY <1>1
  <2> QED
    BY <2>1, <2>2
<1>5. CASE j # n
  <2>1. j \in 1 .. n - 1 /\ result'[j + 1] = result[j + 1]
    BY <1>1, <1>5
  <2> QED
    BY <1>3, <1>4, <2>1 DEF HasNoComment
<1>6. CASE j = n
  <2>1. raw[pos] \in {"slash", "star"}
    BY <1>1, <1>6
  <2>2. in_string # NoQuote
    <3>1. pos <= Len(raw) /\ n > 0 /\ result[n] = "slash"
      BY <1>4, <1>6, KeepHolds
    <3> QED
      BY <1>3, <2>1, <3>1 DEF SlashIsAlone
  <2>3. Inside(result, n + 1)
    BY <1>3, <2>2 DEF KnowsLiteral
  <2>4. n - 1 \in Nat /\ n - 1 + 1 = n /\ n - 1 + 2 = n + 1
    BY <1>1, <1>6
  <2>5. /\ Delimits(result, n) => result[n] = "quote"
        /\ Inside(result, n + 1) <=> IF Delimits(result, n) THEN ~Inside(result, n) ELSE Inside(result, n)
    <3> HIDE DEF n
    <3>1. /\ Delimits(result, n - 1 + 1) <=> result[n - 1 + 1] = "quote" /\ ~Escaped(result, n - 1)
          /\ Inside(result, n - 1 + 2) <=> IF Delimits(result, n - 1 + 1) THEN ~Inside(result, n - 1 + 1)
                                           ELSE Inside(result, n - 1 + 1)
      BY <2>4, OneMoreCharacter
    <3> QED
      BY <2>4, <3>1
  <2> QED
    BY <1>4, <1>6, <2>3, <2>5
<1> QED
  BY <1>5, <1>6

\* The cases of the loop that keep a character.
LEMMA KeepTracks ==
    ASSUME ScanInv, InString \/ OpenString \/ Copy PROVE ScanInv'
<1> DEFINE n == Len(result)
           c == raw[pos]
<1>1. ~Scanned /\ Keep /\ raw' = raw
  BY DEF InString, OpenString, Copy
<1>2. /\ n \in Nat /\ result' \in Seq(Characters) /\ Len(result') = n + 1
      /\ result'[n + 1] = c /\ pos \in 1 .. Len(raw) /\ c \in Characters
      /\ pos' = pos + 1 /\ pos' \in Nat \ {0}
  BY <1>1, KeepHolds
<1>3. ScanTypes
  BY DEF ScanInv
<1>4. ScanTypes'
  <2>1. in_string' \in Quotes \cup {NoQuote} /\ escape' \in BOOLEAN
    BY <1>3 DEF ScanTypes, InString, OpenString, Copy, Escapes
  <2> QED
    BY <1>1, <1>2, <1>3, <2>1 DEF ScanTypes
<1>5. ASSUME IsJson(result')
      PROVE  /\ KnowsLiteral(result', n + 1, in_string', escape')
             /\ SlashIsAlone(result', n + 1, in_string', pos')
  <2>1. /\ IsJson(result)
        /\ Escaped(result', n + 1) <=> c = "backslash" /\ ~Escaped(result, n)
        /\ Inside(result', n + 2) <=>
             IF c = "quote" /\ ~Escaped(result, n) THEN ~Inside(result, n + 1) ELSE Inside(result, n + 1)
        /\ c \in {"apostrophe", "backslash"} => Inside(result, n + 1)
    BY <1>1, <1>5, KeptInLiteral
  <2>2. /\ in_string = IF Inside(result, n + 1) THEN "quote" ELSE NoQuote
        /\ escape <=> Escaped(result, n)
        /\ escape => in_string # NoQuote
        /\ "quote" # NoQuote
    BY <2>1 DEF ScanInv, Tracks, KnowsLiteral, NoQuote
  <2>3. n + 1 + 1 = n + 2
    BY <1>2
  <2>4. CASE InString
    <3>1. in_string = "quote" /\ Inside(result, n + 1)
      BY <2>2, <2>4 DEF InString
    <3>2. IF escape THEN escape' = FALSE /\ in_string' = in_string
          ELSE escape' = (c = "backslash") /\ in_string' = IF c = "quote" THEN NoQuote ELSE in_string
      BY <2>4, <3>1 DEF InString, Escapes
    <3>3. CASE escape
      <4>1. ~Escaped(result', n + 1) /\ Inside(result', n + 2) /\ escape' = FALSE /\ in_string' = "quote"
        BY <2>1, <2>2, <3>1, <3>2, <3>3
      <4> QED
        BY <2>2, <2>3, <4>1 DEF KnowsLiteral, SlashIsAlone
    <3>4. CASE ~escape /\ c = "quote"
      <4>1. ~Escaped(result', n + 1) /\ ~Inside(result', n + 2) /\ escape' = FALSE /\ in_string' = NoQuote
        BY <2>1, <2>2, <3>1, <3>2, <3>4
      <4> QED
        BY <1>2, <2>3, <3>4, <4>1 DEF KnowsLiteral, SlashIsAlone
    <3>5. CASE ~escape /\ c # "quote"
      <4>1. /\ Escaped(result', n + 1) <=> c = "backslash"
            /\ Inside(result', n + 2) /\ escape' = (c = "backslash") /\ in_string' = "quote"
        BY <2>1, <2>2, <3>1, <3>2, <3>5
      <4> QED
        BY <2>2, <2>3, <4>1 DEF KnowsLiteral, SlashIsAlone
    <3> QED
      BY <3>3, <3>4, <3>5
  <2>5. CASE OpenString
    <3>1. ~Inside(result, n + 1) /\ ~escape /\ c \in Quotes /\ in_string' = c /\ escape' = escape
      BY <2>2, <2>5 DEF OpenString
    <3>2. c = "quote"
      BY <2>1, <3>1 DEF Quotes
    <3>3. ~Escaped(result', n + 1) /\ Inside(result', n + 2) /\ ~escape' /\ in_string' = "quote"
      BY <2>1, <2>2, <3>1, <3>2
    <3> QED
      BY <2>2, <2>3, <3>3 DEF KnowsLiteral, SlashIsAlone
  <2>6. CASE Copy
    <3>1. /\ ~Inside(result, n + 1) /\ ~escape /\ c \notin Quotes /\ in_string' = NoQuote /\ escape' = escape
          /\ in_string = NoQuote /\ ~Starts("slash") /\ ~Starts("star")
      BY <2>2, <2>6 DEF Copy
    <3>2. c # "quote" /\ c # "backslash"
      BY <2>1, <3>1 DEF Quotes
    <3>3. ~Escaped(result', n + 1) /\ ~Inside(result', n + 2) /\ ~escape'
      BY <2>1, <2>2, <3>1, <3>2
    <3>4. KnowsLiteral(result', n + 1, in_string', escape')
      BY <2>3, <3>1, <3>3 DEF KnowsLiteral
    <3>5. SlashIsAlone(result', n + 1, in_string', pos')
      <4> SUFFICES ASSUME c = "slash", pos + 1 <= Len(raw) PROVE raw[pos + 1] \notin {"slash", "star"}
        BY <1>2 DEF SlashIsAlone
      <4>1. pos < Len(raw) /\ ~Scanned
        BY <1>1, <1>2
      <4> QED
        BY <3>1, <4>1 DEF Starts
    <3> QED
      BY <3>4, <3>5
  <2> QED
    BY <2>4, <2>5, <2>6
<1>6. Tracks'
  <2> SUFFICES ASSUME IsJson(result')
               PROVE  /\ KnowsLiteral(result', n + 1, in_string', escape')
                      /\ HasNoComment(result')
                      /\ SlashIsAlone(result', n + 1, in_string', pos')
    BY <1>1, <1>2 DEF Tracks, SlashIsAlone
  <2> QED
    BY <1>1, <1>5, KeptMakesNoComment
<1> QED
  BY <1>4, <1>6 DEF ScanInv

\* The first of some positions is one of them.
LEMMA FirstHolds ==
    ASSUME NEW P \in SUBSET Nat, P # {}
    PROVE  First(P) \in P
<1>1. \E j \in P : \A k \in P : j <= k
  BY Least
<1> QED
  BY <1>1 DEF First

\* A comment is passed over: it does not follow a slash that was kept.
LEMMA CommentTracks ==
    ASSUME ScanInv, LineComment \/ BlockComment PROVE ScanInv'
<1> DEFINE n == Len(result)
<1>1. /\ ~Scanned /\ in_string = NoQuote /\ raw[pos] = "slash" /\ pos < Len(raw) /\ raw[pos + 1] \in {"slash", "star"}
      /\ raw' = raw /\ result' = result /\ in_string' = in_string /\ escape' = escape
  BY DEF LineComment, BlockComment, Starts
<1>2. /\ raw \in Seq(Characters) /\ result \in Seq(Characters) /\ pos \in Nat \ {0}
      /\ Len(raw) \in Nat /\ n \in Nat
  BY DEF ScanInv, ScanTypes
<1>3. pos' \in Nat \ {0}
  <2>1. CASE LineComment
    <3> DEFINE P == {j \in pos + 2 .. Len(raw) : raw[j] = "newline"} \cup {Len(raw) + 1}
    <3>1. P \in SUBSET Nat /\ P # {} /\ 0 \notin P
      BY <1>2
    <3>2. pos' = First(P)
      BY <2>1 DEF LineComment
    <3> HIDE DEF P
    <3> QED
      BY <3>1, <3>2, FirstHolds
  <2>2. CASE BlockComment
    <3> DEFINE P == {j \in pos + 2 .. Len(raw) - 1 : Closes(j)} \cup {Len(raw)}
    <3>1. P \in SUBSET Nat /\ P # {}
      BY <1>2
    <3>2. pos' = First(P) + 2
      BY <2>2 DEF BlockComment
    <3> HIDE DEF P
    <3>3. First(P) \in Nat
      BY <3>1, FirstHolds
    <3> QED
      BY <3>2, <3>3
  <2> QED
    BY <2>1, <2>2
<1>4. ScanTypes'
  BY <1>1, <1>3 DEF ScanInv, ScanTypes
<1>5. Tracks'
  <2> SUFFICES ASSUME IsJson(result)
               PROVE  /\ KnowsLiteral(result, n, in_string, escape) /\ HasNoComment(result)
                      /\ SlashIsAlone(result, n, in_string, pos')
    BY <1>1 DEF Tracks, SlashIsAlone
  <2>1. /\ KnowsLiteral(result, n, in_string, escape) /\ HasNoComment(result)
        /\ SlashIsAlone(result, n, in_string, pos)
    BY DEF ScanInv, Tracks
  <2>2. ~(n > 0 /\ result[n] = "slash")
    BY <1>1, <1>2, <2>1 DEF SlashIsAlone
  <2> QED
    BY <2>1, <2>2 DEF SlashIsAlone
<1> QED
  BY <1>4, <1>5 DEF ScanInv

LEMMA NextScanInv == ScanInv /\ [ScanNext]_scan => ScanInv'
<1>1. ASSUME ScanInv, UNCHANGED scan PROVE ScanInv'
  <2>1. UNCHANGED <<raw, pos, in_string, escape, result>>
    BY <1>1 DEF scan
  <2> QED
    BY <1>1, <2>1 DEF ScanInv, ScanTypes, Tracks, KnowsLiteral, SlashIsAlone
<1> QED
  BY <1>1, KeepTracks, CommentTracks DEF ScanNext

\* The invariant of the scan holds in every reachable state.
THEOREM ScanInvariance == ScanSpec => []ScanInv
  BY InitScanInv, NextScanInv, PTL DEF ScanSpec

\* What the parser gets has no comment left, of a text of any length: taking one out
\* never joins what it has kept apart.
THEOREM NoCommentIsLeft == ScanSpec => []CommentsAreGone
<1>1. ScanInv => CommentsAreGone
  BY DEF ScanInv, Tracks, CommentsAreGone
<1> QED
  BY <1>1, ScanInvariance, PTL
=============================================================================
