---------------------------- MODULE HmacAuthProofs ----------------------------
(***************************************************************************)
(* The cache of nonces stays within its size, forgets nothing never and    *)
(* nothing too early, for any keys, times to live, sizes and clocks. All   *)
(* rests on one fact: the queue holds each entry of the dictionary once,   *)
(* with its own time, and nothing else. So _prune, which counts the        *)
(* dictionary, empties the queue in vain never; and an item with fewer     *)
(* than max_replay_entries behind it leaves only when it has expired.      *)
(*                                                                         *)
(* Between clients and server the cache goes only through its own steps,   *)
(* so that what is proved of it alone holds there, too; and no nonce       *)
(* counts twice, for any clients, clocks, secrets, sizes and times to      *)
(* live. The argument for the second: a nonce accepted once is fresh,      *)
(* until its frame has left the window, which it does no later than the    *)
(* nonce its time to live, if the frame was not ahead of the clock.        *)
(* And the first honest frame in time is allowed: the cache knows only     *)
(* nonces that were accepted.                                              *)
(***************************************************************************)
EXTENDS HmacAuth, ListsProofs, FiniteSetTheorems

\* Every entry of dictionary e is in queue q with its own time.
Queued(e, q) ==
    \A k \in DOMAIN e : \E i \in 1 .. Len(q) : q[i] = [ts |-> e[k], key |-> k]

\* Every item of queue q is an entry of dictionary e, each of its own.
Tight(e, q) ==
    /\ \A i \in 1 .. Len(q) : q[i].key \in DOMAIN e /\ e[q[i].key] = q[i].ts
    /\ \A i, j \in 1 .. Len(q) : q[i].key = q[j].key => i = j

\* A cache as _prune leaves it.
Sound(e, q) ==
    /\ DOMAIN e \subseteq Keys
    /\ IsFiniteSet(DOMAIN e)
    /\ q \in Seq(Items)
    /\ Queued(e, q)
    /\ Tight(e, q)

\* What is fresh is in the queue, with no more behind it than were added since.
FreshIsQueued ==
    \A k \in DOMAIN fresh :
        /\ k \in Keys
        /\ fresh[k] \in [at : Times, more : 0 .. MaxEntries - 1]
        /\ fresh[k].at + Ttl >= now
        /\ \E i \in 1 .. Len(order) :
              order[i] = [ts |-> fresh[k].at, key |-> k] /\ Len(order) - i <= fresh[k].more

EntriesAreFew == Cardinality(DOMAIN entries) <= MaxEntries

IInv ==
    /\ now \in Times
    /\ Sound(entries, order)
    /\ EntriesAreFew
    /\ FreshIsQueued

\* _prune stops after some number of items, at the latest after the last, and
\* after the first number at which it can.
LEMMA PruneStops ==
    ASSUME NEW e, NEW q \in Seq(Items), NEW t
    PROVE  /\ Pruned(e, q, t) \in 0 .. Len(q)
           /\ Stops(e, q, t, Pruned(e, q, t))
           /\ \A m \in 0 .. Pruned(e, q, t) - 1 : ~Stops(e, q, t, m)
<1> DEFINE T == {n \in 0 .. Len(q) : Stops(e, q, t, n)}
<1>1. Len(q) \in Nat
  OBVIOUS
<1>2. Len(q) \in T
  BY <1>1 DEF Stops
<1>3. PICK n \in T : \A m \in T : n <= m
  <2>1. T \in SUBSET Nat
    BY <1>1
  <2> HIDE DEF T
  <2> QED
    BY <2>1, <1>2, Least
<1>4. n \in 0 .. Len(q) /\ Stops(e, q, t, n)
  BY <1>3
<1>5. \A m \in 0 .. n - 1 : ~Stops(e, q, t, m)
  <2> SUFFICES ASSUME NEW m \in 0 .. n - 1 PROVE ~Stops(e, q, t, m)
    OBVIOUS
  <2>1. m \in 0 .. Len(q)
    BY <1>1, <1>4
  <2> QED
    BY <2>1, <1>3
<1> QED
  BY <1>4, <1>5 DEF Pruned

\* A sound cache has as many entries as its queue has items.
LEMMA OneItemEach ==
    ASSUME NEW e, NEW q, Sound(e, q)
    PROVE  Cardinality(DOMAIN e) = Len(q)
<1> DEFINE f == [i \in 1 .. Len(q) |-> q[i].key]
<1>1. Len(q) \in Nat
  BY DEF Sound
<1>2. f \in Bijection(1 .. Len(q), DOMAIN e)
  <2>1. f \in [1 .. Len(q) -> DOMAIN e]
    BY DEF Sound, Tight
  <2>2. \A i, j \in 1 .. Len(q) : f[i] = f[j] => i = j
    BY DEF Sound, Tight
  <2>3. ASSUME NEW k \in DOMAIN e PROVE \E i \in 1 .. Len(q) : f[i] = k
    <3>1. PICK i \in 1 .. Len(q) : q[i] = [ts |-> e[k], key |-> k]
      BY DEF Sound, Queued
    <3>2. f[i] = k
      BY <3>1
    <3> QED
      BY <3>2
  <2> QED
    BY <2>1, <2>2, <2>3 DEF Bijection, Injection, Surjection, IsInjective
<1>3. IsFiniteSet(1 .. Len(q)) /\ Cardinality(1 .. Len(q)) = Len(q)
  <2>1. \A a, b \in Int : /\ IsFiniteSet(a .. b)
                          /\ Cardinality(a .. b) = IF a > b THEN 0 ELSE b - a + 1
    BY FS_Interval
  <2>2. \A b \in Nat : IsFiniteSet(1 .. b) /\ Cardinality(1 .. b) = b
    <3> SUFFICES ASSUME NEW b \in Nat PROVE IsFiniteSet(1 .. b) /\ Cardinality(1 .. b) = b
      OBVIOUS
    <3>1. IsFiniteSet(1 .. b) /\ Cardinality(1 .. b) = IF 1 > b THEN 0 ELSE b - 1 + 1
      BY <2>1
    <3> QED
      BY <3>1
  <2> QED
    BY <1>1, <2>2
<1> QED
  BY <1>2, <1>3, FS_Bijection DEF ExistsBijection

\* What dropping the first n items leaves of a sound cache is a part of it, and
\* sound.
LEMMA DropKeepsSound ==
    ASSUME NEW e, NEW q, Sound(e, q), NEW n \in 0 .. Len(q)
    PROVE  /\ Sound(Without(e, Dropped(e, q, n)), SubSeq(q, n + 1, Len(q)))
           /\ Len(SubSeq(q, n + 1, Len(q))) = Len(q) - n
           /\ \A i \in 1 .. Len(q) - n : SubSeq(q, n + 1, Len(q))[i] = q[n + i]
<1> DEFINE f == Without(e, Dropped(e, q, n))
           r == SubSeq(q, n + 1, Len(q))
<1>1. n \in Nat /\ n <= Len(q) /\ Len(q) \in Nat /\ q \in Seq(Items)
  BY DEF Sound
<1>2. /\ DOMAIN f = DOMAIN e \ Dropped(e, q, n)
      /\ \A k \in DOMAIN f : f[k] = e[k]
  BY DEF Without
<1>3. /\ DOMAIN f \subseteq Keys
      /\ IsFiniteSet(DOMAIN f)
  BY <1>2, FS_Subset DEF Sound
<1>4. /\ r \in Seq(Items)
      /\ Len(r) = Len(q) - n
      /\ \A i \in 1 .. Len(r) : r[i] = q[n + i]
  <2>1. \A i \in n + 1 .. Len(q) : q[i] \in Items
    BY <1>1, ElementOfSeq
  <2>2. /\ r \in Seq(Items)
        /\ Len(r) = IF n + 1 <= Len(q) THEN Len(q) - (n + 1) + 1 ELSE 0
        /\ \A i \in 1 .. Len(q) - (n + 1) + 1 : r[i] = q[n + 1 + i - 1]
    BY <1>1, <2>1, SubSeqProperties
  <2> QED
    BY <1>1, <2>2
<1> HIDE DEF r, f
<1>5. Queued(f, r)
  <2> SUFFICES ASSUME NEW k \in DOMAIN f
               PROVE  \E i \in 1 .. Len(r) : r[i] = [ts |-> f[k], key |-> k]
    BY DEF Queued
  <2>1. PICK j \in 1 .. Len(q) : q[j] = [ts |-> e[k], key |-> k]
    BY <1>2 DEF Sound, Queued
  <2>2. ~(j \in 1 .. n)
    BY <1>2, <2>1 DEF Dropped
  <2>3. j - n \in 1 .. Len(r) /\ n + (j - n) = j
    BY <1>1, <1>4, <2>1, <2>2
  <2>4. r[j - n] = [ts |-> f[k], key |-> k]
    BY <1>2, <1>4, <2>1, <2>3
  <2> QED
    BY <2>3, <2>4
<1>6. Tight(f, r)
  <2>1. ASSUME NEW i \in 1 .. Len(r)
        PROVE  r[i].key \in DOMAIN f /\ f[r[i].key] = r[i].ts
    <3>1. n + i \in 1 .. Len(q) /\ r[i] = q[n + i]
      BY <1>1, <1>4
    <3>2. q[n + i].key \in DOMAIN e /\ e[q[n + i].key] = q[n + i].ts
      BY <3>1 DEF Sound, Tight
    <3>3. q[n + i].key \notin Dropped(e, q, n)
      <4> SUFFICES ASSUME NEW j \in 1 .. n, q[j].key = q[n + i].key PROVE FALSE
        BY DEF Dropped
      <4>1. j \in 1 .. Len(q) /\ j # n + i
        BY <1>1
      <4> QED
        BY <3>1, <4>1 DEF Sound, Tight
    <3> QED
      BY <1>2, <3>1, <3>2, <3>3
  <2>2. ASSUME NEW i \in 1 .. Len(r), NEW j \in 1 .. Len(r), r[i].key = r[j].key
        PROVE  i = j
    <3>1. /\ n + i \in 1 .. Len(q) /\ r[i] = q[n + i]
          /\ n + j \in 1 .. Len(q) /\ r[j] = q[n + j]
      BY <1>1, <1>4
    <3>2. n + i = n + j
      BY <2>2, <3>1 DEF Sound, Tight
    <3> QED
      BY <1>1, <3>2
  <2> QED
    BY <2>1, <2>2 DEF Tight
<1>7. Sound(f, r)
  BY <1>3, <1>4, <1>5, <1>6 DEF Sound
<1>8. Len(r) = Len(q) - n /\ \A i \in 1 .. Len(q) - n : r[i] = q[n + i]
  BY <1>4
<1> QED
  BY <1>7, <1>8 DEF f, r

\* What _prune leaves of a sound cache is sound, and not too large.
LEMMA PruneKeepsSound ==
    ASSUME NEW e, NEW q, NEW t, Sound(e, q)
    PROVE  /\ Sound(AfterPrune(e, q, t).entries, AfterPrune(e, q, t).order)
           /\ Cardinality(DOMAIN AfterPrune(e, q, t).entries) <= MaxEntries
<1> DEFINE n == Pruned(e, q, t)
           f == Without(e, Dropped(e, q, n))
           r == SubSeq(q, n + 1, Len(q))
<1>1. AfterPrune(e, q, t).entries = f /\ AfterPrune(e, q, t).order = r
  BY DEF AfterPrune
<1>2. n \in 0 .. Len(q) /\ Stops(e, q, t, n) /\ Len(q) \in Nat
  BY PruneStops DEF Sound
<1>3. Sound(f, r) /\ Len(r) = Len(q) - n
  <2> HIDE DEF n
  <2> QED
    BY <1>2, DropKeepsSound
<1>4. Cardinality(DOMAIN f) = Len(r)
  <2> HIDE DEF f, r
  <2> QED
    BY <1>3, OneItemEach
<1>5. Cardinality(DOMAIN f) <= MaxEntries
  <2> HIDE DEF n
  <2>1. CASE n = Len(q)
    BY <1>2, <1>3, <1>4, <2>1, ReplayAssumption
  <2>2. CASE n # Len(q)
    <3>1. ~TooMany(f)
      BY <1>2, <2>2 DEF Stops
    <3> QED
      BY <1>2, <1>3, <1>4, <3>1, ReplayAssumption DEF TooMany
  <2> QED
    BY <2>1, <2>2
<1> QED
  BY <1>1, <1>3, <1>5

\* _prune leaves an item that has not expired and has fewer than MaxEntries
\* behind it; and no more behind it than there were.
LEMMA PruneLeavesFresh ==
    ASSUME NEW e, NEW q, NEW t, Sound(e, q),
           NEW j \in 1 .. Len(q), ~Expired(q[j], t), Len(q) - j < MaxEntries
    PROVE  LET r == AfterPrune(e, q, t).order
           IN  \E i \in 1 .. Len(r) : r[i] = q[j] /\ Len(r) - i = Len(q) - j
<1> DEFINE n == Pruned(e, q, t)
           r == SubSeq(q, n + 1, Len(q))
<1>1. /\ n \in 0 .. Len(q) /\ Len(q) \in Nat /\ j - 1 \in 0 .. Len(q)
      /\ \A m \in 0 .. n - 1 : ~Stops(e, q, t, m)
  BY PruneStops DEF Sound
<1>2. Stops(e, q, t, j - 1)
  <2> DEFINE f == Without(e, Dropped(e, q, j - 1))
             p == SubSeq(q, (j - 1) + 1, Len(q))
  <2>1. Sound(f, p) /\ Len(p) = Len(q) - (j - 1)
    BY <1>1, DropKeepsSound
  <2>2. Cardinality(DOMAIN f) = Len(p)
    <3> HIDE DEF f, p
    <3> QED
      BY <2>1, OneItemEach
  <2>3. Cardinality(DOMAIN f) <= MaxEntries
    <3> HIDE DEF f, p
    <3> QED
      BY <1>1, <2>1, <2>2, ReplayAssumption
  <2>4. ~TooMany(f)
    <3>1. Cardinality(DOMAIN f) \in Nat
      BY <1>1, <2>1, <2>2
    <3> HIDE DEF f
    <3> QED
      BY <2>3, <3>1, ReplayAssumption DEF TooMany
  <2>5. q[(j - 1) + 1] = q[j]
    BY <1>1
  <2> QED
    BY <2>4, <2>5 DEF Stops
<1>3. n <= j - 1
  <2> HIDE DEF n
  <2>1. ~(j - 1 \in 0 .. n - 1)
    BY <1>1, <1>2
  <2> QED
    BY <1>1, <2>1
<1>4. /\ Len(r) = Len(q) - n
      /\ \A i \in 1 .. Len(q) - n : r[i] = q[n + i]
  <2> HIDE DEF n
  <2> QED
    BY ZenonT(60), <1>1, DropKeepsSound
<1>5. /\ j - n \in 1 .. Len(r)
      /\ r[j - n] = q[j]
      /\ Len(r) - (j - n) = Len(q) - j
  <2> HIDE DEF n, r
  <2>1. j - n \in 1 .. Len(q) - n /\ n + (j - n) = j
    BY <1>1, <1>3
  <2> QED
    BY <1>1, <1>3, <1>4, <2>1
<1> QED
  BY <1>5 DEF AfterPrune

\* Times are numbers.
LEMMA TimesAreNumbers == Times \subseteq Int
BY ReplayAssumption DEF Times

\* The cache between entering a key and pruning.
Entered(c, key, t) == [k \in DOMAIN c.entries \cup {key} |-> IF k = key THEN t ELSE c.entries[k]]
Longer(c, key, t) == Append(c.order, [ts |-> t, key |-> key])

\* Entering a new key leaves a sound cache, with one more item in the queue.
LEMMA EnterKeepsSound ==
    ASSUME NEW c, NEW key \in Keys, NEW t \in Times, Sound(c.entries, c.order),
           ~Seen(c, key)
    PROVE  /\ Sound(Entered(c, key, t), Longer(c, key, t))
           /\ Len(Longer(c, key, t)) = Len(c.order) + 1
           /\ \A i \in 1 .. Len(c.order) : Longer(c, key, t)[i] = c.order[i]
           /\ Longer(c, key, t)[Len(c.order) + 1] = [ts |-> t, key |-> key]
<1> DEFINE e == Entered(c, key, t)
           q == Longer(c, key, t)
<1>1. DOMAIN e \subseteq Keys /\ IsFiniteSet(DOMAIN e)
  BY FS_AddElement DEF Sound, Entered
<1>2. [ts |-> t, key |-> key] \in Items /\ c.order \in Seq(Items)
  BY DEF Items, Sound
<1>3. /\ q \in Seq(Items)
      /\ Len(q) = Len(c.order) + 1
      /\ Len(c.order) \in Nat
      /\ \A i \in 1 .. Len(c.order) : q[i] = c.order[i]
      /\ q[Len(c.order) + 1] = [ts |-> t, key |-> key]
  BY <1>2, AppendProperties DEF Longer
<1>4. DOMAIN e = DOMAIN c.entries \cup {key}
  BY DEF Entered
<1>5. \A k \in DOMAIN e : e[k] = IF k = key THEN t ELSE c.entries[k]
  BY DEF Entered
<1> HIDE DEF e, q
<1>6. Queued(e, q)
  <2> SUFFICES ASSUME NEW k \in DOMAIN e
               PROVE  \E i \in 1 .. Len(q) : q[i] = [ts |-> e[k], key |-> k]
    BY DEF Queued
  <2>1. CASE k = key
    BY <1>3, <1>5, <2>1
  <2>2. CASE k # key
    <3>1. PICK i \in 1 .. Len(c.order) : c.order[i] = [ts |-> c.entries[k], key |-> k]
      BY <1>4, <2>2 DEF Sound, Queued
    <3>2. i \in 1 .. Len(q) /\ q[i] = c.order[i]
      BY <1>3
    <3> QED
      BY <1>5, <2>2, <3>1, <3>2
  <2> QED
    BY <2>1, <2>2
<1>7. Tight(e, q)
  <2>1. \A i \in 1 .. Len(c.order) :
           /\ c.order[i].key \in DOMAIN c.entries
           /\ c.entries[c.order[i].key] = c.order[i].ts
           /\ c.order[i].key # key
    BY DEF Sound, Tight, Seen
  <2>2. ASSUME NEW i \in 1 .. Len(q)
        PROVE  q[i].key \in DOMAIN e /\ e[q[i].key] = q[i].ts
    <3>1. CASE i = Len(c.order) + 1
      BY <1>3, <1>4, <1>5, <3>1
    <3>2. CASE i # Len(c.order) + 1
      <4>1. i \in 1 .. Len(c.order)
        BY <1>3, <3>2
      <4> QED
        BY <1>3, <1>4, <1>5, <2>1, <4>1
    <3> QED
      BY <3>1, <3>2
  <2>3. ASSUME NEW i \in 1 .. Len(q), NEW j \in 1 .. Len(q), q[i].key = q[j].key
        PROVE  i = j
    <3>1. /\ i \in 1 .. Len(c.order) \/ i = Len(c.order) + 1
          /\ j \in 1 .. Len(c.order) \/ j = Len(c.order) + 1
      BY <1>3
    <3>2. q[Len(c.order) + 1].key = key
      BY <1>3
    <3>3. CASE i \in 1 .. Len(c.order) /\ j \in 1 .. Len(c.order)
      BY <1>3, <2>3, <3>3 DEF Sound, Tight
    <3> QED
      BY <1>3, <2>1, <2>3, <3>1, <3>2, <3>3
  <2> QED
    BY <2>2, <2>3 DEF Tight
<1>8. Sound(e, q)
  BY <1>1, <1>3, <1>6, <1>7 DEF Sound
<1> QED
  BY <1>3, <1>8 DEF e, q

\* An empty cache is sound.
LEMMA InitIInv == Init => IInv
<1> SUFFICES ASSUME Init PROVE IInv
  OBVIOUS
<1>1. DOMAIN entries = {} /\ DOMAIN fresh = {}
  BY DEF Init
<1>2. order = <<>> /\ Len(order) = 0
  BY DEF Init
<1>3. Sound(entries, order)
  BY <1>1, <1>2, FS_EmptySet DEF Sound, Queued, Tight
<1> QED
  BY <1>1, <1>3, FS_EmptySet, ReplayAssumption DEF Init, IInv, EntriesAreFew, FreshIsQueued

\* After pruning, what was fresh is still in the queue.
LEMMA PruneKeepsFresh ==
    ASSUME IInv, NEW k \in DOMAIN fresh
    PROVE  LET q == AfterPrune(entries, order, now).order
           IN  \E i \in 1 .. Len(q) :
                  q[i] = [ts |-> fresh[k].at, key |-> k] /\ Len(q) - i <= fresh[k].more
<1>1. /\ fresh[k].at \in Times /\ fresh[k].at + Ttl >= now
      /\ fresh[k].more \in 0 .. MaxEntries - 1
  BY DEF IInv, FreshIsQueued
<1>2. PICK j \in 1 .. Len(order) :
         order[j] = [ts |-> fresh[k].at, key |-> k] /\ Len(order) - j <= fresh[k].more
  BY DEF IInv, FreshIsQueued
<1>3. now \in Int /\ fresh[k].at \in Int /\ Len(order) \in Nat /\ Ttl \in Nat /\ MaxEntries \in Nat
  BY <1>1, ReplayAssumption DEF IInv, Times, Sound
<1>4. ~Expired(order[j], now)
  BY <1>1, <1>2, <1>3 DEF Expired
<1>5. Len(order) - j < MaxEntries
  BY <1>1, <1>2, <1>3
<1>6. Sound(entries, order)
  BY DEF IInv
<1> DEFINE q == AfterPrune(entries, order, now).order
<1>7. PICK i \in 1 .. Len(q) : q[i] = order[j] /\ Len(q) - i = Len(order) - j
  BY <1>4, <1>5, <1>6, PruneLeavesFresh
<1> QED
  BY <1>2, <1>7

\* Every step keeps the cache sound and within its size, and what is fresh in it.
LEMMA NextIInv == ASSUME IInv, [Next]_vars PROVE IInv'
<1>1. ASSUME NEW key \in Keys, NEW ts \in Times, Refuse(key, ts) PROVE IInv'
  <2>1. /\ entries' = AfterPrune(entries, order, now).entries
        /\ order' = AfterPrune(entries, order, now).order
        /\ now' = now /\ fresh' = fresh
    BY <1>1 DEF Refuse, Becomes
  <2>2. Sound(entries', order') /\ EntriesAreFew'
    BY <2>1, PruneKeepsSound DEF IInv, EntriesAreFew
  <2>3. FreshIsQueued'
    BY <2>1, PruneKeepsFresh DEF FreshIsQueued, IInv
  <2> QED
    BY <2>1, <2>2, <2>3 DEF IInv
<1>2. ASSUME NEW key \in Keys, NEW ts \in Times, Accept(key, ts) PROVE IInv'
  <2> DEFINE c == AfterPrune(entries, order, now)
             e == Entered(c, key, now)
             q == Longer(c, key, now)
  <2>1. Sound(c.entries, c.order) /\ now \in Times
    BY PruneKeepsSound DEF IInv
  <2>2. /\ entries' = AfterPrune(e, q, now).entries
        /\ order' = AfterPrune(e, q, now).order
        /\ now' = now /\ ~Seen(c, key)
    BY <1>2 DEF Accept, Becomes, AfterAdd, Entered, Longer
  <2>3. \A k \in DOMAIN fresh : \E i \in 1 .. Len(c.order) :
           c.order[i] = [ts |-> fresh[k].at, key |-> k] /\ Len(c.order) - i <= fresh[k].more
    BY PruneKeepsFresh
  <2> HIDE DEF c
  <2>4. /\ Sound(e, q)
        /\ Len(q) = Len(c.order) + 1
        /\ \A i \in 1 .. Len(c.order) : q[i] = c.order[i]
        /\ q[Len(c.order) + 1] = [ts |-> now, key |-> key]
    BY <2>1, <2>2, EnterKeepsSound
  <2> HIDE DEF e, q
  <2>5. Sound(entries', order') /\ EntriesAreFew'
    BY <2>2, <2>4, PruneKeepsSound DEF EntriesAreFew
  <2>6. FreshIsQueued'
    <3> SUFFICES ASSUME NEW k \in DOMAIN fresh'
                 PROVE  /\ k \in Keys
                        /\ fresh'[k] \in [at : Times, more : 0 .. MaxEntries - 1]
                        /\ fresh'[k].at + Ttl >= now
                        /\ \E i \in 1 .. Len(order') :
                              /\ order'[i] = [ts |-> fresh'[k].at, key |-> k]
                              /\ Len(order') - i <= fresh'[k].more
      BY <2>2 DEF FreshIsQueued
    <3>1. /\ k \in Keys
          /\ fresh'[k] \in [at : Times, more : 0 .. MaxEntries - 1]
          /\ fresh'[k].at + Ttl >= now
          /\ \E i \in 1 .. Len(q) :
                q[i] = [ts |-> fresh'[k].at, key |-> k] /\ Len(q) - i <= fresh'[k].more
      <4>1. CASE k = key
        <5>1. fresh'[k] = [at |-> now, more |-> 0] /\ MaxEntries > 0
          <6>1. k \in DOMAIN fresh => fresh[k].more \in 0 .. MaxEntries - 1
            BY DEF IInv, FreshIsQueued
          <6>2. \/ MaxEntries > 0
                \/ k \in DOMAIN fresh
            BY <1>2 DEF Accept
          <6>3. fresh'[k] = [at |-> now, more |-> 0]
            BY <1>2, <4>1 DEF Accept
          <6> QED
            BY <6>1, <6>2, <6>3, ReplayAssumption
        <5>2. now \in Int /\ Len(c.order) \in Nat /\ Ttl \in Nat /\ MaxEntries \in Nat
          BY <2>1, ReplayAssumption DEF Times, Sound
        <5>3. Len(c.order) + 1 \in 1 .. Len(q) /\ Len(q) - (Len(c.order) + 1) = 0
          BY <2>4, <5>2
        <5> QED
          BY <2>1, <2>4, <4>1, <5>1, <5>2, <5>3
      <4>2. CASE k # key
        <5>1. /\ k \in DOMAIN fresh /\ fresh[k].more + 1 < MaxEntries
              /\ fresh'[k] = [fresh[k] EXCEPT !.more = @ + 1]
          BY <1>2, <4>2 DEF Accept
        <5>2. /\ k \in Keys
              /\ fresh[k] \in [at : Times, more : 0 .. MaxEntries - 1]
              /\ fresh[k].at + Ttl >= now
          BY <5>1 DEF IInv, FreshIsQueued
        <5>3. fresh'[k] = [at |-> fresh[k].at, more |-> fresh[k].more + 1]
          BY <5>1, <5>2
        <5>4. PICK i \in 1 .. Len(c.order) :
                 c.order[i] = [ts |-> fresh[k].at, key |-> k] /\ Len(c.order) - i <= fresh[k].more
          BY <2>3, <5>1
        <5>5. Len(c.order) \in Nat /\ MaxEntries \in Nat
          BY <2>1, ReplayAssumption DEF Sound
        <5>6. i \in 1 .. Len(q) /\ Len(q) - i <= fresh[k].more + 1
          BY <2>4, <5>2, <5>4, <5>5
        <5>7. fresh[k].more + 1 \in 0 .. MaxEntries - 1
          BY <5>1, <5>2, <5>5
        <5> QED
          BY SMTT(30), <2>4, <5>2, <5>3, <5>4, <5>6, <5>7
      <4> QED
        BY <4>1, <4>2
    <3>2. PICK j \in 1 .. Len(q) :
             q[j] = [ts |-> fresh'[k].at, key |-> k] /\ Len(q) - j <= fresh'[k].more
      BY <3>1
    <3>3. /\ now \in Int /\ fresh'[k].at \in Int /\ Len(q) \in Nat
          /\ Ttl \in Nat /\ MaxEntries \in Nat
      BY <2>1, <2>4, <3>1, ReplayAssumption DEF Times, Sound
    <3>4. ~Expired(q[j], now) /\ Len(q) - j < MaxEntries
      BY <3>1, <3>2, <3>3 DEF Expired
    <3>5. \E i \in 1 .. Len(AfterPrune(e, q, now).order) :
             /\ AfterPrune(e, q, now).order[i] = q[j]
             /\ Len(AfterPrune(e, q, now).order) - i = Len(q) - j
      <4>1. Sound(e, q)
        BY <2>4
      <4> QED
        BY <3>4, <4>1, PruneLeavesFresh
    <3> QED
      BY <2>2, <3>1, <3>2, <3>5
  <2> QED
    BY <2>1, <2>2, <2>5, <2>6 DEF IInv
<1>3. CASE Tick
  <2>1. /\ now' = now + 1 /\ now' \in Times
        /\ entries' = entries /\ order' = order
        /\ DOMAIN fresh' = {k \in DOMAIN fresh : ~(fresh[k].at + Ttl < now')}
        /\ \A k \in DOMAIN fresh' : fresh'[k] = fresh[k]
    BY <1>3 DEF Tick, Without
  <2>2. FreshIsQueued'
    <3> SUFFICES ASSUME NEW k \in DOMAIN fresh' PROVE fresh'[k].at + Ttl >= now'
      BY <2>1 DEF IInv, FreshIsQueued
    <3>1. k \in DOMAIN fresh /\ ~(fresh[k].at + Ttl < now') /\ fresh'[k] = fresh[k]
      BY <2>1
    <3>2. fresh[k].at \in Times
      BY <3>1 DEF IInv, FreshIsQueued
    <3>3. fresh[k].at \in Int /\ now' \in Int /\ Ttl \in Int
      BY <2>1, <3>2, TimesAreNumbers, ReplayAssumption
    <3> QED
      BY <3>1, <3>3
  <2> QED
    BY <2>1, <2>2 DEF IInv, EntriesAreFew
<1>4. CASE SetBack
  <2>1. /\ now' \in Times /\ now' <= now
        /\ entries' = entries /\ order' = order /\ fresh' = fresh
    BY <1>4, ReplayAssumption DEF SetBack, IInv, Times
  <2>2. FreshIsQueued'
    <3> SUFFICES ASSUME NEW k \in DOMAIN fresh PROVE fresh[k].at + Ttl >= now'
      BY <2>1 DEF IInv, FreshIsQueued
    <3>1. fresh[k].at \in Times /\ fresh[k].at + Ttl >= now /\ now \in Times
      BY DEF IInv, FreshIsQueued
    <3>2. fresh[k].at \in Int /\ now \in Int
      BY <3>1, TimesAreNumbers
    <3>3. now' \in Int /\ Ttl \in Int
      BY <2>1, TimesAreNumbers, ReplayAssumption
    <3> QED
      BY <2>1, <3>1, <3>2, <3>3
  <2> QED
    BY <2>1, <2>2 DEF IInv, EntriesAreFew
<1>5. CASE UNCHANGED vars
  BY <1>5 DEF vars, IInv, EntriesAreFew, FreshIsQueued
<1> QED
  BY <1>1, <1>2, <1>3, <1>4, <1>5 DEF Next

\* The strengthened invariant holds in every reachable state.
THEOREM Invariance == Spec => []IInv
BY InitIInv, NextIInv, PTL DEF Spec

\* Every variable of the cache has its type.
THEOREM TypeCorrect == Spec => []TypeOK
<1>1. IInv => TypeOK
  <2> SUFFICES ASSUME IInv PROVE TypeOK
    OBVIOUS
  <2>1. ASSUME NEW k \in DOMAIN entries PROVE entries[k] \in Times
    <3>1. PICK i \in 1 .. Len(order) : order[i] = [ts |-> entries[k], key |-> k]
      BY DEF IInv, Sound, Queued
    <3>2. order[i] \in Items
      BY ElementOfSeq DEF IInv, Sound
    <3> QED
      BY <3>1, <3>2 DEF Items
  <2> QED
    BY <2>1 DEF IInv, TypeOK, Sound, FreshIsQueued
<1> QED
  BY <1>1, Invariance, PTL

\* The cache never holds more entries than max_replay_entries, and its queue, that
\* nothing counts, is as long as the dictionary is large.
THEOREM CacheStaysBounded == Spec => []CacheIsBounded
<1>1. IInv => CacheIsBounded
  BY OneItemEach DEF IInv, EntriesAreFew, CacheIsBounded
<1> QED
  BY <1>1, Invariance, PTL

\* _prune can reach every entry: none is kept for ever.
THEOREM EntriesStayQueued == Spec => []EntriesAreQueued
<1>1. IInv => EntriesAreQueued
  BY DEF IInv, Sound, Queued, EntriesAreQueued
<1> QED
  BY <1>1, Invariance, PTL

\* What is fresh is found in the cache.
LEMMA FreshIsFound ==
    ASSUME IInv, NEW k \in DOMAIN fresh
    PROVE  Seen(AfterPrune(entries, order, now), k)
<1> DEFINE c == AfterPrune(entries, order, now)
<1>1. PICK i \in 1 .. Len(c.order) : c.order[i] = [ts |-> fresh[k].at, key |-> k]
  BY PruneKeepsFresh
<1>2. Sound(c.entries, c.order)
  BY PruneKeepsSound DEF IInv
<1> HIDE DEF c
<1>3. c.order[i].key = k /\ c.order[i].key \in DOMAIN c.entries
  BY <1>1, <1>2 DEF Sound, Tight
<1> QED
  BY <1>3 DEF Seen, c

\* A nonce accepted less than a time to live ago, and followed by fewer others
\* than the cache holds, is known to the next call.
THEOREM FreshStaysSeen == Spec => []FreshIsSeen
<1>1. IInv => FreshIsSeen
  BY FreshIsFound DEF FreshIsSeen
<1> QED
  BY <1>1, Invariance, PTL

-----------------------------------------------------------------------------
(* Clients and server.                                                       *)

\* Every frame that was sent carries a time the clock can show.
SentHaveTimes ==
    \A k \in DOMAIN sent : k \in Keys /\ sent[k].ts \in Times

Histories == [times : 0 .. 2, ahead : BOOLEAN, others : 0 .. MaxEntries, back : BOOLEAN]

\* None of what may let a nonce count twice has happened to k.
Undisturbed(k) ==
    past[k].times > 0 /\ ~past[k].ahead /\ ~past[k].back /\ past[k].others < MaxEntries

\* Such a nonce is fresh, or its frame has left the window.
Guarded(k) ==
    /\ k \in DOMAIN sent
    /\ \/ /\ k \in DOMAIN fresh
          /\ fresh[k].at >= sent[k].ts
          /\ fresh[k].more = past[k].others
       \/ sent[k].ts + Ttl < now

HInv ==
    /\ IInv
    /\ SentHaveTimes
    /\ past \in [Keys -> Histories]
    /\ \A k \in Keys : past[k].times > 1 => ~Undisturbed(k)
    /\ \A k \in Keys : Undisturbed(k) => Guarded(k)

-----------------------------------------------------------------------------
\* The initial states of the whole are those of the cache.
LEMMA InitHInv == HInit => Init /\ HInv
<1> SUFFICES ASSUME HInit PROVE Init /\ HInv
  OBVIOUS
<1>1. Init /\ IInv
  BY InitIInv DEF HInit
<1>2. DOMAIN sent = {}
  BY DEF HInit
<1>3. /\ past \in [Keys -> Histories]
      /\ \A k \in Keys : past[k].times = 0
  BY ReplayAssumption DEF HInit, Histories
<1> QED
  BY <1>1, <1>2, <1>3 DEF HInv, SentHaveTimes, Undisturbed

\* Every step is one of the cache, or leaves it alone.
LEMMA StepsOfTheCache == ASSUME SentHaveTimes, [HNext]_hmacVars PROVE [Next]_vars
<1>1. CASE Clock
  BY <1>1 DEF Clock, Next
<1>2. ASSUME NEW r \in Readers, Rotate(r) PROVE UNCHANGED vars
  BY <1>2 DEF Rotate
<1>3. ASSUME NEW c \in Clients, Sign(c) \/ Restart(c) PROVE UNCHANGED vars
  BY <1>3 DEF Sign, Restart
<1>4. ASSUME NEW k \in Keys, Authenticate(k) PROVE Next
  <2>1. sent[k].ts \in Times
    BY <1>4 DEF Authenticate, SentHaveTimes
  <2>2. Accept(k, sent[k].ts) \/ Refuse(k, sent[k].ts)
    BY <1>4 DEF Authenticate
  <2> QED
    BY <2>1, <2>2 DEF Next
<1>5. CASE UNCHANGED hmacVars
  BY <1>5 DEF hmacVars
<1> QED
  BY <1>1, <1>2, <1>3, <1>4, <1>5 DEF HNext

\* Frames keep the time they were sent with.
LEMMA SentIsKept ==
    ASSUME SentHaveTimes, [HNext]_hmacVars
    PROVE  /\ SentHaveTimes'
           /\ \A k \in DOMAIN sent : k \in DOMAIN sent' /\ sent'[k] = sent[k]
<1>1. ASSUME NEW c \in Clients, Sign(c)
      PROVE  /\ SentHaveTimes'
             /\ \A k \in DOMAIN sent : k \in DOMAIN sent' /\ sent'[k] = sent[k]
  <2> DEFINE frame == [ts |-> now + Skew[c], kid |-> Kid[c], by |-> SignsWith[c],
                       value |-> Resolve(<<c, SignsWith[c]>>)]
  <2>1. /\ now + Skew[c] \in Times
        /\ sent' = [k \in DOMAIN sent \cup {NextKey} |->
                      IF k \in DOMAIN sent THEN sent[k] ELSE frame]
    BY <1>1 DEF Sign
  <2>2. NextKey \in Keys
    BY <1>1 DEF Sign, NextKey, Unused
  <2>3. frame.ts = now + Skew[c]
    OBVIOUS
  <2> HIDE DEF frame
  <2>4. \A k \in DOMAIN sent : k \in DOMAIN sent' /\ sent'[k] = sent[k]
    BY <2>1
  <2>5. ASSUME NEW k \in DOMAIN sent' PROVE k \in Keys /\ sent'[k].ts \in Times
    BY <2>1, <2>2, <2>3 DEF SentHaveTimes
  <2> QED
    BY <2>4, <2>5 DEF SentHaveTimes
<1>2. ASSUME UNCHANGED sent
      PROVE  /\ SentHaveTimes'
             /\ \A k \in DOMAIN sent : k \in DOMAIN sent' /\ sent'[k] = sent[k]
  BY <1>2 DEF SentHaveTimes
<1> QED
  BY <1>1, <1>2 DEF HNext, Clock, Rotate, Restart, Authenticate, hmacVars

\* What an accepted nonce does to the others that are guarded, and to itself.
LEMMA AcceptKeepsGuard ==
    ASSUME HInv, NEW key \in Keys, key \in DOMAIN sent, ~Known(key),
           Accept(key, sent[key].ts), Note(key, sent[key].ts), sent' = sent,
           NEW k \in Keys, Undisturbed(k)'
    PROVE  Guarded(k)' /\ past'[k].times = 1
<1>1. /\ past \in [Keys -> Histories] /\ past[k] \in Histories
      /\ sent[key].ts \in Times /\ now \in Times /\ now' = now
      /\ MaxEntries \in Nat /\ Ttl \in Nat
  BY ReplayAssumption DEF HInv, SentHaveTimes, IInv, Accept
<1>2. /\ now \in Int /\ sent[key].ts \in Int
  BY <1>1, TimesAreNumbers
<1>3. CASE k = key
  <2>1. ~Undisturbed(key)
    <3> SUFFICES ASSUME Undisturbed(key) PROVE FALSE
      OBVIOUS
    <3>1. Guarded(key)
      BY DEF HInv
    <3>2. key \notin DOMAIN fresh
      BY FreshIsFound DEF HInv, Known
    <3>3. ~(sent[key].ts + Ttl < now)
      BY <1>1, <1>2 DEF Accept, InWindow
    <3> QED
      BY <3>1, <3>2, <3>3 DEF Guarded
  <2>2. past'[key] = IF past[key].times = 0
                     THEN [times |-> 1, ahead |-> sent[key].ts > now, others |-> 0, back |-> FALSE]
                     ELSE [past[key] EXCEPT !.times = 2]
    BY DEF Note
  <2>3. past[key].times = 0
    <3>1. ASSUME past[key].times # 0 PROVE FALSE
      <4>1. past'[key] = [past[key] EXCEPT !.times = 2]
        BY <2>2, <3>1
      <4> QED
        BY <1>1, <1>3, <2>1, <3>1, <4>1 DEF Undisturbed, Histories
    <3> QED
      BY <3>1
  <2>4. /\ past'[key].times = 1 /\ past'[key].others = 0
        /\ ~(sent[key].ts > now) /\ MaxEntries > 0
    <3>1. past'[key] = [times |-> 1, ahead |-> sent[key].ts > now, others |-> 0, back |-> FALSE]
      BY <2>2, <2>3
    <3>2. /\ past'[key].times = 1 /\ past'[key].others = 0
          /\ past'[key].ahead = (sent[key].ts > now)
      BY <3>1
    <3>3. past'[key].others < MaxEntries /\ ~past'[key].ahead
      BY <1>3 DEF Undisturbed
    <3>4. ~(sent[key].ts > now)
      BY <3>2, <3>3
    <3>5. MaxEntries > 0
      BY <1>1, <3>2, <3>3
    <3> QED
      BY <3>2, <3>4, <3>5
  <2>5. key \in DOMAIN fresh' /\ fresh'[key] = [at |-> now, more |-> 0]
    BY <2>4 DEF Accept
  <2> QED
    BY <1>1, <1>2, <1>3, <2>4, <2>5 DEF Guarded
<1>4. CASE k # key
  <2>1. past'[k] = IF k \in Accepted /\ past[k].others < MaxEntries
                   THEN [past[k] EXCEPT !.others = @ + 1] ELSE past[k]
    BY <1>4 DEF Note
  <2>2. past'[k] = [past[k] EXCEPT !.others = @ + 1] /\ Undisturbed(k)
        /\ past'[k].times = past[k].times /\ past'[k].others = past[k].others + 1
        /\ past[k].others + 1 < MaxEntries
    BY <1>1, <2>1 DEF Undisturbed, Accepted, Histories
  <2>3. Guarded(k) /\ ~(past[k].times > 1) /\ past[k].times > 0
    BY <2>2 DEF HInv, Undisturbed
  <2>4. past'[k].times = 1
    BY <1>1, <2>2, <2>3 DEF Histories
  <2>5. ASSUME k \in DOMAIN fresh, fresh[k].at >= sent[k].ts, fresh[k].more = past[k].others
        PROVE  /\ k \in DOMAIN fresh'
               /\ fresh'[k].at >= sent[k].ts
               /\ fresh'[k].more = past'[k].others
    <3>1. /\ k \in DOMAIN fresh'
          /\ fresh'[k] = [fresh[k] EXCEPT !.more = @ + 1]
      BY <1>1, <1>4, <2>2, <2>5 DEF Accept
    <3>2. fresh[k] \in [at : Times, more : 0 .. MaxEntries - 1]
      BY <2>5 DEF HInv, IInv, FreshIsQueued
    <3>3. fresh'[k] = [at |-> fresh[k].at, more |-> fresh[k].more + 1]
      BY <3>1, <3>2
    <3> QED
      BY <2>2, <2>5, <3>1, <3>3
  <2> QED
    BY <1>1, <2>3, <2>4, <2>5 DEF Guarded
<1> QED
  BY <1>3, <1>4

\* Without an acceptance of its own, a guarded nonce stays guarded while the
\* cache is pruned and the clock runs on.
LEMMA OthersKeepGuard ==
    ASSUME HInv, NEW k \in Keys, Guarded(k), SentHaveTimes',
           k \in DOMAIN sent', sent'[k] = sent[k], past'[k].others = past[k].others,
           \/ UNCHANGED <<now, fresh>>
           \/ Tick
    PROVE  Guarded(k)'
<1>1. CASE UNCHANGED <<now, fresh>>
  BY <1>1 DEF Guarded
<1>2. CASE Tick
  <2>1. /\ now' = now + 1
        /\ DOMAIN fresh' = {j \in DOMAIN fresh : ~(fresh[j].at + Ttl < now')}
        /\ \A j \in DOMAIN fresh' : fresh'[j] = fresh[j]
    BY <1>2 DEF Tick, Without
  <2>2. now \in Int /\ sent[k].ts \in Int /\ Ttl \in Int
    BY TimesAreNumbers, ReplayAssumption DEF HInv, IInv, SentHaveTimes, Guarded
  <2>3. CASE sent[k].ts + Ttl < now
    BY <2>1, <2>2, <2>3 DEF Guarded
  <2>4. CASE k \in DOMAIN fresh /\ fresh[k].at >= sent[k].ts /\ fresh[k].more = past[k].others
    <3>1. fresh[k].at \in Times
      BY <2>4 DEF HInv, IInv, FreshIsQueued
    <3>2. fresh[k].at \in Int
      BY <3>1, TimesAreNumbers
    <3>3. CASE fresh[k].at + Ttl < now'
      BY <2>1, <2>2, <2>4, <3>2, <3>3 DEF Guarded
    <3>4. CASE ~(fresh[k].at + Ttl < now')
      BY <2>1, <2>4, <3>4 DEF Guarded
    <3> QED
      BY <3>3, <3>4
  <2> QED
    BY <2>3, <2>4 DEF Guarded
<1> QED
  BY <1>1, <1>2

\* What HInv says of the histories is kept where they do not change and the
\* clock is not set back.
LEMMA SamePastKeeps ==
    ASSUME HInv, SentHaveTimes', IInv', UNCHANGED past,
           \A k \in DOMAIN sent : k \in DOMAIN sent' /\ sent'[k] = sent[k],
           \/ UNCHANGED <<now, fresh>>
           \/ Tick
    PROVE  HInv'
<1>1. ASSUME NEW k \in Keys, Undisturbed(k)' PROVE Guarded(k)'
  <2>1. Undisturbed(k)
    BY <1>1 DEF Undisturbed
  <2>2. Guarded(k)
    BY <2>1 DEF HInv
  <2>3. k \in DOMAIN sent' /\ sent'[k] = sent[k]
    BY <2>2 DEF Guarded
  <2> QED
    BY <2>2, <2>3, OthersKeepGuard
<1> QED
  BY <1>1 DEF HInv, Undisturbed

\* Every step keeps the guard.
LEMMA NextHInv == ASSUME HInv, [HNext]_hmacVars PROVE HInv'
<1>1. SentHaveTimes /\ IInv
  BY DEF HInv
<1>2. [Next]_vars
  BY <1>1, StepsOfTheCache
<1>3. IInv'
  BY <1>1, <1>2, NextIInv
<1>4. /\ SentHaveTimes'
      /\ \A k \in DOMAIN sent : k \in DOMAIN sent' /\ sent'[k] = sent[k]
  BY <1>1, SentIsKept
<1>5. CASE Tick /\ UNCHANGED past
  BY <1>3, <1>4, <1>5, SamePastKeeps
<1>6. ASSUME past' = [k \in Keys |-> [past[k] EXCEPT !.back = @ \/ k \in Accepted]]
      PROVE  HInv'
  <2>1. ASSUME NEW k \in Keys
        PROVE  /\ past'[k] \in Histories
               /\ past'[k].times = past[k].times /\ past'[k].others = past[k].others
               /\ ~Undisturbed(k)'
    <3>1. past[k] \in Histories
      BY DEF HInv
    <3>2. past'[k] = [past[k] EXCEPT !.back = @ \/ k \in Accepted]
      BY <1>6
    <3>3. /\ past'[k] \in Histories
          /\ past'[k].times = past[k].times /\ past'[k].others = past[k].others
          /\ past'[k].back = (past[k].back \/ k \in Accepted)
      BY <3>1, <3>2 DEF Histories
    <3>4. ~Undisturbed(k)'
      BY <3>3 DEF Undisturbed, Accepted
    <3> QED
      BY <3>3, <3>4
  <2>2. past' \in [Keys -> Histories]
    BY <1>6, <2>1
  <2> QED
    BY <1>3, <1>4, <2>1, <2>2 DEF HInv
<1>7. ASSUME UNCHANGED <<vars, past>> PROVE HInv'
  BY <1>3, <1>4, <1>7, SamePastKeeps DEF vars
<1>8. ASSUME NEW key \in Keys, Authenticate(key) PROVE HInv'
  <2>1. CASE /\ Refuse(key, sent[key].ts)
             /\ UNCHANGED past
    BY <1>3, <1>4, <2>1, SamePastKeeps DEF Refuse
  <2>2. CASE /\ ~Known(key)
             /\ Accept(key, sent[key].ts)
             /\ Note(key, sent[key].ts)
    <3>1. key \in DOMAIN sent /\ sent' = sent
      BY <1>8 DEF Authenticate
    <3>2. ASSUME NEW k \in Keys
          PROVE  past'[k] \in Histories
      <4>1. past[k] \in Histories /\ MaxEntries \in Nat
        BY ReplayAssumption DEF HInv
      <4>2. past'[k] =
              IF k = key /\ past[k].times = 0
              THEN [times |-> 1, ahead |-> sent[key].ts > now, others |-> 0, back |-> FALSE]
              ELSE IF k = key THEN [past[k] EXCEPT !.times = 2]
              ELSE IF k \in Accepted /\ past[k].others < MaxEntries
                   THEN [past[k] EXCEPT !.others = @ + 1]
              ELSE past[k]
        BY <2>2 DEF Note
      <4>3. ASSUME NEW b \in BOOLEAN
            PROVE  [times |-> 1, ahead |-> b, others |-> 0, back |-> FALSE] \in Histories
        BY <4>1 DEF Histories
      <4>4. CASE k = key /\ past[k].times = 0
        <5>1. past'[k] = [times |-> 1, ahead |-> sent[key].ts > now, others |-> 0, back |-> FALSE]
          BY <4>2, <4>4
        <5>2. (sent[key].ts > now) \in BOOLEAN
          OBVIOUS
        <5> QED
          BY <4>3, <5>1, <5>2
      <4>5. CASE k = key /\ past[k].times # 0
        <5>1. past'[k] = [past[k] EXCEPT !.times = 2]
          BY <4>2, <4>5
        <5> QED
          BY <4>1, <5>1 DEF Histories
      <4>6. CASE k # key /\ k \in Accepted /\ past[k].others < MaxEntries
        <5>1. past'[k] = [past[k] EXCEPT !.others = @ + 1]
          BY <4>2, <4>6
        <5> QED
          BY <4>1, <4>6, <5>1 DEF Histories
      <4>7. CASE k # key /\ ~(k \in Accepted /\ past[k].others < MaxEntries)
        <5>1. past'[k] = past[k]
          BY <4>2, <4>7
        <5> QED
          BY <4>1, <5>1
      <4> QED
        BY <4>4, <4>5, <4>6, <4>7
    <3>3. past' \in [Keys -> Histories]
      BY <2>2, <3>2 DEF Note
    <3>4. \A k \in Keys : Undisturbed(k)' => Guarded(k)' /\ past'[k].times = 1
      BY <2>2, <3>1, AcceptKeepsGuard
    <3> QED
      BY <1>3, <1>4, <3>2, <3>3, <3>4 DEF HInv
  <2> QED
    BY <1>8, <2>1, <2>2 DEF Authenticate
<1> QED
  BY <1>5, <1>6, <1>7, <1>8
  DEF HNext, Clock, Rotate, Sign, Restart, hmacVars

-----------------------------------------------------------------------------
\* The strengthened invariant holds in every reachable state.
THEOREM HmacInvariance == HSpec => []HInv
<1>1. HInit => HInv
  BY InitHInv
<1> QED
  BY <1>1, NextHInv, PTL DEF HSpec

\* authenticate, between honest clients, late frames and changing secrets, goes
\* only through the steps of the cache: all that is proved of it alone holds.
THEOREM CacheIsImplemented == HSpec => ImplementsCache
<1>1. HInit => Init
  BY InitHInv
<1>2. HInv => SentHaveTimes
  BY DEF HInv
<1> QED
  BY <1>1, <1>2, StepsOfTheCache, HmacInvariance, PTL DEF HSpec, Spec, ImplementsCache

\* A nonce counts once, however often its frame arrives, but for a client's clock
\* that was ahead, a server's clock set back, or a cache that has overflowed.
THEOREM NoncesCountOnce == HSpec => []NonceCountsOnce
<1>1. HInv => NonceCountsOnce
  <2> SUFFICES ASSUME HInv, NEW k \in Keys, past[k].times > 1
               PROVE  past[k].ahead \/ past[k].others = MaxEntries \/ past[k].back
    BY DEF NonceCountsOnce
  <2>1. past[k] \in Histories /\ ~Undisturbed(k) /\ MaxEntries \in Nat
    BY ReplayAssumption DEF HInv
  <2> QED
    BY <2>1 DEF Undisturbed, Histories
<1> QED
  BY <1>1, HmacInvariance, PTL

-----------------------------------------------------------------------------
(* What the server has forgotten it may be asked again, what it never accepted *)
(* it does not know.                                                           *)

\* The cache knows only what was accepted.
KnownWasAccepted == \A k \in DOMAIN entries : k \in Accepted

\* Pruning adds nothing.
LEMMA PruneAddsNothing ==
    ASSUME NEW e, NEW q, NEW t
    PROVE  DOMAIN AfterPrune(e, q, t).entries \subseteq DOMAIN e
  BY DEF AfterPrune, Without

\* A nonce once accepted stays so.
LEMMA AcceptedStay ==
    ASSUME HInv, [HNext]_hmacVars PROVE Accepted \subseteq Accepted'
<1> SUFFICES ASSUME NEW k \in Keys, past[k].times > 0 PROVE past'[k].times > 0
  BY DEF Accepted
<1>0. past[k] \in Histories
  BY DEF HInv
<1>1. CASE UNCHANGED past
  BY <1>1
<1>2. CASE past' = [l \in Keys |-> [past[l] EXCEPT !.back = @ \/ l \in Accepted]]
  <2>1. past'[k] = [past[k] EXCEPT !.back = @ \/ k \in Accepted]
    BY <1>2
  <2> QED
    BY <1>0, <2>1 DEF Histories
<1>3. ASSUME NEW key \in Keys, NEW ts, Note(key, ts) PROVE past'[k].times > 0
  <2>1. past'[k] = IF k = key /\ past[k].times = 0
                   THEN [times |-> 1, ahead |-> ts > now, others |-> 0, back |-> FALSE]
                   ELSE IF k = key THEN [past[k] EXCEPT !.times = 2]
                   ELSE IF k \in Accepted /\ past[k].others < MaxEntries THEN [past[k] EXCEPT !.others = @ + 1]
                   ELSE past[k]
    BY <1>3 DEF Note
  <2>2. CASE k = key
    <3>1. past'[k] = [past[k] EXCEPT !.times = 2]
      BY <2>1, <2>2
    <3> QED
      BY <1>0, <3>1 DEF Histories
  <2>3. CASE k # key /\ k \in Accepted /\ past[k].others < MaxEntries
    <3>1. past'[k] = [past[k] EXCEPT !.others = @ + 1]
      BY <2>1, <2>3
    <3> QED
      BY <1>0, <3>1 DEF Histories
  <2>4. CASE k # key /\ ~(k \in Accepted /\ past[k].others < MaxEntries)
    BY <2>1, <2>4
  <2> QED
    BY <2>2, <2>3, <2>4
<1> QED
  BY <1>1, <1>2, <1>3 DEF HNext, Clock, Rotate, Sign, Restart, Authenticate, hmacVars

\* The first time a nonce is accepted is counted.
LEMMA FirstIsCounted ==
    ASSUME NEW k \in Keys, NEW ts, past[k].times = 0, Note(k, ts) PROVE past'[k].times = 1
<1>1. past'[k] = [times |-> 1, ahead |-> ts > now, others |-> 0, back |-> FALSE]
  BY DEF Note
<1> QED
  BY <1>1

LEMMA NextKnown == ASSUME HInv, KnownWasAccepted, [HNext]_hmacVars PROVE KnownWasAccepted'
<1> SUFFICES ASSUME NEW k \in DOMAIN entries' PROVE k \in Accepted'
  BY DEF KnownWasAccepted
<1>0. Accepted \subseteq Accepted'
  BY AcceptedStay
<1>1. CASE k \in DOMAIN entries
  BY <1>0, <1>1 DEF KnownWasAccepted
<1>2. ASSUME NEW key \in Keys, Authenticate(key), k \notin DOMAIN entries PROVE k \in Accepted'
  <2> DEFINE ts == sent[key].ts
             c == AfterPrune(entries, order, now)
  <2>1. DOMAIN c.entries \subseteq DOMAIN entries
    BY PruneAddsNothing
  <2>2. CASE Refuse(key, ts)
    <3>1. entries' = c.entries
      BY <2>2 DEF Refuse, Becomes
    <3> QED
      BY <1>2, <2>1, <3>1
  <2>3. CASE ~Known(key) /\ Accept(key, ts) /\ Note(key, ts)
    <3>1. entries' = AfterAdd(c, key, now).entries
      BY <2>3 DEF Accept, Becomes
    <3>2. DOMAIN entries' \subseteq DOMAIN c.entries \cup {key}
      <4> DEFINE e == [l \in DOMAIN c.entries \cup {key} |-> IF l = key THEN now ELSE c.entries[l]]
                 q == Append(c.order, [ts |-> now, key |-> key])
      <4>1. entries' = AfterPrune(e, q, now).entries
        BY <3>1 DEF AfterAdd
      <4>2. DOMAIN e = DOMAIN c.entries \cup {key}
        OBVIOUS
      <4> HIDE DEF e, q
      <4>3. DOMAIN entries' \subseteq DOMAIN e
        BY <4>1, PruneAddsNothing
      <4> QED
        BY <4>2, <4>3
    <3>3. k = key
      BY <1>2, <2>1, <3>2
    <3>4. past[k] \in Histories
      BY <3>3 DEF HInv
    <3>5. CASE past[k].times = 0
      BY <2>3, <3>3, <3>5, FirstIsCounted DEF Accepted
    <3>6. CASE past[k].times # 0
      <4>1. k \in Accepted
        BY <3>3, <3>4, <3>6 DEF Histories, Accepted
      <4> QED
        BY <1>0, <4>1
    <3> QED
      BY <3>5, <3>6
  <2> QED
    BY <1>2, <2>2, <2>3 DEF Authenticate
<1> QED
  BY <1>1, <1>2 DEF HNext, Clock, Tick, SetBack, Rotate, Sign, Restart, vars, hmacVars

\* An honest frame in time, signed with what the server has, is allowed when it first
\* comes: nothing the server has refused before makes it refuse this one.
THEOREM TheFirstIsAllowed == HSpec => FirstIsAllowed
<1>1. HInit => KnownWasAccepted
  BY DEF HInit, Init, KnownWasAccepted
<1>2. HInv /\ KnownWasAccepted /\ [HNext]_hmacVars => KnownWasAccepted'
  BY NextKnown
<1>3. KnownWasAccepted =>
        \A k \in Keys : (Authenticate(k) /\ past[k].times = 0 /\ Matches(sent[k])) => past'[k].times = 1
  <2> SUFFICES ASSUME KnownWasAccepted, NEW k \in Keys, Authenticate(k), past[k].times = 0, Matches(sent[k])
               PROVE  past'[k].times = 1
    OBVIOUS
  <2>1. ~Known(k)
    BY PruneAddsNothing DEF Known, Seen, KnownWasAccepted, Accepted
  <2>2. Note(k, sent[k].ts)
    BY <2>1 DEF Authenticate
  <2> QED
    BY <2>2, FirstIsCounted
<1> QED
  BY <1>1, <1>2, <1>3, HmacInvariance, PTL DEF HSpec, FirstIsAllowed
=============================================================================
