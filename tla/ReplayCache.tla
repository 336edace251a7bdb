----------------------------- MODULE ReplayCache -----------------------------
(***************************************************************************)
(* HmacAuthStrategy.authenticate and the cache in which it remembers the   *)
(* nonces it has accepted: a dictionary with the time each key was added   *)
(* and a queue of what was added, pruned by age and by size. authenticate  *)
(* never suspends, so each call is one step; between calls the clock runs, *)
(* and as time.time is not monotonic it may be set back.                   *)
(***************************************************************************)
EXTENDS Integers, Sequences, FiniteSets

CONSTANTS Keys,       \* namespace:node_id:nonce
          Ttl,        \* ttl_seconds + max_clock_skew
          MaxEntries, \* max_replay_entries
          SetBacks,   \* by how much the clock may be set back
          MaxTime     \* bound: the clock

ASSUME ReplayAssumption ==
    /\ Ttl \in Nat /\ MaxEntries \in Nat
    /\ SetBacks \subseteq Nat
    /\ MaxTime \in Nat

VARIABLES
    now,      \* int(time.time())
    entries,  \* ReplayCache._entries
    order,    \* ReplayCache._order
    fresh     \* history: keys accepted less than a time to live ago, when, and
              \* how many were accepted since: fewer than the cache holds

vars == <<now, entries, order, fresh>>

Times == 0 .. MaxTime
Items == [ts : Times, key : Keys]

Init ==
    /\ now \in Times
    /\ entries = <<>>
    /\ order = <<>>
    /\ fresh = <<>>

-----------------------------------------------------------------------------
(* ReplayCache.                                                             *)

Without(e, gone) == [k \in DOMAIN e \ gone |-> e[k]]

\* What the first n items of the queue take with them: an item whose key was
\* added again later takes nothing.
Dropped(e, q, n) == {q[i].key : i \in {j \in 1 .. n : q[j].key \in DOMAIN e /\ e[q[j].key] = q[j].ts}}

\* _prune stops after n items.
TooManyFault(e) == Cardinality(DOMAIN e) > MaxEntries + 1
TooMany(e) == Cardinality(DOMAIN e) > MaxEntries
ExpiredFault(item, t) == item.ts <= t - Ttl
Expired(item, t) == item.ts < t - Ttl
Stops(e, q, t, n) ==
    n = Len(q) \/ ~(Expired(q[n + 1], t) \/ TooMany(Without(e, Dropped(e, q, n))))
Pruned(e, q, t) ==
    CHOOSE n \in 0 .. Len(q) : Stops(e, q, t, n) /\ \A m \in 0 .. n - 1 : ~Stops(e, q, t, m)

\* The two fields of the cache after _prune.
AfterPrune(e, q, t) ==
    LET n == Pruned(e, q, t)
    IN  [entries |-> Without(e, Dropped(e, q, n)), order |-> SubSeq(q, n + 1, Len(q))]

\* add: enter, append, prune again.
AfterAdd(c, key, t) ==
    AfterPrune([k \in DOMAIN c.entries \cup {key} |-> IF k = key THEN t ELSE c.entries[k]],
               Append(c.order, [ts |-> t, key |-> key]), t)

Becomes(c) == entries' = c.entries /\ order' = c.order

-----------------------------------------------------------------------------
(* authenticate. A frame that is refused before the cache is asked (another *)
(* namespace or node, a field missing) changes nothing.                     *)

InWindowFault(ts) == ts - now <= Ttl
InWindow(ts) == now - ts <= Ttl /\ ts - now <= Ttl

\* The key is known, or the signature is wrong, or the secret cannot be
\* resolved: the cache has only been pruned.
Refuse(key, ts) ==
    /\ InWindow(ts)
    /\ Becomes(AfterPrune(entries, order, now))
    /\ UNCHANGED <<now, fresh>>

Seen(c, key) == key \in DOMAIN c.entries
Accept(key, ts) ==
    /\ InWindow(ts)
    /\ LET c == AfterPrune(entries, order, now)
       IN  ~Seen(c, key) /\ Becomes(AfterAdd(c, key, now))
    /\ fresh' = LET others == {k \in DOMAIN fresh : fresh[k].more + 1 < MaxEntries}
                    known == IF MaxEntries > 0 THEN others \cup {key} ELSE others
                IN  [k \in known |-> IF k = key THEN [at |-> now, more |-> 0]
                                     ELSE [fresh[k] EXCEPT !.more = @ + 1]]
    /\ UNCHANGED now

\* The clock runs on, or is set back.
Tick ==
    /\ now' = now + 1 /\ now' \in Times
    /\ fresh' = Without(fresh, {k \in DOMAIN fresh : fresh[k].at + Ttl < now'})
    /\ UNCHANGED <<entries, order>>
SetBack ==
    /\ \E d \in SetBacks : now' = now - d /\ now' \in Times
    /\ UNCHANGED <<entries, order, fresh>>

Next ==
    \/ Tick \/ SetBack
    \/ \E key \in Keys, ts \in Times : Accept(key, ts) \/ Refuse(key, ts)

Spec == Init /\ [][Next]_vars

-----------------------------------------------------------------------------
(* Properties.                                                              *)

TypeOK ==
    /\ now \in Times
    /\ DOMAIN entries \subseteq Keys
    /\ \A k \in DOMAIN entries : entries[k] \in Times
    /\ order \in Seq(Items)
    /\ DOMAIN fresh \subseteq Keys
    /\ \A k \in DOMAIN fresh : fresh[k].at \in Times /\ fresh[k].more \in 0 .. MaxEntries - 1

\* Nothing is remembered for ever: each entry is in the queue with its own
\* time, so that _prune will reach it.
EntriesAreQueued ==
    \A k \in DOMAIN entries : \E i \in 1 .. Len(order) : order[i] = [ts |-> entries[k], key |-> k]

\* The cache never holds more than it may, though it removes by the queue and
\* counts the dictionary, nor does the queue, which nothing counts, outgrow the
\* dictionary by items nobody will ask for.
CacheIsBounded ==
    /\ Cardinality(DOMAIN entries) <= MaxEntries
    /\ Len(order) = Cardinality(DOMAIN entries)

\* A key is remembered for its time to live, however the clock has been set
\* back meanwhile, as long as the cache has room for those accepted after it: no
\* such key is accepted again.
FreshIsSeen ==
    \A k \in DOMAIN fresh : Seen(AfterPrune(entries, order, now), k)
=============================================================================
