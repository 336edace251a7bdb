------------------------------ MODULE QSequence ------------------------------
(***************************************************************************)
(* A list with queries. A query first reads the list it is asked of, if    *)
(* that was the result of a query itself; most then give a list that holds *)
(* an iterator over that one and is read when it is first used as a list.  *)
(* `eager` and `parted` are history: what each list would hold if every    *)
(* query were run at once, and the lists for which that makes a difference.*)
(***************************************************************************)
EXTENDS Naturals, Sequences, FiniteSets, SequencesExt, Lists

CONSTANTS
    Items,    \* what is in the lists, numbers
    Chosen,   \* those a filter keeps
    Image,    \* the function a projection applies
    MaxLists, \* bound: lists of a behaviour
    MaxLength \* bound: their length

ASSUME QSequenceAssumption == Items \subseteq Nat /\ Chosen \subseteq Items /\ Image \in [Items -> Items]

VARIABLES
    lists,  \* [items, source]; `source` is the query still to be run, or Nothing
    eager,
    parted

lazy == <<lists, eager, parted>>

Nothing == [query |-> "none"]
IsLazy(k) == lists[k].source # Nothing

ListInit(content) == lists = <<[items |-> content, source |-> Nothing]>> /\ eager = <<content>> /\ parted = {}
QInit == \E content \in SeqOf(Items, MaxLength) : ListInit(content)

-----------------------------------------------------------------------------
(* The queries, as functions of a sequence: a slice is [1:], a group that of *)
(* what the filter drops, and select_many gives an item and its image.      *)

Where(s) == At(s, {k \in 1 .. Len(s) : s[k] \in Chosen})
Select(s) == [k \in 1 .. Len(s) |-> Image[s[k]]]
SelectMany(s) == [k \in 1 .. 2 * Len(s) |-> IF k % 2 = 1 THEN s[(k + 1) \div 2] ELSE Image[s[k \div 2]]]
Distinct(s) == At(s, {k \in 1 .. Len(s) : \A j \in 1 .. k - 1 : s[j] # s[k]})
OrderBy(s) ==
    LET Upto(x) == Cardinality({j \in 1 .. Len(s) : s[j] <= x})
    IN  [k \in 1 .. Len(s) |-> CHOOSE x \in Range(s) : Upto(x) >= k /\ \A y \in Range(s) : Upto(y) >= k => x <= y]
Slice(s) == SubSeq(s, 2, Len(s))
Group(s) == At(s, {k \in 1 .. Len(s) : s[k] \notin Chosen})

Result(query, s) ==
    CASE query = "where"       -> Where(s)
      [] query = "select"      -> Select(s)
      [] query = "select_many" -> SelectMany(s)
      [] query = "distinct"    -> Distinct(s)
      [] query = "order_by"    -> OrderBy(s)
      [] query = "slice"       -> Slice(s)
      [] query = "group_by"    -> Group(s)

LazyQueries == {"where", "select", "select_many", "distinct"}
EagerQueries == {"order_by", "slice", "group_by"}

-----------------------------------------------------------------------------
\* What a list holds once its query has been run, over its source as it is now.
Content(k) ==
    IF IsLazy(k)
      THEN lists[k].items \o Result(lists[k].source.query, lists[lists[k].source.of].items)
      ELSE lists[k].items

EnsureMaterialized(k) == [lists EXCEPT ![k] = [items |-> Content(k), source |-> Nothing]]

\* Any use as a list.
Read(k) == lists' = EnsureMaterialized(k) /\ UNCHANGED <<eager, parted>>

\* A new list that should hold `meant`; `apart` if it is known not to.
NewList(k, list, meant, apart) ==
    /\ Len(lists) < MaxLists
    /\ Len(meant) <= MaxLength
    /\ lists' = Append(EnsureMaterialized(k), list)
    /\ eager' = Append(eager, meant)
    /\ parted' = IF apart THEN parted \cup {Len(lists) + 1} ELSE parted

QueryLazily(k, query) ==
    NewList(k, [items |-> <<>>, source |-> [query |-> query, of |-> k]], Result(query, eager[k]), k \in parted)
QueryAtOnce(k, query) ==
    NewList(k, [items |-> Result(query, Content(k)), source |-> Nothing], Result(query, eager[k]), k \in parted)

\* The right operand of + is read by list.__add__, which knows nothing of a
\* query that is still to be run.
Concat(k, l) ==
    LET left == EnsureMaterialized(k)
    IN  NewList(k, [items |-> left[k].items \o left[l].items, source |-> Nothing], eager[k] \o eager[l],
            {k, l} \cap parted # {} \/ left[l].source # Nothing)

\* Lists that are still to be read from k.
Unread(k) == {l \in 1 .. Len(lists) : IsLazy(l) /\ lists[l].source.of = k}

\* A mutator and its argument.
Mutators == ({"append"} \X Items) \cup {<<"pop">>, <<"reverse">>}
Mutated(how, s) ==
    CASE how[1] = "append"  -> Append(s, how[2])
      [] how[1] = "pop"     -> SubSeq(s, 1, Len(s) - 1)
      [] how[1] = "reverse" -> Reverse(s)

\* append, extend, insert, pop, remove, clear, sort, reverse, item assignment:
\* a mutator of list, run on what the list holds.
ChangeFault(k, how) ==
    /\ Len(Mutated(how, Content(k))) <= MaxLength /\ Len(Mutated(how, eager[k])) <= MaxLength
    /\ lists' = [lists EXCEPT ![k].items = Mutated(how, @)]
    /\ eager' = [eager EXCEPT ![k] = Mutated(how, @)]
    /\ parted' = parted \cup Unread(k)
Change(k, how) ==
    /\ Len(Mutated(how, Content(k))) <= MaxLength /\ Len(Mutated(how, eager[k])) <= MaxLength
    /\ lists' = [EnsureMaterialized(k) EXCEPT ![k].items = Mutated(how, @)]
    /\ eager' = [eager EXCEPT ![k] = Mutated(how, @)]
    /\ parted' = parted \cup Unread(k)

QNext ==
    \E k \in 1 .. Len(lists) :
        \/ IsLazy(k) /\ Read(k)
        \/ \E query \in LazyQueries : QueryLazily(k, query)
        \/ \E query \in EagerQueries : QueryAtOnce(k, query)
        \/ \E l \in 1 .. Len(lists) : Concat(k, l)
        \/ \E how \in Mutators : Change(k, how)

QSpec == QInit /\ [][QNext]_lazy

-----------------------------------------------------------------------------
(* Properties.                                                              *)

\* When a query is run does not matter: a list holds what it would hold had all
\* queries been run where they stand, except if the list it was asked of was
\* changed in between, or a list still to be read was the right operand of +.
LazyIsTransparent == \A k \in 1 .. Len(lists) : k \notin parted => Content(k) = eager[k]
=============================================================================
