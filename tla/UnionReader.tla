----------------------------- MODULE UnionReader -----------------------------
(***************************************************************************)
(* The readers Engine::readInterval hands out (src/libdariadb/engine.cpp): *)
(* a UnionReaderSet with one UnionReader per requested id.  Each           *)
(* UnionReader holds the page tier's result and the memory+AOF result;     *)
(* reset() merges them into local_res (sorting when they overlap), and     *)
(* readNext() passes local_res[res_it] to the callback.  The set walks its *)
(* readers with the list iterator it.  Reader::readAll, the caller's loop  *)
(* "while (!isEnd()) readNext(clb)", drives the reads.                     *)
(*                                                                         *)
(* A reader may be clone()d.  The clone's iterators are default-           *)
(* constructed: a libstdc++ list iterator so built holds a null node, and  *)
(* UnionReaderSet::_is_end is a bool nobody writes, so it holds whatever   *)
(* byte was there.  An iterator is modelled as a position: 0 is the null   *)
(* node, Len + 1 is end(); dereferencing either is a crash.                *)
(***************************************************************************)
EXTENDS Integers, Sequences, SequencesExt, FiniteSets

CONSTANTS
    Queries     \* possible readInterval calls: per id, in q.ids order, the
                \* [page, cap] results the tiers return (samples [time, n])

Handles == {"orig", "clone"}

VARIABLES
    query,      \* ghost: the tier results the original set was built from
    sets,       \* handle -> UnionReaderSet, or NoSet before clone()
    mode,       \* handle -> "idle" or "reading" (inside readAll)
    out,        \* handle -> samples passed to the callback by this readAll
    crashed,    \* handles whose readNext dereferenced a null or end() iterator
    fresh,      \* ghost: handles reset() since their last readAll began
    began       \* ghost: handle -> its current readAll began on a fresh reset

vars == <<query, sets, mode, out, crashed, fresh, began>>

NoSet == [rdrs |-> <<>>, it |-> 0, is_end |-> TRUE, live |-> FALSE]
TimeLeq(a, b) == a.time <= b.time

-----------------------------------------------------------------------------
(* UnionReader *)

\* UnionReader::isEnd: local_res.empty() || res_it == local_res.end()
ReaderIsEnd(r) == r.local = <<>> \/ r.res_it = Len(r.local) + 1

\* reset()'s need_sort: both results non-empty and the page result not
\* entirely before the first memory+AOF sample.  NeedSortFront compares
\* only the fronts.
NeedSortFront(p, c) == p # <<>> /\ c # <<>> /\ ~(p[1].time < c[1].time)
NeedSort(p, c) ==
    /\ p # <<>> /\ c # <<>>
    /\ ~(p[1].time < c[1].time /\ p[Len(p)].time < c[1].time)

\* std::sort by time: any time-ordered arrangement (it is not stable).
SortedOrderings(s) ==
    {t \in {[i \in DOMAIN s |-> s[f[i]]] :
              f \in {g \in [DOMAIN s -> DOMAIN s] : Range(g) = DOMAIN s}} :
        IsSorted(t, TimeLeq)}

\* UnionReader::reset: the sorted vector replaces local_res, or both results
\* are appended to it; then both are cleared and res_it = begin().
\* ResetReaderKeepLists forgets to clear page_result and cap_result.
ResetReaderKeepLists(r) ==
    {[r EXCEPT !.local = l, !.res_it = 1] :
        l \in IF NeedSort(r.page, r.cap)
              THEN SortedOrderings(r.page \o r.cap)
              ELSE {r.local \o r.page \o r.cap}}
ResetReader(r) ==
    {[r EXCEPT !.local = l, !.page = <<>>, !.cap = <<>>, !.res_it = 1] :
        l \in IF NeedSort(r.page, r.cap)
              THEN SortedOrderings(r.page \o r.cap)
              ELSE {r.local \o r.page \o r.cap}}

\* UnionReader::clone: ids and the three lists are copied, res_it is not.
CloneReader(r) == [r EXCEPT !.res_it = 0]

-----------------------------------------------------------------------------
(* UnionReaderSet *)

\* UnionReaderSet::reset: it = begin(), _is_end = false, every reader reset.
SetReset(s) ==
    {[rdrs |-> f, it |-> 1, is_end |-> FALSE, live |-> TRUE] :
        f \in {g \in [DOMAIN s.rdrs -> UNION {ResetReader(s.rdrs[i]) : i \in DOMAIN s.rdrs}] :
                 \A i \in DOMAIN s.rdrs : g[i] \in ResetReader(s.rdrs[i])}}

\* Engine::Private::readInterval: one UnionReader per id holding
\* page_result and cap_result, added in q.ids order, then reset().
Built(q) ==
    [rdrs |-> [i \in DOMAIN q |-> [page |-> q[i].page, cap |-> q[i].cap,
                                   local |-> <<>>, res_it |-> 0]],
     it |-> 0, is_end |-> FALSE, live |-> TRUE]

Init ==
    /\ query \in Queries
    /\ sets \in {[h \in Handles |-> IF h = "orig" THEN s ELSE NoSet] :
                    s \in SetReset(Built(query))}
    /\ mode = [h \in Handles |-> "idle"]
    /\ out = [h \in Handles |-> <<>>]
    /\ crashed = {}
    /\ fresh = {"orig"}
    /\ began = [h \in Handles |-> FALSE]

-----------------------------------------------------------------------------
(* Operations on a handle *)

\* UnionReaderSet::clone: each reader cloned and added; it and _is_end are
\* never written.
Clone ==
    /\ sets["orig"].live /\ ~sets["clone"].live
    /\ mode["orig"] = "idle"
    /\ \E garbage \in BOOLEAN :
          sets' = [sets EXCEPT !["clone"] =
                     [rdrs |-> [i \in DOMAIN sets["orig"].rdrs |->
                                   CloneReader(sets["orig"].rdrs[i])],
                      it |-> 0, is_end |-> garbage, live |-> TRUE]]
    /\ UNCHANGED <<query, mode, out, crashed, fresh, began>>

\* Reader::reset called by the owner between two reads.
Reset(h) ==
    /\ sets[h].live /\ mode[h] = "idle" /\ h \notin crashed
    /\ sets' \in {[sets EXCEPT ![h] = s] : s \in SetReset(sets[h])}
    /\ fresh' = fresh \cup {h}
    /\ UNCHANGED <<query, mode, out, crashed, began>>

\* Reader::readAll begins with a fresh output list.
StartReadAll(h) ==
    /\ sets[h].live /\ mode[h] = "idle" /\ h \notin crashed
    /\ mode' = [mode EXCEPT ![h] = "reading"]
    /\ out' = [out EXCEPT ![h] = <<>>]
    /\ began' = [began EXCEPT ![h] = h \in fresh]
    /\ fresh' = fresh \ {h}
    /\ UNCHANGED <<query, sets, crashed>>

\* UnionReaderSet::readNext: (*it)->readNext(clb) -- UnionReader::readNext
\* returns at once when isEnd(), else calls clb with *res_it and advances --
\* then, if (*it)->isEnd(), ++it and _is_end = (it == end()).
\* Dereferencing it at end() or null, or res_it at null, crashes.
Derefs(s) ==
    \/ s.it = 0 \/ s.it > Len(s.rdrs)
    \/ ~ReaderIsEnd(s.rdrs[s.it]) /\ s.rdrs[s.it].res_it = 0
\* InnerReadNoReturn is readNext without its early return on isEnd().
InnerReadNoReturn(r) == [r EXCEPT !.res_it = @ + 1]
InnerRead(r) == IF ReaderIsEnd(r) THEN r ELSE [r EXCEPT !.res_it = @ + 1]
Called(r) == IF ReaderIsEnd(r) THEN <<>> ELSE << r.local[r.res_it] >>

\* the set after its current reader r2 has read: SetAdvanceStuck is the form
\* that never leaves a finished reader.
SetAdvanceStuck(s, r2) == [s EXCEPT !.rdrs[s.it] = r2]
SetAdvance(s, r2) ==
    IF ReaderIsEnd(r2)
    THEN [s EXCEPT !.rdrs[s.it] = r2, !.it = @ + 1,
                   !.is_end = (s.it + 1 = Len(s.rdrs) + 1)]
    ELSE [s EXCEPT !.rdrs[s.it] = r2]

ReadNext(h) ==
    LET s == sets[h] IN
    /\ mode[h] = "reading" /\ ~s.is_end /\ h \notin crashed
    /\ IF Derefs(s)
       THEN /\ crashed' = crashed \cup {h}
            /\ UNCHANGED <<sets, out>>
       ELSE /\ sets' = [sets EXCEPT ![h] = SetAdvance(s, InnerRead(s.rdrs[s.it]))]
            /\ out' = [out EXCEPT ![h] = @ \o Called(s.rdrs[s.it])]
            /\ UNCHANGED crashed
    /\ UNCHANGED <<query, mode, fresh, began>>

\* readAll's loop condition fails: isEnd().
EndReadAll(h) ==
    /\ mode[h] = "reading" /\ sets[h].is_end
    /\ mode' = [mode EXCEPT ![h] = "idle"]
    /\ UNCHANGED <<query, sets, out, crashed, fresh, began>>

Next ==
    \/ Clone
    \/ \E h \in Handles : Reset(h) \/ StartReadAll(h) \/ ReadNext(h) \/ EndReadAll(h)

\* readAll is a synchronous loop of the calling thread: once it runs, its
\* next iteration is eventually taken.
Spec == Init /\ [][Next]_vars /\ \A h \in Handles : WF_vars(ReadNext(h) \/ EndReadAll(h))

-----------------------------------------------------------------------------
(* Properties *)

TypeOK ==
    /\ \A h \in Handles : /\ sets[h].it \in 0 .. Len(sets[h].rdrs) + 1
                          /\ sets[h].is_end \in BOOLEAN
                          /\ \A i \in DOMAIN sets[h].rdrs :
                                sets[h].rdrs[i].res_it \in 0 .. Len(sets[h].rdrs[i].local) + 1
                          /\ mode[h] \in {"idle", "reading"}
    /\ crashed \subseteq Handles

\* the samples of the i-th id and where they start in a full read
Seg(q, i) == q[i].page \o q[i].cap
Start(q, i) == Len(FlattenSeq([j \in 1 .. i - 1 |-> Seg(q, j)])) + 1
Part(o, q, i) == SubSeq(o, Start(q, i), Start(q, i) + Len(Seg(q, i)) - 1)

\* a whole read: for each id in q.ids order, an arrangement of exactly
\* that id's page and memory+AOF samples
Delivers(o, q) ==
    /\ Len(o) = Len(FlattenSeq([i \in DOMAIN q |-> Seg(q, i)]))
    /\ \A i \in DOMAIN q : ToBag(Part(o, q, i)) = ToBag(Seg(q, i))


\* A readAll begun right after reset() -- on the original, or on a clone
\* after its reset(), and also after any number of earlier reads and
\* resets -- that reaches isEnd() has passed every sample of every id
\* exactly once, id by id.  Time order is not claimed: a memory+AOF
\* result that reset() does not sort comes out as the tiers returned it
\* (Engine's ReadSorted).
ReadAllDelivers ==
    \A h \in Handles :
        (began[h] /\ mode[h] = "reading" /\ sets[h].is_end /\ h \notin crashed)
            => Delivers(out[h], query)

\* A readAll of a reset reader ends: each readNext moves the reader or the
\* set forward, and the set reaches end().
ReadAllEnds ==
    \A h \in Handles :
        (began[h] /\ mode[h] = "reading") ~> (mode[h] = "idle" \/ h \in crashed)

\* readAll of the reader readInterval returned never dereferences end() or
\* a null iterator, whatever ids the query asked for.
NoCrash == "orig" \notin crashed

\* A clone reads like its original, also before anyone calls reset() on it.
CloneReadsLikeOriginal ==
    /\ "clone" \notin crashed
    /\ (mode["clone"] = "reading" /\ sets["clone"].is_end)
          => Delivers(out["clone"], query)

\* the sort spec 4.8 asks for: stable by insertion order on ties
RECURSIVE StableSort(_)
StableSort(s) ==
    IF s = <<>> THEN <<>>
    ELSE LET t == StableSort(Front(s))
             k == Cardinality({i \in DOMAIN t : t[i].time <= Last(s).time})
         IN  InsertAt(t, k + 1, Last(s))

\* Samples of one id with equal times keep their page-then-memory order.
StableOnTies ==
    \A h \in Handles :
        (began[h] /\ mode[h] = "reading" /\ sets[h].is_end /\ h \notin crashed)
            => \A i \in DOMAIN query : Part(out[h], query, i) = StableSort(Seg(query, i))
=============================================================================
