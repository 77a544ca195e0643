------------------------------- MODULE Engine -------------------------------
(***************************************************************************)
(* The engine facade (src/libdariadb/engine.cpp) over its three tiers: the *)
(* append-only log (AOFManager), the memory tier (CapacitorManager) and    *)
(* the page tier (PageManager), for one series id.                         *)
(*                                                                         *)
(*  - Engine::append writes to the AOF and then, outside any lock, tells   *)
(*    the subscribers;                                                     *)
(*  - the dropper moves samples AOF -> memory -> pages in the background;  *)
(*    the AOF -> memory move appends to the memory tier before it drops    *)
(*    the AOF copy, the memory -> page move takes chunks out of the memory *)
(*    tier before the page stores them (spec 4.7);                         *)
(*  - Engine::readInterval reads pages, then memory, then the AOF, with no *)
(*    lock against the dropper, and UnionReader::reset decides whether to  *)
(*    sort;                                                                *)
(*  - readInTimePoint picks one tier by minMaxTime; maxTime combines the   *)
(*    tiers' maxima.                                                       *)
(*                                                                         *)
(* A sample is a record [time, n] where n is a ghost identity; the query   *)
(* interval of readInterval covers every time of the model, so the tiers'  *)
(* interval filters are the identity and are left out.  The tier managers  *)
(* are not in the source tree: their operations are modelled from the      *)
(* spec (sections 4.3, 4.4, 4.7) and marked so in the map.                 *)
(***************************************************************************)
EXTENDS Integers, Sequences, SequencesExt, FiniteSets

CONSTANTS
    Writers,    \* user threads calling Engine::append
    Input,      \* Input[w]: the samples thread w appends, in its order
    TimePoints, \* time points readInTimePoint may be asked for
    MIN_TIME,   \* dariadb::MIN_TIME
    MAX_TIME,   \* dariadb::MAX_TIME
    NO_DATA     \* Flags::_NO_DATA: the synthetic "no value" answer

VARIABLES
    aof,        \* AOF records, in file order
    cap,        \* memory-tier samples, in insertion order
    inflight,   \* chunks taken by drop_old_chunks, not yet stored by a page
    page,       \* page-tier samples, in the order the pages stored them
    aofMark,    \* the first aofMark AOF records are already in the memory tier
    wpc,        \* per writer: next input position and its step
    notified,   \* samples delivered to the subscriber, in delivery order
    commitLog,  \* ghost: samples in the order the AOF accepted them
    rd          \* the state of one readInterval call and its UnionReader

vars == <<aof, cap, inflight, page, aofMark, wpc, notified, commitLog, rd>>

Committed == Range(commitLog)
Times(s) == {s[i].time : i \in DOMAIN s}
TimeLeq(a, b) == a.time <= b.time

IdleReader == [pc |-> "idle", page_result |-> <<>>, cap_result |-> <<>>,
               local_res |-> <<>>, before |-> {}]

Init ==
    /\ aof = <<>> /\ cap = <<>> /\ inflight = <<>> /\ page = <<>>
    /\ aofMark = 0
    /\ wpc = [w \in Writers |-> [i |-> 1, step |-> "append"]]
    /\ notified = <<>>
    /\ commitLog = <<>>
    /\ rd = IdleReader

-----------------------------------------------------------------------------
(* Write path *)

\* Engine::Private::append, first half: AOFManager::append returns writed=1,
\* as the WAL always does (spec 4.3), so the writed != 1 branch is not taken.
AppendAof(w) ==
    LET s == Input[w][wpc[w].i] IN
    /\ wpc[w].step = "append"
    /\ wpc[w].i <= Len(Input[w])
    /\ aof' = Append(aof, s)
    /\ commitLog' = Append(commitLog, s)
    /\ wpc' = [wpc EXCEPT ![w].step = "notify"]
    /\ UNCHANGED <<cap, inflight, page, aofMark, notified, rd>>

\* Engine::Private::append, second half: _subscribe_notify.on_append(value),
\* reached after the AOF has released its lock.
Notify(w) ==
    /\ wpc[w].step = "notify"
    /\ notified' = Append(notified, Input[w][wpc[w].i])
    /\ wpc' = [wpc EXCEPT ![w] = [i |-> @.i + 1, step |-> "append"]]
    /\ UNCHANGED <<aof, cap, inflight, page, aofMark, commitLog, rd>>

-----------------------------------------------------------------------------
(* Dropper (and Engine::flush, which runs the same moves to completion) *)

\* AOF -> memory: the next AOF record not yet moved is appended to the
\* memory tier; the AOF still holds it.
DropAofCopy ==
    /\ aofMark < Len(aof)
    /\ cap' = Append(cap, aof[aofMark + 1])
    /\ aofMark' = aofMark + 1
    /\ UNCHANGED <<aof, inflight, page, wpc, notified, commitLog, rd>>

\* AOF -> memory: a record that reached the memory tier leaves the AOF.
\* DropAofRemoveKeepMark forgets to move the mark.
DropAofRemoveKeepMark ==
    /\ aofMark > 0
    /\ aof' = Tail(aof)
    /\ UNCHANGED <<aofMark, cap, inflight, page, wpc, notified, commitLog, rd>>
DropAofRemove ==
    /\ aofMark > 0
    /\ aof' = Tail(aof)
    /\ aofMark' = aofMark - 1
    /\ UNCHANGED <<cap, inflight, page, wpc, notified, commitLog, rd>>

\* memory -> pages: the oldest chunk is taken out of the memory tier ...
DropOldChunks ==
    /\ cap # <<>>
    /\ inflight' = Append(inflight, Head(cap))
    /\ cap' = Tail(cap)
    /\ UNCHANGED <<aof, page, aofMark, wpc, notified, commitLog, rd>>

\* ... and the page manager stores it in a page.
PageAppendChunk ==
    /\ inflight # <<>>
    /\ page' = Append(page, Head(inflight))
    /\ inflight' = Tail(inflight)
    /\ UNCHANGED <<aof, cap, aofMark, wpc, notified, commitLog, rd>>

-----------------------------------------------------------------------------
(* Read path: Engine::Private::readInterval and UnionReader::reset *)

\* UnionReader::reset: the page result and the memory+AOF result are sorted
\* together unless the page result lies entirely before the other one.
\* std::sort is not stable: any time-ordered permutation may come out.
NeedSort(p, c) ==
    /\ p # <<>> /\ c # <<>>
    /\ ~(p[1].time < c[1].time /\ p[Len(p)].time < c[1].time)

Orderings(s) ==
    {[i \in DOMAIN s |-> s[f[i]]] :
        f \in {g \in [DOMAIN s -> DOMAIN s] : Range(g) = DOMAIN s}}

ResetResults(p, c) ==
    IF NeedSort(p, c)
    THEN {s \in Orderings(p \o c) : IsSorted(s, TimeLeq)}
    ELSE {p \o c}

\* PageManager::chunksByIterval then readLinks into page_result.
ReadPages ==
    /\ rd.pc = "idle"
    /\ rd' = [rd EXCEPT !.pc = "cap", !.page_result = page,
                        !.before = Committed]
    /\ UNCHANGED <<aof, cap, inflight, page, aofMark, wpc, notified, commitLog>>

\* CapacitorManager::readInterval(local_q)->readAll(&cap_result)
ReadCap ==
    /\ rd.pc = "cap"
    /\ rd' = [rd EXCEPT !.pc = "aof", !.cap_result = cap]
    /\ UNCHANGED <<aof, cap, inflight, page, aofMark, wpc, notified, commitLog>>

\* AOFManager::readInterval(local_q)->readAll(&cap_result), then reset().
ReadAof ==
    /\ rd.pc = "aof"
    /\ \E res \in ResetResults(rd.page_result, rd.cap_result \o aof) :
          rd' = [rd EXCEPT !.pc = "done", !.local_res = res,
                           !.page_result = <<>>, !.cap_result = <<>>]
    /\ UNCHANGED <<aof, cap, inflight, page, aofMark, wpc, notified, commitLog>>

\* The caller drops the reader; another query may start.
ReadEnd ==
    /\ rd.pc = "done"
    /\ rd' = IdleReader
    /\ UNCHANGED <<aof, cap, inflight, page, aofMark, wpc, notified, commitLog>>

Next ==
    \/ \E w \in Writers : AppendAof(w) \/ Notify(w)
    \/ DropAofCopy \/ DropAofRemove \/ DropOldChunks \/ PageAppendChunk
    \/ ReadPages \/ ReadCap \/ ReadAof \/ ReadEnd

Spec == Init /\ [][Next]_vars

-----------------------------------------------------------------------------
(* Read-only queries: functions of the tiers at the instant they run *)

\* a tier's minMaxTime: MAX_TIME / MIN_TIME when it holds nothing
TierMin(s) == IF s = <<>> THEN MAX_TIME ELSE Min(Times(s))
TierMax(s) == IF s = <<>> THEN MIN_TIME ELSE Max(Times(s))
Smaller(a, b) == IF a < b THEN a ELSE b
Larger(a, b) == IF a > b THEN a ELSE b

\* Engine::Private::minTime and maxTime (pages, memory, AOF)
EngineMinTime == Smaller(Smaller(TierMin(page), TierMin(cap)), TierMin(aof))
EngineMaxTime == Larger(Smaller(TierMax(page), TierMax(cap)), TierMax(aof))

\* a tier's readInTimePoint: its latest sample at or before t, else NO_DATA
\* (the times of the model's samples are pairwise distinct)
LatestIn(S, t) ==
    IF \E s \in S : s.time <= t
    THEN CHOOSE s \in S : s.time <= t /\ \A o \in S : o.time <= t => o.time <= s.time
    ELSE NO_DATA

\* Engine::Private::readInTimePoint for one id: the memory tier if its
\* minMaxTime has a bound before t, else the AOF on the same test, else the
\* pages (an empty page answer becomes the NO_DATA sample).
EngineTimePoint(t) ==
    IF cap # <<>> /\ (TierMin(cap) < t \/ TierMax(cap) < t)
    THEN LatestIn(Range(cap), t)
    ELSE IF aof # <<>> /\ (TierMin(aof) < t \/ TierMax(aof) < t)
         THEN LatestIn(Range(aof), t)
         ELSE LatestIn(Range(page), t)

-----------------------------------------------------------------------------
(* Properties *)

TypeOK ==
    /\ aofMark \in 0 .. Len(aof)
    /\ \A w \in Writers : wpc[w].step \in {"append", "notify"}
    /\ rd.pc \in {"idle", "cap", "aof", "done"}

\* A finished readInterval returns every sample that was committed before
\* the read began (spec section 8, invariant 1).
ReadComplete ==
    rd.pc = "done" => rd.before \subseteq Range(rd.local_res)

\* A finished readInterval returns its samples in time order (spec 4.8:
\* tier results that overlap are merge-sorted).
ReadSorted ==
    rd.pc = "done" => IsSorted(rd.local_res, TimeLeq)

\* The subscriber sees the samples in the order the AOF committed them
\* (spec section 5: callbacks in commit order per segment).
Pos(s) == CHOOSE i \in DOMAIN commitLog : commitLog[i] = s
SubscriberOrder ==
    \A i, j \in DOMAIN notified : i < j => Pos(notified[i]) < Pos(notified[j])

\* readInTimePoint answers the latest sample at or before t that any tier
\* holds, and NO_DATA only when there is none (spec section 3).
TimePointLatest ==
    \A t \in TimePoints :
        EngineTimePoint(t) = LatestIn(Range(aof) \cup Range(cap) \cup Range(page), t)

\* maxTime is the greatest time any tier holds (spec 4.9).
MaxTimeCorrect ==
    EngineMaxTime = TierMax(aof \o cap \o page)
=============================================================================
