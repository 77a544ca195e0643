------------------------------ MODULE QueryLoad ------------------------------
(***************************************************************************)
(* Engine::Private::load and getResult (src/libdariadb/engine.cpp).        *)
(*                                                                         *)
(* load(q) (both overloads) holds the engine mutex _locker for its whole   *)
(* body: "Id result = _next_query_id++", run readInterval or              *)
(* readInTimePoint and readAll into a fresh list, then                     *)
(* "_load_results[result] = reader_values", and return result.             *)
(* getResult(id) takes no lock: find(id), then copy the list or return an  *)
(* empty one.                                                              *)
(*                                                                         *)
(* The increment is a read and a write of _next_query_id; the map insert   *)
(* is a step that begins (the node is linked, the table may rehash) and    *)
(* one that ends.  A find that overlaps an insert is a data race on the    *)
(* unordered_map: undefined behaviour, so its result is any of the         *)
(* outcomes the build can produce (the list looked for, an empty one, or   *)
(* another list), and the race is recorded.  A query's result list is      *)
(* abstracted to the query it answers.                                     *)
(***************************************************************************)
EXTENDS Naturals, Sequences, FiniteSets, Functions

CONSTANTS
    Threads,    \* user threads calling the engine
    Queries,    \* the queries a load may run (its result is named by it)
    Calls,      \* calls each thread makes
    NoThread,   \* _locker is free
    Empty       \* the empty list getResult returns for an unknown id

Ids == 0 .. Cardinality(Threads) * Calls
Absent == Empty

VARIABLES
    locker,     \* the thread holding _locker, or NoThread
    next_id,    \* _next_query_id
    results,    \* _load_results: id -> result list, or Absent
    pc,         \* per thread: where it is in its current call
    local,      \* per thread: load's local result id and reader_values
    left,       \* per thread: calls not yet made
    issued,     \* ghost: ids returned by load, in return order
    lastLoad,   \* ghost: per thread, [id, vals] of its last finished load
    got,        \* ghost: per thread, its last getResult: [id, vals, clean,
                \* load] where load is the thread's last load when it called
    raced       \* ghost: threads whose find overlapped an insert

vars == <<locker, next_id, results, pc, local, left, issued, lastLoad, got, raced>>

NoLoad == [id |-> 0, vals |-> Empty]
NoGet == [id |-> 0, vals |-> Empty, clean |-> FALSE, load |-> NoLoad]

\* Engine::Private::Private: _next_query_id = Id(); the map starts empty.
Init ==
    /\ locker = NoThread
    /\ next_id = 0
    /\ results = [i \in Ids |-> Absent]
    /\ pc = [t \in Threads |-> "idle"]
    /\ local = [t \in Threads |-> NoLoad]
    /\ left = [t \in Threads |-> Calls]
    /\ issued = <<>>
    /\ lastLoad = [t \in Threads |-> NoLoad]
    /\ got = [t \in Threads |-> NoGet]
    /\ raced = {}

Step(t, from, to) == pc[t] = from /\ pc' = [pc EXCEPT ![t] = to]

-----------------------------------------------------------------------------
(* load *)

\* the call load(qi) or load(qt)
StartLoad(t) ==
    /\ left[t] > 0
    /\ Step(t, "idle", "lock")
    /\ left' = [left EXCEPT ![t] = @ - 1]
    /\ UNCHANGED <<locker, next_id, results, local, issued, lastLoad, got, raced>>

\* std::lock_guard<std::mutex> lg(_locker).  AcquireUnlocked is the body
\* without the guard.
AcquireUnlocked(t) ==
    /\ Step(t, "lock", "readid")
    /\ UNCHANGED <<locker, next_id, results, local, left, issued, lastLoad, got, raced>>
Acquire(t) ==
    /\ locker = NoThread
    /\ locker' = t
    /\ Step(t, "lock", "readid")
    /\ UNCHANGED <<next_id, results, local, left, issued, lastLoad, got, raced>>

\* Id result = _next_query_id++: the read ...
ReadId(t) ==
    /\ Step(t, "readid", "incid")
    /\ local' = [local EXCEPT ![t].id = next_id]
    /\ UNCHANGED <<locker, next_id, results, left, issued, lastLoad, got, raced>>

IncId(t) ==
    /\ Step(t, "incid", "read")
    /\ next_id' = local[t].id + 1
    /\ UNCHANGED <<locker, results, local, left, issued, lastLoad, got, raced>>

\* readInterval(qi) or readInTimePoint(qt), then readAll(reader_values)
ReadAll(t) ==
    /\ Step(t, "read", "insert")
    /\ \E q \in Queries : local' = [local EXCEPT ![t].vals = q]
    /\ UNCHANGED <<locker, next_id, results, left, issued, lastLoad, got, raced>>

\* _load_results[result] = reader_values: the table is being changed ...
InsertBegin(t) ==
    /\ Step(t, "insert", "inserting")
    /\ UNCHANGED <<locker, next_id, results, local, left, issued, lastLoad, got, raced>>

\* ... and holds the new entry.  InsertEndNextKey stores it under the
\* counter's current value instead of result.
InsertEndNextKey(t) ==
    /\ Step(t, "inserting", "return")
    /\ results' = [results EXCEPT ![next_id] = local[t].vals]
    /\ UNCHANGED <<locker, next_id, local, left, issued, lastLoad, got, raced>>
InsertEnd(t) ==
    /\ Step(t, "inserting", "return")
    /\ results' = [results EXCEPT ![local[t].id] = local[t].vals]
    /\ UNCHANGED <<locker, next_id, local, left, issued, lastLoad, got, raced>>

\* return result; the lock_guard releases _locker.
Release(t) ==
    /\ Step(t, "return", "idle")
    /\ locker' = NoThread
    /\ issued' = Append(issued, local[t].id)
    /\ lastLoad' = [lastLoad EXCEPT ![t] = local[t]]
    /\ UNCHANGED <<next_id, results, local, left, got, raced>>

-----------------------------------------------------------------------------
(* getResult *)

\* find(id) and the copy, without _locker.  Overlapping a map insert, the
\* outcome is undefined: any list the map holds or the empty one.
GetResult(t) ==
    /\ left[t] > 0
    /\ pc[t] = "idle"
    /\ left' = [left EXCEPT ![t] = @ - 1]
    /\ \E id \in Ids :
         IF \E u \in Threads : pc[u] = "inserting"
         THEN /\ raced' = raced \cup {t}
              /\ \E v \in Range(results) \cup {Empty} :
                    got' = [got EXCEPT ![t] = [id |-> id, vals |-> v, clean |-> FALSE,
                                               load |-> lastLoad[t]]]
         ELSE /\ got' = [got EXCEPT ![t] = [id |-> id, vals |-> results[id], clean |-> TRUE,
                                                 load |-> lastLoad[t]]]
              /\ UNCHANGED raced
    /\ UNCHANGED <<locker, next_id, results, pc, local, issued, lastLoad>>

Next ==
    \E t \in Threads :
        \/ StartLoad(t) \/ Acquire(t) \/ ReadId(t) \/ IncId(t) \/ ReadAll(t)
        \/ InsertBegin(t) \/ InsertEnd(t) \/ Release(t) \/ GetResult(t)

Spec == Init /\ [][Next]_vars

-----------------------------------------------------------------------------
(* Properties *)

\* Two loads never return the same id, however the threads' loads
\* interleave: the read and the write of _next_query_id happen under
\* _locker.
LoadIdsUnique == IsInjective(issued)

\* A getResult for the id a thread's own load returned, with no insert
\* running at the same time, gets exactly the list that load read.
GetResultSeesLoad ==
    \A t \in Threads :
        (got[t].load # NoLoad /\ got[t].id = got[t].load.id /\ got[t].clean)
            => got[t].vals = got[t].load.vals

\* load is linearizable: between acquiring and releasing _locker a thread
\* has taken the counter's value but not yet stored its result, and the
\* abstract counter does not count it yet; the insert that ends the
\* critical section is the one step at which the id is taken and the
\* result stored; the return hands back that id.
InLoad == {t \in Threads : pc[t] \in {"read", "insert", "inserting"}}
AbstractLoad == INSTANCE AtomicLoad WITH
    next <- next_id - Cardinality(InLoad),
    res <- results,
    ret <- [t \in Threads |-> IF pc[t] = "return" THEN local[t].id ELSE NoThread],
    None <- NoThread,
    Absent <- Absent

NoMapRace == raced = {}
=============================================================================
