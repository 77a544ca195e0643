------------------------------ MODULE AtomicLoad ------------------------------
(***************************************************************************)
(* What Engine::load promises its callers, as one atomic step per call: a  *)
(* load takes the next id of a counter that starts at the engine's first   *)
(* id, stores its result under that id, and later returns the id.  A      *)
(* stored result is never replaced.  QueryLoad is checked to implement     *)
(* this specification.                                                     *)
(***************************************************************************)
EXTENDS Naturals, Sequences

CONSTANTS
    Threads,    \* threads calling load
    Queries,    \* what a result is abstracted to
    Ids,        \* the ids a bounded run can issue
    Absent,     \* no result stored under an id
    None        \* a thread with no load waiting to return

VARIABLES
    next,       \* the id the next load takes
    res,        \* id -> stored result, or Absent
    ret,        \* per thread: the id its load will return, or None
    issued      \* ids returned, in return order

vars == <<next, res, ret, issued>>

Init ==
    /\ next = 0
    /\ res = [i \in Ids |-> Absent]
    /\ ret = [t \in Threads |-> None]
    /\ issued = <<>>

\* The whole of a load but its return: one step takes the id and stores
\* the result under it.
Load(t) ==
    /\ ret[t] = None
    /\ res[next] = Absent
    /\ \E q \in Queries : res' = [res EXCEPT ![next] = q]
    /\ ret' = [ret EXCEPT ![t] = next]
    /\ next' = next + 1
    /\ UNCHANGED issued

\* load returns the id it took.
Return(t) ==
    /\ ret[t] # None
    /\ issued' = Append(issued, ret[t])
    /\ ret' = [ret EXCEPT ![t] = None]
    /\ UNCHANGED <<next, res>>

Next == \E t \in Threads : Load(t) \/ Return(t)

Spec == Init /\ [][Next]_vars
=============================================================================
