------------------------------ MODULE ReaderClb ------------------------------
(***************************************************************************)
(* The reader callback IReaderClb (src/libdariadb/interfaces/icallbacks.cpp)*)
(* between the thread that produces a query's samples and the thread that *)
(* consumes them.                                                          *)
(*                                                                         *)
(*  - the producer reads the query's reader to its end, one readNext at a *)
(*    time: UnionReader::readNext returns at isEnd() and otherwise calls   *)
(*    clb->call(sample) (engine.cpp), with no look at is_canceled(); when  *)
(*    the reader is exhausted it calls is_end() (spec 4.8):                *)
(*    is_end_called = true, then _cond.notify_all();                       *)
(*  - the consumer may cancel() and then wait()s: it locks a mutex local   *)
(*    to wait() and runs _cond.wait(locker, pred), i.e.                    *)
(*    while (!is_end_called) _cond.wait(locker).                          *)
(*                                                                         *)
(* Nobody else ever takes wait()'s mutex, so is_end() may run between the  *)
(* consumer's test of the predicate and its entry into the wait set.       *)
(* Spurious wake-ups are allowed by the standard but never promised, so    *)
(* they are left out.                                                      *)
(***************************************************************************)
EXTENDS Naturals

CONSTANTS
    N           \* number of samples the query has to deliver

ASSUME N \in Nat \ {0}

VARIABLES
    is_end_called,  \* IReaderClb::is_end_called
    is_cancel,      \* IReaderClb::is_cancel
    ppc,            \* producer: "read", then "done" after is_end()
    sent,           \* samples passed to call()
    afterCancel,    \* ghost: calls that began after cancel() returned
    cpc             \* consumer: "run", "test", "enter", "blocked", "done"

vars == <<is_end_called, is_cancel, ppc, sent, afterCancel, cpc>>

\* IReaderClb::IReaderClb
Init ==
    /\ is_end_called = FALSE
    /\ is_cancel = FALSE
    /\ ppc = "read"
    /\ sent = 0
    /\ afterCancel = 0
    /\ cpc = "run"

-----------------------------------------------------------------------------
(* Producer *)

\* UnionReader::readNext: return at isEnd(), else call(*res_it) and
\* ++res_it.
ProducerCall ==
    /\ ppc = "read"
    /\ sent < N
    /\ sent' = sent + 1
    /\ afterCancel' = IF is_cancel THEN afterCancel + 1 ELSE afterCancel
    /\ UNCHANGED <<is_end_called, is_cancel, ppc, cpc>>

\* IReaderClb::is_end: set the flag, then notify_all wakes every thread in
\* the condition variable's wait set (they go back to testing the flag).
\* The producer calls it once its reader is exhausted.
IsEnd ==
    /\ ppc = "read"
    /\ sent = N
    /\ is_end_called' = TRUE
    /\ cpc' = IF cpc = "blocked" THEN "test" ELSE cpc
    /\ ppc' = "done"
    /\ UNCHANGED <<is_cancel, sent, afterCancel>>

-----------------------------------------------------------------------------
(* Consumer *)

\* IReaderClb::cancel: a plain store of the flag.
Cancel ==
    /\ cpc = "run"
    /\ ~is_cancel
    /\ is_cancel' = TRUE
    /\ UNCHANGED <<is_end_called, ppc, sent, afterCancel, cpc>>

\* IReaderClb::wait: lock the local mutex and enter _cond.wait.
StartWait ==
    /\ cpc = "run"
    /\ cpc' = "test"
    /\ UNCHANGED <<is_end_called, is_cancel, ppc, sent, afterCancel>>

\* the predicate of _cond.wait: return when is_end_called, otherwise go on
\* to block.
WaitTest ==
    /\ cpc = "test"
    /\ cpc' = IF is_end_called THEN "done" ELSE "enter"
    /\ UNCHANGED <<is_end_called, is_cancel, ppc, sent, afterCancel>>

\* _cond.wait(locker): release the local mutex and join the wait set.
\* Only that local mutex orders this step after the test, and is_end()
\* does not take it.
WaitBlock ==
    /\ cpc = "enter"
    /\ cpc' = "blocked"
    /\ UNCHANGED <<is_end_called, is_cancel, ppc, sent, afterCancel>>

Next ==
    \/ ProducerCall \/ IsEnd
    \/ Cancel \/ StartWait \/ WaitTest \/ WaitBlock

\* Both threads are OS threads that keep getting scheduled: every step that
\* stays enabled is eventually taken.  A thread in the wait set has no
\* enabled step until notify_all.
Fairness ==
    /\ WF_vars(ProducerCall) /\ WF_vars(IsEnd)
    /\ WF_vars(StartWait) /\ WF_vars(WaitTest) /\ WF_vars(WaitBlock)

Spec == Init /\ [][Next]_vars /\ Fairness

-----------------------------------------------------------------------------
(* Properties *)

TypeOK ==
    /\ is_end_called \in BOOLEAN /\ is_cancel \in BOOLEAN
    /\ ppc \in {"read", "done"}
    /\ cpc \in {"run", "test", "enter", "blocked", "done"}
    /\ sent \in 0 .. N /\ afterCancel \in 0 .. N

\* cancel() is observed within one sample: once the consumer stored the
\* flag, the producer passes at most one more sample (spec 4.8 asks for a
\* bound of at most a chunk).  Nothing on the path from readNext to
\* call() reads is_canceled().
CancelBounded == afterCancel <= 1

\* A consumer that calls wait() eventually returns from it: is_end() wakes
\* it, or it finds is_end_called already set.
WaitReturns == (cpc = "test") ~> (cpc = "done")
=============================================================================
