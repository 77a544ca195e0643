----------------------------- MODULE MC_QueryLoad -----------------------------
(***************************************************************************)
(* Two threads, two calls each: two loads racing for the counter, a load  *)
(* and a getResult overlapping it, or getResults for ids not yet issued.   *)
(***************************************************************************)
EXTENDS QueryLoad

CONSTANTS t1, t2, qa, qb

MCThreads == {t1, t2}
MCQueries == {qa, qb}
=============================================================================
