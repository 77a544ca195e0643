------------------------------ MODULE MC_Engine ------------------------------
(***************************************************************************)
(* Two writer threads; w2 appends a sample older than w1's, so a late      *)
(* write can land in the AOF after a newer sample reached the memory tier. *)
(***************************************************************************)
EXTENDS Engine

S(t, n) == [time |-> t, n |-> n]

MCInput == [w \in {"w1", "w2"} |->
              IF w = "w1" THEN << S(2, 1) >> ELSE << S(1, 2), S(3, 3) >>]
=============================================================================
