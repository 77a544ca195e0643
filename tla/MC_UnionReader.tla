--------------------------- MODULE MC_UnionReader ---------------------------
(***************************************************************************)
(* Tier results for UnionReader.  Samples are [time, n] with a distinct    *)
(* ghost n.  The memory+AOF result is the memory tier's samples followed  *)
(* by the AOF's, so it need not be time-ordered.                          *)
(***************************************************************************)
EXTENDS UnionReader

S(t, n) == [time |-> t, n |-> n]
Id(p, c) == [page |-> p, cap |-> c]

\* one id whose page result ends after the memory result starts (sorted);
\* three ids: disjoint (concatenated), no data at all, and page after memory;
\* two ids with no page result, the second with a late AOF sample after a
\* newer memory sample (appended unsorted)
MCQueries ==
    { << Id(<<S(1, 1), S(3, 2)>>, <<S(2, 3)>>) >>,
      << Id(<<S(1, 1)>>, <<S(2, 2), S(3, 3)>>), Id(<<>>, <<>>),
         Id(<<S(2, 4)>>, <<S(1, 5)>>) >>,
      << Id(<<>>, <<S(1, 6)>>), Id(<<>>, <<S(3, 7), S(2, 8)>>) >> }

\* readInterval with an empty q.ids
MCEmptyIds == { <<>> }

\* a page sample and a memory sample of one id with the same time
MCTies == { << Id(<<S(2, 1)>>, <<S(2, 2)>>) >> }
=============================================================================
