------------------------------- MODULE MC_Page -------------------------------
(***************************************************************************)
(* Model values for Page: two series ids, times 1..3, flag blooms over two *)
(* bits.  Four chunks for three slots, so the page fills and the fourth    *)
(* append either is refused or wraps around.                               *)
(***************************************************************************)
EXTENDS Page

Chunk(cid, id, lo, hi, bloom, ro) ==
    [cid |-> cid, id |-> id, minTime |-> lo, maxTime |-> hi,
     bloom |-> bloom, readonly |-> ro]

\* c3 spans [1,3]; c2 and c4 are still open (not read-only) chunks.
MCChunks == { Chunk(1, 1, 1, 1, 1, TRUE),  Chunk(2, 2, 2, 3, 2, FALSE),
              Chunk(3, 1, 1, 3, 3, TRUE),  Chunk(4, 1, 3, 3, 1, FALSE) }

\* only read-only chunks: get_open_chunks never fires
MCReadOnlyChunks == { Chunk(1, 1, 1, 1, 1, TRUE), Chunk(3, 1, 1, 3, 3, TRUE),
                      Chunk(4, 1, 3, 3, 1, TRUE) }

Query(ids, flag, from, to) == [ids |-> ids, flag |-> flag, from |-> from, to |-> to]

\* a point query inside c3's span, and a query over everything for flag 1
MCQueries == { Query({1}, 0, 2, 2), Query({}, 1, 1, 3) }

\* a query whose interval contains every chunk's minTime and maxTime
MCFullQueries == { Query({}, 0, 1, 3) }
=============================================================================
