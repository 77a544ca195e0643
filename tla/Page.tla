-------------------------------- MODULE Page --------------------------------
(***************************************************************************)
(* One memory-mapped page file of the page tier (src/libdariadb/storage/   *)
(* page.cpp): a header, an index of chunk_per_storage slots and a region   *)
(* of chunk bodies.  Page::append writes a sealed chunk into the next      *)
(* slot (or, in SINGLE mode, wraps around and overwrites from slot 0);     *)
(* Page::get_chunks opens a PageCursor whose readNext scans the index      *)
(* without the page's lock; Page::get_open_chunks hands back the chunks    *)
(* that are not read-only.                                                 *)
(*                                                                         *)
(* Data is abstracted: a chunk is a record carrying its series id, its     *)
(* [minTime, maxTime], its flag bloom and its read-only bit, plus a ghost  *)
(* identity cid.  A body cell holds the chunk whose bytes were copied      *)
(* there; offsets are counted in units of chunk_size.                      *)
(***************************************************************************)
EXTENDS Integers, FiniteSets, Sequences, Bitwise

CONSTANTS
    CPS,        \* header->chunk_per_storage: number of index slots
    Modes,      \* the STORAGE_MODEs the page manager may be configured with
    Chunks,     \* the sealed chunks the dropper may hand to the page
    Queries,    \* [ids, flag, from, to] queries readers may open
    Readers,    \* handles of the PageCursors readers may hold
    MaxTime     \* std::numeric_limits<Time>::max() of the model

ASSUME CPS \in Nat \ {0}
ASSUME Modes \subseteq {"SINGLE", "MULTIPLE"}

Slots == 0 .. CPS - 1
NoChunk == [cid |-> 0, id |-> 0, minTime |-> 0, maxTime |-> 0,
            bloom |-> 0, readonly |-> FALSE]   \* a zero-filled record
NoPending == [info |-> NoChunk, offset |-> 0]      \* no Chunk under construction

VARIABLES
    hdr,        \* PageHeader fields used by page.cpp
    index,      \* Page_ChunkIndex[CPS]: info, is_init, offset
    body,       \* chunk body region: offset -> chunk whose bytes are there
    cursor,     \* PageCursor per reader
    appended,   \* ghost: chunks Page::append accepted
    rejected,   \* ghost: chunks Page::append refused (page full)
    taken,      \* ghost: chunks handed out by get_open_chunks
    mode        \* the MODE every Page::append of this page is passed

vars == <<hdr, index, body, cursor, appended, rejected, taken, mode>>

\* bloom_check / inInterval of the library (bloom_filter.h, utils.h).
BloomCheck(bloom, x) == (bloom & x) = x
InInterval(from, to, x) == from <= x /\ x <= to

ClosedCursor == [open |-> FALSE, q |-> CHOOSE q \in Queries : TRUE,
                 it |-> 0, is_end |-> TRUE, out |-> <<>>, snap |-> {},
                 pending |-> NoPending]

\* Page::create: the region is zero-filled, then the header initialised.
Init ==
    /\ hdr = [minTime |-> MaxTime, maxTime |-> 0, pos_index |-> 0,
              pos_chunks |-> 0, addeded |-> 0, is_overwrite |-> FALSE,
              count_readers |-> 0]
    /\ index = [i \in Slots |-> [info |-> NoChunk, is_init |-> FALSE,
                                 offset |-> 0]]
    /\ body = [o \in Slots |-> NoChunk]
    /\ cursor = [r \in Readers |-> ClosedCursor]
    /\ appended = {}
    /\ rejected = {}
    /\ taken = {}
    /\ mode \in Modes

\* the chunks an initialised index record describes (ghost, for snap)
Stored == {index[i].info : i \in {s \in Slots : index[s].is_init}}

\* Page::is_full; IsFullLate is the off-by-one form (<= for <).
IsFullLate(h) == ~(h.pos_index <= CPS)
IsFull(h) == ~(h.pos_index < CPS)

\* A full page refuses a chunk unless the page is in SINGLE mode.
\* RefusesNever is the form that ignores the mode.
RefusesNever(h) == FALSE
Refuses(h) == IsFull(h) /\ mode # "SINGLE"

\* The body offset of the slot at pos_index: a fresh slot takes pos_chunks,
\* an overwritten one keeps its offset.  SlotOffsetFresh drops the
\* is_overwrite test.
SlotOffsetFresh(h) == h.pos_chunks
SlotOffset(h) == IF h.is_overwrite THEN index[h.pos_index].offset ELSE h.pos_chunks

\* The header after storing ch: pos_chunks and addeded_chunks only grow for
\* a fresh slot, and [minTime, maxTime] is widened to cover ch.
\* HeaderAfterSet assigns maxTime instead of widening it.
HeaderAfterSet(h, ch) ==
    [h EXCEPT !.pos_chunks = IF h.is_overwrite THEN @ ELSE @ + 1,
              !.addeded = IF h.is_overwrite THEN @ ELSE @ + 1,
              !.pos_index = @ + 1,
              !.minTime = IF ch.minTime < @ THEN ch.minTime ELSE @,
              !.maxTime = ch.maxTime]
HeaderAfter(h, ch) ==
    [h EXCEPT !.pos_chunks = IF h.is_overwrite THEN @ ELSE @ + 1,
              !.addeded = IF h.is_overwrite THEN @ ELSE @ + 1,
              !.pos_index = @ + 1,
              !.minTime = IF ch.minTime < @ THEN ch.minTime ELSE @,
              !.maxTime = IF ch.maxTime > @ THEN ch.maxTime ELSE @]

(***************************************************************************)
(* Page::append(ch, mode), under the page's spin lock.  A full page either *)
(* refuses the chunk, or in SINGLE mode switches to overwriting from slot  *)
(* 0.  The index record, the body copy and the header are all written.    *)
(***************************************************************************)
append(ch) ==
    /\ ch \notin appended \cup rejected
    /\ IF Refuses(hdr)
       THEN /\ rejected' = rejected \cup {ch}
            /\ UNCHANGED <<hdr, index, body, appended>>
       ELSE LET h   == IF IsFull(hdr)
                       THEN [hdr EXCEPT !.is_overwrite = TRUE, !.pos_index = 0]
                       ELSE hdr
                off == SlotOffset(h)
            IN /\ index' = [index EXCEPT ![h.pos_index] =
                              [info |-> ch, is_init |-> TRUE, offset |-> off]]
               /\ body' = [body EXCEPT ![off] = ch]
               /\ hdr' = HeaderAfter(h, ch)
               /\ appended' = appended \cup {ch}
               /\ UNCHANGED rejected
    /\ UNCHANGED <<cursor, taken, mode>>

(***************************************************************************)
(* Page::get_chunks: a new PageCursor (reset_pos) and count_readers++.     *)
(***************************************************************************)
GetChunks(r, q) ==
    /\ ~cursor[r].open
    /\ cursor' = [cursor EXCEPT ![r] = [open |-> TRUE, q |-> q, it |-> 0,
                                        is_end |-> FALSE, out |-> <<>>,
                                        snap |-> Stored, pending |-> NoPending]]
    /\ hdr' = [hdr EXCEPT !.count_readers = @ + 1]
    /\ UNCHANGED <<index, body, appended, rejected, taken, mode>>

(***************************************************************************)
(* One iteration of the loop of PageCursor::readNext (and so of            *)
(* Cursor::readAll).  The cursor holds its own _locker, not the page's,   *)
(* so a Page::append may run between two iterations, and also inside the  *)
(* matching one: new Chunk(_index_it->info, link->chunks + offset, size)   *)
(* copies the index info and the offset first (ReadNext), then the        *)
(* chunk_size bytes of the body into the Chunk's own buffer (CopyBody).   *)
(***************************************************************************)
ReadNext(r) ==
    LET c == cursor[r]
        e == index[c.it]
        Matches == /\ c.q.ids = {} \/ e.info.id \in c.q.ids
                   /\ BloomCheck(e.info.bloom, c.q.flag)
                   /\ \/ InInterval(c.q.from, c.q.to, e.info.minTime)
                      \/ InInterval(c.q.from, c.q.to, e.info.maxTime)
    IN /\ c.open /\ ~c.is_end
       /\ c.pending = NoPending
       /\ cursor' = [cursor EXCEPT ![r] =
             CASE c.it = CPS -> [c EXCEPT !.is_end = TRUE]
               [] ~e.is_init -> [c EXCEPT !.is_end = TRUE, !.it = @ + 1]
               [] Matches    -> [c EXCEPT !.pending = [info |-> e.info,
                                                      offset |-> e.offset]]
               [] OTHER      -> [c EXCEPT !.it = @ + 1]]
       /\ UNCHANGED <<hdr, index, body, appended, rejected, taken, mode>>

\* The rest of the matching iteration: the Chunk is handed to cbk->call,
\* then the cursor advances itself ("_index_it++; break;"), since the break
\* skips the loop's own increment.  HandOutStay forgets that increment.
HandOutStay(c, ch) ==
    [c EXCEPT !.out = Append(@, ch), !.pending = NoPending]
HandOut(c, ch) ==
    [c EXCEPT !.it = @ + 1, !.out = Append(@, ch), !.pending = NoPending]

\* The Chunk constructor copies the body bytes at the offset it was given.
CopyBody(r) ==
    LET c == cursor[r]
    IN /\ c.open
       /\ c.pending # NoPending
       /\ cursor' = [cursor EXCEPT ![r] =
             HandOut(c, [info |-> c.pending.info, bytes |-> body[c.pending.offset]])]
       /\ UNCHANGED <<hdr, index, body, appended, rejected, taken, mode>>

(***************************************************************************)
(* ~PageCursor: the cursor is released and Page::dec_reader runs.          *)
(* DecReaderSkipped is the destructor that forgets dec_reader.             *)
(***************************************************************************)
DecReaderSkipped(h) == h
DecReader(h) == [h EXCEPT !.count_readers = @ - 1]

CloseCursor(r) ==
    /\ cursor[r].open
    /\ cursor' = [cursor EXCEPT ![r] = ClosedCursor]
    /\ hdr' = DecReader(hdr)
    /\ UNCHANGED <<index, body, appended, rejected, taken, mode>>

(***************************************************************************)
(* Page::get_open_chunks: every initialised slot below pos_index whose     *)
(* chunk is not read-only is marked not initialised and handed out.       *)
(***************************************************************************)
OpenSlots == {i \in 0 .. hdr.pos_index - 1 :
                 index[i].is_init /\ ~index[i].info.readonly}

GetOpenChunks ==
    /\ OpenSlots # {}
    /\ index' = [i \in Slots |-> IF i \in OpenSlots
                                 THEN [index[i] EXCEPT !.is_init = FALSE]
                                 ELSE index[i]]
    /\ taken' = taken \cup {index[i].info : i \in OpenSlots}
    /\ UNCHANGED <<hdr, body, cursor, appended, rejected, mode>>

Next ==
    \/ \E ch \in Chunks : append(ch)
    \/ \E r \in Readers, q \in Queries : GetChunks(r, q)
    \/ \E r \in Readers : ReadNext(r)
    \/ \E r \in Readers : CopyBody(r)
    \/ \E r \in Readers : CloseCursor(r)
    \/ GetOpenChunks

Spec == Init /\ [][Next]_vars

-----------------------------------------------------------------------------
(***************************************************************************)
(* A crash of the process, then Page::open.  The header, the index and the *)
(* bodies live in the mapped file, so every store the process made before  *)
(* dying is there when the file is mapped again; the cursors, their lock   *)
(* and the page's spin lock are gone, and Page::open (lines 38-49) reuses  *)
(* the header exactly as it finds it.  A crash can fall between any two    *)
(* stores of Page::append, taken in program order.                         *)
(***************************************************************************)
AppendStores == 11

\* The n-th store of Page::append of ch, applied to the mapped state s.
Store(s, ch, n) ==
    LET h == s.hdr
        p == h.pos_index
    IN CASE n = 1 -> IF IsFull(h) THEN [s EXCEPT !.hdr.is_overwrite = TRUE] ELSE s
         [] n = 2 -> IF IsFull(h) THEN [s EXCEPT !.hdr.pos_index = 0] ELSE s
         [] n = 3 -> [s EXCEPT !.index[p].info = ch]
         [] n = 4 -> [s EXCEPT !.index[p].is_init = TRUE]
         [] n = 5 -> IF h.is_overwrite THEN s
                     ELSE [s EXCEPT !.index[p].offset = h.pos_chunks]
         [] n = 6 -> IF h.is_overwrite THEN s ELSE [s EXCEPT !.hdr.pos_chunks = @ + 1]
         [] n = 7 -> IF h.is_overwrite THEN s ELSE [s EXCEPT !.hdr.addeded = @ + 1]
         [] n = 8 -> [s EXCEPT !.body[s.index[p].offset] = ch]
         [] n = 9 -> [s EXCEPT !.hdr.pos_index = @ + 1]
         [] n = 10 -> [s EXCEPT !.hdr.minTime = IF ch.minTime < @ THEN ch.minTime ELSE @]
         [] n = 11 -> [s EXCEPT !.hdr.maxTime = IF ch.maxTime > @ THEN ch.maxTime ELSE @]

\* The mapped state after the first k stores of Page::append(ch).
RECURSIVE Partial(_, _, _)
Partial(s, ch, k) == IF k = 0 THEN s ELSE Store(Partial(s, ch, k - 1), ch, k)

\* The process dies, between two calls or after the first k stores of an
\* append that never returned, and Page::open maps the file again.  No
\* destructor runs, so no dec_reader.
CrashOpen ==
    /\ \/ UNCHANGED <<hdr, index, body>>
       \/ \E ch \in Chunks \ (appended \cup rejected), k \in 1 .. AppendStores - 1 :
             LET s == Partial([hdr |-> hdr, index |-> index, body |-> body], ch, k)
             IN /\ ~Refuses(hdr)
                /\ hdr' = s.hdr /\ index' = s.index /\ body' = s.body
    /\ cursor' = [r \in Readers |-> ClosedCursor]
    /\ UNCHANGED <<appended, rejected, taken, mode>>

NextCrash == Next \/ CrashOpen

SpecCrash == Init /\ [][NextCrash]_vars

-----------------------------------------------------------------------------
(* Properties *)

TypeOK ==
    /\ hdr.pos_index \in 0 .. CPS
    /\ hdr.pos_chunks \in 0 .. CPS
    /\ hdr.count_readers \in Nat
    /\ \A i \in Slots : index[i].info \in Chunks \cup {NoChunk}
    /\ \A r \in Readers : cursor[r].it \in 0 .. CPS
    /\ appended \cup rejected \cup taken \subseteq Chunks

\* In MULTIPLE mode, every chunk Page::append accepted (and get_open_chunks
\* did not hand out) is still reachable: an initialised slot describes it
\* and the body cell at that slot's offset holds its bytes.  MULTIPLE mode
\* never overwrites, so this is the page's durability.
AcceptedChunksIntact ==
    mode = "MULTIPLE" =>
    \A ch \in appended \ taken :
        \E i \in Slots : /\ index[i].is_init
                         /\ index[i].info = ch
                         /\ body[index[i].offset] = ch

\* The bodies of initialised slots stay inside the chunk region and no two
\* initialised slots share a body, also after the SINGLE-mode wrap-around
\* that reuses offsets written by earlier appends.
BodiesInRegion ==
    \A i, j \in Slots :
        /\ index[i].is_init => index[i].offset \in Slots
        /\ (i # j /\ index[i].is_init /\ index[j].is_init)
              => index[i].offset # index[j].offset

\* The header's [minTime, maxTime] covers every initialised index record,
\* which is what lets the page manager skip a page by its header alone.
HeaderCoversIndex ==
    \A i \in Slots : index[i].is_init =>
        /\ hdr.minTime <= index[i].info.minTime
        /\ index[i].info.maxTime <= hdr.maxTime

\* count_readers equals the number of live PageCursors: get_chunks and the
\* cursor's destructor stay paired, so the page is never unmapped under a
\* reader and never pinned forever.
ReaderCountExact ==
    hdr.count_readers = Cardinality({r \in Readers : cursor[r].open})

\* One cursor never hands out the same chunk twice, whatever appends,
\* overwrites and get_open_chunks run between its readNext calls: after a
\* match, PageCursor::readNext moves past the slot before it breaks.
HandsOutOnce ==
    \A r \in Readers : \A j, k \in DOMAIN cursor[r].out :
        j # k => cursor[r].out[j].info # cursor[r].out[k].info

\* Every Chunk a PageCursor hands to its callback carries the bytes of the
\* chunk its info describes: no Page::append, which runs under the page's
\* lock and not the cursor's, rewrites the slot between the Chunk
\* constructor's copy of the index info and its copy of the body.
ChunkMatchesIndex ==
    \A r \in Readers : \A k \in DOMAIN cursor[r].out :
        cursor[r].out[k].bytes = cursor[r].out[k].info

\* A cursor that reached its end has handed out every chunk that matches
\* the query (id, flag, and [minTime, maxTime] meeting [from, to]) and was
\* stored in the page for the whole life of the cursor.
Overlaps(ch, q) == ch.minTime <= q.to /\ q.from <= ch.maxTime
Wanted(ch, q) == /\ q.ids = {} \/ ch.id \in q.ids
                 /\ BloomCheck(ch.bloom, q.flag)
                 /\ Overlaps(ch, q)
ReadComplete ==
    \A r \in Readers :
        (cursor[r].open /\ cursor[r].is_end) =>
            \A ch \in Stored :
                (Wanted(ch, cursor[r].q) /\ ch \in cursor[r].snap)
                    => \E k \in DOMAIN cursor[r].out : cursor[r].out[k].info = ch
=============================================================================
