----------------------------- MODULE QueryParser -----------------------------
(***************************************************************************)
(* dariadb::net::http::parse_query and its helpers read_meas_array and    *)
(* read_single_meas (src/network/libserver/http/query_parser.cpp): the     *)
(* HTTP server's decoding of a JSON request into an append or a            *)
(* readInterval query.                                                     *)
(*                                                                         *)
(* The JSON text is abstracted to the value json::parse builds from it: a  *)
(* record whose "type" is a string, or a request without one (then         *)
(* js["type"] is null and its conversion to std::string throws).  An       *)
(* "append_values" object maps a parameter name to its F, V and T arrays; *)
(* names are 1 .. Names in the order nlohmann's std::map iterates them.    *)
(* The scheme that turns a name into an id is not in the tree; a name is   *)
(* its own id.  A write past the end of sub_result is undefined behaviour  *)
(* (a heap overflow): the call's outcome is recorded as "overflow".        *)
(***************************************************************************)
EXTENDS Naturals, Sequences, SequencesExt

CONSTANTS
    Names,      \* number of distinct parameter names a request may carry
    Vals,       \* the numbers a request's arrays and fields may hold
    MaxLen      \* the longest F, V or T array of a request

NameSet == 1 .. Names
Arrays == UNION {[1 .. n -> Vals] : n \in 0 .. MaxLen}

\* One name's entry in "append_values": {"F": [...], "V": [...], "T": [...]}
Entries == [F : Arrays, V : Arrays, T : Arrays]

\* The requests json::parse can hand to parse_query.
Requests ==
    [type : {"none"}]
    \cup [type : {"append"}, single : {FALSE},
          values : UNION {[S -> Entries] : S \in SUBSET NameSet}]
    \cup [type : {"append"}, single : {TRUE},
          value : [T : Vals, F : Vals, V : Vals, I : NameSet]]
    \cup [type : {"readInterval"}, from : Vals, to : Vals, flag : Vals,
          id : UNION {[1 .. n -> NameSet] : n \in 0 .. Names}]
    \cup [type : {"other"}]

\* scheme->addParam / name_map.idByParam (the scheme is not in the tree)
IdOf(name) == name

\* A Meas after std::vector::resize: value-initialised, every field 0.
ZeroMeas == [id |-> 0, time |-> 0, value |-> 0, flag |-> 0]

NoQuery == [type |-> "unknow", append |-> <<>>,
            interval |-> [ids |-> <<>>, flag |-> 0, from |-> 0, to |-> 0]]

VARIABLES
    req,        \* the parsed JSON request
    pc,         \* "recv" before parse_query, "done" after it
    result,     \* the http_query parse_query returns
    status      \* "ok", "thrown" (an exception left parse_query), "overflow"

vars == <<req, pc, result, status>>

-----------------------------------------------------------------------------
(* read_meas_array *)

\* One of the loops "sub_result[pos++].field = *it": writes arr[1..] into
\* sub_result's first Len(arr) elements.
FillField(sub, arr, field) ==
    [i \in DOMAIN sub |-> IF i <= Len(arr) THEN [sub[i] EXCEPT ![field] = arr[i]]
                                           ELSE sub[i]]

\* sub_result is sized by F alone; the V and T loops write Len(V) and
\* Len(T) elements into it.
Overflows(e) == Len(e.V) > Len(e.F) \/ Len(e.T) > Len(e.F)

\* The samples of one name: resize(F.size()), the three loops, then each
\* copied with the name's id into the result.
SubResult(name, e) ==
    LET s0 == [i \in 1 .. Len(e.F) |-> ZeroMeas]
        s3 == FillField(FillField(FillField(s0, e.F, "flag"), e.V, "value"), e.T, "time")
    IN [i \in DOMAIN s3 |-> [s3[i] EXCEPT !.id = IdOf(name)]]

\* The outer loop over "append_values", in key order.
ReadMeasArray(values) ==
    FoldLeft(LAMBDA acc, n : acc \o SubResult(n, values[n]), <<>>,
             SetToSortSeq(DOMAIN values, <))

ArrayOverflows(values) == \E n \in DOMAIN values : Overflows(values[n])

\* read_single_meas: one sample from "append_value"'s T, F, V and I.
ReadSingleMeas(v) == <<[id |-> IdOf(v.I), time |-> v.T, value |-> v.V, flag |-> v.F]>>

-----------------------------------------------------------------------------

Init ==
    /\ req \in Requests
    /\ pc = "recv"
    /\ result = NoQuery
    /\ status = "ok"

\* parse_query(scheme, query), the whole call.
ParseQuery ==
    /\ pc = "recv"
    /\ pc' = "done"
    /\ CASE req.type = "none" ->
              /\ status' = "thrown"
              /\ UNCHANGED result
         [] req.type = "append" /\ req.single ->
              /\ result' = [NoQuery EXCEPT !.type = "append",
                                           !.append = ReadSingleMeas(req.value)]
              /\ UNCHANGED status
         [] req.type = "append" /\ ~req.single ->
              /\ result' = [NoQuery EXCEPT !.type = "append",
                                           !.append = ReadMeasArray(req.values)]
              /\ status' = IF ArrayOverflows(req.values) THEN "overflow" ELSE "ok"
         [] req.type = "readInterval" ->
              /\ result' = [NoQuery EXCEPT !.type = "readInterval",
                               !.interval = [ids |-> [i \in DOMAIN req.id |-> IdOf(req.id[i])],
                                             flag |-> req.flag, from |-> req.from,
                                             to |-> req.to]]
              /\ UNCHANGED status
         [] OTHER ->
              UNCHANGED <<result, status>>
    /\ UNCHANGED req

Next == ParseQuery

Spec == Init /\ [][Next]_vars

-----------------------------------------------------------------------------
(* Properties *)

\* parse_query never writes past the end of a buffer, whatever request a
\* client sends: read_meas_array's V and T loops stay inside sub_result.
NoOverflow == status # "overflow"
=============================================================================
