----------------------------- MODULE CtlDispatch -----------------------------
(***************************************************************************)
(* The dariadb-ctl tool (src/tools/dariadb-ctl/dariadb_ctl.cpp): main()    *)
(* parses the command line and then runs a chain of if-blocks in a fixed   *)
(* order, most of them ending in std::exit.  Each block is one action; the *)
(* command line is an input chosen in Init.  The effects on the storage    *)
(* folder are recorded: whether a database exists at storage_path, the     *)
(* stored strategy setting, and the commands that ran.                     *)
(*                                                                         *)
(* --set="strategy=<token>" goes through Settings::change (not in the      *)
(* tree; from spec 4.9) to operator>>(istream&, STRATEGY&) of              *)
(* src/libdariadb/storage/strategy.cpp.  A token is abstracted to its word *)
(* and whether it is upper case; to_upper makes it upper case.             *)
(***************************************************************************)
EXTENDS Naturals, Sequences, SequencesExt

CONSTANTS
    Args,       \* command lines: [opts, parse_ok, path_exists, bounds, token]
    Words       \* words a strategy token may spell (the four names and others)

Strategies == {"fast_write", "compressed", "memory", "cache"}
Tok(w, up) == [w |-> w, upper |-> up]

VARIABLES
    args,       \* the command line of this run
    pc,         \* the block of main() about to run, or "exited"
    exitCode,   \* "none" until std::exit or the return from main
    did,        \* commands that ran, in order
    store,      \* a database exists at storage_path
    strategy    \* the strategy stored in the settings of storage_path

vars == <<args, pc, exitCode, did, store, strategy>>

-----------------------------------------------------------------------------
(* STRATEGY operator>> and operator<< *)

\* utils::strings::to_upper
ToUpper(t) == [t EXCEPT !.upper = TRUE]

\* operator>>: four independent ifs on the upper-cased token; a token that
\* matches none leaves strat as it was.  ParseStrategyNoCache is the form
\* that lost the CACHE branch.
ParseStrategyNoCache(t, old) ==
    LET u == ToUpper(t) IN
    IF u \in {Tok(s, TRUE) : s \in Strategies \ {"cache"}} THEN u.w ELSE old
ParseStrategy(t, old) ==
    LET u == ToUpper(t) IN
    IF u \in {Tok(s, TRUE) : s \in Strategies} THEN u.w ELSE old

\* operator<<: the upper-case name, "UNKNOW: ui16=<n>" for other values
PrintStrategy(s) == IF s \in Strategies THEN Tok(s, TRUE) ELSE Tok("unknow", TRUE)

-----------------------------------------------------------------------------
(* main() *)

Init ==
    /\ args \in Args
    /\ pc = "parse"
    /\ exitCode = "none"
    /\ did = <<>>
    /\ store = args.path_exists
    /\ strategy = "compressed"

Goto(l) == pc' = l /\ UNCHANGED <<exitCode, did, store, strategy>>
Exit(code) == pc' = "exited" /\ exitCode' = code
Ran(c) == did' = Append(did, c)

\* po::store(po::parse_command_line(...)): an exception exits with 1.
Parse ==
    /\ pc = "parse" /\ UNCHANGED args
    /\ IF args.parse_ok THEN Goto("help")
       ELSE Exit(1) /\ UNCHANGED <<did, store, strategy>>

\* --help, or no argument at all (argc == 1): print the options, exit 0.
Help ==
    /\ pc = "help" /\ UNCHANGED args
    /\ IF "help" \in args.opts \/ args.opts = {}
       THEN Exit(0) /\ Ran("help") /\ UNCHANGED <<store, strategy>>
       ELSE Goto("create")

\* --create: an Engine on the new folder makes a database there; exit 1.
Create ==
    /\ pc = "create" /\ UNCHANGED args
    /\ IF "create" \in args.opts
       THEN Exit(1) /\ Ran("create") /\ UNCHANGED <<store, strategy>>
       ELSE Goto("format")

\* check_path_exists: a storage_path that does not exist exits with 1.
PathOK == store

\* --format, --settings and --set: check the path, do the command, exit 0.
\* For --set the token goes through Settings::change to operator>>.
ReadBlock(cmd, next) ==
    /\ pc = cmd /\ UNCHANGED args
    /\ IF cmd \in args.opts
       THEN IF ~PathOK
            THEN Exit(1) /\ UNCHANGED <<did, store, strategy>>
            ELSE /\ Exit(0) /\ Ran(cmd) /\ UNCHANGED store
                 /\ strategy' = IF cmd = "set"
                                THEN ParseStrategy(args.token, strategy)
                                ELSE strategy
       ELSE Goto(next)

\* --compress: an Engine on storage_path (which makes a database there if
\* there was none), compress_all, stop; main goes on.
Compress ==
    /\ pc = "compress" /\ UNCHANGED args
    /\ IF "compress" \in args.opts
       THEN /\ pc' = "compact" /\ Ran("compress") /\ store' = TRUE
            /\ UNCHANGED <<exitCode, strategy>>
       ELSE Goto("compact")

\* --compact: compactTo(0) with neither bound, compactbyTime with both (an
\* Engine on storage_path either way), exit 0; one bound alone exits 1.
Compact ==
    /\ pc = "compact" /\ UNCHANGED args
    /\ IF "compact" \in args.opts
       THEN IF args.bounds = "one"
            THEN Exit(1) /\ UNCHANGED <<did, store, strategy>>
            ELSE /\ Exit(0) /\ store' = TRUE /\ UNCHANGED strategy
                 /\ Ran(IF args.bounds = "none" THEN "compactTo" ELSE "compactbyTime")
       ELSE Goto("end")

\* the end of main(): return 0.
End ==
    /\ pc = "end" /\ UNCHANGED args
    /\ Exit(0) /\ UNCHANGED <<did, store, strategy>>

Next ==
    \/ Parse \/ Help \/ Create
    \/ ReadBlock("format", "settings") \/ ReadBlock("settings", "set")
    \/ ReadBlock("set", "compress")
    \/ Compress \/ Compact \/ End

Spec == Init /\ [][Next]_vars /\ WF_vars(Next)

-----------------------------------------------------------------------------
(* Properties *)

\* --set="strategy=<token>" with a token that names a strategy, in either
\* case, stores exactly that strategy, and what --settings then prints for
\* it (operator<<) parses back to it (operator>>).
SetStoresNamed ==
    ("set" \in Range(did) /\ args.token.w \in Strategies)
        => /\ strategy = args.token.w
           /\ ParseStrategy(PrintStrategy(strategy), "compressed") = strategy

\* A successful --create exits with 0 (spec 4.9: exit code 0 on success).
CreateExitsZero ==
    ("create" \in Range(did) /\ pc = "exited") => exitCode = 0

\* A storage command on a storage_path that does not exist exits with 1
\* (spec 4.9: exit code 1 on an invalid path).
MissingPathFails ==
    (/\ pc = "exited" /\ ~args.path_exists /\ args.parse_ok
     /\ args.opts \cap {"help", "create"} = {}
     /\ args.opts \cap {"format", "settings", "set", "compress", "compact"} # {})
        => exitCode = 1

\* --set exits with 0 only when the setting now holds the value asked for
\* (spec 4.9: exit code 1 on invalid arguments).
SetApplies ==
    ("set" \in Range(did) /\ pc = "exited" /\ exitCode = 0) => strategy = ToUpper(args.token).w
=============================================================================
