--------------------------- MODULE MC_CtlDispatch ---------------------------
(***************************************************************************)
(* Every combination of the options main() tests, a command line that      *)
(* fails to parse, a storage_path that exists or not, the compaction       *)
(* bounds when --compact is given, and strategy tokens when --set is.      *)
(***************************************************************************)
EXTENDS CtlDispatch

MCWords == Strategies \cup {"bogus"}

Opts == {"help", "verbose", "create", "format", "settings", "set",
         "compress", "compact"}

MCArgs ==
    UNION {{[opts |-> o, parse_ok |-> p, path_exists |-> e, bounds |-> b,
             token |-> t] :
              p \in BOOLEAN, e \in BOOLEAN,
              b \in IF "compact" \in o THEN {"none", "one", "both"} ELSE {"none"},
              t \in IF "set" \in o THEN {Tok(w, u) : w \in MCWords, u \in BOOLEAN}
                                   ELSE {Tok("memory", FALSE)}} :
           o \in SUBSET Opts}
=============================================================================
