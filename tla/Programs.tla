------------------------------ MODULE Programs ------------------------------
(***************************************************************************)
(* A chain of programs, each executed by the one before: shells that set   *)
(* variables, `envproxy run` and what it runs, with what Launch says each  *)
(* of them does to the environment.                                        *)
(***************************************************************************)
EXTENDS Launch

CONSTANTS
  Names,       \* what files and directories are called
  Bin,         \* the directory of the program envproxy
  Exports,     \* what may be exported: <<variable, value>> pairs
  Arguments,   \* what --socket may be, its default among them
  Replies,     \* what the agent may say of PYTHONPATH or JAVA_TOOL_OPTIONS, or Unset
  MaxPrograms, \* bound on the programs executed
  MaxExports   \* bound on the exports

Path == Seq(Names)

ASSUME ProgramsAssumption ==
  /\ Languages \cup {"envproxy", "share", "support", ".."} \subseteq Names
  /\ Unset \notin Path \cup Seq(Path)
  /\ Files \subseteq Path
  /\ Replies \subseteq Seq(Path) \cup {Unset}
  /\ \A export \in Exports :
       /\ export[1] \in Range(HookVar) => export[2] \in Seq(Path)
       /\ export[1] \in Range(PathVar) => export[2] \in Path

VARIABLES
  env,       \* the environment, as the programs executed next get it
  program,   \* what is running: "envproxy", or "other"
  executed,  \* how many programs have been executed
  exported,  \* how many exports there have been
  waited,    \* the socket that the last run waited for, Unset if there was none or a
             \* different one has been exported since
  users      \* (history variable) language -> the entries that are not the library's

programs == <<env, program, executed, exported, waited, users>>

\* The entries of a value that are not the library's own, each with its place among them.
Users(language, value) ==
  LET IsUsers(e) == (IF language = "python" THEN e \o <<Marker[language]>> ELSE e) \notin Files
      places     == {i \in DOMAIN value : IsUsers(value[i])}
  IN  IF value = Unset THEN {}
      ELSE {<<Cardinality({j \in places : j <= i}), value[i]>> : i \in places}

ProgramsInit ==
  /\ env = <<>> /\ program = "other"
  /\ executed = 0 /\ exported = 0
  /\ waited = Unset
  /\ users = [l \in Languages |-> {}]

\* A program is started with the environment e.  What the agent resolves of a variable
\* takes the place of what was there.
StartWith(e, says) ==
  /\ executed < MaxPrograms
  /\ executed' = executed + 1
  /\ env' = Started(e, says)
  /\ users' = [l \in Languages |->
       IF Preloaded(e) # Unset /\ Wanted(e, Preloaded(e), l) /\ IsEnabled(e) /\ says[l] # Unset
         THEN Users(l, says[l]) ELSE users[l]]

Exec(says) ==
  /\ program = "other"
  /\ StartWith(env, says)
  /\ program' \in {"envproxy", "other"}
  /\ UNCHANGED <<exported, waited>>

\* cmd_run, once its wait is over, unless there is no library to be found.
Run(socket, says) ==
  /\ program = "envproxy"
  /\ FindLibenvproxy(env, Bin) # Unset
  /\ StartWith(CmdRun(env, Bin, socket), says)
  /\ program' = "other"
  /\ waited' = RunSocket(env, socket)
  /\ UNCHANGED exported

\* A shell sets a variable, or puts an entry before those that PYTHONPATH has.
Export(name, value) ==
  LET new == IF name # "PYTHONPATH" THEN value
             ELSE value \o Existing(env, name, Unset)
  IN  /\ program = "other"
      /\ exported < MaxExports
      /\ exported' = exported + 1
      /\ env' = Setenv(env, name, new)
      /\ users' = [l \in Languages |-> IF HookVar[l] = name THEN Users(l, new) ELSE users[l]]
      /\ waited' = IF name = "ENVPROXY_SOCKET" THEN Unset ELSE waited
      /\ UNCHANGED <<program, executed>>

ProgramsNext ==
  \/ \E says \in [Languages -> Replies] :
       Exec(says) \/ \E socket \in Arguments : Run(socket, says)
  \/ \E export \in Exports : Export(export[1], export[2])

-----------------------------------------------------------------------------

\* However many programs have been executed, by `run` or not: what the user, or the
\* agent, has put into PYTHONPATH and JAVA_TOOL_OPTIONS is there, whole and in order,
\* between what the constructors have added.
UsersEntriesKept ==
  \A l \in Languages : Users(l, Value(env, HookVar[l])) = users[l]

\* "Wait for the agent socket to be ready before exec'ing": what a program that was run
\* asks, itself or as Python or Java, is at the path that was waited for; if that is
\* empty, run does not wait and Java asks at the default path.
AskedWhereWaited ==
  waited # Unset => Asks(env) \subseteq {waited, IF waited = "" THEN DefaultSocket ELSE waited}

\* The inductive invariants behind the two: the variables of the hooks hold paths, and ...
HasPaths(e) ==
  \A l \in Languages :
    /\ HookVar[l] \in DOMAIN e => e[HookVar[l]] \in Seq(Path)
    /\ PathVar[l] \in DOMAIN e => e[PathVar[l]] \in Path

EntriesInv == HasPaths(env) /\ UsersEntriesKept

\* ... the environment names the socket that was waited for.
WaitedInv ==
  waited # Unset => "ENVPROXY_SOCKET" \in DOMAIN env /\ env["ENVPROXY_SOCKET"] = waited

=============================================================================
