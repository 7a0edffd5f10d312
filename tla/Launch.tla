------------------------------- MODULE Launch -------------------------------
(***************************************************************************)
(* How a program comes to ask the agent, as operators on environments:     *)
(* `envproxy run` (envproxy-cli/src/main.rs), the constructor of the       *)
(* preloaded library (libenvproxy/src/lib.rs), and where the library and   *)
(* the hooks of Python and Java look for the agent's socket.               *)
(*                                                                         *)
(* An environment is a function from the variables that are set to their   *)
(* values.  A path is a sequence of names; the values of PYTHONPATH and of *)
(* JAVA_TOOL_OPTIONS are sequences of paths, a javaagent option being the  *)
(* path of its jar.                                                        *)
(***************************************************************************)
EXTENDS Naturals, SequencesExt

CONSTANTS
  Unset,         \* the value of a variable that is not set; Rust's None
  Files,         \* the paths of the files there are, as they are looked for
  DefaultSocket  \* DEFAULT_SOCKET_PATH

Value(env, name) == IF name \in DOMAIN env THEN env[name] ELSE Unset
Setenv(env, name, value) ==
  [n \in DOMAIN env \cup {name} |-> IF n = name THEN value ELSE env[n]]

\* The first of the candidates that is there.
First(candidates, There(_)) ==
  LET found == {i \in DOMAIN candidates : There(candidates[i])}
  IN  IF found = {} THEN Unset ELSE candidates[Min(found)]

-----------------------------------------------------------------------------
(* envproxy run.                                                              *)

LibName == "libenvproxy.so"

\* ENVPROXY_LIB is taken as it is; `bin` is the directory of the program envproxy.
FindLibenvproxy(env, bin) ==
  LET Exists(path) == path \in Files
  IN  IF "ENVPROXY_LIB" \in DOMAIN env THEN env["ENVPROXY_LIB"]
      ELSE First(<<bin \o <<LibName>>, bin \o <<"..", "lib", LibName>>,
                   <<"usr", "local", "lib", LibName>>, <<"usr", "lib", LibName>>>>, Exists)

\* A mutant: the socket that the arguments name is the one that is waited for.
RunSocketArgument(env, socket) == socket

\* The socket whose file is waited for; `socket` is --socket or its default.
RunSocket(env, socket) ==
  IF "ENVPROXY_SOCKET" \in DOMAIN env THEN env["ENVPROXY_SOCKET"] ELSE socket

\* The environment of the program that is run.  A value of ENVPROXY_SOCKET is left
\* alone, one of LD_PRELOAD is not.
CmdRun(env, bin, socket) ==
  LET preloads == Setenv(env, "LD_PRELOAD", FindLibenvproxy(env, bin))
  IN  IF "ENVPROXY_SOCKET" \in DOMAIN env THEN preloads
      ELSE Setenv(preloads, "ENVPROXY_SOCKET", socket)

-----------------------------------------------------------------------------
(* The library's constructor, which runs in every program that it is loaded   *)
(* into.  It reads variables with the library's own getenv: `says` is what    *)
(* the agent answers, Unset if it does not resolve the variable.              *)

Languages == {"python", "java"}
PathVar == [python |-> "ENVPROXY_PYTHON_PATH", java |-> "ENVPROXY_JAVA_PATH"]
NoVar   == [python |-> "ENVPROXY_NO_PYTHON",   java |-> "ENVPROXY_NO_JAVA"]
HookVar == [python |-> "PYTHONPATH",           java |-> "JAVA_TOOL_OPTIONS"]
Marker  == [python |-> "sitecustomize.py",     java |-> "envproxy-agent.jar"]

IsEnabled(env) == Value(env, "ENVPROXY_ENABLED") # "0"

\* Own variables are read from the environment alone, others from the agent first.
Var(env, name, says) ==
  IF IsEnabled(env) /\ says # Unset THEN says ELSE Value(env, name)

\* The directory of a language's hook: the one a variable names if the hook is in it,
\* otherwise one beside the library.
FindSupportDir(env, lib, language) ==
  LET override == Value(env, PathVar[language])
      dir      == Front(lib)
      There(d) == d \o <<Marker[language]>> \in Files
  IN  IF override # Unset /\ There(override) THEN override
      ELSE First(<<dir \o <<"envproxy", language>>, dir \o <<"..", "share", "envproxy", language>>,
                   dir \o <<"..", language>>, dir \o <<"..", "..", "support", language>>>>, There)

\* The hook itself: it is in the directory, or that would not have been found.
FindSupportFile(env, lib, language) ==
  LET dir == FindSupportDir(env, lib, language)
  IN  IF dir = Unset THEN Unset ELSE dir \o <<Marker[language]>>

Wanted(env, lib, language) ==
  Value(env, NoVar[language]) # "1" /\ FindSupportDir(env, lib, language) # Unset

Existing(env, name, says) ==
  LET existing == Var(env, name, says) IN IF existing = Unset THEN <<>> ELSE existing

\* A mutant: an empty PYTHONPATH is not told from any other.
SetupPythonHookAlone(env, lib, says) ==
  IF ~ Wanted(env, lib, "python") THEN env
  ELSE Setenv(env, "PYTHONPATH", <<FindSupportDir(env, lib, "python")>>)

\* The hook's directory goes in front of the others ...
SetupPythonHook(env, lib, says) ==
  IF ~ Wanted(env, lib, "python") THEN env
  ELSE Setenv(env, "PYTHONPATH",
         <<FindSupportDir(env, lib, "python")>> \o Existing(env, "PYTHONPATH", says))

\* ... and its javaagent after the other options.
SetupJavaHook(env, lib, says) ==
  IF ~ Wanted(env, lib, "java") THEN env
  ELSE Setenv(env, "JAVA_TOOL_OPTIONS",
         Append(Existing(env, "JAVA_TOOL_OPTIONS", says), FindSupportFile(env, lib, "java")))

\* The dynamic linker loads the library if it is there.
Preloaded(env) ==
  LET lib == Value(env, "LD_PRELOAD") IN IF lib \in Files THEN lib ELSE Unset

\* What the environment has become when a program's main is called.
Started(env, says) ==
  LET lib    == Preloaded(env)
      python == SetupPythonHook(env, lib, says["python"])
  IN  IF lib = Unset THEN env ELSE SetupJavaHook(python, lib, says["java"])

-----------------------------------------------------------------------------
(* Whom a program asks.                                                       *)

\* get_socket_path, and _install of the Python hook.
GetSocketPath(env) ==
  IF "ENVPROXY_SOCKET" \in DOMAIN env THEN env["ENVPROXY_SOCKET"] ELSE DefaultSocket

\* The Java hook takes an empty path for none.
JavaSocketPath(env) ==
  IF GetSocketPath(env) = "" THEN DefaultSocket ELSE GetSocketPath(env)

\* Python loads a hook that is on its path, a JVM an agent that is among its options.
Hooked(env, language) ==
  LET entries == Value(env, HookVar[language])
      IsHook(e) == (IF language = "python" THEN e \o <<Marker["python"]>> ELSE e) \in Files
  IN  entries # Unset /\ \E i \in DOMAIN entries : IsHook(entries[i])

\* The sockets a program may ask at: by the library unless it is disabled, as a Python
\* program, or as a Java program, which does not look whether it is disabled.
Asks(env) ==
  (IF IsEnabled(env) /\ (Preloaded(env) # Unset \/ Hooked(env, "python"))
     THEN {GetSocketPath(env)} ELSE {})
    \cup (IF Hooked(env, "java") THEN {JavaSocketPath(env)} ELSE {})

=============================================================================
