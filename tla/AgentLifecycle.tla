--------------------------- MODULE AgentLifecycle ---------------------------
(***************************************************************************)
(* Agents that come and go on one socket path (envproxy-agent/src/main.rs, *)
(* Server::bind), and applications that are started beside them through    *)
(* `envproxy run` (envproxy-cli/src/main.rs), a JVM that installs its hook *)
(* if it finds the socket file (EnvProxyAgent.java).                       *)
(*                                                                         *)
(* An agent is named by the number of its start.  A socket file is named   *)
(* by the agent that has made it, 0 being one from before the first start. *)
(* What an agent and its clients say to each other is Getenv's.            *)
(***************************************************************************)
EXTENDS Naturals, FiniteSets

CONSTANTS
  Apps,        \* the applications
  None,        \* no file
  MaxStarts,   \* bound on the agents started
  MaxStops,    \* bound on those that are interrupted or killed
  MaxFailures  \* bound on those whose configuration or backend fails

ASSUME AgentLifecycleAssumption ==
  /\ MaxStarts \in Nat /\ MaxStops \in Nat /\ MaxFailures \in Nat
  /\ None \notin Nat

VARIABLES
  file,      \* what is at the socket path
  stale,     \* (history variable) whether there was a file before the first start
  starts,    \* how many agents have been started
  phase,     \* agent -> where it is in main
  met,       \* (history variable) the agents that have run beside another
  stops,     \* how many have been interrupted or killed
  failures,  \* how many have had no backend
  app        \* application -> where it is, and whether the wait was given up

agents == <<file, starts, phase, met, stops, failures>>
vars   == <<agents, stale, app>>

Agents  == 1..MaxStarts
Files   == 0..MaxStarts
Binding == {"exists", "remove", "bind"}
Ended   == {"unborn", "ended", "failed", "unbound"}

\* The processes that run, and those among them that accept connections.
Alive   == {i \in Agents : phase[i] \notin Ended}
Serving == {i \in Agents : phase[i] = "serve"}

Goto(i, label) == phase' = [phase EXCEPT ![i] = label]

Init ==
  /\ file \in {None, 0} /\ stale = (file = 0)
  /\ starts = 0 /\ stops = 0 /\ failures = 0
  /\ phase = [i \in Agents |-> "unborn"]
  /\ met = {}
  /\ app = [a \in Apps |-> [state |-> "new", gaveUp |-> FALSE]]

-----------------------------------------------------------------------------

\* main: the configuration is read, and the backend is being created.
Start ==
  /\ starts < MaxStarts
  /\ starts' = starts + 1
  /\ Goto(starts + 1, "create")
  /\ met' = IF Alive = {} THEN met ELSE met \cup Alive \cup {starts + 1}
  /\ UNCHANGED <<file, stale, stops, failures, app>>

\* A mutant: the error is logged, and main goes on.
CreateFailsSilently(i) ==
  /\ phase[i] = "create"
  /\ failures < MaxFailures
  /\ failures' = failures + 1
  /\ Goto(i, "exists")
  /\ UNCHANGED <<file, stale, starts, met, stops, app>>

\* No configuration or no backend: main returns the error.
CreateFails(i) ==
  /\ phase[i] = "create"
  /\ failures < MaxFailures
  /\ failures' = failures + 1
  /\ Goto(i, "failed")
  /\ UNCHANGED <<file, stale, starts, met, stops, app>>

Create(i) ==
  /\ phase[i] = "create"
  /\ Goto(i, "exists")
  /\ UNCHANGED <<file, stale, starts, met, stops, failures, app>>

\* A mutant: the file of an agent before is left where it is.
ExistsIgnored(i) ==
  /\ phase[i] = "exists"
  /\ Goto(i, "bind")
  /\ UNCHANGED <<file, stale, starts, met, stops, failures, app>>

\* bind: a file at the path is removed first, whoever has made it.
Exists(i) ==
  /\ phase[i] = "exists"
  /\ Goto(i, IF file = None THEN "bind" ELSE "remove")
  /\ UNCHANGED <<file, stale, starts, met, stops, failures, app>>

\* Somebody else may have removed it since: then the agent ends with an error.
Remove(i) ==
  /\ phase[i] = "remove"
  /\ file' = None
  /\ Goto(i, IF file = None THEN "unbound" ELSE "bind")
  /\ UNCHANGED <<stale, starts, met, stops, failures, app>>

\* A mutant: the agent that finds the path taken takes the file away and gives up.
BindCleansUp(i) ==
  /\ phase[i] = "bind"
  /\ file' = IF file = None THEN i ELSE None
  /\ Goto(i, IF file = None THEN "serve" ELSE "unbound")
  /\ UNCHANGED <<stale, starts, met, stops, failures, app>>

\* bind(2) refuses a path where there is a file.
Bind(i) ==
  /\ phase[i] = "bind"
  /\ file' = IF file = None THEN i ELSE file
  /\ Goto(i, IF file = None THEN "serve" ELSE "unbound")
  /\ UNCHANGED <<stale, starts, met, stops, failures, app>>

\* Ctrl-C: the listener is not accepted from any more ...
Interrupt(i) ==
  /\ phase[i] = "serve"
  /\ stops < MaxStops
  /\ stops' = stops + 1
  /\ Goto(i, "cleanup")
  /\ UNCHANGED <<file, stale, starts, met, failures, app>>

\* ... and the file at the path is removed, whoever has made it.
Cleanup(i) ==
  /\ phase[i] = "cleanup"
  /\ file' = None
  /\ Goto(i, "ended")
  /\ UNCHANGED <<stale, starts, met, stops, failures, app>>

\* SIGTERM, a crash or an error of accept, at any point: the file stays.
Kill(i) ==
  /\ i \in Alive
  /\ stops < MaxStops
  /\ stops' = stops + 1
  /\ Goto(i, "ended")
  /\ UNCHANGED <<file, stale, starts, met, failures, app>>

-----------------------------------------------------------------------------

SetApp(a, state) == app' = [app EXCEPT ![a].state = state]

\* cmd_run: the environment is prepared, the wait begins.
Run(a) ==
  /\ app[a].state = "new"
  /\ SetApp(a, "wait")
  /\ UNCHANGED <<agents, stale>>

\* A mutant: the wait ends whether or not there is a file.
WaitNot(a) ==
  /\ app[a].state = "wait"
  /\ SetApp(a, "exec")
  /\ UNCHANGED <<agents, stale>>

\* There is a file at the path: the application is executed.
Ready(a) ==
  /\ app[a].state = "wait"
  /\ file # None
  /\ SetApp(a, "exec")
  /\ UNCHANGED <<agents, stale>>

\* There has been none for ten seconds: it is executed all the same.
GiveUp(a) ==
  /\ app[a].state = "wait"
  /\ file = None
  /\ app' = [app EXCEPT ![a] = [state |-> "exec", gaveUp |-> TRUE]]
  /\ UNCHANGED <<agents, stale>>

\* EnvProxyAgent.install: System.getenv() is patched if there is a file, or never.
Install(a) ==
  /\ app[a].state = "exec"
  /\ SetApp(a, IF file = None THEN "unpatched" ELSE "patched")
  /\ UNCHANGED <<agents, stale>>

Process(i) ==
  Create(i) \/ Exists(i) \/ Remove(i) \/ Bind(i) \/ Cleanup(i)

Next ==
  \/ Start
  \/ \E i \in Agents : Process(i) \/ CreateFails(i) \/ Interrupt(i) \/ Kill(i)
  \/ \E a \in Apps : Run(a) \/ Ready(a) \/ GiveUp(a) \/ Install(a)

\* Agents that run go on; where none does, the pod's restart policy starts one.
Fairness ==
  /\ WF_vars(Alive = {} /\ Start)
  /\ \A i \in Agents : WF_vars(Process(i))

Spec == Init /\ [][Next]_vars /\ Fairness

-----------------------------------------------------------------------------

TypeOK ==
  /\ file \in Files \cup {None} /\ stale \in BOOLEAN
  /\ starts \in 0..MaxStarts /\ stops \in 0..MaxStops /\ failures \in 0..MaxFailures
  /\ phase \in [Agents -> Ended \cup Binding \cup {"create", "serve", "cleanup"}]
  /\ met \in SUBSET Agents
  /\ app \in [Apps -> [state : {"new", "wait", "exec", "patched", "unpatched"},
                       gaveUp : BOOLEAN]]
  /\ \A i \in Agents : phase[i] = "unborn" <=> i > starts
  /\ failures > 0 <=> \E i \in Agents : phase[i] = "failed"

\* An agent that has never run beside another one gets the path, whatever has been
\* left there before it, and keeps it: "removes any stale socket file at the path".
AloneServes ==
  \A i \in Agents \ met :
    /\ phase[i] # "unbound"
    /\ phase[i] = "serve" => file = i

\* However many agents are started at once and remove each other's files: as long as
\* none is stopped, and when none is about to bind, the last to bind is reachable, if
\* any has come so far as to try.
SomebodyServes ==
  /\ stops = 0
  /\ \A i \in Agents : phase[i] \notin Binding
  /\ \E i \in Agents : phase[i] \in {"serve", "unbound"}
  => file \in Serving

\* Nothing was at the path before the pod's one agent, which has not been stopped.
Fresh == ~ stale /\ starts <= 1 /\ stops = 0

\* "Wait for the agent socket to be ready before exec'ing": in a fresh pod, whose one
\* agent is not stopped, an application that `run` has not given up waiting for finds
\* the agent serving, and the JVM's hook is there for good.
ReadyInFreshPod ==
  Fresh =>
    \A a \in Apps : app[a].state \in {"exec", "patched", "unpatched"} /\ ~ app[a].gaveUp =>
      file \in Serving /\ app[a].state # "unpatched"

\* The inductive invariants behind the three of them.
Alone(i) ==
  /\ i \in Alive => Alive = {i}
  /\ phase[i] # "unbound"
  /\ phase[i] = "remove" => file # None
  /\ phase[i] = "bind" => file = None
  /\ phase[i] = "serve" => file = i

AloneInv == \A i \in Agents \ met : Alone(i)

In(labels) == {i \in Agents : phase[i] \in labels}

\* As long as nobody is stopped, only those who go on to bind leave the path empty.
PathInv ==
  stops = 0 =>
    /\ In({"cleanup", "ended"}) = {}
    /\ file \in Agents => file \in Serving
    /\ file = 0 => In({"bind", "serve", "unbound"}) = {}
    /\ file = None /\ In({"remove", "serve", "unbound"}) # {} => In({"bind"}) # {}

\* In a fresh pod a file at the path is the agent's, who serves: it has had nothing to
\* remove.
FreshInv == Fresh => /\ file # None => file \in Serving
                     /\ In({"remove"}) = {}

IInv == TypeOK /\ AloneInv /\ PathInv /\ FreshInv /\ ReadyInFreshPod

Overlap == Cardinality(Alive) > 1

\* Agents that are started one after the other, each when the one before it is gone,
\* however it went: in the end there is one that can be reached.
Recovers == []~Overlap => <>[](file \in Serving)

=============================================================================
