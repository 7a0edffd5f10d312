------------------------ MODULE AgentLifecycleProofs ------------------------
(***************************************************************************)
(* What AgentLifecycle promises of the socket path holds for any number of *)
(* agents, stops and failures.                                             *)
(***************************************************************************)
EXTENDS AgentLifecycle, TLAPS

\* What an agent's step of main does to the phases: it changes its own.
AgentStep(i) == Process(i) \/ CreateFails(i) \/ Interrupt(i) \/ Kill(i)

AppStep == \E a \in Apps : Run(a) \/ Ready(a) \/ GiveUp(a) \/ Install(a)

\* The invariant holds when nothing has been started.
LEMMA Initially == Init => IInv
<1> SUFFICES ASSUME Init PROVE IInv
  OBVIOUS
<1>1. TypeOK
  BY AgentLifecycleAssumption DEF Init, TypeOK, Files, Agents, Ended, Binding
<1>2. AloneInv
  BY DEF Init, AloneInv, Alone, Alive, Ended
<1>3. PathInv
  BY AgentLifecycleAssumption DEF Init, PathInv, In, Agents, Serving
<1>4. FreshInv /\ ReadyInFreshPod
  BY DEF Init, Fresh, FreshInv, ReadyInFreshPod, In
<1>5. QED
  BY <1>1, <1>2, <1>3, <1>4 DEF IInv

\* Applications only look at the path.
LEMMA AppStepKeeps ==
  ASSUME IInv, AppStep
  PROVE  IInv'
<1>1. UNCHANGED <<agents, stale>>
  BY DEF AppStep, Run, Ready, GiveUp, Install
<1>2. app' \in [Apps -> [state : {"new", "wait", "exec", "patched", "unpatched"},
                         gaveUp : BOOLEAN]]
  <2>1. app \in [Apps -> [state : {"new", "wait", "exec", "patched", "unpatched"},
                          gaveUp : BOOLEAN]]
    BY DEF IInv, TypeOK
  <2>2. PICK a \in Apps : Run(a) \/ Ready(a) \/ GiveUp(a) \/ Install(a)
    BY DEF AppStep
  <2>3. CASE Run(a) \/ Ready(a)
    BY <2>1, <2>3 DEF Run, Ready, SetApp
  <2>4. CASE GiveUp(a)
    BY <2>1, <2>4 DEF GiveUp
  <2>5. CASE Install(a)
    BY <2>1, <2>5 DEF Install, SetApp
  <2>6. QED
    BY <2>2, <2>3, <2>4, <2>5
<1>3. TypeOK'
  BY <1>1, <1>2 DEF IInv, TypeOK, agents
<1>4. AloneInv' /\ PathInv' /\ FreshInv'
  BY <1>1 DEF IInv, AloneInv, Alone, Alive, PathInv, Fresh, FreshInv, In, Serving, agents
<1>5. ReadyInFreshPod'
  <2>1. SUFFICES ASSUME Fresh', NEW b \in Apps,
                        app'[b].state \in {"exec", "patched", "unpatched"}, ~ app'[b].gaveUp
                 PROVE  file' \in Serving' /\ app'[b].state # "unpatched"
    BY DEF ReadyInFreshPod
  <2>2. /\ Fresh /\ file' = file /\ Serving' = Serving
        /\ file # None => file \in Serving
        /\ app[b].state \in {"exec", "patched", "unpatched"} /\ ~ app[b].gaveUp =>
             file \in Serving /\ app[b].state # "unpatched"
        /\ app[b] \in [state : {"new", "wait", "exec", "patched", "unpatched"}, gaveUp : BOOLEAN]
    BY <1>1, <2>1 DEF IInv, TypeOK, Fresh, FreshInv, ReadyInFreshPod, Serving, agents
  <2>3. PICK a \in Apps : Run(a) \/ Ready(a) \/ GiveUp(a) \/ Install(a)
    BY DEF AppStep
  <2>4. app \in [Apps -> [state : {"new", "wait", "exec", "patched", "unpatched"},
                          gaveUp : BOOLEAN]]
    BY DEF IInv, TypeOK
  <2>5. CASE b # a
    BY <2>1, <2>2, <2>3, <2>4, <2>5 DEF Run, Ready, GiveUp, Install, SetApp
  <2>6. CASE b = a
    <3>1. CASE Run(a)
      BY <2>1, <2>4, <2>6, <3>1 DEF Run, SetApp
    <3>2. CASE Ready(a)
      BY <2>2, <2>4, <2>6, <3>2 DEF Ready, SetApp
    <3>3. CASE GiveUp(a)
      BY <2>1, <2>4, <2>6, <3>3 DEF GiveUp
    <3>4. CASE Install(a)
      <4>1. ~ app[a].gaveUp
        BY <2>1, <2>4, <2>6, <3>4 DEF Install, SetApp
      <4>2. file # None /\ file \in Serving
        BY <2>2, <2>6, <3>4, <4>1, AgentLifecycleAssumption DEF Install, Serving, Agents
      <4>3. QED
        BY <2>2, <2>4, <2>6, <3>4, <4>2 DEF Install, SetApp
    <3>5. QED
      BY <2>3, <3>1, <3>2, <3>3, <3>4
  <2>7. QED
    BY <2>5, <2>6
<1>6. QED
  BY <1>3, <1>4, <1>5 DEF IInv

\* A new agent is alone if nobody else is alive, and leaves the path as it is.
LEMMA StartKeeps ==
  ASSUME IInv, Start
  PROVE  IInv'
<1> DEFINE new == starts + 1
<1>1. /\ new \in Agents /\ starts \in Nat
      /\ phase[new] = "unborn" /\ phase' = [phase EXCEPT ![new] = "create"]
      /\ phase \in [Agents -> Ended \cup Binding \cup {"create", "serve", "cleanup"}]
  BY AgentLifecycleAssumption DEF IInv, TypeOK, Start, Goto, Agents
<1>2. \A i \in Agents : phase'[i] = IF i = new THEN "create" ELSE phase[i]
  BY <1>1
<1>3. Alive' = Alive \cup {new} /\ new \notin Alive
  BY <1>1, <1>2 DEF Alive, Ended
<1>4. TypeOK'
  <2>1. /\ UNCHANGED <<file, stale, stops, failures, app>>
        /\ starts' = new /\ starts' \in 0..MaxStarts
        /\ met' \in SUBSET Agents
    <3>1. UNCHANGED <<file, stale, stops, failures, app>>
      BY DEF Start
    <3>2. starts' = new /\ starts' \in 0..MaxStarts
      BY <1>1, AgentLifecycleAssumption DEF Start, Agents
    <3>3. met' \in SUBSET Agents
      BY <1>1 DEF IInv, TypeOK, Start, Alive
    <3>4. QED
      BY <3>1, <3>2, <3>3
  <2>2. phase' \in [Agents -> Ended \cup Binding \cup {"create", "serve", "cleanup"}]
    BY <1>1
  <2>3. \A i \in Agents : phase'[i] = "unborn" <=> i > starts'
    BY <1>1, <1>2 DEF IInv, TypeOK, Start, Agents
  <2>4. failures' > 0 <=> \E i \in Agents : phase'[i] = "failed"
    BY <1>1, <1>2, <2>1 DEF IInv, TypeOK
  <2>5. QED
    BY <2>1, <2>2, <2>3, <2>4 DEF IInv, TypeOK
<1>5. AloneInv'
  <2>1. SUFFICES ASSUME NEW i \in Agents, i \notin met' PROVE Alone(i)'
    BY DEF AloneInv, Agents
  <2>2. CASE i = new
    <3>1. Alive = {}
      BY <2>1, <2>2 DEF Start
    <3>2. QED
      BY <1>2, <1>3, <2>2, <3>1 DEF Alone
  <2>3. CASE i # new
    <3>1. i \notin met /\ file' = file /\ phase'[i] = phase[i]
      BY <1>2, <2>1, <2>3 DEF Start
    <3>2. i \notin Alive
      BY <2>1, <2>3 DEF Start
    <3>3. QED
      BY <1>3, <2>3, <3>1, <3>2 DEF IInv, AloneInv, Alone
  <2>4. QED
    BY <2>2, <2>3
<1>6. PathInv'
  <2>1. file' = file /\ stops' = stops
    BY DEF Start
  <2>2. /\ In({"cleanup", "ended"})' = In({"cleanup", "ended"})
        /\ In({"bind", "serve", "unbound"})' = In({"bind", "serve", "unbound"})
        /\ In({"remove", "serve", "unbound"})' = In({"remove", "serve", "unbound"})
        /\ In({"bind"})' = In({"bind"}) /\ Serving' = Serving
    BY <1>1, <1>2 DEF In, Serving
  <2>3. QED
    BY <2>1, <2>2 DEF IInv, PathInv, Agents
<1>7. FreshInv' /\ ReadyInFreshPod'
  <2>1. file' = file /\ app' = app /\ (Fresh' => Fresh)
    BY <1>1, AgentLifecycleAssumption DEF Start, Fresh
  <2>2. Serving' = Serving /\ In({"remove"})' = In({"remove"})
    BY <1>1, <1>2 DEF In, Serving
  <2>3. QED
    BY <2>1, <2>2 DEF IInv, FreshInv, ReadyInFreshPod
<1>8. QED
  BY <1>4, <1>5, <1>6, <1>7 DEF IInv

\* The type invariant, one step of one agent.
LEMMA AgentStepType ==
  ASSUME IInv, NEW i \in Agents, AgentStep(i)
  PROVE  TypeOK' /\ i \in Alive
         /\ \E label \in Ended \cup Binding \cup {"serve", "cleanup"} :
              label # "unborn" /\ phase' = [phase EXCEPT ![i] = label]
<1> USE DEF IInv, TypeOK
<1>1. CASE Create(i)
  BY <1>1 DEF Create, Goto, Alive, Ended, Binding
<1>2. CASE Exists(i)
  BY <1>2 DEF Exists, Goto, Alive, Ended, Binding
<1>3. CASE Remove(i)
  BY <1>3 DEF Remove, Goto, Alive, Ended, Binding
<1>4. CASE Bind(i)
  <2>1. CASE file = None
    BY <1>4, <2>1 DEF Bind, Goto, Alive, Ended, Binding, Files, Agents
  <2>2. CASE file # None
    BY <1>4, <2>2 DEF Bind, Goto, Alive, Ended, Binding
  <2>3. QED
    BY <2>1, <2>2
<1>5. CASE Cleanup(i)
  BY <1>5 DEF Cleanup, Goto, Alive, Ended, Binding
<1>6. CASE CreateFails(i)
  BY <1>6, AgentLifecycleAssumption DEF CreateFails, Goto, Alive, Ended, Binding
<1>7. CASE Interrupt(i)
  BY <1>7, AgentLifecycleAssumption DEF Interrupt, Goto, Alive, Ended, Binding
<1>8. CASE Kill(i)
  BY <1>8, AgentLifecycleAssumption DEF Kill, Goto, Alive, Ended, Binding
<1>9. QED
  BY <1>1, <1>2, <1>3, <1>4, <1>5, <1>6, <1>7, <1>8 DEF AgentStep, Process

\* An agent that takes a step is alive: another one that has never met anybody is not,
\* and what it has left does not matter any more; if the agent has never met anybody
\* itself, the path is as it has left it.
LEMMA AgentStepAlone ==
  ASSUME IInv, NEW i \in Agents, AgentStep(i)
  PROVE  AloneInv'
<1>1. /\ i \in Alive /\ TypeOK
      /\ \A j \in Agents \ {i} : phase'[j] = phase[j]
      /\ phase'[i] # "unborn"
      /\ met' = met
  BY AgentStepType DEF IInv, TypeOK, AgentStep, Process, Create, Exists, Remove, Bind,
     Cleanup, CreateFails, Interrupt, Kill
<1>2. Alive' \subseteq Alive
  BY <1>1 DEF Alive
<1>3. SUFFICES ASSUME NEW j \in Agents, j \notin met PROVE Alone(j)'
  BY <1>1 DEF AloneInv, Agents
<1>4. Alone(j)
  BY <1>3 DEF IInv, AloneInv
<1>5. CASE j # i
  <2>1. j \notin Alive
    BY <1>1, <1>4, <1>5 DEF Alone
  <2>2. j \notin Alive' /\ phase'[j] = phase[j] /\ phase[j] \in Ended
    BY <1>1, <1>2, <1>5, <2>1 DEF Alive
  <2>3. QED
    BY <1>4, <2>2 DEF Alone, Ended
<1>6. CASE j = i
  <2>1. i \in Alive' => Alive' = {i}
    BY <1>1, <1>2, <1>4, <1>6 DEF Alone
  <2>2. /\ phase'[i] # "unbound"
        /\ phase'[i] = "remove" => file' # None
        /\ phase'[i] = "bind" => file' = None
        /\ phase'[i] = "serve" => file' = i
    BY <1>1, <1>4, <1>6 DEF Alone, AgentStep, Process, Create, Exists, Remove, Bind,
       Cleanup, CreateFails, Interrupt, Kill, Goto, TypeOK
  <2>3. QED
    BY <1>6, <2>1, <2>2 DEF Alone
<1>7. QED
  BY <1>5, <1>6

\* The path is empty only while somebody is going to bind, if nobody is stopped.
LEMMA AgentStepPath ==
  ASSUME IInv, NEW i \in Agents, AgentStep(i)
  PROVE  PathInv'
<1>1. SUFFICES ASSUME stops' = 0
      PROVE /\ In({"cleanup", "ended"})' = {}
            /\ file' \in Agents => file' \in Serving'
            /\ file' = 0 => In({"bind", "serve", "unbound"})' = {}
            /\ file' = None /\ In({"remove", "serve", "unbound"})' # {} => In({"bind"})' # {}
  BY DEF PathInv, Agents
<1>2. /\ stops = 0 /\ ~ Interrupt(i) /\ ~ Kill(i)
  BY <1>1, AgentLifecycleAssumption DEF IInv, TypeOK, AgentStep, Process, Create, Exists,
     Remove, Bind, Cleanup, CreateFails, Interrupt, Kill
<1>3. /\ \A j \in Agents : phase[j] \notin {"cleanup", "ended"}
      /\ file \in Agents => phase[file] = "serve"
      /\ file = 0 => \A j \in Agents : phase[j] \notin {"bind", "serve", "unbound"}
      /\ file = None /\ (\E j \in Agents : phase[j] \in {"remove", "serve", "unbound"})
           => \E j \in Agents : phase[j] = "bind"
  BY <1>2 DEF IInv, PathInv, In, Serving
<1>4. /\ phase \in [Agents -> Ended \cup Binding \cup {"create", "serve", "cleanup"}]
      /\ file \in Files \cup {None} /\ None \notin Nat /\ i # 0
      /\ \A j \in Agents : j \in Nat \ {0}
  BY AgentLifecycleAssumption DEF IInv, TypeOK, Agents
<1>5. CASE Create(i) \/ CreateFails(i)
  BY <1>3, <1>4, <1>5 DEF Create, CreateFails, Goto, In, Serving
<1>6. CASE Exists(i)
  <2>1. CASE file = None
    BY <1>3, <1>4, <1>6, <2>1 DEF Exists, Goto, In, Serving
  <2>2. CASE file # None
    BY <1>3, <1>4, <1>6, <2>2 DEF Exists, Goto, In, Serving
  <2>3. QED
    BY <2>1, <2>2
<1>7. CASE Remove(i)
  <2>1. file' = None /\ file' \notin Agents /\ file' # 0
    BY <1>4, <1>7 DEF Remove
  <2>2. \A j \in Agents : phase'[j] \notin {"cleanup", "ended"}
    BY <1>3, <1>4, <1>7 DEF Remove, Goto
  <2>3. \E j \in Agents : phase'[j] = "bind"
    BY <1>3, <1>4, <1>7 DEF Remove, Goto
  <2>4. QED
    BY <2>1, <2>2, <2>3 DEF In, Agents
<1>8. CASE Bind(i)
  <2>1. CASE file = None
    <3>1. file' = i /\ phase' = [phase EXCEPT ![i] = "serve"]
      BY <1>8, <2>1 DEF Bind, Goto
    <3>2. QED
      BY <1>3, <1>4, <3>1 DEF In, Serving
  <2>2. CASE file # None
    <3>1. file' = file /\ phase' = [phase EXCEPT ![i] = "unbound"] /\ phase[i] = "bind"
      BY <1>8, <2>2 DEF Bind, Goto
    <3>2. file # 0
      BY <1>3, <3>1
    <3>3. file \in Agents => phase'[file] = "serve"
      BY <1>3, <1>4, <3>1
    <3>4. \A j \in Agents : phase'[j] \notin {"cleanup", "ended"}
      BY <1>3, <1>4, <3>1
    <3>5. QED
      BY <2>2, <3>1, <3>2, <3>3, <3>4 DEF In, Serving, Agents
  <2>3. QED
    BY <2>1, <2>2
<1>9. CASE Cleanup(i)
  BY <1>3, <1>9 DEF Cleanup
<1>10. QED
  BY <1>2, <1>5, <1>6, <1>7, <1>8, <1>9 DEF AgentStep, Process

\* The one agent of a fresh pod finds nothing at the path, binds it and stays.
LEMMA AgentStepFresh ==
  ASSUME IInv, NEW i \in Agents, AgentStep(i)
  PROVE  FreshInv' /\ ReadyInFreshPod'
<1>1. SUFFICES ASSUME Fresh'
               PROVE  /\ file' # None => file' \in Serving'
                      /\ In({"remove"})' = {}
                      /\ file \in Serving => file' \in Serving'
                      /\ app' = app /\ Fresh
  BY DEF IInv, FreshInv, ReadyInFreshPod
<1>2. Fresh /\ app' = app /\ ~ Interrupt(i) /\ ~ Kill(i)
  BY <1>1, AgentLifecycleAssumption DEF Fresh, IInv, TypeOK, AgentStep, Process, Create,
     Exists, Remove, Bind, Cleanup, CreateFails, Interrupt, Kill
<1>3. /\ phase \in [Agents -> Ended \cup Binding \cup {"create", "serve", "cleanup"}]
      /\ i \in Nat /\ None \notin Nat
      /\ \A j \in Agents : j # i => phase[j] = "unborn"
  <2>1. i \in Alive /\ phase[i] # "unborn"
    BY AgentStepType DEF Alive, Ended
  <2>2. \A j \in Agents : j # i => j > starts
    BY <1>2, <2>1, AgentLifecycleAssumption DEF Fresh, IInv, TypeOK, Agents
  <2>3. QED
    BY <2>2, AgentLifecycleAssumption DEF IInv, TypeOK, Agents
<1>4. /\ phase[i] \notin {"remove", "cleanup"}
      /\ phase[i] # "serve" => file = None
      /\ file # None => file = i
  BY <1>2, <1>3 DEF IInv, PathInv, FreshInv, Fresh, In, Serving
<1>5. CASE Create(i) \/ CreateFails(i)
  BY <1>2, <1>3, <1>4, <1>5 DEF Create, CreateFails, Goto, In, Serving
<1>6. CASE Exists(i)
  BY <1>2, <1>3, <1>4, <1>6 DEF Exists, Goto, In, Serving
<1>7. CASE Bind(i)
  BY <1>2, <1>3, <1>4, <1>7 DEF Bind, Goto, In, Serving
<1>8. CASE Remove(i) \/ Cleanup(i)
  BY <1>4, <1>8 DEF Remove, Cleanup
<1>9. QED
  BY <1>2, <1>5, <1>6, <1>7, <1>8 DEF AgentStep, Process

\* Every behaviour keeps the inductive invariant.
THEOREM Invariance == Spec => []IInv
<1>1. ASSUME IInv, [Next]_vars PROVE IInv'
  <2>1. CASE Start
    BY <1>1, <2>1, StartKeeps
  <2>2. CASE AppStep
    BY <1>1, <2>2, AppStepKeeps
  <2>3. ASSUME NEW i \in Agents, AgentStep(i) PROVE IInv'
    BY <1>1, <2>3, AgentStepType, AgentStepAlone, AgentStepPath, AgentStepFresh
       DEF IInv
  <2>4. CASE UNCHANGED vars
    BY <1>1, <2>4 DEF IInv, TypeOK, AloneInv, Alone, Alive, PathInv, In, Serving,
       Fresh, FreshInv, ReadyInFreshPod, vars, agents
  <2>5. QED
    BY <1>1, <2>1, <2>2, <2>3, <2>4 DEF Next, AppStep, AgentStep
<1>2. QED
  BY Initially, <1>1, PTL DEF Spec

\* Type correctness, for any number of agents and applications.
THEOREM TypeCorrect == Spec => []TypeOK
<1>1. IInv => TypeOK
  BY DEF IInv
<1>2. QED
  BY Invariance, <1>1, PTL

\* An agent that has never run beside another one gets the socket path and keeps it,
\* whatever those before it have left there.
THEOREM LoneAgent == Spec => []AloneServes
<1>1. IInv => AloneServes
  BY DEF IInv, AloneInv, Alone, AloneServes
<1>2. QED
  BY Invariance, <1>1, PTL

\* Any number of agents started at once end with one of them reachable, if none is
\* stopped.
THEOREM Contention == Spec => []SomebodyServes
<1>1. IInv => SomebodyServes
  <2> SUFFICES ASSUME IInv, stops = 0,
                      \A i \in Agents : phase[i] \notin Binding,
                      NEW k \in Agents, phase[k] \in {"serve", "unbound"}
               PROVE  file \in Serving
    BY DEF SomebodyServes
  <2>1. file # None
    BY DEF IInv, PathInv, In, Binding
  <2>2. file # 0
    BY DEF IInv, PathInv, In
  <2>3. file \in Agents
    BY <2>1, <2>2, AgentLifecycleAssumption DEF IInv, TypeOK, Files, Agents
  <2>4. QED
    BY <2>3 DEF IInv, PathInv
<1>2. QED
  BY Invariance, <1>1, PTL

\* In a fresh pod an application whose wait has not been given up finds the agent serving,
\* and a JVM its hook, for any number of applications and however their starts and the
\* agent's interleave.
THEOREM WaitIsEnough == Spec => []ReadyInFreshPod
<1>1. IInv => ReadyInFreshPod
  BY DEF IInv
<1>2. QED
  BY Invariance, <1>1, PTL

=============================================================================
