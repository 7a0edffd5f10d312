------------------------------ MODULE Webhook ------------------------------
(***************************************************************************)
(* Replicas of the injector (k8s/injector/cmd/main.go), each with a CA of  *)
(* its own which it enters into the MutatingWebhookConfiguration           *)
(* (internal/tls/selfsigned.go); the API server, which calls one of them   *)
(* for each pod and trusts the CA entered last; and the agents of the pods *)
(* that are created.                                                       *)
(*                                                                         *)
(* A replica is named by the number of its start, and so is its CA: a      *)
(* container that is started again makes a new one.                        *)
(***************************************************************************)
EXTENDS Injector

CONSTANTS
  Templates,  \* the pods somebody asks for
  Paths,      \* what a variable may name
  Ignore,     \* the webhook's failurePolicy is Ignore, the chart's default, not Fail
  MaxStarts,  \* bound on the replicas started
  MaxEnds,    \* bound on those that fail or are stopped
  MaxPods     \* bound on the pods created

ASSUME WebhookAssumption ==
  /\ MaxStarts \in Nat /\ MaxEnds \in Nat /\ MaxPods \in Nat /\ Ignore \in BOOLEAN
  /\ RuntimeFiles \cup {MountPath \o <<l>> : l \in Program!Languages} \subseteq Paths
  /\ None \notin Paths \cup Seq(Paths)

IsSequence(s) == s \in Seq(Range(s))

IsContainer(c) ==
  /\ c = [name |-> c.name, command |-> c.command, args |-> c.args,
          mounts |-> c.mounts, env |-> c.env]
  /\ IsSequence(c.command) /\ IsSequence(c.args) /\ IsSequence(c.mounts) /\ IsSequence(c.env)

IsPod(pod) ==
  LET a == pod.annotations
  IN  /\ pod = [annotations |-> a, volumes |-> pod.volumes, init |-> pod.init,
                containers |-> pod.containers]
      /\ a = [inject |-> a.inject, injected |-> a.injected, quantities |-> a.quantities,
              vaultAddr |-> a.vaultAddr, authMethod |-> a.authMethod,
              vaultCacheTTL |-> a.vaultCacheTTL, containers |-> a.containers,
              noPython |-> a.noPython, noJava |-> a.noJava]
      /\ a.inject \in BOOLEAN /\ a.injected \in BOOLEAN
      /\ IsSequence(pod.volumes) /\ IsSequence(pod.init) /\ IsSequence(pod.containers)
      /\ \A i \in DOMAIN pod.containers : IsContainer(pod.containers[i])

\* Nobody asks for a pod that claims to be injected, or for the program that the injector
\* is going to put into it; the variables that the hooks add to hold paths.
ASSUME TemplatesAssumption ==
  \A pod \in Templates :
    /\ IsPod(pod)
    /\ ~ pod.annotations.injected
    /\ AgentToml(pod.annotations) # None
    /\ \A i \in DOMAIN pod.containers :
         /\ pod.containers[i].command # RunCommand
         /\ \A l \in Program!Languages :
              Program!Value(Env(pod.containers[i]), Program!HookVar[l]) \in Seq(Paths) \cup {None}

VARIABLES
  starts,   \* how many replicas have been started
  phase,    \* replica -> where it is in main
  bundle,   \* the CA in the webhook's configuration, 0 if there is none
  version,  \* the configuration's resourceVersion
  read,     \* replica -> the resourceVersion it has read
  met,      \* (history variable) the replicas that have run beside another
  ends,     \* how many have failed or been stopped
  pods      \* the pods created, what was asked for first, and how their agents do

replicas == <<starts, phase, bundle, version, read, met, ends>>
vars     == <<replicas, pods>>

Replicas == 1..MaxStarts
Alive    == {i \in Replicas : phase[i] \notin {"unborn", "ended"}}
Ready    == {i \in Replicas : phase[i] = "ready"}

Goto(i, label) == phase' = [phase EXCEPT ![i] = label]

Init ==
  /\ starts = 0 /\ ends = 0
  /\ phase = [i \in Replicas |-> "unborn"]
  /\ bundle = 0 /\ version = 0
  /\ read = [i \in Replicas |-> 0]
  /\ met = {}
  /\ pods = <<>>

-----------------------------------------------------------------------------
(* A replica.                                                                 *)

\* The Deployment starts a replica, or the kubelet its container again; it makes a
\* CA and a certificate, and writes the certificate to a directory of its own.
Start ==
  /\ starts < MaxStarts
  /\ starts' = starts + 1
  /\ Goto(starts + 1, "get")
  /\ met' = IF Alive = {} THEN met ELSE met \cup Alive \cup {starts + 1}
  /\ UNCHANGED <<bundle, version, read, ends, pods>>

\* A mutant: it is read from a cache that is not filled yet.
GetCached(i) ==
  /\ phase[i] = "get"
  /\ Goto(i, "update")
  /\ UNCHANGED <<starts, bundle, version, read, met, ends, pods>>

\* patchWebhookCABundle: the configuration is read ...
Get(i) ==
  /\ phase[i] = "get"
  /\ read' = [read EXCEPT ![i] = version]
  /\ Goto(i, "update")
  /\ UNCHANGED <<starts, bundle, version, met, ends, pods>>

\* ... and written back with the replica's CA.
Update(i) ==
  /\ phase[i] = "update" /\ read[i] = version
  /\ bundle' = i /\ version' = version + 1
  /\ Goto(i, "manager")
  /\ UNCHANGED <<starts, read, met, ends, pods>>

\* Somebody else has written it since: the API server refuses, and main exits.
Conflict(i) ==
  /\ phase[i] = "update" /\ read[i] # version
  /\ Goto(i, "ended")
  /\ UNCHANGED <<starts, bundle, version, read, met, ends, pods>>

\* The update is made, but the answer is lost: main exits.
UpdateUnanswered(i) ==
  /\ phase[i] = "update" /\ read[i] = version
  /\ ends < MaxEnds
  /\ ends' = ends + 1
  /\ bundle' = i /\ version' = version + 1
  /\ Goto(i, "ended")
  /\ UNCHANGED <<starts, read, met, pods>>

\* A mutant: an error of GenerateAndPatch is logged, and main goes on.
FailsSilently(i) ==
  /\ i \in Alive
  /\ ends < MaxEnds
  /\ ends' = ends + 1
  /\ Goto(i, IF phase[i] \in {"get", "update"} THEN "manager" ELSE "ended")
  /\ UNCHANGED <<starts, bundle, version, read, met, pods>>

\* An error, after which main exits, or the end of the replica, at any point.
Fails(i) ==
  /\ i \in Alive
  /\ ends < MaxEnds
  /\ ends' = ends + 1
  /\ Goto(i, "ended")
  /\ UNCHANGED <<starts, bundle, version, read, met, pods>>

\* The manager is created and started, and the readiness probe answered.
Serve(i) ==
  /\ phase[i] = "manager"
  /\ Goto(i, "ready")
  /\ UNCHANGED <<starts, bundle, version, read, met, ends, pods>>

Replica(i) == Get(i) \/ Update(i) \/ Conflict(i) \/ Serve(i)

-----------------------------------------------------------------------------
(* The API server and the agents.                                             *)

\* The webhook is called: the service picks a replica that is ready, whose certificate
\* must be the trusted CA's.  If the call fails, the failure policy decides.
Unanswered(pod) == IF Ignore THEN pod ELSE Denied

Answers(pod) ==
  IF Ready = {} THEN {Unanswered(pod)}
  ELSE {IF bundle = i THEN Handle(pod) ELSE Unanswered(pod) : i \in Ready}

\* A pod is asked for, as it was `first` asked for or as another has been created.
Create(first, asked) ==
  /\ Len(pods) < MaxPods
  /\ \E pod \in Answers(asked) \ {Denied} :
       /\ Valid(pod)
       /\ pods' = Append(pods, [first |-> first, asked |-> asked, pod |-> pod,
                                alone |-> Ready # {} /\ Ready \cap met = {},
                                agent |-> "waiting"])
  /\ UNCHANGED replicas

HasAgent(pod) ==
  \E i \in DOMAIN pod.containers : pod.containers[i].name = AgentName

\* The sidecar of a pod is started, perhaps again, with nothing in its environment.
StartAgent(p) ==
  /\ pods[p].agent # Agent!Serving
  /\ HasAgent(pods[p].pod)
  /\ \E agent \in Agent!StartOutcomes(ConfigFile(pods[p].pod), <<>>) :
       pods' = [pods EXCEPT ![p].agent = agent]
  /\ UNCHANGED replicas

\* What somebody copies of a pod that exists: all of it, or not the status.
Copies(pod) == {pod, [pod EXCEPT !.annotations.injected = FALSE]}

Next ==
  \/ Start
  \/ \E i \in Replicas : Replica(i) \/ UpdateUnanswered(i) \/ Fails(i)
  \/ \E pod \in Templates : Create(pod, pod)
  \/ \E p \in DOMAIN pods :
       \/ \E asked \in Copies(pods[p].pod) : Create(pods[p].first, asked)
       \/ StartAgent(p)

\* Replicas that run go on; where none does, the Deployment starts one.
Fairness ==
  /\ WF_vars(Alive = {} /\ Start)
  /\ \A i \in Replicas : WF_vars(Replica(i))

Spec == Init /\ [][Next]_vars /\ Fairness

-----------------------------------------------------------------------------

Phases == {"unborn", "get", "update", "manager", "ready", "ended"}

ReplicasOK ==
  /\ starts \in 0..MaxStarts /\ ends \in 0..MaxEnds
  /\ phase \in [Replicas -> Phases]
  /\ bundle \in 0..MaxStarts /\ version \in Nat
  /\ read \in [Replicas -> Nat]
  /\ met \in SUBSET Replicas
  /\ \A i \in Replicas : phase[i] = "unborn" <=> i > starts
  /\ (\E i \in Replicas : phase[i] \in {"manager", "ready"}) => bundle # 0

TypeOK ==
  /\ ReplicasOK
  /\ Len(pods) <= MaxPods
  /\ \A p \in DOMAIN pods :
       pods[p].first \in Templates /\ pods[p].agent \in {"waiting", "serving", "failed"}

\* Whatever has been done to a pod, and however often it has been submitted again with
\* its status or without: its containers execute what was asked for, themselves or
\* through a single `envproxy run` that can be started where they are.
ExecutesAsAsked ==
  \A p \in DOMAIN pods :
    LET first == pods[p].first.containers
        pod   == pods[p].pod
    IN  \A i \in DOMAIN first :
          /\ pod.containers[i].name = first[i].name
          /\ pod.containers[i].command = <<>> <=> first[i].command = <<>>
          /\ Executes(pod.containers[i], pod) = first[i].command \o first[i].args

\* "Don't overwrite it with the CLI's default": the injector, `init`, `run`, the library's
\* constructor, the hooks and the agent, each of which has a default of its own, agree on
\* the socket whatever the container itself has set, and the hooks are those asked for.
\* Nobody is asked instead; a container that is disabled may ask nobody.
AsksItsAgent ==
  \A p \in DOMAIN pods : HasAgent(pods[p].pod) =>
    LET first  == pods[p].first.containers
        config == Agent!FromFile(ConfigFile(pods[p].pod))
        no     == [python |-> pods[p].pod.annotations.noPython,
                   java   |-> pods[p].pod.annotations.noJava]
    IN  \A i \in DOMAIN first :
          LET c   == pods[p].pod.containers[i]
              own == Env(first[i])
              env == Environment(c)
          IN  c.command = RunCommand =>
                /\ Program!Asks(env) \subseteq {config.agent.socket}
                /\ Program!IsEnabled(own) => Program!Asks(env) # {}
                /\ \A l \in Program!Languages :
                     Program!Hooked(env, l) <=>
                       \/ ~ no[l] /\ Program!Value(own, Program!NoVar[l]) # "1"
                       \/ Program!Hooked(own, l)

\* "So the API server trusts our webhook": a replica that is ready and has never run
\* beside another one is trusted, whatever those before it have left.
AloneIsTrusted == \A i \in Ready \ met : bundle = i

\* The inductive invariant behind it.
AloneInv ==
  \A i \in Replicas \ met :
    /\ i \in Alive => Alive = {i}
    /\ phase[i] = "update" => read[i] = version
    /\ phase[i] \in {"manager", "ready"} => bundle = i

\* A pod that asks for injection while such a replica is the one that is ready is not
\* created without the agent.
NotMissed ==
  \A p \in DOMAIN pods :
    pods[p].alone /\ pods[p].asked.annotations.inject => HasAgent(pods[p].pod)

\* The inductive invariant behind it and behind the first two: a pod is what was asked for
\* first, or that injected once, with its status or without, and it is valid.
Forms(first) ==
  {first} \cup (IF first.annotations.inject THEN Copies(MutatePod(first)) ELSE {})

PodsInv ==
  /\ IsSequence(pods)
  /\ \A p \in DOMAIN pods :
       LET e == pods[p]
       IN  /\ e = [first |-> e.first, asked |-> e.asked, pod |-> e.pod,
                   alone |-> e.alone, agent |-> e.agent]
           /\ e.first \in Templates /\ e.pod \in Forms(e.first) /\ Valid(e.pod)
  /\ NotMissed

\* "The agent will just serve as a relay": without a Vault address, the agent of a pod
\* does not fail.
RelayServes ==
  \A p \in DOMAIN pods :
    ~ pods[p].pod.annotations.vaultAddr => pods[p].agent # "failed"

\* Replicas that are started one after the other, each when the one before is gone,
\* however it went: in the end there is one that is ready and trusted.
Overlap == \E i, j \in Alive : i # j
Recovers == []~Overlap => <>[](bundle \in Ready)

=============================================================================
