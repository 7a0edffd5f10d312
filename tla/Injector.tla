------------------------------ MODULE Injector ------------------------------
(***************************************************************************)
(* What the injector makes of a pod (k8s/injector/internal/webhook/), as   *)
(* operators, and what the API server and the kubelet make of the result:  *)
(* the containers' programs are started as Launch says, and the agent from *)
(* a configuration as AgentConfig says.                                    *)
(*                                                                         *)
(* A pod has the annotations the injector reads, the names of its volumes, *)
(* and its containers.  Images, resources and security contexts are left   *)
(* out, except that a quantity in an annotation may not parse, and so is   *)
(* ENVPROXY_CACHE_TTL.                                                     *)
(***************************************************************************)
EXTENDS Naturals, SequencesExt

CONSTANTS
  None,           \* no value
  Denied,         \* admission.Errored: the pod is not to be created
  DefaultSocket,  \* DEFAULT_SOCKET_PATH
  Numbers, Width  \* AgentConfig's

VolumeName == "envproxy-bin"
AgentName  == "envproxy-agent"
InitName   == "envproxy-init"
RunCommand == <<"/envproxy/envproxy">>
SocketPath == "/envproxy/agent.sock"
MountPath  == <<"envproxy">>

\* What cmd_init copies, as far as it is looked for, by one of two names.
RuntimeFiles ==
  {MountPath \o file : file \in
     {<<"lib", "libenvproxy.so">>,
      <<"python", "sitecustomize.py">>,  <<"lib", "..", "python", "sitecustomize.py">>,
      <<"java", "envproxy-agent.jar">>,  <<"lib", "..", "java", "envproxy-agent.jar">>}}

Program == INSTANCE Launch WITH Unset <- None, Files <- RuntimeFiles
Agent   == INSTANCE AgentConfig WITH JsonFiles <- {}, OtherFiles <- {"/dev/null"}

-----------------------------------------------------------------------------

OrDefault(annotation, default) == IF annotation = None THEN default ELSE annotation

\* With a Vault address a Vault backend, otherwise a file backend on /dev/null.
BackendConfig(annotations) ==
  IF annotations.vaultAddr
    THEN [type |-> "vault", address |-> "address", role |-> "role",
          auth_method |-> OrDefault(annotations.authMethod, "kubernetes"),
          auth_mount  |-> "kubernetes",
          cache_ttl   |-> OrDefault(annotations.vaultCacheTTL, <<"5", "m">>)]
    ELSE [type |-> "file", path |-> "/dev/null"]

\* A mutant: the agent's socket is left to its default.
AgentTomlDefaultSocket(annotations) ==
  [agent |-> [log_level |-> "info"], backend |-> BackendConfig(annotations)]

\* config.toml.
AgentToml(annotations) ==
  [agent |-> [socket |-> SocketPath, log_level |-> "info"],
   backend |-> BackendConfig(annotations)]

InitContainer(annotations) ==
  [name    |-> InitName,
   command |-> <<"/usr/bin/envproxy", "init", AgentToml(annotations)>>,
   args    |-> <<>>, mounts |-> <<VolumeName>>, env |-> <<>>]

Sidecar ==
  [name    |-> AgentName,
   command |-> <<"/envproxy/envproxy-agent">>,
   args    |-> <<>>, mounts |-> <<VolumeName>>, env |-> <<>>]

\* The variables are added to those of the container, of which the last of a name counts.
InjectedEnv(annotations) ==
  << <<"ENVPROXY_SOCKET", SocketPath>>,
     <<"ENVPROXY_LIB", MountPath \o <<"lib", "libenvproxy.so">>>>,
     IF annotations.noPython THEN <<"ENVPROXY_NO_PYTHON", "1">>
     ELSE <<"ENVPROXY_PYTHON_PATH", MountPath \o <<"python">>>>,
     IF annotations.noJava THEN <<"ENVPROXY_NO_JAVA", "1">>
     ELSE <<"ENVPROXY_JAVA_PATH", MountPath \o <<"java">>>> >>

\* A mutant: the arguments are taken to be part of the command already.
MutateContainerDropsArgs(c, annotations) ==
  [c EXCEPT !.command = IF @ = <<>> THEN @ ELSE RunCommand,
            !.args    = IF c.command = <<>> THEN @ ELSE <<"run", "--">> \o c.command,
            !.mounts  = Append(@, VolumeName),
            !.env     = @ \o InjectedEnv(annotations)]

\* A container without a command is not wrapped, but gets the rest.
MutateContainer(c, annotations) ==
  [c EXCEPT !.command = IF @ = <<>> THEN @ ELSE RunCommand,
            !.args    = IF c.command = <<>> THEN @
                        ELSE <<"run", "--">> \o c.command \o @,
            !.mounts  = Append(@, VolumeName),
            !.env     = @ \o InjectedEnv(annotations)]

\* No list of containers means all of them; an empty one, as in " , ", means none.
ShouldInject(name, targets) == targets = None \/ name \in targets

\* A mutant: a pod none of whose containers is listed is left alone.
MutatePodIfListed(pod) ==
  LET targets == pod.annotations.containers
      Listed(c) == ShouldInject(c.name, targets)
      all == [i \in DOMAIN pod.containers |->
                IF Listed(pod.containers[i]) THEN MutateContainer(pod.containers[i], pod.annotations)
                ELSE pod.containers[i]]
  IN  IF \A i \in DOMAIN all : ~ Listed(all[i]) THEN pod
      ELSE [annotations |-> [pod.annotations EXCEPT !.injected = TRUE],
            volumes     |-> Append(pod.volumes, VolumeName),
            init        |-> Append(pod.init, InitContainer(pod.annotations)),
            containers  |-> Append(all, Sidecar)]

MutatePod(pod) ==
  LET targets == pod.annotations.containers
      Mutated(c) == IF c.name # AgentName /\ ShouldInject(c.name, targets)
                      THEN MutateContainer(c, pod.annotations) ELSE c
      all == Append(pod.containers, Sidecar)
  IN  [annotations |-> [pod.annotations EXCEPT !.injected = TRUE],
       volumes     |-> Append(pod.volumes, VolumeName),
       init        |-> Append(pod.init, InitContainer(pod.annotations)),
       containers  |-> [i \in DOMAIN all |-> Mutated(all[i])]]

WantsInjection(pod) == pod.annotations.inject /\ ~ pod.annotations.injected

\* Handle: the pod as it is to be created.  MustParse panics at a quantity that does not
\* parse, which controller-runtime turns into an error.
Handle(pod) ==
  IF ~ WantsInjection(pod) THEN pod
  ELSE IF ~ pod.annotations.quantities THEN Denied
  ELSE MutatePod(pod)

-----------------------------------------------------------------------------
(* The API server and the kubelet.                                            *)

\* Names are unique, a container mounts a volume once, and mounts only what there is.
Valid(pod) ==
  LET all   == pod.init \o pod.containers
      names == [i \in DOMAIN all |-> all[i].name]
  IN  /\ IsInjective(pod.volumes) /\ IsInjective(names)
      /\ \A i \in DOMAIN all :
           /\ IsInjective(all[i].mounts)
           /\ Range(all[i].mounts) \subseteq Range(pod.volumes)

\* cmd_init has run in the pod: the programs and the libraries are on the volume.
Copied(pod) ==
  \E i \in DOMAIN pod.init :
    /\ SubSeq(pod.init[i].command, 1, 2) = <<"/usr/bin/envproxy", "init">>
    /\ VolumeName \in Range(pod.init[i].mounts)

\* The agent's configuration: what the init container writes.
ConfigFile(pod) ==
  LET init == CHOOSE i \in DOMAIN pod.init : pod.init[i].name = InitName
  IN  pod.init[init].command[3]

Env(c) ==
  [name \in {c.env[i][1] : i \in DOMAIN c.env} |->
     c.env[Max({i \in DOMAIN c.env : c.env[i][1] = name})][2]]

\* What a container executes, by itself or through cmd_run, which must be there and
\* find a library; the image's own entry point is left out of either.
Executes(c, pod) ==
  IF c.command # RunCommand THEN c.command \o c.args
  ELSE IF /\ VolumeName \in Range(c.mounts) /\ Copied(pod)
          /\ Program!FindLibenvproxy(Env(c), MountPath) # None
          /\ SubSeq(c.args, 1, 2) = <<"run", "--">>
    THEN SubSeq(c.args, 3, Len(c.args))
  ELSE <<>>

\* The environment in which it is then executed, if the agent answers nothing yet.
Environment(c) ==
  IF c.command # RunCommand THEN Env(c)
  ELSE Program!Started(Program!CmdRun(Env(c), MountPath, DefaultSocket),
                       [l \in Program!Languages |-> None])

=============================================================================
