---------------------------- MODULE WebhookProofs ----------------------------
(***************************************************************************)
(* For any number of replicas, of failures and of pods, whatever the pods  *)
(* are: a replica of the injector that has run alone is trusted and misses *)
(* no pod, and the containers of a pod execute what was asked for and ask  *)
(* the agent beside them.                                                  *)
(***************************************************************************)
EXTENDS Webhook, SequenceTheorems, WellFoundedInduction, TLAPS

RInv == ReplicasOK /\ AloneInv

\* What the API server and the pods do leaves the replicas as they are.
PodStep ==
  \/ \E pod \in Templates : Create(pod, pod)
  \/ \E p \in DOMAIN pods :
       \/ \E asked \in Copies(pods[p].pod) : Create(pods[p].first, asked)
       \/ StartAgent(p)

ReplicaStep(i) == Replica(i) \/ UpdateUnanswered(i) \/ Fails(i)

LEMMA Initially == Init => RInv
<1> SUFFICES ASSUME Init PROVE RInv
  OBVIOUS
<1>1. ReplicasOK
  BY WebhookAssumption DEF Init, ReplicasOK, Replicas, Phases
<1>2. AloneInv
  BY DEF Init, AloneInv, Alive
<1>3. QED
  BY <1>1, <1>2 DEF RInv

LEMMA Unchanged ==
  ASSUME RInv, UNCHANGED replicas
  PROVE  RInv'
<1>1. ReplicasOK'
  BY DEF RInv, ReplicasOK, replicas
<1>2. AloneInv'
  BY DEF RInv, AloneInv, Alive, replicas
<1>3. QED
  BY <1>1, <1>2 DEF RInv

\* A new replica is alone if nobody else is alive; otherwise nobody is any more.
LEMMA StartKeeps ==
  ASSUME RInv, Start
  PROVE  RInv'
<1> DEFINE new == starts + 1
<1>1. /\ new \in Replicas /\ starts \in Nat
      /\ phase \in [Replicas -> Phases] /\ phase' = [phase EXCEPT ![new] = "get"]
      /\ UNCHANGED <<bundle, version, read, ends>>
  BY WebhookAssumption DEF RInv, ReplicasOK, Start, Goto, Replicas
<1>2. \A i \in Replicas : phase'[i] = IF i = new THEN "get" ELSE phase[i]
  BY <1>1
<1>3. Alive' = Alive \cup {new}
  BY <1>1, <1>2 DEF Alive
<1>4. ReplicasOK'
  <2>1. starts' = new /\ starts' \in 0..MaxStarts
    BY <1>1, WebhookAssumption DEF Start, Replicas
  <2>2. phase' \in [Replicas -> Phases]
    BY <1>1 DEF Phases
  <2>3. met' \in SUBSET Replicas
    BY <1>1 DEF RInv, ReplicasOK, Start, Alive
  <2>4. \A i \in Replicas : phase'[i] = "unborn" <=> i > starts'
    BY <1>1, <1>2, <2>1 DEF RInv, ReplicasOK, Replicas
  <2>5. (\E i \in Replicas : phase'[i] \in {"manager", "ready"}) => bundle' # 0
    BY <1>1, <1>2 DEF RInv, ReplicasOK
  <2>6. QED
    BY <1>1, <2>1, <2>2, <2>3, <2>4, <2>5 DEF RInv, ReplicasOK
<1>5. AloneInv'
  <2>1. SUFFICES ASSUME NEW i \in Replicas, i \notin met'
                 PROVE  /\ i \in Alive' => Alive' = {i}
                        /\ phase'[i] = "update" => read'[i] = version'
                        /\ phase'[i] \in {"manager", "ready"} => bundle' = i
    BY DEF AloneInv, Replicas
  <2>2. CASE i = new
    <3>1. Alive = {}
      BY <2>1, <2>2 DEF Start
    <3>2. QED
      BY <1>2, <1>3, <2>2, <3>1
  <2>3. CASE i # new
    <3>1. i \notin met /\ i \notin Alive
      BY <2>1, <2>3 DEF Start
    <3>2. /\ phase[i] = "update" => read[i] = version
          /\ phase[i] \in {"manager", "ready"} => bundle = i
      BY <3>1 DEF RInv, AloneInv
    <3>3. i \notin Alive' /\ phase'[i] = phase[i]
      BY <1>2, <1>3, <2>3, <3>1
    <3>4. read' = read /\ version' = version /\ bundle' = bundle
      BY <1>1
    <3>5. QED
      BY <3>2, <3>3, <3>4
  <2>4. QED
    BY <2>2, <2>3
<1>6. QED
  BY <1>4, <1>5 DEF RInv

\* A replica that has read and written the configuration with nobody beside it is the
\* one whose CA is in it, and only one that is alive can change that.
LEMMA ReplicaKeeps ==
  ASSUME RInv, NEW i \in Replicas, ReplicaStep(i)
  PROVE  RInv'
<1>1. phase \in [Replicas -> Phases] /\ i \in Alive /\ i \in Nat \ {0}
  BY DEF RInv, ReplicasOK, Alive, ReplicaStep, Replica, Get, Update, Conflict, Serve,
         UpdateUnanswered, Fails, Replicas
<1>2. starts' = starts /\ met' = met
  BY DEF ReplicaStep, Replica, Get, Update, Conflict, Serve, UpdateUnanswered, Fails
<1>3. PICK label \in Phases \ {"unborn"} : phase' = [phase EXCEPT ![i] = label]
  BY DEF ReplicaStep, Replica, Get, Update, Conflict, Serve, UpdateUnanswered, Fails,
         Goto, Phases
<1>4. \A j \in Replicas : phase'[j] = IF j = i THEN label ELSE phase[j]
  BY <1>1, <1>3
<1>5. Alive' \subseteq Alive
  BY <1>1, <1>4 DEF Alive
<1>6. /\ label = "update" => read'[i] = version'
      /\ label \in {"manager", "ready"} =>
           \/ bundle' = i
           \/ phase[i] = "manager" /\ bundle' = bundle
  BY <1>1, <1>4 DEF ReplicaStep, Replica, Get, Update, Conflict, Serve,
                    UpdateUnanswered, Fails, Goto, RInv, ReplicasOK
<1>7. ReplicasOK'
  <2>1. /\ ends' \in 0..MaxEnds /\ version' \in Nat
        /\ bundle' = bundle \/ bundle' = i
        /\ read' \in [Replicas -> Nat]
    BY WebhookAssumption
    DEF RInv, ReplicasOK, ReplicaStep, Replica, Get, Update, Conflict, Serve,
        UpdateUnanswered, Fails
  <2>2. phase' \in [Replicas -> Phases]
    BY <1>1, <1>3
  <2>3. \A j \in Replicas : phase'[j] = "unborn" <=> j > starts'
    BY <1>1, <1>2, <1>4 DEF RInv, ReplicasOK, Alive
  <2>4. (\E j \in Replicas : phase'[j] \in {"manager", "ready"}) => bundle' # 0
    BY <1>1, <1>4, <1>6, <2>1 DEF RInv, ReplicasOK
  <2>5. bundle' \in 0..MaxStarts
    BY <2>1, WebhookAssumption DEF RInv, ReplicasOK, Replicas
  <2>6. QED
    BY <1>2, <2>1, <2>2, <2>3, <2>4, <2>5 DEF RInv, ReplicasOK
<1>8. AloneInv'
  <2>1. SUFFICES ASSUME NEW j \in Replicas, j \notin met
                 PROVE  /\ j \in Alive' => Alive' = {j}
                        /\ phase'[j] = "update" => read'[j] = version'
                        /\ phase'[j] \in {"manager", "ready"} => bundle' = j
    BY <1>2 DEF AloneInv, Replicas
  <2>2. /\ j \in Alive => Alive = {j}
        /\ phase[j] \in {"manager", "ready"} => bundle = j
    BY <2>1 DEF RInv, AloneInv
  <2>3. CASE j = i
    BY <1>1, <1>4, <1>5, <1>6, <2>2, <2>3
  <2>4. CASE j # i
    <3>1. j \notin Alive
      BY <1>1, <2>2, <2>4
    <3>2. QED
      BY <1>4, <1>5, <2>4, <3>1 DEF Alive
  <2>5. QED
    BY <2>3, <2>4
<1>9. QED
  BY <1>7, <1>8 DEF RInv

LEMMA StepKeeps ==
  ASSUME RInv, [Next]_vars
  PROVE  RInv'
<1>1. CASE Start
  BY <1>1, StartKeeps
<1>2. CASE \E i \in Replicas : ReplicaStep(i)
  BY <1>2, ReplicaKeeps
<1>3. CASE PodStep
  <2>1. UNCHANGED replicas
    BY <1>3 DEF PodStep, Create, StartAgent
  <2>2. QED
    BY <2>1, Unchanged
<1>4. CASE UNCHANGED vars
  BY <1>4, Unchanged DEF vars
<1>5. QED
  BY <1>1, <1>2, <1>3, <1>4 DEF Next, ReplicaStep, PodStep

\* However replicas start, conflict and fail, the inductive invariant holds.
THEOREM Invariance == Spec => []RInv
<1>1. QED
  BY Initially, StepKeeps, PTL DEF Spec

\* A replica that is ready and has never run beside another one is trusted.
THEOREM LoneReplica == Spec => []AloneIsTrusted
<1>1. RInv => AloneIsTrusted
  BY DEF RInv, AloneInv, AloneIsTrusted, Ready
<1>2. QED
  BY <1>1, Invariance, PTL

-----------------------------------------------------------------------------
(* The pods.                                                                  *)

\* A function on 1..n is a sequence.
LEMMA IsSeq ==
  ASSUME NEW n \in Nat, NEW S, NEW f \in [1..n -> S]
  PROVE  f \in Seq(S)
<1>1. f \in UNION {[1..k -> S] : k \in Nat}
  OBVIOUS
<1>2. QED
  BY ONLY <1>1, SeqDef, Zenon

\* What a sequence is, its elements being of any kind.
LEMMA SequenceIs ==
  ASSUME NEW s, IsSequence(s)
  PROVE  /\ Len(s) \in Nat /\ DOMAIN s = 1..Len(s)
         /\ s \in Seq(Range(s)) /\ \A i \in 1..Len(s) : s[i] \in Range(s)
BY LenProperties DEF IsSequence, Range

LEMMA ConcatIs ==
  ASSUME NEW s, NEW t, IsSequence(s), IsSequence(t)
  PROVE  /\ Len(s \o t) = Len(s) + Len(t) /\ DOMAIN (s \o t) = 1..Len(s) + Len(t)
         /\ s \o t \in Seq(Range(s) \cup Range(t))
         /\ \A i \in 1..Len(s) : (s \o t)[i] = s[i]
         /\ \A i \in 1..Len(t) : (s \o t)[Len(s) + i] = t[i]
<1> DEFINE S == Range(s) \cup Range(t)
<1>1. s \in Seq(S) /\ t \in Seq(S) /\ Len(s) \in Nat /\ Len(t) \in Nat
  BY SequenceIs, SeqMonotonic
<1> HIDE DEF S
<1>2. /\ s \o t \in Seq(S) /\ Len(s \o t) = Len(s) + Len(t)
      /\ \A i \in 1..Len(s) + Len(t) :
           (s \o t)[i] = IF i <= Len(s) THEN s[i] ELSE t[i - Len(s)]
  BY <1>1, ConcatProperties
<1>3. DOMAIN (s \o t) = 1..Len(s) + Len(t)
  BY <1>2, LenProperties
<1>4. \A i \in 1..Len(t) : /\ Len(s) + i \in 1..Len(s) + Len(t) /\ ~ (Len(s) + i <= Len(s))
                           /\ (Len(s) + i) - Len(s) = i
  BY <1>1
<1>5. QED
  BY <1>1, <1>2, <1>3, <1>4 DEF S

LEMMA AppendIs ==
  ASSUME NEW s, IsSequence(s), NEW e
  PROVE  /\ Len(Append(s, e)) = Len(s) + 1 /\ DOMAIN Append(s, e) = 1..Len(s) + 1
         /\ IsSequence(Append(s, e))
         /\ \A i \in 1..Len(s) : Append(s, e)[i] = s[i]
         /\ Append(s, e)[Len(s) + 1] = e
<1> DEFINE S == Range(s) \cup {e}
           t == Append(s, e)
<1>1. s \in Seq(S) /\ Len(s) \in Nat /\ DOMAIN s = 1..Len(s)
  BY SequenceIs, SeqMonotonic
<1>2. e \in S
  OBVIOUS
<1> HIDE DEF S
<1>3. /\ t \in Seq(S) /\ Len(t) = Len(s) + 1
      /\ \A i \in 1..Len(s) : t[i] = s[i]
      /\ t[Len(s) + 1] = e
  BY <1>1, <1>2, AppendProperties
<1>4. DOMAIN t = 1..Len(s) + 1 /\ t \in [1..Len(t) -> S]
  BY <1>3, LenProperties
<1>5. t \in [1..Len(t) -> Range(t)]
  BY <1>3, <1>4 DEF Range
<1>6. IsSequence(t)
  <2> HIDE DEF t
  <2>1. Len(t) \in Nat
    BY <1>1, <1>3
  <2>2. QED
    BY <1>5, <2>1, IsSeq DEF IsSequence
<1>7. QED
  BY <1>3, <1>4, <1>6

\* What MutatePod does to the containers of a pod.
LEMMA Mutated ==
  ASSUME NEW pod, IsSequence(pod.containers), IsSequence(pod.init)
  PROVE  LET m == MutatePod(pod)
             n == Len(pod.containers)
         IN  /\ n \in Nat /\ DOMAIN m.containers = 1..n + 1 /\ IsSequence(m.containers)
             /\ Len(m.containers) = n + 1
             /\ m.containers[n + 1] = Sidecar
             /\ \A i \in 1..n :
                  m.containers[i] =
                    IF /\ pod.containers[i].name # AgentName
                       /\ ShouldInject(pod.containers[i].name, pod.annotations.containers)
                      THEN MutateContainer(pod.containers[i], pod.annotations)
                      ELSE pod.containers[i]
             /\ m.init = Append(pod.init, InitContainer(pod.annotations))
             /\ IsSequence(m.init)
             /\ m.annotations = [pod.annotations EXCEPT !.injected = TRUE]
<1> DEFINE m == MutatePod(pod)
           n == Len(pod.containers)
           all == Append(pod.containers, Sidecar)
           New(c) == IF c.name # AgentName /\ ShouldInject(c.name, pod.annotations.containers)
                       THEN MutateContainer(c, pod.annotations) ELSE c
<1>1. /\ n \in Nat /\ DOMAIN all = 1..n + 1
      /\ \A i \in 1..n : all[i] = pod.containers[i]
      /\ all[n + 1] = Sidecar
  BY SequenceIs, AppendIs
<1>2. /\ m.containers = [i \in DOMAIN all |-> New(all[i])]
      /\ m.init = Append(pod.init, InitContainer(pod.annotations))
      /\ m.annotations = [pod.annotations EXCEPT !.injected = TRUE]
  BY DEF MutatePod
<1>3. New(Sidecar) = Sidecar
  BY DEF Sidecar
<1> HIDE DEF all, New, m, n
<1>4. /\ DOMAIN m.containers = 1..n + 1
      /\ m.containers[n + 1] = Sidecar
      /\ \A i \in 1..n : m.containers[i] = New(pod.containers[i])
  BY <1>1, <1>2, <1>3
<1>5. m.containers \in [1..n + 1 -> Range(m.containers)] /\ n + 1 \in Nat
  BY <1>1, <1>2, <1>4 DEF Range
<1>6. IsSequence(m.containers)
  BY <1>5, IsSeq DEF IsSequence
<1>7. Len(m.containers) = n + 1
  BY <1>4, <1>5, <1>6, SequenceIs
<1>8. IsSequence(m.init)
  BY <1>2, AppendIs
<1>9. QED
  BY <1>1, <1>2, <1>4, <1>6, <1>7, <1>8 DEF m, n, New

\* The forms a pod takes, and what of it the injector leaves as it was.
LEMMA FormIs ==
  ASSUME NEW first \in Templates, NEW pod \in Forms(first)
  PROVE  LET m == MutatePod(first)
         IN  /\ IsSequence(pod.containers) /\ IsSequence(pod.init)
             /\ pod.annotations.inject = first.annotations.inject
             /\ \/ pod = first
                \/ /\ first.annotations.inject
                   /\ pod = m \/ pod = [m EXCEPT !.annotations.injected = FALSE]
                   /\ pod.containers = m.containers /\ pod.init = m.init
<1> DEFINE m == MutatePod(first)
           a == first.annotations
<1>1. IsPod(first)
  BY TemplatesAssumption
<1>2. CASE pod = first
  BY <1>1, <1>2 DEF IsPod
<1>3. CASE pod # first
  <2>1. a.inject /\ (pod = m \/ pod = [m EXCEPT !.annotations.injected = FALSE])
    BY <1>3 DEF Forms, Copies
  <2>2. /\ m = [annotations |-> m.annotations, volumes |-> m.volumes, init |-> m.init,
                containers |-> m.containers]
        /\ m.annotations = [a EXCEPT !.injected = TRUE]
    BY DEF MutatePod
  <2>3. IsSequence(m.containers) /\ IsSequence(m.init)
    BY <1>1, Mutated DEF IsPod
  <2>4. m.annotations.inject = a.inject
    BY <1>1, <2>2 DEF IsPod
  <2> HIDE DEF m
  <2>5. LET q == [m EXCEPT !.annotations.injected = FALSE]
        IN  /\ q.containers = m.containers /\ q.init = m.init
            /\ q.annotations = [m.annotations EXCEPT !.injected = FALSE]
    BY <2>2
  <2>6. [m.annotations EXCEPT !.injected = FALSE].inject = a.inject
    BY <1>1, <2>2 DEF IsPod
  <2>7. QED
    BY <2>1, <2>3, <2>4, <2>5, <2>6 DEF m
<1>4. QED
  BY <1>2, <1>3

\* What is copied of a pod is one of its forms again.
LEMMA CopyIsForm ==
  ASSUME NEW first \in Templates, NEW pod \in Forms(first), NEW asked \in Copies(pod)
  PROVE  asked \in Forms(first)
<1> DEFINE Plain(p) == [p EXCEPT !.annotations.injected = FALSE]
           m == MutatePod(first)
<1>1. asked = pod \/ asked = Plain(pod)
  BY DEF Copies
<1>2. IsPod(first) /\ ~ first.annotations.injected
  BY TemplatesAssumption
<1>3. Plain(first) = first
  BY <1>2 DEF IsPod
<1>4. Plain(Plain(m)) = Plain(m)
  BY DEF MutatePod
<1>5. pod = first \/ (first.annotations.inject /\ pod \in {m, Plain(m)})
  BY FormIs
<1> HIDE DEF Plain, m
<1>6. asked = first \/ (first.annotations.inject /\ asked \in {m, Plain(m)})
  BY <1>1, <1>3, <1>4, <1>5
<1>7. QED
  BY <1>6 DEF Forms, Copies, Plain, m

\* Two containers of a valid pod do not have the same name.
LEMMA NamesClash ==
  ASSUME NEW s, NEW t, IsSequence(s), IsSequence(t),
         NEW i \in 1..Len(t), NEW j \in 1..Len(t), i # j, t[i].name = t[j].name,
         LET all == s \o t IN IsInjective([x \in DOMAIN all |-> all[x].name])
  PROVE  FALSE
<1> DEFINE all == s \o t
           k == Len(s)
<1>1. /\ k \in Nat /\ Len(t) \in Nat /\ DOMAIN all = 1..k + Len(t)
      /\ all[k + i] = t[i] /\ all[k + j] = t[j]
  BY ConcatIs, SequenceIs
<1>2. IsInjective([x \in DOMAIN all |-> all[x].name])
  OBVIOUS
<1> HIDE DEF all, k
<1>3. k + i \in DOMAIN all /\ k + j \in DOMAIN all /\ k + i # k + j
  BY <1>1
<1>4. QED
  BY <1>1, <1>2, <1>3 DEF IsInjective

\* A pod is not injected twice: it would have two agents.
LEMMA OnlyOnce ==
  ASSUME NEW first \in Templates, NEW pod,
         pod.containers = MutatePod(first).containers, pod.init = MutatePod(first).init,
         Valid(MutatePod(pod))
  PROVE  FALSE
<1> DEFINE n == Len(first.containers)
           m == MutatePod(pod)
           k == Len(m.init)
<1>1. /\ IsSequence(first.containers) /\ IsSequence(first.init)
  BY TemplatesAssumption DEF IsPod
<1>2. /\ n \in Nat /\ Len(pod.containers) = n + 1
      /\ IsSequence(pod.containers) /\ IsSequence(pod.init)
      /\ pod.containers[n + 1] = Sidecar
  BY <1>1, Mutated
<1>3. /\ Len(m.containers) = n + 2 /\ IsSequence(m.containers) /\ IsSequence(m.init)
      /\ m.containers[n + 2] = Sidecar /\ m.containers[n + 1].name = AgentName
  <2> HIDE DEF m, n
  <2>1. /\ Len(m.containers) = Len(pod.containers) + 1
        /\ IsSequence(m.containers) /\ IsSequence(m.init)
        /\ m.containers[Len(pod.containers) + 1] = Sidecar
        /\ \A i \in 1..Len(pod.containers) :
             pod.containers[i].name = AgentName => m.containers[i] = pod.containers[i]
    BY <1>2, Mutated DEF m
  <2>2. n + 1 \in 1..Len(pod.containers) /\ pod.containers[n + 1].name = AgentName
    BY <1>2 DEF Sidecar
  <2>3. (n + 1) + 1 = n + 2
    BY <1>2
  <2>4. QED
    BY <1>2, <2>1, <2>2, <2>3
<1>4. LET all == m.init \o m.containers
      IN  IsInjective([i \in DOMAIN all |-> all[i].name])
  BY DEF Valid
<1> HIDE DEF m, n
<1>5. n + 1 \in 1..Len(m.containers) /\ n + 2 \in 1..Len(m.containers) /\ n + 1 # n + 2
  BY <1>2, <1>3
<1>6. m.containers[n + 2].name = AgentName
  BY <1>3 DEF Sidecar
<1>7. QED
  BY <1>3, <1>4, <1>5, <1>6, NamesClash

\* What the webhook answers is one of the forms again, and has the agent if it was asked
\* for.
LEMMA HandleForm ==
  ASSUME NEW first \in Templates, NEW asked \in Forms(first),
         Handle(asked) # Denied, Valid(Handle(asked))
  PROVE  /\ Handle(asked) \in Forms(first)
         /\ asked.annotations.inject => HasAgent(Handle(asked))
<1> DEFINE m == MutatePod(first)
           Plain(p) == [p EXCEPT !.annotations.injected = FALSE]
<1>1. /\ IsPod(first) /\ ~ first.annotations.injected
  BY TemplatesAssumption
<1>2. /\ IsSequence(first.containers) /\ IsSequence(first.init)
      /\ "injected" \in DOMAIN first.annotations
  BY <1>1 DEF IsPod
<1>3. \A pod : pod.containers = m.containers => HasAgent(pod)
  <2> DEFINE n == Len(first.containers)
  <2>1. n \in Nat /\ DOMAIN m.containers = 1..n + 1 /\ m.containers[n + 1] = Sidecar
    BY <1>2, Mutated
  <2> HIDE DEF n, m
  <2>2. n + 1 \in DOMAIN m.containers /\ m.containers[n + 1].name = AgentName
    BY <2>1 DEF Sidecar
  <2>3. QED
    BY <2>2 DEF HasAgent
<1>4. /\ m.annotations = [first.annotations EXCEPT !.injected = TRUE]
      /\ Plain(m).annotations = [m.annotations EXCEPT !.injected = FALSE]
  BY DEF MutatePod
<1>5. m.annotations.injected /\ ~ Plain(m).annotations.injected
  BY <1>2, <1>4
<1>6. CASE ~ asked.annotations.inject
  BY <1>6 DEF Handle, WantsInjection
<1>7. CASE asked.annotations.inject /\ asked = first
  <2>1. Handle(asked) = m
    BY <1>1, <1>7 DEF Handle, WantsInjection
  <2>2. QED
    BY <1>3, <1>7, <2>1 DEF Forms, Copies
<1>8. CASE asked.annotations.inject /\ asked = m
  <2>1. Handle(asked) = asked
    BY <1>5, <1>8 DEF Handle, WantsInjection
  <2>2. QED
    BY <1>3, <1>8, <2>1
<1>9. CASE asked.annotations.inject /\ asked # first /\ asked = Plain(m)
  <2>1. Handle(asked) = MutatePod(asked)
    BY <1>5, <1>9 DEF Handle, WantsInjection
  <2>2. asked.containers = m.containers /\ asked.init = m.init
    BY <1>9, FormIs
  <2>3. QED
    BY <2>1, <2>2, OnlyOnce
<1>10. QED
  BY <1>6, <1>7, <1>8, <1>9, FormIs

\* Whether a replica is asked or not, the pod that is created is one of the forms; if the
\* one that is asked has never run beside another, it is asked and trusted.
LEMMA AnswerForm ==
  ASSUME RInv, NEW first \in Templates, NEW asked \in Forms(first),
         NEW pod \in Answers(asked) \ {Denied}, Valid(pod)
  PROVE  /\ pod \in Forms(first)
         /\ /\ Ready # {} /\ Ready \cap met = {}
            /\ asked.annotations.inject
            => HasAgent(pod)
<1>1. pod = Handle(asked) \/ pod = asked
  BY DEF Answers, Unanswered
<1>2. CASE Ready # {} /\ Ready \cap met = {}
  <2>1. \A i \in Ready : bundle = i
    BY <1>2 DEF RInv, AloneInv, Ready
  <2>2. pod = Handle(asked)
    BY <1>2, <2>1 DEF Answers
  <2>3. QED
    BY <2>2, HandleForm
<1>3. CASE ~ (Ready # {} /\ Ready \cap met = {})
  BY <1>1, <1>3, HandleForm
<1>4. QED
  BY <1>2, <1>3

\* One more pod, in one of the forms of what was asked for first.
LEMMA CreateKeeps ==
  ASSUME RInv, PodsInv, NEW first \in Templates, NEW asked \in Forms(first),
         Create(first, asked)
  PROVE  PodsInv'
<1>1. PICK pod \in Answers(asked) \ {Denied} :
        /\ Valid(pod)
        /\ pods' = Append(pods, [first |-> first, asked |-> asked, pod |-> pod,
                                 alone |-> Ready # {} /\ Ready \cap met = {},
                                 agent |-> "waiting"])
  BY DEF Create
<1> DEFINE new == [first |-> first, asked |-> asked, pod |-> pod,
                   alone |-> Ready # {} /\ Ready \cap met = {}, agent |-> "waiting"]
<1>2. /\ pod \in Forms(first)
      /\ new.alone /\ asked.annotations.inject => HasAgent(pod)
  BY <1>1, AnswerForm
<1>3. /\ IsSequence(pods') /\ Len(pods) \in Nat
      /\ DOMAIN pods = 1..Len(pods) /\ DOMAIN pods' = 1..Len(pods) + 1
      /\ \A p \in 1..Len(pods) : pods'[p] = pods[p]
      /\ pods'[Len(pods) + 1] = new
  BY <1>1, AppendIs, SequenceIs DEF PodsInv
<1>4. /\ new = [first |-> new.first, asked |-> new.asked, pod |-> new.pod,
                alone |-> new.alone, agent |-> new.agent]
      /\ new.first \in Templates /\ new.pod \in Forms(new.first) /\ Valid(new.pod)
      /\ new.alone /\ new.asked.annotations.inject => HasAgent(new.pod)
  BY <1>1, <1>2
<1> HIDE DEF new
<1>5. \A p \in DOMAIN pods' : p \in DOMAIN pods \/ p = Len(pods) + 1
  BY <1>3
<1>6. QED
  BY <1>3, <1>4, <1>5 DEF PodsInv, NotMissed

\* Starting an agent changes no pod.
LEMMA StartAgentKeeps ==
  ASSUME PodsInv, NEW p \in DOMAIN pods, StartAgent(p)
  PROVE  PodsInv'
<1>1. PICK agent : pods' = [pods EXCEPT ![p].agent = agent]
  BY DEF StartAgent
<1>2. \A q \in DOMAIN pods :
        pods[q] = [first |-> pods[q].first, asked |-> pods[q].asked, pod |-> pods[q].pod,
                   alone |-> pods[q].alone, agent |-> pods[q].agent]
  BY DEF PodsInv
<1>3. /\ Len(pods) \in Nat /\ DOMAIN pods = 1..Len(pods)
      /\ DOMAIN pods' = DOMAIN pods
  BY <1>1, SequenceIs DEF PodsInv
<1>4. \A q \in DOMAIN pods :
        /\ pods'[q].first = pods[q].first /\ pods'[q].asked = pods[q].asked
        /\ pods'[q].pod = pods[q].pod /\ pods'[q].alone = pods[q].alone
        /\ pods'[q] = [first |-> pods[q].first, asked |-> pods[q].asked, pod |-> pods[q].pod,
                       alone |-> pods[q].alone, agent |-> pods'[q].agent]
  BY <1>1, <1>2
<1>5. IsSequence(pods')
  <2>1. pods' \in [1..Len(pods) -> Range(pods')]
    BY <1>1, <1>3 DEF Range
  <2>2. QED
    BY <1>3, <2>1, IsSeq DEF IsSequence
<1>6. QED
  BY <1>3, <1>4, <1>5 DEF PodsInv, NotMissed

LEMMA PodsKept ==
  ASSUME RInv, PodsInv, [Next]_vars
  PROVE  PodsInv'
<1>1. CASE UNCHANGED pods
  BY <1>1 DEF PodsInv, NotMissed
<1>2. CASE \E first \in Templates : Create(first, first)
  <2>1. PICK first \in Templates : Create(first, first)
    BY <1>2
  <2>2. first \in Forms(first)
    BY DEF Forms
  <2>3. QED
    BY <2>1, <2>2, CreateKeeps
<1>3. CASE \E p \in DOMAIN pods : \E asked \in Copies(pods[p].pod) : Create(pods[p].first, asked)
  <2>1. PICK p \in DOMAIN pods :
          \E asked \in Copies(pods[p].pod) : Create(pods[p].first, asked)
    BY <1>3
  <2>2. PICK asked \in Copies(pods[p].pod) : Create(pods[p].first, asked)
    BY <2>1
  <2>3. pods[p].first \in Templates /\ asked \in Forms(pods[p].first)
    BY CopyIsForm DEF PodsInv
  <2>4. QED
    BY <2>2, <2>3, CreateKeeps
<1>4. CASE \E p \in DOMAIN pods : StartAgent(p)
  BY <1>4, StartAgentKeeps
<1>5. CASE Start \/ \E i \in Replicas : ReplicaStep(i)
  BY <1>1, <1>5 DEF Start, ReplicaStep, Replica, Get, Update, Conflict, Serve,
                    UpdateUnanswered, Fails
<1>6. QED
  BY <1>1, <1>2, <1>3, <1>4, <1>5 DEF Next, ReplicaStep, vars

\* Whatever has been submitted again and however the replicas have come and gone, a pod
\* is what was asked for first or that injected once.
THEOREM PodsInvariance == Spec => []PodsInv
<1>1. Init => PodsInv
  <2> SUFFICES ASSUME Init PROVE PodsInv
    OBVIOUS
  <2>1. pods = <<>> /\ DOMAIN pods = {} /\ IsSequence(pods)
    BY EmptySeq DEF Init, IsSequence
  <2>2. QED
    BY <2>1 DEF PodsInv, NotMissed
<1>2. QED
  BY <1>1, PodsKept, Invariance, PTL DEF Spec

\* A pod that asks for injection while the one ready replica has never run beside another
\* is not created without the agent.
THEOREM InjectionNotMissed == Spec => []NotMissed
<1>1. PodsInv => NotMissed
  BY DEF PodsInv
<1>2. QED
  BY <1>1, PodsInvariance, PTL

\* A set of positions that is not empty has a last one.
LEMMA MaxIs ==
  ASSUME NEW n \in Nat, NEW S \in SUBSET (0..n), S # {}
  PROVE  Max(S) \in S /\ \A k \in S : Max(S) >= k
<1>1. PICK m \in S : \A k \in S : m >= k
  <2> DEFINE less == OpToRel(<, Nat)
             T    == {n - x : x \in S}
  <2>1. T \subseteq Nat /\ T # {}
    <3>1. \A x \in S : n - x \in Nat
      OBVIOUS
    <3>2. QED
      BY <3>1
  <2>2. IsWellFoundedOn(less, Nat)
    BY NatLessThanWellFounded
  <2>3. \A x, y \in Nat : x < y => <<x, y>> \in less
    BY DEF OpToRel
  <2> HIDE DEF less, T
  <2>4. PICK t \in T : \A y \in T : <<y, t>> \notin less
    BY <2>1, <2>2, WFMin
  <2>5. PICK m \in S : t = n - m
    BY DEF T
  <2>6. ASSUME NEW k \in S PROVE m >= k
    <3>1. n - k \in T /\ n - k \in Nat /\ t \in Nat /\ m \in Nat /\ k \in Nat
      BY <2>1 DEF T
    <3>2. ~ (n - k < t)
      BY <2>3, <2>4, <3>1
    <3>3. QED
      BY <2>5, <3>1, <3>2
  <2>7. QED
    BY <2>6
<1>2. QED
  BY <1>1 DEF Max

\* What the injector adds to the environment of a container takes the place of what the
\* container has set itself, and nothing else is changed.
LEMMA InjectedEnvIs ==
  ASSUME NEW a
  PROVE  /\ IsSequence(InjectedEnv(a)) /\ Len(InjectedEnv(a)) = 4
         /\ InjectedEnv(a)[1] = <<"ENVPROXY_SOCKET", SocketPath>>
         /\ InjectedEnv(a)[2] = <<"ENVPROXY_LIB", MountPath \o <<"lib", "libenvproxy.so">>>>
         /\ InjectedEnv(a)[3] = IF a.noPython THEN <<"ENVPROXY_NO_PYTHON", "1">>
                                ELSE <<"ENVPROXY_PYTHON_PATH", MountPath \o <<"python">>>>
         /\ InjectedEnv(a)[4] = IF a.noJava THEN <<"ENVPROXY_NO_JAVA", "1">>
                                ELSE <<"ENVPROXY_JAVA_PATH", MountPath \o <<"java">>>>
<1> DEFINE e == InjectedEnv(a)
<1>1. /\ Len(e) = 4 /\ DOMAIN e = 1..4
      /\ e[1] = <<"ENVPROXY_SOCKET", SocketPath>>
      /\ e[2] = <<"ENVPROXY_LIB", MountPath \o <<"lib", "libenvproxy.so">>>>
      /\ e[3] = IF a.noPython THEN <<"ENVPROXY_NO_PYTHON", "1">>
                ELSE <<"ENVPROXY_PYTHON_PATH", MountPath \o <<"python">>>>
      /\ e[4] = IF a.noJava THEN <<"ENVPROXY_NO_JAVA", "1">>
                ELSE <<"ENVPROXY_JAVA_PATH", MountPath \o <<"java">>>>
  BY DEF InjectedEnv
<1>2. e \in [1..4 -> Range(e)]
  BY DEF InjectedEnv, Range
<1>3. IsSequence(e)
  BY <1>2, IsSeq DEF IsSequence
<1>4. QED
  BY <1>1, <1>3

\* d is a container like c, with the injector's variables.
Added(c, d, a) == IsSequence(c.env) /\ d.env = c.env \o InjectedEnv(a)

LEMMA Joined ==
  ASSUME NEW s, NEW t, NEW u, IsSequence(s), IsSequence(t), u = s \o t
  PROVE  /\ DOMAIN u = 1..Len(s) + Len(t)
         /\ \A i \in 1..Len(s) : u[i] = s[i]
         /\ \A j \in 1..Len(t) : u[Len(s) + j] = t[j]
BY ConcatIs

LEMMA EnvIs ==
  ASSUME NEW c, NEW d, NEW a, Added(c, d, a)
  PROVE  LET e == InjectedEnv(a)
         IN  /\ \A j \in 1..4 : e[j][1] \in DOMAIN Env(d) /\ Env(d)[e[j][1]] = e[j][2]
             /\ \A name : (\A j \in 1..4 : name # e[j][1]) =>
                  /\ name \in DOMAIN Env(d) <=> name \in DOMAIN Env(c)
                  /\ name \in DOMAIN Env(c) => Env(d)[name] = Env(c)[name]
<1> DEFINE e == InjectedEnv(a)
           n == Len(c.env)
           At(f, name) == {i \in DOMAIN f.env : f.env[i][1] = name}
<1>1. IsSequence(c.env) /\ d.env = c.env \o e
  BY DEF Added
<1>2. /\ n \in Nat /\ DOMAIN c.env = 1..n /\ DOMAIN d.env = 1..n + 4
      /\ \A i \in 1..n : d.env[i] = c.env[i]
      /\ \A j \in 1..4 : d.env[n + j] = e[j]
  <2>1. PICK f : f = e
    OBVIOUS
  <2>2. IsSequence(f) /\ d.env = c.env \o f
    BY <1>1, <2>1, InjectedEnvIs
  <2>3. n \in Nat /\ DOMAIN c.env = 1..n
    BY <1>1, SequenceIs
  <2> HIDE DEF e
  <2>4. /\ DOMAIN d.env = 1..Len(c.env) + Len(f)
        /\ \A i \in 1..Len(c.env) : d.env[i] = c.env[i]
        /\ \A j \in 1..Len(f) : d.env[Len(c.env) + j] = f[j]
    BY <1>1, <2>2, Joined
  <2>5. Len(f) = 4
    BY <2>1, InjectedEnvIs DEF e
  <2>6. QED
    BY <2>1, <2>3, <2>4, <2>5
<1>3. \A j, k \in 1..4 : j # k => e[j][1] # e[k][1]
  <2>1. /\ e[1][1] = "ENVPROXY_SOCKET" /\ e[2][1] = "ENVPROXY_LIB"
        /\ e[3][1] \in {"ENVPROXY_NO_PYTHON", "ENVPROXY_PYTHON_PATH"}
        /\ e[4][1] \in {"ENVPROXY_NO_JAVA", "ENVPROXY_JAVA_PATH"}
    <3>1. e[1][1] = "ENVPROXY_SOCKET" /\ e[2][1] = "ENVPROXY_LIB"
      BY DEF InjectedEnv
    <3>2. e[3][1] \in {"ENVPROXY_NO_PYTHON", "ENVPROXY_PYTHON_PATH"}
      BY DEF InjectedEnv
    <3>3. e[4][1] \in {"ENVPROXY_NO_JAVA", "ENVPROXY_JAVA_PATH"}
      BY DEF InjectedEnv
    <3>4. QED
      BY <3>1, <3>2, <3>3
  <2> HIDE DEF e
  <2>2. QED
    BY <2>1
<1> HIDE DEF e, n
<1>4. \A i \in DOMAIN d.env : i \in 1..n \/ \E j \in 1..4 : i = n + j
  <2>1. \A i \in 1..n + 4 : i \in 1..n \/ (i - n \in 1..4 /\ i = n + (i - n))
    BY <1>2
  <2>2. QED
    BY <1>2, <2>1
<1>5. \A j \in 1..4 : n + j \in DOMAIN d.env
  BY <1>2
<1>6. ASSUME NEW j \in 1..4
      PROVE  e[j][1] \in DOMAIN Env(d) /\ Env(d)[e[j][1]] = e[j][2]
  <2>1. n + j \in At(d, e[j][1])
    BY <1>2, <1>5
  <2>2. \A i \in At(d, e[j][1]) : i \in 1..n \/ i = n + j
    <3>1. ASSUME NEW i \in At(d, e[j][1]), NEW k \in 1..4, i = n + k PROVE k = j
      <4>1. e[k][1] = e[j][1]
        BY <1>2, <3>1
      <4>2. QED
        BY <1>3, <4>1
    <3>2. At(d, e[j][1]) \subseteq DOMAIN d.env
      OBVIOUS
    <3>3. QED
      BY <1>4, <3>1, <3>2
  <2>3. \A i \in At(d, e[j][1]) : n + j >= i /\ i \in Int
    BY <1>2, <2>2
  <2>4. Max(At(d, e[j][1])) = n + j
    <3> DEFINE S == At(d, e[j][1])
    <3>1. \A x \in S : x \in Int /\ (x >= n + j => x = n + j)
      BY <1>2, <2>3
    <3> HIDE DEF S
    <3>2. QED
      BY <1>2, <2>1, <2>3, <3>1 DEF Max, S
  <2>5. QED
    BY <1>2, <1>5, <2>4 DEF Env
<1>7. ASSUME NEW name, \A j \in 1..4 : name # e[j][1]
      PROVE  At(d, name) = At(c, name)
  <2>1. ASSUME NEW i \in At(d, name) PROVE i \in At(c, name)
    <3>1. i \in DOMAIN d.env /\ d.env[i][1] = name
      BY <2>1
    <3>2. i \in 1..n
      <4>1. ASSUME NEW j \in 1..4, i = n + j PROVE FALSE
        BY <1>2, <1>7, <3>1, <4>1
      <4>2. QED
        BY <1>4, <3>1, <4>1
    <3>3. QED
      BY <1>2, <3>1, <3>2
  <2>2. ASSUME NEW i \in At(c, name) PROVE i \in At(d, name)
    BY <1>2
  <2>3. QED
    BY <2>1, <2>2
<1>8. ASSUME NEW name \in DOMAIN Env(c), \A j \in 1..4 : name # e[j][1]
      PROVE  name \in DOMAIN Env(d) /\ Env(d)[name] = Env(c)[name]
  <2>1. At(d, name) = At(c, name)
    BY <1>7, <1>8
  <2>2. At(c, name) # {}
    BY <1>8 DEF Env
  <2>3. Max(At(c, name)) \in At(c, name)
    <3>1. At(c, name) \in SUBSET (0..n) /\ n \in Nat
      BY <1>2
    <3>2. QED
      BY <2>2, <3>1, MaxIs
  <2>4. QED
    BY <1>2, <2>1, <2>2, <2>3 DEF Env
<1>9. ASSUME NEW name \in DOMAIN Env(d), \A j \in 1..4 : name # e[j][1]
      PROVE  name \in DOMAIN Env(c)
  <2>1. At(d, name) # {} /\ At(d, name) = At(c, name)
    BY <1>7, <1>9 DEF Env
  <2>2. QED
    BY <2>1 DEF Env
<1>10. QED
  BY <1>6, <1>8, <1>9 DEF e

\* A prefix that is cut off again.
LEMMA CutOff ==
  ASSUME NEW S, NEW p \in Seq(S), p # <<>>, NEW s \in Seq(S)
  PROVE  /\ SubSeq(p \o s, 1, Len(p)) = p
         /\ SubSeq(p \o s, Len(p) + 1, Len(p \o s)) = s
<1> DEFINE u == p \o s
<1>1. u \in Seq(S) /\ Len(u) = Len(p) + Len(s)
  BY ConcatProperties
<1>2. Len(p) \in Nat \ {0} /\ Len(s) \in Nat
  BY EmptySeq, LenProperties
<1>3. SubSeq(u, 1, Len(p)) = p
  <2>1. 1 \in 1..Len(p) /\ Len(p) \in 1..Len(p)
    BY <1>2
  <2>2. SubSeq(u, 1, Len(p)) = SubSeq(p, 1, Len(p))
    BY <2>1, SubSeqOfConcat1
  <2>3. QED
    BY <2>2, SubSeqFull
<1>4. SubSeq(u, Len(p) + 1, Len(u)) = s
  <2>1. CASE s = <<>>
    <3>1. Len(s) = 0
      BY <2>1
    <3>2. Len(p) + 1 \in Int /\ Len(u) \in Int /\ Len(u) < Len(p) + 1
      BY <1>1, <1>2, <3>1
    <3>3. QED
      BY <2>1, <3>2, SubSeqEmpty
  <2>2. CASE s # <<>>
    <3>1. Len(s) \in Nat \ {0}
      BY <2>2, EmptySeq
    <3>2. /\ Len(p) + 1 \in Len(p) + 1 .. Len(p) + Len(s)
          /\ Len(u) \in Len(p) + 1 .. Len(p) + Len(s)
          /\ (Len(p) + 1) - Len(p) = 1 /\ Len(u) - Len(p) = Len(s)
      BY <1>1, <1>2, <3>1
    <3>3. SubSeq(u, Len(p) + 1, Len(u)) = SubSeq(s, (Len(p) + 1) - Len(p), Len(u) - Len(p))
      BY <3>2, SubSeqOfConcat2
    <3>4. QED
      BY <3>2, <3>3, SubSeqFull
  <2>3. QED
    BY <2>1, <2>2
<1>5. QED
  BY <1>3, <1>4

\* The library that `run` preloads is found in a container that has been mutated.
LEMMA FindsLibrary ==
  ASSUME NEW c, NEW d, NEW a, Added(c, d, a)
  PROVE  /\ Program!FindLibenvproxy(Env(d), MountPath) = MountPath \o <<"lib", "libenvproxy.so">>
         /\ Program!FindLibenvproxy(Env(d), MountPath) # None
<1> DEFINE lib == MountPath \o <<"lib", "libenvproxy.so">>
<1>1. InjectedEnv(a)[2] = <<"ENVPROXY_LIB", lib>>
  BY InjectedEnvIs
<1>2. InjectedEnv(a)[2][1] = "ENVPROXY_LIB" /\ InjectedEnv(a)[2][2] = lib /\ 2 \in 1..4
  BY <1>1
<1>3. "ENVPROXY_LIB" \in DOMAIN Env(d) /\ Env(d)["ENVPROXY_LIB"] = lib
  <2> DEFINE e == InjectedEnv(a)
  <2>1. \A j \in 1..4 : e[j][1] \in DOMAIN Env(d) /\ Env(d)[e[j][1]] = e[j][2]
    BY EnvIs
  <2>2. e[2][1] = "ENVPROXY_LIB" /\ e[2][2] = lib
    BY <1>2
  <2> HIDE DEF e, lib
  <2>3. QED
    BY <2>1, <2>2
<1>4. lib # None
  BY WebhookAssumption DEF RuntimeFiles
<1> HIDE DEF lib
<1>5. QED
  BY <1>3, <1>4 DEF Program!FindLibenvproxy, lib

\* d executes what c is asked to.
Keeps(c, d, pod) == Executes(d, pod) = c.command \o c.args

\* The injector's init container has been added to those of the pod.
Prepared(pod, init, a) == IsSequence(init) /\ pod.init = Append(init, InitContainer(a))

\* A container with a command executes it through `run`, with its arguments.
LEMMA Wrapped ==
  ASSUME NEW a, NEW c, IsContainer(c), c.command # <<>>, NEW d, d = MutateContainer(c, a),
         NEW pod, NEW init, Prepared(pod, init, a)
  PROVE  Keeps(c, d, pod)
<1>1. IsSequence(init) /\ pod.init = Append(init, InitContainer(a))
  BY DEF Prepared
<1>2. /\ d.command = RunCommand
      /\ d.args = <<"run", "--">> \o c.command \o c.args
      /\ d.mounts = Append(c.mounts, VolumeName)
      /\ d.env = c.env \o InjectedEnv(a)
  BY DEF IsContainer, MutateContainer
<1>3. Added(c, d, a)
  BY <1>2 DEF Added, IsContainer
<1>4. VolumeName \in Range(d.mounts)
  <2>1. /\ Len(c.mounts) \in Nat /\ DOMAIN d.mounts = 1..Len(c.mounts) + 1
        /\ d.mounts[Len(c.mounts) + 1] = VolumeName
    BY <1>2, AppendIs, SequenceIs DEF IsContainer
  <2>2. QED
    BY <2>1 DEF Range
<1>5. Copied(pod)
  <2>1. /\ Len(init) \in Nat /\ DOMAIN pod.init = 1..Len(init) + 1
        /\ pod.init[Len(init) + 1] = InitContainer(a)
    BY <1>1, AppendIs, SequenceIs
  <2>2. SubSeq(InitContainer(a).command, 1, 2) = <<"/usr/bin/envproxy", "init">>
    <3> DEFINE toml == AgentToml(a)
               s == <<"/usr/bin/envproxy", "init">>
               T == {"/usr/bin/envproxy", "init", toml}
    <3>1. s \in Seq(T) /\ <<toml>> \in Seq(T) /\ Len(s) = 2 /\ s # <<>>
          /\ InitContainer(a).command = s \o <<toml>>
      BY DEF InitContainer
    <3> HIDE DEF T, s
    <3>2. SubSeq(s \o <<toml>>, 1, Len(s)) = s
      BY <3>1, CutOff
    <3>3. QED
      BY <3>1, <3>2 DEF s
  <2>3. VolumeName \in Range(InitContainer(a).mounts)
    BY DEF InitContainer, Range
  <2>4. QED
    BY <2>1, <2>2, <2>3 DEF Copied
<1>6. Program!FindLibenvproxy(Env(d), MountPath) # None
  BY <1>3, FindsLibrary
<1>7. SubSeq(d.args, 1, 2) = <<"run", "--">> /\ SubSeq(d.args, 3, Len(d.args)) = c.command \o c.args
  <2> DEFINE S == Range(c.command) \cup Range(c.args) \cup {"run", "--"}
  <2>1. c.command \in Seq(S) /\ c.args \in Seq(S) /\ <<"run", "--">> \in Seq(S)
    BY SequenceIs, SeqMonotonic DEF IsContainer
  <2>2. PICK p \in Seq(S) : p = <<"run", "--">>
    BY <2>1
  <2>3. PICK s \in Seq(S) : s = c.command
    BY <2>1
  <2>4. PICK t \in Seq(S) : t = c.args
    BY <2>1
  <2>5. Len(p) = 2 /\ p # <<>>
    BY <2>2
  <2> HIDE DEF S
  <2>6. (p \o s) \o t = p \o (s \o t) /\ s \o t \in Seq(S)
    <3>1. (p \o s) \o t = p \o (s \o t)
      BY ONLY p \in Seq(S), s \in Seq(S), t \in Seq(S), ConcatAssociative
    <3>2. s \o t \in Seq(S)
      BY ConcatProperties
    <3>3. QED
      BY <3>1, <3>2
  <2>7. d.args = p \o (s \o t)
    BY <1>2, <2>2, <2>3, <2>4, <2>6
  <2>8. p # <<>>
    BY <2>5
  <2>9. /\ SubSeq(p \o (s \o t), 1, Len(p)) = p
        /\ SubSeq(p \o (s \o t), Len(p) + 1, Len(p \o (s \o t))) = s \o t
    BY <2>6, <2>8, CutOff
  <2>10. /\ SubSeq(d.args, 1, 2) = p
         /\ SubSeq(d.args, 2 + 1, Len(d.args)) = s \o t
    BY <2>5, <2>7, <2>9
  <2>11. SubSeq(d.args, 3, Len(d.args)) = s \o t
    <3>1. 2 + 1 = 3
      OBVIOUS
    <3>2. QED
      BY <2>10, <3>1
  <2>12. QED
    BY <2>2, <2>3, <2>4, <2>10, <2>11
<1>8. QED
  BY <1>2, <1>4, <1>5, <1>6, <1>7 DEF Executes, Keeps

\* What a container of a pod is in each of the pod's forms.
LEMMA ContainerIs ==
  ASSUME NEW first \in Templates, NEW pod \in Forms(first), NEW i \in DOMAIN first.containers
  PROVE  LET c == first.containers[i]
             d == pod.containers[i]
         IN  /\ IsContainer(c) /\ c.command # RunCommand
             /\ \/ d = c
                \/ /\ d = MutateContainer(c, first.annotations)
                   /\ IsSequence(first.init)
                   /\ pod.init = Append(first.init, InitContainer(first.annotations))
<1>1. /\ IsSequence(first.containers) /\ IsSequence(first.init)
      /\ IsContainer(first.containers[i]) /\ first.containers[i].command # RunCommand
  BY TemplatesAssumption DEF IsPod
<1>2. i \in 1..Len(first.containers)
  BY <1>1, SequenceIs
<1>3. CASE pod = first
  BY <1>1, <1>3
<1>4. CASE pod # first
  <2>1. pod.containers = MutatePod(first).containers /\ pod.init = MutatePod(first).init
    BY <1>4, FormIs
  <2>2. /\ MutatePod(first).init = Append(first.init, InitContainer(first.annotations))
        /\ MutatePod(first).containers[i] \in
             {first.containers[i], MutateContainer(first.containers[i], first.annotations)}
    BY <1>1, <1>2, Mutated
  <2>3. QED
    BY <1>1, <2>1, <2>2
<1>5. QED
  BY <1>3, <1>4

\* Such a container executes what was asked for, under its own name.
LEMMA ContainerKeeps ==
  ASSUME NEW first \in Templates, NEW pod \in Forms(first), NEW i \in DOMAIN first.containers,
         NEW c, c = first.containers[i], NEW d, d = pod.containers[i]
  PROVE  /\ d.name = c.name
         /\ d.command = <<>> <=> c.command = <<>>
         /\ Keeps(c, d, pod)
<1>1. /\ IsContainer(c) /\ c.command # RunCommand
      /\ \/ d = c
         \/ /\ d = MutateContainer(c, first.annotations)
            /\ IsSequence(first.init)
            /\ pod.init = Append(first.init, InitContainer(first.annotations))
  BY ContainerIs
<1>2. CASE d = c
  BY <1>1, <1>2 DEF Executes, Keeps
<1>3. CASE d # c /\ c.command = <<>>
  <2>1. d.command = c.command /\ d.args = c.args /\ d.name = c.name
    BY <1>1, <1>3 DEF MutateContainer, IsContainer
  <2>2. QED
    BY <1>1, <2>1 DEF Executes, Keeps
<1>4. CASE d # c /\ c.command # <<>>
  <2>1. d.command = RunCommand /\ d.name = c.name
    BY <1>1, <1>4 DEF MutateContainer, IsContainer
  <2>2. RunCommand # <<>>
    BY DEF RunCommand
  <2>3. Keeps(c, d, pod)
    <3>1. PICK init : init = first.init
      OBVIOUS
    <3>2. PICK a : a = first.annotations
      OBVIOUS
    <3>3. d = MutateContainer(c, a) /\ Prepared(pod, init, a)
      BY <1>1, <1>4, <3>1, <3>2 DEF Prepared
    <3>4. QED
      BY <1>1, <1>4, <3>3, Wrapped
  <2>4. QED
    BY <1>4, <2>1, <2>2, <2>3
<1>5. QED
  BY <1>2, <1>3, <1>4

\* The containers of a pod execute what was asked for, whatever the pods are, however many
\* of them there are and however often one is submitted again.
THEOREM ExecutedAsAsked == Spec => []ExecutesAsAsked
<1>1. ASSUME PodsInv PROVE ExecutesAsAsked
  <2>1. ASSUME NEW p \in DOMAIN pods, NEW i \in DOMAIN pods[p].first.containers
        PROVE  LET c == pods[p].first.containers[i]
                   d == pods[p].pod.containers[i]
               IN  /\ d.name = c.name
                   /\ d.command = <<>> <=> c.command = <<>>
                   /\ Executes(d, pods[p].pod) = c.command \o c.args
    <3>1. pods[p].first \in Templates /\ pods[p].pod \in Forms(pods[p].first)
      BY <1>1 DEF PodsInv
    <3>2. PICK c : c = pods[p].first.containers[i]
      OBVIOUS
    <3>3. PICK d : d = pods[p].pod.containers[i]
      OBVIOUS
    <3>4. PICK pod : pod = pods[p].pod
      OBVIOUS
    <3>5. PICK first : first = pods[p].first
      OBVIOUS
    <3>6. /\ d.name = c.name
          /\ d.command = <<>> <=> c.command = <<>>
          /\ Keeps(c, d, pod)
      BY <3>1, <3>2, <3>3, <3>4, <3>5, ContainerKeeps
    <3>7. QED
      BY <3>2, <3>3, <3>4, <3>6 DEF Keeps
  <2>2. QED
    BY <2>1 DEF ExecutesAsAsked
<1>2. QED
  BY <1>1, PodsInvariance, PTL

-----------------------------------------------------------------------------
(* Whom the programs of an injected container ask.                            *)

\* The paths that variables name, and where `init` has put the hooks.
LEMMA PathsAre ==
  /\ RuntimeFiles \subseteq Paths
  /\ \A l \in Program!Languages : MountPath \o <<l>> \in Paths
  /\ \A s : s \in Paths \/ s \in Seq(Paths) => s # None
BY WebhookAssumption

LEMMA LibraryIsThere == MountPath \o <<"lib", "libenvproxy.so">> \in RuntimeFiles
BY DEF RuntimeFiles

LEMMA HooksAreThere ==
  \A l \in Program!Languages : (MountPath \o <<l>>) \o <<Program!Marker[l]>> \in RuntimeFiles
<1>1. (MountPath \o <<"python">>) \o <<"sitecustomize.py">> \in RuntimeFiles
  <2>1. (MountPath \o <<"python">>) \o <<"sitecustomize.py">>
          = MountPath \o <<"python", "sitecustomize.py">>
    BY DEF MountPath
  <2>2. MountPath \o <<"python", "sitecustomize.py">> \in RuntimeFiles
    BY DEF RuntimeFiles
  <2>3. QED
    BY <2>1, <2>2
<1>2. (MountPath \o <<"java">>) \o <<"envproxy-agent.jar">> \in RuntimeFiles
  <2>1. (MountPath \o <<"java">>) \o <<"envproxy-agent.jar">>
          = MountPath \o <<"java", "envproxy-agent.jar">>
    BY DEF MountPath
  <2>2. MountPath \o <<"java", "envproxy-agent.jar">> \in RuntimeFiles
    BY DEF RuntimeFiles
  <2>3. QED
    BY <2>1, <2>2
<1>3. Program!Marker["python"] = "sitecustomize.py" /\ Program!Marker["java"] = "envproxy-agent.jar"
  BY DEF Program!Marker
<1>4. QED
  BY <1>1, <1>2, <1>3 DEF Program!Languages

\* The variables are different ones.
LEMMA VarsDiffer ==
  /\ Program!HookVar["python"] = "PYTHONPATH" /\ Program!HookVar["java"] = "JAVA_TOOL_OPTIONS"
  /\ \A k, l \in Program!Languages :
       /\ k # l => Program!HookVar[k] # Program!HookVar[l]
       /\ Program!HookVar[k] # Program!NoVar[l] /\ Program!HookVar[k] # Program!PathVar[l]
  /\ \A l \in Program!Languages :
       \A name \in {Program!HookVar[l], Program!NoVar[l], Program!PathVar[l]} :
         name \notin {"ENVPROXY_ENABLED", "ENVPROXY_SOCKET", "LD_PRELOAD"}
BY DEF Program!HookVar, Program!NoVar, Program!PathVar, Program!Languages

\* Two environments agree on a variable.
Same(f, e, name) ==
  /\ name \in DOMAIN f <=> name \in DOMAIN e
  /\ name \in DOMAIN e => f[name] = e[name]

LEMMA SetIs ==
  ASSUME NEW e, NEW name, NEW new, NEW f, f = Program!Setenv(e, name, new)
  PROVE  /\ Program!Value(f, name) = new /\ \A n : n # name => Same(f, e, n)
BY DEF Program!Setenv, Same, Program!Value

LEMMA SameValue ==
  ASSUME NEW f, NEW e, NEW name, Same(f, e, name)
  PROVE  Program!Value(f, name) = Program!Value(e, name)
BY DEF Same, Program!Value

\* The hooks that a pod is not to have.
No(a) == [python |-> a.noPython, java |-> a.noJava]

\* What the library and the hooks see of the injector's variables in an environment, `own`
\* being what the container itself sets.
Injected(e, own, a) ==
  /\ "ENVPROXY_SOCKET" \in DOMAIN e /\ e["ENVPROXY_SOCKET"] = SocketPath
  /\ Program!IsEnabled(e) = Program!IsEnabled(own)
  /\ \A l \in Program!Languages :
       IF No(a)[l] THEN Program!Value(e, Program!NoVar[l]) = "1"
       ELSE /\ Program!Value(e, Program!NoVar[l]) = Program!Value(own, Program!NoVar[l])
            /\ Program!Value(e, Program!PathVar[l]) = MountPath \o <<l>>

\* The variable of a hook is what the container itself has set.
Untouched(e, own, l) ==
  Program!Value(e, Program!HookVar[l]) = Program!Value(own, Program!HookVar[l])

\* The environment of a container has them.
LEMMA EnvInjected ==
  ASSUME NEW c, NEW d, NEW a, Added(c, d, a)
  PROVE  /\ Injected(Env(d), Env(c), a)
         /\ \A l \in Program!Languages : Untouched(Env(d), Env(c), l)
<1> DEFINE e == InjectedEnv(a)
<1>1. PICK f : f = Env(d)
  OBVIOUS
<1>2. PICK own : own = Env(c)
  OBVIOUS
<1>3. PICK path : path = [l \in Program!Languages |-> MountPath \o <<l>>]
  OBVIOUS
<1>4. PICK names : names = [j \in 1..4 |-> e[j][1]]
  OBVIOUS
<1>5. /\ names[1] = "ENVPROXY_SOCKET" /\ e[1][2] = SocketPath
      /\ names[2] = "ENVPROXY_LIB"
      /\ names[3] = IF a.noPython THEN "ENVPROXY_NO_PYTHON" ELSE "ENVPROXY_PYTHON_PATH"
      /\ e[3][2] = IF a.noPython THEN "1" ELSE path["python"]
      /\ names[4] = IF a.noJava THEN "ENVPROXY_NO_JAVA" ELSE "ENVPROXY_JAVA_PATH"
      /\ e[4][2] = IF a.noJava THEN "1" ELSE path["java"]
  <2> DEFINE py == MountPath \o <<"python">>
             jv == MountPath \o <<"java">>
             lib == MountPath \o <<"lib", "libenvproxy.so">>
  <2>1. \A j \in 1..4 : names[j] = e[j][1]
    BY <1>4
  <2>2. path["python"] = py /\ path["java"] = jv
    BY <1>3 DEF Program!Languages
  <2>3. e[1] = <<"ENVPROXY_SOCKET", SocketPath>> /\ e[2] = <<"ENVPROXY_LIB", lib>>
    BY InjectedEnvIs
  <2>4. e[3] = IF a.noPython THEN <<"ENVPROXY_NO_PYTHON", "1">> ELSE <<"ENVPROXY_PYTHON_PATH", py>>
    BY InjectedEnvIs
  <2>5. e[4] = IF a.noJava THEN <<"ENVPROXY_NO_JAVA", "1">> ELSE <<"ENVPROXY_JAVA_PATH", jv>>
    BY InjectedEnvIs
  <2> HIDE DEF e, py, jv, lib
  <2>6. QED
    BY <2>1, <2>2, <2>3, <2>4, <2>5
<1>6. /\ \A j \in 1..4 : names[j] \in DOMAIN f /\ f[names[j]] = e[j][2]
      /\ \A name : (\A j \in 1..4 : name # names[j]) => Same(f, own, name)
  <2>1. \A j \in 1..4 : names[j] = e[j][1]
    BY <1>4
  <2>2. /\ \A j \in 1..4 : e[j][1] \in DOMAIN f /\ f[e[j][1]] = e[j][2]
        /\ \A name : (\A j \in 1..4 : name # e[j][1]) => Same(f, own, name)
    BY <1>1, <1>2, EnvIs DEF Same
  <2> HIDE DEF e
  <2>3. QED
    BY <2>1, <2>2
<1> HIDE DEF e
<1>7. Range(names) = {names[1], names[2], names[3], names[4]}
  <2>1. 1..4 = {1, 2, 3, 4}
    OBVIOUS
  <2>2. QED
    BY <1>4, <2>1 DEF Range
<1>8. ASSUME NEW name, name \notin {names[1], names[2], names[3], names[4]}
      PROVE  Same(f, own, name) /\ Program!Value(f, name) = Program!Value(own, name)
  <2>1. \A j \in 1..4 : name # names[j]
    BY <1>8
  <2>2. QED
    BY <1>6, <2>1, SameValue
<1>9. "ENVPROXY_SOCKET" \in DOMAIN f /\ f["ENVPROXY_SOCKET"] = SocketPath
  BY <1>5, <1>6
<1>10. Program!IsEnabled(f) = Program!IsEnabled(own)
  BY <1>5, <1>8 DEF Program!IsEnabled
<1>11. \A l \in Program!Languages : Untouched(f, own, l)
  <2>1. \A l \in Program!Languages :
          Program!HookVar[l] \notin {names[1], names[2], names[3], names[4]}
    BY <1>5 DEF Program!HookVar, Program!Languages
  <2>2. QED
    BY <1>8, <2>1 DEF Untouched
<1>12. IF a.noPython THEN Program!Value(f, "ENVPROXY_NO_PYTHON") = "1"
       ELSE /\ Program!Value(f, "ENVPROXY_NO_PYTHON") = Program!Value(own, "ENVPROXY_NO_PYTHON")
            /\ Program!Value(f, "ENVPROXY_PYTHON_PATH") = path["python"]
  <2>1. Program!Value(f, names[3]) = e[3][2]
    BY <1>6 DEF Program!Value
  <2>2. ~ a.noPython => "ENVPROXY_NO_PYTHON" \notin {names[1], names[2], names[3], names[4]}
    BY <1>5
  <2>3. QED
    BY <1>5, <1>8, <2>1, <2>2
<1>13. IF a.noJava THEN Program!Value(f, "ENVPROXY_NO_JAVA") = "1"
       ELSE /\ Program!Value(f, "ENVPROXY_NO_JAVA") = Program!Value(own, "ENVPROXY_NO_JAVA")
            /\ Program!Value(f, "ENVPROXY_JAVA_PATH") = path["java"]
  <2>1. Program!Value(f, names[4]) = e[4][2]
    BY <1>6 DEF Program!Value
  <2>2. ~ a.noJava => "ENVPROXY_NO_JAVA" \notin {names[1], names[2], names[3], names[4]}
    BY <1>5
  <2>3. QED
    BY <1>5, <1>8, <2>1, <2>2
<1>14. ASSUME NEW l \in Program!Languages
       PROVE  IF No(a)[l] THEN Program!Value(f, Program!NoVar[l]) = "1"
              ELSE /\ Program!Value(f, Program!NoVar[l]) = Program!Value(own, Program!NoVar[l])
                   /\ Program!Value(f, Program!PathVar[l]) = path[l]
  <2>1. /\ No(a)["python"] = a.noPython /\ No(a)["java"] = a.noJava
        /\ Program!NoVar["python"] = "ENVPROXY_NO_PYTHON"
        /\ Program!NoVar["java"] = "ENVPROXY_NO_JAVA"
        /\ Program!PathVar["python"] = "ENVPROXY_PYTHON_PATH"
        /\ Program!PathVar["java"] = "ENVPROXY_JAVA_PATH"
    BY DEF No, Program!NoVar, Program!PathVar
  <2>2. l = "python" \/ l = "java"
    BY DEF Program!Languages
  <2>3. QED
    BY <1>12, <1>13, <2>1, <2>2
<1>15. \A l \in Program!Languages : path[l] = MountPath \o <<l>>
  BY <1>3
<1>16. Injected(f, own, a)
  BY <1>9, <1>10, <1>14, <1>15 DEF Injected
<1>17. QED
  BY <1>1, <1>2, <1>11, <1>16

\* Neither the linker's variable nor those of the hooks are among them.
LEMMA InjectedStays ==
  ASSUME NEW e, NEW own, NEW a, Injected(e, own, a), NEW f,
         NEW name \in {"LD_PRELOAD", Program!HookVar["python"], Program!HookVar["java"]},
         \A n : n # name => Same(f, e, n)
  PROVE  Injected(f, own, a)
<1>0. Program!Languages = {"python", "java"}
  BY DEF Program!Languages
<1>1. /\ "ENVPROXY_SOCKET" # name /\ "ENVPROXY_ENABLED" # name
      /\ \A l \in Program!Languages : Program!NoVar[l] # name /\ Program!PathVar[l] # name
  BY <1>0, VarsDiffer
<1>2. "ENVPROXY_SOCKET" \in DOMAIN f /\ f["ENVPROXY_SOCKET"] = SocketPath
  BY <1>1 DEF Injected, Same
<1>3. Program!IsEnabled(f) = Program!IsEnabled(own)
  <2>1. Program!Value(f, "ENVPROXY_ENABLED") = Program!Value(e, "ENVPROXY_ENABLED")
    BY <1>1, SameValue
  <2>2. Program!IsEnabled(f) = Program!IsEnabled(e)
    BY <2>1 DEF Program!IsEnabled
  <2>3. QED
    BY <2>2 DEF Injected
<1>4. \A l \in Program!Languages :
        /\ Program!Value(f, Program!NoVar[l]) = Program!Value(e, Program!NoVar[l])
        /\ Program!Value(f, Program!PathVar[l]) = Program!Value(e, Program!PathVar[l])
  BY <1>1, SameValue
<1>5. QED
  BY <1>2, <1>3, <1>4 DEF Injected

\* A hook is wanted where neither the pod nor the container says it is not, and is then
\* taken from the volume.
LEMMA WantedIs ==
  ASSUME NEW e, NEW own, NEW a, Injected(e, own, a), NEW l \in Program!Languages, NEW lib
  PROVE  /\ Program!Wanted(e, lib, l)
              <=> ~ No(a)[l] /\ Program!Value(own, Program!NoVar[l]) # "1"
         /\ Program!Wanted(e, lib, l)
              => Program!FindSupportDir(e, lib, l) = MountPath \o <<l>>
<1>1. CASE No(a)[l]
  BY <1>1 DEF Injected, Program!Wanted
<1>2. CASE ~ No(a)[l]
  <2>1. PICK path : path = MountPath \o <<l>>
    OBVIOUS
  <2>2. path # None /\ path \o <<Program!Marker[l]>> \in RuntimeFiles
    BY <2>1, PathsAre, HooksAreThere
  <2>3. /\ Program!Value(e, Program!PathVar[l]) = path
        /\ Program!Value(e, Program!NoVar[l]) = Program!Value(own, Program!NoVar[l])
    BY <1>2, <2>1 DEF Injected
  <2>4. Program!FindSupportDir(e, lib, l) = path
    BY ONLY <2>2, <2>3 DEF Program!FindSupportDir
  <2>5. QED
    BY <1>2, <2>1, <2>2, <2>3, <2>4 DEF Program!Wanted
<1>3. QED
  BY <1>1, <1>2

\* A variable of a language has its hook.
Hooks(l, entries) ==
  entries # None /\ \E i \in DOMAIN entries :
    (IF l = "python" THEN entries[i] \o <<Program!Marker["python"]>> ELSE entries[i])
      \in RuntimeFiles

LEMMA HookedIs ==
  ASSUME NEW e, NEW l
  PROVE  Program!Hooked(e, l) <=> Hooks(l, Program!Value(e, Program!HookVar[l]))
BY DEF Program!Hooked, Hooks

\* What a constructor leaves in the variable of a language: the hook, if it is wanted, and
\* otherwise what there was.
SetsHook(f, e, own, l, a) ==
  /\ \A n : n # Program!HookVar[l] => Same(f, e, n)
  /\ Program!Hooked(f, l)
       <=> \/ ~ No(a)[l] /\ Program!Value(own, Program!NoVar[l]) # "1"
           \/ Program!Hooked(own, l)

\* The variables of the hooks hold paths.
HoldsPaths(own) ==
  \A l \in Program!Languages :
    Program!Value(own, Program!HookVar[l]) \in Seq(Paths) \cup {None}

LEMMA ExistingIs ==
  ASSUME NEW e, NEW own, NEW l \in Program!Languages, Untouched(e, own, l), HoldsPaths(own),
         NEW x, x = Program!Existing(e, Program!HookVar[l], None)
  PROVE  x \in Seq(Paths)
<1>1. PICK v : v = Program!Value(own, Program!HookVar[l])
  OBVIOUS
<1>2. v \in Seq(Paths) \/ v = None
  BY <1>1 DEF HoldsPaths
<1>3. x = IF v = None THEN <<>> ELSE v
  BY <1>1 DEF Program!Existing, Program!Var, Untouched
<1>4. <<>> \in Seq(Paths)
  OBVIOUS
<1>5. QED
  BY <1>2, <1>3, <1>4

LEMMA NotWanted ==
  ASSUME NEW e, NEW own, NEW a, Injected(e, own, a), NEW l \in Program!Languages,
         Untouched(e, own, l), NEW lib, ~ Program!Wanted(e, lib, l)
  PROVE  SetsHook(e, e, own, l, a)
<1>1. Program!Hooked(e, l) <=> Program!Hooked(own, l)
  BY HookedIs DEF Untouched
<1>2. QED
  BY <1>1, WantedIs DEF SetsHook, Same

LEMMA PythonSetUp ==
  ASSUME NEW e, NEW own, NEW a, Injected(e, own, a), Untouched(e, own, "python"),
         HoldsPaths(own), NEW lib, NEW f, f = Program!SetupPythonHook(e, lib, None)
  PROVE  SetsHook(f, e, own, "python", a)
<1>0. "python" \in Program!Languages
  BY DEF Program!Languages
<1>1. CASE ~ Program!Wanted(e, lib, "python")
  BY <1>0, <1>1, NotWanted DEF Program!SetupPythonHook
<1>2. CASE Program!Wanted(e, lib, "python")
  <2>1. PICK h : h = MountPath \o <<"python">>
    OBVIOUS
  <2>2. /\ Program!FindSupportDir(e, lib, "python") = h /\ h \in Paths
        /\ h \o <<Program!Marker["python"]>> \in RuntimeFiles
    BY <1>0, <1>2, <2>1, WantedIs, PathsAre, HooksAreThere
  <2>3. PICK x : x = Program!Existing(e, Program!HookVar["python"], None)
    OBVIOUS
  <2>4. x \in Seq(Paths)
    BY <1>0, <2>3, ExistingIs
  <2>5. PICK t : t = <<h>> \o x
    OBVIOUS
  <2>6. t \in Seq(Paths) /\ 1 \in DOMAIN t /\ t[1] = h
    BY <2>2, <2>4, <2>5
  <2>7. Hooks("python", t)
    BY <2>2, <2>6, PathsAre DEF Hooks
  <2>8. f = Program!Setenv(e, Program!HookVar["python"], t)
    BY <1>2, <2>2, <2>3, <2>5, VarsDiffer DEF Program!SetupPythonHook
  <2>9. /\ Program!Value(f, Program!HookVar["python"]) = t
        /\ \A n : n # Program!HookVar["python"] => Same(f, e, n)
    BY <2>8, SetIs
  <2>10. Program!Hooked(f, "python")
    BY <2>7, <2>9, HookedIs
  <2>11. QED
    BY <1>0, <1>2, <2>9, <2>10, WantedIs DEF SetsHook
<1>3. QED
  BY <1>1, <1>2

LEMMA JavaSetUp ==
  ASSUME NEW e, NEW own, NEW a, Injected(e, own, a), Untouched(e, own, "java"),
         HoldsPaths(own), NEW lib, NEW f, f = Program!SetupJavaHook(e, lib, None)
  PROVE  SetsHook(f, e, own, "java", a)
<1>0. "java" \in Program!Languages /\ "java" # "python"
  BY DEF Program!Languages
<1>1. CASE ~ Program!Wanted(e, lib, "java")
  BY <1>0, <1>1, NotWanted DEF Program!SetupJavaHook
<1>2. CASE Program!Wanted(e, lib, "java")
  <2>1. PICK dir : dir = MountPath \o <<"java">>
    OBVIOUS
  <2>2. PICK h : h = dir \o <<Program!Marker["java"]>>
    OBVIOUS
  <2>3. Program!FindSupportFile(e, lib, "java") = h
    <3>1. Program!FindSupportDir(e, lib, "java") = dir /\ dir # None
      BY <1>0, <1>2, <2>1, WantedIs, PathsAre
    <3>2. QED
      BY <2>2, <3>1 DEF Program!FindSupportFile
  <2>4. h \in RuntimeFiles /\ h \in Paths
    BY <1>0, <2>1, <2>2, PathsAre, HooksAreThere
  <2>5. PICK x : x = Program!Existing(e, Program!HookVar["java"], None)
    OBVIOUS
  <2>6. x \in Seq(Paths)
    BY <1>0, <2>5, ExistingIs
  <2>7. PICK t : t = Append(x, h)
    OBVIOUS
  <2>8. t \in Seq(Paths) /\ \E i \in DOMAIN t : t[i] = h
    <3>1. t \in Seq(Paths) /\ Len(x) + 1 \in DOMAIN t /\ t[Len(x) + 1] = h
      BY <2>4, <2>6, <2>7
    <3>2. QED
      BY <3>1
  <2>9. Hooks("java", t)
    BY <1>0, <2>4, <2>8, PathsAre DEF Hooks
  <2>10. f = Program!Setenv(e, Program!HookVar["java"], t)
    BY <1>2, <2>3, <2>5, <2>7, VarsDiffer DEF Program!SetupJavaHook
  <2>11. /\ Program!Value(f, Program!HookVar["java"]) = t
         /\ \A n : n # Program!HookVar["java"] => Same(f, e, n)
    BY <2>10, SetIs
  <2>12. Program!Hooked(f, "java")
    BY <2>9, <2>11, HookedIs
  <2>13. QED
    BY <1>0, <1>2, <2>11, <2>12, WantedIs DEF SetsHook
<1>3. QED
  BY <1>1, <1>2

\* Whom a program asks that is started by `run` in a container of the injector's.
LEMMA StartedAsks ==
  ASSUME NEW e, NEW own, NEW a, Injected(e, own, a),
         \A l \in Program!Languages : Untouched(e, own, l), HoldsPaths(own),
         Program!FindLibenvproxy(e, MountPath) = MountPath \o <<"lib", "libenvproxy.so">>,
         NEW f, f = Program!Started(Program!CmdRun(e, MountPath, DefaultSocket),
                                    [l \in Program!Languages |-> None])
  PROVE  /\ Program!Asks(f) \subseteq {SocketPath}
         /\ Program!IsEnabled(own) => Program!Asks(f) # {}
         /\ \A l \in Program!Languages :
              Program!Hooked(f, l) <=> \/ ~ No(a)[l] /\ Program!Value(own, Program!NoVar[l]) # "1"
                                       \/ Program!Hooked(own, l)
<1>0. /\ Program!Languages = {"python", "java"}
      /\ \A l \in Program!Languages : [k \in Program!Languages |-> None][l] = None
  BY DEF Program!Languages
<1>1. PICK lib : lib = MountPath \o <<"lib", "libenvproxy.so">>
  OBVIOUS
<1>2. lib \in RuntimeFiles /\ lib # None
  BY <1>1, LibraryIsThere, PathsAre
<1>3. PICK r : r = Program!CmdRun(e, MountPath, DefaultSocket)
  OBVIOUS
<1>4. r = Program!Setenv(e, "LD_PRELOAD", lib)
  <2>1. "ENVPROXY_SOCKET" \in DOMAIN e
    BY DEF Injected
  <2>2. QED
    BY <1>1, <1>3, <2>1 DEF Program!CmdRun
<1>5. Program!Value(r, "LD_PRELOAD") = lib /\ \A n : n # "LD_PRELOAD" => Same(r, e, n)
  BY <1>4, SetIs
<1>6. Injected(r, own, a)
  BY <1>5, InjectedStays
<1>7. \A l \in Program!Languages : Untouched(r, own, l)
  <2>1. \A l \in Program!Languages :
          Program!Value(r, Program!HookVar[l]) = Program!Value(e, Program!HookVar[l])
    BY <1>5, SameValue, VarsDiffer
  <2>2. QED
    BY <2>1 DEF Untouched
<1>8. Program!Preloaded(r) = lib
  BY <1>2, <1>5 DEF Program!Preloaded
<1>9. PICK p : p = Program!SetupPythonHook(r, lib, None)
  OBVIOUS
<1>10. f = Program!SetupJavaHook(p, lib, None)
  BY <1>0, <1>2, <1>3, <1>8, <1>9 DEF Program!Started
<1>11. SetsHook(p, r, own, "python", a)
  BY <1>0, <1>6, <1>7, <1>9, PythonSetUp
<1>12. \A n : n # Program!HookVar["python"] => Same(p, r, n)
  BY <1>11 DEF SetsHook
<1>13. Injected(p, own, a)
  BY <1>6, <1>12, InjectedStays
<1>14. Program!HookVar["python"] # Program!HookVar["java"]
  BY VarsDiffer
<1>15. Untouched(p, own, "java")
  <2>1. Program!Value(p, Program!HookVar["java"]) = Program!Value(r, Program!HookVar["java"])
    BY <1>12, <1>14, SameValue
  <2>2. QED
    BY <1>0, <1>7, <2>1 DEF Untouched
<1>16. SetsHook(f, p, own, "java", a)
  BY <1>10, <1>13, <1>15, JavaSetUp
<1>17. \A n : n # Program!HookVar["java"] => Same(f, p, n)
  BY <1>16 DEF SetsHook
<1>18. Injected(f, own, a)
  BY <1>13, <1>17, InjectedStays
<1>19. Program!Hooked(f, "python") <=> Program!Hooked(p, "python")
  <2>1. Program!Value(f, Program!HookVar["python"]) = Program!Value(p, Program!HookVar["python"])
    BY <1>14, <1>17, SameValue
  <2>2. QED
    BY <2>1, HookedIs
<1>20. Program!Preloaded(f) # None
  <2>1. "LD_PRELOAD" # Program!HookVar["python"] /\ "LD_PRELOAD" # Program!HookVar["java"]
    BY VarsDiffer
  <2>2. Program!Value(p, "LD_PRELOAD") = Program!Value(r, "LD_PRELOAD")
    BY <1>12, <2>1, SameValue
  <2>3. Program!Value(f, "LD_PRELOAD") = Program!Value(p, "LD_PRELOAD")
    BY <1>17, <2>1, SameValue
  <2>4. QED
    BY <1>2, <1>5, <2>2, <2>3 DEF Program!Preloaded
<1>21. Program!GetSocketPath(f) = SocketPath /\ Program!JavaSocketPath(f) = SocketPath
  <2>1. Program!GetSocketPath(f) = SocketPath
    BY <1>18 DEF Injected, Program!GetSocketPath
  <2>2. SocketPath # ""
    BY DEF SocketPath
  <2>3. QED
    BY <2>1, <2>2 DEF Program!JavaSocketPath
<1>22. Program!IsEnabled(f) = Program!IsEnabled(own)
  BY <1>18 DEF Injected
<1>23. Program!Asks(f) \subseteq {SocketPath}
  BY <1>21 DEF Program!Asks
<1>24. Program!IsEnabled(own) => Program!Asks(f) # {}
  BY <1>20, <1>21, <1>22 DEF Program!Asks
<1>25. \A l \in Program!Languages :
         Program!Hooked(f, l) <=> \/ ~ No(a)[l] /\ Program!Value(own, Program!NoVar[l]) # "1"
                                  \/ Program!Hooked(own, l)
  BY <1>0, <1>11, <1>16, <1>19 DEF SetsHook
<1>26. QED
  BY <1>23, <1>24, <1>25

\* The agent parses what the injector has written for it.
LEMMA ConfigIs ==
  ASSUME NEW a, AgentToml(a) # None
  PROVE  Agent!FromFile(AgentToml(a)).agent.socket = SocketPath
<1> DEFINE toml == AgentToml(a)
           b    == BackendConfig(a)
           g    == [socket |-> SocketPath, log_level |-> "info"]
<1>1. toml = [agent |-> g, backend |-> b]
  BY DEF AgentToml
<1>2. /\ "type" \in DOMAIN b /\ b.type \in DOMAIN Agent!Required
      /\ Agent!Required[b.type] \subseteq DOMAIN b
  <2>1. CASE a.vaultAddr
    <3>1. b.type = "vault" /\ "type" \in DOMAIN b /\ "address" \in DOMAIN b
      BY <2>1 DEF BackendConfig
    <3>2. "vault" \in DOMAIN Agent!Required /\ Agent!Required["vault"] = {"address"}
      BY DEF Agent!Required
    <3>3. QED
      BY <3>1, <3>2
  <2>2. CASE ~ a.vaultAddr
    <3>1. b.type = "file" /\ "type" \in DOMAIN b /\ "path" \in DOMAIN b
      BY <2>2 DEF BackendConfig
    <3>2. "file" \in DOMAIN Agent!Required /\ Agent!Required["file"] = {"path"}
      BY DEF Agent!Required
    <3>3. QED
      BY <3>1, <3>2
  <2>3. QED
    BY <2>1, <2>2
<1> HIDE DEF b, g
<1>3. /\ toml # None /\ DOMAIN toml = {"agent", "backend"}
      /\ toml.agent = g /\ toml.backend = b
  BY <1>1
<1> HIDE DEF toml
<1>4. Agent!FromFile(toml).agent = Agent!WithDefaults(g, Agent!AgentDefaults)
  BY <1>2, <1>3 DEF Agent!FromFile
<1>5. Agent!WithDefaults(g, Agent!AgentDefaults).socket = SocketPath
  BY DEF Agent!WithDefaults, g
<1>6. QED
  BY <1>4, <1>5 DEF toml

\* A valid pod that has been injected has one configuration, the injector's.
LEMMA ConfigFileIs ==
  ASSUME NEW a, NEW init, NEW pod, Prepared(pod, init, a), IsSequence(pod.containers), Valid(pod)
  PROVE  ConfigFile(pod) = AgentToml(a)
<1> DEFINE n == Len(init)
           k == Len(pod.containers)
           all == pod.init \o pod.containers
<1>1. /\ n \in Nat /\ IsSequence(pod.init) /\ Len(pod.init) = n + 1
      /\ DOMAIN pod.init = 1..n + 1 /\ pod.init[n + 1] = InitContainer(a)
  BY AppendIs, SequenceIs DEF Prepared
<1>2. IsInjective([i \in DOMAIN all |-> all[i].name])
  BY DEF Valid
<1>3. /\ k \in Nat /\ DOMAIN all = 1..(n + 1) + k
      /\ \A i \in 1..n + 1 : all[i] = pod.init[i]
  <2>1. k \in Nat
    BY SequenceIs
  <2>2. /\ DOMAIN all = 1..Len(pod.init) + Len(pod.containers)
        /\ \A i \in 1..Len(pod.init) : all[i] = pod.init[i]
    <3>1. PICK s : s = pod.init
      OBVIOUS
    <3>2. PICK t : t = pod.containers
      OBVIOUS
    <3>3. IsSequence(s) /\ IsSequence(t) /\ all = s \o t
      BY <1>1, <3>1, <3>2
    <3> HIDE DEF all
    <3>4. /\ DOMAIN all = 1..Len(s) + Len(t)
          /\ \A i \in 1..Len(s) : all[i] = s[i]
      BY ONLY <3>3, Joined
    <3>5. QED
      BY <3>1, <3>2, <3>4
  <2> HIDE DEF all
  <2>3. QED
    BY <1>1, <2>1, <2>2
<1> HIDE DEF n, k, all
<1>4. ASSUME NEW i \in DOMAIN pod.init, pod.init[i].name = InitName PROVE i = n + 1
  <2>1. i \in DOMAIN all /\ n + 1 \in DOMAIN all
    BY <1>1, <1>3
  <2>2. all[i].name = InitName /\ all[n + 1].name = InitName
    BY <1>1, <1>3, <1>4 DEF InitContainer
  <2>3. QED
    BY <1>2, <2>1, <2>2 DEF IsInjective
<1>5. n + 1 \in DOMAIN pod.init /\ pod.init[n + 1].name = InitName
  BY <1>1 DEF InitContainer
<1>6. (CHOOSE i \in DOMAIN pod.init : pod.init[i].name = InitName) = n + 1
  BY <1>4, <1>5
<1>7. InitContainer(a).command[3] = AgentToml(a)
  BY DEF InitContainer
<1>8. QED
  BY <1>1, <1>6, <1>7 DEF ConfigFile

\* The hooks a pod is not to have are those that were not wanted at first.
LEMMA NoIs ==
  ASSUME NEW first \in Templates, NEW pod \in Forms(first)
  PROVE  /\ pod.annotations.noPython = first.annotations.noPython
         /\ pod.annotations.noJava = first.annotations.noJava
<1> DEFINE m == MutatePod(first)
           a == first.annotations
<1>1. a = [inject |-> a.inject, injected |-> a.injected, quantities |-> a.quantities,
           vaultAddr |-> a.vaultAddr, authMethod |-> a.authMethod,
           vaultCacheTTL |-> a.vaultCacheTTL, containers |-> a.containers,
           noPython |-> a.noPython, noJava |-> a.noJava]
  BY TemplatesAssumption DEF IsPod
<1>2. m.annotations = [a EXCEPT !.injected = TRUE]
  BY DEF MutatePod
<1>3. m.annotations.noPython = a.noPython /\ m.annotations.noJava = a.noJava
  BY <1>1, <1>2
<1>4. m = [annotations |-> m.annotations, volumes |-> m.volumes, init |-> m.init,
           containers |-> m.containers]
  BY DEF MutatePod
<1>5. pod = first \/ pod = m \/ pod = [m EXCEPT !.annotations.injected = FALSE]
  BY FormIs
<1> HIDE DEF m, a
<1>6. [m EXCEPT !.annotations.injected = FALSE].annotations
        = [m.annotations EXCEPT !.injected = FALSE]
  BY <1>4
<1>7. /\ [m.annotations EXCEPT !.injected = FALSE].noPython = m.annotations.noPython
      /\ [m.annotations EXCEPT !.injected = FALSE].noJava = m.annotations.noJava
  BY <1>1, <1>2
<1>8. QED
  BY <1>3, <1>5, <1>6, <1>7 DEF a

\* What is said of one container of a pod.
AsksFor(c, d, pod) ==
  LET config == Agent!FromFile(ConfigFile(pod))
      no     == [python |-> pod.annotations.noPython, java |-> pod.annotations.noJava]
      own    == Env(c)
      env    == Environment(d)
  IN  /\ Program!Asks(env) \subseteq {config.agent.socket}
      /\ Program!IsEnabled(own) => Program!Asks(env) # {}
      /\ \A l \in Program!Languages :
           Program!Hooked(env, l) <=> \/ ~ no[l] /\ Program!Value(own, Program!NoVar[l]) # "1"
                                      \/ Program!Hooked(own, l)

LEMMA ContainerAsks ==
  ASSUME NEW first \in Templates, NEW pod \in Forms(first), Valid(pod),
         NEW i \in DOMAIN first.containers, NEW c, c = first.containers[i],
         NEW d, d = pod.containers[i], d.command = RunCommand
  PROVE  AsksFor(c, d, pod)
<1>1. PICK a : a = first.annotations
  OBVIOUS
<1>2. PICK init : init = first.init
  OBVIOUS
<1>3. IsContainer(c) /\ d = MutateContainer(c, a) /\ Prepared(pod, init, a)
  BY <1>1, <1>2, ContainerIs DEF Prepared
<1>4. Added(c, d, a)
  BY <1>3 DEF Added, IsContainer, MutateContainer
<1>5. PICK e : e = Env(d)
  OBVIOUS
<1>6. PICK own : own = Env(c)
  OBVIOUS
<1>7. Injected(e, own, a) /\ \A l \in Program!Languages : Untouched(e, own, l)
  BY <1>4, <1>5, <1>6, EnvInjected
<1>8. HoldsPaths(own) /\ AgentToml(a) # None
  BY <1>1, <1>6, TemplatesAssumption DEF HoldsPaths
<1>9. Program!FindLibenvproxy(e, MountPath) = MountPath \o <<"lib", "libenvproxy.so">>
  BY <1>4, <1>5, FindsLibrary
<1>10. PICK f : f = Environment(d)
  OBVIOUS
<1>11. f = Program!Started(Program!CmdRun(e, MountPath, DefaultSocket),
                           [l \in Program!Languages |-> None])
  BY <1>5, <1>10 DEF Environment
<1>12. /\ Program!Asks(f) \subseteq {SocketPath}
       /\ Program!IsEnabled(own) => Program!Asks(f) # {}
       /\ \A l \in Program!Languages :
            Program!Hooked(f, l) <=> \/ ~ No(a)[l] /\ Program!Value(own, Program!NoVar[l]) # "1"
                                     \/ Program!Hooked(own, l)
  BY <1>7, <1>8, <1>9, <1>11, StartedAsks
<1>13. Agent!FromFile(ConfigFile(pod)).agent.socket = SocketPath
  <2>1. IsSequence(pod.containers)
    BY FormIs
  <2>2. ConfigFile(pod) = AgentToml(a)
    BY <1>3, <2>1, ConfigFileIs
  <2>3. QED
    BY <1>8, <2>2, ConfigIs
<1>14. No(a) = [python |-> pod.annotations.noPython, java |-> pod.annotations.noJava]
  BY <1>1, NoIs DEF No
<1>15. QED
  BY <1>6, <1>10, <1>12, <1>13, <1>14 DEF AsksFor

\* The programs of a container that is run by the injector's `envproxy run` ask the agent
\* of their pod and nobody else, with the hooks that are wanted, whatever the container
\* itself sets.
THEOREM AsksAgent == Spec => []AsksItsAgent
<1>1. ASSUME PodsInv PROVE AsksItsAgent
  <2>1. ASSUME NEW p \in DOMAIN pods, NEW i \in DOMAIN pods[p].first.containers,
               pods[p].pod.containers[i].command = RunCommand
        PROVE  AsksFor(pods[p].first.containers[i], pods[p].pod.containers[i], pods[p].pod)
    <3>1. PICK first : first = pods[p].first
      OBVIOUS
    <3>2. PICK pod : pod = pods[p].pod
      OBVIOUS
    <3>3. first \in Templates /\ pod \in Forms(first) /\ Valid(pod)
      BY <1>1, <3>1, <3>2 DEF PodsInv
    <3>4. QED
      BY <2>1, <3>1, <3>2, <3>3, ContainerAsks
  <2>2. QED
    BY <2>1 DEF AsksItsAgent, AsksFor
<1>2. QED
  BY <1>1, PodsInvariance, PTL

=============================================================================
