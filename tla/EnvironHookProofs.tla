-------------------------- MODULE EnvironHookProofs --------------------------
(***************************************************************************)
(* What the hooks promise, for any threads, references, times to live and  *)
(* bounds: a value is served for no longer than its age allows, a          *)
(* reference that has been replaced and a failure are forgotten in time,   *)
(* and writes invalidate.                                                  *)
(***************************************************************************)
EXTENDS EnvironHook, TLAPS

USE EnvironHookAssumption

ThreadStep(t) ==
  \/ Lookup(t) \/ CacheHit(t) \/ CacheMiss(t)
  \/ AgentAnswers(t) \/ AgentFails(t) \/ Store(t)
  \/ (\E v \in Sources \cup {Plain} : Write(t, v)) \/ Invalidate(t)

\* The types of the state survive every step of a thread ...
LEMMA ThreadTypes ==
  ASSUME TypeOK, NEW t \in Threads, ThreadStep(t)
  PROVE  TypeOK'
<1>1. ClocksOK'
  <2>1. UNCHANGED clocks /\ felt' \in {felt, MaxQuery + CacheTTL}
    BY DEF ThreadStep, Lookup, CacheHit, CacheMiss, AgentAnswers, AgentFails, Store, Write,
           Invalidate, Return, Answered, clocks
  <2> QED
    BY <2>1 DEF TypeOK, ClocksOK, clocks
<1>2. EnvOK'
  <2>1. CASE UNCHANGED <<secrets, env>>
    BY <2>1 DEF TypeOK, EnvOK, env
  <2>2. ASSUME NEW v \in Sources \cup {Plain}, Write(t, v) PROVE EnvOK'
    <3>1. secrets' = secrets /\ environ' = v
      BY <2>2 DEF Write
    <3>2. leftAt' \in [Sources -> Nat]
      BY <2>2 DEF Write, TypeOK, EnvOK, ClocksOK
    <3>3. writes' \in 0..MaxWrites
      BY <2>2 DEF Write, TypeOK, EnvOK
    <3>4. raced' \in BOOLEAN
      BY <2>2 DEF Write, TypeOK, EnvOK
    <3> QED
      BY <3>1, <3>2, <3>3, <3>4 DEF TypeOK, EnvOK
  <2> QED
    BY <2>1, <2>2 DEF ThreadStep, Lookup, CacheHit, CacheMiss, AgentAnswers, AgentFails, Store,
                      Invalidate, Return, Answered
<1>3. CacheOK'
  <2>1. CASE cache' \in {cache, None}
    BY <2>1 DEF TypeOK, CacheOK
  <2>2. CASE Store(t)
    <3>1. value[t] \in Values \cup {None} /\ Now \in Int
      BY DEF TypeOK, ThreadsOK, ClocksOK, Now
    <3> QED
      BY <2>2, <3>1 DEF Store, CacheOK
  <2> QED
    BY <2>1, <2>2 DEF ThreadStep, Lookup, CacheHit, CacheMiss, AgentAnswers, AgentFails, Write,
                      Invalidate, Return, Answered
<1>4. \A v : v \in Values \cup {None} => Outcome(v) \in [kind : {"value"}, of : Values] \cup {Missing}
  BY DEF Outcome, Got
<1>5. value[t] \in Values \cup {None} /\ (cache # None => cache.value \in Values \cup {None})
  BY DEF TypeOK, ThreadsOK, CacheOK
<1>6. ResultOK'
  BY <1>4, <1>5 DEF ResultOK, ThreadStep, Lookup, CacheHit, CacheMiss, AgentAnswers, AgentFails,
                    Store, Write, Invalidate, Return, Answered, IsCacheValid
<1>7. ThreadsOK'
  <2>1. pc' \in [Threads -> {"idle", "cache", "query", "store", "invalidate"}]
    BY DEF TypeOK, ThreadsOK, ThreadStep, Lookup, CacheHit, CacheMiss, AgentAnswers, AgentFails,
           Store, Write, Invalidate, Return, Answered, Goto
  <2>2. since' \in [Threads -> Nat]
    BY DEF TypeOK, ThreadsOK, ClocksOK, ThreadStep, Lookup, CacheHit, CacheMiss, AgentAnswers,
           AgentFails, Store, Write, Invalidate, Return, Answered
  <2>3. real' \in [Threads -> Sources]
    BY DEF TypeOK, ThreadsOK, EnvOK, ThreadStep, Lookup, CacheHit, CacheMiss, AgentAnswers,
           AgentFails, Store, Write, Invalidate, Return, Sources
  <2>4. value' \in [Threads -> Values \cup {None}]
    <3>1. CASE AgentAnswers(t)
      <4>1. PICK n \in 1..Len(secrets[real[t]]) :
                   value' = [value EXCEPT ![t] = Resolved(real[t], n)]
        BY <3>1 DEF AgentAnswers
      <4>2. Len(secrets[real[t]]) \in Nat /\ real[t] \in Sources
        BY DEF TypeOK, EnvOK, ThreadsOK
      <4>3. Resolved(real[t], n) \in Values
        BY <4>1, <4>2 DEF Resolved, Values
      <4> QED
        BY <4>1, <4>3 DEF TypeOK, ThreadsOK
    <3>2. CASE value' = value \/ value' = [value EXCEPT ![t] = None]
      BY <3>2 DEF TypeOK, ThreadsOK
    <3> QED
      BY <3>1, <3>2 DEF ThreadStep, Lookup, CacheHit, CacheMiss, AgentFails, Store, Write,
                        Invalidate, Return
  <2> QED
    BY <2>1, <2>2, <2>3, <2>4 DEF ThreadsOK
<1> QED
  BY <1>1, <1>2, <1>3, <1>6, <1>7 DEF TypeOK

\* ... and every other step.
LEMMA TypeStep == TypeOK /\ [Next]_vars => TypeOK'
<1> SUFFICES ASSUME TypeOK, [Next]_vars PROVE TypeOK'
  OBVIOUS
<1>1. ASSUME NEW t \in Threads, ThreadStep(t) PROVE TypeOK'
  BY <1>1, ThreadTypes
<1>2. CASE \E s \in Sources : Rotate(s)
  <2>1. PICK s \in Sources : Rotate(s)
    BY <1>2
  <2>2. secrets' \in [Sources -> Seq(Nat)]
    <3>1. secrets' = [secrets EXCEPT ![s] = Append(@, clock)]
      BY <2>1 DEF Rotate
    <3>2. secrets \in [Sources -> Seq(Nat)] /\ clock \in Nat
      BY DEF TypeOK, EnvOK, ClocksOK
    <3> QED
      BY <3>1, <3>2
  <2> QED
    BY <2>1, <2>2 DEF Rotate, TypeOK, ClocksOK, EnvOK, CacheOK, ThreadsOK, ResultOK,
                      clocks, env, thread
<1>3. CASE Tick
  <2>1. ClocksOK'
    BY <1>3 DEF Tick, TypeOK, ClocksOK
  <2> QED
    BY <1>3, <2>1 DEF Tick, TypeOK, EnvOK, CacheOK, ThreadsOK, ResultOK, env, thread
<1>4. CASE SetBack
  <2>1. ClocksOK'
    BY <1>4 DEF SetBack, TypeOK, ClocksOK
  <2> QED
    BY <1>4, <2>1 DEF SetBack, TypeOK, EnvOK, CacheOK, ThreadsOK, ResultOK, env, thread
<1>5. CASE UNCHANGED vars
  BY <1>5 DEF vars, clocks, env, thread, TypeOK, ClocksOK, EnvOK, CacheOK, ThreadsOK, ResultOK
<1> QED
  BY <1>1, <1>2, <1>3, <1>4, <1>5 DEF Next, ThreadStep

LEMMA TypeInit == Init => TypeOK
<1> SUFFICES ASSUME Init PROVE TypeOK
  OBVIOUS
<1>1. ClocksOK
  BY DEF Init, ClocksOK, Forgotten
<1>2. EnvOK
  <2>1. secrets \in [Sources -> Seq(Nat)] /\ environ \in Sources \cup {Plain}
    BY DEF Init
  <2>2. leftAt \in [Sources -> Nat] /\ writes \in 0..MaxWrites
    BY DEF Init
  <2>3. raced \in BOOLEAN
    BY DEF Init
  <2> QED
    BY <2>1, <2>2, <2>3 DEF EnvOK
<1>3. CacheOK /\ ThreadsOK /\ ResultOK
  BY DEF Init, CacheOK, ThreadsOK, ResultOK, Sources
<1> QED
  BY <1>1, <1>2, <1>3 DEF TypeOK

\* Type correctness of the hooks.
THEOREM TypeCorrect == Spec => []TypeOK
  BY TypeInit, TypeStep, PTL DEF Spec

-----------------------------------------------------------------------------
(* The inductive invariant: what a thread has found, what the cache holds,    *)
(* and how old either may be.                                                 *)

\* The variable is s, or ceased to be at the given time or later.
Until(s, time) == s = environ \/ leftAt[s] >= time

\* The thread asks for what the variable is, or was when its lookup began; its answer
\* was up to date then, and a failure is remembered from then on.
ThreadInv(t) ==
  LookingUp(t) =>
    /\ since[t] <= clock
    /\ Urgent(t) => clock <= since[t] + MaxQuery
    /\ Until(real[t], since[t])
    /\ ~ raced => real[t] = environ
    /\ pc[t] = "store" =>
         IF value[t] = None THEN felt >= MaxQuery + CacheTTL - clock + since[t]
         ELSE /\ value[t].source = real[t]
              /\ NewestAt(value[t].source, value[t].version, since[t] - AgentBound)

\* The entry of the cache was true one lookup before its timestamp.
CacheInv ==
  cache # None =>
    /\ cache.timestamp <= clock
    /\ IF cache.value = None THEN felt >= CacheTTL - clock + cache.timestamp
       ELSE /\ NewestAt(cache.value.source, cache.value.version,
                        cache.timestamp - MaxQuery - AgentBound)
            /\ Until(cache.value.source, cache.timestamp - MaxQuery)
            /\ ~ raced /\ (\A t \in Threads : pc[t] # "invalidate")
                 => cache.value.source = environ

\* Only Python writes, and only Java's clock is set back.
HookInv ==
  IF hook = "java" THEN ~ raced /\ \A t \in Threads : pc[t] # "invalidate"
  ELSE back = 0

ResultInv == FreshEnough /\ SupersededExpires /\ FailureExpires

IInv == TypeOK /\ HookInv /\ CacheInv /\ ResultInv /\ \A t \in Threads : ThreadInv(t)

\* What is read of a thread, and of the cache, when they do something.
LEMMA Facts ==
  ASSUME IInv, NEW t \in Threads
  PROVE  /\ clock \in Nat /\ back \in Nat /\ felt \in Int
         /\ since[t] \in Nat /\ real[t] \in Sources
         /\ leftAt \in [Sources -> Nat]
         /\ value[t] # None => value[t].source \in Sources /\ value[t].version \in Nat
         /\ cache # None =>
              /\ cache.timestamp \in Int
              /\ cache.value # None =>
                   cache.value.source \in Sources /\ cache.value.version \in Nat
<1>1. value[t] \in Values \cup {None} /\ (cache # None => cache.value \in Values \cup {None})
  BY DEF IInv, TypeOK, ThreadsOK, CacheOK
<1>2. \A v \in Values : v.source \in Sources /\ v.version \in Nat
  BY DEF Values
<1>3. leftAt \in [Sources -> Nat]
  BY DEF IInv, TypeOK, EnvOK
<1> QED
  BY <1>1, <1>2, <1>3 DEF IInv, TypeOK, ThreadsOK, ClocksOK, CacheOK

\* A version that is up to date at some time is so at every earlier one.
LEMMA Earlier ==
  ASSUME TypeOK, NEW s \in Sources, NEW n \in Nat,
         NEW late \in Int, NEW early \in Int, early <= late, NewestAt(s, n, late)
  PROVE  NewestAt(s, n, early)
<1>1. \A m \in (n + 1)..Len(secrets[s]) : secrets[s][m] \in Nat
  BY DEF TypeOK, EnvOK
<1> QED
  BY <1>1 DEF NewestAt

\* A new version does not change what was up to date before.
LEMMA StillNewest ==
  ASSUME TypeOK, NEW r \in Sources, Rotate(r), NEW s \in Sources, NEW n \in Nat,
         NEW time \in Int, time <= clock, NewestAt(s, n, time)
  PROVE  NewestAt(s, n, time)'
<1>1. /\ secrets' = [secrets EXCEPT ![r] = Append(@, clock)]
      /\ secrets \in [Sources -> Seq(Nat)] /\ clock \in Nat
  <2>1. secrets' = [secrets EXCEPT ![r] = Append(@, clock)]
    BY DEF Rotate
  <2> QED
    BY <2>1 DEF TypeOK, EnvOK, ClocksOK
<1>2. CASE s = r
  <2>1. secrets'[s] = Append(secrets[s], clock) /\ Len(secrets[s]) \in Nat
    BY <1>1, <1>2
  <2>2. ASSUME NEW m \in (n + 1)..(Len(secrets[s]) + 1) PROVE secrets'[s][m] >= time
    <3>1. CASE m = Len(secrets[s]) + 1
      BY <2>1, <3>1, <1>1
    <3>2. CASE m # Len(secrets[s]) + 1
      <4>1. m \in (n + 1)..Len(secrets[s]) /\ m \in 1..Len(secrets[s])
        BY <2>1, <2>2, <3>2
      <4> QED
        BY <1>1, <2>1, <4>1 DEF NewestAt
    <3> QED
      BY <3>1, <3>2
  <2> QED
    BY <1>1, <2>1, <2>2 DEF NewestAt
<1>3. CASE s # r
  BY <1>1, <1>3 DEF NewestAt
<1> QED
  BY <1>2, <1>3

-----------------------------------------------------------------------------
(* Every step keeps it.                                                       *)

\* What a thread has found stays good whatever another one does ...
LEMMA OtherThread ==
  ASSUME IInv, NEW t \in Threads, ThreadStep(t), NEW u \in Threads, u # t
  PROVE  ThreadInv(u)'
<1> SUFFICES ASSUME LookingUp(u)' PROVE ThreadInv(u)'
  BY DEF ThreadInv
<1>1. /\ pc'[u] = pc[u] /\ since'[u] = since[u] /\ real'[u] = real[u] /\ value'[u] = value[u]
      /\ UNCHANGED <<clocks, secrets>> /\ felt' \in {felt, MaxQuery + CacheTTL}
  BY DEF ThreadStep, Lookup, CacheHit, CacheMiss, AgentAnswers, AgentFails, Store, Write,
         Invalidate, Return, Answered, Goto, IInv, TypeOK, ThreadsOK
<1>2. LookingUp(u) /\ ThreadInv(u)
  BY <1>1 DEF LookingUp, IInv
<1>3. /\ clock \in Nat /\ felt \in Int /\ since[u] \in Nat /\ real[u] \in Sources
      /\ leftAt \in [Sources -> Nat]
  BY Facts
<1>4. Until(real[u], since[u])' /\ (~ raced' => real'[u] = environ')
  <2>1. CASE UNCHANGED env
    BY <1>1, <1>2, <2>1 DEF ThreadInv, Until, env
  <2>2. ASSUME NEW v \in Sources \cup {Plain}, Write(t, v)
        PROVE  Until(real[u], since[u])' /\ (~ raced' => real'[u] = environ')
    <3>1. raced'
      BY <1>2, <2>2 DEF Write
    <3>2. leftAt'[real[u]] = IF real[u] = environ THEN clock ELSE leftAt[real[u]]
      BY <1>3, <2>2 DEF Write
    <3>3. since[u] <= clock /\ Until(real[u], since[u])
      BY <1>2 DEF ThreadInv
    <3> QED
      BY <1>1, <1>3, <3>1, <3>2, <3>3 DEF Until
  <2> QED
    BY <2>1, <2>2 DEF ThreadStep, Lookup, CacheHit, CacheMiss, AgentAnswers, AgentFails, Store,
                      Invalidate, Return, Answered
<1>5. Urgent(u)' <=> Urgent(u)
  BY <1>1 DEF Urgent, LookingUp, clocks
<1>6. felt' >= felt \/ felt' >= MaxQuery + CacheTTL - clock + since[u]
  BY <1>1, <1>2, <1>3 DEF ThreadInv
<1>7. pc'[u] = "store" =>
         IF value'[u] = None THEN felt' >= MaxQuery + CacheTTL - clock' + since'[u]
         ELSE /\ value'[u].source = real'[u]
              /\ NewestAt(value[u].source, value[u].version, since[u] - AgentBound)'
  BY <1>1, <1>2, <1>3, <1>6 DEF ThreadInv, NewestAt, clocks
<1> QED
  BY <1>1, <1>2, <1>4, <1>5, <1>7 DEF ThreadInv, clocks

\* ... and whatever it does itself.
LEMMA SameThread ==
  ASSUME IInv, NEW t \in Threads, ThreadStep(t)
  PROVE  ThreadInv(t)'
<1>0. TypeOK /\ ThreadsOK /\ ThreadInv(t)
  BY DEF IInv, TypeOK
<1>f. clock \in Nat /\ felt \in Int /\ since[t] \in Nat /\ real[t] \in Sources
  BY Facts
<1>1. CASE Lookup(t)
  <2> SUFFICES ASSUME LookingUp(t)' PROVE ThreadInv(t)'
    BY DEF ThreadInv
  <2>1. environ # Plain
    BY <1>0, <1>1 DEF Lookup, Return, Goto, LookingUp, ThreadsOK
  <2>2. /\ pc'[t] = "cache" /\ since'[t] = clock /\ real'[t] = environ
        /\ UNCHANGED <<clocks, env>>
    BY <1>0, <1>1, <2>1 DEF Lookup, Goto, ThreadsOK
  <2> QED
    BY <1>f, <2>2 DEF ThreadInv, Until, Urgent, LookingUp, clocks, env
<1>2. CASE CacheMiss(t)
  <2>1. /\ pc[t] = "cache" /\ pc'[t] = "query"
        /\ UNCHANGED <<clocks, env, since, real>>
    BY <1>0, <1>2 DEF CacheMiss, Goto, ThreadsOK
  <2> QED
    BY <1>0, <2>1 DEF ThreadInv, Until, Urgent, LookingUp, clocks, env
<1>3. CASE AgentAnswers(t) \/ AgentFails(t)
  <2>1. /\ pc[t] = "query" /\ pc'[t] = "store" /\ real'[t] = real[t]
        /\ since'[t] = IF hook = "java" THEN clock ELSE since[t]
        /\ UNCHANGED <<clocks, env, secrets>>
    BY <1>0, <1>3 DEF AgentAnswers, AgentFails, Answered, Goto, ThreadsOK
  <2>2. /\ since[t] <= clock /\ Until(real[t], since[t]) /\ (~ raced => real[t] = environ)
        /\ hook # "java" => clock <= since[t] + MaxQuery
    BY <1>0, <2>1 DEF ThreadInv, LookingUp, Urgent, IInv, TypeOK, ClocksOK
  <2>3. Until(real[t], since[t])' /\ (~ raced' => real'[t] = environ')
    BY <2>1, <2>2 DEF Until, IInv, HookInv, env
  <2>4. since'[t] <= clock /\ since'[t] \in Nat /\ clock <= since'[t] + MaxQuery
    BY <1>f, <2>1, <2>2
  <2>5. CASE AgentFails(t)
    <3>1. value'[t] = None /\ felt' = MaxQuery + CacheTTL
      BY <1>0, <2>5 DEF AgentFails, ThreadsOK
    <3> QED
      BY <1>f, <2>1, <2>3, <2>4, <3>1 DEF ThreadInv, clocks
  <2>6. CASE AgentAnswers(t)
    <3>1. PICK n \in 1..Len(secrets[real[t]]) :
            /\ NewestAt(real[t], n, clock - AgentBound)
            /\ value' = [value EXCEPT ![t] = Resolved(real[t], n)]
      BY <2>6 DEF AgentAnswers
    <3>2. n \in Nat
      BY DEF IInv, TypeOK, EnvOK
    <3>3. value'[t] = Resolved(real[t], n) /\ Resolved(real[t], n) # None
      BY <1>0, <3>1, <3>2 DEF ThreadsOK, Resolved
    <3>4. NewestAt(real[t], n, since'[t] - AgentBound)
      <4>1. /\ real[t] \in Sources /\ clock - AgentBound \in Int /\ since'[t] - AgentBound \in Int
            /\ since'[t] - AgentBound <= clock - AgentBound
        BY <1>f, <2>4
      <4> QED
        BY <1>0, <3>1, <3>2, <4>1, Earlier
    <3>5. NewestAt(value[t].source, value[t].version, since[t] - AgentBound)'
      <4>1. value'[t].source = real[t] /\ value'[t].version = n /\ secrets' = secrets
        BY <2>1, <3>3 DEF Resolved
      <4> QED
        BY <3>4, <4>1 DEF NewestAt
    <3> QED
      <4>1. value'[t] # None /\ value'[t].source = real'[t]
        BY <2>1, <3>3 DEF Resolved
      <4> QED
        BY <2>1, <2>3, <2>4, <3>5, <4>1 DEF ThreadInv, clocks
  <2> QED
    BY <1>3, <2>5, <2>6
<1>4. CASE ~ (Lookup(t) \/ CacheMiss(t) \/ AgentAnswers(t) \/ AgentFails(t))
  <2>1. pc'[t] \in {"idle", "invalidate"}
    BY <1>0, <1>4 DEF ThreadStep, CacheHit, Store, Write, Invalidate, Return, Goto, ThreadsOK
  <2> QED
    BY <2>1 DEF ThreadInv, LookingUp
<1> QED
  BY <1>1, <1>2, <1>3, <1>4

\* The cache's entry stays as good as it was, and a new one is as good.
LEMMA CacheStep ==
  ASSUME IInv, NEW t \in Threads, ThreadStep(t)
  PROVE  CacheInv'
<1>0. /\ clock \in Nat /\ back \in Nat /\ felt \in Int /\ since[t] \in Nat
      /\ real[t] \in Sources /\ leftAt \in [Sources -> Nat]
  BY Facts
<1>1. CASE Store(t)
  <2>1. /\ pc[t] = "store" /\ cache' = [value |-> value[t], timestamp |-> Now]
        /\ UNCHANGED <<clocks, secrets, env, felt>>
    BY <1>1 DEF Store
  <2>2. /\ clock <= since[t] + MaxQuery /\ Until(real[t], since[t])
        /\ ~ raced => real[t] = environ
        /\ IF value[t] = None THEN felt >= MaxQuery + CacheTTL - clock + since[t]
           ELSE /\ value[t].source = real[t]
                /\ NewestAt(value[t].source, value[t].version, since[t] - AgentBound)
    BY <2>1 DEF IInv, ThreadInv, LookingUp, Urgent
  <2>3. Now \in Int /\ Now <= clock /\ Now - MaxQuery <= since[t]
    BY <1>0, <2>2 DEF Now
  <2>4. CASE value[t] = None
    BY <1>0, <2>1, <2>2, <2>3, <2>4 DEF CacheInv, clocks
  <2>5. CASE value[t] # None
    <3>1. value[t].source \in Sources /\ value[t].version \in Nat /\ value[t].source = real[t]
      BY <2>2, <2>5, Facts
    <3>2. NewestAt(real[t], value[t].version, Now - MaxQuery - AgentBound)
      <4>1. /\ since[t] - AgentBound \in Int /\ Now - MaxQuery - AgentBound \in Int
            /\ Now - MaxQuery - AgentBound <= since[t] - AgentBound
        BY <1>0, <2>3
      <4> QED
        BY <2>2, <2>5, <3>1, <4>1, Earlier DEF IInv
    <3>3. cache'.value = value[t] /\ cache'.timestamp = Now
      BY <2>1
    <3>4. NewestAt(cache.value.source, cache.value.version,
                   cache.timestamp - MaxQuery - AgentBound)'
      BY <2>1, <3>1, <3>2, <3>3 DEF NewestAt
    <3>5. Until(cache.value.source, cache.timestamp - MaxQuery)'
      BY <1>0, <2>1, <2>2, <2>3, <3>1, <3>3 DEF Until, env
    <3> QED
      BY <2>1, <2>2, <2>3, <2>5, <3>1, <3>3, <3>4, <3>5 DEF CacheInv, clocks, env
  <2> QED
    BY <2>4, <2>5
<1>2. CASE Invalidate(t)
  BY <1>2 DEF Invalidate, CacheInv
<1>3. ASSUME NEW v \in Sources \cup {Plain}, Write(t, v) PROVE CacheInv'
  <2>1. /\ UNCHANGED <<clocks, secrets, felt, cache>> /\ environ' = v
        /\ leftAt' = [s \in Sources |-> IF s = environ THEN clock ELSE leftAt[s]]
    BY <1>3 DEF Write
  <2>2. pc'[t] = "invalidate"
    BY <1>3 DEF Write, Goto, IInv, TypeOK, ThreadsOK
  <2>3. SUFFICES ASSUME cache # None PROVE CacheInv'
    BY <2>1 DEF CacheInv
  <2>4. cache.timestamp \in Int /\ cache.timestamp <= clock
    BY <2>3, Facts DEF IInv, CacheInv
  <2>5. CASE cache.value = None
    BY <2>1, <2>3, <2>5 DEF IInv, CacheInv, clocks
  <2>6. CASE cache.value # None
    <3>1. cache.value.source \in Sources
      BY <2>3, <2>6, Facts
    <3>2. Until(cache.value.source, cache.timestamp - MaxQuery)'
      BY <1>0, <2>1, <2>3, <2>4, <2>6, <3>1 DEF IInv, CacheInv, Until
    <3>3. NewestAt(cache.value.source, cache.value.version,
                   cache.timestamp - MaxQuery - AgentBound)'
      BY <2>1, <2>3, <2>6 DEF IInv, CacheInv, NewestAt
    <3> QED
      BY <2>1, <2>2, <2>4, <2>6, <3>2, <3>3 DEF CacheInv, clocks
  <2> QED
    BY <2>5, <2>6
<1>4. CASE Lookup(t) \/ CacheHit(t) \/ CacheMiss(t) \/ AgentAnswers(t) \/ AgentFails(t)
  <2>1. /\ UNCHANGED <<clocks, secrets, env, cache>> /\ felt' \in {felt, MaxQuery + CacheTTL}
        /\ \A u \in Threads : pc'[u] = "invalidate" <=> pc[u] = "invalidate"
    BY <1>4 DEF Lookup, CacheHit, CacheMiss, AgentAnswers, AgentFails, Return, Answered, Goto,
                IInv, TypeOK, ThreadsOK
  <2>2. CacheInv
    BY DEF IInv
  <2>3. cache # None => cache.timestamp \in Int /\ cache.timestamp <= clock
    BY <2>2, Facts DEF CacheInv
  <2>4. CASE cache = None \/ cache.value # None
    BY <2>1, <2>2, <2>4 DEF CacheInv, NewestAt, Until, clocks, env
  <2>5. CASE cache # None /\ cache.value = None
    BY <1>0, <2>1, <2>2, <2>3, <2>5 DEF CacheInv, clocks
  <2> QED
    BY <2>4, <2>5
<1> QED
  BY <1>1, <1>2, <1>3, <1>4 DEF ThreadStep

\* What a lookup ends with is as good as what it has found.
LEMMA ResultStep ==
  ASSUME IInv, NEW t \in Threads, ThreadStep(t)
  PROVE  ResultInv'
<1>0. /\ clock \in Nat /\ back \in Nat /\ felt \in Int /\ since[t] \in Nat
      /\ real[t] \in Sources /\ leftAt \in [Sources -> Nat]
  BY Facts
<1>1. CASE result' = None \/ result' = IsPlain
  BY <1>1 DEF ResultInv, FreshEnough, SupersededExpires, FailureExpires, HasValue, IsPlain, Missing
<1>2. CASE CacheHit(t)
  <2>1. /\ cache # None /\ clock - back - cache.timestamp < CacheTTL
        /\ UNCHANGED <<clocks, secrets, env, felt>> /\ result' = Outcome(cache.value)
    BY <1>2 DEF CacheHit, IsCacheValid, Now, Return
  <2>2. cache.timestamp \in Int /\ CacheInv
    BY <2>1, Facts DEF IInv
  <2>3. CASE cache.value = None
    <3>1. result' = Missing /\ felt + back >= 0
      BY <1>0, <2>1, <2>2, <2>3 DEF Outcome, CacheInv
    <3> QED
      BY <2>1, <3>1 DEF ResultInv, FreshEnough, SupersededExpires, FailureExpires, HasValue,
                        Missing, clocks
  <2>4. CASE cache.value # None
    <3> DEFINE s == cache.value.source
               n == cache.value.version
    <3>1. result' = [kind |-> "value", of |-> cache.value] /\ s \in Sources /\ n \in Nat
      BY <2>1, <2>4, Facts DEF Outcome, Got
    <3>2. NewestAt(s, n, clock - CacheTTL - MaxQuery - AgentBound - back)
      <4>1. NewestAt(s, n, cache.timestamp - MaxQuery - AgentBound)
        BY <2>1, <2>2, <2>4 DEF CacheInv
      <4>2. /\ cache.timestamp - MaxQuery - AgentBound \in Int
            /\ clock - CacheTTL - MaxQuery - AgentBound - back \in Int
            /\ clock - CacheTTL - MaxQuery - AgentBound - back
                 <= cache.timestamp - MaxQuery - AgentBound
        BY <1>0, <2>1, <2>2
      <4> QED
        BY <3>1, <4>1, <4>2, Earlier DEF IInv
    <3>3. s = environ \/ clock <= leftAt[s] + MaxQuery + CacheTTL
      <4>1. CASE hook = "java"
        BY <2>1, <2>2, <2>4, <4>1 DEF IInv, HookInv, CacheInv
      <4>2. CASE hook # "java"
        BY <1>0, <2>1, <2>2, <2>4, <3>1, <4>2 DEF IInv, HookInv, CacheInv, Until
      <4> QED
        BY <4>1, <4>2
    <3>4. result'.of = cache.value /\ result' # Missing
      BY <3>1 DEF Missing
    <3>5. FreshEnough'
      BY <2>1, <3>2, <3>4 DEF FreshEnough, NewestAt, clocks
    <3>6. SupersededExpires'
      BY <2>1, <3>3, <3>4 DEF SupersededExpires, clocks, env
    <3> QED
      BY <3>4, <3>5, <3>6 DEF ResultInv, FailureExpires
  <2> QED
    BY <2>3, <2>4
<1>3. CASE Store(t)
  <2>1. /\ pc[t] = "store" /\ UNCHANGED <<clocks, secrets, env, felt>>
        /\ result' = Outcome(value[t])
    BY <1>3 DEF Store, Return
  <2>2. /\ clock <= since[t] + MaxQuery /\ Until(real[t], since[t])
        /\ IF value[t] = None THEN felt >= MaxQuery + CacheTTL - clock + since[t]
           ELSE /\ value[t].source = real[t]
                /\ NewestAt(value[t].source, value[t].version, since[t] - AgentBound)
    BY <2>1 DEF IInv, ThreadInv, LookingUp, Urgent
  <2>3. CASE value[t] = None
    <3>1. result' = Missing /\ felt + back >= 0
      BY <1>0, <2>1, <2>2, <2>3 DEF Outcome
    <3> QED
      BY <2>1, <3>1 DEF ResultInv, FreshEnough, SupersededExpires, FailureExpires, HasValue,
                        Missing, clocks
  <2>4. CASE value[t] # None
    <3> DEFINE s == value[t].source
               n == value[t].version
    <3>1. result' = [kind |-> "value", of |-> value[t]] /\ s = real[t] /\ n \in Nat
      BY <2>1, <2>2, <2>4, Facts DEF Outcome, Got
    <3>2. NewestAt(s, n, clock - CacheTTL - MaxQuery - AgentBound - back)
      <4>1. /\ since[t] - AgentBound \in Int
            /\ clock - CacheTTL - MaxQuery - AgentBound - back \in Int
            /\ clock - CacheTTL - MaxQuery - AgentBound - back <= since[t] - AgentBound
        BY <1>0, <2>2
      <4> QED
        BY <1>0, <2>2, <2>4, <3>1, <4>1, Earlier DEF IInv
    <3>3. s = environ \/ clock <= leftAt[s] + MaxQuery + CacheTTL
      BY <1>0, <2>2, <3>1 DEF Until
    <3>4. result'.of = value[t] /\ result' # Missing
      BY <3>1 DEF Missing
    <3>5. FreshEnough'
      BY <2>1, <3>2, <3>4 DEF FreshEnough, NewestAt, clocks
    <3>6. SupersededExpires'
      BY <2>1, <3>3, <3>4 DEF SupersededExpires, clocks, env
    <3> QED
      BY <3>4, <3>5, <3>6 DEF ResultInv, FailureExpires
  <2> QED
    BY <2>3, <2>4
<1> QED
  BY <1>1, <1>2, <1>3 DEF ThreadStep, Lookup, CacheMiss, AgentAnswers, AgentFails, Write,
                          Invalidate, Return, Answered

LEMMA HookStep ==
  ASSUME IInv, NEW t \in Threads, ThreadStep(t)
  PROVE  HookInv'
<1>1. hook' = hook /\ back' = back
  BY DEF ThreadStep, Lookup, CacheHit, CacheMiss, AgentAnswers, AgentFails, Store, Write,
         Invalidate, clocks
<1>2. CASE hook # "java"
  BY <1>1, <1>2 DEF IInv, HookInv
<1>3. CASE hook = "java"
  <2>1. raced' = raced /\ \A u \in Threads : pc'[u] # "invalidate"
    BY <1>3 DEF ThreadStep, Lookup, CacheHit, CacheMiss, AgentAnswers, AgentFails, Store, Write,
                Invalidate, Return, Answered, Goto, env, IInv, HookInv, TypeOK, ThreadsOK
  <2> QED
    BY <1>1, <1>3, <2>1 DEF IInv, HookInv
<1> QED
  BY <1>2, <1>3

\* A step that is nobody's lookup or write takes no fact away.
LEMMA WorldStep ==
  ASSUME IInv, Tick \/ SetBack \/ \E s \in Sources : Rotate(s)
  PROVE  HookInv' /\ CacheInv' /\ ResultInv' /\ \A t \in Threads : ThreadInv(t)'
<1>1. /\ UNCHANGED <<hook, env, cache, thread>> /\ result' = None
      /\ clock' \in {clock, clock + 1} /\ felt' \in Int
      /\ felt' >= felt \/ (clock' = clock + 1 /\ felt' >= felt - 1)
  <2>1. clock \in Nat /\ felt \in Int
    BY DEF IInv, TypeOK, ClocksOK
  <2>2. CASE Tick
    BY <2>1, <2>2 DEF Tick, env, thread
  <2>3. CASE SetBack
    BY <2>1, <2>3 DEF SetBack, env, thread
  <2>4. CASE \E s \in Sources : Rotate(s)
    <3>1. PICK s \in Sources : Rotate(s)
      BY <2>4
    <3>2. UNCHANGED <<clocks, env, felt, cache, thread>> /\ result' = None
      BY <3>1 DEF Rotate
    <3> QED
      BY <2>1, <3>2 DEF clocks
  <2> QED
    BY <2>2, <2>3, <2>4
<1>2. clock \in Nat /\ felt \in Int /\ CacheInv
  BY DEF IInv, TypeOK, ClocksOK
<1>3. HookInv'
  <2>1. hook = "java" \/ back' = back
    BY DEF Tick, SetBack, Rotate, clocks, IInv, TypeOK, ClocksOK
  <2> QED
    BY <1>1, <2>1 DEF IInv, HookInv, env, thread
<1>4. ResultInv'
  BY <1>1 DEF ResultInv, FreshEnough, SupersededExpires, FailureExpires, HasValue, Missing
<1>5. ASSUME NEW s \in Sources, NEW n \in Nat, NEW time \in Int, time <= clock,
             NewestAt(s, n, time)
      PROVE  NewestAt(s, n, time)'
  <2>1. CASE secrets' = secrets
    BY <1>5, <2>1 DEF NewestAt
  <2>2. CASE \E r \in Sources : Rotate(r)
    BY <1>5, <2>2, StillNewest DEF IInv
  <2> QED
    BY <2>1, <2>2 DEF Tick, SetBack
<1>6. CacheInv'
  <2>1. SUFFICES ASSUME cache # None PROVE CacheInv'
    BY <1>1 DEF CacheInv
  <2>2. cache.timestamp \in Int /\ cache.timestamp <= clock
    BY <1>2, <2>1 DEF IInv, TypeOK, CacheOK, CacheInv
  <2>3. CASE cache.value = None
    BY <1>1, <1>2, <2>1, <2>2, <2>3 DEF CacheInv
  <2>4. CASE cache.value # None
    <3>1. cache.value \in Values
      BY <2>1, <2>4 DEF IInv, TypeOK, CacheOK
    <3>2. cache.value.source \in Sources /\ cache.value.version \in Nat
      BY <3>1 DEF Values
    <3>3. /\ cache.timestamp - MaxQuery - AgentBound \in Int
          /\ cache.timestamp - MaxQuery - AgentBound <= clock
      BY <1>2, <2>2
    <3>4. NewestAt(cache.value.source, cache.value.version,
                   cache.timestamp - MaxQuery - AgentBound)
      BY <1>2, <2>1, <2>4 DEF CacheInv
    <3>5. NewestAt(cache.value.source, cache.value.version,
                   cache.timestamp - MaxQuery - AgentBound)'
      <4>1. cache' = cache
        BY <1>1
      <4>2. \A s, n, time : NewestAt(s, n, time)' <=>
              \A m \in (n + 1)..Len(secrets'[s]) : secrets'[s][m] >= time
        BY DEF NewestAt
      <4> HIDE DEF NewestAt
      <4> QED
        BY <1>5, <3>2, <3>3, <3>4, <4>1, <4>2 DEF NewestAt
    <3> QED
      BY <1>1, <1>2, <2>1, <2>2, <2>4, <3>5 DEF CacheInv, Until, env, thread
  <2> QED
    BY <2>3, <2>4
<1>7. ASSUME NEW t \in Threads PROVE ThreadInv(t)'
  <2>1. SUFFICES ASSUME LookingUp(t) PROVE ThreadInv(t)'
    BY <1>1 DEF ThreadInv, LookingUp, thread
  <2>2. ThreadInv(t) /\ since[t] \in Nat
    BY DEF IInv, TypeOK, ThreadsOK
  <2>3. /\ since'[t] <= clock' /\ Until(real[t], since[t])' /\ (~ raced' => real'[t] = environ')
    BY <1>1, <1>2, <2>1, <2>2 DEF ThreadInv, Until, env, thread
  <2>4. Urgent(t)' => clock' <= since'[t] + MaxQuery
    <3>1. Urgent(t)' <=> Urgent(t)
      BY <1>1 DEF Urgent, LookingUp, thread
    <3>2. Urgent(t) /\ clock' = clock + 1 => clock < since[t] + MaxQuery
      <4>1. CASE Tick
        BY <4>1 DEF Tick
      <4>2. CASE SetBack
        BY <1>2, <4>2 DEF SetBack
      <4>3. CASE \E s \in Sources : Rotate(s)
        <5>1. PICK s \in Sources : Rotate(s)
          BY <4>3
        <5>2. UNCHANGED clocks
          BY <5>1 DEF Rotate
        <5> QED
          BY <1>2, <5>2 DEF clocks
      <4> QED
        BY <4>1, <4>2, <4>3
    <3> QED
      BY <1>1, <1>2, <2>1, <2>2, <3>1, <3>2 DEF ThreadInv, thread
  <2>5. pc[t] = "store" /\ value[t] = None
          => felt' >= MaxQuery + CacheTTL - clock' + since[t]
    BY <1>1, <1>2, <2>1, <2>2 DEF ThreadInv
  <2>6. pc[t] = "store" /\ value[t] # None
          => /\ value[t].source = real[t]
             /\ NewestAt(value[t].source, value[t].version, since[t] - AgentBound)'
    <3> SUFFICES ASSUME pc[t] = "store", value[t] # None
                 PROVE  /\ value[t].source = real[t]
                        /\ NewestAt(value[t].source, value[t].version, since[t] - AgentBound)'
      OBVIOUS
    <3>1. /\ value[t].source \in Sources /\ value[t].version \in Nat
          /\ value[t].source = real[t]
          /\ NewestAt(value[t].source, value[t].version, since[t] - AgentBound)
      BY <2>1, <2>2, Facts DEF ThreadInv
    <3>2. since[t] - AgentBound \in Int /\ since[t] - AgentBound <= clock
      BY <1>2, <2>1, <2>2 DEF ThreadInv
    <3> QED
      BY <1>1, <1>5, <3>1, <3>2 DEF NewestAt, thread
  <2> QED
    BY <1>1, <2>3, <2>4, <2>5, <2>6 DEF ThreadInv, thread
<1> QED
  BY <1>3, <1>4, <1>6, <1>7

LEMMA Step == IInv /\ [Next]_vars => IInv'
<1> SUFFICES ASSUME IInv, [Next]_vars PROVE IInv'
  OBVIOUS
<1>1. TypeOK'
  BY TypeStep DEF IInv
<1>2. ASSUME NEW t \in Threads, ThreadStep(t) PROVE IInv'
  <2>1. \A u \in Threads : ThreadInv(u)'
    BY <1>2, OtherThread, SameThread
  <2> QED
    BY <1>1, <1>2, <2>1, CacheStep, ResultStep, HookStep DEF IInv
<1>3. CASE Tick \/ SetBack \/ \E s \in Sources : Rotate(s)
  BY <1>1, <1>3, WorldStep DEF IInv
<1>4. CASE UNCHANGED vars
  <2>1. HookInv' /\ CacheInv'
    BY <1>4 DEF IInv, HookInv, CacheInv, NewestAt, Until, vars, clocks, env, thread
  <2>2. ResultInv'
    BY <1>4 DEF IInv, ResultInv, FreshEnough, SupersededExpires, FailureExpires, HasValue,
                NewestAt, vars, clocks, env, thread
  <2>3. \A t \in Threads : ThreadInv(t)'
    BY <1>4 DEF IInv, ThreadInv, LookingUp, Urgent, NewestAt, Until, vars, clocks, env, thread
  <2> QED
    BY <1>1, <2>1, <2>2, <2>3 DEF IInv
<1> QED
  BY <1>2, <1>3, <1>4 DEF Next, ThreadStep

THEOREM Invariance == Spec => []IInv
<1>1. Init => IInv
  <2> SUFFICES ASSUME Init PROVE IInv
    OBVIOUS
  <2>1. HookInv /\ CacheInv /\ \A t \in Threads : ThreadInv(t)
    BY DEF Init, HookInv, CacheInv, ThreadInv, LookingUp
  <2>2. ResultInv
    BY DEF Init, ResultInv, FreshEnough, SupersededExpires, FailureExpires, HasValue, Missing
  <2> QED
    BY <2>1, <2>2, TypeInit DEF IInv
<1>2. QED
  BY <1>1, Step, PTL DEF Spec

\* No value is older than the agent's bound, a lookup, a time to live and what the wall
\* clock has been set back.
THEOREM Freshness == Spec => []FreshEnough
<1>1. IInv => FreshEnough
  BY DEF IInv, ResultInv
<1> QED
  BY <1>1, Invariance, PTL

\* The secret of a reference that has been replaced is given for no longer than a lookup
\* and a time to live.
THEOREM Superseded == Spec => []SupersededExpires
<1>1. IInv => SupersededExpires
  BY DEF IInv, ResultInv
<1> QED
  BY <1>1, Invariance, PTL

\* While nobody writes during a lookup, the cache belongs to what the variable is.
THEOREM Invalidation == Spec => []CacheIsCurrent
<1>1. IInv => CacheIsCurrent
  BY DEF IInv, CacheInv, CacheIsCurrent
<1> QED
  BY <1>1, Invariance, PTL

\* A failure is reported for no longer than its entry lives.
THEOREM Failure == Spec => []FailureExpires
<1>1. IInv => FailureExpires
  BY DEF IInv, ResultInv
<1> QED
  BY <1>1, Invariance, PTL

=============================================================================
