----------------------------- MODULE EnvironHook -----------------------------
(***************************************************************************)
(* The environment as the hooks replace it: os.environ by Python's         *)
(* (support/python/_envproxy_hook.py), the map behind System.getenv by     *)
(* Java's (support/java/.../EnvProxyMap.java).  Threads of a process look  *)
(* up one variable through a cache of what the agent has answered, and in  *)
(* Python write it.  Entries of different variables do not touch each      *)
(* other.                                                                  *)
(*                                                                         *)
(* A thread can be preempted between any two steps; the agent is asked     *)
(* without a lock.  What the agent answers may itself be AgentBound old:   *)
(* BoundedStaleness, which its Vault backend implements.  Python measures  *)
(* time with a monotonic clock; Java with the wall clock, which somebody   *)
(* may set back (set forward, it only makes entries expire early).         *)
(***************************************************************************)
EXTENDS Integers, Sequences, FiniteSetsExt

CONSTANTS
  Threads,     \* the threads of the process
  Refs,        \* vault: references the variable may be set to
  Plain,       \* any other value
  None,        \* the variable is not set; Python's None
  CacheTTL,    \* ENVPROXY_CACHE_TTL
  AgentBound,  \* how long an answer of the agent may lag behind the secret
  MaxQuery,    \* how long a lookup of Python takes at most, its timeouts included; how
               \* long Java takes from the agent's answer to the end of the lookup
  MaxTime,     \* bound on the clock
  MaxVersions, \* bound on the versions of all secrets
  MaxWrites,   \* bound on the writes to the variable
  MaxBack      \* bound on how far the wall clock is set back

\* Where a secret may come from: a reference, or the variable's name if it has no value.
Sources == Refs \cup {None}

ASSUME EnvironHookAssumption ==
  /\ Plain \notin Sources /\ None \notin Refs
  /\ None \notin [source : Sources, version : Nat] \cup {[kind |-> "missing"]}
  /\ CacheTTL \in Nat /\ AgentBound \in Nat /\ MaxQuery \in Nat
  /\ MaxTime \in Nat /\ MaxVersions \in Nat /\ MaxWrites \in Nat
  /\ MaxBack \in Nat

VARIABLES
  hook,     \* "python" or "java"
  clock,    \* time
  back,     \* how far the wall clock is behind it
  secrets,  \* source -> when each version of the secret was written
  environ,  \* the variable in the original os.environ
  leftAt,   \* (history variable) source -> when the variable last ceased to be it
  writes,   \* how often the variable has been written
  raced,    \* (history variable) the variable was written while a lookup was under way
  felt,     \* (history variable) for how much longer the agent's last failure may be felt
            \* if the wall clock is left alone
  cache,    \* the cache's entry, None if there is none
  pc,       \* thread -> where it is
  since,    \* thread -> when its lookup began
  real,     \* thread -> real_value
  value,    \* thread -> what the agent has been found to say
  result    \* what a lookup has returned or raised in the step just taken, None if none has

clocks == <<hook, clock, back>>
env    == <<environ, leftAt, writes, raced>>
thread == <<pc, since, real, value>>
vars   == <<clocks, secrets, env, felt, cache, thread, result>>

Resolved(s, n) == [source |-> s, version |-> n]
Got(v)         == [kind |-> "value", of |-> v]
IsPlain        == [kind |-> "plain"]
Missing        == [kind |-> "missing"]  \* KeyError, null

\* What a lookup that has asked the agent, now or before, ends with.
Outcome(v) == IF v = None THEN Missing ELSE Got(v)

\* The last failure cannot be felt any more.
Forgotten == IF hook = "python" THEN -1 ELSE -1 - MaxBack

Init ==
  /\ hook \in {"python", "java"}
  /\ clock = 0 /\ back = 0
  /\ secrets = [s \in Sources |-> <<>>]
  /\ environ \in Sources \cup {Plain}
  /\ leftAt = [s \in Sources |-> 0] /\ writes = 0 /\ raced = FALSE
  /\ felt = Forgotten
  /\ cache = None
  /\ pc = [t \in Threads |-> "idle"]
  /\ since = [t \in Threads |-> 0]
  /\ real = [t \in Threads |-> None]
  /\ value = [t \in Threads |-> None]
  /\ result = None

Goto(t, label) == pc' = [pc EXCEPT ![t] = label]

\* The lookup is over, and what it has kept in variables of its own is gone.
Return(t, r) ==
  /\ Goto(t, "idle")
  /\ result' = r
  /\ since' = [since EXCEPT ![t] = 0]
  /\ real' = [real EXCEPT ![t] = None]
  /\ value' = [value EXCEPT ![t] = None]

LookingUp(t) == pc[t] \in {"cache", "query", "store"}

-----------------------------------------------------------------------------

\* __getitem__, get: a value that is no reference is returned as it is.
Lookup(t) ==
  /\ pc[t] = "idle"
  /\ IF environ = Plain THEN Return(t, IsPlain)
     ELSE /\ Goto(t, "cache")
          /\ result' = None
          /\ since' = [since EXCEPT ![t] = clock]
          /\ real' = [real EXCEPT ![t] = environ]
          /\ UNCHANGED value
  /\ UNCHANGED <<clocks, secrets, env, felt, cache>>

\* A mutant: entries do not expire.
ValidForever == cache # None

\* time.monotonic(), System.currentTimeMillis().
Now == clock - back

IsCacheValid == cache # None /\ Now - cache.timestamp < CacheTTL

CacheHit(t) ==
  /\ pc[t] = "cache" /\ IsCacheValid
  /\ Return(t, Outcome(cache.value))
  /\ UNCHANGED <<clocks, secrets, env, felt, cache>>

CacheMiss(t) ==
  /\ pc[t] = "cache" /\ ~ IsCacheValid
  /\ Goto(t, "query")
  /\ result' = None
  /\ UNCHANGED <<clocks, secrets, env, felt, cache, since, real, value>>

\* Version n was still the newest one at the given time.
NewestAt(s, n, time) == \A m \in (n + 1)..Len(secrets[s]) : secrets[s][m] >= time

\* What Java does before the agent's answer may take any time.
Answered(t) ==
  /\ Goto(t, "store")
  /\ since' = [since EXCEPT ![t] = IF hook = "java" THEN clock ELSE @]
  /\ result' = None

\* The agent resolves the reference, or the name.
AgentAnswers(t) ==
  /\ pc[t] = "query"
  /\ \E n \in 1..Len(secrets[real[t]]) :
       /\ NewestAt(real[t], n, clock - AgentBound)
       /\ value' = [value EXCEPT ![t] = Resolved(real[t], n)]
  /\ Answered(t)
  /\ UNCHANGED <<clocks, secrets, env, felt, cache, real>>

\* No agent, no answer in time (Python), an error, or no such secret.
AgentFails(t) ==
  /\ pc[t] = "query"
  /\ value' = [value EXCEPT ![t] = None]
  /\ felt' = MaxQuery + CacheTTL
  /\ Answered(t)
  /\ UNCHANGED <<clocks, secrets, env, cache, real>>

\* A mutant: the entry gets the time it expires at for a timestamp.
StoreExpiry(t) ==
  /\ pc[t] = "store"
  /\ cache' = [value |-> value[t], timestamp |-> Now + CacheTTL]
  /\ Return(t, Outcome(value[t]))
  /\ UNCHANGED <<clocks, secrets, env, felt>>

\* The outcome, None included, is cached with the time it has arrived at.
Store(t) ==
  /\ pc[t] = "store"
  /\ cache' = [value |-> value[t], timestamp |-> Now]
  /\ Return(t, Outcome(value[t]))
  /\ UNCHANGED <<clocks, secrets, env, felt>>

\* __setitem__ and __delitem__ (v is None): the original environ first ...
Write(t, v) ==
  /\ hook = "python" /\ pc[t] = "idle"
  /\ writes < MaxWrites
  /\ writes' = writes + 1
  /\ v = None => environ # None
  /\ environ' = v
  /\ leftAt' = [s \in Sources |-> IF s = environ THEN clock ELSE leftAt[s]]
  /\ raced' = (raced \/ \E u \in Threads : LookingUp(u))
  /\ Goto(t, "invalidate")
  /\ result' = None
  /\ UNCHANGED <<clocks, secrets, felt, cache, since, real, value>>

\* A mutant: the entry is kept.
InvalidateNothing(t) ==
  /\ pc[t] = "invalidate"
  /\ Goto(t, "idle")
  /\ result' = None
  /\ UNCHANGED <<clocks, secrets, env, felt, cache, since, real, value>>

\* ... then the cache.
Invalidate(t) ==
  /\ pc[t] = "invalidate"
  /\ cache' = None
  /\ Goto(t, "idle")
  /\ result' = None
  /\ UNCHANGED <<clocks, secrets, env, felt, since, real, value>>

\* A secret is created or rotated.
Rotate(s) ==
  /\ MapThenSumSet(LAMBDA r : Len(secrets[r]), Sources) < MaxVersions
  /\ secrets' = [secrets EXCEPT ![s] = Append(@, clock)]
  /\ result' = None
  /\ UNCHANGED <<clocks, env, felt, cache, thread>>

Urgent(t) == IF hook = "python" THEN LookingUp(t) ELSE pc[t] = "store"

Tick ==
  /\ clock < MaxTime
  /\ \A t \in Threads : Urgent(t) => clock < since[t] + MaxQuery
  /\ clock' = clock + 1
  /\ felt' = IF felt > Forgotten THEN felt - 1 ELSE felt
  /\ result' = None
  /\ UNCHANGED <<hook, back, secrets, env, cache, thread>>

\* Somebody sets the wall clock back.
SetBack ==
  /\ hook = "java" /\ back < MaxBack
  /\ back' = back + 1
  /\ result' = None
  /\ UNCHANGED <<hook, clock, secrets, env, felt, cache, thread>>

Next ==
  \/ \E t \in Threads :
       \/ Lookup(t) \/ CacheHit(t) \/ CacheMiss(t)
       \/ AgentAnswers(t) \/ AgentFails(t) \/ Store(t)
       \/ (\E v \in Sources \cup {Plain} : Write(t, v)) \/ Invalidate(t)
  \/ \E s \in Sources : Rotate(s)
  \/ Tick \/ SetBack

Spec == Init /\ [][Next]_vars

-----------------------------------------------------------------------------

Values == [source : Sources, version : Nat \ {0}]

ClocksOK ==
  /\ hook \in {"python", "java"}
  /\ clock \in 0..MaxTime /\ back \in 0..MaxBack
  /\ felt \in Int

EnvOK ==
  /\ secrets \in [Sources -> Seq(Nat)]
  /\ environ \in Sources \cup {Plain}
  /\ leftAt \in [Sources -> Nat]
  /\ writes \in 0..MaxWrites /\ raced \in BOOLEAN

CacheOK == cache \in [value : Values \cup {None}, timestamp : Int] \cup {None}

ThreadsOK ==
  /\ pc \in [Threads -> {"idle", "cache", "query", "store", "invalidate"}]
  /\ since \in [Threads -> Nat]
  /\ real \in [Threads -> Sources]
  /\ value \in [Threads -> Values \cup {None}]

ResultOK == result \in [kind : {"value"}, of : Values] \cup {IsPlain, Missing, None}

TypeOK == ClocksOK /\ EnvOK /\ CacheOK /\ ThreadsOK /\ ResultOK

HasValue == result # None /\ result.kind = "value"

\* The end-to-end staleness of a rotated secret: the agent's, the hook's TTL and the
\* end of a lookup add up, and so does what Java's clock is set back, and that is all
\* (the README says less: "every running instance picks it up within the cache TTL").
FreshEnough ==
  HasValue =>
    NewestAt(result.of.source, result.of.version,
             clock - CacheTTL - MaxQuery - AgentBound - back)

\* A thread may put the secret of a reference into the cache after the variable has
\* been given another one, yet nobody gets it for longer than a lookup and a TTL.
SupersededExpires ==
  HasValue =>
    LET s == result.of.source
    IN  s = environ \/ clock <= leftAt[s] + MaxQuery + CacheTTL

\* "Invalidate cache for this key": what is in the cache belongs to the value the
\* variable has, as long as nobody writes it while a lookup is under way.
CacheIsCurrent ==
  /\ ~ raced /\ \A t \in Threads : pc[t] # "invalidate"
  /\ cache # None /\ cache.value # None
  => cache.value.source = environ

\* A failure is cached like an answer, so a variable is reported missing after the agent
\* is back; but for no longer than a TTL and a lookup after the last failure, and what
\* Java's clock is set back, which makes an entry that had expired valid again.
FailureExpires == result = Missing => felt + back >= 0

=============================================================================
