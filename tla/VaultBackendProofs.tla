------------------------- MODULE VaultBackendProofs -------------------------
(***************************************************************************)
(* Proofs about VaultBackend, for any number of tasks, references and      *)
(* versions and any CacheTTL and MaxFetch, and about the token it sends,   *)
(* TokenRenewal.                                                           *)
(***************************************************************************)
EXTENDS VaultBackend, TokenRenewal, TLAPS

\* The arithmetic of the bound: if c is now, f when Vault answered, e when an
\* entry expires and w when a newer version was written.
LEMMA WithinBound ==
  \A c, e, w, ttl, fetch \in Nat :
    c < e /\ e <= w + ttl + fetch => c <= w + ttl + fetch
OBVIOUS

LEMMA FetchWithinBound ==
  \A c, f, w, ttl, fetch \in Nat :
    c <= f + fetch /\ f + ttl + fetch <= w + ttl + fetch
      => c <= w + ttl + fetch /\ c + ttl <= w + ttl + fetch
OBVIOUS

\* A reference that parses has a path, a key and maybe a version.
LEMMA RefType ==
  ASSUME TypeOK, NEW t \in Tasks, value[t] # None, Ref(t) # None
  PROVE  /\ value[t] \in Texts /\ Ref(t) \in Refs
         /\ Ref(t).path \in Paths /\ Ref(t).key \in Keys
         /\ \A n \in Nat : Secret(Ref(t), n) \in Secrets
<1>1. value[t] \in Asked /\ value[t] \in Texts
  BY VaultBackendAssumption DEF TypeOK
<1>2. Ref(t) \in Refs
  BY <1>1, VaultBackendAssumption DEF Ref
<1>3. QED
  BY <1>1, <1>2 DEF Refs, Secret, Secrets

\* Every version of a path has its date.
LEMMA WriteType ==
  ASSUME TypeOK, NEW p \in Paths, NEW m \in 1..Len(vault[p])
  PROVE  vault[p][m].at \in Nat
<1>1. vault[p] \in Seq(Writes)
  BY DEF TypeOK
<1>2. vault[p][m] \in Writes
  BY <1>1
<1>3. QED
  BY <1>2 DEF Writes

\* The answers a task can return are well formed.
LEMMA AnswerType ==
  ASSUME TypeOK
  PROVE  /\ Err \in Answers
         /\ \A secret \in Secrets : Found(secret) \in Answers /\ NotFound(secret) \in Answers
BY DEF TypeOK, Err, Found, NotFound, Answers

\* Filing a secret changes the entry of a text only to that of one of its keys.
LEMMA FiledIs ==
  ASSUME TypeOK, NEW ref \in Refs, NEW n \in 1..Len(vault[ref.path]), NEW s \in Texts,
         Filed(ref, n)[s] # cache[s]
  PROVE  \E filed \in Refs :
           /\ filed.path = ref.path /\ filed.version = ref.version
           /\ filed.key \in vault[ref.path][n].keys
           /\ CanonicalText[filed] = s
           /\ Filed(ref, n)[s] = [secret |-> Secret(filed, n), expires_at |-> clock + CacheTTL]
<1> DEFINE keys  == vault[ref.path][n].keys
           refs  == Siblings(ref.path, keys, ref.version)
           filed == {r \in refs : CanonicalText[r] = s}
           it    == CHOOSE r \in filed : TRUE
<1>1. Filed(ref, n)[s] = IF filed = {} THEN cache[s]
                         ELSE [secret |-> Secret(it, n), expires_at |-> clock + CacheTTL]
  BY DEF Filed, FiledUnder
<1>2. filed # {} /\ it \in filed
  BY <1>1
<1>3. keys \subseteq Keys
  <2>1. vault[ref.path] \in Seq(Writes)
    BY DEF TypeOK, Refs
  <2>2. vault[ref.path][n] \in Writes
    BY <2>1
  <2>3. QED
    BY <2>2 DEF Writes
<1>4. PICK key \in keys : it = [path |-> ref.path, key |-> key, version |-> ref.version]
  BY <1>2 DEF Siblings
<1>5. /\ it \in Refs /\ it.path = ref.path /\ it.version = ref.version /\ it.key \in keys
      /\ CanonicalText[it] = s
  <2>1. CanonicalText[it] = s
    BY <1>2
  <2>2. it.path = ref.path /\ it.version = ref.version /\ it.key \in keys
    <3> HIDE DEF it, keys, refs, filed
    <3> QED
      BY <1>4
  <2>3. it \in Refs
    <3> HIDE DEF it, keys, refs, filed
    <3>1. ref.path \in Paths /\ ref.version \in Versions \cup {None} /\ key \in Keys
      BY <1>3, <1>4 DEF Refs
    <3> QED
      BY <1>4, <3>1 DEF Refs
  <2>4. QED
    BY <2>1, <2>2, <2>3
<1>6. QED
  BY <1>1, <1>2, <1>5

\* Filing a secret leaves a well-formed cache.
LEMMA FiledType ==
  ASSUME TypeOK, NEW ref \in Refs, NEW n \in 1..Len(vault[ref.path])
  PROVE  Filed(ref, n) \in [Texts -> Entries \cup {None}]
<1>1. ASSUME NEW s \in Texts, Filed(ref, n)[s] # cache[s] PROVE Filed(ref, n)[s] \in Entries
  <2>1. PICK filed \in Refs :
          Filed(ref, n)[s] = [secret |-> Secret(filed, n), expires_at |-> clock + CacheTTL]
    BY <1>1, FiledIs
  <2>2. clock + CacheTTL \in Nat /\ n \in Nat
    BY VaultBackendAssumption DEF TypeOK, Refs
  <2>3. Secret(filed, n) \in Secrets
    BY <2>2 DEF Secret, Secrets, Refs
  <2>4. QED
    BY <2>1, <2>2, <2>3 DEF Entries
<1>2. Filed(ref, n) = [s \in Texts |-> Filed(ref, n)[s]]
  BY DEF Filed, FiledUnder
<1>3. ASSUME NEW s \in Texts PROVE Filed(ref, n)[s] \in Entries \cup {None}
  BY <1>1, <1>3 DEF TypeOK
<1>4. QED
  BY <1>2, <1>3

\* What is filed under a text that means something is filed for that very reference, or
\* for an alias of it.
LEMMA AliasIs ==
  ASSUME NEW s \in Texts, Parse[s] # None, NEW ref \in Refs, CanonicalText[ref] = s
  PROVE  ref \in {Parse[s]} \cup Aliases[s]
BY VaultBackendAssumption DEF Aliases

\* An alias is a reference without a version beside one that has a version.
LEMMA AliasOf ==
  ASSUME NEW s \in Texts, Parse[s] # None, NEW ref \in Aliases[s]
  PROVE  /\ ref \in Refs /\ ref.version = None /\ ~ Pinned(ref)
         /\ ref.path = Parse[s].path /\ Parse[s].version # None
<1>1. ref \in Refs /\ ref.version = None /\ CanonicalText[ref] = s /\ ref # Parse[s]
  BY DEF Aliases
<1>2. ~ Pinned(ref)
  BY <1>1 DEF Pinned
<1>3. QED
  BY <1>1, <1>2, VaultBackendAssumption

\* Versions are only ever appended, dated with the present: what may be served
\* still may, until the same time if that is no later than the bound from now.
LEMMA PutKeeps ==
  ASSUME TypeOK, NEW p \in Paths, NEW keys \in Contents, PutSecret(p, keys),
         NEW ref \in Refs, NEW n, NEW until \in Int,
         MayServe(ref, n, until), until <= clock + CacheTTL + MaxFetch
  PROVE  /\ MayServe(ref, n, until)'
         /\ vault'[ref.path][n].keys = vault[ref.path][n].keys
<1> DEFINE new == [keys |-> keys, at |-> clock]
<1>1. /\ ref.path \in Paths
      /\ vault[ref.path] \in Seq(Writes)
      /\ new \in Writes
  BY VaultBackendAssumption DEF TypeOK, Refs, Writes
<1>2. n \in 1..Len(vault[ref.path])
  BY DEF MayServe
<1>3. CASE p # ref.path
  <2>1. vault'[ref.path] = vault[ref.path]
    BY <1>1, <1>3 DEF PutSecret, TypeOK
  <2>2. QED
    BY <2>1 DEF MayServe
<1>4. CASE p = ref.path
  <2>1. vault'[ref.path] = Append(vault[ref.path], new)
    BY <1>1, <1>4 DEF PutSecret, TypeOK
  <2>2. /\ Len(vault'[ref.path]) = Len(vault[ref.path]) + 1
        /\ \A m \in 1..Len(vault[ref.path]) : vault'[ref.path][m] = vault[ref.path][m]
        /\ vault'[ref.path][Len(vault[ref.path]) + 1] = new
        /\ Len(vault[ref.path]) \in Nat
    BY <1>1, <2>1
  <2>3. ASSUME ~ Pinned(ref), NEW m \in 1..Len(vault'[ref.path]), m > n
        PROVE  until <= vault'[ref.path][m].at + CacheTTL + MaxFetch
    <3>1. CASE m = Len(vault[ref.path]) + 1
      BY <2>2, <3>1
    <3>2. CASE m \in 1..Len(vault[ref.path])
      BY <2>2, <2>3, <3>2 DEF MayServe
    <3>3. QED
      BY <2>2, <3>1, <3>2
  <2>4. /\ n \in 1..Len(vault'[ref.path])
        /\ vault'[ref.path][n].keys = vault[ref.path][n].keys
    BY <1>2, <2>2
  <2>5. CASE Pinned(ref)
    <3>1. n = ref.version
      BY <2>5 DEF MayServe
    <3>2. QED
      BY <2>4, <2>5, <3>1 DEF MayServe, Pinned
  <2>6. CASE ~ Pinned(ref)
    <3>1. MayServe(ref, n, until)'
      BY <2>3, <2>4, <2>6 DEF MayServe, Pinned
    <3>2. QED
      BY <2>4, <3>1
  <2>7. QED
    BY <2>5, <2>6
<1>5. QED
  BY <1>3, <1>4

\* Whatever a task returns is a well-formed answer.
LEMMA ReturnType ==
  ASSUME TypeOK, FetchSound, NEW t \in Tasks
  PROVE  /\ Refuse(t) \/ VaultFails(t) => answer'[t] = Err /\ Err \in Answers
         /\ CacheHit(t) \/ StoreAndReply(t) =>
              /\ answer'[t] \in Answers
              /\ \E secret \in Secrets : answer'[t] \in {Found(secret), NotFound(secret)}
         /\ CacheHit(t) => \E secret \in Secrets : answer'[t] = Found(secret)
<1>1. Refuse(t) \/ VaultFails(t) => answer'[t] = Err /\ Err \in Answers
  BY AnswerType DEF Refuse, VaultFails, Return, TypeOK
<1>2. CacheHit(t) => \E secret \in Secrets : answer'[t] = Found(secret)
  <2>1. SUFFICES ASSUME CacheHit(t) PROVE \E secret \in Secrets : answer'[t] = Found(secret)
    OBVIOUS
  <2>2. value[t] \in Texts /\ cache[value[t]] \in Entries
    BY <2>1, RefType DEF CacheHit, Live, FetchSound, FetchOK, TypeOK
  <2>3. cache[value[t]].secret \in Secrets
    BY <2>2 DEF Entries
  <2>4. answer'[t] = Found(cache[value[t]].secret)
    BY <2>1 DEF CacheHit, Return, TypeOK
  <2>5. QED
    BY <2>3, <2>4
<1>3. StoreAndReply(t) =>
        \E secret \in Secrets : answer'[t] \in {Found(secret), NotFound(secret)}
  <2>1. SUFFICES ASSUME StoreAndReply(t)
                 PROVE  \E secret \in Secrets : answer'[t] \in {Found(secret), NotFound(secret)}
    OBVIOUS
  <2> DEFINE read == Secret(Ref(t), fetched[t].version)
  <2>2. read \in Secrets
    BY <2>1, RefType DEF StoreAndReply, FetchSound, FetchOK, TypeOK, Fetches
  <2>3. answer'[t] \in {Found(read), NotFound(read)}
    BY <2>1 DEF StoreAndReply, Return, TypeOK
  <2> HIDE DEF read
  <2>4. QED
    BY <2>2, <2>3
<1>4. ASSUME NEW secret \in Secrets, answer'[t] \in {Found(secret), NotFound(secret)}
      PROVE  answer'[t] \in Answers
  BY <1>4, AnswerType
<1>5. QED
  BY <1>1, <1>2, <1>3, <1>4

\* The types of the state survive every step.
LEMMA TypeStep == TypeOK /\ CacheSound /\ FetchSound /\ [Next]_vars => TypeOK'
<1> SUFFICES ASSUME TypeOK, CacheSound, FetchSound, [Next]_vars PROVE TypeOK'
  OBVIOUS
<1>1. ASSUME NEW t \in Tasks, NEW s \in Asked, Call(t, s) PROVE TypeOK'
  BY <1>1 DEF Call, TypeOK
<1>2. ASSUME NEW t \in Tasks, Refuse(t) PROVE TypeOK'
  BY <1>2, AnswerType DEF Refuse, Return, TypeOK
<1>3. ASSUME NEW t \in Tasks, CacheHit(t) PROVE TypeOK'
  <2>1. answer'[t] \in Answers
    BY <1>3, ReturnType
  <2>2. QED
    BY <1>3, <2>1 DEF CacheHit, Return, TypeOK
<1>4. ASSUME NEW t \in Tasks, CacheMiss(t) PROVE TypeOK'
  BY <1>4 DEF CacheMiss, TypeOK
<1>5. ASSUME NEW t \in Tasks, VaultReads(t) PROVE TypeOK'
  <2>1. Len(vault[Ref(t).path]) \in Nat
    BY <1>5, RefType DEF VaultReads, FetchSound, FetchOK, TypeOK
  <2>2. [version |-> ReadVersion(Ref(t)), at |-> clock] \in Fetches
    BY <1>5, <2>1 DEF VaultReads, TypeOK, Fetches
  <2>3. QED
    BY <1>5, <2>2 DEF VaultReads, TypeOK
<1>6. ASSUME NEW t \in Tasks, VaultFails(t) PROVE TypeOK'
  BY <1>6, AnswerType DEF VaultFails, Return, TypeOK
<1>7. ASSUME NEW t \in Tasks, StoreAndReply(t) PROVE TypeOK'
  <2>1. fetched[t].version \in 1..Len(vault[Ref(t).path]) /\ Ref(t) \in Refs
    BY <1>7, RefType DEF StoreAndReply, FetchSound, FetchOK, MayServe
  <2>2. answer'[t] \in Answers
    BY <1>7, ReturnType
  <2>3. cache' \in [Texts -> Entries \cup {None}]
    BY <1>7, <2>1, FiledType DEF StoreAndReply
  <2>4. QED
    BY <1>7, <2>2, <2>3 DEF StoreAndReply, Return, TypeOK
<1>8. ASSUME NEW p \in Paths, NEW keys \in Contents, PutSecret(p, keys) PROVE TypeOK'
  <2>1. [keys |-> keys, at |-> clock] \in Writes
    BY VaultBackendAssumption DEF TypeOK, Writes
  <2>2. vault' \in [Paths -> Seq(Writes)]
    <3>1. Append(vault[p], [keys |-> keys, at |-> clock]) \in Seq(Writes)
      BY <2>1 DEF TypeOK
    <3>2. QED
      BY <1>8, <3>1 DEF PutSecret, TypeOK
  <2>3. QED
    BY <1>8, <2>2 DEF PutSecret, TypeOK
<1>9. CASE Tick
  BY <1>9 DEF Tick, TypeOK
<1>10. CASE UNCHANGED vars
  BY <1>10 DEF vars, TypeOK
<1>11. QED
  BY <1>1, <1>2, <1>3, <1>4, <1>5, <1>6, <1>7, <1>8, <1>9, <1>10 DEF Next

\* What is in the cache may be served for as long as it is there.
LEMMA CacheStep == TypeOK /\ CacheSound /\ FetchSound /\ [Next]_vars => CacheSound'
<1> SUFFICES ASSUME TypeOK, CacheSound, FetchSound, [Next]_vars PROVE CacheSound'
  OBVIOUS
<1>1. CASE UNCHANGED <<clock, vault, cache>>
  BY <1>1 DEF CacheSound, FiledFor, MayServe
<1>2. ASSUME NEW t \in Tasks, StoreAndReply(t) PROVE CacheSound'
  <2> DEFINE n == fetched[t].version
  <2>1. /\ Ref(t) \in Refs /\ n \in Nat /\ fetched[t].at \in Nat
        /\ MayServe(Ref(t), n, fetched[t].at + CacheTTL + MaxFetch)
        /\ clock <= fetched[t].at + MaxFetch
    BY <1>2, RefType DEF StoreAndReply, FetchSound, FetchOK, TypeOK, Fetches
  <2>2. /\ cache' = Filed(Ref(t), n) /\ vault' = vault /\ clock' = clock
    BY <1>2 DEF StoreAndReply
  <2>3. SUFFICES ASSUME NEW s \in Texts, cache'[s] # None
                 PROVE  /\ cache'[s].expires_at <= clock + CacheTTL
                        /\ \E ref \in Refs : FiledFor(s, ref)'
    BY <2>2 DEF CacheSound
  <2>4. CASE cache'[s] = cache[s]
    BY <2>2, <2>3, <2>4 DEF CacheSound, FiledFor, MayServe
  <2>5. CASE cache'[s] # cache[s]
    <3>1. n \in 1..Len(vault[Ref(t).path])
      BY <2>1 DEF MayServe
    <3>2. PICK filed \in Refs :
            /\ filed.path = Ref(t).path /\ filed.version = Ref(t).version
            /\ filed.key \in vault[Ref(t).path][n].keys
            /\ CanonicalText[filed] = s
            /\ cache'[s] = [secret |-> Secret(filed, n), expires_at |-> clock + CacheTTL]
      BY <2>1, <2>2, <2>5, <3>1, FiledIs
    <3>3. /\ cache'[s].secret = Secret(filed, n) /\ cache'[s].secret.version = n
          /\ cache'[s].expires_at = clock + CacheTTL
      BY <3>2 DEF Secret
    <3>4. MayServe(filed, n, clock + CacheTTL)
      <4>1. CASE Pinned(Ref(t))
        BY <2>1, <3>1, <3>2, <4>1 DEF MayServe, Pinned
      <4>2. CASE ~ Pinned(Ref(t))
        <5>1. ASSUME NEW m \in 1..Len(vault[Ref(t).path]), m > n
              PROVE  clock + CacheTTL <= vault[Ref(t).path][m].at + CacheTTL + MaxFetch
          <6>1. vault[Ref(t).path][m].at \in Nat
            BY <2>1, WriteType DEF Refs
          <6>2. fetched[t].at + CacheTTL + MaxFetch
                  <= vault[Ref(t).path][m].at + CacheTTL + MaxFetch
            BY <2>1, <4>2, <5>1 DEF MayServe
          <6>3. QED
            <7>1. CacheTTL \in Nat /\ MaxFetch \in Nat /\ clock \in Nat
              BY VaultBackendAssumption DEF TypeOK
            <7>2. fetched[t].at \in Nat /\ clock <= fetched[t].at + MaxFetch
              BY <2>1
            <7>3. QED
              BY <6>1, <6>2, <7>1, <7>2, FetchWithinBound
        <5>2. QED
          BY <3>1, <3>2, <4>2, <5>1 DEF MayServe, Pinned
      <4>3. QED
        BY <4>1, <4>2
    <3>5. clock + CacheTTL <= clock + CacheTTL
      BY VaultBackendAssumption DEF TypeOK
    <3>6. FiledFor(s, filed)'
      BY <2>2, <3>2, <3>3, <3>4 DEF FiledFor, MayServe
    <3>7. QED
      BY <3>3, <3>5, <3>6
  <2>6. QED
    BY <2>4, <2>5
<1>3. ASSUME NEW p \in Paths, NEW keys \in Contents, PutSecret(p, keys) PROVE CacheSound'
  <2>1. cache' = cache /\ clock' = clock
    BY <1>3 DEF PutSecret
  <2>2. SUFFICES ASSUME NEW s \in Texts, cache[s] # None, NEW ref \in Refs, FiledFor(s, ref)
                 PROVE  FiledFor(s, ref)'
    BY <2>1 DEF CacheSound
  <2>3. /\ cache[s].expires_at \in Int
        /\ MayServe(ref, cache[s].secret.version, cache[s].expires_at)
        /\ cache[s].expires_at <= clock + CacheTTL + MaxFetch
    BY <2>2, VaultBackendAssumption DEF CacheSound, FiledFor, TypeOK, Entries
  <2>4. /\ MayServe(ref, cache[s].secret.version, cache[s].expires_at)'
        /\ vault'[ref.path][cache[s].secret.version].keys
             = vault[ref.path][cache[s].secret.version].keys
    BY <1>3, <2>1, <2>3, PutKeeps DEF MayServe
  <2>5. QED
    BY <2>1, <2>2, <2>4 DEF FiledFor
<1>4. CASE Tick
  <2>1. /\ UNCHANGED <<vault, cache>> /\ clock' = clock + 1
    BY <1>4 DEF Tick
  <2>2. ASSUME NEW s \in Texts, cache[s] # None PROVE cache[s].expires_at <= clock + 1 + CacheTTL
    BY <2>2, VaultBackendAssumption DEF CacheSound, TypeOK, Entries
  <2>3. QED
    BY <2>1, <2>2 DEF CacheSound, FiledFor, MayServe
<1>5. QED
  BY <1>1, <1>2, <1>3, <1>4
     DEF Next, Call, Refuse, CacheHit, CacheMiss, VaultReads, VaultFails, vars

\* What Vault has answered with may be served for CacheTTL + MaxFetch from then.
LEMMA FetchStep == TypeOK /\ CacheSound /\ FetchSound /\ [Next]_vars => FetchSound'
<1> SUFFICES ASSUME TypeOK, CacheSound, FetchSound, [Next]_vars, NEW u \in Tasks
             PROVE  FetchOK(u)'
  BY DEF FetchSound
<1>u. FetchOK(u)
  BY DEF FetchSound
<1>1. CASE UNCHANGED <<clock, vault, pc[u], value[u], fetched[u], answer[u]>>
  BY <1>u, <1>1 DEF FetchOK, MayServe, Ref
<1>2. ASSUME NEW t \in Tasks, NEW s \in Asked, Call(t, s) PROVE FetchOK(u)'
  <2>1. CASE t = u
    BY <1>2, <2>1, VaultBackendAssumption DEF Call, FetchOK, TypeOK
  <2>2. CASE t # u
    BY <1>1, <1>2, <2>2 DEF Call, TypeOK
  <2>3. QED
    BY <2>1, <2>2
<1>3. ASSUME NEW t \in Tasks, CacheMiss(t) PROVE FetchOK(u)'
  <2>1. CASE t = u
    BY <1>u, <1>3, <2>1 DEF CacheMiss, FetchOK, Ref, TypeOK
  <2>2. CASE t # u
    BY <1>1, <1>3, <2>2 DEF CacheMiss, TypeOK
  <2>3. QED
    BY <2>1, <2>2
<1>4. ASSUME NEW t \in Tasks, VaultReads(t) PROVE FetchOK(u)'
  <2>1. CASE t = u
    <3>1. Ref(u) # None /\ value[u] # None /\ answer[u] = None
      BY <1>u, <1>4, <2>1 DEF VaultReads, FetchOK
    <3>2. /\ pc'[u] = "store" /\ fetched'[u] = [version |-> ReadVersion(Ref(u)), at |-> clock]
          /\ Ref(u)' = Ref(u) /\ UNCHANGED <<clock, vault, value, answer>>
      BY <1>4, <2>1 DEF VaultReads, TypeOK, Ref
    <3>3. clock <= clock /\ clock <= clock + MaxFetch
      BY VaultBackendAssumption DEF TypeOK
    <3>4. /\ MayServe(Ref(u), ReadVersion(Ref(u)), clock + CacheTTL + MaxFetch)
          /\ ReadVersion(Ref(u)) \in Nat
      <4>1. ReadVersion(Ref(u)) \in 1..Len(vault[Ref(u).path])
        BY <1>4, <2>1 DEF VaultReads
      <4>2. Len(vault[Ref(u).path]) \in Nat
        BY <3>1, RefType DEF TypeOK
      <4>3. QED
        BY <4>1, <4>2 DEF MayServe, ReadVersion
    <3>5. fetched'[u] \in Fetches
      BY <3>2, <3>4 DEF TypeOK, Fetches
    <3>6. QED
      BY <3>1, <3>2, <3>3, <3>4, <3>5 DEF FetchOK, MayServe
  <2>2. CASE t # u
    BY <1>1, <1>4, <2>2 DEF VaultReads, TypeOK
  <2>3. QED
    BY <2>1, <2>2
<1>5. ASSUME NEW t \in Tasks, Refuse(t) \/ CacheHit(t) \/ VaultFails(t) \/ StoreAndReply(t)
      PROVE  FetchOK(u)'
  <2>1. CASE t = u
    <3>1. pc'[u] = "idle"
      BY <1>5, <2>1 DEF Refuse, CacheHit, VaultFails, StoreAndReply, Return, TypeOK
    <3>2. answer'[u] # None
      BY <1>5, <2>1, ReturnType, VaultBackendAssumption
    <3>3. value'[u] # None
      BY <1>u, <1>5, <2>1
         DEF Refuse, CacheHit, VaultFails, StoreAndReply, FetchOK
    <3>4. QED
      BY <3>1, <3>2, <3>3 DEF FetchOK
  <2>2. CASE t # u
    BY <1>1, <1>5, <2>2
       DEF Refuse, CacheHit, VaultFails, StoreAndReply, Return, TypeOK
  <2>3. QED
    BY <2>1, <2>2
<1>6. ASSUME NEW p \in Paths, NEW keys \in Contents, PutSecret(p, keys) PROVE FetchOK(u)'
  <2>1. CASE pc[u] = "store"
    <3>1. /\ Ref(u) \in Refs /\ Ref(u) # None /\ fetched[u].at \in Nat
          /\ MayServe(Ref(u), fetched[u].version, fetched[u].at + CacheTTL + MaxFetch)
          /\ fetched[u].at <= clock
      BY <1>u, <2>1, RefType DEF FetchOK, TypeOK, Fetches
    <3>2. /\ fetched[u].at + CacheTTL + MaxFetch \in Int
          /\ fetched[u].at + CacheTTL + MaxFetch <= clock + CacheTTL + MaxFetch
      BY <3>1, VaultBackendAssumption DEF TypeOK
    <3>3. MayServe(Ref(u), fetched[u].version, fetched[u].at + CacheTTL + MaxFetch)'
      BY <1>6, <3>1, <3>2, PutKeeps DEF PutSecret, MayServe, Ref
    <3>4. QED
      BY <1>u, <1>6, <3>3 DEF PutSecret, FetchOK, Ref
  <2>2. CASE pc[u] # "store"
    BY <1>u, <1>6, <2>2 DEF PutSecret, FetchOK, Ref
  <2>3. QED
    BY <2>1, <2>2
<1>7. CASE Tick
  <2>1. pc[u] = "store" => clock + 1 <= fetched[u].at + MaxFetch /\ fetched[u].at <= clock + 1
    BY <1>u, <1>7, VaultBackendAssumption DEF Tick, FetchOK, TypeOK, Fetches
  <2>2. QED
    BY <1>u, <1>7, <2>1 DEF Tick, FetchOK, MayServe, Ref
<1>8. QED
  BY <1>1, <1>2, <1>3, <1>4, <1>5, <1>6, <1>7 DEF Next, vars

\* What has been answered could be served when it was.
LEMMA AnswerStep ==
  TypeOK /\ CacheSound /\ FetchSound /\ AnswerSound /\ [Next]_vars => AnswerSound'
<1> SUFFICES ASSUME TypeOK, CacheSound, FetchSound, AnswerSound, [Next]_vars, NEW u \in Tasks
             PROVE  AnswerOK(u)'
  BY DEF AnswerSound
<1>u. AnswerOK(u) /\ FetchOK(u)
  BY DEF AnswerSound, FetchSound
<1>1. CASE UNCHANGED <<clock, vault, value[u], answer[u]>>
  BY <1>u, <1>1 DEF AnswerOK, AnswerFor, Answered, MayServe, Ref
<1>2. CASE answer'[u] = None \/ answer'[u].kind = "error"
  BY <1>2 DEF AnswerOK, Answered
<1>3. ASSUME NEW t \in Tasks, NEW s \in Asked, Call(t, s) PROVE AnswerOK(u)'
  BY <1>1, <1>2, <1>3 DEF Call, TypeOK
<1>4. ASSUME NEW t \in Tasks, Refuse(t) \/ VaultFails(t) PROVE AnswerOK(u)'
  BY <1>1, <1>2, <1>4 DEF Refuse, VaultFails, Return, Err, TypeOK
<1>5. ASSUME NEW t \in Tasks, CacheMiss(t) \/ VaultReads(t) PROVE AnswerOK(u)'
  BY <1>1, <1>5 DEF CacheMiss, VaultReads
<1>6. ASSUME NEW t \in Tasks, CacheHit(t) PROVE AnswerOK(u)'
  <2>1. CASE t = u
    <3> DEFINE entry == cache[value[u]]
    <3>1. /\ value[u] # None /\ Ref(u) # None /\ entry # None
          /\ entry.expires_at > clock
      BY <1>u, <1>6, <2>1 DEF CacheHit, Live, FetchOK
    <3>2. /\ value[u] \in Texts /\ entry \in Entries /\ Ref(u) \in Refs
      BY <3>1, RefType DEF TypeOK
    <3>3. PICK ref \in Refs : FiledFor(value[u], ref)
      BY <3>1, <3>2 DEF CacheSound
    <3>4. ref \in {Ref(u)} \cup Aliases[value[u]]
      BY <3>1, <3>2, <3>3, AliasIs DEF FiledFor, Ref
    <3>5. MayServe(ref, entry.secret.version, clock)
      <4>1. ASSUME NEW m \in 1..Len(vault[ref.path]),
                   entry.expires_at <= vault[ref.path][m].at + CacheTTL + MaxFetch
            PROVE  clock <= vault[ref.path][m].at + CacheTTL + MaxFetch
        <5>1. vault[ref.path][m].at \in Nat
          BY WriteType DEF Refs
        <5>2. clock \in Nat /\ entry.expires_at \in Nat
          BY <3>2 DEF TypeOK, Entries
        <5>3. QED
          BY <3>1, <4>1, <5>1, <5>2, WithinBound, VaultBackendAssumption
      <4>2. QED
        BY <3>3, <4>1 DEF FiledFor, MayServe
    <3>6. /\ answer'[u] = [kind |-> "found", secret |-> entry.secret, at |-> clock]
          /\ Ref(u)' = Ref(u) /\ UNCHANGED <<clock, vault, value>>
      BY <1>6, <2>1 DEF CacheHit, Return, Found, TypeOK, Ref
    <3>7. /\ answer'[u].kind = "found" /\ answer'[u].secret = entry.secret
          /\ answer'[u].at = clock
      BY <3>6
    <3>8. AnswerFor(u, ref)'
      BY <3>3, <3>5, <3>6, <3>7 DEF AnswerFor, FiledFor, MayServe
    <3>9. clock' = clock /\ clock <= clock
      BY <3>6 DEF TypeOK
    <3>10. QED
      BY <3>1, <3>4, <3>6, <3>7, <3>8, <3>9 DEF AnswerOK
  <2>2. CASE t # u
    BY <1>1, <1>6, <2>2 DEF CacheHit, Return, TypeOK
  <2>3. QED
    BY <2>1, <2>2
<1>7. ASSUME NEW t \in Tasks, StoreAndReply(t) PROVE AnswerOK(u)'
  <2>1. CASE t = u
    <3> DEFINE n == fetched[u].version
               has == Ref(u).key \in vault[Ref(u).path][n].keys
    <3>1. /\ value[u] # None /\ Ref(u) # None /\ Ref(u) \in Refs
          /\ MayServe(Ref(u), n, fetched[u].at + CacheTTL + MaxFetch)
          /\ clock <= fetched[u].at + MaxFetch /\ fetched[u].at \in Nat
      BY <1>u, <1>7, <2>1, RefType DEF StoreAndReply, FetchOK, TypeOK, Fetches
    <3>2. MayServe(Ref(u), n, clock)
      <4>1. ASSUME NEW m \in 1..Len(vault[Ref(u).path]),
                   fetched[u].at + CacheTTL + MaxFetch
                     <= vault[Ref(u).path][m].at + CacheTTL + MaxFetch
            PROVE  clock <= vault[Ref(u).path][m].at + CacheTTL + MaxFetch
        <5>1. vault[Ref(u).path][m].at \in Nat /\ clock \in Nat
          BY <3>1, WriteType DEF Refs, TypeOK
        <5>2. CacheTTL \in Nat /\ MaxFetch \in Nat
          BY VaultBackendAssumption
        <5>3. fetched[u].at \in Nat /\ clock <= fetched[u].at + MaxFetch
          BY <3>1
        <5>4. QED
          BY <4>1, <5>1, <5>2, <5>3, FetchWithinBound
      <4>2. QED
        BY <3>1, <4>1 DEF MayServe
    <3>3. /\ Ref(u)' = Ref(u) /\ UNCHANGED <<clock, vault, value>>
          /\ answer'[u] = IF has THEN Found(Secret(Ref(u), n)) ELSE NotFound(Secret(Ref(u), n))
      BY <1>7, <2>1 DEF StoreAndReply, Return, TypeOK, Ref
    <3>4. /\ answer'[u].secret = Secret(Ref(u), n) /\ answer'[u].secret.version = n
          /\ answer'[u].kind = "found" <=> has
          /\ answer'[u].at = clock
      BY <3>3 DEF Found, NotFound, Secret
    <3>5. clock <= clock
      BY DEF TypeOK
    <3>6. AnswerFor(u, Ref(u))'
      BY <3>2, <3>3, <3>4 DEF AnswerFor, MayServe
    <3>7. QED
      BY <3>1, <3>3, <3>4, <3>5, <3>6 DEF AnswerOK
  <2>2. CASE t # u
    BY <1>1, <1>7, <2>2 DEF StoreAndReply, Return, TypeOK
  <2>3. QED
    BY <2>1, <2>2
<1>8. ASSUME NEW p \in Paths, NEW keys \in Contents, PutSecret(p, keys) PROVE AnswerOK(u)'
  <2>1. UNCHANGED <<clock, value, answer>> /\ Ref(u)' = Ref(u)
    BY <1>8 DEF PutSecret, Ref
  <2>2. SUFFICES ASSUME Answered(u) PROVE AnswerOK(u)'
    BY <2>1 DEF AnswerOK, Answered
  <2>3. PICK ref \in {Ref(u)} \cup Aliases[value[u]] : AnswerFor(u, ref)
    BY <1>u, <2>2 DEF AnswerOK
  <2>4. /\ ref \in Refs
        /\ MayServe(ref, answer[u].secret.version, answer[u].at)
        /\ answer[u].at <= clock /\ answer[u].at \in Nat
    BY <1>u, <2>2, <2>3, RefType, AliasOf
    DEF AnswerOK, AnswerFor, Answered, TypeOK, Answers, Ref
  <2>5. answer[u].at \in Int /\ answer[u].at <= clock + CacheTTL + MaxFetch
    BY <2>4, VaultBackendAssumption DEF TypeOK
  <2>6. /\ MayServe(ref, answer[u].secret.version, answer[u].at)'
        /\ vault'[ref.path][answer[u].secret.version].keys
             = vault[ref.path][answer[u].secret.version].keys
    BY <1>8, <2>1, <2>4, <2>5, PutKeeps DEF MayServe
  <2>7. AnswerFor(u, ref)'
    BY <2>1, <2>3, <2>6 DEF AnswerFor
  <2>8. QED
    BY <1>u, <2>1, <2>2, <2>3, <2>7 DEF AnswerOK, Answered
<1>9. CASE Tick
  <2>1. Answered(u) => answer[u].at <= clock + 1
    BY <1>u DEF AnswerOK, Answered, TypeOK, Answers
  <2>2. QED
    BY <1>u, <1>9, <2>1 DEF Tick, AnswerOK, AnswerFor, Answered, MayServe, Ref
<1>10. QED
  BY <1>1, <1>3, <1>4, <1>5, <1>6, <1>7, <1>8, <1>9 DEF Next, vars

\* The inductive invariant: what is cached, under way or answered may be served, as what
\* it was read for, whatever the keys of a secret are called.
THEOREM Invariance == Spec => []IInv
<1>1. Init => IInv
  BY VaultBackendAssumption
     DEF Init, IInv, TypeOK, CacheSound, FetchSound, FetchOK, AnswerSound, AnswerOK, Answered
<1>2. IInv /\ [Next]_vars => IInv'
  BY TypeStep, CacheStep, FetchStep, AnswerStep DEF IInv
<1>3. QED
  BY <1>1, <1>2, PTL DEF Spec

\* The state is well typed.
THEOREM TypeCorrect == Spec => []TypeOK
<1>1. IInv => TypeOK
  BY DEF IInv
<1>2. QED
  BY <1>1, Invariance, PTL

\* What an answer may be of besides what was asked for: a reference without a version,
\* of the same path, in the place of one with a version.
LEMMA AnswerIsOf ==
  ASSUME IInv, NEW t \in Tasks, Answered(t), NEW ref \in {Ref(t)} \cup Aliases[value[t]]
  PROVE  /\ ref \in Refs /\ ref.path = Ref(t).path
         /\ ref # Ref(t) => Ref(t).version # None
         /\ ~ Pinned(Ref(t)) => ~ Pinned(ref)
<1>1. value[t] # None /\ Ref(t) # None
  BY DEF IInv, AnswerSound, AnswerOK
<1>2. value[t] \in Texts /\ Ref(t) \in Refs /\ Ref(t) = Parse[value[t]]
  BY <1>1, RefType DEF IInv, Ref
<1>3. QED
  BY <1>1, <1>2, AliasOf

\* No secret is handed out later than CacheTTL + MaxFetch after it was rotated.
THEOREM Freshness == Spec => []FreshEnough
<1>1. ASSUME IInv, NEW t \in Tasks, Answered(t), ~ Pinned(Ref(t)),
             NEW m \in 1..Len(vault[Ref(t).path]), m > answer[t].secret.version
      PROVE  answer[t].at <= vault[Ref(t).path][m].at + CacheTTL + MaxFetch
  <2>1. PICK ref \in {Ref(t)} \cup Aliases[value[t]] : AnswerFor(t, ref)
    BY <1>1 DEF IInv, AnswerSound, AnswerOK
  <2>2. ref.path = Ref(t).path /\ ~ Pinned(ref)
    BY <1>1, <2>1, AnswerIsOf
  <2>3. QED
    BY <1>1, <2>1, <2>2 DEF AnswerFor, MayServe
<1>2. IInv => FreshEnough
  BY <1>1 DEF FreshEnough
<1>3. QED
  BY <1>2, Invariance, PTL

\* Every answer is of the path asked for and of a version that exists, says truly whether
\* the key is there, and is of the key asked for, but for a reference with a version whose
\* text is that of a key of the secret.
THEOREM Correctness == Spec => []RightSecret
<1>1. ASSUME IInv, NEW t \in Tasks, Answered(t)
      PROVE  LET secret == answer[t].secret
                 has    == secret.key \in vault[secret.path][secret.version].keys
             IN  /\ secret.path = Ref(t).path
                 /\ secret.version \in 1..Len(vault[secret.path])
                 /\ answer[t].kind = "found" <=> has
                 /\ \/ secret.key = Ref(t).key
                    \/ /\ has /\ Ref(t).version # None
                       /\ \E alias \in Aliases[value[t]] : secret.key = alias.key
  <2>1. PICK ref \in {Ref(t)} \cup Aliases[value[t]] : AnswerFor(t, ref)
    BY <1>1 DEF IInv, AnswerSound, AnswerOK
  <2>2. ref.path = Ref(t).path /\ (ref # Ref(t) => Ref(t).version # None)
    BY <1>1, <2>1, AnswerIsOf
  <2>3. answer[t].secret.path = ref.path /\ answer[t].secret.key = ref.key
    BY <2>1 DEF AnswerFor, Secret
  <2>4. CASE ref = Ref(t)
    BY <2>1, <2>3, <2>4 DEF AnswerFor, MayServe
  <2>5. CASE ref # Ref(t)
    BY <2>1, <2>2, <2>3, <2>5 DEF AnswerFor, MayServe
  <2>6. QED
    BY <2>4, <2>5
<1>2. IInv => RightSecret
  BY <1>1 DEF RightSecret
<1>3. QED
  BY <1>2, Invariance, PTL

\* A pinned version is never replaced by another one, or by another key, unless the
\* secret has had a key that reads like the pinned reference.
THEOREM Pinning == Spec => []PinnedExact
<1>1. ASSUME IInv, NEW t \in Tasks, Answered(t), Pinned(Ref(t)), ~ Taken(t)
      PROVE  answer[t].secret = Secret(Ref(t), Ref(t).version)
  <2>1. PICK ref \in {Ref(t)} \cup Aliases[value[t]] : AnswerFor(t, ref)
    BY <1>1 DEF IInv, AnswerSound, AnswerOK
  <2>2. ref.path = Ref(t).path
    BY <1>1, <2>1, AnswerIsOf
  <2>3. ref = Ref(t)
    BY <1>1, <2>1, <2>2 DEF AnswerFor, MayServe, Taken
  <2>4. QED
    BY <1>1, <2>1, <2>3 DEF AnswerFor, MayServe
<1>2. IInv => PinnedExact
  BY <1>1 DEF PinnedExact
<1>3. QED
  BY <1>2, Invariance, PTL

-----------------------------------------------------------------------------
(* The backend implements BoundedStaleness. *)

\* A task that returns a secret gives an answer that the specification allows.
LEMMA AnswerImplemented ==
  ASSUME IInv, IInv', NEW t \in Tasks, Ref(t) # None, pc[t] # "idle",
         NEW secret \in Secrets, NEW result \in {Found(secret), NotFound(secret)},
         answer' = [answer EXCEPT ![t] = result], UNCHANGED <<clock, vault, value>>
  PROVE  Abstract!Answer(t)
<1> DEFINE n == secret.version
<1>1. value[t] # None /\ answer[t] = None /\ value[t] \in Texts /\ Ref(t) \in Refs
  BY RefType DEF IInv, FetchSound, FetchOK
<1>2. /\ result = [kind |-> result.kind, secret |-> secret, at |-> clock]
      /\ result.secret = secret /\ result.at = clock
      /\ result.kind \in {"found", "not_found"} /\ result \in Answers
  <2>1. CASE result = Found(secret)
    BY <2>1, AnswerType DEF Found, IInv
  <2>2. CASE result = NotFound(secret)
    BY <2>2, AnswerType DEF NotFound, IInv
  <2>3. QED
    BY <2>1, <2>2
<1>3. answer'[t] = result /\ Answered(t)' /\ value'[t] = value[t] /\ Ref(t)' = Ref(t)
  BY <1>2, VaultBackendAssumption DEF Answered, IInv, TypeOK, Ref
<1>4. PICK ref \in {Ref(t)} \cup Aliases[value[t]] : AnswerFor(t, ref)'
  BY <1>3 DEF IInv, AnswerSound, AnswerOK
<1>5. ref \in Refs
  BY <1>1, <1>4, AliasOf DEF Ref
<1>6. /\ secret = Secret(ref, n)
      /\ MayServe(ref, n, clock)
      /\ result.kind = "found" <=> ref.key \in vault[ref.path][n].keys
      /\ ref = Ref(t) \/ result.kind = "found"
  BY <1>2, <1>3, <1>4 DEF AnswerFor, MayServe
<1>7. ASSUME ~ Pinned(ref) PROVE Abstract!NewestAt(ref.path, n, clock - (CacheTTL + MaxFetch))
  <2>1. SUFFICES ASSUME NEW m \in (n + 1)..Len(vault[ref.path])
                 PROVE  vault[ref.path][m].at >= clock - (CacheTTL + MaxFetch)
    BY DEF Abstract!NewestAt
  <2>2. n \in 1..Len(vault[ref.path]) /\ Len(vault[ref.path]) \in Nat
    BY <1>5, <1>6 DEF MayServe, IInv, TypeOK, Refs
  <2>3. m \in 1..Len(vault[ref.path]) /\ m > n
    BY <2>1, <2>2
  <2>4. clock <= vault[ref.path][m].at + CacheTTL + MaxFetch
    BY <1>6, <1>7, <2>3 DEF MayServe
  <2>5. vault[ref.path][m].at \in Nat /\ clock \in Nat
    BY <1>5, <2>3, WriteType DEF IInv, TypeOK, Refs
  <2>6. QED
    BY <2>4, <2>5, VaultBackendAssumption
<1>8. n \in 1..Len(vault[ref.path])
      /\ IF Abstract!Pinned(ref) THEN n = ref.version
         ELSE Abstract!NewestAt(ref.path, n, clock - (CacheTTL + MaxFetch))
  BY <1>6, <1>7 DEF MayServe, Pinned, Abstract!Pinned
<1>9. result = [kind |-> IF ref.key \in vault[ref.path][n].keys THEN "found" ELSE "not_found",
                secret |-> [path |-> ref.path, key |-> ref.key, version |-> n],
                at |-> clock]
  <2>1. secret = [path |-> ref.path, key |-> ref.key, version |-> n]
    BY <1>6 DEF Secret
  <2>2. result.kind = IF ref.key \in vault[ref.path][n].keys THEN "found" ELSE "not_found"
    BY <1>2, <1>6
  <2>3. QED
    BY <1>2, <2>1, <2>2
<1>10. ref.key \in vault[ref.path][n].keys \/ ref = Parse[value[t]]
  BY <1>6 DEF Ref
<1>11. ref \in {Parse[value[t]]} \cup Aliases[value[t]] /\ Parse[value[t]] # None
  BY <1>4 DEF Ref
<1>12. answer' = [answer EXCEPT ![t] =
         [kind |-> IF ref.key \in vault[ref.path][n].keys THEN "found" ELSE "not_found",
          secret |-> [path |-> ref.path, key |-> ref.key, version |-> n],
          at |-> clock]]
  BY <1>9
<1> HIDE DEF n
<1>13. QED
  BY <1>1, <1>8, <1>10, <1>11, <1>12 DEF Abstract!Answer, Abstract!Pending

\* Every step of the backend is a step of the specification, or changes nothing in it.
LEMMA StepImplemented ==
  ASSUME IInv, IInv', [Next]_vars PROVE [Abstract!Next]_(Abstract!vars)
<1> USE DEF Abstract!Next, Abstract!vars
<1>1. ASSUME NEW t \in Tasks, NEW s \in Asked, Call(t, s) PROVE Abstract!Next
  <2>1. Abstract!Ask(t, s)
    BY <1>1 DEF Call, Abstract!Ask, Abstract!Pending, IInv, FetchSound, FetchOK
  <2>2. QED
    BY <2>1
<1>2. ASSUME NEW t \in Tasks, Refuse(t) \/ VaultFails(t) PROVE Abstract!Next
  <2>1. Abstract!Fail(t)
    BY <1>2 DEF Refuse, VaultFails, Return, Err, Abstract!Fail, Abstract!Pending,
                IInv, FetchSound, FetchOK
  <2>2. QED
    BY <2>1
<1>3. ASSUME NEW t \in Tasks, CacheHit(t) PROVE Abstract!Next
  <2>1. PICK secret \in Secrets : answer'[t] = Found(secret)
    BY <1>3, ReturnType DEF IInv
  <2>2. answer' = [answer EXCEPT ![t] = Found(secret)]
    BY <1>3, <2>1 DEF CacheHit, Return, IInv, TypeOK
  <2>3. Abstract!Answer(t)
    BY <1>3, <2>2, AnswerImplemented DEF CacheHit
  <2>4. QED
    BY <2>3
<1>4. ASSUME NEW t \in Tasks, CacheMiss(t) \/ VaultReads(t)
      PROVE  UNCHANGED <<clock, vault, value, answer>>
  BY <1>4 DEF CacheMiss, VaultReads
<1>5. ASSUME NEW t \in Tasks, StoreAndReply(t) PROVE Abstract!Next
  <2>1. Ref(t) # None /\ pc[t] # "idle"
    BY <1>5 DEF StoreAndReply, IInv, FetchSound, FetchOK
  <2>2. PICK secret \in Secrets : answer'[t] \in {Found(secret), NotFound(secret)}
    BY <1>5, ReturnType DEF IInv
  <2>3. answer' = [answer EXCEPT ![t] = answer'[t]] /\ UNCHANGED <<clock, vault, value>>
    BY <1>5 DEF StoreAndReply, Return, IInv, TypeOK
  <2>4. Abstract!Answer(t)
    BY <2>1, <2>2, <2>3, AnswerImplemented
  <2>5. QED
    BY <2>4
<1>6. ASSUME NEW p \in Paths, NEW keys \in Contents, PutSecret(p, keys) PROVE Abstract!Next
  <2>1. Abstract!PutSecret(p, keys)
    BY <1>6 DEF PutSecret, Abstract!PutSecret
  <2>2. QED
    BY <2>1
<1>7. CASE Tick
  BY <1>7 DEF Tick, Abstract!Tick
<1>8. CASE UNCHANGED vars
  BY <1>8 DEF vars
<1>9. QED
  BY <1>1, <1>2, <1>3, <1>4, <1>5, <1>6, <1>7, <1>8 DEF Next

\* Whoever asks the backend cannot tell it from a store that answers with a version
\* that was the newest one within the last CacheTTL + MaxFetch, or the one pinned, of
\* the key asked for or of one that reads like it and its version.
THEOREM Implementation == Spec => ImplementsBoundedStaleness
<1>1. Init => Abstract!Init
  BY DEF Init, Abstract!Init
<1>2. QED
  BY <1>1, StepImplemented, Invariance, PTL
     DEF Spec, ImplementsBoundedStaleness, Abstract!Spec

-----------------------------------------------------------------------------
(* The token (TokenRenewal): the renewal loop keeps it valid as long as Vault *)
(* is reliable, whatever the lease, the latency and the interval, given that  *)
(* the lease is longer than an interval and two calls.  IInv is inductive and *)
(* implies it.                                                                *)

LEMMA IntervalIsNat == Interval \in Nat
BY TokenRenewalAssumption DEF Interval

LEMMA TokenInitially == TokenInit => TokenIInv
BY TokenRenewalAssumption DEF TokenInit, TokenIInv, TokenTypeOK, InTime, Running

LEMMA TokenTypeStep == TokenTypeOK /\ [TokenNext]_token => TokenTypeOK'
<1>1. SUFFICES ASSUME TokenTypeOK, [TokenNext]_token PROVE TokenTypeOK'
  OBVIOUS
<1>2. Interval \in Nat
  BY IntervalIsNat
<1> USE <1>1, <1>2, TokenRenewalAssumption DEF TokenTypeOK, Running
<1>a. CASE LoginGranted
  BY <1>a DEF LoginGranted
<1>b. CASE LoginFails
  BY <1>b DEF LoginFails
<1>c. CASE LoginDone
  BY <1>c DEF LoginDone
<1>d. CASE Wake
  BY <1>d DEF Wake
<1>e. CASE RenewGranted
  BY <1>e DEF RenewGranted, Valid, Cap
<1>f. CASE RenewRefused
  BY <1>f DEF RenewRefused
<1>g. CASE RenewDone
  BY <1>g DEF RenewDone
<1>h. CASE RenewLost
  BY <1>h DEF RenewLost
<1>i. CASE Elapse
  BY <1>i DEF Elapse
<1>j. CASE UNCHANGED token
  BY <1>j DEF token
<1> QED
  BY <1>a, <1>b, <1>c, <1>d, <1>e, <1>f, <1>g, <1>h, <1>i, <1>j DEF TokenNext

\* Type correctness: in particular the loop never runs without a token.
THEOREM TokenTypeCorrect == TokenSpec => []TokenTypeOK
<1>1. TokenInit => TokenTypeOK
  BY TokenInitially DEF TokenIInv
<1> QED
  BY <1>1, TokenTypeStep, PTL DEF TokenSpec

LEMMA TokenInTimeStep == TokenIInv /\ [TokenNext]_token => InTime'
<1>1. SUFFICES ASSUME TokenIInv, [TokenNext]_token PROVE InTime'
  OBVIOUS
<1>2. Interval \in Nat
  BY IntervalIsNat
<1>3. TokenTypeOK'
  BY <1>1, TokenTypeStep DEF TokenIInv
<1> USE <1>1, <1>2, <1>3, TokenRenewalAssumption
    DEF TokenIInv, TokenTypeOK, Running, InTime, Reliable, ValidFrom, Cap
<1>a. CASE LoginGranted
  BY <1>a DEF LoginGranted
<1>b. CASE LoginFails
  BY <1>b DEF LoginFails
<1>c. CASE LoginDone
  BY <1>c DEF LoginDone
<1>d. CASE Wake
  BY <1>d DEF Wake
<1>e. CASE RenewGranted
  BY <1>e DEF RenewGranted, Valid
<1>f. CASE RenewRefused
  BY <1>f DEF RenewRefused, Valid
<1>g. CASE RenewDone
  BY <1>g DEF RenewDone
<1>h. CASE RenewLost
  BY <1>h DEF RenewLost
<1>i. CASE Elapse
  BY <1>i DEF Elapse
<1>j. CASE UNCHANGED token
  BY <1>j DEF token
<1> QED
  BY <1>a, <1>b, <1>c, <1>d, <1>e, <1>f, <1>g, <1>h, <1>i, <1>j DEF TokenNext

LEMMA TokenValid == TokenIInv => ValidWhileReliable
BY IntervalIsNat, TokenRenewalAssumption
   DEF TokenIInv, TokenTypeOK, InTime, Reliable, ValidFrom, Cap, Valid, Running,
       ValidWhileReliable

\* The agent's token is valid whenever the loop runs, no renewal has been lost and
\* Vault still renews it, for every lease longer than an interval and two calls.
THEOREM StaysValid == TokenSpec => []ValidWhileReliable
<1>1. TokenIInv /\ [TokenNext]_token => TokenIInv'
  BY TokenTypeStep, TokenInTimeStep DEF TokenIInv
<1> QED
  BY <1>1, TokenInitially, TokenValid, PTL DEF TokenSpec

=============================================================================
