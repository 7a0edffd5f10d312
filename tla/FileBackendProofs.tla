------------------------- MODULE FileBackendProofs -------------------------
(***************************************************************************)
(* Proofs about FileBackend, for any number of tasks and of writes.        *)
(***************************************************************************)
EXTENDS FileBackend, WellFoundedInduction, TLAPS

USE FileBackendAssumption

Kinds == {"json", "broken", "absent"}

\* The least element of a set of numbers up to n is one of them, and no other is less.
LEMMA MinInRange ==
  ASSUME NEW n \in Nat, NEW S \in SUBSET (0..n), S # {}
  PROVE  Min(S) \in 0..n /\ \A k \in S : Min(S) <= k
<1>1. PICK m \in S : \A k \in S : m <= k
  <2> DEFINE less == {pair \in Nat \X Nat : pair[1] < pair[2]}
  <2>1. IsWellFoundedOn(less, Nat)
    BY NatLessThanWellFounded DEF OpToRel
  <2>2. S \subseteq Nat
    OBVIOUS
  <2>3. \E m \in S : \A k \in S : <<k, m>> \notin less
    <3> HIDE DEF less
    <3> QED
      BY <2>1, <2>2, WFMin
  <2>4. PICK m \in S : \A k \in S : <<k, m>> \notin less
    BY <2>3
  <2>5. ASSUME NEW k \in S PROVE m <= k
    <3>1. m \in Nat /\ k \in Nat
      BY <2>2
    <3>2. ~ (k < m)
      BY <2>4, <3>1
    <3>3. QED
      BY <3>1, <3>2
  <2>6. QED
    BY <2>5
<1>2. Min(S) \in S /\ \A k \in S : Min(S) <= k
  BY <1>1 DEF Min
<1>3. QED
  BY <1>2

\* A write leaves everything that was written before in place.
LEMMA WriteType ==
  ASSUME TypeOK, NEW kind \in Kinds, Write(kind)
  PROVE  /\ history' \in Seq(Kinds) /\ Newest' = Newest + 1 /\ Newest \in Nat
         /\ Newest' \in 1..(MaxWrites + 1)
BY DEF TypeOK, Write, Newest, Kinds

\* The types of the state survive every step.
LEMMA TypeStep == TypeOK /\ [Next]_vars => TypeOK'
<1> SUFFICES ASSUME TypeOK, [Next]_vars PROVE TypeOK'
  OBVIOUS
<1>n. Newest \in Nat \ {0} /\ Newest \in 1..Newest /\ Mtime \in 1..Newest \cup {None}
  BY DEF TypeOK, Mtime
<1>1. CASE LoadRead
  BY <1>n, <1>1 DEF LoadRead, TypeOK, Newest, Kind, task
<1>2. CASE LoadStat
  BY <1>n, <1>2 DEF LoadStat, TypeOK, Newest, task
<1>3. ASSUME NEW t \in Tasks, Call(t) PROVE TypeOK'
  <2> DEFINE S == {Newest} \cup {seen[u] : u \in {v \in Tasks : pc[v] # "idle"}}
  <2>1. S \in SUBSET (0..Newest) /\ S # {}
    BY <1>n DEF TypeOK
  <2>2. Min(S) \in 0..Newest
    BY <1>n, <2>1, MinInRange
  <2>3. QED
    BY <1>n, <1>3, <2>2 DEF Call, Goto, TypeOK, agent, Newest
<1>4. ASSUME NEW t \in Tasks, Stat(t) PROVE TypeOK'
  BY <1>n, <1>4 DEF Stat, Goto, TypeOK, agent, Newest
<1>5. ASSUME NEW t \in Tasks, Check(t) PROVE TypeOK'
  BY <1>5 DEF Check, Goto, TypeOK, agent, Newest
<1>6. ASSUME NEW t \in Tasks, Read(t) PROVE TypeOK'
  BY <1>n, <1>6 DEF Read, Goto, TypeOK, agent, Newest
<1>7. ASSUME NEW t \in Tasks, ReadFails(t) PROVE TypeOK'
  BY <1>7 DEF ReadFails, Return, Goto, TypeOK, agent, Newest
<1>8. ASSUME NEW t \in Tasks, Clear(t) PROVE TypeOK'
  BY <1>8 DEF Clear, Return, Goto, TypeOK, Newest
<1>9. ASSUME NEW t \in Tasks, Store(t) PROVE TypeOK'
  BY <1>9 DEF Store, Goto, TypeOK, Newest
<1>10. ASSUME NEW t \in Tasks, Get(t) PROVE TypeOK'
  BY <1>10 DEF Get, Return, Goto, TypeOK, agent, Newest
<1>11. ASSUME NEW kind \in Kinds, Write(kind) PROVE TypeOK'
  <2>1. /\ history' \in Seq(Kinds) /\ Newest' \in 1..(MaxWrites + 1)
        /\ 0..Newest \subseteq 0..Newest' /\ 1..Newest \subseteq 1..Newest'
    BY <1>n, <1>11, WriteType
  <2>2. UNCHANGED <<agent, task>>
    BY <1>11 DEF Write
  <2>3. QED
    BY <2>1, <2>2 DEF TypeOK, agent, task, Kinds
<1>12. CASE UNCHANGED vars
  BY <1>12 DEF vars, agent, task, TypeOK, Newest
<1>13. QED
  BY <1>1, <1>2, <1>3, <1>4, <1>5, <1>6, <1>7, <1>8, <1>9, <1>10, <1>11, <1>12
     DEF Next, Kinds

\* A content stays at least as new as the time remembered with it.
LEMMA NeverOlderStep ==
  ASSUME QuietStartup, TypeOK, NeverOlder, [Next]_vars PROVE NeverOlder'
<1> USE DEF NeverOlder, agent, task
<1>n. Newest \in Nat \ {0} /\ Mtime \in 1..Newest \cup {None}
  BY DEF TypeOK, Mtime
<1>1. CASE LoadRead
  BY <1>1 DEF LoadRead, Newest
<1>2. CASE LoadStat
  BY <1>n, <1>2 DEF LoadStat, Newest
<1>3. ASSUME NEW t \in Tasks, Call(t) PROVE NeverOlder'
  BY <1>3 DEF Call, Goto, TypeOK, Newest
<1>4. ASSUME NEW t \in Tasks, Stat(t) PROVE NeverOlder'
  BY <1>4 DEF Stat, Goto, TypeOK, Newest
<1>5. ASSUME NEW t \in Tasks, Check(t) PROVE NeverOlder'
  BY <1>5 DEF Check, Goto, TypeOK, Newest
<1>6. ASSUME NEW t \in Tasks, Read(t) PROVE NeverOlder'
  <2>1. mtime[t] # None => Newest >= mtime[t]
    BY <1>n DEF TypeOK
  <2>2. QED
    BY <1>6, <2>1 DEF Read, Goto, TypeOK, Newest
<1>7. ASSUME NEW t \in Tasks, ReadFails(t) PROVE NeverOlder'
  BY <1>7 DEF ReadFails, Return, Goto, TypeOK, Newest
<1>8. ASSUME NEW t \in Tasks, Clear(t) PROVE NeverOlder'
  BY <1>8 DEF Clear, Return, Goto, TypeOK, Newest
<1>9. ASSUME NEW t \in Tasks, Store(t) PROVE NeverOlder'
  BY <1>9 DEF Store, Goto, TypeOK, Newest
<1>10. ASSUME NEW t \in Tasks, Get(t) PROVE NeverOlder'
  BY <1>10 DEF Get, Return, Goto, TypeOK, Newest
<1>11. ASSUME NEW kind \in Kinds, Write(kind) PROVE NeverOlder'
  BY <1>11 DEF Write, TypeOK
<1>12. CASE UNCHANGED vars
  BY <1>12 DEF vars, Newest
<1>13. QED
  BY <1>1, <1>2, <1>3, <1>4, <1>5, <1>6, <1>7, <1>8, <1>9, <1>10, <1>11, <1>12
     DEF Next, Kinds

-----------------------------------------------------------------------------
(* No answer is too old.                                                      *)

\* A file that has been missing has been missing for good, and a range that is wider
\* has all that a narrower one has.
LEMMA StaysMissing ==
  ASSUME TypeOK, \/ UNCHANGED history
                 \/ \E kind \in Kinds : Write(kind)
  PROVE  \A a, b, c, d \in Nat : Missing(a, b) /\ c <= a /\ b <= d => Missing(c, d)'
<1>1. ASSUME NEW n \in DOMAIN history PROVE n \in DOMAIN history' /\ history'[n] = history[n]
  <2>1. CASE UNCHANGED history
    BY <2>1
  <2>2. ASSUME NEW kind \in Kinds, Write(kind) PROVE n \in DOMAIN history' /\ history'[n] = history[n]
    BY <2>2 DEF Write, TypeOK, Kinds
  <2> QED
    BY <2>1, <2>2
<1>2. DOMAIN history \subseteq Nat
  BY DEF TypeOK
<1> QED
  BY <1>1, <1>2 DEF Missing

LEMMA WiderMissing ==
  ASSUME TypeOK PROVE \A a, b, c, d \in Nat : Missing(a, b) /\ c <= a /\ b <= d => Missing(c, d)
<1>1. DOMAIN history \subseteq Nat
  BY DEF TypeOK
<1> QED
  BY <1>1 DEF Missing

\* What a step of task t leaves alone.
Others(t) ==
  \A u \in Tasks \ {t} :
    /\ pc'[u] = pc[u] /\ mtime'[u] = mtime[u] /\ contents'[u] = contents[u]
    /\ seen'[u] = seen[u] /\ oldest'[u] = oldest[u]

\* The invariant of the other tasks survives a step that begins no call, if what it
\* does to the cache is to store a content that is not older than the step's own call.
LEMMA OthersKeep ==
  ASSUME TypeOK, TypeOK', AnswersInv, NEW t \in Tasks, Others(t), UNCHANGED <<history, seen, oldest>>,
         pc[t] # "idle",
         UNCHANGED <<data, last_modified>> \/ data' >= seen[t]
  PROVE  /\ \A u \in Tasks \ {t} : CallInv(u)'
         /\ pc'[t] # "idle" => \A u \in Tasks : pc'[u] # "idle" => oldest'[t] <= seen'[u]
<1>m. \A a, b \in Nat : Missing(a, b) => Missing(a, b)'
  BY StaysMissing
<1>n. Newest \in Nat /\ Newest' = Newest
  BY DEF TypeOK, Newest
<1>1. \A u \in Tasks : pc'[u] # "idle" => pc[u] # "idle"
  BY DEF Others
<1>2. ASSUME NEW u \in Tasks \ {t} PROVE CallInv(u)'
  <2>1. CallInv(u) /\ u \in Tasks
    BY DEF AnswersInv
  <2>2. seen[u] \in Nat /\ contents[u] \in Nat /\ oldest[u] \in Nat /\ seen[t] \in Nat
        /\ data \in Nat /\ data' \in Nat
    BY DEF TypeOK
  <2>3. pc'[u] # "idle" => \A v \in Tasks : pc'[v] # "idle" => oldest'[u] <= seen'[v]
    BY <1>1, <2>1 DEF CallInv
  <2>4. pc'[u] \in {"check", "read"} =>
          IF mtime'[u] = None THEN Missing(seen[u], Newest)' ELSE mtime'[u] >= seen'[u]
    BY <1>m, <1>n, <2>1, <2>2 DEF CallInv, Others
  <2>5. pc'[u] \in {"store", "clear"} =>
          contents'[u] >= seen'[u] /\ (pc'[u] = "clear" \/ mtime'[u] = None => Missing(1, contents[u])')
    BY <1>m, <2>1, <2>2 DEF CallInv, Others
  <2>6. pc'[u] = "get" => NotBefore(data, oldest[u])'
    <3> SUFFICES ASSUME pc'[u] = "get" PROVE NotBefore(data, oldest[u])'
      OBVIOUS
    <3>1. pc[u] = "get"
      BY DEF Others
    <3>2. CASE data' >= seen[t]
      <4>1. oldest[u] <= seen[t]
        BY <2>1, <3>1 DEF CallInv
      <4> QED
        BY <2>2, <3>2, <4>1 DEF NotBefore
    <3>3. CASE UNCHANGED <<data, last_modified>>
      <4>1. NotBefore(data, oldest[u])
        BY <2>1, <3>1 DEF CallInv
      <4> QED
        BY <1>m, <1>n, <2>2, <3>3, <4>1 DEF NotBefore
    <3> QED
      BY <3>2, <3>3
  <2> QED
    BY <2>3, <2>4, <2>5, <2>6 DEF CallInv
<1>3. pc'[t] # "idle" => \A u \in Tasks : pc'[u] # "idle" => oldest'[t] <= seen'[u]
  BY <1>1 DEF AnswersInv, CallInv
<1> QED
  BY <1>2, <1>3

\* The call that begins: nobody under way answers from before it, nor it from before them.
LEMMA CallStep ==
  ASSUME TypeOK, TypeOK', AnswersInv, NEW t \in Tasks, Call(t) PROVE AnswersInv'
<1> DEFINE S == {Newest} \cup {seen[u] : u \in {v \in Tasks : pc[v] # "idle"}}
<1>n. Newest \in Nat \ {0} /\ Newest' = Newest /\ seen \in [Tasks -> 0..Newest]
  BY DEF TypeOK, Call, Newest
<1>m. \A a, b \in Nat : Missing(a, b) => Missing(a, b)'
  BY StaysMissing DEF Call
<1>1. \A k \in S : Min(S) <= k
  BY <1>n, MinInRange
<1>2. pc' = [pc EXCEPT ![t] = "stat"] /\ seen' = [seen EXCEPT ![t] = Newest]
      /\ oldest' = [oldest EXCEPT ![t] = Min(S)]
      /\ UNCHANGED <<history, data, last_modified, startup, mtime, contents>> /\ pc[t] = "idle"
  BY DEF Call, Goto, agent
<1>3. ASSUME NEW u \in Tasks, u # t PROVE CallInv(u)'
  <2>1. CallInv(u)
    BY DEF AnswersInv
  <2>2. /\ pc'[u] = pc[u] /\ seen'[u] = seen[u] /\ oldest'[u] = oldest[u]
        /\ seen[u] \in Nat /\ contents[u] \in Nat /\ oldest[u] \in 0..Newest /\ data \in Nat
    BY <1>2, <1>3, <1>n DEF TypeOK
  <2>3. ASSUME pc'[u] # "idle", NEW v \in Tasks, pc'[v] # "idle" PROVE oldest'[u] <= seen'[v]
    <3>1. CASE v = t
      BY <1>2, <1>n, <2>2, <3>1 DEF TypeOK
    <3>2. CASE v # t
      BY <1>2, <2>1, <2>2, <2>3, <3>2 DEF CallInv, TypeOK
    <3> QED
      BY <3>1, <3>2
  <2>4. pc'[u] = "get" => NotBefore(data, oldest[u])'
    <3>1. oldest[u] \in Nat /\ 1 \in Nat /\ UNCHANGED <<data, last_modified>>
      BY <1>2, <1>n, <2>2
    <3>2. pc[u] = "get" => NotBefore(data, oldest[u])
      BY <2>1 DEF CallInv
    <3>3. Missing(oldest[u], Newest) => Missing(oldest[u], Newest)'
      BY <1>m, <1>n, <2>2, <3>1
    <3>4. Missing(1, data) => Missing(1, data)'
      BY <1>m, <2>2, <3>1
    <3> QED
      BY <2>2, <3>1, <3>2, <3>3, <3>4 DEF NotBefore
  <2>5. pc'[u] \in {"check", "read"} =>
          IF mtime'[u] = None THEN Missing(seen[u], Newest)' ELSE mtime'[u] >= seen'[u]
    BY <1>2, <1>m, <1>n, <2>1, <2>2 DEF CallInv
  <2>6. pc'[u] \in {"store", "clear"} =>
          contents'[u] >= seen'[u] /\ (pc'[u] = "clear" \/ mtime'[u] = None => Missing(1, contents[u])')
    BY <1>2, <1>m, <2>1, <2>2 DEF CallInv
  <2> QED
    BY <2>3, <2>4, <2>5, <2>6 DEF CallInv
<1>4. CallInv(t)'
  <2>1. pc'[t] = "stat" /\ seen'[t] = Newest /\ oldest'[t] = Min(S)
    BY <1>2 DEF TypeOK
  <2>2. ASSUME NEW v \in Tasks, pc'[v] # "idle" PROVE oldest'[t] <= seen'[v]
    <3>1. seen'[v] \in S
      BY <1>2, <2>2, <2>1 DEF TypeOK
    <3> QED
      BY <1>1, <2>1, <3>1
  <2> QED
    BY <2>1, <2>2 DEF CallInv
<1>5. LoadInv'
  <2>1. startup = "done" /\ startup' = "done" /\ UNCHANGED <<data, last_modified>>
    BY <1>2 DEF Call
  <2>2. data \in Nat /\ 1 \in Nat
    BY <1>n DEF TypeOK
  <2> QED
    BY <1>m, <2>1, <2>2 DEF AnswersInv, LoadInv
<1> QED
  BY <1>3, <1>4, <1>5 DEF AnswersInv

\* A write moves nothing but the newest content.
LEMMA WriteStep ==
  ASSUME QuietStartup, TypeOK, AnswersInv, NEW kind \in Kinds, Write(kind) PROVE AnswersInv'
<1>1. Newest' \in Nat /\ Newest \in Nat /\ Newest <= Newest' /\ UNCHANGED <<agent, task>> /\ startup # "stat"
  BY WriteType DEF Write
<1>m. \A a, b, d \in Nat : Missing(a, b) /\ b <= d => Missing(a, d)'
  BY StaysMissing
<1>2. ASSUME NEW t \in Tasks PROVE CallInv(t)'
  <2>1. CallInv(t) /\ seen[t] \in Nat /\ contents[t] \in Nat /\ oldest[t] \in Nat /\ data \in Nat
    BY DEF AnswersInv, TypeOK
  <2>2. UNCHANGED <<pc, seen, oldest, mtime, contents, data, last_modified>>
    BY <1>1 DEF agent, task
  <2>3. NotBefore(data, oldest[t]) => NotBefore(data, oldest[t])'
    BY <1>1, <1>m, <2>1, <2>2 DEF NotBefore
  <2>4. Missing(seen[t], Newest) => Missing(seen[t], Newest)'
    BY <1>1, <1>m, <2>1, <2>2
  <2>5. Missing(1, contents[t]) => Missing(1, contents[t])'
    BY <1>m, <2>1, <2>2
  <2> QED
    BY <2>1, <2>2, <2>3, <2>4, <2>5 DEF CallInv
<1>3. LoadInv'
  <2>1. data \in Nat /\ UNCHANGED <<data, last_modified, startup>>
    BY <1>1 DEF TypeOK, agent
  <2> QED
    BY <1>1, <1>m, <2>1 DEF AnswersInv, LoadInv, task
<1> QED
  BY <1>2, <1>3 DEF AnswersInv

\* The startup load: no call is under way yet.
LEMMA LoadStep ==
  ASSUME TypeOK, TypeOK', NeverOlder, AnswersInv, LoadRead \/ LoadStat PROVE AnswersInv'
<1>1. \A t \in Tasks : pc'[t] = "idle"
  BY DEF LoadRead, LoadStat, NeverOlder, task
<1>2. \A t \in Tasks : CallInv(t)'
  BY <1>1 DEF CallInv
<1>n. Newest \in Nat \ {0} /\ Newest \in DOMAIN history /\ Newest' = Newest /\ UNCHANGED history
      /\ Kind \in Kinds
  BY DEF TypeOK, LoadRead, LoadStat, Newest, Kind, Kinds
<1>3. CASE LoadRead
  <2>1. startup' = "stat" => Kind = "json"
    BY <1>3, <1>n DEF LoadRead, Kinds
  <2>2. startup' = "done" => Kind = "absent" /\ data' = Newest
    BY <1>3, <1>n DEF LoadRead, Kinds
  <2>3. startup' = "done" => Missing(1, data)'
    BY <1>n, <2>2 DEF Missing, Kind
  <2> QED
    BY <1>1, <1>2, <1>n, <2>1, <2>3 DEF AnswersInv, LoadInv, Kind
<1>4. CASE LoadStat
  <2>1. startup' = "done" /\ last_modified' = Newest
    BY <1>4 DEF LoadStat, Mtime, AnswersInv, LoadInv
  <2> QED
    BY <1>1, <1>2, <1>n, <2>1 DEF AnswersInv, LoadInv
<1> QED
  BY <1>3, <1>4

\* The steps of resolve after its beginning.
LEMMA ResolveStep ==
  ASSUME TypeOK, TypeOK', NeverOlder, AnswersInv, NEW t \in Tasks,
         \/ Stat(t) \/ Check(t) \/ Read(t) \/ ReadFails(t)
         \/ Clear(t) \/ Store(t) \/ Get(t)
  PROVE  AnswersInv'
<1>0. /\ Others(t) /\ UNCHANGED <<history, seen, oldest, startup>> /\ pc[t] # "idle" /\ startup # "stat"
      /\ UNCHANGED <<data, last_modified>> \/ (data' = contents[t] /\ pc[t] \in {"store", "clear"})
  BY DEF Stat, Check, Read, ReadFails, Clear, Store, Get, Goto, Return, agent, Others, TypeOK, NeverOlder
<1>i. CallInv(t) /\ LoadInv /\ oldest[t] <= seen[t]
  BY <1>0 DEF AnswersInv, CallInv
<1>n. /\ Newest \in Nat \ {0} /\ Newest' = Newest /\ Newest \in DOMAIN history
      /\ seen[t] \in 0..Newest /\ contents[t] \in Nat /\ oldest[t] \in Nat /\ data \in Nat
      /\ mtime[t] \in 1..Newest \cup {None} /\ last_modified \in 1..Newest \cup {None}
  BY <1>0 DEF TypeOK, Newest
<1>m. \A a, b \in Nat : Missing(a, b) => Missing(a, b)'
  BY <1>0, StaysMissing
<1>d. UNCHANGED <<data, last_modified>> \/ data' >= seen[t]
  BY <1>0, <1>i DEF CallInv
<1>o. /\ \A u \in Tasks \ {t} : CallInv(u)'
      /\ pc'[t] # "idle" => \A u \in Tasks : pc'[u] # "idle" => oldest'[t] <= seen'[u]
  BY <1>0, <1>d, OthersKeep
<1>s. seen'[t] = seen[t] /\ oldest'[t] = oldest[t]
  BY <1>0
<1>l. CASE UNCHANGED <<data, last_modified>>
  <2>1. LoadInv'
    BY <1>0, <1>i, <1>l, <1>m, <1>n DEF LoadInv
  <2>2. CASE Stat(t)
    <3>1. pc'[t] = "check" /\ mtime'[t] = Mtime
      BY <2>2 DEF Stat, Goto, TypeOK
    <3>2. Mtime = None => Missing(seen[t], Newest)
      BY <1>n DEF Mtime, Kind, Missing
    <3>3. Mtime # None => Mtime = Newest
      BY DEF Mtime
    <3> QED
      BY <1>m, <1>n, <1>o, <1>s, <2>1, <3>1, <3>2, <3>3 DEF AnswersInv, CallInv
  <2>3. CASE Check(t)
    <3>1. pc[t] = "check" /\ pc'[t] = (IF NeedsReload(t) THEN "read" ELSE "get") /\ mtime' = mtime
      BY <2>3 DEF Check, Goto, TypeOK
    <3>2. CASE NeedsReload(t)
      BY <1>i, <1>m, <1>n, <1>o, <1>s, <2>1, <3>1, <3>2 DEF AnswersInv, CallInv
    <3>3. CASE ~ NeedsReload(t)
      <4>1. last_modified = mtime[t] /\ startup = "done"
        BY <1>0, <1>i, <3>3 DEF NeedsReload, LoadInv
      <4>2. CASE mtime[t] = None
        <5>1. Missing(1, data) /\ Missing(seen[t], Newest)
          BY <1>i, <3>1, <4>1, <4>2 DEF LoadInv, CallInv
        <5>2. Missing(oldest[t], Newest)
          BY <1>i, <1>n, <5>1, WiderMissing
        <5> QED
          BY <1>l, <1>m, <1>n, <1>s, <4>1, <4>2, <5>1, <5>2, <1>o, <2>1, <3>1, <3>3
             DEF AnswersInv, CallInv, NotBefore
      <4>3. CASE mtime[t] # None
        <5>1. data >= mtime[t] /\ mtime[t] >= seen[t]
          BY <1>i, <3>1, <4>1, <4>3 DEF NeverOlder, CallInv
        <5>2. data' >= oldest'[t]
          BY <1>i, <1>l, <1>n, <1>s, <4>3, <5>1
        <5> QED
          BY <1>o, <2>1, <3>1, <3>3, <5>2 DEF AnswersInv, CallInv, NotBefore
      <4> QED
        BY <4>2, <4>3
    <3> QED
      BY <3>2, <3>3
  <2>4. CASE Read(t)
    <3>1. /\ pc[t] = "read" /\ contents'[t] = Newest /\ mtime' = mtime
          /\ pc'[t] = IF Kind = "absent" THEN "clear" ELSE "store"
      BY <2>4 DEF Read, Goto, TypeOK
    <3>2. Kind = "absent" => Missing(1, Newest)
      BY <1>n DEF Kind, Missing
    <3>3. mtime[t] = None => Missing(1, Newest)
      <4>1. mtime[t] = None => Missing(seen[t], Newest)
        BY <1>i, <3>1 DEF CallInv
      <4>2. \A n \in DOMAIN history : 1 <= n
        BY DEF TypeOK
      <4> QED
        BY <4>1, <4>2 DEF Missing
    <3> QED
      BY <1>m, <1>n, <1>o, <1>s, <2>1, <3>1, <3>2, <3>3 DEF AnswersInv, CallInv
  <2>5. CASE pc'[t] = "idle"
    BY <1>o, <2>1, <2>5 DEF AnswersInv, CallInv
  <2>6. CASE Store(t)
    <3>1. pc'[t] = "get" /\ data' = contents[t] /\ pc[t] = "store"
      BY <2>6 DEF Store, Goto, TypeOK
    <3>2. data' >= oldest'[t]
      BY <1>i, <1>n, <1>s, <3>1 DEF CallInv
    <3> QED
      BY <1>o, <2>1, <3>1, <3>2 DEF AnswersInv, CallInv, NotBefore
  <2> QED
    BY <2>2, <2>3, <2>4, <2>5, <2>6 DEF ReadFails, Clear, Get, Return, Goto, TypeOK
<1>c. CASE Clear(t) \/ Store(t)
  <2>1. data' = contents[t] /\ pc[t] \in {"store", "clear"} /\ pc'[t] \in {"idle", "get"}
        /\ (last_modified' = None => pc[t] = "clear" \/ mtime[t] = None)
    BY <1>c DEF Clear, Store, Return, Goto, TypeOK
  <2>2. LoadInv'
    BY <1>0, <1>i, <1>m, <1>n, <2>1 DEF LoadInv, CallInv
  <2>3. data' >= oldest'[t]
    BY <1>i, <1>n, <1>s, <2>1 DEF CallInv
  <2> QED
    BY <1>o, <2>1, <2>2, <2>3 DEF AnswersInv, CallInv, NotBefore
<1> QED
  BY <1>l, <1>c DEF Stat, Check, Read, ReadFails, Get, agent

\* The state is well typed.
THEOREM TypeCorrect == Spec => []TypeOK
<1>1. Init => TypeOK
  BY DEF Init, TypeOK, Newest
<1>2. QED
  BY <1>1, TypeStep, PTL DEF Spec

\* If nobody writes the file in the middle of the startup load, then from then on the
\* cache holds the file's content whenever it remembers the file's time.
THEOREM Synchronised == QuietStartup => (Spec => []CacheInSync)
<1> SUFFICES ASSUME QuietStartup PROVE Spec => []CacheInSync
  OBVIOUS
<1>1. Init => TypeOK /\ NeverOlder
  BY DEF Init, TypeOK, NeverOlder, Newest
<1>2. (TypeOK /\ NeverOlder) /\ [Next]_vars => (TypeOK /\ NeverOlder)'
  BY TypeStep, NeverOlderStep
<1>3. TypeOK /\ NeverOlder => CacheInSync
  BY DEF TypeOK, NeverOlder, CacheInSync, Mtime
<1>4. QED
  BY <1>1, <1>2, <1>3, PTL DEF Spec

\* If nobody writes the file in the middle of the startup load, no request is answered from
\* a content that was gone when it and the calls beside it began, but for a file that
\* has been missing twice.
THEOREM NotOlder == QuietStartup => (Spec => AnswerNotOlder)
<1> SUFFICES ASSUME QuietStartup PROVE Spec => AnswerNotOlder
  OBVIOUS
<1> DEFINE IInv == TypeOK /\ NeverOlder /\ AnswersInv
           Answered == \A t \in Tasks : pc[t] # "idle" /\ pc'[t] = "idle" /\ answer'[t] # Err =>
                         NotBefore(answer'[t], oldest[t])
<1>1. Init => IInv
  BY DEF Init, TypeOK, NeverOlder, AnswersInv, CallInv, LoadInv, Newest
<1>2. IInv /\ [Next]_vars => IInv'
  <2> SUFFICES ASSUME IInv, [Next]_vars PROVE IInv'
    OBVIOUS
  <2>1. TypeOK' /\ NeverOlder'
    BY TypeStep, NeverOlderStep
  <2>2. CASE UNCHANGED vars
    <3>1. UNCHANGED <<history, data, last_modified, startup, pc, mtime, contents, seen, oldest>>
      BY <2>2 DEF vars, agent, task
    <3>2. ASSUME NEW t \in Tasks PROVE CallInv(t)'
      BY <3>1 DEF AnswersInv, CallInv, NotBefore, Missing, Newest
    <3>3. LoadInv'
      BY <3>1 DEF AnswersInv, LoadInv, Missing, Kind, Newest
    <3> QED
      BY <2>1, <3>2, <3>3 DEF AnswersInv
  <2>3. CASE Next
    BY <2>1, <2>3, CallStep, ResolveStep, WriteStep, LoadStep DEF Next, Kinds
  <2> QED
    BY <2>1, <2>2, <2>3
<1>3. IInv /\ [Next]_vars => [Answered]_vars
  <2> SUFFICES ASSUME IInv, Next, NEW t \in Tasks, pc[t] # "idle", pc'[t] = "idle", answer'[t] # Err
               PROVE  NotBefore(answer'[t], oldest[t])
    OBVIOUS
  <2>1. CallInv(t) /\ oldest[t] <= seen[t]
    BY DEF AnswersInv, CallInv
  <2>2. Get(t) \/ Clear(t)
    <3>1. DOMAIN pc = Tasks /\ DOMAIN answer = Tasks
      BY DEF TypeOK
    <3>2. ~ LoadRead /\ ~ LoadStat /\ \A kind \in Kinds : ~ Write(kind)
      BY DEF LoadRead, LoadStat, Write, task
    <3>3. ASSUME NEW u \in Tasks, Call(u) \/ Stat(u) \/ Check(u) \/ Read(u) \/ ReadFails(u) \/ Store(u)
          PROVE  FALSE
      <4>1. u = t
        BY <3>1, <3>3 DEF Call, Stat, Check, Read, ReadFails, Store, Return, Goto
      <4>2. pc'[t] # "idle" \/ answer'[t] = Err
        BY <3>1, <3>3, <4>1 DEF Call, Stat, Check, Read, ReadFails, Store, Return, Goto
      <4>3. QED
        BY <4>2
    <3>4. ASSUME NEW u \in Tasks, Get(u) \/ Clear(u) PROVE u = t
      BY <3>1, <3>4 DEF Get, Clear, Return, Goto
    <3>5. QED
      BY <3>2, <3>3, <3>4 DEF Next, Kinds
  <2>3. CASE Get(t)
    BY <2>1, <2>3 DEF Get, Return, CallInv, TypeOK
  <2>4. CASE Clear(t)
    <3>1. answer'[t] = contents[t] /\ contents[t] >= seen[t]
      BY <2>1, <2>4 DEF Clear, Return, CallInv, TypeOK
    <3>2. contents[t] \in Nat /\ seen[t] \in Nat /\ oldest[t] \in Nat
      BY DEF TypeOK
    <3> QED
      BY <2>1, <3>1, <3>2 DEF NotBefore
  <2> QED
    BY <2>2, <2>3, <2>4
<1> QED
  BY <1>1, <1>2, <1>3, PTL DEF Spec, AnswerNotOlder

=============================================================================
