---------------------- MODULE KubernetesBackendProofs ----------------------
(***************************************************************************)
(* The data served never goes back, and is in sync when the task has taken *)
(* all events, for any number of writes, deletions and errors.             *)
(***************************************************************************)
EXTENDS KubernetesBackend, SequenceTheorems, TLAPS

USE KubernetesBackendAssumption

IsErr(i) == events[i].type = "Err"

\* An error is the last event there is, and nothing polls the watcher after it.
ErrIsLast ==
  /\ \A i \in DOMAIN events : IsErr(i) => i = Len(events)
  /\ watcher = "watch" => Polled
  /\ watcher = "list" => events = <<>> \/ ~ Polled
  /\ watcher \in {"idle", "dropped"} => events = <<>>

\* The events are those of writes in the order of these, none of an older write than
\* that of the data, and none the watcher has not come to.
InOrder ==
  /\ \A i \in DOMAIN events : ~ IsErr(i) => data <= events[i].of /\ events[i].of <= sent
  /\ \A i, j \in DOMAIN events :
       i < j /\ ~ IsErr(i) /\ ~ IsErr(j) => events[i].of <= events[j].of
  /\ watcher = "watch" => data <= sent /\ listed <= sent

\* The write the data will be of when the task has taken all events.
Coming == IF events = <<>> THEN data ELSE events[Len(events)].of

\* It is the one the watcher has come to, once there has been an event.
UpToDate == watcher = "watch" /\ (Present(listed) \/ listed < sent) => Coming = sent

\* Nothing is served before the Secret has been read.
Unread == phase = "load" => data = 0

IInv == TypeOK /\ ErrIsLast /\ InOrder /\ UpToDate /\ Unread

-----------------------------------------------------------------------------

LEMMA TailElements ==
  ASSUME NEW S, NEW s \in Seq(S), s # <<>>
  PROVE  /\ Len(s) \in Nat \ {0} /\ DOMAIN s = 1..Len(s) /\ Head(s) = s[1] /\ s[1] \in S
         /\ Tail(s) \in Seq(S) /\ Len(Tail(s)) = Len(s) - 1 /\ DOMAIN Tail(s) = 1..(Len(s) - 1)
         /\ \A i \in DOMAIN Tail(s) : Tail(s)[i] = s[i + 1]
         /\ Tail(s) = <<>> <=> Len(s) = 1
<1>1. Len(s) \in Nat \ {0} /\ DOMAIN s = 1..Len(s)
  OBVIOUS
<1>2. Head(s) = s[1] /\ s[1] \in S
  BY <1>1
<1>3. Tail(s) \in Seq(S) /\ Len(Tail(s)) = Len(s) - 1
  BY <1>1
<1>4. DOMAIN Tail(s) = 1..(Len(s) - 1)
  BY <1>3
<1>5. \A i \in DOMAIN Tail(s) : Tail(s)[i] = s[i + 1]
  BY <1>1, <1>4
<1>6. Tail(s) = <<>> <=> Len(s) = 1
  BY <1>1, <1>3, EmptySeq
<1> QED
  BY <1>1, <1>2, <1>3, <1>4, <1>5, <1>6

LEMMA AppendElements ==
  ASSUME NEW S, NEW s \in Seq(S), NEW e \in S
  PROVE  /\ Len(s) \in Nat /\ DOMAIN s = 1..Len(s) /\ Append(s, e) \in Seq(S)
         /\ Len(Append(s, e)) = Len(s) + 1 /\ DOMAIN Append(s, e) = 1..(Len(s) + 1)
         /\ \A i \in DOMAIN s : Append(s, e)[i] = s[i]
         /\ Append(s, e)[Len(s) + 1] = e /\ Append(s, e) # <<>>
<1>1. Len(s) \in Nat /\ DOMAIN s = 1..Len(s) /\ Append(s, e) \in Seq(S)
  OBVIOUS
<1>2. Len(Append(s, e)) = Len(s) + 1
  OBVIOUS
<1>3. DOMAIN Append(s, e) = 1..(Len(s) + 1) /\ Append(s, e) # <<>>
  BY <1>1, <1>2
<1>4. (\A i \in DOMAIN s : Append(s, e)[i] = s[i]) /\ Append(s, e)[Len(s) + 1] = e
  BY <1>1
<1> QED
  BY <1>1, <1>2, <1>3, <1>4

LEMMA Types ==
  ASSUME TypeOK
  PROVE  /\ Newest \in Nat \ {0} /\ data \in Nat /\ sent \in Nat /\ listed \in Nat
         /\ data <= Newest /\ sent <= Newest /\ listed <= Newest
         /\ events \in Seq(Events) /\ Len(events) \in Nat /\ DOMAIN events = 1..Len(events)
         /\ \A i \in DOMAIN events : events[i] \in Events
         /\ \A i \in DOMAIN events :
              IF IsErr(i) THEN TRUE
              ELSE events[i].type \in {"Apply", "Delete"} /\ events[i].of \in 1..Newest
BY DEF TypeOK, Newest, Events, IsErr

LEMMA Initial == Init => IInv
<1> SUFFICES ASSUME Init PROVE IInv
  OBVIOUS
<1>1. secret \in Seq({"present", "absent"}) /\ Newest = 1
  BY DEF Init, Newest
<1>2. events = <<>> /\ DOMAIN events = {} /\ events \in Seq(Events)
  BY DEF Init
<1>3. TypeOK
  BY <1>1, <1>2 DEF Init, TypeOK
<1> QED
  BY <1>2, <1>3 DEF Init, IInv, ErrIsLast, InOrder, UpToDate, Unread

\* A write adds to the Secret's life and leaves the rest of it as it was.
LEMMA WriteStep ==
  ASSUME IInv, NEW new \in {"present", "absent"}, Write(new)
  PROVE  IInv'
<1>1. /\ secret' \in Seq({"present", "absent"}) /\ Newest' = Newest + 1
      /\ Newest' \in 1..(MaxWrites + 1) /\ \A n \in 1..Newest : secret'[n] = secret[n]
  BY DEF IInv, TypeOK, Write, Newest
<1>2. \A n \in 0..Newest : Present(n)' <=> Present(n)
  BY <1>1, Types DEF Present, IInv
<1>3. events \in Seq(Events')
  <2>1. Events \subseteq Events'
    BY <1>1, Types DEF Events, IInv
  <2> QED
    BY <2>1, Types DEF IInv
<1>4. TypeOK'
  BY <1>1, <1>3, Types DEF IInv, TypeOK, Write
<1>5. (ErrIsLast /\ InOrder)'
  BY DEF IInv, Write, ErrIsLast, InOrder, IsErr, Polled
<1>6. UpToDate'
  BY <1>2, Types DEF IInv, Write, UpToDate, Coming, TypeOK
<1> QED
  BY <1>4, <1>5, <1>6 DEF IInv, Unread, Write

\* The start: no event has come yet.
LEMMA StartStep ==
  ASSUME IInv, ClientFails \/ Load \/ LoadFails
  PROVE  IInv' /\ data' >= data
<1>1. /\ phase = "load" /\ watcher = "idle" /\ events = <<>> /\ UNCHANGED <<secret, sent, events, listed>>
      /\ watcher' \in {"idle", "list"} /\ UNCHANGED Newest /\ UNCHANGED Events
  BY DEF IInv, TypeOK, ErrIsLast, ClientFails, Load, LoadFails, Newest, Events
<1>2. DOMAIN events = {}
  BY <1>1
<1>3. TypeOK'
  BY <1>1, Types DEF IInv, TypeOK, ClientFails, Load, LoadFails
<1>4. (ErrIsLast /\ InOrder /\ UpToDate)'
  BY <1>1, <1>2 DEF ErrIsLast, InOrder, UpToDate
<1>5. Unread' /\ data' >= data
  BY <1>1, Types DEF IInv, Unread, ClientFails, Load, LoadFails
<1> QED
  BY <1>3, <1>4, <1>5 DEF IInv

\* The watcher makes an event of the write it has come to.
LEMMA ComesTo ==
  ASSUME IInv, NEW n \in 1..Newest, NEW e \in Events, e.type # "Err", e.of = n,
         events' = Append(events, e), sent' = n, watcher' = "watch", watcher \in {"list", "watch"},
         UNCHANGED <<secret, data, phase, errors>>, listed' \in 0..Newest,
         Polled, sent <= n, data <= n, listed' <= n, \A i \in DOMAIN events : events[i].of <= n
  PROVE  IInv'
<1>1. /\ Len(events) \in Nat /\ DOMAIN events = 1..Len(events) /\ events' \in Seq(Events)
      /\ Len(events') = Len(events) + 1 /\ DOMAIN events' = 1..(Len(events) + 1)
      /\ \A i \in DOMAIN events : events'[i] = events[i]
      /\ events'[Len(events) + 1] = e /\ events' # <<>>
  BY AppendElements, Types DEF IInv
<1>2. UNCHANGED Newest /\ UNCHANGED Events
  BY DEF Newest, Events
<1>3. TypeOK'
  BY <1>1, <1>2, Types DEF IInv, TypeOK
<1>4. \A i \in DOMAIN events : ~ IsErr(i)
  BY DEF Polled, IsErr
<1>5. \A i \in DOMAIN events' : ~ IsErr(i)'
  BY <1>1, <1>4 DEF IsErr
<1>6. ErrIsLast'
  BY <1>5 DEF ErrIsLast, Polled, IsErr
<1>7. InOrder'
  <2>1. \A i \in DOMAIN events' : data <= events'[i].of /\ events'[i].of <= n
    BY <1>1, <1>4, Types DEF IInv, InOrder
  <2>2. \A i, j \in DOMAIN events' : i < j => events'[i].of <= events'[j].of
    BY <1>1, <1>4, Types DEF IInv, InOrder
  <2> QED
    BY <2>1, <2>2 DEF InOrder
<1>8. UpToDate'
  BY <1>1 DEF UpToDate, Coming
<1>9. Unread'
  BY DEF IInv, Unread
<1> QED
  BY <1>3, <1>6, <1>7, <1>8, <1>9 DEF IInv

LEMMA WatcherStep ==
  ASSUME IInv, List \/ Watch
  PROVE  IInv'
<1>0. Newest \in Nat \ {0} /\ data <= Newest /\ sent <= Newest /\ data \in Nat /\ sent \in Nat
  BY Types DEF IInv
<1>1. CASE List /\ Present(Newest)
  <2> DEFINE e == [type |-> "Apply", of |-> Newest]
  <2>1. events = <<>> /\ DOMAIN events = {} /\ e \in Events
    BY <1>0, <1>1 DEF IInv, ErrIsLast, List, Events
  <2>2. events' = Append(events, e)
    BY <1>1, <2>1 DEF List
  <2> QED
    BY <1>0, <1>1, <2>1, <2>2, ComesTo DEF List
<1>2. CASE List /\ ~ Present(Newest)
  <2>1. events = <<>> /\ DOMAIN events = {} /\ events' = events
    BY <1>2 DEF IInv, ErrIsLast, List
  <2>2. UNCHANGED Newest /\ UNCHANGED Events
    BY <1>2 DEF List, Newest, Events
  <2>3. TypeOK'
    BY <1>0, <1>2, <2>1, <2>2 DEF IInv, TypeOK, List
  <2>4. (ErrIsLast /\ InOrder)'
    BY <1>0, <1>2, <2>1 DEF ErrIsLast, InOrder, List, Polled
  <2>5. UpToDate'
    BY <1>0, <1>2, <2>2 DEF UpToDate, List, Present
  <2> QED
    BY <1>2, <2>3, <2>4, <2>5 DEF IInv, Unread, List
<1>3. CASE Watch
  <2> DEFINE e == [type |-> IF Present(sent + 1) THEN "Apply" ELSE "Delete", of |-> sent + 1]
  <2>1. e \in Events /\ e.type # "Err" /\ sent + 1 \in 1..Newest
    BY <1>0, <1>3 DEF Watch, Events
  <2>2. \A i \in DOMAIN events : events[i].of <= sent + 1
    BY <1>3, Types DEF Watch, IInv, InOrder, Polled, IsErr
  <2>3. events' = Append(events, e) /\ sent' = sent + 1 /\ watcher' = "watch"
        /\ UNCHANGED <<secret, data, phase, errors, listed>>
    BY <1>3 DEF Watch
  <2>4. data <= sent + 1 /\ listed \in 0..Newest /\ listed <= sent + 1 /\ Polled
    BY <1>0, <1>3, Types DEF Watch, IInv, InOrder
  <2> HIDE DEF e
  <2>5. e.of = sent + 1
    BY DEF e
  <2> QED
    BY <1>0, <1>3, <2>1, <2>2, <2>3, <2>4, <2>5, ComesTo DEF Watch
<1> QED
  BY <1>1, <1>2, <1>3 DEF List

\* The error is the last event of the stream.
LEMMA WatcherFailsStep ==
  ASSUME IInv, WatcherFails
  PROVE  IInv'
<1> DEFINE e == [type |-> "Err"]
<1>1. e \in Events /\ events' = Append(events, e) /\ Polled /\ UNCHANGED Newest /\ UNCHANGED Events
  BY DEF WatcherFails, Events, Newest
<1>2. /\ Len(events) \in Nat /\ DOMAIN events = 1..Len(events) /\ events' \in Seq(Events)
      /\ Len(events') = Len(events) + 1 /\ DOMAIN events' = 1..(Len(events) + 1)
      /\ \A i \in DOMAIN events : events'[i] = events[i]
      /\ events'[Len(events) + 1] = e /\ events' # <<>>
  BY <1>1, AppendElements, Types DEF IInv
<1>3. TypeOK'
  BY <1>1, <1>2 DEF IInv, TypeOK, WatcherFails
<1>4. /\ events'[Len(events) + 1].type = "Err"
      /\ \A i \in DOMAIN events : ~ IsErr(i) /\ ~ IsErr(i)'
  BY <1>1, <1>2 DEF IsErr, Polled
<1>5. ErrIsLast'
  BY <1>2, <1>4 DEF ErrIsLast, WatcherFails, Polled, IsErr
<1>6. InOrder'
  <2>1. \A i \in DOMAIN events' : ~ IsErr(i)' => i \in DOMAIN events
    BY <1>2, <1>4 DEF IsErr
  <2> QED
    BY <1>2, <1>4, <2>1 DEF IInv, InOrder, WatcherFails
<1>7. UpToDate'
  BY DEF UpToDate, WatcherFails
<1>8. Unread'
  BY DEF IInv, Unread, WatcherFails
<1> QED
  BY <1>3, <1>5, <1>6, <1>7, <1>8 DEF IInv

\* The task takes the oldest event.
LEMMA TakeStep ==
  ASSUME IInv, Apply \/ Delete
  PROVE  IInv' /\ data' >= data
<1>1. /\ events # <<>> /\ events' = Tail(events) /\ data' = events[1].of /\ ~ IsErr(1)
      /\ UNCHANGED <<secret, phase, watcher, sent, errors, listed>>
      /\ UNCHANGED Newest /\ UNCHANGED Events
  BY TailElements, Types DEF IInv, Apply, Delete, Event, IsErr, Newest, Events
<1>2. /\ Len(events) \in Nat \ {0} /\ DOMAIN events = 1..Len(events)
      /\ events' \in Seq(Events) /\ Len(events') = Len(events) - 1
      /\ DOMAIN events' = 1..(Len(events) - 1)
      /\ \A i \in DOMAIN events' : events'[i] = events[i + 1]
      /\ events' = <<>> <=> Len(events) = 1
  BY <1>1, TailElements, Types DEF IInv
<1>3. data' \in 1..Newest /\ data' >= data /\ data' <= sent
  BY <1>1, <1>2, Types DEF IInv, InOrder
<1>4. TypeOK'
  BY <1>1, <1>2, <1>3 DEF IInv, TypeOK, ErrIsLast
<1>5. \A i \in DOMAIN events' : (IsErr(i)' <=> IsErr(i + 1)) /\ i + 1 \in DOMAIN events
  BY <1>2 DEF IsErr
<1>6. ErrIsLast'
  <2>1. Polled => Polled'
    BY <1>2, <1>5 DEF Polled, IsErr
  <2>2. \A i \in DOMAIN events' : IsErr(i)' => i = Len(events')
    BY <1>2, <1>5 DEF IInv, ErrIsLast
  <2>3. watcher = "list" => ~ Polled'
    <3>1. ASSUME watcher = "list" PROVE ~ Polled'
      <4>1. PICK i \in DOMAIN events : IsErr(i)
        BY <1>1, <3>1 DEF IInv, ErrIsLast, Polled, IsErr
      <4>2. i # 1 /\ i - 1 \in DOMAIN events' /\ (i - 1) + 1 = i
        BY <1>1, <1>2, <4>1
      <4>3. IsErr(i - 1)'
        BY <1>5, <4>1, <4>2
      <4> QED
        BY <4>2, <4>3 DEF Polled, IsErr
    <3> QED
      BY <3>1
  <2> QED
    BY <1>1, <2>1, <2>2, <2>3 DEF IInv, ErrIsLast
<1>7. InOrder'
  <2>0. 1 \in DOMAIN events /\ InOrder
    BY <1>2 DEF IInv
  <2>1. ASSUME NEW i \in DOMAIN events', ~ IsErr(i)'
        PROVE  data' <= events'[i].of /\ events'[i].of <= sent
    <3>1. i + 1 \in DOMAIN events /\ ~ IsErr(i + 1) /\ 1 < i + 1 /\ events'[i] = events[i + 1]
      BY <1>2, <1>5, <2>1
    <3> QED
      BY <1>1, <2>0, <3>1 DEF InOrder
  <2>2. ASSUME NEW i \in DOMAIN events', NEW j \in DOMAIN events',
               i < j, ~ IsErr(i)', ~ IsErr(j)'
        PROVE  events'[i].of <= events'[j].of
    <3>1. /\ i + 1 \in DOMAIN events /\ ~ IsErr(i + 1) /\ events'[i] = events[i + 1]
          /\ j + 1 \in DOMAIN events /\ ~ IsErr(j + 1) /\ events'[j] = events[j + 1]
          /\ i + 1 < j + 1
      BY <1>2, <1>5, <2>2
    <3> QED
      BY <2>0, <3>1 DEF InOrder
  <2> QED
    BY <1>1, <1>3, <2>1, <2>2 DEF IInv, InOrder
<1>8. UpToDate'
  <2>1. Coming' = Coming
    BY <1>1, <1>2 DEF Coming
  <2>2. Present(listed)' <=> Present(listed)
    BY <1>1 DEF Present
  <2> QED
    BY <1>1, <2>1, <2>2 DEF IInv, UpToDate
<1>9. Unread'
  BY <1>1 DEF IInv, Unread, TypeOK, ErrIsLast
<1> QED
  BY <1>3, <1>4, <1>6, <1>7, <1>8, <1>9 DEF IInv

LEMMA StreamEndsStep ==
  ASSUME IInv, StreamEnds
  PROVE  IInv'
<1>1. events' = <<>> /\ DOMAIN events' = {} /\ watcher' = "dropped" /\ UNCHANGED Newest
      /\ watcher # "idle"
  BY DEF StreamEnds, Newest, IInv, ErrIsLast
<1>2. TypeOK'
  BY <1>1 DEF IInv, TypeOK, StreamEnds
<1> QED
  BY <1>1, <1>2 DEF IInv, ErrIsLast, InOrder, UpToDate, Unread, StreamEnds

LEMMA Step == IInv /\ [Next]_vars => IInv' /\ data' >= data
<1> SUFFICES ASSUME IInv, [Next]_vars PROVE IInv' /\ data' >= data
  OBVIOUS
<1>0. data \in Nat
  BY Types DEF IInv
<1>1. CASE List \/ Watch
  BY <1>0, <1>1, WatcherStep DEF List, Watch
<1>2. CASE WatcherFails
  BY <1>0, <1>2, WatcherFailsStep DEF WatcherFails
<1>3. CASE StreamEnds
  BY <1>0, <1>3, StreamEndsStep DEF StreamEnds
<1>4. ASSUME NEW new \in {"present", "absent"}, Write(new) PROVE IInv' /\ data' >= data
  BY <1>0, <1>4, WriteStep DEF Write
<1>5. CASE UNCHANGED vars
  <2>1. UNCHANGED <<Newest, Events>>
    BY <1>5 DEF vars, Newest, Events
  <2>2. TypeOK'
    BY <1>5, <2>1 DEF IInv, TypeOK, vars
  <2>3. (ErrIsLast /\ InOrder /\ UpToDate /\ Unread)'
    BY <1>5 DEF IInv, ErrIsLast, InOrder, UpToDate, Unread, IsErr, Polled, Coming, Present, vars
  <2> QED
    BY <1>0, <1>5, <2>2, <2>3 DEF IInv, vars
<1> QED
  BY <1>1, <1>2, <1>3, <1>4, <1>5, StartStep, TakeStep DEF Next, Task

THEOREM Invariance == Spec => []IInv
  BY Initial, Step, PTL DEF Spec

\* The variables keep their types: whatever the watcher yields, an event is of a write
\* that there has been, and a task that has ended leaves none behind.
THEOREM TypeCorrect == Spec => []TypeOK
<1>1. IInv => TypeOK
  BY DEF IInv
<1> QED
  BY <1>1, Invariance, PTL

\* Whatever is written, deleted or goes wrong between what the start reads and what the
\* watcher lists, the agent never serves an older version of the Secret again.
THEOREM Forwards == Spec => NeverBackwards
<1>1. IInv /\ [Next]_vars => [data' >= data]_vars
  BY Step
<1> QED
  BY <1>1, Invariance, PTL DEF Spec, NeverBackwards

\* When the task has taken all events there are, what is served is what the Secret holds,
\* but for a Secret that was gone before the watcher listed it.
THEOREM InSync == Spec => []InSyncWhenCaughtUp
<1>1. IInv => InSyncWhenCaughtUp
  <2> SUFFICES ASSUME IInv, CaughtUp, Present(listed) \/ listed < Newest
               PROVE  SameData(data, Newest)
    BY DEF InSyncWhenCaughtUp
  <2>1. Coming = data /\ sent = Newest /\ watcher = "watch"
    BY DEF CaughtUp, Coming
  <2> QED
    BY <2>1 DEF IInv, UpToDate, SameData
<1> QED
  BY <1>1, Invariance, PTL

=============================================================================
