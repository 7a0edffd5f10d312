------------------------- MODULE KubernetesBackend -------------------------
(***************************************************************************)
(* The Kubernetes backend (envproxy-agent/src/backend/kubernetes.rs): the  *)
(* Secret is read at start, then a background task follows it through the  *)
(* events of kube's watcher, which lists the Secret first and watches it   *)
(* from there on.                                                          *)
(*                                                                         *)
(* The life of the Secret is a sequence of writes, a deletion being one;   *)
(* the position of a write stands for the data it leaves.                  *)
(***************************************************************************)
EXTENDS Naturals, Sequences, FiniteSets

CONSTANTS
  MaxWrites,    \* bound on the writes
  MaxAbsences,  \* bound on how often the Secret does not exist
  MaxErrors     \* bound on the errors of the API server

ASSUME KubernetesBackendAssumption ==
  MaxWrites \in Nat /\ MaxAbsences \in Nat /\ MaxErrors \in Nat

VARIABLES
  secret,   \* what each write left: "present" or "absent"
  data,     \* cache.data: the write it is from, 0 while it is empty from the start
  phase,    \* "load", "serve", or "failed" when new() returns an error
  watcher,  \* kube's watcher: "idle", "list", "watch" or "dropped"
  sent,     \* the last write the watcher has made an event of
  events,   \* the events the task has not taken yet
  errors,   \* how many errors there have been
  listed    \* (history variable) the newest write when the watcher listed

vars == <<secret, data, phase, watcher, sent, events, errors, listed>>

Newest == Len(secret)
Present(n) == n > 0 /\ secret[n] = "present"

\* Two writes leave the same data if both leave no Secret: the cache is empty then.
SameData(m, n) == m = n \/ (~ Present(m) /\ ~ Present(n))

Init ==
  /\ \E kind \in {"present", "absent"} : secret = <<kind>>
  /\ data = 0 /\ phase = "load"
  /\ watcher = "idle" /\ sent = 0 /\ events = <<>>
  /\ errors = 0 /\ listed = 0

-----------------------------------------------------------------------------

\* new: there is no configuration to make a client of.
ClientFails ==
  /\ phase = "load"
  /\ phase' = "failed"
  /\ UNCHANGED <<secret, data, watcher, sent, events, errors, listed>>

\* A mutant: the task is spawned only if there is a Secret to follow.
LoadSpawnsIfFound ==
  /\ phase = "load"
  /\ data' = IF Present(Newest) THEN Newest ELSE 0
  /\ phase' = "serve" /\ watcher' = IF Present(Newest) THEN "list" ELSE "idle"
  /\ UNCHANGED <<secret, sent, events, errors, listed>>

\* new: the Secret is read, and the task is spawned.
Load ==
  /\ phase = "load"
  /\ data' = IF Present(Newest) THEN Newest ELSE 0
  /\ phase' = "serve" /\ watcher' = "list"
  /\ UNCHANGED <<secret, sent, events, errors, listed>>

\* new: any other error is taken for a Secret that does not exist.
LoadFails ==
  /\ phase = "load"
  /\ errors < MaxErrors
  /\ errors' = errors + 1
  /\ phase' = "serve" /\ watcher' = "list"
  /\ UNCHANGED <<secret, data, sent, events, listed>>

\* The task polls the watcher only until it gets an error.
Polled == \A i \in DOMAIN events : events[i].type # "Err"

\* The watcher's initial list.  Init and InitDone, which the task ignores, are left
\* out: a Secret that is not in the list is no event at all.
List ==
  /\ watcher = "list" /\ Polled
  /\ watcher' = "watch"
  /\ sent' = Newest /\ listed' = Newest
  /\ events' = events \o (IF Present(Newest) THEN <<[type |-> "Apply", of |-> Newest]>> ELSE <<>>)
  /\ UNCHANGED <<secret, data, phase, errors>>

\* The API server sends the next change.
Watch ==
  /\ watcher = "watch" /\ Polled
  /\ sent < Newest
  /\ sent' = sent + 1
  /\ events' = Append(events, [type |-> IF Present(sent + 1) THEN "Apply" ELSE "Delete",
                               of |-> sent + 1])
  /\ UNCHANGED <<secret, data, phase, watcher, errors, listed>>

\* Listing or watching fails: the stream yields the error.  The watcher would list
\* again if it were polled again.
WatcherFails ==
  /\ watcher \in {"list", "watch"} /\ Polled
  /\ errors < MaxErrors
  /\ errors' = errors + 1
  /\ watcher' = "list"
  /\ events' = Append(events, [type |-> "Err"])
  /\ UNCHANGED <<secret, data, phase, sent, listed>>

Event == Head(events)

\* A mutant: the newest of the events that have come in is taken.
ApplyLast ==
  /\ events # <<>> /\ Event.type = "Apply"
  /\ events[Len(events)].type = "Apply"
  /\ data' = events[Len(events)].of
  /\ events' = SubSeq(events, 1, Len(events) - 1)
  /\ UNCHANGED <<secret, phase, watcher, sent, errors, listed>>

\* Apply and InitApply: the data is replaced.
Apply ==
  /\ events # <<>> /\ Event.type = "Apply"
  /\ data' = Event.of
  /\ events' = Tail(events)
  /\ UNCHANGED <<secret, phase, watcher, sent, errors, listed>>

\* A mutant: a deleted Secret stays in the cache.
DeleteIgnored ==
  /\ events # <<>> /\ Event.type = "Delete"
  /\ events' = Tail(events)
  /\ UNCHANGED <<secret, data, phase, watcher, sent, errors, listed>>

\* Delete: the data is cleared.
Delete ==
  /\ events # <<>> /\ Event.type = "Delete"
  /\ data' = Event.of
  /\ events' = Tail(events)
  /\ UNCHANGED <<secret, phase, watcher, sent, errors, listed>>

\* `while let Ok(..)`: an error ends the loop, and the watcher is dropped with it.
StreamEnds ==
  /\ events # <<>> /\ Event.type = "Err"
  /\ watcher' = "dropped"
  /\ events' = <<>>
  /\ UNCHANGED <<secret, data, phase, sent, errors, listed>>

Absences == Cardinality({n \in 1..Newest : secret[n] = "absent"})

\* Somebody writes or deletes the Secret.
Write(kind) ==
  /\ Newest < MaxWrites
  /\ kind = "absent" => Present(Newest) /\ Absences < MaxAbsences
  /\ secret' = Append(secret, kind)
  /\ UNCHANGED <<data, phase, watcher, sent, events, errors, listed>>

Task == Apply \/ Delete \/ StreamEnds

Next ==
  \/ ClientFails \/ Load \/ LoadFails
  \/ List \/ Watch \/ WatcherFails
  \/ Task
  \/ \E kind \in {"present", "absent"} : Write(kind)

\* The agent's runtime polls the task, and with it the watcher; the API server sends
\* what it has.
Fairness == WF_vars(Task) /\ WF_vars(List) /\ WF_vars(Watch)

Spec == Init /\ [][Next]_vars /\ Fairness

-----------------------------------------------------------------------------

Events == [type : {"Apply", "Delete"}, of : 1..Newest] \cup [type : {"Err"}]

TypeOK ==
  /\ secret \in Seq({"present", "absent"}) /\ Newest \in 1..(MaxWrites + 1)
  /\ data \in 0..Newest
  /\ phase \in {"load", "serve", "failed"}
  /\ watcher \in {"idle", "list", "watch", "dropped"}
  /\ sent \in 0..Newest /\ listed \in 0..Newest
  /\ events \in Seq(Events)
  /\ errors \in 0..MaxErrors
  /\ watcher = "idle" <=> phase # "serve"
  /\ watcher = "dropped" => events = <<>>

\* The data never goes back to an older one: what the start has read is not newer
\* than what the watcher lists later, and events come in order.
NeverBackwards == [][data' >= data]_vars

\* The watcher follows the Secret and the task has taken all its events.
CaughtUp == watcher = "watch" /\ sent = Newest /\ events = <<>>

\* Then the cache is in sync with the Secret, unless it did not exist when the watcher
\* listed it and has not been written since: if the start has read it and it was deleted
\* before the list, no event ever tells.
InSyncWhenCaughtUp ==
  CaughtUp /\ (Present(listed) \/ listed < Newest) => SameData(data, Newest)

Served == <>(phase = "serve")

\* If the API server never fails and the Secret is there in the end, its data is what
\* is served in the end, whatever has happened to it before and during the start.
Follows ==
  Served /\ [](errors = 0) /\ <>[]Present(Newest) => <>[](data = Newest)

\* "Keeps the cache in sync with the Secret": once the Secret is left alone, what is
\* served is what it holds.
KeepsInSync == Served => <>[]SameData(data, Newest)

=============================================================================
