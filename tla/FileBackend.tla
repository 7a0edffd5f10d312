---------------------------- MODULE FileBackend ----------------------------
(***************************************************************************)
(* The file backend (envproxy-agent/src/backend/file.rs): a JSON file that *)
(* is read at start and again whenever its modification time is not the    *)
(* one remembered.  One task per connection resolves a key while somebody  *)
(* else replaces, truncates and deletes the file.                          *)
(*                                                                         *)
(* The life of the file is a sequence of writes, a deletion being one; the *)
(* position of a write stands for the content it leaves, and for the       *)
(* modification time: no two writes share one.                             *)
(***************************************************************************)
EXTENDS Integers, Sequences, FiniteSets, FiniteSetsExt

CONSTANTS
  Tasks,         \* the connection tasks that resolve keys
  None,          \* Rust's None: no modification time
  Err,           \* BackendError
  QuietStartup,  \* nobody writes between the two steps of the startup load
  MaxWrites,     \* bound on the writes
  MaxAbsences    \* bound on how often the file is missing

ASSUME FileBackendAssumption ==
  /\ QuietStartup \in BOOLEAN
  /\ MaxWrites \in Nat /\ MaxAbsences \in Nat
  /\ None \notin Nat /\ Err \notin Nat

VARIABLES
  history,        \* what each write left: "json", "broken" (not JSON) or "absent"
  data,           \* cache.data: the write whose content it is
  last_modified,  \* cache.last_modified
  startup,        \* where FileBackend::new is; "done" when requests are served
  pc,             \* task -> where it is in resolve
  mtime,          \* task -> current_mtime
  contents,       \* task -> the write whose content it has read
  answer,         \* task -> what it has returned: the write the answer is from, or Err
  seen,           \* task -> (history variable) the newest write when its call began
  oldest          \* task -> (history variable) the least seen of the calls under way then

agent == <<data, last_modified, startup>>
task  == <<pc, mtime, contents, answer, seen, oldest>>
vars  == <<history, agent, task>>

Newest == Len(history)
Kind   == history[Newest]

\* A mutant: the epoch is the time of a missing file.
MtimeOrEpoch == IF Kind = "absent" THEN 0 ELSE Newest

\* fs::metadata(path).modified(): None if there is no file.
Mtime == IF Kind = "absent" THEN None ELSE Newest

Init ==
  /\ \E kind \in {"json", "broken", "absent"} : history = <<kind>>
  /\ data = 0 /\ last_modified = None
  /\ startup = "read"
  /\ pc = [t \in Tasks |-> "idle"]
  /\ mtime = [t \in Tasks |-> None]
  /\ contents = [t \in Tasks |-> 0]
  /\ answer = [t \in Tasks |-> Err]
  /\ seen = [t \in Tasks |-> 0]
  /\ oldest = [t \in Tasks |-> 0]

-----------------------------------------------------------------------------
(* FileBackend::new: the content is read first, its time is asked for next.  *)

LoadRead ==
  /\ startup = "read"
  /\ startup' = CASE Kind = "json"   -> "stat"
                  [] Kind = "absent" -> "done"
                  [] Kind = "broken" -> "failed"
  /\ data' = IF Kind = "broken" THEN data ELSE Newest
  /\ UNCHANGED <<history, last_modified, task>>

LoadStat ==
  /\ startup = "stat"
  /\ startup' = "done"
  /\ last_modified' = Mtime
  /\ UNCHANGED <<history, data, task>>

-----------------------------------------------------------------------------
(* resolve: the time is asked for first, the content is read next.           *)

Goto(t, label) == pc' = [pc EXCEPT ![t] = label]

Return(t, result) ==
  /\ Goto(t, "idle")
  /\ answer' = [answer EXCEPT ![t] = result]

Call(t) ==
  /\ startup = "done"
  /\ pc[t] = "idle"
  /\ Goto(t, "stat")
  /\ seen' = [seen EXCEPT ![t] = Newest]
  /\ oldest' = [oldest EXCEPT ![t] =
                  Min({Newest} \cup {seen[u] : u \in {v \in Tasks : pc[v] # "idle"}})]
  /\ answer' = [answer EXCEPT ![t] = Err]
  /\ UNCHANGED <<history, agent, mtime, contents>>

Stat(t) ==
  /\ pc[t] = "stat"
  /\ Goto(t, "check")
  /\ mtime' = [mtime EXCEPT ![t] = Mtime]
  /\ UNCHANGED <<history, agent, contents, answer, seen, oldest>>

NeedsReload(t) == last_modified # mtime[t]

Check(t) ==
  /\ pc[t] = "check"
  /\ Goto(t, IF NeedsReload(t) THEN "read" ELSE "get")
  /\ UNCHANGED <<history, agent, mtime, contents, answer, seen, oldest>>

\* The file is read: a missing one empties the cache, a broken one does not.
Read(t) ==
  /\ pc[t] = "read"
  /\ Kind # "broken"
  /\ Goto(t, IF Kind = "absent" THEN "clear" ELSE "store")
  /\ contents' = [contents EXCEPT ![t] = Newest]
  /\ UNCHANGED <<history, agent, mtime, answer, seen, oldest>>

\* A mutant: the time of a file that cannot be parsed is remembered.
ReadFailsOnce(t) ==
  /\ pc[t] = "read"
  /\ Return(t, Err)
  /\ last_modified' = mtime[t]
  /\ UNCHANGED <<history, data, startup, mtime, contents, seen, oldest>>

\* The file cannot be read, or its content not parsed.
ReadFails(t) ==
  /\ pc[t] = "read"
  /\ Return(t, Err)
  /\ UNCHANGED <<history, agent, mtime, contents, seen, oldest>>

Clear(t) ==
  /\ pc[t] = "clear"
  /\ data' = contents[t]
  /\ last_modified' = None
  /\ Return(t, contents[t])
  /\ UNCHANGED <<history, startup, mtime, contents, seen, oldest>>

\* A mutant: the time is asked for after the content has been read.
StoreWithMtimeNow(t) ==
  /\ pc[t] = "store"
  /\ data' = contents[t]
  /\ last_modified' = Mtime
  /\ Goto(t, "get")
  /\ UNCHANGED <<history, startup, mtime, contents, answer, seen, oldest>>

\* The content goes into the cache with the time asked for before it was read.
Store(t) ==
  /\ pc[t] = "store"
  /\ data' = contents[t]
  /\ last_modified' = mtime[t]
  /\ Goto(t, "get")
  /\ UNCHANGED <<history, startup, mtime, contents, answer, seen, oldest>>

\* The lock has been given up in between: the cache may be another task's by now.
Get(t) ==
  /\ pc[t] = "get"
  /\ Return(t, data)
  /\ UNCHANGED <<history, agent, mtime, contents, seen, oldest>>

-----------------------------------------------------------------------------

Absences == Cardinality({n \in 1..Newest : history[n] = "absent"})

\* Somebody replaces the file, truncates it to write it in place, or deletes it.
Write(kind) ==
  /\ Newest < MaxWrites
  /\ kind = "absent" => Kind # "absent" /\ Absences < MaxAbsences
  /\ QuietStartup => startup # "stat"
  /\ history' = Append(history, kind)
  /\ UNCHANGED <<agent, task>>

Next ==
  \/ LoadRead \/ LoadStat
  \/ \E t \in Tasks : \/ Call(t) \/ Stat(t) \/ Check(t) \/ Read(t) \/ ReadFails(t)
                      \/ Clear(t) \/ Store(t) \/ Get(t)
  \/ \E kind \in {"json", "broken", "absent"} : Write(kind)

Spec == Init /\ [][Next]_vars

-----------------------------------------------------------------------------

TypeOK ==
  /\ history \in Seq({"json", "broken", "absent"}) /\ Newest \in 1..(MaxWrites + 1)
  /\ data \in 0..Newest
  /\ last_modified \in 1..Newest \cup {None}
  /\ startup \in {"read", "stat", "done", "failed"}
  /\ pc \in [Tasks -> {"idle", "stat", "check", "read", "clear", "store", "get"}]
  /\ mtime \in [Tasks -> 1..Newest \cup {None}]
  /\ contents \in [Tasks -> 0..Newest]
  /\ answer \in [Tasks -> 0..Newest \cup {Err}]
  /\ seen \in [Tasks -> 0..Newest]
  /\ oldest \in [Tasks -> 0..Newest]

\* While the remembered time is the file's, the cache holds the file's content:
\* "if the file has changed since the last load, it is re-read" can rely on it.
CacheInSync ==
  startup = "done" /\ last_modified # None /\ last_modified = Mtime => data = Newest

\* The inductive invariant behind it: a content is never older than the time that
\* is remembered with it, because resolve asks for the time first, and the startup
\* load, which does not, is over before the file changes again.
NeverOlder ==
  /\ last_modified # None => data >= last_modified
  /\ \A t \in Tasks : pc[t] = "store" /\ mtime[t] # None => contents[t] >= mtime[t]
  /\ startup \in {"read", "stat"} => /\ last_modified = None
                                    /\ \A t \in Tasks : pc[t] = "idle"
  /\ startup = "stat" => data = Newest

\* The file was missing at one of the given writes.
Missing(from, to) == \E n \in DOMAIN history : from <= n /\ n <= to /\ history[n] = "absent"

\* A content is no older than the write `from`, or is cached without a time and stands for
\* a file that is missing: so is one that was read when the file, missing when its time
\* was asked for, was there again.
NotBefore(content, from) ==
  \/ content >= from
  \/ last_modified = None /\ Missing(from, Newest) /\ Missing(1, content)

\* A request is answered from a content the file had during that request or during
\* one that was under way when it began.  The exception is a file that has been missing
\* since then, and was before: what was read in between may be served without the file.
AnswerNotOlder ==
  [][\A t \in Tasks : pc[t] # "idle" /\ pc'[t] = "idle" /\ answer'[t] # Err =>
       NotBefore(answer'[t], oldest[t])]_vars

\* The inductive invariant behind it.  None of the calls under way began before what any
\* of them may answer; a time asked for, and a content read, are not older than the call;
\* and what is in the cache without a time was there when the file had been missing.
CallInv(t) ==
  /\ pc[t] # "idle" => \A u \in Tasks : pc[u] # "idle" => oldest[t] <= seen[u]
  /\ pc[t] \in {"check", "read"} =>
       IF mtime[t] = None THEN Missing(seen[t], Newest) ELSE mtime[t] >= seen[t]
  /\ pc[t] \in {"store", "clear"} =>
       contents[t] >= seen[t] /\ (pc[t] = "clear" \/ mtime[t] = None => Missing(1, contents[t]))
  /\ pc[t] = "get" => NotBefore(data, oldest[t])

LoadInv ==
  /\ startup # "done" => \A t \in Tasks : pc[t] = "idle"
  /\ startup = "stat" => Kind = "json"
  /\ startup = "done" /\ last_modified = None => Missing(1, data)

AnswersInv == LoadInv /\ \A t \in Tasks : CallInv(t)

\* Two writes leave the same content if both delete the file.
SameContent(m, n) == m = n \/ {history[m], history[n]} = {"absent"}

\* What the documentation says of resolve, for a request with no older one beside
\* it: a change made before the request began is in the answer.
ChangeIsSeen ==
  \A t \in Tasks : answer[t] # Err /\ oldest[t] = seen[t] =>
    \E n \in seen[t]..Newest : SameContent(answer[t], n)

=============================================================================
