---------------------------- MODULE VaultBackend ----------------------------
(***************************************************************************)
(* The Vault backend (envproxy-agent/src/backend/vault.rs): the read-      *)
(* through cache behind resolve_with_value, run by one task per connection, *)
(* over a KV v2 store whose secrets are rotated while the tasks run.        *)
(*                                                                         *)
(* A secret's value is abstracted to where it comes from: path, key and    *)
(* version number.  Time is counted in units of a Tick.                    *)
(***************************************************************************)
EXTENDS Integers, Sequences, FiniteSets

CONSTANTS
  Tasks,       \* the connection tasks that resolve references
  Texts,       \* the reference texts, those the cache is indexed by included
  Asked,       \* the texts the clients send
  Paths,       \* the <mount, path> pairs a reference may name
  Keys,        \* the keys a secret may have, those included that hold '#'
  Contents,    \* the sets of keys that are written
  Versions,    \* the version numbers a reference may name (0 is the newest)
  None,        \* Rust's None
  Parse,       \* parse_vault_ref: text -> reference or None
  CanonicalText, \* reference -> the text the cache files it under
  CacheTTL,    \* cache_ttl
  MaxFetch,    \* how long an answer of Vault may take to reach the cache
  MaxTime,     \* bound on the clock
  MaxVersions  \* bound on the versions written to a path

Refs    == [path : Paths, key : Keys, version : Versions \cup {None}]
Secrets == [path : Paths, key : Keys, version : Nat]
Entries == [secret : Secrets, expires_at : Nat]
Writes  == [keys : SUBSET Keys, at : Nat]
Fetches == [version : Nat, at : Nat]
Answers == [kind : {"found", "not_found"}, secret : Secrets, at : Nat]
             \cup [kind : {"error"}, at : Nat]

\* What is filed is found, if at all, by the reference it has been filed for, or, where a
\* key that holds '#' has been read without a version, by one to a version of another key
\* of the secret: VaultRef's RoundTrip (`Finds`).
ASSUME VaultBackendAssumption ==
  /\ Asked \subseteq Texts /\ None \notin Texts /\ Contents \subseteq SUBSET Keys
  /\ Versions \subseteq Nat /\ None \notin Versions \cup Answers
  /\ Parse \in [Texts -> Refs \cup {None}] /\ None \notin Refs
  /\ CanonicalText \in [Refs -> Texts]
  /\ \A ref \in Refs :
       LET found == Parse[CanonicalText[ref]]
       IN  \/ found \in {None, ref}
           \/ ref.version = None /\ found.path = ref.path /\ found.version # None
  /\ CacheTTL \in Nat /\ MaxFetch \in Nat /\ MaxTime \in Nat /\ MaxVersions \in Nat

VARIABLES
  clock,    \* Instant::now()
  vault,    \* the store: path -> sequence of versions, each with its keys and date
  cache,    \* text -> CacheEntry or None
  pc,       \* task -> where it is in resolve_with_value
  value,    \* task -> the reference text it resolves
  fetched,  \* task -> the version Vault has answered with, and when it did
  answer    \* task -> what resolve_with_value has returned

vars == <<clock, vault, cache, pc, value, fetched, answer>>

-----------------------------------------------------------------------------

Pinned(ref) == ref.version \notin {None, 0}

\* The reference a task resolves.
Ref(t) == Parse[value[t]]

\* What is filed under a text besides the reference it means: "<key>#<number>", as a key
\* that is read without a version.
Aliases ==
  [s \in Texts |-> {ref \in Refs : /\ ref.version = None /\ CanonicalText[ref] = s
                                    /\ ref # Parse[s]}]

\* A mutant: the version asked for is taken for the version read.
SecretAsAsked(ref, n) == [path |-> ref.path, key |-> ref.key, version |-> ref.version]

Secret(ref, n) == [path |-> ref.path, key |-> ref.key, version |-> n]

Found(secret)    == [kind |-> "found",     secret |-> secret, at |-> clock]
NotFound(secret) == [kind |-> "not_found", secret |-> secret, at |-> clock]
Err              == [kind |-> "error", at |-> clock]

Return(t, result) ==
  /\ pc' = [pc EXCEPT ![t] = "idle"]
  /\ answer' = [answer EXCEPT ![t] = result]

Init ==
  /\ clock = 0
  /\ vault = [p \in Paths |-> <<>>]
  /\ cache = [s \in Texts |-> None]
  /\ pc = [t \in Tasks |-> "idle"]
  /\ value = [t \in Tasks |-> None]
  /\ fetched = [t \in Tasks |-> None]
  /\ answer = [t \in Tasks |-> None]

\* A connection's request reaches the backend.
Call(t, s) ==
  /\ pc[t] = "idle"
  /\ pc' = [pc EXCEPT ![t] = "lookup"]
  /\ value' = [value EXCEPT ![t] = s]
  /\ answer' = [answer EXCEPT ![t] = None]
  /\ UNCHANGED <<clock, vault, cache, fetched>>

\* parse_vault_ref refuses the text: BackendError::Parse.
Refuse(t) ==
  /\ pc[t] = "lookup"
  /\ Ref(t) = None
  /\ Return(t, Err)
  /\ UNCHANGED <<clock, vault, cache, value, fetched>>

\* The cache is looked up, under its read lock, by the text of the request.
LiveForever(s) == cache[s] # None  \* A mutant: entries do not expire.

Live(s) == cache[s] # None /\ cache[s].expires_at > clock

CacheHit(t) ==
  /\ pc[t] = "lookup"
  /\ Ref(t) # None
  /\ Live(value[t])
  /\ Return(t, Found(cache[value[t]].secret))
  /\ UNCHANGED <<clock, vault, cache, value, fetched>>

CacheMiss(t) ==
  /\ pc[t] = "lookup"
  /\ Ref(t) # None
  /\ ~ Live(value[t])
  /\ pc' = [pc EXCEPT ![t] = "fetch"]
  /\ UNCHANGED <<clock, vault, cache, value, fetched, answer>>

\* kv2::read or kv2::read_version: Vault reads the newest version or the one named.
ReadNewest(ref) == Len(vault[ref.path])  \* A mutant: the version is ignored.

ReadVersion(ref) == IF Pinned(ref) THEN ref.version ELSE Len(vault[ref.path])

VaultReads(t) ==
  LET n == ReadVersion(Ref(t))
  IN  /\ pc[t] = "fetch"
      /\ n \in 1..Len(vault[Ref(t).path])
      /\ pc' = [pc EXCEPT ![t] = "store"]
      /\ fetched' = [fetched EXCEPT ![t] = [version |-> n, at |-> clock]]
      /\ UNCHANGED <<clock, vault, cache, value, answer>>

\* No such secret or version, no permission, or Vault is away.
VaultFails(t) ==
  /\ pc[t] = "fetch"
  /\ Return(t, Err)
  /\ UNCHANGED <<clock, vault, cache, value, fetched>>

\* Vault's answer is here: under the cache's write lock every key of the secret
\* is filed, for CacheTTL from now on, and the one asked for is returned.

Siblings(path, keys, version) ==
  {[path |-> path, key |-> key, version |-> version] : key \in keys}

FiledUnder(refs, n) ==
  [s \in Texts |->
     LET filed == {ref \in refs : CanonicalText[ref] = s}
     IN  IF filed = {} THEN cache[s]
         ELSE [secret     |-> Secret(CHOOSE ref \in filed : TRUE, n),
               expires_at |-> clock + CacheTTL]]

\* A mutant: keys the secret does not have are filed too.
FiledAllKeys(ref, n) == FiledUnder(Siblings(ref.path, Keys, ref.version), n)

\* A mutant: a version read by its number is filed as the newest one too.
FiledAllVersions(ref, n) ==
  FiledUnder(UNION {Siblings(ref.path, vault[ref.path][n].keys, version) :
                      version \in {ref.version, None}}, n)

Filed(ref, n) ==
  FiledUnder(Siblings(ref.path, vault[ref.path][n].keys, ref.version), n)

StoreAndReply(t) ==
  LET ref == Ref(t)
      n   == fetched[t].version
  IN  /\ pc[t] = "store"
      /\ cache' = Filed(ref, n)
      /\ Return(t, IF ref.key \in vault[ref.path][n].keys
                     THEN Found(Secret(ref, n)) ELSE NotFound(Secret(ref, n)))
      /\ fetched' = [fetched EXCEPT ![t] = None]
      /\ UNCHANGED <<clock, vault, value>>

\* Somebody writes a new version of a secret.
PutSecret(p, keys) ==
  /\ Len(vault[p]) < MaxVersions
  /\ vault' = [vault EXCEPT ![p] = Append(@, [keys |-> keys, at |-> clock])]
  /\ UNCHANGED <<clock, cache, pc, value, fetched, answer>>

\* Time passes; no answer of Vault is under way for longer than MaxFetch.
Tick ==
  /\ clock < MaxTime
  /\ \A t \in Tasks : pc[t] = "store" => clock < fetched[t].at + MaxFetch
  /\ clock' = clock + 1
  /\ UNCHANGED <<vault, cache, pc, value, fetched, answer>>

Next ==
  \/ \E t \in Tasks :
       \/ \E s \in Asked : Call(t, s)
       \/ Refuse(t) \/ CacheHit(t) \/ CacheMiss(t)
       \/ VaultReads(t) \/ VaultFails(t) \/ StoreAndReply(t)
  \/ \E p \in Paths, keys \in Contents : PutSecret(p, keys)
  \/ Tick

Spec == Init /\ [][Next]_vars

-----------------------------------------------------------------------------

TypeOK ==
  /\ clock \in Nat
  /\ vault \in [Paths -> Seq(Writes)]
  /\ cache \in [Texts -> Entries \cup {None}]
  /\ pc \in [Tasks -> {"idle", "lookup", "fetch", "store"}]
  /\ value \in [Tasks -> Asked \cup {None}]
  /\ fetched \in [Tasks -> Fetches \cup {None}]
  /\ answer \in [Tasks -> Answers \cup {None}]

Answered(t) == answer[t] # None /\ answer[t].kind # "error"

\* A secret is handed out for at most CacheTTL + MaxFetch after a newer version
\* of it was written: the README's "every running instance picks it up within the
\* cache TTL", with the time an answer of Vault is under way made explicit.
FreshEnough ==
  \A t \in Tasks : Answered(t) /\ ~ Pinned(Ref(t)) =>
    \A m \in 1..Len(vault[Ref(t).path]) :
      m > answer[t].secret.version =>
        answer[t].at <= vault[Ref(t).path][m].at + CacheTTL + MaxFetch

\* Whatever other tasks have put into the cache, the answer is of the path and key
\* asked for, is a version that exists, and has the key exactly if it says so.  The one
\* exception is a reference that names a version: it may be answered from the key of the
\* secret that reads like the whole of what it names, "<key>#<version>".
RightSecret ==
  \A t \in Tasks : Answered(t) =>
    LET secret == answer[t].secret
        has    == secret.key \in vault[secret.path][secret.version].keys
    IN  /\ secret.path = Ref(t).path
        /\ secret.version \in 1..Len(vault[secret.path])
        /\ answer[t].kind = "found" <=> has
        /\ \/ secret.key = Ref(t).key
           \/ /\ has /\ Ref(t).version # None
              /\ \E alias \in Aliases[value[t]] : secret.key = alias.key

\* A reference that pins a version gets that version, before and after rotations
\* and whatever the newest one in the cache is, as long as no version of the secret
\* has had a key "<key>#<version>" of its own.
Taken(t) ==
  \E m \in 1..Len(vault[Ref(t).path]), alias \in Aliases[value[t]] :
    alias.key \in vault[Ref(t).path][m].keys

PinnedExact ==
  \A t \in Tasks : Answered(t) /\ Pinned(Ref(t)) /\ ~ Taken(t) =>
    answer[t].secret = Secret(Ref(t), Ref(t).version)

-----------------------------------------------------------------------------
(* The inductive invariant behind them: what is in the cache, what is under   *)
(* way and what has been answered may all be served, each until its time.     *)

MayServe(ref, n, until) ==
  /\ n \in 1..Len(vault[ref.path])
  /\ IF Pinned(ref) THEN n = ref.version
     ELSE \A m \in 1..Len(vault[ref.path]) :
            m > n => until <= vault[ref.path][m].at + CacheTTL + MaxFetch

FiledFor(s, ref) ==
  /\ CanonicalText[ref] = s
  /\ cache[s].secret = Secret(ref, cache[s].secret.version)
  /\ MayServe(ref, cache[s].secret.version, cache[s].expires_at)
  /\ ref.key \in vault[ref.path][cache[s].secret.version].keys

CacheSound ==
  \A s \in Texts : cache[s] # None =>
    cache[s].expires_at <= clock + CacheTTL /\ \E ref \in Refs : FiledFor(s, ref)

FetchOK(t) ==
  /\ IF pc[t] = "idle" THEN value[t] = None <=> answer[t] = None
                       ELSE value[t] # None /\ answer[t] = None
  /\ pc[t] \in {"fetch", "store"} => Ref(t) # None
  /\ pc[t] = "store" =>
       /\ fetched[t] \in Fetches
       /\ fetched[t].at <= clock /\ clock <= fetched[t].at + MaxFetch
       /\ MayServe(Ref(t), fetched[t].version, fetched[t].at + CacheTTL + MaxFetch)

AnswerFor(t, ref) ==
  /\ answer[t].secret = Secret(ref, answer[t].secret.version)
  /\ MayServe(ref, answer[t].secret.version, answer[t].at)
  /\ answer[t].kind = "found"
       <=> ref.key \in vault[ref.path][answer[t].secret.version].keys
  /\ ref = Ref(t) \/ answer[t].kind = "found"

AnswerOK(t) ==
  Answered(t) =>
    /\ value[t] # None /\ Ref(t) # None /\ answer[t].at <= clock
    /\ \E ref \in {Ref(t)} \cup Aliases[value[t]] : AnswerFor(t, ref)

FetchSound  == \A t \in Tasks : FetchOK(t)
AnswerSound == \A t \in Tasks : AnswerOK(t)

IInv == TypeOK /\ CacheSound /\ FetchSound /\ AnswerSound

\* The cache and the fetches are invisible but for the bound: the backend
\* implements BoundedStaleness, a task being a client whose question is pending
\* until resolve_with_value returns.  (Aliases is the one above.)
Abstract == INSTANCE BoundedStaleness WITH
  Clients <- Tasks, Requests <- Asked, Bound <- CacheTTL + MaxFetch,
  asked <- value, reply <- answer

ImplementsBoundedStaleness == Abstract!Spec

=============================================================================
