# A TLA+ verification of EnvProxy

EnvProxy lets an application read secrets through its environment: a variable
whose value is a reference (`vault:secret/data/db#password`) is resolved by an
*agent* over a Unix socket at the moment the application reads it. A preloaded C
library (`libenvproxy`), a Python hook or a Java hook asks the agent; the agent
asks Vault, a JSON file or a Kubernetes Secret, through a cache.

Nothing in the system is large, but every secret passes two or three caches that
several tasks and threads share, and each part is allowed to stop, hang or come
back at any time. The questions asked here are therefore: *how old can an answer
be, can it be the answer to another question, does the call return, and what
keeps the agent able to answer.*

- [Inventory](#inventory)
- [Modules and the code](#modules-and-the-code)
- [Runs](#runs)
- [Proofs](#proofs)
- [Findings](#findings)
- [What is not modelled](#what-is-not-modelled)
- [Plan](#plan)

To run a model: `tlc -config MCVaultBackend.cfg MCVaultBackend.tla`; to check a
proof module: `tlapm VaultBackendProofs.tla`.

## Inventory

Paths are relative to `src/`.

| Component | State | Operations | Hard behaviour | What makes it correct |
|---|---|---|---|---|
| Reference notation `crates/envproxy-proto/src/lib.rs`, `parse_vault_ref` | none | parse; print as cache key (`vault.rs`) | version 0, `01`, a missing `/data/`, `#` in three places | what is filed is found again; two references never share a cache entry |
| Wire protocol, same file | none | encode and decode requests and responses | 16-bit lengths, truncated messages | round trip; a message that cannot be encoded is noticed |
| Vault backend, secrets `crates/envproxy-agent/src/backend/vault.rs` | `cache`: text → secret, expiry | `resolve_with_value`, one task per connection | the lock is given up while Vault is asked; answers are filed in any order; secrets rotate and lose keys | bounded staleness, right path and key, pinned versions exact |
| Vault backend, token, same file | token, lease | login, `token_renewal_loop` | failed or slow renewals, a lease shorter than the minimum sleep, maximum time to live | the token is valid whenever it is used |
| File backend `.../backend/file.rs` | `data`, `last_modified` | startup load, `resolve` | read and stat are two steps, in different orders at start and later; concurrent reloads; truncated and deleted files | the remembered time vouches for the content |
| Kubernetes backend `.../backend/kubernetes.rs` | `data`, a background task | initial load, watcher events, `resolve` | two reads at start, ignored `InitDone`, errors of the stream | never goes back, in sync in the end |
| Agent configuration `.../config.rs`, the backends' `new`, HTTP backend, backend trait | none after start | parse, defaults, durations, where a token comes from | written by one program and parsed by another; units, spaces, overflow | a duration means what it says; what the injector writes is what the agent needs |
| Agent process and server `.../server.rs`, `main.rs` | socket file, connections | bind, accept, one task per connection, shutdown | clients that hang up, hang or time out; descriptors run out; `accept` errors end the agent; several agents on one path | each connection is answered or closed; the agent stays able to answer |
| `libenvproxy` `crates/libenvproxy/src/lib.rs` | none across calls (the pointer table of the C library aside) | `getenv`, `query_agent`; a constructor that changes the environment | a timeout races a late answer; the agent stops between connect, send and receive; every program of a chain runs the constructor again | the call returns, with its own answer or the real value; what the user has set stays |
| Python hook `support/python/_envproxy_hook.py` | `_cache` per variable | `__getitem__`, `__setitem__`, `__delitem__`, iteration | threads are preempted anywhere; a write races a lookup; failures are cached | staleness adds up and no more; superseded references die out |
| Java hook `support/java/src/envproxy/` | cache per variable | `get`, iteration, installation by reflection | no timeouts; the wall clock, which may be set back | as the Python hook, without writes; waits for the backend only |
| CLI `crates/envproxy-cli/src/main.rs` | child process | `run`, `get`, `init`, `status` | waits for a *file*, not a listener; five programs work out the socket by themselves | the program starts with an agent that answers, and asks the one that was waited for |
| Injector `k8s/injector/internal/webhook/` | none | `mutatePod` | pods submitted again, with their status or without; containers without a command, or with variables of their own; a configuration another program must accept | containers execute what was asked for and ask their own agent; the agent can start |
| Injector certificates `k8s/injector/internal/tls/` | CA, bundle in the API server | generate, patch the webhook | every replica overwrites the bundle; the update is made before the replica serves | a replica that is ready is trusted; no pod is missed |

How they interact:

    application thread --getenv/os.environ/System.getenv--> libenvproxy | hook cache
       --one connection per lookup, request, response--> server task
       --resolve_with_value--> backend cache --read--> Vault | file | API server

Each arrow can fail by itself. The applications and the agent share only the
socket; the tasks of the agent share the backend and its cache behind one
read-write lock, which none of them holds while it waits for Vault or the file.

The hazards this leads to are listed line by line in `PROJECT.json`, each with
the properties that would catch it.

## Modules and the code

### VaultRef — the notation

`ParseVaultRef` and `CacheKey` are pure operators over sequences of tokens:
`vault:`, `/`, `#` and maximal runs of other characters. Runs stay whole because
the parser looks only for these separators and for `/data/`, so `data` is a word
of its own. `Numeral` and `Decimal` are `u64::from_str` and `Display`; that two
words may mean one number is kept (`01`). A text without the prefix, which other
code handles, is `None` here.

### WireProtocol — the messages

The encoders and decoders of `envproxy-proto`, the agent's own reading field by field
(`ReadRequest`), and the Java hook's own encoder, as operators over sequences of
octets. An octet has `Octet` values instead of 256, so that the limit of a field is
`MaxLen = Octet^2 - 1` octets and can be crossed. `MCProto` sends a message and lets
its octets arrive one by one: a decoder is asked at each of them, since a single read,
as that of `envproxy get`, may get any part of it.

### AgentConfig — from the TOML tables to a backend

`FromFile` is `Config::from_file` after the TOML text has been parsed: which backend,
the fields it must have, the defaults of the others. `ParseDuration` works on tokens (the
units, spaces, words) and in `Width` values, as a release build does. `NewFile`,
`NewVault`, `NewHttp` and `NewKubernetes` say which outcomes the backends' constructors
may have, as sets: a login or a client may succeed or fail. `MCProto` checks durations;
`Webhook` starts sidecars from what the injector writes.

### Launch and Programs — how a program comes to ask

`Launch` has environments as functions, and of them: `cmd_run` (which variables it sets,
where it finds the library), the library's constructor (`SetupPythonHook`,
`SetupJavaHook`, which directory a hook is taken from), and where the library and the two
hooks look for the socket, each by code of its own. The constructor reads variables
through the library's own `getenv`, so the agent's answer may replace what the variable
holds: the parameter `says`. `Programs` is the chain: a shell exports, a program is
executed, perhaps by `envproxy run`, and the next one inherits. It keeps what the user, or
the agent, has put into the two variables in a history variable. `Injector` uses `Launch`
for the containers of a pod.

### VaultBackend and BoundedStaleness — cached secrets

| Code | Action |
|---|---|
| `resolve_with_value` is entered; `parse_vault_ref` fails | `Call`, `Refuse` |
| lookup under the read lock | `CacheHit`, `CacheMiss` |
| `kv2::read` / `read_version` | `VaultReads`, `VaultFails` |
| write lock: every key of the secret is filed, the reply is made | `StoreAndReply` (`Filed`) |
| somebody rotates the secret | `PutSecret` |

The lookup, Vault's read and the filing are three steps: the code awaits between
them. Filing and replying are one step, under the write lock. A secret's value is
abstracted to the path, key and version it comes from, so that "the right value"
and "how old" can be said. `MaxFetch` is the time Vault's answer takes to reach
the cache. The code sets no such limit; every staleness bound holds *relative* to
it, and the theorems say by how much.

`BoundedStaleness` says what a client may rely on without a cache: an answer is a
version that was the newest at some moment of the last `Bound` time units, or the
pinned one. `ImplementsBoundedStaleness` maps tasks to clients and takes
`CacheTTL + MaxFetch` for the bound. `EnvironHook` uses the same promise for
what the agent answers.

The code files every key of a secret it has read, whatever the key is called. A key
`k#1`, read without a version, is filed under the text of `k` pinned to version 1, and a
request for that is then answered with it. `Aliases` has these references for each text,
from `CanonicalText`, and `BoundedStaleness` takes them as a parameter: an answer may be
that of an alias, provided that the secret has such a key. `RightSecret` and `PinnedExact`
say that this is the only other answer there is, and when it can happen (`Taken`).

### TokenRenewal — the token

The login (`kubernetes_login`) and the loop (`token_renewal_loop`) as calls that
Vault handles at one moment and answers at a later one. `Interval` is the loop's
computation, `max(lease * 2 / 3, 10)`, from the *first* lease. Vault's side
(`RenewGranted`, `RenewRefused`, `Cap`) is external. `Tick` does not pass a
deadline: a call that is not lost takes at most `MaxLatency`, and the sleep ends
when it is due.

### FileBackend — the file

`LoadRead`, `LoadStat` are `FileBackend::new`, which reads first and asks for the
time next; `Stat`, `Check`, `Read`, `Clear`, `Store`, `Get` are `resolve` and
`reload`, which do it the other way round. The locks are held in `Check`, `Clear`,
`Store` and `Get`, each a step of its own. A write to the file is its position in
`history`; so is a modification time, which means that two writes never share one
(on file systems with coarse times they can: not modelled). A truncated file is
`broken`. `seen` and `oldest` are history variables: they say which contents a
request could have met.

### KubernetesBackend — the Secret

`Load`/`LoadFails` are `new`; `List`, `Watch` and `WatcherFails` are what kube's
watcher yields (external, as the task sees it); `Apply`, `Delete` and `StreamEnds`
are the task's `match`. Events are queued: the task takes them one at a time. The
watcher works only while it is polled, and the task stops polling it at an error.

### AgentServer and Getenv — one call

`AgentServer` has the listener, its queue and one task per connection; `Getenv`
EXTENDS it with the threads of the applications, each of one `kind`: native code and the
CLI, Python, or Java. A connection is a record of both ends. What requests and responses
say is abstracted to the connection they were made for, so that an answer that ends up in
another call would be seen. What a backend's `resolve` may come to are the `Outcomes`,
the HTTP backend's error among them. The agent may be stopped, fail and be started at any
time (`Start`, `Stop`, `AcceptFails`); a thread's process may be killed (`Die`); the
backend answers when it likes, or never. The kinds differ in their timeouts: Python has
one on the connection as well (`ConnectTimeout`), Java has none (`Timeout` is not its).

| Code | Action |
|---|---|
| `getenv` for `ENVPROXY_*`, an over-long name, disabled | `Bypass` |
| `getenv` for the rest | `Begin` |
| `UnixStream::connect`, `sock.connect` | `Connect`, `ConnectFails`, `ConnectTimeout` |
| `write_all` | `Send`, `SendFails` |
| read until the response is whole, or the timeout | `Receive`, `ReceiveEof`, `Timeout` |
| `run`'s accept loop | `Accept`, `AcceptFails` |
| `handle_connection` | `ReadRequest`, `ReadFails`, `Answer` |

### AgentLifecycle — the socket file

Several agents, named by the number of their start, on one path, and the
applications that `envproxy run` starts beside them. `Exists`, `Remove`, `Bind` are
`Server::bind`, three steps of which other processes can get in between; `Interrupt`
and `Cleanup` are the Ctrl-C branch of `main`, `Kill` every end that leaves the file
(SIGTERM, which the agent does not handle, a crash, an error of `accept`). `Run`,
`Ready`, `GiveUp` are `cmd_run`; `Install` is the Java agent's check for the file.
`met` and `stale` are history variables: which agents have run beside another one,
and whether there was a file before the first start. bind(2) and listen(2), one call
in the source, are one step. `AgentServer` has what happens inside one agent while
this module keeps the path, so neither repeats the other.

### Injector and Webhook — how pods get an agent

`Injector` has `mutatePod` and `Handle` as operators over pods, and, of the API server
and the kubelet, what makes a pod valid (`Valid`) and what a container executes in the
end (`Executes`, with `cmd_run` and `cmd_init`). A pod is its annotations, volume names
and containers; `containers: " , "`, a list that names none, is kept apart from no list.
A quantity that does not parse makes `MustParse` panic, which controller-runtime turns
into a refusal of the pod. The variables of a container are `Launch`'s, so that the
programs in it start as they do elsewhere, and the configuration that is written is
`AgentConfig`'s: the sidecar's fate (`StartAgent`) is what that module says of it.

`Webhook` EXTENDS it with the replicas of the injector and the API server's calls:

| Code | Action |
|---|---|
| the Deployment starts a replica; `GenerateAndPatch` makes a CA | `Start` |
| `patchWebhookCABundle` | `Get`, `Update`, `Conflict`, `UpdateUnanswered` |
| the manager serves | `Serve` |
| `os.Exit(1)`, the end of a container | `Fails` |
| a pod is created, or copied from one that exists | `Create` |
| the sidecar starts | `StartAgent` |

A replica is the number of its start and so is its CA: a container that is started
again makes a new one. The update carries the `resourceVersion` that was read, so the
API server refuses it if there was another in between. A pod keeps what was `first`
asked for, with which what it executes is compared, over any number of copies.

### EnvironHook — the hooks' caches

`os.environ` and the map behind `System.getenv` as the hooks replace them: the same
cache, so one module with a variable `hook` that says which. One variable, several
threads, because entries of different variables do not touch each other.

| Code | Action |
|---|---|
| `__getitem__`, `get`: a plain value is returned | `Lookup` |
| the cache has an entry that is valid, or not | `CacheHit`, `CacheMiss` |
| `_query_agent`, `queryAgent` | `AgentAnswers`, `AgentFails` |
| the outcome is cached and returned | `Store` |
| `__setitem__`, `__delitem__` (Python) | `Write`, `Invalidate` |
| somebody sets the wall clock back (Java) | `SetBack` |

A thread can be preempted between any two steps. For Python `MaxQuery` bounds a lookup
from its start to its `Store`: the hook's socket timeouts bound the query, not the
scheduling, so it is an assumption on both. Java has no timeout, so there it bounds only
the way from the answer to the `Store`, and the time before may be any. Java's clock that
is set *forward* makes entries expire early, which no property is against.

## Runs

| Run | Checks | Bounds and why they are enough |
|---|---|---|
| `proto` | `RoundTrip`, `DocumentedFormIsCanonical`, `DurationExact`; `RequestFramed`, `ResponseFramed`, `DecodersAgree`; `UsersEntriesKept`, `AskedWhereWaited` | every text of up to 10 tokens: the longest documented form, `vault:m/data/p#k#0`, has 10, and one word, a number with two spellings and `data` are all the parser tells apart; the number is 0, which is no version of its own. Octets of 4 values, so `MaxLen` is 15: field lengths 0, 1, 2, 4, and 15, 16, 18 around the limit, and every sequence of up to 6 octets. Durations of up to 6 tokens with a `u64` of 8 bits: two spaces, a number and a unit on either side of the overflow. Chains of four programs and two exports out of eleven, and the layouts a hook is found in: `run` inside `run`, a variable changed between the two. `RoundTrip` is asked of seven more keys that a secret may hold, with `/` and `#` in them and an empty one |
| `vault` | `FreshEnough`, `RightSecret`, `PinnedExact`, refinement of `BoundedStaleness` | two tasks, one path, two keys and a third that reads like the second and its version, two versions, clock 0..3, TTL and fetch of 1: enough for two crossed fetches, a rotation between them, keys that go, a pinned text filed by an unpinned read, and both expiries. Clients ask for one key unpinned, another one pinned, and text that is no reference |
| `file` | `CacheInSync`, `AnswerNotOlder` | two tasks, three writes after the first, two absences: two reloads overlap and the file still changes before, between and after them; it may be missing, there again, and missing again, which one absence would not show |
| `file_startup` | *violation* of `ChangeIsSeen` | as `file`, with writes during the startup load |
| `getenv` | `OwnAnswer`, `CallReturns`, `JavaReturns`, `ConnectionsDrain` | two threads, a native one beside one of Java or of Python, three connections, two descriptors, a queue of one, one stop: the queue fills, descriptors run out, and a timed-out connection is still held while its thread makes another |
| `renewal` | `ValidWhileReliable` | lease 17 s (interval 11), latency 2, maximum 50 s, clock to 80: several renewals, a shortened last lease, a lost call; 17 > 11 + 2·2 |
| `lifecycle` | `AloneServes`, `SomebodyServes`, `ReadyInFreshPod`, `Recovers` | four starts, two ends, one failure, one application, with and without a file from before: three agents can contend while a fourth comes later, and the starts outnumber the ends and failures, so that `Recovers` is not cut short |
| `hooks` | `FreshEnough`, `SupersededExpires`, `CacheIsCurrent`, `FailureExpires` | Python and Java, two threads, one reference, the variable's name, a plain value and no value, two writes, two versions, clock 0..4 against a total bound of 3, the wall clock set back by up to 2, which is a TTL |
| `kubernetes` | `NeverBackwards`, `InSyncWhenCaughtUp`, `Follows` | four writes after the first, two absences, two errors: deletions before, between and after load and list |
| `kubernetes_error` | *violation* of `KeepsInSync` | one error, no deletion |
| `injector` | `ExecutesAsAsked`, `AsksItsAgent`, `AloneIsTrusted`, `NotMissed`, `Recovers` | three replicas and two ends: two can conflict and a third come after both, and starts outnumber ends, so that `Recovers` is not cut short. Two pods, the second new or a copy; a container with a command, one without and one that is disabled, all with variables the injector sets too; six sets of annotations in which each occurs, the chart's failure policy |
| `injector_relay` | *violation* of `RelayServes` | two replicas, one pod |

Deadlock is checked where the system always has a step: `vault`, `getenv`, `hooks`.
The other models stop when the bounded writes, starts, the clock or the text are used
up, and where an agent's start fails for good. The runs take between a second and three minutes
with two workers; `hooks` is the largest, with 8.5 million states.

Every property of a passing run has a *mutant*: an operator in the same module
(marked "A mutant") that changes a definition the way a plausible bug would, and
under which the property fails.

**Fairness.** Safety runs need none. `Getenv` assumes that a thread inside `getenv`
goes on when it can (operating system), that the accept loop runs and that a
connection task reads what is there (tokio). Each is weak fairness. Nobody is
assumed there to start or stop the agent, to call, or to be killed. That the backend
answers is *not* assumed: `CallReturns` holds without it, because of the timeout
or because an agent that is gone closes the connection; `ConnectionsDrain` has it
as its antecedent, since Vault reads have no timeout, and so has `JavaReturns`, which says
that a Java program waits for the backend and for nothing else. `KubernetesBackend` assumes
that the runtime polls the task and the API server sends what it has; the absence
of errors is the antecedent of `Follows`. `AgentLifecycle` assumes that a running
agent goes on and, for `Recovers`, that one is started whenever none runs: the
sidecar is an ordinary container of its pod, with the pod's restart policy. `Webhook`
assumes the same of the replicas of the injector's Deployment.

In `CallReturns` the wait for a place in the listener's queue, which has no
timeout in the code, ends because the accept loop is fair: it is here that the
accept loop's not waiting for connection tasks matters.

## Proofs

TLAPS checks these for every value of the constants that satisfies the
assumptions named beside them in the modules. A proof over texts and sequences of any
length takes a least or a last position of a kind (`WFMin` of the library, over the order
of the numbers) where one would argue by induction.

**VaultBackendProofs** (`VaultBackendAssumption`: parsing is total; what is filed for a
reference is found by that reference, by a pinned one of the same path if it was read
without a version, or by none, which is what `ProtoProofs` proves of the parser for keys
of any name). `FreshEnough` alone is not inductive: it says nothing of
cache entries and of answers under way. The inductive invariant is

    IInv == TypeOK /\ CacheSound /\ FetchSound /\ AnswerSound

`MayServe(ref, n, until)` is the common part: version *n* exists, is the pinned
one if the reference pins, and otherwise no newer version is older than
`CacheTTL + MaxFetch` at the time `until`. Cache entries satisfy it until they
expire, a fetch under way until its own time plus both, an answer at the moment
it was given. A rotation keeps it since entries expire at `clock + CacheTTL` at
the latest; filing keeps it since a fetch is at most `MaxFetch` old. `CacheSound` says besides for
which reference an entry was filed, and `AnswerSound` that an answer is that of the
reference asked for or of an alias that the secret has (`AliasIs`, `AliasOf`). From `IInv`
follow `Freshness`, `Correctness`, `Pinning`, and, as a step simulation,
`Implementation`: `Spec => Abstract!Spec`, one abstract step for each call, answer,
rotation and tick, a stutter for the rest.

**FileBackendProofs** (`QuietStartup`: nobody writes between the two steps of the
startup load; without it the run `file_startup` is the counterexample). `CacheInSync` needs
`NeverOlder`: the content is never older than the time remembered with it, because
`resolve` asks for the time first. `AnswerNotOlder` needs `AnswersInv` besides: the
request a task answers began no later than any of those under way (`oldest`, `seen`); a
time asked for and a content read are no older than the call; and a content without a time
was read after the file had been missing (`LoadInv`).

The theorems about `TokenRenewal` are in the same module (`TokenRenewalAssumption`:
numbers, and no lease longer than the maximum; `Interval + 2 * MaxLatency < Lease` is a
hypothesis of the property). Its invariant is `TokenIInv == TokenTypeOK /\ InTime`: `InTime`
says from which moment on the token is valid for a lease at each point of the loop. The
two latencies are the answer of one renewal that was
handled at once and the request of the next that was handled late.

**AgentLifecycleProofs** (no assumption but that `None` is no number). `AloneServes`
follows from `AloneInv`, which adds where the file is while a lone agent is between
the steps of `bind`; `SomebodyServes` from `PathInv`: as long as nobody is stopped,
the path is empty after the first removal only while somebody is in front of
`bind`, so that whoever finds the file gone when it comes to remove it, and gives
up, leaves behind one that will serve. `ReadyInFreshPod` needs
`FreshInv`: as long as the path was empty at the beginning and no agent has been stopped
or has met another, a file that is there is the serving agent's own; and an application
that has seen it keeps what it has seen.

**GetenvProofs** (`GetenvAssumption`, which says what the constants are). `OwnAnswer` is
not inductive: it says nothing of answers on their way. The invariant is

    IInv == TypeOK /\ HasConn /\ OwnReply /\ \A t \in Threads : NoResult(t) /\ OwnResult(t)

A thread that waits has a connection; a response is the one to the connection's own
request, and comes with its end; what has been returned is what the thread's connection
said. `ConnsGrow` is the step relation all actions share: connections are only added, and
a closed one keeps what it says. `OwnResult` therefore survives every step but the
thread's own.

**KubernetesBackendProofs** (`KubernetesBackendAssumption`: numbers). The invariant is

    IInv == TypeOK /\ ErrIsLast /\ InOrder /\ UpToDate /\ Unread

The events in the queue are in the order of the writes, between what is served and what
the watcher has come to (`InOrder`); nothing follows an error; and the last of them is
where the watcher is (`UpToDate`), but for a Secret that was gone when it was listed.
`NeverBackwards` needs the order; `InSyncWhenCaughtUp` is `UpToDate` with an empty queue.

**EnvironHookProofs** (`EnvironHookAssumption`: numbers, and that the special values are
none of the others). All four properties at once, from one invariant

    IInv == TypeOK /\ HookInv /\ CacheInv /\ ResultInv /\ \A t \in Threads : ThreadInv(t)

`ThreadInv` says what a thread knows since its lookup began, `CacheInv` that the entry
was true one lookup before its timestamp. A hit is then at most a TTL later on the hook's
own clock, which is `back` behind time: hence the sums in the properties. The history
variable `felt` is a credit that a failure fills and time uses up.

**WebhookProofs** (`WebhookAssumption`: the bounds are numbers, and what is on the volume
are paths; `TemplatesAssumption`:
pods are records of sequences, nobody asks for a pod that claims to be injected or for
the program the injector is going to put into it, and `PYTHONPATH` and `JAVA_TOOL_OPTIONS`
hold paths). `AloneIsTrusted` follows from `AloneInv`:
a replica that has run alone has read the configuration that is there, and entered its
CA into the one that is there, because only a replica that is alive can change it. For the
pods the invariant is `PodsInv`: each is one of the `Forms` of what was `first` asked for,
that itself or that injected once, and the latter if `NotMissed` says so. A copy of a form,
with its status or without, is a form, since `Handle` leaves an injected pod alone, and
adds only what is missing to one that has lost its annotation. `NotMissed` then needs only
that a trusted replica answers. For `ExecutesAsAsked` a container is followed through
`MutateContainer`: its command is found again behind the injected one, and the variables
that are added in front of it, with the command's own among them, leave the others as they
were.

`AsksItsAgent` follows an environment through all the programs that read it. `Injected` is
what it has in common from `EnvIs` on: the pod's socket, and for each language either that
its hook is not wanted or where it is. `run` and the two constructors keep it, since they
write to other variables (`InjectedStays`); a constructor that finds its hook wanted finds
it on the volume (`WantedIs`) and enters it (`SetsHook`). On the other side the agent's
configuration is the injector's, as `Valid` allows only one init container of that name
(`ConfigFileIs`, for which `PodsInv` has `Valid`), and parses to the same socket
(`ConfigIs`).

**ProtoProofs** (`WireProtocolAssumption`: an octet has more than three values;
`VaultRefAssumption`: printing and parsing a number; `MCProtoAssumption`: the values of a
field are what they are called; `ProgramsAssumption`: what is a path). Four invariants, of
messages, of texts, and two of environments.

- `ArrivedInv`: what the other end has is a beginning of what is sent. From it
  `RequestFramed`, `ResponseFramed` and `DecodersAgree`: every field is found where it
  was put (`FieldIs`, `LengthIs`), and a beginning that is shorter than a field wants is
  incomplete to both decoders.
- `TextInv`: a text that begins like a reference has only a reference's tokens, and another
  is no longer than a duration. For `RoundTrip` a text is cut at its first `#` and at its
  first `/data/`, or its first `/`; what is between has no `#`, so that the cache key, put
  together from the parts, is cut at the same places, and only what comes after the first
  `#` can be read in another way (`Finds`). The documented form is one such text, with the
  parts already where they are to be. For `DurationExact`, trimming leaves the text between
  the first and the last token that is no space; that is a number and at most one unit or
  it is refused, in which case no meaning exists either; and the product is taken modulo
  the width.
- `WaitedInv`: while no other socket is exported, the environment names the one that `run`
  has waited for. From it `AskedWhereWaited`, for any exports and any chain of programs.
- `EntriesInv`: `UsersEntriesKept` itself, and that the variables a constructor reads paths
  from hold paths. `Users` takes out of a value the entries that are no hook's, each with
  its place among them, which is a cardinality; so the proof is about what a hook does to
  it. What `FindSupportDir` finds does hold the hook (`SupportDirIs`), so that an entry in
  front of the others (`HookPrepended`) or after them (`HookAppended`) is none of the
  user's, and moves the others' positions without changing how many are before each. The
  constructor for Java runs in the environment that the one for Python has left, which is
  the same to it (`WantedAlike`).

**Only model-checked.** Liveness (`CallReturns`, `JavaReturns`, `ConnectionsDrain`,
`Follows`, `Recovers`): out of the prover's reach. Every invariant and every action property that a
passing run checks is proved as well.

## Findings

Each is a run that TLC ends with a counterexample.

1. `file_startup`: `FileBackend::new` reads the content and asks for the time
   afterwards. A write in between leaves the old content under the new time, and
   it is served until the file changes again (`file.rs:72`, against `file.rs:38-40`).
2. `kubernetes_error`: `while let Ok(Some(event))` ends at the first error; the
   cache is frozen for the life of the agent (`kubernetes.rs:107`, against 46-47).
3. `injector_relay`: for a pod without a Vault address the injector writes a file
   backend on `/dev/null`, which the agent cannot parse: it ends at every start, and
   each wrapped container waits ten seconds and goes on without it (`mutator.go:116`,
   against 112-113).

A fourth disagreement shows in `FileBackend`, for `ChangeIsSeen` with `QuietStartup = TRUE`
and two absences: a file that is missing when its time is asked for and there
again when it is read is remembered without a time, and if it is deleted before the next
request, `(None, None) => false` (`file.rs:131`) takes that for a file that has not changed
and serves what was deleted, until a file is there again. `AnswerNotOlder` says that
nothing else older is served.

Facts that are not findings, because no text says otherwise: a value longer
than 65535 bytes is answered with silence, which the clients take for no answer
(`JavaReturns`); a reference in another spelling than the documented one, without `/data/`
or with the version `01`, never hits the cache (`DocumentedFormIsCanonical`); an agent that starts on the path of a running one takes it over, and one that is
interrupted removes whatever file is there, so that agents which overlap can leave a
running one that nobody reaches (`AloneServes` and `Recovers` say what is promised
without overlap, `SomebodyServes` what overlap cannot break); `envproxy run` is
content with a file that a dead agent has left (`ReadyInFreshPod` is about a pod
without one); replicas of the injector that run beside each other, as in a rollout,
leave only the last to update trusted, and if that is the one that goes, nobody is,
until a replica is started again (`AloneIsTrusted` and `NotMissed` say what is promised
without overlap); the Java hook casts the length of a value to 16 bits
(`RequestFramed` excepts it), and measures time with the wall clock, so that a set-back
makes entries valid that had expired (`FreshEnough` adds it up); a client that stays
connected and sends nothing holds a descriptor of the agent for as long as it likes
(`ConnectionsDrain` is about clients that go on, as the programs here do); a duration of
more seconds than 64 bits hold wraps around in a release build (`DurationExact`); `envproxy
run` puts its own library in the place of the user's `LD_PRELOAD`.

Some texts promise more than the code, in ways that need no run of their own to see:

- `vault:secret/data/myapp/db#password#3` is documented as version 3 of `password`
  (`README.md:203`, `envproxy-proto/src/lib.rs:263`). If the secret has a key `password#3`,
  that is filed under this text when any key of the secret is read without a version
  (`vault.rs:355`), and for the cache's TTL the answer is its newest value (`RightSecret`,
  `PinnedExact` and `BoundedStaleness` except it; `RoundTrip` says that no other text is
  taken).
- The Kubernetes backend's task "keeps the cache in sync with the Secret"
  (`kubernetes.rs:46-47`), but a Secret that is deleted between the load and the watcher's
  list is served until it is written again, since `InitDone` is ignored
  (`InSyncWhenCaughtUp` excepts it).
- A new value is picked up "within the cache TTL" (`README.md:103`). There are two caches,
  the agent's and a hook's, and the lookups that fill them: `FreshEnough` of `EnvironHook`
  has the sum of both TTLs, of both lookups and of what Java's clock is set back, that of
  `VaultBackend` one TTL and the time of a read.
- One renewal that fails is retried only after another two thirds of the lease, when the
  token has expired, though tokens are to be "automatically renewed before expiry"
  (`vault.rs:242`, `README.md:381`; `ValidWhileReliable` excepts it).
- A variable that is set to a reference is reported missing by `os.environ[...]` and
  `System.getenv` when the agent does not answer, though "the caller falls back to the
  real env value" (`_envproxy_hook.py:176` and 234-235). `in` says of such a variable that
  it is there. The failure is cached; `FailureExpires` says for how long.
- `ENVPROXY_ENABLED=0` is to "disable interception entirely" (`README.md:309`). The
  library's constructor and the Java hook do not look at it (`Asks` in `Launch`).
- `envproxy.dev/vault-auth-method: token` is documented (`README.md:225`), but the injector
  gives the sidecar no token: with it, as with a `vault-cache-ttl` that does not parse,
  the agent fails at every start (`StartAgent`).
- `KubernetesBackend::new` is to return an error if "the initial Secret cannot be loaded"
  (`kubernetes.rs:62-63`); it logs one and goes on (`LoadFails`).
- A `vault:` reference in `PYTHONPATH` that the agent does not resolve when the first
  program starts gets the hook's directory in front of it, and is no reference from
  then on.

## What is not modelled

- What values say, JSON, TOML, HTTP, base64: properties do not depend on them.
- Races on the environment block of the C library (`setenv` beside `getenv`): the
  library takes the real value before it asks the agent and inherits the C
  library's rules.
- Two writes to the file with one modification time, and clocks that go back, but for
  Java's.
- Cargo features that leave out a backend: all are taken to be on.
- The steps of `envproxy init`: only what it leaves on the volume. When one of them fails
  the init container ends, and the kubelet starts it again from the first.
- The operations of the hooks' maps that are the original's or throw; `in` and
  `containsKey`, which are a lookup or the original's.
- The registry lookup (not used by the webhook), the chart beyond its failure policy, the
  examples.
- Certificates that cert-manager makes, and what the injector sets besides: images,
  resources, security contexts, the hooks' time to live.

## Plan

Done, in the order in which they were written: 1. `VaultRef`; 2. `VaultBackend`
with `BoundedStaleness` and its proofs; 3. `FileBackend` and proofs; 4. `AgentServer`
and `Getenv`; 5. `TokenRenewal` and proofs; 6. `KubernetesBackend`; 7. `AgentLifecycle`
and proofs; 8. `WireProtocol`; 9. `Injector` and `Webhook`, and proofs of the replicas;
10. `Launch`, `Programs` and `AgentConfig`, and the injector over them; 11. `EnvironHook`,
for Python and Java, and proofs; 12. Python's and Java's clients in `Getenv`, and proofs;
13. proofs of the Kubernetes backend; 14. keys that hold `#`, and durations.

15. `AnswerNotOlder` with a file that goes missing twice, and its proof; 16. proofs of
`ReadyInFreshPod`, `NotMissed`, `ExecutesAsAsked`, `AsksItsAgent`, and of all that is handed
over. Nothing is left of the plan.

The models were also run with one more start, stop, failure, write or absence than their
configurations have, where the time allows it, and the invariants hold there as well.

Runs are kept few, one for each part of the system that behaves by itself: what the
programs hand each other, texts, messages and environments, shares `MCProto`.
