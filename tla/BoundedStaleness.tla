-------------------------- MODULE BoundedStaleness --------------------------
(***************************************************************************)
(* What a backend that caches promises to those who ask it for secrets,    *)
(* with no cache in sight: an answer is a version of the secret that was   *)
(* the newest one at some moment of the last Bound time units, and the     *)
(* very version asked for when the reference names one.  A request may     *)
(* have aliases, which mean another key: that the secret has.              *)
(***************************************************************************)
EXTENDS Integers, Sequences

CONSTANTS
  Clients,      \* those who ask
  Requests,     \* what they may ask for
  Parse,        \* request -> the reference [path, key, version] it means, or None
  Aliases,      \* request -> the other references that it may be answered from
  Paths,        \* where the secrets are
  Contents,     \* the sets of keys that are written there
  None,         \* no reference, no version, no request, no answer
  Bound,        \* how long an answer may lag behind the secret store
  MaxTime, MaxVersions  \* bounds on the clock and on the writes to the store

VARIABLES
  clock,
  vault,  \* path -> the versions written there: their keys, and when
  asked,  \* client -> its last request
  reply   \* client -> the answer, None while there is none

vars == <<clock, vault, asked, reply>>

\* A version number of 0 asks for the newest version, like none at all.
Pinned(ref) == ref.version \notin {None, 0}

\* Version n of a path was still the newest one at the given time.
NewestAt(p, n, time) ==
  \A m \in (n + 1)..Len(vault[p]) : vault[p][m].at >= time

Init ==
  /\ clock = 0
  /\ vault = [p \in Paths |-> <<>>]
  /\ asked = [c \in Clients |-> None]
  /\ reply = [c \in Clients |-> None]

Pending(c) == asked[c] # None /\ reply[c] = None

Ask(c, request) ==
  /\ ~ Pending(c)
  /\ asked' = [asked EXCEPT ![c] = request]
  /\ reply' = [reply EXCEPT ![c] = None]
  /\ UNCHANGED <<clock, vault>>

Answer(c) ==
  LET own == Parse[asked[c]]
  IN  /\ Pending(c)
      /\ own # None
      /\ \E ref \in {own} \cup Aliases[asked[c]] : \E n \in 1..Len(vault[ref.path]) :
           LET has == ref.key \in vault[ref.path][n].keys
           IN  /\ IF Pinned(ref) THEN n = ref.version
                                 ELSE NewestAt(ref.path, n, clock - Bound)
               /\ has \/ ref = own
               /\ reply' = [reply EXCEPT ![c] =
                    [kind |-> IF has THEN "found" ELSE "not_found",
                     secret |-> [path |-> ref.path, key |-> ref.key, version |-> n],
                     at |-> clock]]
      /\ UNCHANGED <<clock, vault, asked>>

Fail(c) ==
  /\ Pending(c)
  /\ reply' = [reply EXCEPT ![c] = [kind |-> "error", at |-> clock]]
  /\ UNCHANGED <<clock, vault, asked>>

PutSecret(p, keys) ==
  /\ Len(vault[p]) < MaxVersions
  /\ vault' = [vault EXCEPT ![p] = Append(@, [keys |-> keys, at |-> clock])]
  /\ UNCHANGED <<clock, asked, reply>>

Tick ==
  /\ clock < MaxTime
  /\ clock' = clock + 1
  /\ UNCHANGED <<vault, asked, reply>>

Next ==
  \/ \E c \in Clients : (\E r \in Requests : Ask(c, r)) \/ Answer(c) \/ Fail(c)
  \/ \E p \in Paths, keys \in Contents : PutSecret(p, keys)
  \/ Tick

Spec == Init /\ [][Next]_vars

=============================================================================
