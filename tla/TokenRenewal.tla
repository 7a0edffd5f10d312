---------------------------- MODULE TokenRenewal ----------------------------
(***************************************************************************)
(* How the Vault backend keeps its token (envproxy-agent/src/backend/      *)
(* vault.rs): the Kubernetes login and the background task that renews the *)
(* token.  Both are calls to Vault: Vault handles one at some time after   *)
(* it is sent, and its answer is there some time after that.               *)
(*                                                                         *)
(* The task's sleep ends when it is due, and a call that is not lost is    *)
(* answered within MaxLatency: the clock does not pass either moment.      *)
(***************************************************************************)
EXTENDS Integers

CONSTANTS
  Lease,        \* how long a token is valid when Vault grants or renews it
  MaxTTL,       \* how long a token can be kept valid by renewing it
  MinInterval,  \* the shortest sleep between renewals: 10 s in the code
  MaxLatency,   \* how long a call takes at most
  MaxLost,      \* bound on the calls that fail for want of a Vault
  MaxNow        \* bound on the clock

ASSUME TokenRenewalAssumption ==
  /\ Lease \in Nat \ {0} /\ MaxTTL \in Nat /\ Lease <= MaxTTL
  /\ MinInterval \in Nat /\ MaxLatency \in Nat /\ MaxLost \in Nat /\ MaxNow \in Nat

VARIABLES
  now,      \* Instant::now()
  phase,    \* "login", "sleep", "renew", or "failed" when new() returns an error
  call,     \* the call under way: "none", "asked", "granted" or "refused" by Vault
  since,    \* when it was sent
  wake,     \* when the task's sleep ends
  issued,   \* Vault: when the token was granted
  expires,  \* Vault: when it stops being valid
  lost      \* how many calls have failed for want of a Vault

token == <<now, phase, call, since, wake, issued, expires, lost>>

\* token_renewal_loop: two thirds of the lease Vault granted at login.  The leases
\* that renewals grant do not change it.
Interval ==
  LET renew_interval == (Lease * 2) \div 3
  IN  IF renew_interval >= MinInterval THEN renew_interval ELSE MinInterval

Valid == now < expires

\* When the token cannot be renewed any further.
Cap == issued + MaxTTL

TokenInit ==
  /\ now = 0
  /\ phase = "login" /\ call = "asked" /\ since = 0
  /\ wake = 0 /\ issued = 0 /\ expires = 0 /\ lost = 0

-----------------------------------------------------------------------------

\* Vault accepts the service account's JWT and makes a token.
LoginGranted ==
  /\ phase = "login" /\ call = "asked"
  /\ call' = "granted"
  /\ issued' = now
  /\ expires' = now + Lease
  /\ UNCHANGED <<now, phase, since, wake, lost>>

\* A mutant: an error of the login is only logged.
LoginFailsSilently ==
  /\ phase = "login"
  /\ phase' = "sleep" /\ call' = "none"
  /\ wake' = now + Interval
  /\ UNCHANGED <<now, since, issued, expires, lost>>

\* No JWT, or Vault refuses it or cannot be reached: new() fails and the agent with it.
LoginFails ==
  /\ phase = "login"
  /\ phase' = "failed" /\ call' = "none"
  /\ UNCHANGED <<now, since, wake, issued, expires, lost>>

\* The client is replaced by one that has the token, and the task is spawned.
LoginDone ==
  /\ phase = "login" /\ call = "granted"
  /\ phase' = "sleep" /\ call' = "none"
  /\ wake' = now + Interval
  /\ UNCHANGED <<now, since, issued, expires, lost>>

\* The sleep is over: renew_self is called.
Wake ==
  /\ phase = "sleep" /\ now >= wake
  /\ phase' = "renew" /\ call' = "asked"
  /\ since' = now
  /\ UNCHANGED <<now, wake, issued, expires, lost>>

\* Vault renews a token that is valid, up to its maximum time to live.
RenewGranted ==
  /\ phase = "renew" /\ call = "asked" /\ Valid
  /\ call' = "granted"
  /\ expires' = IF now + Lease <= Cap THEN now + Lease ELSE Cap
  /\ UNCHANGED <<now, phase, since, wake, issued, lost>>

\* Vault knows no token that has expired.
RenewRefused ==
  /\ phase = "renew" /\ call = "asked" /\ ~ Valid
  /\ call' = "refused"
  /\ UNCHANGED <<now, phase, since, wake, issued, expires, lost>>

\* A mutant: after a renewal the task sleeps for the whole lease.
RenewDoneSleepsLease ==
  /\ phase = "renew" /\ call \in {"granted", "refused"}
  /\ phase' = "sleep" /\ call' = "none"
  /\ wake' = now + Lease
  /\ UNCHANGED <<now, since, issued, expires, lost>>

\* Vault's answer is there: renewed or not, the task sleeps as long as before.
RenewDone ==
  /\ phase = "renew" /\ call \in {"granted", "refused"}
  /\ phase' = "sleep" /\ call' = "none"
  /\ wake' = now + Interval
  /\ UNCHANGED <<now, since, issued, expires, lost>>

\* The request or the answer is lost: the error is logged and the task sleeps on.
RenewLost ==
  /\ phase = "renew"
  /\ lost < MaxLost
  /\ lost' = lost + 1
  /\ phase' = "sleep" /\ call' = "none"
  /\ wake' = now + Interval
  /\ UNCHANGED <<now, since, issued, expires>>

Elapse ==
  /\ now < MaxNow
  /\ call # "none" => now < since + MaxLatency
  /\ phase = "sleep" => now < wake
  /\ now' = now + 1
  /\ UNCHANGED <<phase, call, since, wake, issued, expires, lost>>

TokenNext ==
  \/ LoginGranted \/ LoginFails \/ LoginDone
  \/ Wake \/ RenewGranted \/ RenewRefused \/ RenewDone \/ RenewLost
  \/ Elapse

TokenSpec == TokenInit /\ [][TokenNext]_token

-----------------------------------------------------------------------------

\* The loop has been started.
Running == phase \in {"sleep", "renew"}

TokenTypeOK ==
  /\ now \in Nat /\ since \in Nat /\ wake \in Nat /\ issued \in Nat
  /\ expires \in Nat /\ lost \in Nat
  /\ phase \in {"login", "sleep", "renew", "failed"}
  /\ call \in (CASE phase = "login" -> {"asked", "granted"}
                 [] phase = "renew" -> {"asked", "granted", "refused"}
                 [] OTHER -> {"none"})
  /\ Running \/ call = "granted" => expires > 0

\* As long as no renewal is lost and the token's maximum time to live has not been
\* reached, the agent has a valid token, if the lease is longer than an interval and
\* two calls: what the loop's choice of two thirds of the lease is for.  ("Vault tokens
\* are automatically renewed before expiry", the README says without the exceptions.)
ValidWhileReliable ==
  Running /\ lost = 0 /\ now < Cap /\ Interval + 2 * MaxLatency < Lease => Valid

\* The inductive invariant behind ValidWhileReliable.
Reliable == lost = 0 /\ now < Cap

\* The token is valid until Cap, or for a lease from the given time on at least.
ValidFrom(time) == expires >= Cap \/ expires >= time + Lease

InTime ==
  /\ call # "none" => since <= now /\ now <= since + MaxLatency
  /\ phase = "sleep" => now <= wake
  /\ call = "granted" => ValidFrom(since)
  /\ Reliable /\ Interval + 2 * MaxLatency < Lease =>
       /\ phase = "sleep" => ValidFrom(wake - Interval - MaxLatency)
       /\ phase = "renew" /\ call = "asked" => ValidFrom(since - Interval - MaxLatency)
       /\ call # "refused"

TokenIInv == TokenTypeOK /\ InTime

=============================================================================
