------------------------------- MODULE Getenv -------------------------------
(***************************************************************************)
(* The clients of the agent's socket server: getenv as the preloaded       *)
(* library overrides it (libenvproxy/src/lib.rs), `envproxy get` and       *)
(* `status` (envproxy-cli/src/main.rs), and the lookups of the Python and  *)
(* Java hooks (support/), each in a thread of its own.  Every call makes a *)
(* connection of its own, waits for a response for as long as its timeouts *)
(* let it, and falls back to what it can say without the agent.            *)
(***************************************************************************)
EXTENDS AgentServer

CONSTANTS
  Threads,   \* threads of the clients
  Kinds,     \* which client each of them may be of, as functions to Clients
  None,      \* no result yet
  MaxConns   \* bound on the connections made

\* "native" is getenv, or the CLI.
Clients == {"native", "python", "java"}

ASSUME GetenvAssumption == MaxConns \in Nat /\ Kinds \subseteq [Threads -> Clients]

VARIABLES
  kind,    \* thread -> which client it is of
  pc,      \* thread -> where it is in its call
  fd,      \* thread -> the connection of its call, 0 if it has made none
  result   \* thread -> what its call has returned

client == <<kind, pc, fd, result>>
vars   == <<server, client>>

\* What is said without the agent: the pointer the real getenv gave, an error of the
\* CLI, the null or the original value of a hook.  Or the value in a response: the
\* response to the request of connection i.
Real        == [kind |-> "real"]
Resolved(i) == [kind |-> "resolved", of |-> i]

Init ==
  /\ ServerInit
  /\ kind \in Kinds
  /\ pc = [t \in Threads |-> "idle"]
  /\ fd = [t \in Threads |-> 0]
  /\ result = [t \in Threads |-> None]

Return(t, value) ==
  /\ pc' = [pc EXCEPT ![t] = "idle"]
  /\ result' = [result EXCEPT ![t] = value]

\* The stream is dropped: what the server writes into it from now on is lost.
HangUp(t) == conns' = [conns EXCEPT ![fd[t]].client = FALSE]

-----------------------------------------------------------------------------

\* The connections made, and those that are going to be.
Planned == Len(conns) + Cardinality({t \in Threads : pc[t] = "connect"})

\* A call for a variable that is never asked of the agent: ENVPROXY_*, one too long
\* for a request, or any when the library is disabled.
Bypass(t) ==
  /\ pc[t] = "idle"
  /\ fd' = [fd EXCEPT ![t] = 0]
  /\ Return(t, Real)
  /\ UNCHANGED server

\* A call for any other: the real value has been looked up, and the agent is asked.
Begin(t) ==
  /\ pc[t] = "idle"
  /\ Planned < MaxConns
  /\ pc' = [pc EXCEPT ![t] = "connect"]
  /\ fd' = [fd EXCEPT ![t] = 0]
  /\ result' = [result EXCEPT ![t] = None]
  /\ UNCHANGED server

\* query_agent connects.  While the queue of the listener is full the thread waits:
\* but for Python, no timeout is set before the connection is there.
Connect(t) ==
  /\ pc[t] = "connect"
  /\ Listening
  /\ Cardinality(InState("backlog")) < MaxBacklog
  /\ conns' = Append(conns, [client |-> TRUE, sent |-> FALSE, server |-> "backlog",
                             outcome |-> "none", reply |-> 0])
  /\ fd' = [fd EXCEPT ![t] = Len(conns) + 1]
  /\ pc' = [pc EXCEPT ![t] = "send"]
  /\ UNCHANGED <<agent, stops, result>>

\* Nobody listens: there is no socket file, or one that an agent has left behind.
ConnectFails(t) ==
  /\ pc[t] = "connect"
  /\ ~ Listening
  /\ Return(t, Real)
  /\ UNCHANGED <<server, fd>>

ConnectTimeout(t) ==
  /\ kind[t] = "python"
  /\ pc[t] = "connect"
  /\ Listening
  /\ Cardinality(InState("backlog")) >= MaxBacklog
  /\ Return(t, Real)
  /\ UNCHANGED <<server, fd>>

Send(t) ==
  /\ pc[t] = "send"
  /\ conns[fd[t]].server # "closed"
  /\ conns' = [conns EXCEPT ![fd[t]].sent = TRUE]
  /\ pc' = [pc EXCEPT ![t] = "receive"]
  /\ UNCHANGED <<agent, stops, fd, result>>

SendFails(t) ==
  /\ pc[t] = "send"
  /\ conns[fd[t]].server = "closed"
  /\ HangUp(t)
  /\ Return(t, Real)
  /\ UNCHANGED <<agent, stops, fd>>

\* A response: Found gives the value, anything else what there is without the agent; so
\* does a value that a C string cannot be, or that the CLI's only read gets a part of.
Receive(t, usable) ==
  LET reply == conns[fd[t]].reply
  IN  /\ pc[t] = "receive"
      /\ reply # 0
      /\ usable \/ kind[t] = "native"
      /\ HangUp(t)
      /\ Return(t, IF conns[reply].outcome = "found" /\ usable THEN Resolved(reply) ELSE Real)
      /\ UNCHANGED <<agent, stops, fd>>

\* A mutant: readFully takes the end of the stream for a read of nothing.
ReceiveEofUnlessJava(t) ==
  /\ kind[t] # "java"
  /\ pc[t] = "receive"
  /\ conns[fd[t]].server = "closed" /\ conns[fd[t]].reply = 0
  /\ HangUp(t)
  /\ Return(t, Real)
  /\ UNCHANGED <<agent, stops, fd>>

\* The server has closed the connection and written nothing.
ReceiveEof(t) ==
  /\ pc[t] = "receive"
  /\ conns[fd[t]].server = "closed" /\ conns[fd[t]].reply = 0
  /\ HangUp(t)
  /\ Return(t, Real)
  /\ UNCHANGED <<agent, stops, fd>>

\* A mutant: no read timeout is set.
TimeoutIfAgentDown(t) ==
  /\ kind[t] # "java"
  /\ pc[t] = "receive"
  /\ ~ Listening
  /\ conns[fd[t]].reply = 0
  /\ HangUp(t)
  /\ Return(t, Real)
  /\ UNCHANGED <<agent, stops, fd>>

\* The timeout has passed since the request was sent: 500 ms, or the CLI's 5 s.
Timeout(t) ==
  /\ kind[t] # "java"
  /\ pc[t] = "receive"
  /\ conns[fd[t]].reply = 0
  /\ HangUp(t)
  /\ Return(t, Real)
  /\ UNCHANGED <<agent, stops, fd>>

\* The thread's process is killed, and a new one takes its place.
Die(t) ==
  /\ pc[t] # "idle"
  /\ IF fd[t] = 0 THEN UNCHANGED conns ELSE HangUp(t)
  /\ pc' = [pc EXCEPT ![t] = "idle"]
  /\ fd' = [fd EXCEPT ![t] = 0]
  /\ result' = [result EXCEPT ![t] = None]
  /\ UNCHANGED <<agent, stops>>

Call(t) ==
  /\ \/ Connect(t) \/ ConnectFails(t) \/ ConnectTimeout(t) \/ Send(t) \/ SendFails(t)
     \/ (\E usable \in BOOLEAN : Receive(t, usable)) \/ ReceiveEof(t) \/ Timeout(t)
  /\ UNCHANGED kind

Server ==
  \/ Start \/ Stop \/ AcceptFails
  \/ \E i \in DOMAIN conns :
       \/ Accept(i) \/ ReadRequest(i) \/ ReadFails(i)
       \/ \E outcome \in Outcomes : Answer(i, outcome)

Next ==
  \/ Server /\ UNCHANGED client
  \/ \E t \in Threads : (Bypass(t) \/ Begin(t) \/ Die(t)) /\ UNCHANGED kind
  \/ \E t \in Threads : Call(t)

\* The threads and the agent's runtime are scheduled; the backend may never answer,
\* and nobody has to stop the agent, to start it or to call getenv.
Fairness ==
  /\ \A t \in Threads : WF_vars(Call(t))
  /\ WF_vars((AcceptFails \/ \E i \in DOMAIN conns : Accept(i)) /\ UNCHANGED client)
  /\ \A i \in 1..MaxConns :
       WF_vars(i \in DOMAIN conns /\ (ReadRequest(i) \/ ReadFails(i)) /\ UNCHANGED client)

Spec == Init /\ [][Next]_vars /\ Fairness

-----------------------------------------------------------------------------

Conn == [client : BOOLEAN, sent : BOOLEAN, server : ServerStates,
         outcome : Outcomes \cup {"none"}, reply : Nat]

TypeOK ==
  /\ agent \in {"down", "up", "failed"}
  /\ stops \in 0..MaxStops
  /\ conns \in Seq(Conn)
  /\ kind \in Kinds
  /\ pc \in [Threads -> {"idle", "connect", "send", "receive"}]
  /\ fd \in [Threads -> 0..Len(conns)]
  /\ result \in [Threads -> {None, Real} \cup {Resolved(i) : i \in Nat}]

\* A resolved value is the backend's answer to the request of this very call: the
\* answers that come late, for calls that have timed out, and those to the requests
\* of other threads never end up in it.
OwnAnswer ==
  \A t \in Threads :
    result[t] \notin {None, Real} =>
      result[t].of = fd[t] /\ conns[fd[t]].outcome = "found"

\* "Set a timeout to avoid blocking the application indefinitely": every call but Java's
\* returns, though the agent may stop at any time and the backend never answer.
CallReturns ==
  \A t \in Threads : kind[t] # "java" /\ pc[t] # "idle" ~> pc[t] = "idle"

\* The backend answers every request in the end.
BackendAnswers ==
  \A i \in 1..MaxConns :
    WF_vars(i \in DOMAIN conns /\ (\E outcome \in Outcomes : Answer(i, outcome))
            /\ UNCHANGED client)

\* A Java program, which sets no timeout, waits for the backend and for nothing else: if
\* that answers, its calls return, whatever the agent does meanwhile.
JavaReturns ==
  BackendAnswers => \A t \in Threads : kind[t] = "java" /\ pc[t] # "idle" ~> pc[t] = "idle"

\* If the backend answers, every connection that is made is closed in the end, those
\* of the calls that were given up included: the agent does not run out of them.
ConnectionsDrain ==
  BackendAnswers
    => \A i \in 1..MaxConns :
         (i \in DOMAIN conns /\ conns[i].server # "closed")
           ~> (i \in DOMAIN conns /\ conns[i].server = "closed")

=============================================================================
