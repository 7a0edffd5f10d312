---------------------------- MODULE AgentServer ----------------------------
(***************************************************************************)
(* The agent process and its Unix socket server (envproxy-agent/src/       *)
(* main.rs, server.rs): a listener that accepts connections and one task   *)
(* per connection that reads a request, has the backend resolve it and     *)
(* writes a response.  The clients' side is Getenv's.                      *)
(*                                                                         *)
(* A connection is named by its position in `conns`.  What a request and a *)
(* response say is abstracted to the connection they were made for.        *)
(***************************************************************************)
EXTENDS Naturals, Sequences, FiniteSets

CONSTANTS
  MaxFds,      \* the connections the agent's file descriptors are enough for
  MaxBacklog,  \* the connections the kernel queues before they are accepted
  MaxStops     \* bound on how often the agent is stopped from outside

ASSUME AgentServerAssumption ==
  MaxFds \in Nat \ {0} /\ MaxBacklog \in Nat \ {0} /\ MaxStops \in Nat

VARIABLES
  agent,  \* "down", "up", or "failed" when run() has returned an error
  stops,  \* how often it has been stopped
  conns   \* the connections made: both ends, and what has been written into them

server == <<agent, stops, conns>>

\* Where the server's end of a connection is.
ServerStates == {"backlog", "reading", "resolving", "closed"}

\* What the backend says of a request: a value, a value too long for the
\* protocol's 16-bit length, that it has none (or the agent an error of its own).
Outcomes == {"found", "oversize", "not_found", "error"}

InState(state) == {i \in DOMAIN conns : conns[i].server = state}

\* The connections the agent holds a descriptor of.
Open == {i \in DOMAIN conns : conns[i].server \notin {"backlog", "closed"}}

Listening == agent = "up"

SetServer(i, state) == conns' = [conns EXCEPT ![i].server = state]

\* The process is gone: the kernel closes its end of every connection.
CloseAll == conns' = [i \in DOMAIN conns |-> [conns[i] EXCEPT !.server = "closed"]]

ServerInit == agent = "down" /\ stops = 0 /\ conns = <<>>

-----------------------------------------------------------------------------

\* main: the backend is created, the socket bound, the accept loop entered.
Start ==
  /\ agent # "up"
  /\ agent' = "up"
  /\ UNCHANGED <<stops, conns>>

\* Ctrl-C, SIGTERM or a crash: nothing waits for the connection tasks.
Stop ==
  /\ agent = "up"
  /\ stops < MaxStops
  /\ agent' = "down"
  /\ stops' = stops + 1
  /\ CloseAll

\* run: the oldest queued connection is accepted and given to a task.
Accept(i) ==
  /\ agent = "up"
  /\ i \in InState("backlog") /\ \A j \in InState("backlog") : i <= j
  /\ Cardinality(Open) < MaxFds
  /\ SetServer(i, "reading")
  /\ UNCHANGED <<agent, stops>>

\* accept fails because no descriptor is left: run() returns and main with it.
AcceptFails ==
  /\ agent = "up"
  /\ InState("backlog") # {}
  /\ Cardinality(Open) >= MaxFds
  /\ agent' = "failed"
  /\ CloseAll
  /\ UNCHANGED stops

\* handle_connection: the request is there, whole.
ReadRequest(i) ==
  /\ i \in InState("reading")
  /\ conns[i].sent
  /\ SetServer(i, "resolving")
  /\ UNCHANGED <<agent, stops>>

\* A mutant: the end of the stream is not noticed, only the end of the agent.
ReadFailsIfDown(i) ==
  /\ i \in InState("reading")
  /\ agent # "up"
  /\ SetServer(i, "closed")
  /\ UNCHANGED <<agent, stops>>

\* The client has hung up before it sent one.
ReadFails(i) ==
  /\ i \in InState("reading")
  /\ ~ conns[i].sent /\ ~ conns[i].client
  /\ SetServer(i, "closed")
  /\ UNCHANGED <<agent, stops>>

\* A mutant: the response goes to the connection accepted last.
AnswerToLast(i, outcome) ==
  /\ i \in InState("resolving")
  /\ LET last == CHOOSE j \in Open : \A k \in Open : k <= j
     IN  conns' = [conns EXCEPT ![i].server = "closed", ![i].outcome = outcome,
           ![last].reply = IF outcome = "oversize" THEN 0 ELSE i]
  /\ UNCHANGED <<agent, stops>>

\* The backend answers, at a time of its own, and the response is written, if the
\* client is still there to read it; encode_response makes none of a value too long.
\* The task is over and drops the stream.
Answer(i, outcome) ==
  /\ i \in InState("resolving")
  /\ conns' = [conns EXCEPT ![i].server = "closed", ![i].outcome = outcome,
       ![i].reply = IF outcome = "oversize" THEN 0 ELSE i]
  /\ UNCHANGED <<agent, stops>>

=============================================================================
