---------------------------- MODULE GetenvProofs ----------------------------
(***************************************************************************)
(* A call gets its own answer or none, for any clients, any number of      *)
(* connections and descriptors, and however often the agent is stopped.    *)
(***************************************************************************)
EXTENDS Getenv, TLAPS

USE AgentServerAssumption, GetenvAssumption

ConnsOK  == conns \in Seq(Conn)
AgentOK  == agent \in {"down", "up", "failed"} /\ stops \in 0..MaxStops
ClientOK ==
  /\ kind \in Kinds
  /\ pc \in [Threads -> {"idle", "connect", "send", "receive"}]
  /\ fd \in [Threads -> 0..Len(conns)]
  /\ result \in [Threads -> {None, Real} \cup {Resolved(i) : i \in Nat}]

\* What a client and the server do to the connections: a new one is made, or an old
\* one gets on; what the server has said of one that is closed stays as it is, and
\* what it says goes to the connection that the request has come by.
GetsOn(old, new, i) ==
  /\ new \in Conn
  /\ old.server = "closed" => new.server = "closed" /\ new.outcome = old.outcome
                                                   /\ new.reply = old.reply
  /\ new.reply # old.reply => new.reply \in {0, i} /\ new.server = "closed"

ConnsGrow ==
  /\ conns' \in Seq(Conn)
  /\ Len(conns) <= Len(conns')
  /\ \A i \in DOMAIN conns : GetsOn(conns[i], conns'[i], i)
  /\ \A i \in DOMAIN conns' \ DOMAIN conns : conns'[i].reply = 0

LEMMA ConnsType ==
  ASSUME TypeOK
  PROVE  /\ conns \in Seq(Conn) /\ Len(conns) \in Nat /\ DOMAIN conns = 1..Len(conns)
         /\ \A i \in DOMAIN conns : conns[i] \in Conn /\ GetsOn(conns[i], conns[i], i)
BY DEF TypeOK, GetsOn

LEMMA AllGetOn ==
  ASSUME TypeOK, DOMAIN conns' = DOMAIN conns, conns' = [i \in DOMAIN conns |-> conns'[i]],
         \A i \in DOMAIN conns : GetsOn(conns[i], conns'[i], i)
  PROVE  ConnsGrow
<1>1. conns' \in Seq(Conn) /\ Len(conns') = Len(conns)
  <2>1. conns' \in [1..Len(conns) -> Conn]
    BY ConnsType DEF GetsOn
  <2> QED
    BY <2>1, ConnsType
<1> QED
  BY <1>1, ConnsType DEF ConnsGrow

LEMMA OneGetsOn ==
  ASSUME TypeOK, NEW i \in DOMAIN conns, NEW c, conns' = [conns EXCEPT ![i] = c],
         GetsOn(conns[i], c, i)
  PROVE  ConnsGrow /\ DOMAIN conns' = DOMAIN conns
<1>1. /\ DOMAIN conns' = DOMAIN conns /\ conns' = [j \in DOMAIN conns |-> conns'[j]]
      /\ \A j \in DOMAIN conns : GetsOn(conns[j], conns'[j], j)
  BY ConnsType
<1> QED
  BY <1>1, AllGetOn

LEMMA ServerStep ==
  ASSUME TypeOK, Server
  PROVE  ConnsGrow /\ DOMAIN conns' = DOMAIN conns
<1>1. CASE Start
  <2>1. conns' = conns
    BY <1>1 DEF Start
  <2> QED
    BY <2>1, ConnsType DEF ConnsGrow
<1>2. CASE CloseAll
  <2>1. ASSUME NEW i \in DOMAIN conns PROVE GetsOn(conns[i], conns'[i], i)
    <3>1. conns'[i] = [conns[i] EXCEPT !.server = "closed"] /\ conns[i] \in Conn
      BY <1>2, ConnsType DEF CloseAll
    <3> QED
      BY <3>1 DEF GetsOn, Conn, ServerStates
  <2> QED
    BY <1>2, <2>1, AllGetOn DEF CloseAll
<1>3. ASSUME NEW i \in DOMAIN conns, NEW state \in ServerStates, SetServer(i, state),
             conns[i].server # "closed"
      PROVE  ConnsGrow /\ DOMAIN conns' = DOMAIN conns
  <2> DEFINE c == [conns[i] EXCEPT !.server = state]
  <2>1. conns' = [conns EXCEPT ![i] = c]
    BY <1>3 DEF SetServer
  <2>2. conns[i] \in Conn
    BY ConnsType
  <2>3. /\ c \in Conn
        /\ c.reply = conns[i].reply /\ c.outcome = conns[i].outcome
    BY <2>2 DEF Conn
  <2>4. GetsOn(conns[i], c, i)
    BY <1>3, <2>3 DEF GetsOn
  <2> QED
    BY <2>1, <2>4, OneGetsOn
<1>4. ASSUME NEW i \in DOMAIN conns, NEW outcome \in Outcomes, Answer(i, outcome)
      PROVE  ConnsGrow /\ DOMAIN conns' = DOMAIN conns
  <2> DEFINE c == [conns[i] EXCEPT !.server = "closed", !.outcome = outcome,
                                   !.reply = IF outcome = "oversize" THEN 0 ELSE i]
  <2>1. conns' = [conns EXCEPT ![i] = c] /\ conns[i].server = "resolving"
    BY <1>4 DEF Answer, InState
  <2>2. i \in Nat
    BY ConnsType
  <2>3. GetsOn(conns[i], c, i)
    BY <2>1, <2>2, ConnsType DEF GetsOn, Conn, ServerStates
  <2> QED
    BY <2>1, <2>3, OneGetsOn
<1>5. ASSUME NEW i \in DOMAIN conns, Accept(i) \/ ReadRequest(i) \/ ReadFails(i)
      PROVE  ConnsGrow /\ DOMAIN conns' = DOMAIN conns
  <2>1. conns[i].server # "closed"
    BY <1>5 DEF Accept, ReadRequest, ReadFails, InState
  <2>2. PICK state \in ServerStates : SetServer(i, state)
    BY <1>5 DEF Accept, ReadRequest, ReadFails, ServerStates
  <2> QED
    BY <1>3, <2>1, <2>2
<1> QED
  BY <1>1, <1>2, <1>4, <1>5 DEF Server, Stop, AcceptFails

-----------------------------------------------------------------------------
(* The inductive invariant: a thread that waits has a connection, a response  *)
(* is the one to the connection's own request, and what has been returned is  *)
(* what the thread's connection says for good.                                *)

HasConn == \A t \in Threads : pc[t] \in {"send", "receive"} => fd[t] # 0

NoResult(t) == pc[t] # "idle" => result[t] = None

OwnReply ==
  \A i \in DOMAIN conns :
    conns[i].reply \in {0, i} /\ (conns[i].reply # 0 => conns[i].server = "closed")

OwnResult(t) ==
  result[t] \notin {None, Real} =>
    /\ fd[t] \in DOMAIN conns /\ result[t].of = fd[t]
    /\ conns[fd[t]].outcome = "found" /\ conns[fd[t]].server = "closed"

IInv == TypeOK /\ HasConn /\ OwnReply /\ \A t \in Threads : NoResult(t) /\ OwnResult(t)

Own(t) == Bypass(t) \/ Begin(t) \/ Die(t) \/ Call(t)

\* A client only ever appends a connection or marks its own.
LEMMA ClientConns ==
  ASSUME IInv, NEW t \in Threads, Own(t)
  PROVE  ConnsGrow
<1>0. TypeOK /\ fd[t] \in 0..Len(conns) /\ (pc[t] \in {"send", "receive"} => fd[t] \in DOMAIN conns)
  BY ConnsType DEF IInv, HasConn, TypeOK
<1>1. CASE conns' = conns
  BY <1>0, <1>1, ConnsType DEF ConnsGrow
<1>2. CASE HangUp(t) /\ fd[t] # 0
  <2> DEFINE c == [conns[fd[t]] EXCEPT !.client = FALSE]
  <2>1. fd[t] \in DOMAIN conns
    BY <1>0, <1>2, ConnsType
  <2>2. conns' = [conns EXCEPT ![fd[t]] = c] /\ conns[fd[t]] \in Conn
    BY <1>0, <1>2, <2>1, ConnsType DEF HangUp
  <2>3. GetsOn(conns[fd[t]], c, fd[t])
    BY <2>2 DEF GetsOn, Conn
  <2> QED
    BY <1>0, <2>1, <2>2, <2>3, OneGetsOn
<1>3. CASE Send(t)
  <2> DEFINE c == [conns[fd[t]] EXCEPT !.sent = TRUE]
  <2>1. fd[t] \in DOMAIN conns
    BY <1>0, <1>3 DEF Send
  <2>2. conns' = [conns EXCEPT ![fd[t]] = c] /\ conns[fd[t]] \in Conn
    BY <1>0, <1>3, <2>1, ConnsType DEF Send
  <2>3. GetsOn(conns[fd[t]], c, fd[t])
    BY <2>2 DEF GetsOn, Conn
  <2> QED
    BY <1>0, <2>1, <2>2, <2>3, OneGetsOn
<1>4. CASE Connect(t)
  <2> DEFINE new == [client |-> TRUE, sent |-> FALSE, server |-> "backlog",
                     outcome |-> "none", reply |-> 0]
  <2>1. conns' = Append(conns, new) /\ new \in Conn
    BY <1>4 DEF Connect, Conn, ServerStates
  <2>2. /\ conns' \in Seq(Conn) /\ Len(conns') = Len(conns) + 1
        /\ DOMAIN conns' = 1..(Len(conns) + 1)
        /\ \A i \in DOMAIN conns : conns'[i] = conns[i]
        /\ conns'[Len(conns) + 1] = new
    BY <1>0, <2>1, ConnsType
  <2>3. \A i \in DOMAIN conns' \ DOMAIN conns : i = Len(conns) + 1
    BY <1>0, <2>2, ConnsType
  <2> QED
    BY <1>0, <2>1, <2>2, <2>3, ConnsType DEF ConnsGrow
<1> QED
  BY <1>0, <1>1, <1>2, <1>3, <1>4
  DEF Own, Bypass, Begin, Die, Call, ConnectFails, ConnectTimeout, SendFails, Receive, ReceiveEof,
      Timeout, server, HasConn, IInv

\* The types of a client's own variables.
LEMMA ClientTypes ==
  ASSUME IInv, NEW t \in Threads, Own(t), UNCHANGED kind
  PROVE  AgentOK' /\ ClientOK' /\ HasConn' /\ \A u \in Threads : NoResult(u)'
<1>0. /\ AgentOK /\ ClientOK /\ HasConn /\ (\A u \in Threads : NoResult(u)) /\ Len(conns) \in Nat
      /\ Len(conns) <= Len(conns') /\ Len(conns') \in Nat
  BY ClientConns, ConnsType DEF IInv, TypeOK, AgentOK, ClientOK, ConnsGrow
<1>1. AgentOK'
  BY <1>0 DEF AgentOK, Own, Bypass, Begin, Die, Call, Connect, ConnectFails, ConnectTimeout, Send,
              SendFails, Receive, ReceiveEof, Timeout, server
<1>2. pc' \in [Threads -> {"idle", "connect", "send", "receive"}]
  BY <1>0 DEF ClientOK, Own, Bypass, Begin, Die, Call, Connect, ConnectFails, ConnectTimeout, Send,
              SendFails, Receive, ReceiveEof, Timeout, Return
<1>3. fd' \in [Threads -> 0..Len(conns')]
  <2>1. CASE Connect(t)
    <3>1. Len(conns') = Len(conns) + 1 /\ fd' = [fd EXCEPT ![t] = Len(conns) + 1]
      BY <2>1, ConnsType DEF Connect, IInv
    <3> QED
      BY <1>0, <3>1 DEF ClientOK
  <2>2. CASE fd' = fd \/ fd' = [fd EXCEPT ![t] = 0]
    BY <1>0, <2>2 DEF ClientOK
  <2> QED
    BY <2>1, <2>2 DEF Own, Bypass, Begin, Die, Call, ConnectFails, ConnectTimeout, Send, SendFails,
                      Receive, ReceiveEof, Timeout
<1>4. result' \in [Threads -> {None, Real} \cup {Resolved(i) : i \in Nat}]
  <2>1. PICK r \in {None, Real} \cup {Resolved(i) : i \in Nat} :
               result' = result \/ result' = [result EXCEPT ![t] = r]
    <3>1. CASE \E usable \in BOOLEAN : Receive(t, usable)
      <4>1. fd[t] \in DOMAIN conns /\ conns[fd[t]] \in Conn
        BY <1>0, <3>1, ConnsType DEF Receive, IInv, HasConn, ClientOK
      <4>2. conns[fd[t]].reply \in Nat
        BY <4>1 DEF Conn
      <4> QED
        BY <3>1, <4>2 DEF Receive, Return
    <3>2. CASE ~ \E usable \in BOOLEAN : Receive(t, usable)
      BY <3>2 DEF Own, Bypass, Begin, Die, Call, Connect, ConnectFails, ConnectTimeout, Send,
                  SendFails, ReceiveEof, Timeout, Return
    <3> QED
      BY <3>1, <3>2
  <2> QED
    BY <1>0, <2>1 DEF ClientOK
<1>5. HasConn'
  BY <1>0 DEF ClientOK, HasConn, Own, Bypass, Begin, Die, Call, Connect, ConnectFails,
              ConnectTimeout, Send, SendFails, Receive, ReceiveEof, Timeout, Return
<1>6. ASSUME NEW u \in Threads PROVE NoResult(u)'
  BY <1>0, <1>6 DEF ClientOK, NoResult, Own, Bypass, Begin, Die, Call, Connect, ConnectFails,
                    ConnectTimeout, Send, SendFails, Receive, ReceiveEof, Timeout, Return
<1> QED
  BY <1>0, <1>1, <1>2, <1>3, <1>4, <1>5, <1>6 DEF ClientOK

\* Growing keeps the responses where they belong, and what has been said.
LEMMA GrowthKeeps ==
  ASSUME IInv, ConnsGrow
  PROVE  /\ OwnReply'
         /\ \A t \in Threads : UNCHANGED <<fd[t], result[t]>> => OwnResult(t)'
<1>1. /\ DOMAIN conns = 1..Len(conns) /\ DOMAIN conns' = 1..Len(conns')
      /\ Len(conns) \in Nat /\ Len(conns') \in Nat /\ Len(conns) <= Len(conns')
      /\ \A i \in DOMAIN conns : GetsOn(conns[i], conns'[i], i)
      /\ \A i \in DOMAIN conns' \ DOMAIN conns : conns'[i].reply = 0
  BY ConnsType DEF IInv, ConnsGrow
<1>2. OwnReply'
  BY <1>1 DEF IInv, OwnReply, GetsOn
<1>3. ASSUME NEW t \in Threads, UNCHANGED <<fd[t], result[t]>> PROVE OwnResult(t)'
  BY <1>1, <1>3 DEF IInv, OwnResult, GetsOn
<1> QED
  BY <1>2, <1>3

\* What a client's step returns is its own.
LEMMA OwnResultStep ==
  ASSUME IInv, NEW t \in Threads, Own(t)
  PROVE  \A u \in Threads : OwnResult(u)'
<1>0. ClientOK /\ ConnsGrow
  BY ClientConns DEF IInv, TypeOK, ClientOK
<1>1. ASSUME NEW u \in Threads, u # t PROVE OwnResult(u)'
  <2>1. UNCHANGED <<fd[u], result[u]>>
    BY <1>0, <1>1 DEF ClientOK, Own, Bypass, Begin, Die, Call, Connect, ConnectFails,
         ConnectTimeout, Send, SendFails, Receive, ReceiveEof, Timeout, Return
  <2> QED
    BY <1>0, <2>1, GrowthKeeps
<1>2. OwnResult(t)'
  <2>1. CASE result'[t] \in {None, Real}
    BY <2>1 DEF OwnResult
  <2>2. CASE \E usable \in BOOLEAN : Receive(t, usable)
    <3>1. /\ fd[t] \in DOMAIN conns /\ conns[fd[t]] \in Conn /\ conns[fd[t]].reply # 0
          /\ conns[fd[t]].reply = fd[t] /\ conns[fd[t]].server = "closed"
      BY <1>0, <2>2, ConnsType DEF Receive, IInv, HasConn, OwnReply, ClientOK
    <3>2. /\ fd'[t] = fd[t]
          /\ \/ result'[t] = Real
             \/ result'[t] = Resolved(fd[t]) /\ conns[fd[t]].outcome = "found"
      BY <1>0, <2>2, <3>1 DEF Receive, Return, ClientOK
    <3>3. conns'[fd[t]].server = "closed" /\ conns'[fd[t]].outcome = conns[fd[t]].outcome
          /\ fd[t] \in DOMAIN conns'
      BY <1>0, <3>1, ConnsType DEF ConnsGrow, GetsOn, IInv
    <3> QED
      BY <3>2, <3>3 DEF OwnResult, Resolved
  <2>3. CASE Send(t)
    <3>1. UNCHANGED <<fd[t], result[t]>>
      BY <2>3 DEF Send
    <3> QED
      BY <1>0, <3>1, GrowthKeeps
  <2>4. CASE Connect(t)
    <3>1. result'[t] = None
      BY <2>4 DEF Connect, IInv, NoResult
    <3> QED
      BY <3>1 DEF OwnResult
  <2> QED
    BY <1>0, <2>1, <2>2, <2>3, <2>4
    DEF ClientOK, Own, Bypass, Begin, Die, Call, ConnectFails, ConnectTimeout, SendFails,
        ReceiveEof, Timeout, Return
<1> QED
  BY <1>1, <1>2

-----------------------------------------------------------------------------

LEMMA ServerTypes ==
  ASSUME IInv, Server
  PROVE  AgentOK'
<1>1. AgentOK
  BY DEF IInv, TypeOK, AgentOK
<1>2. CASE Start
  BY <1>1, <1>2 DEF Start, AgentOK
<1>3. CASE Stop
  BY <1>1, <1>3 DEF Stop, AgentOK
<1>4. CASE AcceptFails
  BY <1>1, <1>4 DEF AcceptFails, AgentOK
<1>5. CASE UNCHANGED <<agent, stops>>
  BY <1>1, <1>5 DEF AgentOK
<1> QED
  BY <1>2, <1>3, <1>4, <1>5 DEF Server, Accept, ReadRequest, ReadFails, Answer

LEMMA Initial == Init => IInv
<1> SUFFICES ASSUME Init PROVE IInv
  OBVIOUS
<1>1. conns = <<>> /\ Len(conns) = 0 /\ DOMAIN conns = {} /\ conns \in Seq(Conn)
  BY DEF Init, ServerInit
<1>2. TypeOK
  BY <1>1 DEF Init, ServerInit, TypeOK
<1>3. HasConn /\ OwnReply /\ \A t \in Threads : NoResult(t) /\ OwnResult(t)
  BY <1>1 DEF Init, HasConn, OwnReply, NoResult, OwnResult
<1> QED
  BY <1>2, <1>3 DEF IInv

LEMMA Step == IInv /\ [Next]_vars => IInv'
<1> SUFFICES ASSUME IInv, [Next]_vars PROVE IInv'
  OBVIOUS
<1>1. CASE Server /\ UNCHANGED client
  <2>1. TypeOK /\ ConnsGrow /\ DOMAIN conns' = DOMAIN conns /\ AgentOK'
    BY <1>1, ServerStep, ServerTypes DEF IInv
  <2>2. conns' \in Seq(Conn) /\ Len(conns') = Len(conns)
    BY <2>1, ConnsType DEF ConnsGrow
  <2>3. TypeOK'
    BY <1>1, <2>1, <2>2 DEF TypeOK, AgentOK, client
  <2>4. OwnReply' /\ \A t \in Threads : OwnResult(t)'
    BY <1>1, <2>1, GrowthKeeps DEF client
  <2>5. HasConn' /\ \A t \in Threads : NoResult(t)'
    BY <1>1 DEF IInv, HasConn, NoResult, client
  <2> QED
    BY <2>3, <2>4, <2>5 DEF IInv
<1>2. ASSUME NEW t \in Threads, Own(t), UNCHANGED kind PROVE IInv'
  <2>1. /\ ConnsGrow /\ AgentOK' /\ ClientOK' /\ HasConn' /\ OwnReply'
        /\ \A u \in Threads : NoResult(u)' /\ OwnResult(u)'
    BY <1>2, ClientConns, ClientTypes, GrowthKeeps, OwnResultStep
  <2>2. TypeOK'
    BY <2>1 DEF TypeOK, AgentOK, ClientOK, ConnsGrow
  <2> QED
    BY <2>1, <2>2 DEF IInv
<1>3. CASE UNCHANGED vars
  <2>1. UNCHANGED <<agent, stops, conns, kind, pc, fd, result>>
    BY <1>3 DEF vars, server, client
  <2> QED
    BY <2>1 DEF IInv, TypeOK, HasConn, OwnReply, NoResult, OwnResult
<1>4. Next => \/ Server /\ UNCHANGED client
              \/ \E t \in Threads : Own(t) /\ UNCHANGED kind
  BY DEF Next, Own, Call
<1> QED
  BY <1>1, <1>2, <1>3, <1>4

THEOREM Invariance == Spec => []IInv
  BY Initial, Step, PTL DEF Spec

\* The variables keep their types: no step of a client or of the server, in any order,
\* leaves a thread waiting on a connection that was never made.
THEOREM TypeCorrect == Spec => []TypeOK
<1>1. IInv => TypeOK
  BY DEF IInv
<1> QED
  BY <1>1, Invariance, PTL

\* A value that query_agent returns is the backend's answer to the request that this
\* very call has sent, for any number of threads, connections and restarts.
THEOREM Answers == Spec => []OwnAnswer
<1>1. IInv => OwnAnswer
  BY DEF IInv, OwnResult, OwnAnswer
<1> QED
  BY <1>1, Invariance, PTL

=============================================================================
