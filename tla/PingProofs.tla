----------------------------- MODULE PingProofs -----------------------------
(***************************************************************************)
(* What a verdict of ping_host means, proved for any timeout and a socket  *)
(* that queues any number of packets.                                      *)
(***************************************************************************)
EXTENDS Ping, SequenceTheorems, TLAPS

\* A reply exists only because the host answered.
RepliesAnswered == replies # {} => answered

\* What the open socket has queued was answered by the host, confuses the call or
\* disturbs it.
QueueExplained ==
  \A i \in 1 .. Len(socket) :
    /\ socket[i] \in Replies => answered
    /\ socket[i] \in Alike => confused
    /\ socket[i] \in Strays => disturbed

\* Between two calls no socket is open.
ClosedBetween == pc \in {"idle", "stopped"} => socket = <<>>

IInv ==
  /\ TypeOK /\ OkMeansAnswered /\ ErrorMeansDisturbed
  /\ RepliesAnswered /\ QueueExplained /\ ClosedBetween

-----------------------------------------------------------------------------
\* The socket queues a packet while a call is under way and there is room, and
\* nothing else: between two calls, and in a full queue, packets are lost.
LEMMA QueuedPacket ==
  ASSUME NEW P, socket \in Seq(P), Len(socket) <= MaxQueue, NEW packet \in P
  PROVE  /\ Queued(packet) \in Seq(P) /\ Len(Queued(packet)) <= MaxQueue
         /\ \A i \in 1 .. Len(Queued(packet)) :
              \/ i \in 1 .. Len(socket) /\ Queued(packet)[i] = socket[i]
              \/ Queued(packet)[i] = packet
         /\ pc \notin {"open", "waiting"} => Queued(packet) = socket
<1>1. CASE pc \in {"open", "waiting"} /\ Len(socket) < MaxQueue
  <2>1. Queued(packet) = Append(socket, packet)
    BY <1>1 DEF Queued
  <2>2. Append(socket, packet) \in Seq(P) /\ Len(Append(socket, packet)) = Len(socket) + 1
    BY AppendProperties
  <2>3. \A i \in 1 .. Len(socket) + 1 :
          \/ i \in 1 .. Len(socket) /\ Append(socket, packet)[i] = socket[i]
          \/ Append(socket, packet)[i] = packet
    BY AppendProperties
  <2>4. Len(socket) \in Nat /\ Len(socket) + 1 <= MaxQueue
    BY <1>1, QueueAssumption
  <2> QED
    BY <1>1, <2>1, <2>2, <2>3, <2>4
<1>2. CASE ~(pc \in {"open", "waiting"} /\ Len(socket) < MaxQueue)
  BY <1>2 DEF Queued
<1> QED
  BY <1>1, <1>2

\* An empty socket is well typed and explained.
LEMMA EmptySocket ==
  /\ <<>> \in Seq(Packets) /\ Len(<<>>) <= MaxQueue
  /\ \A i \in 1 .. Len(<<>>) : FALSE
<1>1. <<>> \in Seq(Packets) /\ Len(<<>>) = 0
  OBVIOUS
<1> QED
  BY <1>1, QueueAssumption

LEMMA InitIInv == Init => IInv
<1> SUFFICES ASSUME Init PROVE IInv
  OBVIOUS
<1>1. TypeOK
  <2>1. socket \in Seq(Packets) /\ Len(socket) <= MaxQueue
    BY EmptySocket DEF Init
  <2>2. waited \in 0 .. PING_TIMEOUT_MS
    BY TimeoutAssumption DEF Init
  <2> QED
    BY <2>1, <2>2, Zenon DEF Init, TypeOK
<1>2. OkMeansAnswered /\ ErrorMeansDisturbed /\ RepliesAnswered /\ ClosedBetween
  BY DEF Init, OkMeansAnswered, ErrorMeansDisturbed, RepliesAnswered, ClosedBetween
<1>3. QueueExplained
  BY EmptySocket DEF Init, QueueExplained
<1> QED
  BY <1>1, <1>2, <1>3 DEF IInv

\* Every step keeps the invariant: Receive, because the packet it looks at is
\* explained; every other end of a call, because it is a disturbance.
LEMMA Step == IInv /\ [Next]_vars => IInv'
<1> SUFFICES ASSUME IInv, [Next]_vars PROVE IInv'
  OBVIOUS
<1> USE TimeoutAssumption, EmptySocket
<1> USE DEF IInv, TypeOK, OkMeansAnswered, ErrorMeansDisturbed, RepliesAnswered,
            QueueExplained, ClosedBetween, calls, network
<1>1. CASE Stop
  BY <1>1 DEF Stop
<1>2. CASE OpenSocket
  <2>1. /\ pc' = "open" /\ pc = "idle" /\ waited' = 0
        /\ disturbed' = FALSE /\ confused' = FALSE
        /\ UNCHANGED <<keepRunning, verdict, socket, hostUp, answered>>
    BY <1>2 DEF OpenSocket
  <2>2. requests' \subseteq Replies /\ replies' \subseteq Replies
    BY <1>2 DEF OpenSocket, Aged, Replies
  <2>3. replies' # {} => replies # {}
    BY <1>2 DEF OpenSocket, Aged
  <2>4. QueueExplained'
    BY <2>1
  <2>5. TypeOK'
    <3>1. waited' \in 0 .. PING_TIMEOUT_MS
      BY <2>1
    <3> QED
      BY <2>1, <2>2, <3>1, Zenon
  <2>6. RepliesAnswered' /\ OkMeansAnswered'
    BY <2>1, <2>3
  <2>7. ErrorMeansDisturbed' /\ ClosedBetween'
    BY <2>1
  <2> QED
    BY <2>4, <2>5, <2>6, <2>7
<1>3. CASE Refused
  BY <1>3 DEF Refused
<1>4. CASE Send
  BY <1>4 DEF Send, Replies
<1>5. CASE SendFails
  BY <1>5 DEF SendFails, Return, Closed
<1>6. CASE Receive
  <2>1. /\ pc = "waiting" /\ socket # <<>> /\ pc' = "idle" /\ socket' = <<>>
        /\ verdict' = IF socket[1] \in Replies \cup Alike THEN "OK" ELSE "ERR"
        /\ UNCHANGED <<keepRunning, network, hostUp, answered, waited, disturbed, confused>>
    BY <1>6 DEF Receive, Return, Closed, Valid
  <2>2. 1 \in 1 .. Len(socket) /\ socket[1] \in Packets
    BY <2>1
  <2>3. socket[1] \in Replies \cup Alike => answered \/ confused
    BY <2>2
  <2>4. socket[1] \notin Replies \cup Alike => disturbed
    BY <2>2 DEF Packets
  <2> QED
    BY <2>1, <2>3, <2>4
<1>7. CASE ReceiveTimeout
  BY <1>7 DEF ReceiveTimeout, Return, Closed, NoResponse
<1>8. CASE Second
  BY <1>8 DEF Second, TimeLimit
<1>9. CASE Terminate
  <2>1. CASE UNCHANGED <<pc, verdict, socket, disturbed>>
    BY <1>9, <2>1 DEF Terminate
  <2>2. CASE ~UNCHANGED <<pc, verdict, socket, disturbed>>
    <3>1. pc' = "idle" /\ verdict' = "ERR" /\ socket' = <<>> /\ disturbed' = TRUE
      BY <1>9, <2>2 DEF Terminate, Return, Closed
    <3>2. keepRunning' = FALSE /\ UNCHANGED <<network, hostUp, answered, waited, confused>>
      BY <1>9 DEF Terminate
    <3> QED
      BY <3>1, <3>2
  <2> QED
    BY <2>1, <2>2
<1>10. CASE HostChange
  BY <1>10 DEF HostChange
<1>11. CASE HostAnswers
  BY <1>11 DEF HostAnswers
<1>12. ASSUME NEW call \in Replies, LoseRequest(call) PROVE IInv'
  BY <1>12 DEF LoseRequest
<1>13. ASSUME NEW call \in Replies, LoseReply(call) PROVE IInv'
  BY <1>13 DEF LoseReply
<1>14. CASE ReplyArrives
  <2>1. PICK call \in replies : /\ socket' = Queued(call)
                                /\ replies' \in {replies, replies \ {call}}
    BY <1>14 DEF ReplyArrives
  <2>2. answered /\ call \in Packets
    BY <2>1 DEF Packets
  <2>3. UNCHANGED <<pc, keepRunning, verdict, requests, hostUp, answered, waited, disturbed,
                    confused>>
    BY <1>14 DEF ReplyArrives
  <2>4. /\ socket' \in Seq(Packets) /\ Len(socket') <= MaxQueue
        /\ \A i \in 1 .. Len(socket') :
             \/ i \in 1 .. Len(socket) /\ socket'[i] = socket[i]
             \/ socket'[i] = call
        /\ pc \in {"idle", "stopped"} => socket' = socket
    BY <2>1, <2>2, QueuedPacket
  <2>5. call \notin Strays /\ call \notin Alike
    BY <2>1 DEF Replies, Alike, Strays
  <2>6. QueueExplained'
    BY <2>2, <2>3, <2>4, <2>5
  <2> QED
    BY <2>1, <2>2, <2>3, <2>4, <2>6
<1>15. CASE StrayArrives
  <2>1. PICK packet \in Strays : socket' = Queued(packet)
    BY <1>15 DEF StrayArrives
  <2>2. packet \in Packets /\ packet \notin Replies \cup Alike
    BY DEF Packets, Replies, Alike, Strays
  <2>3. /\ UNCHANGED <<pc, keepRunning, verdict, requests, replies, hostUp, answered, waited,
                       confused>>
        /\ disturbed' = TRUE
    BY <1>15 DEF StrayArrives
  <2>4. /\ socket' \in Seq(Packets) /\ Len(socket') <= MaxQueue
        /\ \A i \in 1 .. Len(socket') :
             \/ i \in 1 .. Len(socket) /\ socket'[i] = socket[i]
             \/ socket'[i] = packet
        /\ pc \in {"idle", "stopped"} => socket' = socket
    BY <2>1, <2>2, QueuedPacket
  <2>5. QueueExplained'
    BY <2>2, <2>3, <2>4
  <2> QED
    BY <2>3, <2>4, <2>5
<1>16. CASE AlikeArrives
  <2>1. PICK packet \in Alike : socket' = Queued(packet)
    BY <1>16 DEF AlikeArrives
  <2>2. packet \in Packets /\ packet \notin Replies \cup Strays
    BY DEF Packets, Replies, Alike, Strays
  <2>3. /\ UNCHANGED <<pc, keepRunning, verdict, requests, replies, hostUp, answered, waited,
                       disturbed>>
        /\ confused' = TRUE
    BY <1>16 DEF AlikeArrives
  <2>4. /\ socket' \in Seq(Packets) /\ Len(socket') <= MaxQueue
        /\ \A i \in 1 .. Len(socket') :
             \/ i \in 1 .. Len(socket) /\ socket'[i] = socket[i]
             \/ socket'[i] = packet
        /\ pc \in {"idle", "stopped"} => socket' = socket
    BY <2>1, <2>2, QueuedPacket
  <2>5. QueueExplained'
    BY <2>2, <2>3, <2>4
  <2> QED
    BY <2>3, <2>4, <2>5
<1>17. CASE UNCHANGED vars
  BY <1>17 DEF vars
<1> QED
  BY <1>1, <1>2, <1>3, <1>4, <1>5, <1>6, <1>7, <1>8, <1>9, <1>10, <1>11, <1>12, <1>13,
     <1>14, <1>15, <1>16, <1>17 DEF Next, Caller, Outside, Lose

\* The inductive invariant: where the packets in the socket come from.
THEOREM InvariantHolds == Spec => []IInv
BY InitIInv, Step, PTL DEF Spec

\* ping_host waits no longer than SO_RCVTIMEO, and the socket holds no more than
\* its queue.
THEOREM TypeCorrect == Spec => []TypeOK
<1>1. IInv => TypeOK
  BY DEF IInv
<1> QED
  BY <1>1, InvariantHolds, PTL

\* PING_OK is returned only if the host ever answered, or another host's reply with the
\* identifier and the sequence number of the request came during the same call.
THEOREM OkIsAnswer == Spec => []OkMeansAnswered
<1>1. IInv => OkMeansAnswered
  BY DEF IInv
<1> QED
  BY <1>1, InvariantHolds, PTL

\* A call fails only if it was itself disturbed.
THEOREM ErrorIsDisturbance == Spec => []ErrorMeansDisturbed
<1>1. IInv => ErrorMeansDisturbed
  BY DEF IInv
<1> QED
  BY <1>1, InvariantHolds, PTL

\* Packets that validate_reply rejects leave a socket as it was: with such only.
LEMMA OnlyStraysQueued ==
  ASSUME TypeOK, \A i \in DOMAIN socket : socket[i] \in Strays,
         NEW packet \in Strays, socket' = Queued(packet)
  PROVE  \A i \in DOMAIN socket' : socket'[i] \in Strays
<1>1. packet \in Packets
  BY DEF Packets
<1>2. /\ socket' \in Seq(Packets)
      /\ \A i \in 1 .. Len(socket') :
           \/ i \in 1 .. Len(socket) /\ socket'[i] = socket[i]
           \/ socket'[i] = packet
  BY <1>1, QueuedPacket DEF TypeOK
<1>3. DOMAIN socket = 1 .. Len(socket) /\ DOMAIN socket' = 1 .. Len(socket')
  BY <1>2 DEF TypeOK
<1> QED
  BY <1>1, <1>2, <1>3

\* A host of which nothing is left to come is down for every call until it is back, or
\* another host's reply passes for its own: the safety half of DeadHostNoticed.
THEOREM SilentIsDown == Spec => SilentHostFails
<1>1. IInv /\ [Next]_vars =>
        [Silent /\ ~hostUp' /\ ~AlikeArrives =>
           Silent' /\ (verdict' = "OK" => verdict = "OK")]_vars
  <2> SUFFICES ASSUME IInv, Next, Silent, ~hostUp', ~AlikeArrives
               PROVE  Silent' /\ (verdict' = "OK" => verdict = "OK")
    OBVIOUS
  <2>0. TypeOK
    BY DEF IInv
  <2> USE DEF Silent, calls, network
  <2>1. CASE Stop \/ Refused \/ Send \/ Second
    BY <2>1 DEF Stop, Refused, Send, Second
  <2>2. CASE OpenSocket
    BY <2>2 DEF OpenSocket, Aged
  <2>3. ASSUME socket' = <<>>, verdict' = "ERR", UNCHANGED network
        PROVE  Silent' /\ verdict' # "OK"
    BY <2>3
  <2>4. CASE SendFails \/ ReceiveTimeout
    BY <2>3, <2>4 DEF SendFails, ReceiveTimeout, Return, Closed, NoResponse
  <2>5. CASE Receive
    <3>1. socket # <<>> /\ UNCHANGED network
      BY <2>5 DEF Receive
    <3>2. 1 \in DOMAIN socket /\ Head(socket) = socket[1]
      BY <2>0, <3>1 DEF TypeOK
    <3>3. ~Valid(Head(socket))
      BY <3>2 DEF Valid, Replies, Alike, Strays
    <3>4. socket' = <<>> /\ verdict' = "ERR"
      BY <2>5, <3>3 DEF Receive, Return, Closed
    <3> QED
      BY <2>3, <3>1, <3>4
  <2>6. CASE Terminate
    <3>1. CASE UNCHANGED <<verdict, socket>>
      BY <2>6, <3>1 DEF Terminate
    <3>2. CASE Return("ERR")
      BY <2>3, <2>6, <3>2 DEF Terminate, Return, Closed
    <3> QED
      BY <2>6, <3>1, <3>2 DEF Terminate
  <2>7. CASE HostChange \/ HostAnswers
    BY <2>7 DEF HostChange, HostAnswers
  <2>8. CASE Lose
    BY <2>8 DEF Lose, LoseRequest, LoseReply
  <2>9. CASE ReplyArrives
    BY <2>9 DEF ReplyArrives
  <2>10. CASE StrayArrives
    <3>1. PICK packet \in Strays : socket' = Queued(packet)
      BY <2>10 DEF StrayArrives
    <3>2. UNCHANGED <<verdict, network, hostUp>>
      BY <2>10 DEF StrayArrives
    <3>3. \A i \in DOMAIN socket' : socket'[i] \in Strays
      BY <2>0, <3>1, OnlyStraysQueued
    <3> QED
      BY <3>2, <3>3
  <2> QED
    BY <2>1, <2>2, <2>4, <2>5, <2>6, <2>7, <2>8, <2>9, <2>10 DEF Next, Caller, Outside
<1> QED
  BY <1>1, InvariantHolds, PTL DEF Spec, SilentHostFails

=============================================================================
