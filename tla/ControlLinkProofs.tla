-------------------------- MODULE ControlLinkProofs --------------------------
(***************************************************************************)
(* Proofs about ControlLink for any number of calls and any command lines, *)
(* any flag words a daemon may answer with, and a queue of any length.     *)
(***************************************************************************)
EXTENDS ControlLink, SequenceTheorems, TLAPS

\* getPortNum returns a port from 1 to 8, or 0.
LEMMA PortNumInRange ==
  ASSUME NEW n \in Int
  PROVE  getPortNum(n) \in 0 .. 8
BY DEF getPortNum

\* What it returns, if not 0, differs from the number by a multiple of 256.
LEMMA PortNumAsTyped ==
  ASSUME NEW n \in Int, getPortNum(n) # 0
  PROVE  getPortNum(n) \in 1 .. 8 /\ (n - getPortNum(n)) % 256 = 0
<1>1. getPortNum(n) = n % 256 /\ n % 256 \in 1 .. 8
  BY DEF getPortNum
<1>2. (n - (n % 256)) % 256 = 0
  BY Z3
<1> QED
  BY <1>1, <1>2

-----------------------------------------------------------------------------
\* No command line changes, and neither does what the code makes of it.
LEMMA LineStays ==
  ASSUME [Next]_vars
  PROVE  /\ line' = line
         /\ \A c \in Clients :
              /\ Cmd(c)' = Cmd(c) /\ Port(c)' = Port(c)
              /\ RebootError(c)' = RebootError(c)
<1>1. line' = line
  BY DEF Next, ControlProgram, Server, vars, Main, IsRunning, PipeFails, Parse,
     CreateSocket, ConnectSocket, SendCmd, GetResult, PrintBufferJson, Interrupt,
     Start, BindSocket, ListenSocket, AcceptSocket, AcceptFails, Retry, ClientHandler,
     ClientGone, Die
<1> QED
  BY <1>1 DEF Cmd, Port, RebootError

\* The variables that each call has of its own.
Typed ==
  /\ pc \in [Clients -> {"main", "isRunning", "parse", "socket", "connect", "send",
                         "result", "print", "exited", "killed"}]
  /\ line \in [Clients -> Lines]
  /\ flags \in [Clients -> SUBSET {"OK", "INACTIVE", "SOCKET", "ARG_1"}]
  /\ errorCode \in [Clients -> {{}, {"OK"}, {"ARG_2"}, {"ARG_3"}}]
  /\ DOMAIN resetPort = Clients /\ DOMAIN printed = Clients
  /\ DOMAIN request = Clients /\ DOMAIN answer = Clients /\ DOMAIN handled = Clients
  /\ conn \in [Clients -> {"none", "queued", "open", "reset"}]
  /\ served \in Clients
  /\ backlog \in Seq(Clients)

\* A command line that comHandler is called for.
Valid(c) ==
  Cmd(c) \in {"status", "reboot"} /\ (Cmd(c) = "reboot" => RebootError(c) = {"OK"})

\* The ways a call can have gone when it prints or is over, with what is then in
\* its flags, its return value and its answer.
Concluded(c) ==
  \/ flags[c] \in {{"ARG_1"}, {"INACTIVE"}} /\ errorCode[c] = {} /\ ~Answered(c)
  \/ /\ errorCode[c] = {"OK"}
     /\ \/ flags[c] = {"OK"} /\ Answered(c)
        \/ flags[c] = {"OK", "SOCKET"} /\ ~Answered(c)
        \/ flags[c] = {"ARG_1"} /\ ~Answered(c)
        \/ flags[c] = {"OK"} /\ ~Answered(c) /\ Cmd(c) = "error"
  \/ /\ flags[c] = {"OK"} /\ ~Answered(c)
     /\ Cmd(c) = "reboot" /\ errorCode[c] = RebootError(c)
     /\ RebootError(c) # {"OK"}

\* What is known of a call by the step it has reached.
Progress(c) ==
  /\ pc[c] \in {"main", "isRunning", "parse"} =>
       flags[c] = {"OK"} /\ errorCode[c] = {} /\ ~Answered(c)
  /\ pc[c] \in {"socket", "connect", "send", "result"} =>
       flags[c] = {"OK"} /\ errorCode[c] = {"OK"} /\ ~Answered(c) /\ Valid(c)
  /\ pc[c] \in {"print", "exited"} => Concluded(c)
  /\ pc[c] \in {"main", "isRunning", "parse", "socket", "connect"} => conn[c] = "none"

\* A printout tells the flags and the answer of its call, which are final.
Printed(c) ==
  printed[c] # <<>> =>
    /\ pc[c] = "exited"
    /\ printed[c][1].program = flags[c]
    /\ printed[c][1].status =
         StatusTexts(IF Answered(c) THEN resetPort[c][1] ELSE {})

\* What a call wrote, and what the daemon read of it, is what it was told.
Requested(c) ==
  request[c] # <<>> =>
    Valid(c) /\ request[c] = <<[cmd |-> Cmd(c), port |-> Port(c)]>>
Handled(c) ==
  handled[c] # <<>> =>
    Valid(c) /\ handled[c] = <<[cmd |-> Cmd(c), port |-> Port(c)]>>

\* The order of an exchange: a call writes once, at the end of its preparations; what
\* it wrote is dispatched once, unless the daemon is gone, and then answered.
Exchange(c) ==
  /\ pc[c] \in {"main", "isRunning", "parse", "socket", "connect", "send"} =>
       request[c] = <<>> /\ handled[c] = <<>>
  /\ request[c] # <<>> =>
       handled[c] = <<>> /\ (pc[c] \in {"print", "exited"} => conn[c] = "reset")
  /\ answer[c] # <<>> \/ Answered(c) => handled[c] # <<>>

\* The queue of the listening socket: every call is in it once, while its
\* connection waits; and its path.
Queue ==
  /\ daemon \in {"down", "idle", "bind", "listen", "accepting", "retry", "reading"}
  /\ path \in {"absent", "dead", "live"}
  /\ path = "live" <=> Listening
  /\ Len(backlog) <= MAX_CLIENTS + 1
  /\ \A i \in 1 .. Len(backlog) : conn[backlog[i]] = "queued"
  /\ \A i, j \in 1 .. Len(backlog) : i # j => backlog[i] # backlog[j]
  /\ daemon = "reading" => conn[served] = "open"

IInv ==
  /\ Typed
  /\ \A c \in Clients :
       Progress(c) /\ Printed(c) /\ Requested(c) /\ Handled(c) /\ Exchange(c)
  /\ Queue

-----------------------------------------------------------------------------
LEMMA InitIInv == Init => IInv
<1> SUFFICES ASSUME Init PROVE IInv
  OBVIOUS
<1>1. Typed
  BY DEF Init, Typed
<1>2. ASSUME NEW c \in Clients PROVE Progress(c) /\ Printed(c) /\ Requested(c)
  BY <1>2 DEF Init, Progress, Printed, Requested, Answered
<1>3. ASSUME NEW c \in Clients PROVE Handled(c) /\ Exchange(c)
  BY <1>3 DEF Init, Handled, Exchange, Answered
<1>4. Queue
  BY BacklogAssumption DEF Init, Queue, Listening
<1> QED
  BY <1>1, <1>2, <1>3, <1>4 DEF IInv

\* Every step leaves the variables of the calls in their types.
LEMMA TypedStep == IInv /\ [Next]_vars => Typed'
<1> SUFFICES ASSUME IInv, [Next]_vars PROVE Typed'
  OBVIOUS
<1>0. Typed /\ \A c \in Clients : Progress(c)
  BY DEF IInv
<1> USE DEF Typed, Goto, Flag, call, link, server
<1>1. ASSUME NEW c \in Clients, Main(c) PROVE Typed'
  BY <1>0, <1>1 DEF Main
<1>2. ASSUME NEW c \in Clients, IsRunning(c) PROVE Typed'
  BY <1>0, <1>2 DEF IsRunning
<1>3. ASSUME NEW c \in Clients, PipeFails(c) PROVE Typed'
  BY <1>0, <1>3 DEF PipeFails
<1>4. ASSUME NEW c \in Clients, Parse(c) PROVE Typed'
  BY <1>0, <1>4 DEF Parse, RebootError
<1>5. ASSUME NEW c \in Clients, CreateSocket(c) PROVE Typed'
  BY <1>0, <1>5 DEF CreateSocket, FailWithSocket, SocketError
<1>6. ASSUME NEW c \in Clients, ConnectSocket(c) PROVE Typed'
  <2>1. Append(backlog, c) \in Seq(Clients)
    BY <1>0, AppendProperties
  <2>2. backlog' \in Seq(Clients)
    BY <1>0, <1>6, <2>1 DEF ConnectSocket
  <2>3. pc' \in [Clients -> {"main", "isRunning", "parse", "socket", "connect", "send",
                             "result", "print", "exited", "killed"}]
    BY <1>0, <1>6 DEF ConnectSocket, FailWithSocket
  <2>4. flags' \in [Clients -> SUBSET {"OK", "INACTIVE", "SOCKET", "ARG_1"}]
    <3>1. UNCHANGED flags \/ flags' = [flags EXCEPT ![c] = SocketError(flags[c])]
      BY <1>6 DEF ConnectSocket, FailWithSocket
    <3>2. SocketError(flags[c]) \in SUBSET {"OK", "INACTIVE", "SOCKET", "ARG_1"}
      BY <1>0 DEF SocketError
    <3> QED
      BY <1>0, <3>1, <3>2
  <2>5. conn' \in [Clients -> {"none", "queued", "open", "reset"}]
    BY <1>0, <1>6 DEF ConnectSocket
  <2>6. UNCHANGED <<line, errorCode, resetPort, printed, request, answer, served,
                       handled>>
    BY <1>6 DEF ConnectSocket
  <2> QED
    BY <1>0, <2>2, <2>3, <2>4, <2>5, <2>6
<1>7. ASSUME NEW c \in Clients, SendCmd(c) PROVE Typed'
  BY <1>0, <1>7 DEF SendCmd
<1>8. ASSUME NEW c \in Clients, GetResult(c) PROVE Typed'
  BY <1>0, <1>8 DEF GetResult, FailWithSocket, SocketError
<1>9. ASSUME NEW c \in Clients, PrintBufferJson(c) PROVE Typed'
  BY <1>0, <1>9 DEF PrintBufferJson
<1>10. ASSUME NEW c \in Clients, Interrupt(c) PROVE Typed'
  BY <1>0, <1>10 DEF Interrupt
<1>11. CASE Start
  BY <1>0, <1>11 DEF Start
<1>12. CASE BindSocket
  BY <1>0, <1>12 DEF BindSocket
<1>13. CASE ListenSocket
  BY <1>0, <1>13 DEF ListenSocket
<1>14. CASE AcceptSocket
  <2>1. Head(backlog) \in Clients /\ Tail(backlog) \in Seq(Clients)
    BY <1>0, <1>14, HeadTailProperties DEF AcceptSocket
  <2> QED
    BY <1>0, <1>14, <2>1 DEF AcceptSocket
<1>15. CASE ClientHandler
  <2>1. DOMAIN request' = Clients /\ DOMAIN answer' = Clients /\ DOMAIN handled' = Clients
    BY <1>0, <1>15 DEF ClientHandler
  <2>2. conn' \in [Clients -> {"none", "queued", "open", "reset"}]
    BY <1>0, <1>15 DEF ClientHandler, CloseAll
  <2>3. backlog' \in Seq(Clients)
    <3>1. backlog' = backlog \/ backlog' = <<>>
      BY <1>15 DEF ClientHandler, CloseAll
    <3>2. <<>> \in Seq(Clients)
      OBVIOUS
    <3> QED
      BY <1>0, <3>1, <3>2
  <2>4. UNCHANGED <<pc, line, flags, errorCode, resetPort, printed, served>>
    BY <1>15 DEF ClientHandler
  <2> QED
    BY <1>0, <2>1, <2>2, <2>3, <2>4
<1>16. CASE ClientGone
  BY <1>0, <1>16 DEF ClientGone
<1>17. CASE Die
  BY <1>0, <1>17 DEF Die, CloseAll
<1>18. CASE AcceptFails \/ Retry
  BY <1>0, <1>18 DEF AcceptFails, Retry
<1>19. CASE UNCHANGED vars
  BY <1>0, <1>19 DEF vars
<1> QED
  BY <1>1, <1>2, <1>3, <1>4, <1>5, <1>6, <1>7, <1>8, <1>9, <1>10, <1>11, <1>12, <1>13,
     <1>14, <1>15, <1>16, <1>17, <1>18, <1>19 DEF Next, ControlProgram, Server

\* Every step moves a call on to a step of which Progress knows the situation.
LEMMA ProgressStep ==
  ASSUME IInv, [Next]_vars, NEW d \in Clients
  PROVE  Progress(d)'
<1>0. Typed /\ Progress(d) /\ Queue
  BY DEF IInv
<1>a. /\ Cmd(d)' = Cmd(d) /\ Port(d)' = Port(d) /\ RebootError(d)' = RebootError(d)
  BY LineStays
<1> USE DEF Typed, Goto, Flag, call, link, server, Progress, Concluded, Valid, Answered
<1>1. ASSUME NEW c \in Clients, Main(c) PROVE Progress(d)'
  BY <1>0, <1>a, <1>1 DEF Main
<1>2. ASSUME NEW c \in Clients, IsRunning(c) PROVE Progress(d)'
  BY <1>0, <1>a, <1>2 DEF IsRunning
<1>3. ASSUME NEW c \in Clients, PipeFails(c) PROVE Progress(d)'
  BY <1>0, <1>a, <1>3 DEF PipeFails
<1>4. ASSUME NEW c \in Clients, Parse(c) PROVE Progress(d)'
  <2>1. Cmd(d) \in {"status", "reboot", "error", "idle"}
    BY <1>0, LinesAssumption DEF Cmd, getCmdType, CmdTable
  <2>2. RebootError(d) \in {{"ARG_3"}, {"ARG_2"}, {"OK"}}
    BY DEF RebootError
  <2>3. CASE c = d
    BY <1>0, <1>a, <1>4, <2>1, <2>2, <2>3 DEF Parse
  <2>4. CASE c # d
    BY <1>0, <1>a, <1>4, <2>4 DEF Parse
  <2> QED
    BY <2>3, <2>4
<1>5. ASSUME NEW c \in Clients, CreateSocket(c) PROVE Progress(d)'
  BY <1>0, <1>a, <1>5 DEF CreateSocket, FailWithSocket, SocketError
<1>6. ASSUME NEW c \in Clients, ConnectSocket(c) PROVE Progress(d)'
  BY <1>0, <1>a, <1>6 DEF ConnectSocket, FailWithSocket, SocketError
<1>7. ASSUME NEW c \in Clients, SendCmd(c) PROVE Progress(d)'
  BY <1>0, <1>a, <1>7 DEF SendCmd
<1>8. ASSUME NEW c \in Clients, GetResult(c) PROVE Progress(d)'
  BY <1>0, <1>a, <1>8 DEF GetResult, FailWithSocket, SocketError
<1>9. ASSUME NEW c \in Clients, PrintBufferJson(c) PROVE Progress(d)'
  BY <1>0, <1>a, <1>9 DEF PrintBufferJson
<1>10. ASSUME NEW c \in Clients, Interrupt(c) PROVE Progress(d)'
  BY <1>0, <1>a, <1>10 DEF Interrupt
<1>11. CASE Start
  BY <1>0, <1>a, <1>11 DEF Start
<1>12. CASE BindSocket
  BY <1>0, <1>a, <1>12 DEF BindSocket
<1>13. CASE ListenSocket
  BY <1>0, <1>a, <1>13 DEF ListenSocket
<1>14. CASE AcceptSocket
  <2>1. Head(backlog) = backlog[1] /\ 1 \in 1 .. Len(backlog)
    BY <1>0, <1>14 DEF AcceptSocket
  <2>2. conn[Head(backlog)] = "queued"
    BY <1>0, <2>1 DEF Queue
  <2>3. pc[d] \in {"main", "isRunning", "parse", "socket", "connect"} => Head(backlog) # d
    BY <1>0, <2>2
  <2> QED
    BY <1>0, <1>a, <1>14, <2>3 DEF AcceptSocket
<1>15. CASE ClientHandler
  <2>1. UNCHANGED <<pc, flags, errorCode, resetPort>>
    BY <1>15 DEF ClientHandler
  <2>2. conn[d] = "none" => conn'[d] = "none"
    BY <1>0, <1>15 DEF ClientHandler, CloseAll
  <2> QED
    BY <1>0, <1>a, <2>1, <2>2
<1>16. CASE ClientGone
  BY <1>0, <1>a, <1>16 DEF ClientGone
<1>17. CASE Die
  BY <1>0, <1>a, <1>17 DEF Die, CloseAll
<1>18. CASE AcceptFails \/ Retry
  BY <1>0, <1>a, <1>18 DEF AcceptFails, Retry
<1>19. CASE UNCHANGED vars
  BY <1>0, <1>a, <1>19 DEF vars
<1> QED
  BY <1>1, <1>2, <1>3, <1>4, <1>5, <1>6, <1>7, <1>8, <1>9, <1>10, <1>11, <1>12, <1>13,
     <1>14, <1>15, <1>16, <1>17, <1>18, <1>19 DEF Next, ControlProgram, Server

\* Only PrintBufferJson prints, at the end of a call; no step changes the flags or
\* the answer of a call after that.
LEMMA PrintedStep ==
  ASSUME IInv, [Next]_vars, NEW d \in Clients
  PROVE  Printed(d)'
<1>0. Typed /\ Progress(d) /\ Printed(d)
  BY DEF IInv
<1> USE DEF Typed, Goto, Flag, call, link, server, Printed, Answered
<1>1. ASSUME NEW c \in Clients, PrintBufferJson(c) PROVE Printed(d)'
  <2>1. CASE c = d
    BY <1>0, <1>1, <2>1 DEF PrintBufferJson
  <2>2. CASE c # d
    BY <1>0, <1>1, <2>2 DEF PrintBufferJson
  <2> QED
    BY <2>1, <2>2
<1>2. CASE UNCHANGED <<pc, flags, resetPort, printed>>
  BY <1>0, <1>2
<1>3. ASSUME NEW c \in Clients, pc[c] # "exited", UNCHANGED printed,
             c # d => UNCHANGED <<pc[d], flags[d], resetPort[d]>>
      PROVE  Printed(d)'
  BY <1>0, <1>3
<1>4. ASSUME NEW c \in Clients, ControlProgram(c) \/ Interrupt(c), ~PrintBufferJson(c)
      PROVE  Printed(d)'
  <2>1. pc[c] # "exited" /\ UNCHANGED printed
    BY <1>4 DEF ControlProgram, Main, IsRunning, PipeFails, Parse, CreateSocket,
       ConnectSocket, SendCmd, GetResult, Interrupt, Ended
  <2>2. c # d => UNCHANGED <<pc[d], flags[d], resetPort[d]>>
    BY <1>0, <1>4 DEF ControlProgram, Main, IsRunning, PipeFails, Parse, CreateSocket,
       ConnectSocket, SendCmd, GetResult, Interrupt, FailWithSocket
  <2> QED
    BY <1>3, <2>1, <2>2
<1>5. CASE Start \/ Server \/ AcceptFails \/ Die \/ UNCHANGED vars
  <2>1. UNCHANGED <<pc, flags, resetPort, printed>>
    BY <1>5 DEF Server, Start, BindSocket, ListenSocket, AcceptSocket, AcceptFails, Retry,
       ClientHandler, ClientGone, Die, vars
  <2> QED
    BY <1>2, <2>1
<1> QED
  BY <1>1, <1>4, <1>5 DEF Next

\* SendCmd alone writes a request; clientHandler takes it away whole.
LEMMA RequestedStep ==
  ASSUME IInv, [Next]_vars, NEW d \in Clients
  PROVE  Requested(d)'
<1>0. Typed /\ Progress(d) /\ Requested(d)
  BY DEF IInv
<1>a. Cmd(d)' = Cmd(d) /\ Port(d)' = Port(d) /\ RebootError(d)' = RebootError(d)
  BY LineStays
<1> USE DEF Typed, Goto, Flag, call, link, server, Requested, Valid
<1>1. ASSUME NEW c \in Clients, SendCmd(c) PROVE Requested(d)'
  BY <1>0, <1>a, <1>1 DEF SendCmd, Progress
<1>2. CASE request'[d] = request[d] \/ request'[d] = <<>>
  BY <1>0, <1>a, <1>2
<1>3. ASSUME NEW c \in Clients, ControlProgram(c) \/ Interrupt(c), ~SendCmd(c)
      PROVE  Requested(d)'
  <2>1. UNCHANGED request
    BY <1>3 DEF ControlProgram, Main, IsRunning, PipeFails, Parse, CreateSocket,
       ConnectSocket, GetResult, PrintBufferJson, Interrupt
  <2> QED
    BY <1>2, <2>1
<1>4. CASE ClientHandler
  BY <1>0, <1>2, <1>4 DEF ClientHandler
<1>5. CASE Start \/ (Server /\ ~ClientHandler) \/ AcceptFails \/ Die \/ UNCHANGED vars
  <2>1. UNCHANGED request
    BY <1>5 DEF Server, Start, BindSocket, ListenSocket, AcceptSocket, AcceptFails, Retry,
       ClientGone, Die, vars
  <2> QED
    BY <1>2, <2>1
<1> QED
  BY <1>1, <1>3, <1>4, <1>5 DEF Next, Server

\* Only clientHandler dispatches, and only what the call wrote.
LEMMA HandledStep ==
  ASSUME IInv, [Next]_vars, NEW d \in Clients
  PROVE  Handled(d)'
<1>0. Typed /\ Requested(d) /\ Handled(d) /\ Exchange(d)
  BY DEF IInv
<1>a. Cmd(d)' = Cmd(d) /\ Port(d)' = Port(d) /\ RebootError(d)' = RebootError(d)
  BY LineStays
<1>1. CASE handled'[d] = handled[d]
  BY <1>0, <1>a, <1>1 DEF Handled, Valid
<1>2. CASE ClientHandler
  <2>1. CASE served # d
    BY <1>0, <1>1, <1>2, <2>1 DEF ClientHandler, Typed
  <2>2. CASE served = d
    <3>1. /\ Valid(d) /\ request[d] = <<[cmd |-> Cmd(d), port |-> Port(d)]>>
          /\ handled[d] = <<>>
      BY <1>0, <1>2, <2>2 DEF ClientHandler, Requested, Exchange
    <3>2. handled'[d] = Append(<<>>, [cmd |-> Cmd(d), port |-> Port(d)])
      BY <1>0, <1>2, <2>2, <3>1 DEF ClientHandler, Typed
    <3> QED
      BY <1>a, <3>1, <3>2 DEF Handled, Valid
  <2> QED
    BY <2>1, <2>2
<1>3. CASE ~ClientHandler
  <2>1. UNCHANGED handled
    BY <1>3 DEF Next, ControlProgram, Server, vars, server, Main, IsRunning, PipeFails,
       Parse, CreateSocket, ConnectSocket, SendCmd, GetResult, PrintBufferJson, Interrupt,
       Start, BindSocket, ListenSocket, AcceptSocket, AcceptFails, Retry, ClientGone, Die
  <2> QED
    BY <1>1, <2>1
<1> QED
  BY <1>2, <1>3

\* Nothing is written twice, dispatched twice or answered before it was dispatched.
LEMMA ExchangeStep ==
  ASSUME IInv, [Next]_vars, NEW d \in Clients
  PROVE  Exchange(d)'
<1>0. Typed /\ Progress(d) /\ Handled(d) /\ Exchange(d) /\ Queue
  BY DEF IInv
<1> USE DEF Typed, Goto, call, link, server, Exchange, Answered
<1>1. ASSUME NEW c \in Clients, SendCmd(c) PROVE Exchange(d)'
  BY <1>0, <1>1 DEF SendCmd
<1>2. ASSUME NEW c \in Clients, GetResult(c) PROVE Exchange(d)'
  <2>1. CASE c = d
    <3>1. pc[d] = "result" /\ pc'[d] = "print" /\ UNCHANGED <<conn, request, handled>>
      BY <1>0, <1>2, <2>1 DEF GetResult, FailWithSocket
    <3>2. \/ /\ answer[d] # <<>> /\ resetPort'[d] = answer[d] /\ answer'[d] = <<>>
          \/ /\ conn[d] = "reset" /\ UNCHANGED <<resetPort, answer>>
      BY <1>0, <1>2, <2>1 DEF GetResult, Disconnected
    <3> QED
      BY <1>0, <3>1, <3>2
  <2>2. CASE c # d
    <3>1. /\ pc'[d] = pc[d] /\ answer'[d] = answer[d] /\ resetPort'[d] = resetPort[d]
          /\ UNCHANGED <<conn, request, handled>>
      BY <1>0, <1>2, <2>2 DEF GetResult, FailWithSocket
    <3> QED
      BY <1>0, <3>1
  <2> QED
    BY <2>1, <2>2
<1>3. ASSUME NEW c \in Clients, ConnectSocket(c) PROVE Exchange(d)'
  BY <1>0, <1>3 DEF ConnectSocket, FailWithSocket
<1>4. ASSUME NEW c \in Clients, ControlProgram(c) \/ Interrupt(c),
             ~SendCmd(c), ~GetResult(c), ~ConnectSocket(c)
      PROVE  Exchange(d)'
  <2>1. UNCHANGED <<resetPort, conn, request, answer, handled>>
    BY <1>4 DEF ControlProgram, Main, IsRunning, PipeFails, Parse, CreateSocket,
       PrintBufferJson, Interrupt
  <2>2. \/ pc'[d] = pc[d] \/ pc'[d] = "killed"
        \/ /\ pc[d] \in {"main", "isRunning", "parse", "socket"}
           /\ pc'[d] \in {"isRunning", "parse", "socket", "connect", "print", "exited"}
        \/ pc[d] = "print" /\ pc'[d] = "exited"
    BY <1>0, <1>4 DEF ControlProgram, Main, IsRunning, PipeFails, Parse, CreateSocket,
       FailWithSocket, PrintBufferJson, Interrupt
  <2> QED
    BY <1>0, <2>1, <2>2
<1>5. CASE ClientHandler
  <2>1. UNCHANGED <<pc, resetPort>>
    BY <1>5 DEF ClientHandler
  <2>2. CASE served # d
    <3>1. request'[d] = request[d] /\ answer'[d] = answer[d] /\ handled'[d] = handled[d]
      BY <1>0, <1>5, <2>2 DEF ClientHandler
    <3>2. conn[d] = "reset" => conn'[d] = "reset"
      BY <1>0, <1>5 DEF ClientHandler, CloseAll
    <3> QED
      BY <1>0, <2>1, <3>1, <3>2
  <2>3. CASE served = d
    <3>1. /\ request[d] # <<>> /\ request'[d] = <<>>
          /\ handled'[d] = Append(handled[d], request[d][1])
      BY <1>0, <1>5, <2>3 DEF ClientHandler
    <3>2. handled[d] = <<>>
      BY <1>0, <3>1
    <3>3. handled'[d] # <<>>
      BY <3>1, <3>2
    <3> QED
      BY <1>0, <2>1, <3>1, <3>3
  <2> QED
    BY <2>2, <2>3
<1>6. CASE AcceptSocket
  <2>1. Head(backlog) = backlog[1] /\ 1 \in 1 .. Len(backlog)
    BY <1>0, <1>6 DEF AcceptSocket
  <2>2. conn[d] = "reset" => conn'[d] = "reset"
    BY <1>0, <1>6, <2>1 DEF AcceptSocket, Queue
  <2>3. UNCHANGED <<pc, resetPort, request, answer, handled>>
    BY <1>6 DEF AcceptSocket
  <2> QED
    BY <1>0, <2>2, <2>3
<1>7. CASE \/ Start \/ BindSocket \/ ListenSocket \/ AcceptFails \/ Retry
           \/ ClientGone \/ Die \/ UNCHANGED vars
  <2>1. UNCHANGED <<pc, resetPort, request, answer, handled>>
    BY <1>7 DEF Start, BindSocket, ListenSocket, AcceptFails, Retry, ClientGone, Die, vars
  <2>2. conn[d] = "reset" => conn'[d] = "reset"
    BY <1>0, <1>7
    DEF Start, BindSocket, ListenSocket, AcceptFails, Retry, ClientGone, Die, CloseAll, vars
  <2> QED
    BY <1>0, <2>1, <2>2
<1> QED
  BY <1>1, <1>2, <1>3, <1>4, <1>5, <1>6, <1>7 DEF Next, Server

\* connect adds a call that has no connection yet, accept takes the first away, and
\* the end of the daemon empties the queue.
LEMMA QueueStep == IInv /\ [Next]_vars => Queue'
<1> SUFFICES ASSUME IInv, [Next]_vars PROVE Queue'
  OBVIOUS
<1>0. Typed /\ Queue /\ \A c \in Clients : Progress(c)
  BY DEF IInv
<1> USE DEF Queue, Listening
<1>1. ASSUME NEW c \in Clients, ConnectSocket(c) PROVE Queue'
  <2>1. CASE path # "live"
    BY <1>0, <1>1, <2>1 DEF ConnectSocket
  <2>2. CASE path = "live"
    <3>1. /\ backlog' = Append(backlog, c) /\ Len(backlog) <= MAX_CLIENTS
          /\ conn' = [conn EXCEPT ![c] = "queued"] /\ pc[c] = "connect"
          /\ UNCHANGED <<daemon, path>>
      BY <1>1, <2>2 DEF ConnectSocket
    <3>2. /\ Len(backlog') = Len(backlog) + 1 /\ backlog'[Len(backlog) + 1] = c
          /\ \A i \in 1 .. Len(backlog) : backlog'[i] = backlog[i]
      BY <1>0, <3>1, AppendProperties DEF Typed
    <3>3. conn[c] = "none"
      BY <1>0, <3>1 DEF Progress
    <3>4. Len(backlog) \in Nat /\ \A i \in 1 .. Len(backlog) : backlog[i] \in Clients
      BY <1>0 DEF Typed
    <3>5. \A i \in 1 .. Len(backlog) : backlog[i] # c
      BY <1>0, <3>3
    <3>6. Len(backlog') <= MAX_CLIENTS + 1
      BY <3>1, <3>2, <3>4, BacklogAssumption
    <3>7. \A i \in 1 .. Len(backlog') : conn'[backlog'[i]] = "queued"
      BY <1>0, <3>1, <3>2, <3>4 DEF Typed
    <3>8. \A i, j \in 1 .. Len(backlog') : i # j => backlog'[i] # backlog'[j]
      BY <1>0, <3>2, <3>4, <3>5
    <3>9. daemon' = "reading" => conn'[served'] = "open"
      BY <1>0, <1>1, <3>1, <3>3 DEF ConnectSocket, Typed
    <3> QED
      BY <1>0, <3>1, <3>6, <3>7, <3>8, <3>9
  <2> QED
    BY <2>1, <2>2
<1>2. CASE AcceptSocket
  <2>1. /\ backlog # <<>> /\ backlog' = Tail(backlog) /\ daemon = "accepting"
        /\ conn' = [conn EXCEPT ![Head(backlog)] = "open"]
        /\ daemon' = "reading" /\ UNCHANGED path
    BY <1>2 DEF AcceptSocket
  <2>2. /\ Len(backlog) \in Nat \ {0} /\ Len(backlog') = Len(backlog) - 1
        /\ Head(backlog) = backlog[1]
        /\ \A i \in 1 .. Len(backlog) - 1 : backlog'[i] = backlog[i + 1]
        /\ \A i \in 1 .. Len(backlog) : backlog[i] \in Clients
    BY <1>0, <2>1 DEF Typed
  <2>3. Len(backlog') <= MAX_CLIENTS + 1
    BY <1>0, <2>2, BacklogAssumption
  <2>4. \A i \in 1 .. Len(backlog') : conn'[backlog'[i]] = "queued"
    <3> SUFFICES ASSUME NEW i \in 1 .. Len(backlog')
                 PROVE  conn'[backlog'[i]] = "queued"
      OBVIOUS
    <3>1. i + 1 \in 1 .. Len(backlog) /\ i + 1 # 1 /\ 1 \in 1 .. Len(backlog)
      BY <2>2
    <3>2. backlog'[i] = backlog[i + 1] /\ backlog[i + 1] \in Clients
      BY <2>2, <3>1
    <3>3. backlog[i + 1] # backlog[1] /\ conn[backlog[i + 1]] = "queued"
      BY <1>0, <3>1
    <3> QED
      BY <1>0, <2>1, <2>2, <3>2, <3>3 DEF Typed
  <2>5. \A i, j \in 1 .. Len(backlog') : i # j => backlog'[i] # backlog'[j]
    BY <1>0, <2>2
  <2>6. conn'[served'] = "open"
    BY <1>0, <1>2, <2>2 DEF AcceptSocket, Typed
  <2> QED
    BY <1>0, <2>1, <2>3, <2>4, <2>5, <2>6
<1>3. CASE CloseAll
  <2>1. path' \in {"absent", "dead"} /\ daemon' = "down" /\ Len(backlog') = 0
    BY <1>0, <1>3 DEF CloseAll
  <2> QED
    BY <2>1, BacklogAssumption
<1>4. CASE Start \/ BindSocket \/ ListenSocket \/ AcceptFails \/ Retry \/ ClientGone
  BY <1>0, <1>4
  DEF Start, BindSocket, ListenSocket, AcceptFails, Retry, ClientGone, AtUnlink, link
<1>5. CASE ClientHandler
  <2>1. CloseAll \/ (daemon = "reading" /\ daemon' = "accepting"
                       /\ UNCHANGED <<path, backlog, conn>>)
    BY <1>5 DEF ClientHandler, AfterMessage
  <2> QED
    BY <1>0, <1>3, <2>1
<1>6. CASE Die
  BY <1>3, <1>6 DEF Die
<1>7. ASSUME NEW c \in Clients, ControlProgram(c) \/ Interrupt(c), ~ConnectSocket(c)
      PROVE  Queue'
  <2>1. UNCHANGED <<daemon, path, backlog, conn, served>>
    BY <1>7 DEF ControlProgram, Main, IsRunning, PipeFails, Parse, CreateSocket, SendCmd,
       GetResult, PrintBufferJson, Interrupt, link, server
  <2> QED
    BY <1>0, <2>1
<1>8. CASE UNCHANGED vars
  BY <1>0, <1>8 DEF vars, server, link
<1> QED
  BY <1>1, <1>2, <1>4, <1>5, <1>6, <1>7, <1>8 DEF Next, Server

\* The inductive invariant: the situation of every call by its step, the queue, and
\* what was written and dispatched.
THEOREM InvariantHolds == Spec => []IInv
<1>1. Init => IInv
  BY InitIInv
<1>2. IInv /\ [Next]_vars => IInv'
  <2> SUFFICES ASSUME IInv, [Next]_vars PROVE IInv'
    OBVIOUS
  <2>1. Typed'
    BY TypedStep
  <2>2. \A c \in Clients : Progress(c)'
    BY ProgressStep
  <2>3. \A c \in Clients : Printed(c)'
    BY PrintedStep
  <2>4. \A c \in Clients : Requested(c)'
    BY RequestedStep
  <2>5. \A c \in Clients : Handled(c)' /\ Exchange(c)'
    BY HandledStep, ExchangeStep
  <2>6. Queue'
    BY QueueStep
  <2> QED
    BY <2>1, <2>2, <2>3, <2>4, <2>5, <2>6 DEF IInv
<1> QED
  BY <1>1, <1>2, PTL DEF Spec

-----------------------------------------------------------------------------
\* Requests name a port from 1 to 8 or none, and the queue of the socket is never longer
\* than the kernel lets it be and holds no connection that is served or gone.
THEOREM TypeCorrect == Spec => []TypeOK
<1>1. IInv => TypeOK
  <2> SUFFICES ASSUME IInv PROVE TypeOK
    OBVIOUS
  <2>0. Typed /\ Queue
    BY DEF IInv
  <2>1. ASSUME NEW c \in Clients
        PROVE  \A m \in {request[c][i] : i \in DOMAIN request[c]} :
                 m \in [cmd : {"status", "reboot"}, port : 0 .. 8]
    <3>1. Requested(c)
      BY DEF IInv
    <3>2. Port(c) \in 0 .. 8
      BY <2>0, PortNumInRange, LinesAssumption DEF Port, Typed
    <3>3. CASE request[c] = <<>>
      BY <3>3
    <3>4. CASE request[c] # <<>>
      BY <3>1, <3>2, <3>4 DEF Requested, Valid
    <3> QED
      BY <3>3, <3>4
  <2>2. \A i \in DOMAIN backlog : conn[backlog[i]] = "queued"
    BY <2>0 DEF Typed, Queue
  <2>3. \A c \in Clients :
          /\ flags[c] \subseteq {"OK", "INACTIVE", "SOCKET", "ARG_1"}
          /\ errorCode[c] \in {{}, {"OK"}, {"ARG_2"}, {"ARG_3"}}
          /\ conn[c] \in {"none", "queued", "open", "reset"}
    BY <2>0 DEF Typed
  <2> QED
    BY <2>0, <2>1, <2>2, <2>3 DEF Typed, Queue, TypeOK
<1> QED
  BY <1>1, InvariantHolds, PTL

\* "ok", and nothing else, is printed only by a call that was answered, or one whose
\* empty command or missing or wrong number printBufferJson has no flag of; and "OK"
\* for the port only on the word of a daemon that dispatched the call's command.
THEOREM OkMeansAnswered == Spec => []OkIsAnswered
<1>1. IInv => OkIsAnswered
  <2> SUFFICES ASSUME IInv, NEW c \in Clients, printed[c] # <<>>
               PROVE  /\ printed[c][1].program = {"OK"} =>
                           \/ Answered(c)
                           \/ Cmd(c) = "error"
                           \/ Cmd(c) = "reboot" /\ RebootError(c) # {"OK"}
                      /\ "OK" \in printed[c][1].status =>
                           Dispatched(c) /\ Answered(c) /\ resetPort[c][1] = {"OK"}
    BY DEF OkIsAnswered
  <2>0. Progress(c) /\ Printed(c) /\ Exchange(c)
    BY DEF IInv
  <2>1. ASSUME printed[c][1].program = {"OK"}
        PROVE  \/ Answered(c)
               \/ Cmd(c) = "error"
               \/ Cmd(c) = "reboot" /\ RebootError(c) # {"OK"}
    <3>1. flags[c] = {"OK"} /\ Concluded(c)
      BY <2>0, <2>1 DEF Printed, Progress
    <3>2. "ARG_1" \notin {"OK"} /\ "INACTIVE" \notin {"OK"} /\ "SOCKET" \notin {"OK"}
      OBVIOUS
    <3>3. {"OK"} # {"ARG_1"} /\ {"OK"} # {"INACTIVE"} /\ {"OK"} # {"OK", "SOCKET"}
      BY <3>2
    <3> QED
      BY <3>1, <3>3, Zenon DEF Concluded
  <2>2. ASSUME "OK" \in printed[c][1].status
        PROVE  Dispatched(c) /\ Answered(c) /\ resetPort[c][1] = {"OK"}
    <3>1. (IF Answered(c) THEN resetPort[c][1] ELSE {}) = {"OK"}
      BY <2>0, <2>2 DEF Printed, StatusTexts, WithText
    <3>2. Answered(c) /\ resetPort[c][1] = {"OK"}
      BY <3>1
    <3> QED
      BY <2>0, <3>2 DEF Exchange, Dispatched
  <2> QED
    BY <2>1, <2>2
<1> QED
  BY <1>1, InvariantHolds, PTL

\* The exit status is CTRL_ERROR_OK alone exactly for calls that were answered, or
\* had an empty command.
THEOREM ExitStatusTells == Spec => []ExitTellsFailure
<1>1. IInv => ExitTellsFailure
  <2> SUFFICES ASSUME IInv, NEW c \in Clients, pc[c] = "exited"
               PROVE  ExitStatus(c) = {"OK"} <=>
                        Answered(c) \/ (Cmd(c) = "error" /\ flags[c] = {"OK"})
    BY DEF ExitTellsFailure
  <2>1. Concluded(c)
    BY DEF IInv, Progress
  <2>2. RebootError(c) \in {{"ARG_3"}, {"ARG_2"}, {"OK"}}
    BY DEF RebootError
  <2> QED
    BY <2>1, <2>2 DEF Concluded, ExitStatus
<1> QED
  BY <1>1, InvariantHolds, PTL

\* A port is rebooted only as typed, but for a multiple of 256.
THEOREM RebootsAreTyped == Spec => []RebootAsTyped
<1>1. IInv => RebootAsTyped
  <2> SUFFICES ASSUME IInv, NEW c \in Clients, NEW i \in DOMAIN handled[c],
                      handled[c][i].cmd = "reboot"
               PROVE  /\ line[c].word = "reboot" /\ line[c].args = 2
                      /\ handled[c][i].port \in 1 .. 8
                      /\ (line[c].number - handled[c][i].port) % 256 = 0
    BY DEF RebootAsTyped
  <2>1. Handled(c) /\ Typed
    BY DEF IInv
  <2>2. /\ Valid(c)
        /\ handled[c][i].cmd = Cmd(c) /\ handled[c][i].port = Port(c)
    <3>1. handled[c] # <<>>
      OBVIOUS
    <3>2. handled[c] = <<[cmd |-> Cmd(c), port |-> Port(c)]>>
      BY <2>1, <3>1 DEF Handled
    <3>3. i = 1
      BY <3>2
    <3> QED
      BY <2>1, <3>1, <3>2, <3>3 DEF Handled
  <2>3. line[c] \in Lines
    BY <2>1 DEF Typed
  <2>4. line[c].number \in Int
    BY <2>3, LinesAssumption
  <2>5. line[c].word = "reboot"
    BY <2>2, <2>3, LinesAssumption DEF Cmd, getCmdType, CmdTable
  <2>6. line[c].args = 2 /\ Port(c) # 0
    BY <2>2 DEF Valid, RebootError
  <2>7. handled[c][i].port = getPortNum(line[c].number) /\ handled[c][i].port # 0
    BY <2>2, <2>6 DEF Port
  <2> QED
    BY <2>4, <2>5, <2>6, <2>7, PortNumAsTyped
<1> QED
  BY <1>1, InvariantHolds, PTL

-----------------------------------------------------------------------------
\* What the daemon owes a call by the state of its connection: a connection that is
\* not reset belongs to a daemon that listens; one that waits is in the queue; and one
\* that was accepted is read, or was dispatched, or its call has ended.
Attended(c) ==
  /\ pc[c] \in {"send", "result"} => conn[c] # "none"
  /\ conn[c] \in {"queued", "open"} => Listening
  /\ conn[c] = "queued" => \E i \in 1 .. Len(backlog) : backlog[i] = c
  /\ conn[c] = "open" =>
       Dispatched(c) \/ Ended(c) \/ (daemon = "reading" /\ served = c)

\* No step of either program leaves a connection that nobody attends to.
LEMMA AttendedStep ==
  ASSUME IInv, [Next]_vars, NEW d \in Clients, Attended(d)
  PROVE  Attended(d)'
<1>0. Typed /\ Queue
  BY DEF IInv
<1> USE DEF Attended, Listening, Dispatched, Ended
<1>1. ASSUME NEW c \in Clients, ConnectSocket(c) PROVE Attended(d)'
  <2>1. CASE path # "live"
    BY <1>0, <1>1, <2>1
    DEF ConnectSocket, FailWithSocket, Goto, Typed
  <2>2. CASE path = "live"
    <3>1. /\ backlog' = Append(backlog, c) /\ pc' = [pc EXCEPT ![c] = "send"]
          /\ conn' = [conn EXCEPT ![c] = "queued"]
          /\ UNCHANGED <<daemon, served, handled>>
      BY <1>1, <2>2 DEF ConnectSocket, Goto
    <3>2. /\ Len(backlog') = Len(backlog) + 1 /\ backlog'[Len(backlog) + 1] = c
          /\ \A i \in 1 .. Len(backlog) : backlog'[i] = backlog[i]
          /\ Len(backlog) \in Nat
      BY <1>0, <3>1, AppendProperties DEF Typed
    <3>3. Listening
      BY <1>0, <2>2 DEF Queue
    <3>4. CASE c = d
      <4>1. Len(backlog) + 1 \in 1 .. Len(backlog')
        BY <3>2
      <4> QED
        BY <1>0, <3>1, <3>2, <3>3, <3>4, <4>1 DEF Typed
    <3>5. CASE c # d
      <4>1. conn'[d] = conn[d] /\ pc'[d] = pc[d] /\ UNCHANGED <<daemon, served, handled>>
        BY <1>0, <3>1, <3>5 DEF Typed
      <4>2. ASSUME conn[d] = "queued"
            PROVE  \E i \in 1 .. Len(backlog') : backlog'[i] = d
        <5>1. PICK i \in 1 .. Len(backlog) : backlog[i] = d
          BY <4>2
        <5>2. i \in 1 .. Len(backlog') /\ backlog'[i] = d
          BY <3>2, <5>1
        <5> QED
          BY <5>2
      <4> QED
        BY <4>1, <4>2
    <3> QED
      BY <3>4, <3>5
  <2> QED
    BY <2>1, <2>2
<1>2. CASE AcceptSocket
  <2>1. /\ backlog # <<>> /\ backlog' = Tail(backlog) /\ daemon = "accepting"
        /\ served' = Head(backlog) /\ daemon' = "reading"
        /\ conn' = [conn EXCEPT ![Head(backlog)] = "open"]
        /\ UNCHANGED <<pc, handled>>
    BY <1>2 DEF AcceptSocket
  <2>2. /\ Len(backlog) \in Nat \ {0} /\ Len(backlog') = Len(backlog) - 1
        /\ Head(backlog) = backlog[1] /\ backlog[1] \in Clients
        /\ \A i \in 1 .. Len(backlog) - 1 : backlog'[i] = backlog[i + 1]
    BY <1>0, <2>1 DEF Typed
  <2>3. CASE backlog[1] = d
    BY <1>0, <2>1, <2>2, <2>3 DEF Typed
  <2>4. CASE backlog[1] # d
    <3>1. conn'[d] = conn[d]
      BY <1>0, <2>1, <2>2, <2>4 DEF Typed
    <3>2. ASSUME conn[d] = "queued"
          PROVE  \E i \in 1 .. Len(backlog') : backlog'[i] = d
      <4>1. PICK i \in 1 .. Len(backlog) : backlog[i] = d
        BY <3>2
      <4>2. i - 1 \in 1 .. Len(backlog) - 1
        BY <2>2, <2>4, <4>1
      <4>3. backlog'[i - 1] = d
        BY <2>2, <4>1, <4>2
      <4> QED
        BY <2>2, <4>2, <4>3
    <3> QED
      BY <2>1, <3>1, <3>2
  <2> QED
    BY <2>3, <2>4
<1>3. CASE CloseAll /\ UNCHANGED <<pc, served>>
  BY <1>0, <1>3 DEF CloseAll, Typed
<1>4. CASE ClientHandler
  <2>1. CASE CloseAll
    BY <1>3, <1>4, <2>1 DEF ClientHandler
  <2>2. CASE ~CloseAll
    <3>1. /\ daemon = "reading" /\ daemon' = "accepting"
          /\ UNCHANGED <<pc, served, backlog, conn>>
      BY <1>4, <2>2 DEF ClientHandler, AfterMessage
    <3>2. CASE served = d
      <4>1. handled'[d] = Append(handled[d], request[d][1]) /\ request[d] # <<>>
        BY <1>0, <1>4, <3>2 DEF ClientHandler, Typed
      <4>2. handled[d] = <<>>
        BY <4>1 DEF IInv, Exchange
      <4>3. handled'[d] # <<>>
        BY <4>1, <4>2
      <4> QED
        BY <3>1, <4>3
    <3>3. CASE served # d
      <4>1. handled'[d] = handled[d]
        BY <1>0, <1>4, <3>3 DEF ClientHandler, Typed
      <4> QED
        BY <3>1, <3>3, <4>1
    <3> QED
      BY <3>2, <3>3
  <2> QED
    BY <2>1, <2>2
<1>5. CASE ClientGone
  BY <1>0, <1>5 DEF ClientGone, PeerGone, link, call
<1>6. CASE Die
  BY <1>3, <1>6 DEF Die
<1>7. CASE Start
  BY <1>0, <1>7 DEF Start, link
<1>8. CASE BindSocket \/ ListenSocket \/ AcceptFails \/ Retry
  BY <1>0, <1>8 DEF BindSocket, ListenSocket, AcceptFails, Retry, link
<1>9. ASSUME NEW c \in Clients, ControlProgram(c) \/ Interrupt(c), ~ConnectSocket(c)
      PROVE  Attended(d)'
  <2>1. UNCHANGED <<daemon, served, backlog, conn, handled>>
    BY <1>9 DEF ControlProgram, Main, IsRunning, PipeFails, Parse, CreateSocket, SendCmd,
       GetResult, PrintBufferJson, Interrupt, link, server
  <2>2. Ended(d) => Ended(d)'
    BY <1>0, <1>9 DEF ControlProgram, Main, IsRunning, PipeFails, Parse, CreateSocket,
       SendCmd, GetResult, PrintBufferJson, Interrupt, FailWithSocket, Goto, Typed
  <2>3. pc'[d] \in {"send", "result"} => pc[d] \in {"send", "result"}
    BY <1>0, <1>9 DEF ControlProgram, Main, IsRunning, PipeFails, Parse, CreateSocket,
       SendCmd, GetResult, PrintBufferJson, Interrupt, FailWithSocket, Goto, Typed
  <2> QED
    BY <2>1, <2>2, <2>3
<1>10. CASE UNCHANGED vars
  BY <1>10 DEF vars, server, link
<1> QED
  BY <1>1, <1>2, <1>4, <1>5, <1>6, <1>7, <1>8, <1>9, <1>10 DEF Next, Server

\* A call that waits for its answer is in the queue or under the eyes of a daemon that
\* lives, or has been dispatched, or sees its connection reset.  With the fairness of
\* FairSpec this is why the end of a daemon releases its callers, and why, where accept
\* does not fail for ever, every request gets through.
THEOREM NobodyIsForgotten == Spec => []NobodyForgotten
<1> DEFINE AllAttended == \A c \in Clients : Attended(c)
<1>1. Init => AllAttended
  BY DEF Init, Attended
<1>2. IInv /\ AllAttended /\ [Next]_vars => AllAttended'
  BY AttendedStep
<1>3. IInv /\ AllAttended => NobodyForgotten
  <2> SUFFICES ASSUME IInv, AllAttended, NEW c \in Clients, pc[c] = "result",
                      conn[c] # "reset"
               PROVE  /\ Listening
                      /\ \/ Dispatched(c)
                         \/ \E i \in DOMAIN backlog : backlog[i] = c
                         \/ daemon = "reading" /\ served = c
    BY DEF NobodyForgotten
  <2>1. Attended(c) /\ Typed
    BY DEF IInv
  <2>2. conn[c] \in {"queued", "open"}
    BY <2>1 DEF Attended, Typed
  <2>3. DOMAIN backlog = 1 .. Len(backlog) /\ ~Ended(c)
    BY <2>1 DEF Typed, Ended
  <2> QED
    BY <2>1, <2>2, <2>3 DEF Attended
<1> QED
  BY <1>1, <1>2, <1>3, InvariantHolds, PTL DEF Spec

-----------------------------------------------------------------------------
\* What CommandOnce is told of a call changes with its step, its answer and what the
\* daemon dispatched for it, and with nothing else.
LEMMA SameOutcome ==
  ASSUME UNCHANGED handled,
         \A c \in Clients :
           \/ pc'[c] = pc[c] /\ resetPort'[c] = resetPort[c]
           \/ ~Ended(c) /\ ~Ended(c)'
  PROVE  UNCHANGED Once!vars
<1>1. \A c \in Clients : Outcome(c)' = Outcome(c)
  BY DEF Outcome, Ended, Answered
<1> QED
  BY <1>1 DEF Once!vars

\* One call ends, and nothing else changes.
LEMMA OneEnds ==
  ASSUME NEW c \in Clients, Typed, UNCHANGED handled, ~Ended(c), Ended(c)',
         \A d \in Clients \ {c} : pc'[d] = pc[d] /\ resetPort'[d] = resetPort[d],
         NEW how, Outcome(c)' = how
  PROVE  Once!End(c, how)
<1>1. \A d \in Clients \ {c} : Outcome(d)' = Outcome(d)
  BY DEF Outcome, Answered
<1>2. Outcome(c) = "pending"
  BY DEF Outcome, Answered, Ended
<1>3. [d \in Clients |-> Outcome(d)]' =
        [[d \in Clients |-> Outcome(d)] EXCEPT ![c] = how]
  BY <1>1
<1> QED
  BY <1>2, <1>3 DEF Once!End

\* A call ends answered only if its command was dispatched, once.
LEMMA EndsAsPromised ==
  ASSUME NEW c \in Clients, Handled(c), Exchange(c), UNCHANGED resetPort, Ended(c)',
         \A how : Outcome(c)' = how => Once!End(c, how)
  PROVE  Once!Next
<1>1. CASE pc'[c] = "killed"
  <2>1. Outcome(c)' = "lost"
    BY <1>1 DEF Outcome, Answered
  <2>2. Once!Lose(c)
    BY <2>1 DEF Once!Lose
  <2> QED
    BY <2>2 DEF Once!Next
<1>2. CASE pc'[c] = "exited" /\ ~Answered(c)
  <2>1. Outcome(c)' = "unanswered"
    BY <1>2 DEF Outcome, Answered
  <2>2. Once!GiveUp(c)
    BY <2>1 DEF Once!GiveUp
  <2> QED
    BY <2>2 DEF Once!Next
<1>3. CASE pc'[c] = "exited" /\ Answered(c)
  <2>1. Outcome(c)' = "answered"
    BY <1>3 DEF Outcome, Answered
  <2>2. handled[c] # <<>>
    BY <1>3 DEF Exchange
  <2>3. PICK x : handled[c] = <<x>>
    BY <2>2 DEF Handled
  <2>4. Len(handled[c]) = 1
    BY <2>3
  <2>5. [d \in Clients |-> Len(handled[d])][c] = 1
    BY <2>4
  <2>6. Once!Answer(c)
    BY <2>1, <2>5 DEF Once!Answer
  <2> QED
    BY <2>6 DEF Once!Next
<1> QED
  BY <1>1, <1>2, <1>3 DEF Ended

\* Every step of the two programs is a step of CommandOnce or changes nothing of it:
\* whatever dies, a command is performed at most once, answered only after that, and
\* not performed any more once its call has ended without an answer.
THEOREM Implementation == Spec => ImplementsCommandOnce
<1>1. Init => Once!Init
  BY DEF Init, Once!Init, Outcome, Answered
<1>2. IInv /\ IInv' /\ [Next]_vars => [Once!Next]_Once!vars
  <2> SUFFICES ASSUME IInv, IInv', [Next]_vars
               PROVE  Once!Next \/ UNCHANGED Once!vars
    OBVIOUS
  <2>0. Typed /\ Queue /\ \A c \in Clients :
          Handled(c) /\ Exchange(c) /\ Requested(c)
    BY DEF IInv
  <2>1. ASSUME NEW c \in Clients, ControlProgram(c) \/ Interrupt(c)
        PROVE  Once!Next \/ UNCHANGED Once!vars
    <3>1. UNCHANGED handled /\ ~Ended(c)
      BY <2>1 DEF ControlProgram, Main, IsRunning, PipeFails, Parse, CreateSocket,
         ConnectSocket, SendCmd, GetResult, PrintBufferJson, Interrupt, Ended, server
    <3>2. \A d \in Clients \ {c} : pc'[d] = pc[d] /\ resetPort'[d] = resetPort[d]
      BY <2>0, <2>1 DEF ControlProgram, Main, IsRunning, PipeFails, Parse, CreateSocket,
         ConnectSocket, SendCmd, GetResult, PrintBufferJson, Interrupt, FailWithSocket,
         Goto, call, Typed
    <3>3. CASE ~Ended(c)'
      BY <3>1, <3>2, <3>3, SameOutcome
    <3>4. CASE Ended(c)'
      <4>1. UNCHANGED resetPort
        BY <2>0, <2>1, <3>4 DEF ControlProgram, Main, IsRunning, PipeFails, Parse,
           CreateSocket, ConnectSocket, SendCmd, GetResult, PrintBufferJson, Interrupt,
           FailWithSocket, Goto, call, Typed, Ended
      <4>2. \A how : Outcome(c)' = how => Once!End(c, how)
        BY <2>0, <3>1, <3>2, <3>4, OneEnds
      <4> QED
        BY <2>0, <3>4, <4>1, <4>2, EndsAsPromised
    <3> QED
      BY <3>3, <3>4
  <2>2. ASSUME NEW c \in Clients, c = served, ClientHandler
        PROVE  Once!Next
    <3>1. /\ UNCHANGED <<pc, resetPort>>
          /\ request[c] # <<>> /\ conn[c] = "open"
          /\ handled' = [handled EXCEPT ![c] = Append(handled[c], request[c][1])]
      BY <2>0, <2>2 DEF ClientHandler, call, Queue
    <3>2. handled[c] = <<>> /\ pc[c] # "exited"
      BY <2>0, <3>1 DEF Exchange
    <3>3. Outcome(c) \in {"pending", "lost"}
      BY <3>2 DEF Outcome, Answered
    <3>4. [d \in Clients |-> Outcome(d)]' = [d \in Clients |-> Outcome(d)]
      BY <3>1 DEF Outcome, Answered
    <3>5. handled' = [handled EXCEPT ![c] = <<request[c][1]>>]
      BY <3>1, <3>2
    <3>6. Len(handled[c]) = 0 /\ Len(handled'[c]) = 1
      BY <2>0, <3>2, <3>5 DEF Typed
    <3>7. \A d \in Clients \ {c} : Len(handled'[d]) = Len(handled[d])
      BY <2>0, <3>5 DEF Typed
    <3>8. [d \in Clients |-> Len(handled[d])]' =
            [[d \in Clients |-> Len(handled[d])] EXCEPT ![c] = 1]
      BY <3>6, <3>7
    <3>9. Once!Perform(c)
      BY <3>3, <3>4, <3>6, <3>8 DEF Once!Perform
    <3> QED
      BY <3>9 DEF Once!Next
  <2>3. CASE Start \/ (Server /\ ~ClientHandler) \/ AcceptFails \/ Die \/ UNCHANGED vars
    <3>1. UNCHANGED <<pc, resetPort, handled>>
      BY <2>3 DEF Server, Start, BindSocket, ListenSocket, AcceptSocket, AcceptFails, Retry,
         ClientGone, Die, vars, call, server
    <3> QED
      BY <3>1, SameOutcome
  <2> QED
    BY <2>0, <2>1, <2>2, <2>3 DEF Next, Server, Typed
<1> QED
  BY <1>1, <1>2, InvariantHolds, PTL DEF Spec, ImplementsCommandOnce, Once!Spec

-----------------------------------------------------------------------------
\* What is proved of CommandOnce holds of every implementation of it: the same
\* instance, of the module with the proofs.
Promise == INSTANCE CommandOnceProofs WITH
  Calls     <- Clients,
  outcome   <- [c \in Clients |-> Outcome(c)],
  performed <- [c \in Clients |-> Len(handled[c])]

\* The two instances say the same.
LEMMA SamePromise == Once!Spec <=> Promise!Spec
<1>1. Once!Init <=> Promise!Init
  BY DEF Once!Init, Promise!Init
<1>2. [Once!Next]_Once!vars <=> [Promise!Next]_Promise!vars
  BY DEF Once!Next, Promise!Next, Once!vars, Promise!vars, Once!Perform, Promise!Perform,
         Once!Answer, Promise!Answer, Once!GiveUp, Promise!GiveUp, Once!Lose, Promise!Lose,
         Once!End, Promise!End
<1> QED
  BY <1>1, <1>2, PTL DEF Once!Spec, Promise!Spec

\* clientHandler dispatches the command of a call at most once, and before the call
\* ends with an answer, whatever dies and however the daemon is started again.
THEOREM DispatchedAtMostOnce == Spec => []Once!AtMostOnce
<1>1. Promise!Spec => []Promise!AtMostOnce
  BY Promise!PerformedAtMostOnce
<1>2. Once!AtMostOnce <=> Promise!AtMostOnce
  BY DEF Once!AtMostOnce, Promise!AtMostOnce
<1> QED
  BY <1>1, <1>2, SamePromise, Implementation, PTL DEF ImplementsCommandOnce

\* What a call reported when it exited stays true: no daemon dispatches its command
\* afterwards, neither a second time nor for the first.
THEOREM ReportsStayTrue == Spec => Once!ReportIsFinal
<1>1. Promise!Spec => Promise!ReportIsFinal
  BY Promise!ReportsAreFinal
<1>2. Once!ReportIsFinal <=> Promise!ReportIsFinal
  <2>1. [Once!ReportKept]_Once!vars <=> [Promise!ReportKept]_Promise!vars
    BY DEF Once!ReportKept, Promise!ReportKept, Once!vars, Promise!vars
  <2> QED
    BY <2>1, PTL DEF Once!ReportIsFinal, Promise!ReportIsFinal
<1> QED
  BY <1>1, <1>2, SamePromise, Implementation, PTL DEF ImplementsCommandOnce

-----------------------------------------------------------------------------
\* How far a call has come.
Rank(step) ==
  CASE step = "main"      -> 0
    [] step = "isRunning" -> 1
    [] step = "parse"     -> 2
    [] step = "socket"    -> 3
    [] step = "connect"   -> 4
    [] step = "send"      -> 5
    [] step = "result"    -> 6
    [] step = "print"     -> 7
    [] OTHER              -> 8

\* No call goes back or tries anything again: every step of the control program
\* brings it nearer to its end, so that a call takes at most eight of its own.  It is
\* the measure of "every call ends" (RequestGetsThrough, DeathReleases); what is left to
\* liveness is that the step it is at can be taken.
CallsAdvance ==
  [][\A c \in Clients : pc'[c] # pc[c] => Rank(pc[c]) < Rank(pc'[c])]_vars

\* main, ctrl_mainHandler and comHandler have no loop, whatever fails in them.
THEOREM NoCallRetries == Spec => CallsAdvance
<1> DEFINE Advance == \A c \in Clients : pc'[c] # pc[c] => Rank(pc[c]) < Rank(pc'[c])
<1>1. TypeOK /\ [Next]_vars => Advance
  <2> SUFFICES ASSUME TypeOK, [Next]_vars PROVE Advance
    OBVIOUS
  <2>1. ASSUME NEW c \in Clients, ControlProgram(c) \/ Interrupt(c) PROVE Advance
    <3>1. \A d \in Clients : d # c => pc'[d] = pc[d]
      BY <2>1 DEF TypeOK, ControlProgram, Main, IsRunning, PipeFails, Parse, CreateSocket,
         ConnectSocket, SendCmd, GetResult, PrintBufferJson, Interrupt, FailWithSocket,
         Goto, call
    <3>2. Rank(pc[c]) < Rank(pc'[c])
      BY <2>1 DEF TypeOK, ControlProgram, Main, IsRunning, PipeFails, Parse, CreateSocket,
         ConnectSocket, SendCmd, GetResult, PrintBufferJson, Interrupt, FailWithSocket,
         Goto, Ended, Rank
    <3> QED
      BY <3>1, <3>2
  <2>2. CASE Start \/ Server \/ AcceptFails \/ Die \/ UNCHANGED vars
    BY <2>2 DEF Start, Server, BindSocket, ListenSocket, AcceptSocket, AcceptFails, Retry,
       ClientHandler, ClientGone, Die, vars
  <2> QED
    BY <2>1, <2>2 DEF Next
<1> QED
  BY <1>1, TypeCorrect, PTL DEF Spec, CallsAdvance

=============================================================================
