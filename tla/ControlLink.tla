----------------------------- MODULE ControlLink -----------------------------
(***************************************************************************)
(* The control program tf_autorestart_ctrl and the daemon it talks to over *)
(* the Unix socket SOCKET_PATH (src/src/autorestart_ctrl,                  *)
(* src/lib/socket_lib, src/src/autorestartd/client_module.c).  Each call   *)
(* of the control program is a process of its own, with its own command    *)
(* line; several run at once.                                              *)
(*                                                                         *)
(* The daemon may run without its socket, as it does at this commit: what  *)
(* would open it is in comments (runComHandler), and nothing calls         *)
(* clientHandler.  Or a caller, who is external, serves it with what the   *)
(* socket library and clientHandler offer: socket_asyncServer, and then    *)
(* accept_socket and clientHandler in turn, for ever.                      *)
(*                                                                         *)
(* create_socket does not store the descriptor it opened, so that connect  *)
(* and bind are given whatever the caller's variable held.                 *)
(***************************************************************************)
EXTENDS ParsingCommand, FiniteSets, Sequences

CONSTANTS
  Clients,       \* the calls of the control program
  Lines,         \* command lines: how many arguments, the command, the number
  ErrorCodes,    \* the flag words of a port a daemon may answer with
  MAX_CLIENTS    \* 10: beyond so many waiting connections, connect blocks

ASSUME LinesAssumption ==
  Lines \subseteq [args : Nat, word : {"status", "reboot", "empty", "unknown"}, number : Int]
ASSUME ErrorCodesAssumption == ErrorCodes \subseteq SUBSET (WithText \cup WithoutText)
ASSUME BacklogAssumption == MAX_CLIENTS \in Nat

(* A name with a suffix after an underscore is a plausible slip in the     *)
(* code of the definition it is named after; no specification uses it.     *)

VARIABLES
  pc,          \* what each call does next; "exited" and "killed" are final
  line,        \* its command line
  flags,       \* its flag_isRunning
  errorCode,   \* what ctrl_mainHandler returned; only the exit status shows it
  resetPort,   \* the answer it received, if any: errorCode of the port
  printed,     \* the JSON it printed, if any
  conn,        \* its connection: "none", "queued", "open", "reset"
  request,     \* what it wrote and the daemon has not read
  answer,      \* what the daemon wrote and it has not read
  daemon,      \* "down", "idle" (no socket), or the step of the server
  served,      \* the call whose connection the daemon reads
  backlog,     \* calls that wait to be accepted
  path,        \* SOCKET_PATH: "absent", "dead" (nobody listens), "live"
  handled      \* what the daemon dispatched for each call, in order

call == <<flags, errorCode, resetPort, printed>>
link == <<conn, request, answer>>
server == <<daemon, served, backlog, path, handled>>
vars == <<pc, line, call, link, server>>

Ended(c) == pc[c] \in {"exited", "killed"}
Listening == daemon \in {"accepting", "retry", "reading"}

Init ==
  /\ pc = [c \in Clients |-> "main"]
  /\ line \in [Clients -> Lines]
  /\ flags = [c \in Clients |-> {"OK"}]
  /\ errorCode = [c \in Clients |-> {}]
  /\ resetPort = [c \in Clients |-> <<>>]
  /\ printed = [c \in Clients |-> <<>>]
  /\ conn = [c \in Clients |-> "none"]
  /\ request = [c \in Clients |-> <<>>]
  /\ answer = [c \in Clients |-> <<>>]
  /\ daemon \in {"down", "idle"}
  /\ served \in Clients
  /\ backlog = <<>>
  /\ path \in {"absent", "dead"}
  /\ handled = [c \in Clients |-> <<>>]

-----------------------------------------------------------------------------
(***************************************************************************)
(* The control program.                                                    *)
(***************************************************************************)
Goto(c, step) == pc' = [pc EXCEPT ![c] = step]
Flag(c, set) == flags' = [flags EXCEPT ![c] = set]

(* Without arguments it says nothing at all. *)
Main(c) ==
  /\ pc[c] = "main"
  /\ IF line[c].args = 0
     THEN Flag(c, {"ARG_1"}) /\ Goto(c, "exited")
     ELSE Goto(c, "isRunning") /\ UNCHANGED flags
  /\ UNCHANGED <<line, errorCode, resetPort, printed, link, server>>

(* getProcessList.lua says whether the daemon runs; what it says is taken *)
(* at its word, and where it is not installed, the daemon is taken to run. *)
IsRunning(c) ==
  /\ pc[c] = "isRunning"
  /\ \/ Goto(c, "parse") /\ UNCHANGED flags
     \/ Flag(c, {"INACTIVE"}) /\ Goto(c, "print")
  /\ UNCHANGED <<line, errorCode, resetPort, printed, link, server>>

(* popen fails: fgets is called on NULL. *)
PipeFails(c) ==
  /\ pc[c] = "isRunning"
  /\ Goto(c, "killed")
  /\ UNCHANGED <<line, call, link, server>>

Cmd(c) == getCmdType(line[c].word)
Port(c) == IF Cmd(c) = "reboot" THEN getPortNum(line[c].number) ELSE 0

(* The errors of reboot's arguments: how many there are, then the number. *)
RebootError(c) ==
  IF line[c].args # 2 THEN {"ARG_3"} ELSE IF Port(c) = 0 THEN {"ARG_2"} ELSE {"OK"}

(* ctrl_mainHandler, up to comHandler.  A word that is no command replaces *)
(* the flags; what is wrong with a number is only returned.                *)
Parse(c) ==
  /\ pc[c] = "parse"
  /\ LET error == IF Cmd(c) = "reboot" THEN RebootError(c) ELSE {"OK"} IN
     /\ errorCode' = [errorCode EXCEPT ![c] = error]
     /\ Goto(c, IF Cmd(c) \in {"status", "reboot"} /\ error = {"OK"}
                THEN "socket" ELSE "print")
  /\ flags' = [flags EXCEPT ![c] = IF Cmd(c) = "idle" THEN {"ARG_1"} ELSE @]
  /\ UNCHANGED <<line, resetPort, printed, link, server>>

\* Any error of comHandler is one flag to ctrl_mainHandler.
SocketError_Lost(set) == set
SocketError(set) == set \cup {"SOCKET"}

FailWithSocket_Retries(c) == Goto(c, "socket") /\ UNCHANGED flags
FailWithSocket(c) ==
  /\ flags' = [flags EXCEPT ![c] = SocketError(@)]
  /\ Goto(c, "print")

(* create_socket: sock_fd keeps what the stack held, which may be the     *)
(* number the new socket got; any other number, connect refuses.          *)
CreateSocket(c) ==
  /\ pc[c] = "socket"
  /\ \/ Goto(c, "connect") /\ UNCHANGED flags
     \/ FailWithSocket(c)
  /\ UNCHANGED <<line, errorCode, resetPort, printed, link, server>>

(* connect_socket, with the socket's own number; it waits while the queue *)
(* of the listening socket is full.                                       *)
ConnectSocket(c) ==
  /\ pc[c] = "connect"
  /\ \/ /\ path # "live"
        /\ FailWithSocket(c)
        /\ UNCHANGED <<conn, backlog>>
     \/ /\ path = "live" /\ Len(backlog) <= MAX_CLIENTS
        /\ backlog' = Append(backlog, c)
        /\ conn' = [conn EXCEPT ![c] = "queued"]
        /\ Goto(c, "send") /\ UNCHANGED flags
  /\ UNCHANGED <<line, errorCode, resetPort, printed, request, answer,
                 daemon, served, path, handled>>

(* ctrl_sendCmd: nobody handles SIGPIPE, and write's result is not read. *)
SendCmd(c) ==
  /\ pc[c] = "send"
  /\ IF conn[c] = "reset"
     THEN Goto(c, "killed") /\ UNCHANGED request
     ELSE /\ request' = [request EXCEPT ![c] = <<[cmd |-> Cmd(c), port |-> Port(c)]>>]
          /\ Goto(c, "result")
  /\ UNCHANGED <<line, call, conn, answer, server>>

\* read fails or returns 0: the peer is gone, and has left nothing to read.
Disconnected_Never(c) == FALSE
Disconnected(c) == conn[c] = "reset" /\ answer[c] = <<>>

(* ctrl_getresult: one read, for as long as it takes. *)
GetResult(c) ==
  /\ pc[c] = "result"
  /\ \/ /\ answer[c] # <<>>
        /\ resetPort' = [resetPort EXCEPT ![c] = answer[c]]
        /\ answer' = [answer EXCEPT ![c] = <<>>]
        /\ Goto(c, "print") /\ UNCHANGED flags
     \/ /\ Disconnected(c)
        /\ FailWithSocket(c)
        /\ UNCHANGED <<resetPort, answer>>
  /\ UNCHANGED <<line, errorCode, printed, conn, request, server>>

(* printBufferJson; a port that no answer filled has no flag at all. *)
PrintBufferJson(c) ==
  /\ pc[c] = "print"
  /\ LET code == IF resetPort[c] = <<>> THEN {} ELSE resetPort[c][1] IN
     printed' = [printed EXCEPT
       ![c] = <<[program |-> flags[c], status |-> StatusTexts(code)]>>]
  /\ Goto(c, "exited")
  /\ UNCHANGED <<line, flags, errorCode, resetPort, link, server>>

(* The user gives up. *)
Interrupt(c) ==
  /\ ~Ended(c)
  /\ Goto(c, "killed")
  /\ UNCHANGED <<line, call, link, server>>

ControlProgram(c) ==
  \/ Main(c) \/ IsRunning(c) \/ PipeFails(c) \/ Parse(c) \/ CreateSocket(c)
  \/ ConnectSocket(c) \/ SendCmd(c) \/ GetResult(c) \/ PrintBufferJson(c)

-----------------------------------------------------------------------------
(***************************************************************************)
(* The daemon's side.                                                      *)
(***************************************************************************)
(* bind_socket unlinks what an earlier daemon left behind, and does not   *)
(* look whether it could.                                                 *)
AtUnlink == {"absent", path}

Start ==
  /\ daemon = "down"
  /\ \/ daemon' = "idle" /\ UNCHANGED path
     \/ daemon' = "bind" /\ path' \in AtUnlink
  /\ UNCHANGED <<pc, line, call, link, served, backlog, handled>>

(* bind, with a number as good as that of connect; where it or listen     *)
(* fails, the whole daemon exits.                                         *)
BindSocket ==
  /\ daemon = "bind"
  /\ \/ path = "absent" /\ daemon' = "listen" /\ path' = "dead"
     \/ daemon' = "down" /\ UNCHANGED path
  /\ UNCHANGED <<pc, line, call, link, served, backlog, handled>>

ListenSocket ==
  /\ daemon = "listen"
  /\ \/ daemon' = "accepting" /\ path' = "live"
     \/ daemon' = "down" /\ UNCHANGED path
  /\ UNCHANGED <<pc, line, call, link, served, backlog, handled>>

AcceptSocket ==
  /\ daemon = "accepting"
  /\ backlog # <<>>
  /\ served' = Head(backlog)
  /\ backlog' = Tail(backlog)
  /\ conn' = [conn EXCEPT ![served'] = "open"]
  /\ daemon' = "reading"
  /\ UNCHANGED <<pc, line, call, request, answer, path, handled>>

(* accept fails: a signal came, or the daemon has no descriptor left, for *)
(* nobody closes the connection of a call that is answered or gone.       *)
AcceptFails ==
  /\ daemon = "accepting"
  /\ daemon' = "retry"
  /\ UNCHANGED <<pc, line, call, link, served, backlog, path, handled>>

(* The caller goes back to accept_socket, whatever it or clientHandler    *)
(* returned.                                                              *)
Retry ==
  /\ daemon = "retry"
  /\ daemon' = "accepting"
  /\ UNCHANGED <<pc, line, call, link, served, backlog, path, handled>>

AfterMessage == "accepting"

(* The process of the daemon ends: the kernel closes its sockets, and      *)
(* leaves the path.  What it wrote can still be read.                      *)
CloseAll ==
  /\ daemon' = "down"
  /\ path' = IF path = "live" THEN "dead" ELSE path
  /\ backlog' = <<>>
  /\ conn' = [c \in Clients |-> IF conn[c] = "none" THEN "none" ELSE "reset"]

(* clientHandler with a message to read.  Its two handlers are empty; what *)
(* they answered, and d_sendCmd would write, is in comments.  SIGPIPE ends *)
(* a daemon that writes to a call that is gone.                            *)
ClientHandler ==
  /\ daemon = "reading"
  /\ request[served] # <<>>
  /\ handled' = [handled EXCEPT ![served] = Append(@, request[served][1])]
  /\ request' = [request EXCEPT ![served] = <<>>]
  /\ \/ /\ \/ UNCHANGED answer
           \/ /\ ~Ended(served)
              /\ \E code \in ErrorCodes : answer' = [answer EXCEPT ![served] = <<code>>]
        /\ daemon' = AfterMessage
        /\ UNCHANGED <<path, backlog, conn>>
     \/ Ended(served) /\ CloseAll /\ UNCHANGED answer
  /\ UNCHANGED <<pc, line, call, served>>

(* d_receive_msg: a read that finds nothing waits; it returns 0 only when *)
(* the call is gone.                                                      *)
PeerGone_NonBlocking(c) == TRUE
PeerGone_Never(c) == FALSE
PeerGone(c) == Ended(c)

(* clientHandler finds the call gone. *)
ClientGone ==
  /\ daemon = "reading"
  /\ request[served] = <<>> /\ PeerGone(served)
  /\ daemon' = "accepting"
  /\ UNCHANGED <<pc, line, call, link, served, backlog, path, handled>>

(* A signal, a crash or procd. *)
Die ==
  /\ daemon # "down"
  /\ CloseAll
  /\ UNCHANGED <<pc, line, call, request, answer, served, handled>>

Server ==
  \/ BindSocket \/ ListenSocket \/ AcceptSocket \/ Retry \/ ClientHandler \/ ClientGone

Next ==
  \/ \E c \in Clients : ControlProgram(c) \/ Interrupt(c)
  \/ Start \/ Server \/ AcceptFails \/ Die

Spec == Init /\ [][Next]_vars

(* Processes that can run are scheduled.  Nothing says that a daemon is    *)
(* started, or dies, that accept fails, or that a user loses patience.     *)
FairSpec ==
  /\ Spec
  /\ \A c \in Clients : WF_vars(ControlProgram(c))
  /\ WF_vars(Server)

-----------------------------------------------------------------------------
\* The exit status of a call: what main returns.  It reads flag_isRunning after
\* ctrl_mainHandler has changed it, which C leaves to the compiler.
ExitStatus_ReadFirst(c) ==
  IF errorCode[c] = {} THEN flags[c] ELSE {"OK"} \cup errorCode[c]
ExitStatus(c) == flags[c] \cup errorCode[c]

Answered(c) == resetPort[c] # <<>>
Dispatched(c) == handled[c] # <<>>

\* A request carries a command and a port from 1 to 8, of which getPortNum is the
\* judge (NUM_PORTS is 1), or 0; the queue holds connections nobody serves, and no
\* more than the kernel lets wait.
TypeOK ==
  /\ pc \in [Clients -> {"main", "isRunning", "parse", "socket", "connect", "send",
                         "result", "print", "exited", "killed"}]
  /\ \A c \in Clients :
       /\ flags[c] \subseteq {"OK", "INACTIVE", "SOCKET", "ARG_1"}
       /\ errorCode[c] \in {{}, {"OK"}, {"ARG_2"}, {"ARG_3"}}
       /\ \A m \in {request[c][i] : i \in DOMAIN request[c]} :
            m \in [cmd : {"status", "reboot"}, port : 0 .. 8]
       /\ conn[c] \in {"none", "queued", "open", "reset"}
  /\ daemon \in {"down", "idle", "bind", "listen", "accepting", "retry", "reading"}
  /\ path \in {"absent", "dead", "live"}
  /\ path = "live" <=> Listening
  /\ Len(backlog) <= MAX_CLIENTS + 1
  /\ \A i \in DOMAIN backlog : conn[backlog[i]] = "queued"

\* A call that prints "ok", and nothing else, was answered by a daemon; but for
\* the empty command, and for a reboot whose number is missing or wrong, which
\* print "ok" too (ctrl_mainHandler returns those errors, and does not print
\* them).  "OK" for the port is printed only of what a daemon said of it that
\* dispatched this call's command, whatever became of that daemon since.
OkIsAnswered ==
  \A c \in Clients : printed[c] # <<>> =>
    /\ printed[c][1].program = {"OK"} =>
         \/ Answered(c)
         \/ Cmd(c) = "error"
         \/ Cmd(c) = "reboot" /\ RebootError(c) # {"OK"}
    /\ "OK" \in printed[c][1].status =>
         Dispatched(c) /\ Answered(c) /\ resetPort[c][1] = {"OK"}

\* The exit status makes up for it: a call that ends with CTRL_ERROR_OK alone was
\* answered, or had an empty command, whatever became of the daemon meanwhile.
ExitTellsFailure ==
  \A c \in Clients : pc[c] = "exited" =>
    (ExitStatus(c) = {"OK"} <=> Answered(c) \/ (Cmd(c) = "error" /\ flags[c] = {"OK"}))

\* The daemon reboots no port but the one a user typed, up to the multiples of
\* 256 that getPortNum cuts off, and only on a command line of exactly two words.
RebootAsTyped ==
  \A c \in Clients : \A i \in DOMAIN handled[c] : handled[c][i].cmd = "reboot" =>
    /\ line[c].word = "reboot" /\ line[c].args = 2
    /\ handled[c][i].port \in 1 .. 8
    /\ (line[c].number - handled[c][i].port) % 256 = 0

\* A call that waits for its answer is never forgotten: unless its connection is
\* reset, so that it will notice, a daemon listens, and either has dispatched its
\* request or still has the connection in its queue or under its eyes.  No
\* connection is dropped by the daemon's turns between calls (clientHandler,
\* accept_socket), and none outlives the daemon.
NobodyForgotten ==
  \A c \in Clients : pc[c] = "result" /\ conn[c] # "reset" =>
    /\ Listening
    /\ \/ Dispatched(c)
       \/ \E i \in DOMAIN backlog : backlog[i] = c
       \/ daemon = "reading" /\ served = c

\* With a caller that goes back to accept_socket for ever, and if accept fails no
\* longer from some time on, every call ends or gets its request to the daemon: a
\* call with no answer to expect, one in front of it in the queue, one that was
\* interrupted or a daemon that dies cannot keep the others waiting
\* (d_receive_msg, clientHandler, accept_socket).
RequestGetsThrough ==
  <>[](daemon # "retry") =>
    \A c \in Clients : pc[c] = "main" ~> Ended(c) \/ Dispatched(c)

\* A call may wait for its answer for ever, but only as long as the daemon it
\* waits for lives: if the daemon is down for good, every call ends.
DeathReleases ==
  <>[](daemon = "down") => \A c \in Clients : <>Ended(c)

\* Whatever dies in between, a command is performed at most once, before its call
\* is answered, and never after its call ended without an answer.
Outcome(c) ==
  CASE pc[c] = "killed" -> "lost"
    [] pc[c] = "exited" -> IF Answered(c) THEN "answered" ELSE "unanswered"
    [] OTHER -> "pending"

Once == INSTANCE CommandOnce WITH
  Calls     <- Clients,
  outcome   <- [c \in Clients |-> Outcome(c)],
  performed <- [c \in Clients |-> Len(handled[c])]

ImplementsCommandOnce == Once!Spec

=============================================================================
