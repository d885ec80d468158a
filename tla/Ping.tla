-------------------------------- MODULE Ping --------------------------------
(***************************************************************************)
(* ping_host (ar_ping.c): one echo request over a raw ICMP socket that is  *)
(* opened for the call and closed after the first packet it delivers.      *)
(*                                                                         *)
(* A raw socket delivers every ICMP packet that reaches the device while   *)
(* it is open.  The identifier is the pid and the sequence number of every *)
(* request is 1, so the requests of all calls, and their replies, look the *)
(* same.  The model tells those of the present call ("own") from those of  *)
(* earlier calls ("old") to say what the code cannot.  Nor does the code   *)
(* look at the sender: a reply of another host that bears the identifier   *)
(* and the sequence number is as good as one of the probed host ("alike"). *)
(***************************************************************************)
EXTENDS Naturals, Sequences

CONSTANTS
  PING_TIMEOUT_MS,  \* 2000; the code takes it for seconds
  MaxQueue          \* bound: packets the socket queues, the rest is dropped

ASSUME TimeoutAssumption == PING_TIMEOUT_MS \in Nat \ {0}
ASSUME QueueAssumption == MaxQueue \in Nat \ {0}

VARIABLES
  pc,           \* "idle" between two calls, "open", "waiting", "stopped"
  keepRunning,  \* cleared by SIGTERM and SIGINT
  verdict,      \* what the last call returned; "none" before
  socket,       \* what the open socket has queued
  requests,     \* requests on their way to the host, of which calls
  replies,      \* replies on their way back, to which calls
  hostUp,       \* whether the host answers
  answered,     \* whether the host ever answered
  waited,       \* seconds spent in recvfrom
  disturbed,    \* whether the call met anything but a prompt reply
  confused      \* whether a reply "alike" came during the call

calls   == <<pc, keepRunning, verdict>>
network == <<requests, replies>>
vars == <<calls, socket, network, hostUp, answered, waited, disturbed, confused>>

Replies == {"own", "old"}

\* The echo reply of another host, with the identifier and sequence number of ours:
\* to a ping of another program, or to one this daemon sent elsewhere.
Alike == {"alike"}

\* Packets that validate_reply rejects, or that are too short to be validated.
Strays == {"foreign", "short"}

Packets == Replies \cup Alike \cup Strays

Init ==
  /\ pc = "idle" /\ keepRunning = TRUE /\ verdict = "none"
  /\ socket = <<>>
  /\ requests = {} /\ replies = {}
  /\ hostUp \in BOOLEAN /\ answered = FALSE
  /\ waited = 0 /\ disturbed = FALSE /\ confused = FALSE

-----------------------------------------------------------------------------
(* A name with a suffix after an underscore is a plausible slip in the     *)
(* code of the definition it is named after; no specification uses it.     *)
(*                                                                         *)
(* The caller: runTestHandler looks at keepRunning before it tests again.  *)
Stop ==
  /\ pc = "idle" /\ ~keepRunning
  /\ pc' = "stopped"
  /\ UNCHANGED <<keepRunning, verdict, socket, network, hostUp, answered, waited,
                 disturbed, confused>>

Aged(packets) == IF packets = {} THEN {} ELSE {"old"}

OpenSocket ==
  /\ pc = "idle" /\ keepRunning
  /\ pc' = "open"
  /\ requests' = Aged(requests) /\ replies' = Aged(replies)
  /\ waited' = 0
  /\ disturbed' = FALSE /\ confused' = FALSE
  /\ UNCHANGED <<keepRunning, verdict, socket, hostUp, answered>>

(* No raw socket may be had, or the configured address is not one. *)
Refused ==
  /\ pc = "idle" /\ keepRunning
  /\ verdict' = "ERR"
  /\ disturbed' = TRUE /\ confused' = FALSE
  /\ UNCHANGED <<pc, keepRunning, socket, network, hostUp, answered, waited>>

Send ==
  /\ pc = "open"
  /\ pc' = "waiting"
  /\ requests' = requests \cup {"own"}
  /\ UNCHANGED <<keepRunning, verdict, socket, replies, hostUp, answered, waited,
                 disturbed, confused>>

\* What close(sock) leaves queued for the socket of the next call.
Closed_NotClosed == socket
Closed == <<>>

\* PING_MAX_RETRIES is 1: every outcome of the only attempt ends the call.
Return(result) ==
  /\ pc' = "idle"
  /\ verdict' = result
  /\ socket' = Closed

(* The socket is closed, recvfrom fails on it, and it is closed again. *)
SendFails ==
  /\ pc = "open"
  /\ Return("ERR")
  /\ disturbed' = TRUE
  /\ UNCHANGED <<keepRunning, network, hostUp, answered, waited, confused>>

\* validate_reply: checksum, type, identifier and sequence number.  Nobody compares
\* src_addr, which recvfrom fills in, with dest_addr.
Valid_NotChecked(packet) == packet # "short"
Valid(packet) == packet \in Replies \cup Alike

(* The first packet decides. *)
Receive ==
  /\ pc = "waiting"
  /\ socket # <<>>
  /\ Return(IF Valid(Head(socket)) THEN "OK" ELSE "ERR")
  /\ UNCHANGED <<keepRunning, network, hostUp, answered, waited, disturbed, confused>>

\* SO_RCVTIMEO: tv_sec is PING_TIMEOUT_MS.  A timeout of 0 would be none.
TimeLimit_OffByOne == PING_TIMEOUT_MS + 1
TimeLimit == PING_TIMEOUT_MS

TimedOut_Never == FALSE
TimedOut == waited = TimeLimit

NoResponse_Ok == "OK"
NoResponse == "ERR"

ReceiveTimeout ==
  /\ pc = "waiting"
  /\ socket = <<>> /\ TimedOut
  /\ Return(NoResponse)
  /\ disturbed' = TRUE
  /\ UNCHANGED <<keepRunning, network, hostUp, answered, waited, confused>>

Second ==
  /\ pc = "waiting"
  /\ socket = <<>> /\ waited < TimeLimit
  /\ waited' = waited + 1
  /\ UNCHANGED <<calls, socket, network, hostUp, answered, disturbed, confused>>

-----------------------------------------------------------------------------
(* graceful_shutdown_handler.  A signal that comes while recvfrom blocks   *)
(* makes it fail with EINTR, whatever SA_RESTART says, for the socket has  *)
(* a timeout; one that comes just before goes unnoticed by the call.       *)
Terminate ==
  /\ pc # "stopped" /\ keepRunning
  /\ keepRunning' = FALSE
  /\ UNCHANGED <<network, hostUp, answered, waited, confused>>
  /\ \/ UNCHANGED <<pc, verdict, socket, disturbed>>
     \/ /\ pc = "waiting" /\ socket = <<>>
        /\ Return("ERR")
        /\ disturbed' = TRUE

HostChange ==
  /\ hostUp' = ~hostUp
  /\ disturbed' = TRUE
  /\ UNCHANGED <<calls, socket, network, answered, waited, confused>>

HostAnswers ==
  /\ hostUp
  /\ \E call \in requests :
       requests' = requests \ {call} /\ replies' = replies \cup {call}
  /\ answered' = TRUE
  /\ UNCHANGED <<calls, socket, hostUp, waited, disturbed, confused>>

(* A request or a reply is lost, or, for all the code can see, too late. *)
LoseRequest(call) ==
  /\ call \in requests
  /\ requests' = requests \ {call}
  /\ disturbed' = (disturbed \/ call = "own")
  /\ UNCHANGED <<calls, socket, replies, hostUp, answered, waited, confused>>

LoseReply(call) ==
  /\ call \in replies
  /\ replies' = replies \ {call}
  /\ disturbed' = (disturbed \/ call = "own")
  /\ UNCHANGED <<calls, socket, requests, hostUp, answered, waited, confused>>

Lose == \E call \in Replies : LoseRequest(call) \/ LoseReply(call)

Queued(packet) ==
  IF pc \in {"open", "waiting"} /\ Len(socket) < MaxQueue
  THEN Append(socket, packet) ELSE socket

(* A reply arrives, and perhaps a copy of it stays on the way. *)
ReplyArrives ==
  /\ \E call \in replies :
       /\ socket' = Queued(call)
       /\ replies' \in {replies, replies \ {call}}
  /\ UNCHANGED <<calls, requests, hostUp, answered, waited, disturbed, confused>>

(* Any other ICMP packet: an unreachable, a redirect, somebody's ping. *)
StrayArrives ==
  /\ pc \in {"open", "waiting"}
  /\ \E packet \in Strays : socket' = Queued(packet)
  /\ disturbed' = TRUE
  /\ UNCHANGED <<calls, network, hostUp, answered, waited, confused>>

(* Another host's reply arrives, in any number of copies. *)
AlikeArrives ==
  /\ pc \in {"open", "waiting"}
  /\ \E packet \in Alike : socket' = Queued(packet)
  /\ confused' = TRUE
  /\ UNCHANGED <<calls, network, hostUp, answered, waited, disturbed>>

-----------------------------------------------------------------------------
Caller ==
  \/ Stop \/ OpenSocket \/ Refused \/ Send \/ SendFails \/ Receive \/ ReceiveTimeout

Outside ==
  \/ Terminate \/ HostChange \/ HostAnswers \/ Lose
  \/ ReplyArrives \/ StrayArrives \/ AlikeArrives

Next == Caller \/ Second \/ Outside

Spec == Init /\ [][Next]_vars

(* The thread runs and calls again, time passes, and no reply is on its *)
(* way for ever.                                                        *)
FairSpec ==
  /\ Spec
  /\ WF_vars(Caller) /\ WF_vars(Second)
  /\ \A call \in Replies : WF_vars(LoseReply(call))

-----------------------------------------------------------------------------
TypeOK ==
  /\ pc \in {"idle", "open", "waiting", "stopped"} /\ keepRunning \in BOOLEAN
  /\ verdict \in {"none", "OK", "ERR"}
  /\ socket \in Seq(Packets) /\ Len(socket) <= MaxQueue
  /\ requests \subseteq Replies /\ replies \subseteq Replies
  /\ hostUp \in BOOLEAN /\ answered \in BOOLEAN
  /\ disturbed \in BOOLEAN /\ confused \in BOOLEAN
  /\ waited \in 0 .. PING_TIMEOUT_MS

\* ping_host returns PING_OK only if the host ever answered, or another host's reply
\* with the same identifier and sequence number came during this very call: no other
\* packet passes, and none that came between two calls or in an earlier one.
OkMeansAnswered ==
  pc \in {"idle", "stopped"} /\ verdict = "OK" => answered \/ confused

\* ping_host fails a host that answers only if the call itself was disturbed;
\* what an earlier call left behind never counts against the host.
ErrorMeansDisturbed == pc = "idle" /\ verdict = "ERR" => disturbed

\* Every call returns, also when the only packet it waits for is lost.
CallReturns == pc = "open" ~> pc \in {"idle", "stopped"}

\* A host that is gone for good is noticed for good, late and duplicated replies to
\* earlier calls notwithstanding, once no other host sends what passes for its reply.
DeadHostNoticed ==
  <>[](~hostUp /\ ~confused) => <>[](verdict # "OK" \/ pc = "stopped")

\* Nothing that validate_reply would accept is left anywhere.
Silent ==
  /\ ~hostUp /\ replies = {}
  /\ \A i \in DOMAIN socket : socket[i] \in Strays

\* Once that is so, it stays so until the host is back or another host's reply alike
\* arrives, and no call returns PING_OK any more: not the stray packets, not the
\* timeout, not a signal, and not a request that is still under way can make a dead
\* host look alive.
SilentHostFails ==
  [][Silent /\ ~hostUp' /\ ~AlikeArrives =>
       Silent' /\ (verdict' = "OK" => verdict = "OK")]_vars

-----------------------------------------------------------------------------
(* What the repository says of the program, and the program does not do. *)

\* The constant the timeout is set from is in milliseconds.
WaitsNoLongerThanTimeout == waited * 1000 <= PING_TIMEOUT_MS

\* validate_reply checks type, identifier and sequence number of a reply, so that of
\* the probed host's replies it accepts the one to the request of this call.
AcceptsOwnReplyOnly ==
  [][pc = "waiting" /\ pc' = "idle" /\ verdict' = "OK" /\ Head(socket) \in Replies =>
       Head(socket) = "own"]_vars

=============================================================================
