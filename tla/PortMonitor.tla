---------------------------- MODULE PortMonitor ----------------------------
(***************************************************************************)
(* The daemon tf_autorestartd: one thread that, once per test_delay, reads *)
(* the administrative state of the PoE port, runs the configured tests,    *)
(* feeds the result to the reboot state machine and sleeps                 *)
(* (src/src/autorestartd: ar_maind.c, ar_mainApp.c, port_manager.c,        *)
(* events_module.c).  NUM_PORTS is 1, so there is one port, at index 0.    *)
(*                                                                         *)
(* The thread is cut into steps at the points where it reads something     *)
(* another party writes: the uci database, the link, the probed host, the  *)
(* wall clock and the flag a signal handler clears.                        *)
(***************************************************************************)
EXTENDS Integers

CONSTANTS
  TestTypes,     \* the values port_manager_load_config may give testType
  TestNums,      \* the values config_load_main may give test_num
  MaxResets,     \* the values config_load_main may give max_reset
  CounterMod,    \* 256: errorTestCount and resetCount are uint8_t
  RebootDelay,   \* 7: seconds in POE_DOWN, as port_manager_init sets them
  Layouts,       \* the placements of the globals a build can produce
  MaxJumps,      \* bound: how often the wall clock is set during a run
  JumpSize       \* bound: how far it is set back, in seconds

ASSUME CounterAssumption ==
  /\ CounterMod \in Nat \ {0}
  /\ TestNums \subseteq 0 .. (CounterMod - 1)
  /\ MaxResets \subseteq 0 .. (CounterMod - 1)
ASSUME TestTypeAssumption == TestTypes \subseteq {"DISABLE", "LINK", "PING", "SPEED"}
ASSUME LayoutAssumption == Layouts \subseteq {"unopt", "opt"}
ASSUME ClockAssumption ==
  RebootDelay \in Nat \ {0} /\ MaxJumps \in Nat /\ JumpSize \in Nat

(***************************************************************************)
(* A name with a suffix after an underscore, as in Decay_NoFloor, is a     *)
(* plausible slip in the code of the definition it is named after.  No     *)
(* specification uses it; put in the other's place, it breaks a property.  *)
(***************************************************************************)

VARIABLES
  pc,              \* where the thread is; "stopped" and "crashed" are final
  keepRunning,     \* cleared by SIGTERM and SIGINT
  testType,        \* portConfigs[0].testType
  testNum,         \* option test_num
  maxReset,        \* option max_reset
  errorCode,       \* portResetInfo[0].errorCode, the set of its flags
  errorTestCount,  \* portResetInfo[0].errorTestCount
  resetCount,      \* portResetInfo[0].resetCount
  event,           \* portResetInfo[0].event, the set of its flags
  state,           \* portResetInfo[0].state
  rebootState,     \* portRebootInfo[0].rebootState
  rebootEvent,     \* portRebootInfo[0].rebootEvent, the set of its flags
  rebootDelay,     \* portRebootInfo[0].rebootDelay
  timeLeft,        \* rebootTimeStart - time(NULL), floored at 0; Unset before
  jumps,           \* how often the clock was set
  layout,          \* the placement of the globals in this build
  uci,             \* the port's section: "enabled", only "poe", or "off"
  link,            \* what operstate says
  host             \* whether the probed host answers; in speed mode, whether
                   \* ubus gives a count of bytes and the traffic is in range

config == <<testType, testNum, maxReset>>
port   == <<errorCode, errorTestCount, resetCount, event, state>>
reboot == <<rebootState, rebootEvent, rebootDelay>>
clock  == <<timeLeft, jumps>>
world  == <<uci, link, host>>
vars   == <<pc, keepRunning, config, port, reboot, clock, layout, world>>

TestErrors == {"TEST_LINK", "TEST_PING", "TEST_SPEED"}

\* The flags with which set_errorHandler turns the tests of a port off.
FatalErrors == {"IP_NOT_VALID", "TIME_NOT_VALID", "SPEED_VALUE", "PORT_DISABLE"}

\* The flags the reachable code sets in portResetInfo[0].errorCode.
ErrorFlags ==
  TestErrors \cup {"OK", "TEST_DISABLE", "HW_ACCESS", "REBOOTING", "PORT_SHUTDOWN"}

Steps ==
  {"boot", "loop", "state", "disable", "link", "ping", "speed", "events", "sleep",
   "stopped", "crashed"}

\* rebootTimeStart is still 0, before any time(NULL): no setting of the clock
\* makes the timer run.
Unset == -1

Running == pc \notin {"stopped", "crashed"}

-----------------------------------------------------------------------------
(* port_manager_init: the values before any configuration is read. *)
Init ==
  /\ pc = "boot"
  /\ keepRunning = TRUE
  /\ testType = "DISABLE" /\ testNum = 0 /\ maxReset = 0
  /\ errorCode = {"OK"}
  /\ errorTestCount = 0 /\ resetCount = 0
  /\ event = {}
  /\ state = "REGULAR"
  /\ rebootState = "INIT"
  /\ rebootEvent = {"START"}
  /\ rebootDelay = RebootDelay
  /\ timeLeft = Unset /\ jumps = 0
  /\ layout \in Layouts
  /\ uci \in {"enabled", "poe", "off"}
  /\ link \in {"up", "down"}
  /\ host \in BOOLEAN

(* system_init: a section that cannot be loaded leaves test_num, max_reset *)
(* and testType at their zero values, and the daemon goes on.              *)
SystemInit ==
  /\ pc = "boot"
  /\ testNum' \in TestNums
  /\ maxReset' \in MaxResets
  /\ testType' \in TestTypes
  /\ pc' = "loop"
  /\ UNCHANGED <<keepRunning, port, reboot, clock, layout, world>>

(* The top of the loop is the only place where keepRunning is looked at. *)
StopRequested_Never == FALSE
StopRequested == ~keepRunning

LoopTop ==
  /\ pc = "loop"
  /\ pc' = IF StopRequested THEN "stopped" ELSE "state"
  /\ UNCHANGED <<keepRunning, config, port, reboot, clock, layout, world>>

-----------------------------------------------------------------------------
(***************************************************************************)
(* port_manager_get_ar_state is called with the index 0 and writes slot    *)
(* -1.  What lies there depends on the build.  Unoptimised, the flag       *)
(* ERR_PORT_DISABLE lands on bit START of portRebootInfo[0].rebootEvent.   *)
(* Optimised, PORT_STATE_DISABLED/ENABLED (0/1) lands on                   *)
(* portRebootInfo[0].rebootDelay.  The other writes hit padding, or bits   *)
(* and bytes that nothing reads.                                           *)
(***************************************************************************)
SlotBelow_Inverted ==
  /\ rebootEvent' = IF layout = "unopt" /\ uci = "enabled"
                    THEN rebootEvent \cup {"START"} ELSE rebootEvent
  /\ UNCHANGED rebootDelay
SlotBelow ==
  \/ /\ layout = "unopt"
     /\ rebootEvent' = IF uci = "enabled" THEN rebootEvent \ {"START"}
                                          ELSE rebootEvent \cup {"START"}
     /\ UNCHANGED rebootDelay
  \/ /\ layout = "opt"
     /\ rebootDelay' = IF uci = "enabled" THEN 1 ELSE 0
     /\ UNCHANGED rebootEvent

(* The tests are skipped, and the old errorCode kept, when neither option *)
(* of the section says "enable" or the section cannot be read.            *)
GetArState ==
  /\ pc = "state"
  /\ SlotBelow
  /\ pc' = IF uci = "off" THEN "events"
           ELSE IF testType = "DISABLE" THEN "disable" ELSE "link"
  /\ UNCHANGED <<keepRunning, config, port, rebootState, clock, layout, world>>

-----------------------------------------------------------------------------
(* The tests.  Each rewrites the flags it knows of and leaves the others. *)
Tested(flags, next) ==
  /\ errorCode' = flags
  /\ pc' = next
  /\ UNCHANGED <<keepRunning, config, errorTestCount, resetCount, event, state,
                 reboot, clock, layout, world>>

TestDisableFlags_Link == (errorCode \ {"OK"}) \cup {"TEST_LINK"}
TestDisableFlags == (errorCode \ {"OK"}) \cup {"TEST_DISABLE"}

RunTestDisable == pc = "disable" /\ Tested(TestDisableFlags, "events")

LinkFlags_OkKept ==
  IF link = "up" THEN (errorCode \cup {"OK"}) \ {"TEST_LINK"}
                 ELSE errorCode \cup {"TEST_LINK"}
LinkFlags ==
  IF link = "up" THEN (errorCode \cup {"OK"}) \ {"TEST_LINK"}
                 ELSE (errorCode \cup {"TEST_LINK"}) \ {"OK"}

RunTestLink ==
  /\ pc = "link"
  /\ Tested(LinkFlags, IF testType = "PING" THEN "ping"
                       ELSE IF testType = "SPEED" THEN "speed" ELSE "events")

(* operstate cannot be opened (the interface is gone): fgets is called on *)
(* NULL, and critical_signal_handler ends the process.                    *)
LinkFileMissing ==
  /\ pc = "link"
  /\ Tested((errorCode \ {"OK"}) \cup {"HW_ACCESS"}, "crashed")

(* Nothing clears TEST_PING again. *)
PingFlags ==
  IF "TEST_LINK" \in errorCode THEN errorCode \ {"OK"}
  ELSE IF host THEN errorCode \cup {"OK"}
  ELSE (errorCode \ {"OK"}) \cup {"TEST_PING"}

RunTestPing == pc = "ping" /\ Tested(PingFlags, "events")

(* time_prev is overwritten with time_current before the two are          *)
(* subtracted, so no time ever passes between two samples, and the        *)
(* comparison of the rate with min_speed and max_speed is not reached.    *)
DeltaTime == 0

SpeedFlags ==
  IF "TEST_LINK" \in errorCode THEN errorCode \ {"OK"}
  ELSE IF DeltaTime # 0 /\ host THEN (errorCode \ {"TEST_SPEED"}) \cup {"OK"}
  ELSE (errorCode \ {"OK"}) \cup {"TEST_SPEED"}

RunTestSpeed == pc = "speed" /\ Tested(SpeedFlags, "events")

(* nic_stat is there and is not a string: json_string_value gives NULL to *)
(* strncpy.                                                               *)
SpeedReplyNotText ==
  /\ pc = "speed"
  /\ "TEST_LINK" \notin errorCode
  /\ Tested((errorCode \ {"OK"}) \cup {"TEST_SPEED"}, "crashed")

-----------------------------------------------------------------------------
(***************************************************************************)
(* eventsHandler: portInfo is a local copy that is written back whole, so  *)
(* each handler is one step.  alarmHandler is not here: nothing enables a  *)
(* timeAlarm.  Neither is MANUAL_RESTART: nothing sets it.                 *)
(***************************************************************************)
Handling(s) == pc = "events" /\ state = s /\ pc' = "sleep"

TestOkReceived_Always == TRUE
TestOkReceived == "TEST_OK" \in event

HandleIdleState ==
  /\ Handling("IDLE")
  /\ IF TestOkReceived
     THEN /\ event' = event \ {"TEST_OK"}
          /\ state' = "REGULAR"
          /\ errorCode' = errorCode \ {"PORT_SHUTDOWN"}
     ELSE UNCHANGED <<event, state, errorCode>>
  /\ UNCHANGED <<keepRunning, config, errorTestCount, resetCount, reboot, clock,
                 layout, world>>

(* test_ErrorHandler *)
Decay_NoFloor(n) == n - 1
Decay_None(n) == n
Decay_All(n) == 0
Decay(n) == IF n > 0 THEN n - 1 ELSE 0

\* ++ on a uint8_t.
Increment(n) == (n + 1) % CounterMod

TestOk ==
  /\ Handling("REGULAR")
  /\ "OK" \in errorCode
  /\ errorTestCount' = Decay(errorTestCount)
  /\ UNCHANGED <<keepRunning, config, errorCode, resetCount, event, state, reboot,
                 clock, layout, world>>

RequestRestart_Silent == UNCHANGED event
RequestRestart == event' = event \cup {"AUTO_RESTART"}

TestFailed ==
  /\ Handling("REGULAR")
  /\ "OK" \notin errorCode
  /\ errorCode \cap TestErrors # {}
  /\ errorTestCount' = Increment(errorTestCount)
  /\ \/ /\ errorTestCount' < testNum
        /\ UNCHANGED <<event, state>>
     \/ /\ errorTestCount' >= testNum
        /\ RequestRestart
        /\ state' = "REBOOT"
  /\ UNCHANGED <<keepRunning, config, errorCode, resetCount, reboot, clock, layout,
                 world>>

TestNeither ==
  /\ Handling("REGULAR")
  /\ errorCode \cap (TestErrors \cup {"OK"}) = {}
  /\ UNCHANGED <<keepRunning, config, port, reboot, clock, layout, world>>

-----------------------------------------------------------------------------
(* rebootHandler, state by state. *)
ShutDown(flags) ==
  /\ errorCode' = (flags \ {"REBOOTING"}) \cup {"PORT_SHUTDOWN"}
  /\ rebootState' = "IDLE"
  /\ state' = "IDLE"
  /\ testType' = IF errorCode' \cap FatalErrors # {} THEN "DISABLE" ELSE testType
  /\ UNCHANGED <<errorTestCount, resetCount>>

CountAttempt_Free == UNCHANGED resetCount
CountAttempt == resetCount' = Increment(resetCount)

ForgetFailures_Kept == UNCHANGED errorTestCount
ForgetFailures == errorTestCount' = 0

CountReboot(flags) ==
  /\ ForgetFailures
  /\ CountAttempt
  /\ errorCode' = flags \cup {"REBOOTING"}
  /\ rebootState' = "INIT"
  /\ UNCHANGED <<testType, state>>

BudgetSpent_OneMore == resetCount > maxReset
BudgetSpent == resetCount >= maxReset

AutoResetHandler ==
  \/ BudgetSpent /\ ShutDown(errorCode \ {"OK"})
  \/ ~BudgetSpent /\ CountReboot(errorCode \ {"OK"})

RebootIdle ==
  /\ Handling("REBOOT")
  /\ rebootState = "IDLE"
  /\ IF "AUTO_RESTART" \in event
     THEN event' = event \ {"AUTO_RESTART"} /\ AutoResetHandler
     ELSE UNCHANGED <<testType, port, rebootState>>
  /\ UNCHANGED <<keepRunning, testNum, maxReset, rebootEvent, rebootDelay, clock,
                 layout, world>>

RebootInit ==
  /\ Handling("REBOOT")
  /\ rebootState = "INIT"
  /\ rebootState' = "POE_DOWN"
  /\ rebootEvent' = rebootEvent \cup {"START"}
  /\ UNCHANGED <<keepRunning, config, port, rebootDelay, clock, layout, world>>

(* set_timeStart, when START is still there, and get_rebootEvent, which *)
(* replaces every flag of rebootEvent.                                  *)
RebootPoeDown ==
  /\ Handling("REBOOT")
  /\ rebootState = "POE_DOWN"
  /\ timeLeft' = IF "START" \in rebootEvent THEN rebootDelay ELSE timeLeft
  /\ \/ /\ timeLeft' <= 0
        /\ rebootEvent' = {"TIMER_STOP"}
        /\ rebootState' = "POE_UP"
     \/ /\ timeLeft' > 0
        /\ rebootEvent' = {}
        /\ UNCHANGED rebootState
  /\ UNCHANGED <<keepRunning, config, port, rebootDelay, jumps, layout, world>>

RebootedFlags_Kept == errorCode
RebootedFlags == errorCode \ {"REBOOTING"}

RebootPoeUp ==
  /\ Handling("REBOOT")
  /\ rebootState = "POE_UP"
  /\ rebootEvent' = rebootEvent \ {"TIMER_STOP"}
  /\ state' = "REGULAR"
  /\ rebootState' = "IDLE"
  /\ errorCode' = RebootedFlags
  /\ UNCHANGED <<keepRunning, config, errorTestCount, resetCount, event, rebootDelay,
                 clock, layout, world>>

(* sleep(test_delay): any number of seconds, for a signal cuts it short. *)
Wake ==
  /\ pc = "sleep"
  /\ pc' = "loop"
  /\ UNCHANGED <<keepRunning, config, port, reboot, clock, layout, world>>

-----------------------------------------------------------------------------
(* The other parties.  graceful_shutdown_handler may run between any two *)
(* steps of the thread.                                                  *)
Terminate ==
  /\ Running /\ keepRunning
  /\ keepRunning' = FALSE
  /\ UNCHANGED <<pc, config, port, reboot, clock, layout, world>>

Tick ==
  /\ Running /\ timeLeft > 0
  /\ timeLeft' = timeLeft - 1
  /\ UNCHANGED <<pc, keepRunning, config, port, reboot, jumps, layout, world>>

(* time(NULL) is the wall clock, and somebody sets it. *)
ClockJump ==
  /\ Running /\ timeLeft # Unset
  /\ jumps < MaxJumps
  /\ jumps' = jumps + 1
  /\ timeLeft' \in 0 .. (timeLeft + JumpSize)
  /\ UNCHANGED <<pc, keepRunning, config, port, reboot, layout, world>>

(* The uci section, the cable, the probed host and the traffic change at *)
(* any time.                                                             *)
UciChange ==
  /\ Running
  /\ uci' \in {"enabled", "poe", "off"} \ {uci}
  /\ UNCHANGED <<pc, keepRunning, config, port, reboot, clock, layout, link, host>>

LinkChange ==
  /\ Running
  /\ link' \in {"up", "down"} \ {link}
  /\ UNCHANGED <<pc, keepRunning, config, port, reboot, clock, layout, uci, host>>

HostChange ==
  /\ Running
  /\ host' = ~host
  /\ UNCHANGED <<pc, keepRunning, config, port, reboot, clock, layout, uci, link>>

-----------------------------------------------------------------------------
RunTests ==
  \/ RunTestDisable \/ RunTestLink \/ LinkFileMissing
  \/ RunTestPing \/ RunTestSpeed \/ SpeedReplyNotText

EventsHandler ==
  \/ HandleIdleState
  \/ TestOk \/ TestFailed \/ TestNeither
  \/ RebootIdle \/ RebootInit \/ RebootPoeDown \/ RebootPoeUp

Daemon == SystemInit \/ LoopTop \/ GetArState \/ RunTests \/ EventsHandler \/ Wake

World == Terminate \/ ClockJump \/ UciChange \/ LinkChange \/ HostChange

Next == Daemon \/ Tick \/ World

Spec == Init /\ [][Next]_vars

(* The thread is scheduled, the calls it makes return, and time passes. *)
FairSpec == Spec /\ WF_vars(Daemon) /\ WF_vars(Tick)

-----------------------------------------------------------------------------
(* Properties. *)

\* The types of the variables of the daemon (port_manager.h): the counters
\* stay in their width and only flags the reachable code sets appear.
TypeOK ==
  /\ pc \in Steps /\ keepRunning \in BOOLEAN
  /\ testType \in TestTypes \cup {"DISABLE"}
  /\ testNum \in 0 .. (CounterMod - 1) /\ maxReset \in 0 .. (CounterMod - 1)
  /\ errorCode \subseteq ErrorFlags
  /\ errorTestCount \in 0 .. (CounterMod - 1)
  /\ resetCount \in 0 .. (CounterMod - 1)
  /\ event \subseteq {"AUTO_RESTART"}
  /\ state \in {"IDLE", "REGULAR", "REBOOT"}
  /\ rebootState \in {"IDLE", "INIT", "POE_DOWN", "POE_UP"}
  /\ rebootEvent \subseteq {"START", "TIMER_STOP"}
  /\ rebootDelay \in {0, 1, RebootDelay}
  /\ timeLeft \in Int /\ timeLeft >= Unset
  /\ jumps \in 0 .. MaxJumps
  /\ layout \in Layouts
  /\ uci \in {"enabled", "poe", "off"} /\ link \in {"up", "down"} /\ host \in BOOLEAN

\* A reboot is authorised from the start (port_manager_init sets INIT) or by
\* autoResetHandler, until POE_UP is handled.
Authorised == rebootState # "IDLE"

\* The reboots that were completed: one that is authorised has yet to be.
RebootsDone == IF Authorised THEN resetCount ELSE resetCount + 1

\* rebootHandler does nothing in REBOOT_STATE_IDLE without AUTO_RESTART: a port
\* that got there without the event would hang in REBOOT_STATE for ever.
RestartIsPending == state = "REBOOT" /\ rebootState = "IDLE" => "AUTO_RESTART" \in event

\* Shut down, IDLE_STATE and the flag ERR_PORT_SHUTDOWN are the same thing, at
\* whatever point a test has rewritten errorCode since, and every reset that
\* max_reset allows was made before.
ShutdownAccounted ==
  /\ state = "IDLE" <=> "PORT_SHUTDOWN" \in errorCode
  /\ state = "IDLE" => resetCount = maxReset /\ ~Authorised
  /\ resetCount <= maxReset

\* test_ErrorHandler never leaves a port in REGULAR_STATE with a failure count
\* that has reached test_num, save for the count the first, uncounted reboot
\* forgets to clear; then the next failure restarts the port at once, or, at the
\* largest value of the uint8_t, wraps and starts to count anew.
ThresholdHonoured ==
  state = "REGULAR" /\ errorTestCount > 0 /\ errorTestCount >= testNum =>
    /\ "AUTO_RESTART" \in event
    /\ resetCount = 0 /\ ~Authorised

\* Only the first reboot runs with the event still pending and is neither
\* flagged ERR_REBOOTING nor counted; every later one is both.
FirstRebootUncounted ==
  /\ "REBOOTING" \in errorCode => state = "REBOOT" /\ Authorised /\ resetCount > 0
  /\ state = "REBOOT" /\ Authorised /\ "REBOOTING" \notin errorCode =>
       resetCount = 0 /\ "AUTO_RESTART" \in event

\* A port without a test mode is never rebooted, whatever is read of it.
DisabledNotRebooted == testType = "DISABLE" => state = "REGULAR" /\ errorTestCount = 0

\* A port is not counted as good while its last link test says it is down,
\* across port_run_test_link, port_run_test_ping, port_run_test_speed and the
\* loops in which the tests are skipped.
OkMeansLink == "OK" \in errorCode => "TEST_LINK" \notin errorCode

\* Nothing the daemon, the world or the clock does takes a port out of
\* IDLE_STATE again: handleIdleState waits for TEST_OK, which nobody sends.
ShutdownIsFinal == [][state = "IDLE" => state' = "IDLE" /\ resetCount' = resetCount]_vars

\* The failures of a port are forgotten in three ways only, whatever else its loops
\* do: one by one, by tests that end with ERR_OK; all at once, by a reboot that was
\* paid for; and by the wrap of the uint8_t, which needs a first reboot that was not
\* (test_ErrorHandler, autoResetHandler).
FailuresForgiven ==
  [][errorTestCount' < errorTestCount =>
       \/ state = "REGULAR" /\ "OK" \in errorCode /\ errorTestCount' = errorTestCount - 1
       \/ state = "REBOOT" /\ resetCount' = resetCount + 1
       \/ /\ errorTestCount = CounterMod - 1 /\ errorTestCount' = 0
          /\ resetCount = 0 /\ "AUTO_RESTART" \in event]_vars

\* The failures that are still to come before the next restart: what test_num is
\* ahead of the count, or one; from its largest value the count starts again.
FailuresToGo ==
  IF errorTestCount < testNum THEN testNum - errorTestCount
  ELSE IF errorTestCount = CounterMod - 1 /\ testNum > 0 THEN testNum + 1
  ELSE 1

\* The calls of eventsHandler, with failing tests only and with the timer expired,
\* before the budget is touched again: the failures, then the stages of a reboot.
StepsToGo ==
  CASE state = "IDLE" -> 0
    [] state = "REBOOT" /\ rebootState = "IDLE" -> 1
    [] state = "REGULAR" /\ rebootState = "IDLE" -> 1 + FailuresToGo
    [] state = "REBOOT" /\ rebootState = "POE_UP" -> CounterMod + 2
    [] state = "REBOOT" /\ rebootState = "POE_DOWN" -> CounterMod + 3
    [] state = "REBOOT" /\ rebootState = "INIT" -> CounterMod + 4
    [] OTHER -> CounterMod + 4 + FailuresToGo

Failing == "OK" \notin errorCode /\ errorCode \cap TestErrors # {}

\* A reboot that has begun, and a port whose test failed, come nearer to their end in
\* every loop, but those in which the timer still runs: either a reset is taken from
\* the budget, or there is less to go before it is; and no step but eventsHandler
\* moves a port nearer or further away.  So a port that fails is shut down after so
\* many loops as the budget and the counters allow, whatever test_num is; there is
\* no point at which the loop goes on and the port stays where it is.
NearsShutdown ==
  [][pc # "boot" =>
       IF pc = "events" /\ pc' # "events"
       THEN state = "REBOOT" \/ (state = "REGULAR" /\ Failing) =>
              \/ resetCount' = resetCount + 1 /\ resetCount' <= maxReset
              \/ resetCount' = resetCount /\ StepsToGo' < StepsToGo
              \/ /\ rebootState = "POE_DOWN" /\ timeLeft' > 0
                 /\ resetCount' = resetCount /\ StepsToGo' = StepsToGo
       ELSE resetCount' = resetCount /\ StepsToGo' = StepsToGo]_vars

\* The daemon implements the abstract lifecycle of a port.
Lifecycle == INSTANCE RebootLifecycle WITH
  Budgets    <- MaxResets,
  phase      <- IF pc = "boot" THEN "booting" ELSE state,
  budget     <- maxReset,
  used       <- resetCount,
  authorised <- Authorised,
  done       <- RebootsDone

ImplementsLifecycle == Lifecycle!Spec

\* What the lifecycle says follows for the daemon: no port is rebooted more than
\* max_reset + 1 times, and every port that is shut down was rebooted just so often
\* (autoResetHandler and rebootHandler together, whatever the layout and the clock).
RebootsBounded == Lifecycle!RebootsBounded

-----------------------------------------------------------------------------
(* Liveness, under FairSpec. *)
Stopped == pc \in {"stopped", "crashed"}

\* The tests that will fail from now on.  "The link is down or the host is
\* silent" is not one of them: link test and ping are two reads, and each may
\* come at the moment when the other cause would have failed it.
LinkFails == uci = "enabled" /\ testType # "DISABLE" /\ link = "down"
PingFails == uci = "enabled" /\ testType = "PING" /\ ~host
SpeedFails == uci = "enabled" /\ testType = "SPEED" /\ ~host

\* A reboot that was begun comes to an end, unless, in an unoptimised build,
\* the port stays disabled: then get_ar_state sets START anew in every loop,
\* and set_timeStart restarts the timer before it can expire.
RebootEnds ==
  layout = "opt" \/ <>[](uci = "enabled") =>
    (state = "REBOOT" ~> (state # "REBOOT" \/ Stopped))

\* A port whose test fails for good is rebooted until its budget is spent and
\* then shut down, also when test_num is the largest value of the count, from
\* which the next failure wraps.
FailingPortIsShutDown ==
  <>[]LinkFails \/ <>[]PingFails \/ <>[]SpeedFails => <>(state = "IDLE" \/ Stopped)

\* A port that recovers for good settles in REGULAR_STATE with its failures
\* forgotten, unless it was shut down before.  In speed mode no port recovers
\* (SpeedInRangePasses).
HealthyPortSettles ==
  <>[](uci = "enabled" /\ link = "up" /\ host /\ testType \in {"LINK", "PING"}) =>
    <>[](state = "REGULAR" /\ errorTestCount = 0) \/ <>(state = "IDLE" \/ Stopped)

\* SIGTERM ends the daemon in whatever step of a reboot it is.
TerminationObeyed == ~keepRunning ~> Stopped

-----------------------------------------------------------------------------
(* What the repository says of the program, and the program does not do. *)

\* port_manager.h documents portNum as 0-based: reading the state of port 0
\* leaves the reboot record of the port alone.
ReadsOwnSlotOnly == [][pc = "state" /\ pc' # pc => UNCHANGED <<rebootEvent, rebootDelay>>]_vars

\* max_reset is the largest number of reboot attempts.
RebootsWithinMaxReset == RebootsDone <= maxReset

\* The speed test compares the rate with min_speed and max_speed: it passes a port
\* whose link is up, whose bytes ubus counts and whose traffic is in range.
SpeedInRangePasses ==
  [][pc = "speed" /\ pc' = "events" /\ host /\ "TEST_LINK" \notin errorCode =>
       "OK" \in errorCode']_vars

=============================================================================
