------------------------- MODULE PortMonitorProofs -------------------------
(***************************************************************************)
(* Proofs about PortMonitor for every value of its constants: any width of *)
(* the counters, any limits the configuration may give, any placement of   *)
(* the globals, any number of settings of the clock.                       *)
(***************************************************************************)
EXTENDS PortMonitor, TLAPS

\* ++ on an unsigned counter stays in its width (the uint8_t counters of
\* port_reset_info_t).
LEMMA IncrementInRange ==
  ASSUME NEW n \in 0 .. (CounterMod - 1)
  PROVE  Increment(n) \in 0 .. (CounterMod - 1)
BY CounterAssumption, SMT DEF Increment

\* ... and does not wrap below its largest value.
LEMMA IncrementBelow ==
  ASSUME NEW m \in 0 .. (CounterMod - 1), NEW n \in 0 .. (CounterMod - 1), n < m
  PROVE  Increment(n) = n + 1
BY CounterAssumption, SMT DEF Increment

\* The decrement of test_ErrorHandler stops at 0.
LEMMA DecayInRange ==
  ASSUME NEW n \in 0 .. (CounterMod - 1)
  PROVE  Decay(n) \in 0 .. (CounterMod - 1) /\ Decay(n) <= n
BY CounterAssumption, SMT DEF Decay

-----------------------------------------------------------------------------
\* The daemon keeps every variable in its type: the counters in their width,
\* the flags among those the reachable code sets (port_manager.h).
THEOREM TypeCorrect == Spec => []TypeOK
<1> USE CounterAssumption, TestTypeAssumption, LayoutAssumption, ClockAssumption
<1>1. Init => TypeOK
  BY DEF Init, TypeOK, Steps, ErrorFlags, Unset
<1>2. TypeOK /\ [Next]_vars => TypeOK'
  <2> SUFFICES ASSUME TypeOK, [Next]_vars PROVE TypeOK'
    OBVIOUS
  <2> USE DEF TypeOK, config, port, reboot, clock, world
  <2>1. CASE SystemInit
    BY <2>1 DEF SystemInit, Steps
  <2>2. CASE LoopTop
    BY <2>2 DEF LoopTop, Steps
  <2>3. CASE GetArState
    <3>1. pc' \in Steps
      BY <2>3 DEF GetArState, Steps
    <3>2. rebootDelay' \in {0, 1, RebootDelay} /\ rebootEvent' \subseteq {"START", "TIMER_STOP"}
      BY <2>3 DEF GetArState, SlotBelow
    <3> QED
      BY <2>3, <3>1, <3>2 DEF GetArState
  <2>4. CASE RunTests
    <3>1. CASE RunTestDisable
      BY <3>1 DEF RunTestDisable, Tested, TestDisableFlags, Steps, ErrorFlags
    <3>2. CASE RunTestLink
      BY <3>2 DEF RunTestLink, Tested, LinkFlags, Steps, ErrorFlags, TestErrors
    <3>3. CASE LinkFileMissing
      BY <3>3 DEF LinkFileMissing, Tested, Steps, ErrorFlags
    <3>4. CASE RunTestPing
      BY <3>4 DEF RunTestPing, Tested, PingFlags, Steps, ErrorFlags, TestErrors
    <3>5. CASE RunTestSpeed
      BY <3>5 DEF RunTestSpeed, Tested, SpeedFlags, Steps, ErrorFlags, TestErrors
    <3>6. CASE SpeedReplyNotText
      BY <3>6 DEF SpeedReplyNotText, Tested, Steps, ErrorFlags, TestErrors
    <3> QED
      BY <2>4, <3>1, <3>2, <3>3, <3>4, <3>5, <3>6 DEF RunTests
  <2>5. CASE EventsHandler
    <3> USE DEF Handling, Steps
    <3>1. CASE HandleIdleState
      BY <3>1 DEF HandleIdleState, TestOkReceived
    <3>2. CASE TestOk
      BY <3>2, DecayInRange DEF TestOk
    <3>3. CASE TestFailed
      BY <3>3, IncrementInRange DEF TestFailed, RequestRestart
    <3>4. CASE TestNeither
      BY <3>4 DEF TestNeither
    <3>5. CASE RebootIdle
      <4>1. resetCount' \in 0 .. (CounterMod - 1)
        BY <3>5, IncrementInRange
        DEF RebootIdle, AutoResetHandler, ShutDown, CountReboot, CountAttempt
      <4>2. errorTestCount' \in 0 .. (CounterMod - 1)
        BY <3>5
        DEF RebootIdle, AutoResetHandler, ShutDown, CountReboot, ForgetFailures
      <4>3. errorCode' \subseteq ErrorFlags
        BY <3>5 DEF RebootIdle, AutoResetHandler, ShutDown, CountReboot, ErrorFlags
      <4>4. /\ testType' \in TestTypes \cup {"DISABLE"}
            /\ event' \subseteq {"AUTO_RESTART"}
            /\ state' \in {"IDLE", "REGULAR", "REBOOT"}
            /\ rebootState' \in {"IDLE", "INIT", "POE_DOWN", "POE_UP"}
        BY <3>5 DEF RebootIdle, AutoResetHandler, ShutDown, CountReboot
      <4> QED
        BY <3>5, <4>1, <4>2, <4>3, <4>4 DEF RebootIdle
    <3>6. CASE RebootInit
      BY <3>6 DEF RebootInit
    <3>7. CASE RebootPoeDown
      BY <3>7 DEF RebootPoeDown, Unset
    <3>8. CASE RebootPoeUp
      BY <3>8 DEF RebootPoeUp, RebootedFlags
    <3> QED
      BY <2>5, <3>1, <3>2, <3>3, <3>4, <3>5, <3>6, <3>7, <3>8 DEF EventsHandler
  <2>6. CASE Wake
    BY <2>6 DEF Wake, Steps
  <2>7. CASE Tick
    BY <2>7 DEF Tick, Unset
  <2>8. CASE World
    <3>1. CASE Terminate
      BY <3>1 DEF Terminate
    <3>2. CASE ClockJump
      BY <3>2 DEF ClockJump, Unset
    <3>3. CASE UciChange
      BY <3>3 DEF UciChange
    <3>4. CASE LinkChange
      BY <3>4 DEF LinkChange
    <3>5. CASE HostChange
      BY <3>5 DEF HostChange
    <3> QED
      BY <2>8, <3>1, <3>2, <3>3, <3>4, <3>5 DEF World
  <2>9. CASE UNCHANGED vars
    BY <2>9 DEF vars
  <2> QED
    BY <2>1, <2>2, <2>3, <2>4, <2>5, <2>6, <2>7, <2>8, <2>9 DEF Next, Daemon
<1> QED
  BY <1>1, <1>2, PTL DEF Spec

-----------------------------------------------------------------------------
(***************************************************************************)
(* The inductive invariant.  A port goes through seven situations:         *)
(*                                                                         *)
(*   state     rebootState  event           resetCount                     *)
(*   REGULAR   INIT         none            0    before the first failure  *)
(*   REBOOT    not IDLE     AUTO_RESTART    0    the first reboot          *)
(*   REGULAR   IDLE         AUTO_RESTART    0    after it                  *)
(*   REBOOT    IDLE         AUTO_RESTART    any  a reset is due            *)
(*   REBOOT    not IDLE     none            > 0  a counted reboot          *)
(*   REGULAR   IDLE         none            > 0  after it                  *)
(*   IDLE      IDLE         none            max  shut down                 *)
(***************************************************************************)
Situations ==
  /\ resetCount <= maxReset
  /\ state = "REGULAR" => rebootState \in {"IDLE", "INIT"}
  /\ state = "REGULAR" /\ rebootState = "INIT" => event = {} /\ resetCount = 0
  /\ state = "REGULAR" /\ rebootState = "IDLE" => (event = {} <=> resetCount > 0)
  /\ state = "REBOOT" /\ rebootState = "IDLE" => "AUTO_RESTART" \in event
  /\ state = "REBOOT" /\ rebootState # "IDLE" => (event = {} <=> resetCount > 0)
  /\ state = "IDLE" => rebootState = "IDLE" /\ event = {} /\ resetCount = maxReset

\* The failure count between two tests: below the threshold, save after the
\* reboot that did not clear it.
FailuresCounted ==
  /\ state = "REBOOT" /\ rebootState # "IDLE" => "AUTO_RESTART" \in event \/ errorTestCount = 0
  /\ state = "REGULAR" /\ errorTestCount > 0 /\ errorTestCount >= testNum =>
       rebootState = "IDLE" /\ "AUTO_RESTART" \in event

\* The flags of errorCode that follow the situation.
FlagsFollow ==
  /\ state = "IDLE" <=> "PORT_SHUTDOWN" \in errorCode
  /\ "REBOOTING" \in errorCode <=> state = "REBOOT" /\ rebootState # "IDLE" /\ event = {}
  /\ OkMeansLink

\* Without a test mode no test fails, so nothing is counted.
NothingTested ==
  testType = "DISABLE" =>
    /\ state = "REGULAR" /\ errorTestCount = 0
    /\ \A f \in TestErrors : f \notin errorCode
    /\ pc \notin {"link", "ping", "speed"}

\* Before system_init the port is as port_manager_init left it.
Booting ==
  pc = "boot" =>
    /\ state = "REGULAR" /\ rebootState = "INIT" /\ maxReset = 0
    /\ errorTestCount = 0 /\ resetCount = 0 /\ event = {} /\ errorCode = {"OK"}

IInv == TypeOK /\ Situations /\ FailuresCounted /\ FlagsFollow /\ NothingTested /\ Booting

\* The steps that leave the port's records and the configuration alone.
LEMMA QuietSteps ==
  ASSUME IInv, UNCHANGED <<port, config, rebootState>>,
         pc' = "boot" => pc = "boot",
         pc' \in {"link", "ping", "speed"} => testType # "DISABLE" \/ pc' = pc
  PROVE  Situations' /\ FailuresCounted' /\ FlagsFollow' /\ NothingTested' /\ Booting'
BY DEF IInv, TypeOK, Situations, FailuresCounted, FlagsFollow, OkMeansLink, NothingTested,
       Booting, port, config

\* The tests rewrite flags of errorCode that no situation depends on.
LEMMA TestSteps ==
  ASSUME IInv, RunTests
  PROVE  Situations' /\ FailuresCounted' /\ FlagsFollow' /\ NothingTested' /\ Booting'
<1>1. /\ UNCHANGED <<config, errorTestCount, resetCount, event, state, rebootState>>
      /\ pc \in {"disable", "link", "ping", "speed"} /\ pc' # "boot"
  BY DEF RunTests, RunTestDisable, RunTestLink, LinkFileMissing, RunTestPing, RunTestSpeed,
         SpeedReplyNotText, Tested, reboot
<1>2. /\ "PORT_SHUTDOWN" \in errorCode' <=> "PORT_SHUTDOWN" \in errorCode
      /\ "REBOOTING" \in errorCode' <=> "REBOOTING" \in errorCode
  <2>1. CASE RunTestDisable
    BY <2>1 DEF RunTestDisable, Tested, TestDisableFlags
  <2>2. CASE RunTestLink \/ LinkFileMissing
    BY <2>2 DEF RunTestLink, LinkFileMissing, Tested, LinkFlags
  <2>3. CASE RunTestPing
    BY <2>3 DEF RunTestPing, Tested, PingFlags
  <2>4. CASE RunTestSpeed \/ SpeedReplyNotText
    BY <2>4 DEF RunTestSpeed, SpeedReplyNotText, Tested, SpeedFlags
  <2> QED
    BY <2>1, <2>2, <2>3, <2>4 DEF RunTests
<1>3. OkMeansLink'
  <2> USE DEF IInv, FlagsFollow, OkMeansLink, Tested
  <2>1. CASE RunTestDisable
    BY <2>1 DEF RunTestDisable, TestDisableFlags
  <2>2. CASE RunTestLink \/ LinkFileMissing
    BY <2>2 DEF RunTestLink, LinkFileMissing, LinkFlags
  <2>3. CASE RunTestPing
    BY <2>3 DEF RunTestPing, PingFlags
  <2>4. CASE RunTestSpeed \/ SpeedReplyNotText
    BY <2>4 DEF RunTestSpeed, SpeedReplyNotText, SpeedFlags
  <2> QED
    BY <2>1, <2>2, <2>3, <2>4 DEF RunTests
<1>4. NothingTested'
  <2> SUFFICES ASSUME testType = "DISABLE" PROVE NothingTested'
    BY <1>1 DEF NothingTested, config
  <2>1. RunTestDisable
    BY DEF IInv, NothingTested, RunTests, RunTestLink, LinkFileMissing, RunTestPing,
           RunTestSpeed, SpeedReplyNotText
  <2> QED
    BY <1>1, <2>1 DEF IInv, NothingTested, RunTestDisable, TestDisableFlags, Tested, TestErrors
<1> QED
  BY <1>1, <1>2, <1>3, <1>4
  DEF IInv, Situations, FailuresCounted, FlagsFollow, Booting, config

\* The handlers of the three states.
LEMMA HandlerSteps ==
  ASSUME IInv, EventsHandler
  PROVE  Situations' /\ FailuresCounted' /\ FlagsFollow' /\ NothingTested' /\ Booting'
<1> USE CounterAssumption
    DEF IInv, TypeOK, Handling, Situations, FailuresCounted, FlagsFollow, OkMeansLink,
        NothingTested, Booting, config, port, reboot
<1>1. CASE HandleIdleState
  BY <1>1 DEF HandleIdleState, TestOkReceived
<1>2. CASE TestOk
  BY <1>2, DecayInRange DEF TestOk, Decay
<1>3. CASE TestFailed
  <2>1. testType # "DISABLE"
    <3>1. PICK f \in TestErrors : f \in errorCode
      BY <1>3 DEF TestFailed
    <3> QED
      BY <3>1
  <2>2. errorTestCount' \in 0 .. (CounterMod - 1)
    BY <1>3, IncrementInRange DEF TestFailed
  <2>3. /\ state = "REGULAR" /\ pc' = "sleep"
        /\ UNCHANGED <<errorCode, rebootState, resetCount, testType, testNum, maxReset>>
    BY <1>3 DEF TestFailed
  <2>4. \/ errorTestCount' < testNum /\ event' = event /\ state' = state
        \/ event' = event \cup {"AUTO_RESTART"} /\ state' = "REBOOT"
    BY <1>3 DEF TestFailed, RequestRestart
  <2>5. CASE errorTestCount' < testNum /\ event' = event /\ state' = state
    BY <2>1, <2>2, <2>3, <2>5
  <2>6. CASE event' = event \cup {"AUTO_RESTART"} /\ state' = "REBOOT"
    <3>1. event' = {"AUTO_RESTART"}
      BY <2>6
    <3> QED
      BY <2>1, <2>3, <2>6, <3>1
  <2> QED
    BY <2>4, <2>5, <2>6
<1>4. CASE TestNeither
  BY <1>4 DEF TestNeither
<1>5. CASE RebootIdle
  <2>1. CASE BudgetSpent /\ ShutDown(errorCode \ {"OK"})
    <3>1. errorCode' \cap FatalErrors = {}
      <4>1. errorCode \subseteq ErrorFlags
        BY DEF TypeOK
      <4> HIDE DEF TypeOK, Situations, FailuresCounted, FlagsFollow, NothingTested, Booting
      <4> QED
        BY <2>1, <4>1 DEF ShutDown, ErrorFlags, FatalErrors, TestErrors
    <3>2. testType' = testType
      BY <2>1, <3>1 DEF ShutDown
    <3>3. resetCount = maxReset
      BY <2>1 DEF BudgetSpent
    <3>4. /\ "PORT_SHUTDOWN" \in errorCode' /\ "REBOOTING" \notin errorCode'
          /\ "OK" \notin errorCode'
      BY <2>1 DEF ShutDown
    <3>5. event' = {}
      BY <1>5 DEF RebootIdle
    <3> QED
      BY <1>5, <2>1, <3>2, <3>3, <3>4, <3>5 DEF RebootIdle, ShutDown
  <2>2. CASE ~BudgetSpent /\ CountReboot(errorCode \ {"OK"})
    <3>1. resetCount' = resetCount + 1 /\ resetCount < maxReset
      BY <2>2, IncrementBelow DEF CountReboot, BudgetSpent, CountAttempt
    <3>2. /\ "PORT_SHUTDOWN" \in errorCode' <=> "PORT_SHUTDOWN" \in errorCode
          /\ "REBOOTING" \in errorCode' /\ "OK" \notin errorCode'
      BY <2>2 DEF CountReboot
    <3>3. event' = {}
      BY <1>5 DEF RebootIdle
    <3> QED
      BY <1>5, <2>2, <3>1, <3>2, <3>3 DEF RebootIdle, CountReboot, ForgetFailures
  <2> QED
    BY <1>5, <2>1, <2>2 DEF RebootIdle, AutoResetHandler
<1>6. CASE RebootInit
  BY <1>6 DEF RebootInit
<1>7. CASE RebootPoeDown
  BY <1>7 DEF RebootPoeDown
<1>8. CASE RebootPoeUp
  BY <1>8 DEF RebootPoeUp, RebootedFlags
<1> QED
  BY <1>1, <1>2, <1>3, <1>4, <1>5, <1>6, <1>7, <1>8 DEF EventsHandler

\* The seven situations are all there are, and the flags and the count follow
\* them (autoResetHandler, rebootHandler, test_ErrorHandler and the tests).
THEOREM InvariantHolds == Spec => []IInv
<1>1. Init => IInv
  BY CounterAssumption, ClockAssumption
  DEF Init, IInv, TypeOK, Steps, ErrorFlags, Unset, Situations, FailuresCounted, FlagsFollow,
     OkMeansLink, NothingTested, Booting, TestErrors
<1>2. IInv /\ TypeOK' /\ [Next]_vars => IInv'
  <2> SUFFICES ASSUME IInv, TypeOK', [Next]_vars
               PROVE  Situations' /\ FailuresCounted' /\ FlagsFollow' /\ NothingTested'
                      /\ Booting'
    BY DEF IInv
  <2>1. CASE SystemInit
    BY <2>1, CounterAssumption
    DEF SystemInit, IInv, TypeOK, Situations, FailuresCounted, FlagsFollow, OkMeansLink,
        NothingTested, Booting, port, reboot, TestErrors
  <2>2. CASE LoopTop
    BY <2>2, QuietSteps DEF LoopTop, config, port, reboot
  <2>3. CASE GetArState
    BY <2>3, QuietSteps DEF GetArState, config, port
  <2>4. CASE RunTests
    BY <2>4, TestSteps
  <2>5. CASE EventsHandler
    BY <2>5, HandlerSteps
  <2>6. CASE Wake
    BY <2>6, QuietSteps DEF Wake, config, port, reboot
  <2>7. CASE Tick
    BY <2>7, QuietSteps DEF Tick, config, port, reboot
  <2>8. CASE World
    BY <2>8, QuietSteps
    DEF World, Terminate, ClockJump, UciChange, LinkChange, HostChange, config, port, reboot
  <2>9. CASE UNCHANGED vars
    BY <2>9, QuietSteps DEF vars, reboot
  <2> QED
    BY <2>1, <2>2, <2>3, <2>4, <2>5, <2>6, <2>7, <2>8, <2>9 DEF Next, Daemon
<1> QED
  BY <1>1, <1>2, TypeCorrect, PTL DEF Spec

-----------------------------------------------------------------------------
(* What the invariant says, property by property. *)

\* rebootHandler is never left in REBOOT_STATE_IDLE with nothing to do.
THEOREM NoStuckReboot == Spec => []RestartIsPending
<1>1. IInv => RestartIsPending
  BY DEF IInv, Situations, RestartIsPending
<1> QED
  BY <1>1, InvariantHolds, PTL

\* A port is shut down, by the state and by the flag alike, only when all the
\* resets max_reset allows were made, and no more are ever made.
THEOREM ShutdownIsAccounted == Spec => []ShutdownAccounted
<1>1. IInv => ShutdownAccounted
  BY DEF IInv, Situations, FlagsFollow, ShutdownAccounted, Authorised
<1> QED
  BY <1>1, InvariantHolds, PTL

\* test_ErrorHandler does not sit on a failure count that has reached test_num.
THEOREM ThresholdIsHonoured == Spec => []ThresholdHonoured
<1>1. IInv => ThresholdHonoured
  BY DEF IInv, TypeOK, Situations, FailuresCounted, ThresholdHonoured, Authorised
<1> QED
  BY <1>1, InvariantHolds, PTL

\* The reboot that runs without being counted is the first one.
THEOREM OnlyFirstUncounted == Spec => []FirstRebootUncounted
<1>1. IInv => FirstRebootUncounted
  BY DEF IInv, TypeOK, Situations, FlagsFollow, FirstRebootUncounted, Authorised
<1> QED
  BY <1>1, InvariantHolds, PTL

\* Without a test mode, or with a port section that could not be loaded, the
\* port is never rebooted.
THEOREM DisabledIsLeftAlone == Spec => []DisabledNotRebooted
<1>1. IInv => DisabledNotRebooted
  BY DEF IInv, NothingTested, DisabledNotRebooted
<1> QED
  BY <1>1, InvariantHolds, PTL

\* ERR_OK never stands beside ERR_TEST_LINK.
THEOREM OkExcludesLink == Spec => []OkMeansLink
<1>1. IInv => OkMeansLink
  BY DEF IInv, FlagsFollow
<1> QED
  BY <1>1, InvariantHolds, PTL

\* handleIdleState waits for an event nobody sends: shut down is for good.
THEOREM ShutdownForGood == Spec => ShutdownIsFinal
<1>1. IInv /\ [Next]_vars => [state = "IDLE" => state' = "IDLE" /\ resetCount' = resetCount]_vars
  <2> SUFFICES ASSUME IInv, [Next]_vars, state = "IDLE"
               PROVE  state' = "IDLE" /\ resetCount' = resetCount
    OBVIOUS
  <2>1. pc # "boot" /\ ~TestOkReceived
    BY DEF IInv, TypeOK, Booting, TestOkReceived
  <2>2. CASE SystemInit
    BY <2>1, <2>2 DEF SystemInit
  <2>3. CASE LoopTop \/ GetArState \/ Wake \/ Tick
    BY <2>3 DEF LoopTop, GetArState, Wake, Tick, port
  <2>4. CASE RunTests
    BY <2>4 DEF RunTests, RunTestDisable, RunTestLink, LinkFileMissing, RunTestPing,
                RunTestSpeed, SpeedReplyNotText, Tested
  <2>5. CASE EventsHandler
    BY <2>1, <2>5
    DEF EventsHandler, Handling, HandleIdleState, TestOk, TestFailed, TestNeither,
        RebootIdle, RebootInit, RebootPoeDown, RebootPoeUp
  <2>6. CASE World \/ UNCHANGED vars
    BY <2>6 DEF World, Terminate, ClockJump, UciChange, LinkChange, HostChange, port, vars
  <2> QED
    BY <2>2, <2>3, <2>4, <2>5, <2>6 DEF Next, Daemon
<1> QED
  BY <1>1, InvariantHolds, PTL DEF Spec, ShutdownIsFinal

\* What test_ErrorHandler counts is lost only to good tests, one by one, to a reboot
\* that was counted, or to the wrap of the count after the reboot that was not.
THEOREM FailuresAreForgiven == Spec => FailuresForgiven
<1> DEFINE Forgiven ==
             \/ state = "REGULAR" /\ "OK" \in errorCode /\ errorTestCount' = errorTestCount - 1
             \/ state = "REBOOT" /\ resetCount' = resetCount + 1
             \/ /\ errorTestCount = CounterMod - 1 /\ errorTestCount' = 0
                /\ resetCount = 0 /\ "AUTO_RESTART" \in event
<1>1. IInv /\ [Next]_vars => [errorTestCount' < errorTestCount => Forgiven]_vars
  <2> SUFFICES ASSUME IInv, [Next]_vars, errorTestCount' < errorTestCount
               PROVE  Forgiven
    OBVIOUS
  <2>0. /\ errorTestCount \in 0 .. (CounterMod - 1) /\ resetCount \in 0 .. (CounterMod - 1)
        /\ testNum \in 0 .. (CounterMod - 1) /\ maxReset \in 0 .. (CounterMod - 1)
    BY DEF IInv, TypeOK
  <2>1. errorTestCount' # errorTestCount
    BY <2>0, CounterAssumption
  <2>2. EventsHandler
    BY <2>1
    DEF Next, Daemon, SystemInit, LoopTop, GetArState, Wake, Tick, World, Terminate,
        ClockJump, UciChange, LinkChange, HostChange, RunTests, RunTestDisable, RunTestLink,
        LinkFileMissing, RunTestPing, RunTestSpeed, SpeedReplyNotText, Tested, port, vars
  <2>3. CASE TestOk
    BY <2>0, <2>1, <2>3, CounterAssumption DEF TestOk, Handling, Decay
  <2>4. CASE TestFailed
    <3>1. errorTestCount = CounterMod - 1 /\ errorTestCount' = 0
      <4>1. errorTestCount' = Increment(errorTestCount) /\ state = "REGULAR"
        BY <2>4 DEF TestFailed, Handling
      <4>2. CASE errorTestCount < CounterMod - 1
        <5>1. CounterMod - 1 \in 0 .. (CounterMod - 1)
          BY CounterAssumption
        <5>2. Increment(errorTestCount) = errorTestCount + 1
          BY <2>0, <4>2, <5>1, IncrementBelow
        <5> QED
          BY <2>0, <4>1, <5>2, CounterAssumption
      <4>3. CASE errorTestCount = CounterMod - 1
        BY <4>1, <4>3, CounterAssumption DEF Increment
      <4> QED
        BY <2>0, <4>2, <4>3, CounterAssumption
    <3>2. state = "REGULAR" /\ errorTestCount > 0 /\ errorTestCount >= testNum
      BY <2>0, <2>4, <3>1, CounterAssumption DEF TestFailed, Handling
    <3>3. rebootState = "IDLE" /\ "AUTO_RESTART" \in event
      BY <3>2 DEF IInv, FailuresCounted
    <3>4. resetCount = 0
      BY <2>0, <3>2, <3>3, CounterAssumption DEF IInv, Situations
    <3> QED
      BY <3>1, <3>3, <3>4
  <2>5. CASE RebootIdle
    <3>1. state = "REBOOT" /\ ~BudgetSpent /\ CountAttempt
      BY <2>1, <2>5
      DEF RebootIdle, Handling, AutoResetHandler, ShutDown, CountReboot, port
    <3>2. resetCount < maxReset
      BY <2>0, <3>1, CounterAssumption DEF BudgetSpent
    <3>3. resetCount' = resetCount + 1
      BY <2>0, <3>1, <3>2, IncrementBelow DEF CountAttempt
    <3> QED
      BY <3>1, <3>3
  <2>6. CASE HandleIdleState \/ TestNeither \/ RebootInit \/ RebootPoeDown \/ RebootPoeUp
    BY <2>1, <2>6
    DEF HandleIdleState, TestNeither, RebootInit, RebootPoeDown, RebootPoeUp, port
  <2> QED
    BY <2>2, <2>3, <2>4, <2>5, <2>6 DEF EventsHandler
<1> QED
  BY <1>1, InvariantHolds, PTL DEF Spec, FailuresForgiven

-----------------------------------------------------------------------------
\* There is always a failure to come before the next restart, and at most as many as
\* the counter has values.
LEMMA FailuresToGoBounded == TypeOK => FailuresToGo \in 1 .. CounterMod
BY CounterAssumption DEF TypeOK, FailuresToGo

\* The measure is a number, and bounded, in every state.
LEMMA StepsToGoBounded == TypeOK => StepsToGo \in 0 .. (2 * CounterMod + 4)
BY CounterAssumption, FailuresToGoBounded DEF StepsToGo

\* A failing test is one failure fewer to go, also where the count wraps.
LEMMA FailureBringsNearer ==
  ASSUME TypeOK, testNum' = testNum, errorTestCount' = Increment(errorTestCount),
         errorTestCount' < testNum
  PROVE  FailuresToGo' < FailuresToGo
<1>0. /\ errorTestCount \in 0 .. (CounterMod - 1) /\ testNum \in 0 .. (CounterMod - 1)
  BY DEF TypeOK
<1>1. CASE errorTestCount < testNum
  <2>1. errorTestCount' = errorTestCount + 1
    BY <1>0, <1>1, IncrementBelow
  <2> QED
    BY <1>0, <1>1, <2>1, CounterAssumption DEF FailuresToGo
<1>2. CASE ~(errorTestCount < testNum)
  <2>1. errorTestCount = CounterMod - 1
    <3> SUFFICES ASSUME errorTestCount # CounterMod - 1 PROVE FALSE
      OBVIOUS
    <3>1. errorTestCount < CounterMod - 1 /\ CounterMod - 1 \in 0 .. (CounterMod - 1)
      BY <1>0, CounterAssumption
    <3>2. errorTestCount' = errorTestCount + 1
      BY <1>0, <3>1, IncrementBelow
    <3> QED
      BY <1>0, <1>2, <3>2, CounterAssumption
  <2>2. errorTestCount' = 0
    BY <2>1, CounterAssumption DEF Increment
  <2>3. testNum > 0
    BY <1>0, <2>2, CounterAssumption
  <2>4. FailuresToGo = testNum + 1
    BY <1>2, <2>1, <2>3 DEF FailuresToGo
  <2>5. FailuresToGo' = testNum
    BY <1>0, <2>2, <2>3, CounterAssumption DEF FailuresToGo
  <2> QED
    BY <1>0, <2>4, <2>5, CounterAssumption
<1> QED
  BY <1>1, <1>2

\* Outside eventsHandler nothing the measure is made of changes.
LEMMA OthersKeepDistance ==
  ASSUME [Next]_vars, pc # "boot", ~EventsHandler
  PROVE  resetCount' = resetCount /\ StepsToGo' = StepsToGo
<1>1. UNCHANGED <<testNum, errorTestCount, resetCount, state, rebootState>>
  BY DEF Next, Daemon, SystemInit, LoopTop, GetArState, Wake, Tick, World, Terminate,
     ClockJump, UciChange, LinkChange, HostChange, RunTests, RunTestDisable, RunTestLink,
     LinkFileMissing, RunTestPing, RunTestSpeed, SpeedReplyNotText, Tested, config, port,
     reboot, vars
<1> QED
  BY <1>1 DEF StepsToGo, FailuresToGo

\* Every loop of a failing port, and every loop of a reboot but those that wait for the
\* timer, takes from the budget or from the bounded number of steps before that: the
\* measure by which FailingPortIsShutDown and RebootEnds hold.
THEOREM FailingPortNears == Spec => NearsShutdown
<1> DEFINE Spent == resetCount' = resetCount + 1 /\ resetCount' <= maxReset
           Nearer == resetCount' = resetCount /\ StepsToGo' < StepsToGo
           Waits == /\ rebootState = "POE_DOWN" /\ timeLeft' > 0
                    /\ resetCount' = resetCount /\ StepsToGo' = StepsToGo
           Step == pc # "boot" =>
                     IF pc = "events" /\ pc' # "events"
                     THEN state = "REBOOT" \/ (state = "REGULAR" /\ Failing) =>
                            \/ resetCount' = resetCount + 1 /\ resetCount' <= maxReset
                            \/ resetCount' = resetCount /\ StepsToGo' < StepsToGo
                            \/ /\ rebootState = "POE_DOWN" /\ timeLeft' > 0
                               /\ resetCount' = resetCount /\ StepsToGo' = StepsToGo
                     ELSE resetCount' = resetCount /\ StepsToGo' = StepsToGo
<1>0. (TypeOK => FailuresToGo \in 1 .. CounterMod)'
  BY FailuresToGoBounded, PTL
<1>1. ASSUME IInv, TypeOK', EventsHandler, state = "REBOOT" \/ (state = "REGULAR" /\ Failing)
      PROVE  Spent \/ Nearer \/ Waits
  <2>0. /\ FailuresToGo \in 1 .. CounterMod /\ FailuresToGo' \in 1 .. CounterMod
        /\ resetCount \in 0 .. (CounterMod - 1) /\ maxReset \in 0 .. (CounterMod - 1)
        /\ CounterMod \in Nat
    <3>1. FailuresToGo' \in 1 .. CounterMod
      BY <1>0, <1>1
    <3>2. FailuresToGo \in 1 .. CounterMod
      BY <1>1, FailuresToGoBounded DEF IInv
    <3>3. resetCount \in 0 .. (CounterMod - 1) /\ maxReset \in 0 .. (CounterMod - 1)
      BY <1>1 DEF IInv, TypeOK
    <3> QED
      BY <3>1, <3>2, <3>3, CounterAssumption
  <2> USE DEF Handling, port, config, StepsToGo
  <2>1. CASE TestFailed
    <3>0. /\ state = "REGULAR" /\ rebootState' = rebootState /\ resetCount' = resetCount
          /\ rebootState \in {"IDLE", "INIT"} /\ testNum' = testNum
          /\ errorTestCount' = Increment(errorTestCount)
      BY <1>1, <2>1 DEF TestFailed, IInv, Situations, reboot
    <3>1. CASE errorTestCount' < testNum /\ state' = state
      <4>1. FailuresToGo' < FailuresToGo
        BY <1>1, <3>0, <3>1, FailureBringsNearer DEF IInv
      <4> QED
        BY <2>0, <3>0, <3>1, <4>1
    <3>2. CASE state' = "REBOOT"
      BY <2>0, <3>0, <3>2
    <3> QED
      BY <2>1, <3>1, <3>2 DEF TestFailed
  <2>2. CASE RebootIdle
    <3>1. state = "REBOOT" /\ rebootState = "IDLE" /\ "AUTO_RESTART" \in event
      BY <1>1, <2>2 DEF RebootIdle, IInv, Situations
    <3>2. CASE BudgetSpent /\ ShutDown(errorCode \ {"OK"})
      <4>1. resetCount' = resetCount /\ state' = "IDLE"
        BY <3>2 DEF ShutDown
      <4> QED
        BY <3>1, <4>1
    <3>3. CASE ~BudgetSpent /\ CountReboot(errorCode \ {"OK"})
      <4>1. resetCount < maxReset
        BY <2>0, <3>3 DEF BudgetSpent
      <4>2. resetCount' = resetCount + 1
        BY <2>0, <3>3, <4>1, IncrementBelow DEF CountReboot, CountAttempt
      <4> QED
        BY <2>0, <4>1, <4>2
    <3> QED
      BY <2>2, <3>1, <3>2, <3>3 DEF RebootIdle, AutoResetHandler
  <2>3. CASE RebootInit
    BY <2>0, <2>3 DEF RebootInit
  <2>4. CASE RebootPoeDown
    <3>1. /\ UNCHANGED <<errorTestCount, resetCount, state, testNum>>
          /\ state = "REBOOT" /\ rebootState = "POE_DOWN"
          /\ rebootState' = "POE_UP" \/ (timeLeft' > 0 /\ rebootState' = "POE_DOWN")
      BY <2>4 DEF RebootPoeDown
    <3> QED
      BY <2>0, <3>1
  <2>5. CASE RebootPoeUp
    BY <2>0, <2>5 DEF RebootPoeUp
  <2>6. CASE HandleIdleState \/ TestOk \/ TestNeither
    BY <1>1, <2>6 DEF HandleIdleState, TestOk, TestNeither, Failing
  <2> QED
    BY <1>1, <2>1, <2>2, <2>3, <2>4, <2>5, <2>6 DEF EventsHandler
<1>2. IInv /\ TypeOK' /\ [Next]_vars => [Step]_vars
  <2> SUFFICES ASSUME IInv, TypeOK', [Next]_vars, pc # "boot" PROVE Step
    OBVIOUS
  <2>1. CASE EventsHandler
    <3>1. pc = "events" /\ pc' = "sleep"
      BY <2>1 DEF EventsHandler, Handling, HandleIdleState, TestOk, TestFailed, TestNeither,
         RebootIdle, RebootInit, RebootPoeDown, RebootPoeUp
    <3> QED
      BY <1>1, <2>1, <3>1
  <2>2. CASE ~EventsHandler
    <3>1. resetCount' = resetCount /\ StepsToGo' = StepsToGo
      BY <2>2, OthersKeepDistance
    <3>2. ~(pc = "events" /\ pc' # "events")
      BY <2>2 DEF Next, Daemon, SystemInit, LoopTop, GetArState, Wake, Tick, World,
         Terminate, ClockJump, UciChange, LinkChange, HostChange, RunTests, RunTestDisable,
         RunTestLink, LinkFileMissing, RunTestPing, RunTestSpeed, SpeedReplyNotText, vars
    <3> QED
      BY <3>1, <3>2
  <2> QED
    BY <2>1, <2>2
<1> QED
  BY <1>2, TypeCorrect, InvariantHolds, PTL DEF Spec, NearsShutdown

-----------------------------------------------------------------------------
\* Every step of the daemon is a step of the abstract lifecycle or leaves it
\* alone: the reboots are authorised, counted and completed as it says.
THEOREM Implementation == Spec => ImplementsLifecycle
<1> USE DEF Lifecycle!vars, Authorised, RebootsDone
<1>1. Init => Lifecycle!Init
  BY DEF Init, Lifecycle!Init
<1>2. IInv /\ IInv' /\ [Next]_vars => [Lifecycle!Next]_Lifecycle!vars
  <2> SUFFICES ASSUME IInv, IInv', [Next]_vars
               PROVE  Lifecycle!Next \/ UNCHANGED Lifecycle!vars
    OBVIOUS
  <2>1. CASE SystemInit
    <3>1. Lifecycle!Configure
      BY <2>1 DEF SystemInit, Lifecycle!Configure, IInv, Booting, port, reboot
    <3> QED
      BY <3>1 DEF Lifecycle!Next
  <2>2. CASE LoopTop \/ GetArState \/ Wake \/ Tick
    BY <2>2 DEF LoopTop, GetArState, Wake, Tick, port, reboot, config
  <2>3. CASE RunTests
    BY <2>3 DEF RunTests, RunTestDisable, RunTestLink, LinkFileMissing, RunTestPing,
                RunTestSpeed, SpeedReplyNotText, Tested, reboot, config
  <2>4. CASE HandleIdleState \/ TestOk \/ TestNeither \/ RebootInit
    BY <2>4
    DEF HandleIdleState, TestOkReceived, IInv, TypeOK, TestOk, TestNeither, RebootInit,
        Handling, port, reboot, config
  <2>5. CASE TestFailed
    <3>1. CASE state' = state
      BY <2>5, <3>1 DEF TestFailed, Handling, reboot, config
    <3>2. CASE state' = "REBOOT"
      <4>1. Lifecycle!Begin
        BY <2>5, <3>2 DEF TestFailed, Handling, Lifecycle!Begin, reboot, config
      <4> QED
        BY <4>1 DEF Lifecycle!Next
    <3> QED
      BY <2>5, <3>1, <3>2 DEF TestFailed
  <2>6. CASE RebootIdle
    <3>1. pc # "boot" /\ pc' # "boot" /\ state = "REBOOT" /\ rebootState = "IDLE"
      BY <2>6 DEF RebootIdle, Handling
    <3>2. CASE BudgetSpent /\ ShutDown(errorCode \ {"OK"})
      <4>1. resetCount = maxReset
        BY <3>2 DEF BudgetSpent, IInv, TypeOK, Situations
      <4>2. Lifecycle!GiveUp
        BY <2>6, <3>1, <3>2, <4>1 DEF RebootIdle, ShutDown, Lifecycle!GiveUp
      <4> QED
        BY <4>2 DEF Lifecycle!Next
    <3>3. CASE ~BudgetSpent /\ CountReboot(errorCode \ {"OK"})
      <4>1. resetCount < maxReset /\ resetCount' = resetCount + 1
        BY <3>3, IncrementBelow DEF BudgetSpent, CountReboot, CountAttempt, IInv, TypeOK
      <4>2. Lifecycle!Authorise
        BY <2>6, <3>1, <3>3, <4>1, CounterAssumption
        DEF RebootIdle, CountReboot, Lifecycle!Authorise, Lifecycle!CanPay, IInv, TypeOK
      <4> QED
        BY <4>2 DEF Lifecycle!Next
    <3> QED
      BY <2>6, <3>1, <3>2, <3>3 DEF RebootIdle, AutoResetHandler, IInv, Situations
  <2>7. CASE RebootPoeDown
    BY <2>7 DEF RebootPoeDown, Handling, port, config
  <2>8. CASE RebootPoeUp
    <3>1. Lifecycle!Complete
      BY <2>8, CounterAssumption
      DEF RebootPoeUp, Handling, Lifecycle!Complete, config, IInv, TypeOK
    <3> QED
      BY <3>1 DEF Lifecycle!Next
  <2>9. CASE World \/ UNCHANGED vars
    BY <2>9 DEF World, Terminate, ClockJump, UciChange, LinkChange, HostChange, port,
                reboot, config, vars
  <2> QED
    BY <2>1, <2>2, <2>3, <2>4, <2>5, <2>6, <2>7, <2>8, <2>9 DEF Next, Daemon, EventsHandler
<1> QED
  BY <1>1, <1>2, InvariantHolds, PTL DEF Spec, ImplementsLifecycle, Lifecycle!Spec

-----------------------------------------------------------------------------
\* What is proved of the lifecycle holds of every implementation of it: the same
\* instance, of the module with the proofs.
Abstract == INSTANCE RebootLifecycleProofs WITH
  Budgets    <- MaxResets,
  phase      <- IF pc = "boot" THEN "booting" ELSE state,
  budget     <- maxReset,
  used       <- resetCount,
  authorised <- Authorised,
  done       <- RebootsDone

\* The two instances of the lifecycle say the same.
LEMMA SameLifecycle == Lifecycle!Spec <=> Abstract!Spec
<1>1. Lifecycle!Init <=> Abstract!Init
  BY DEF Lifecycle!Init, Abstract!Init
<1>2. [Lifecycle!Next]_Lifecycle!vars <=> [Abstract!Next]_Abstract!vars
  BY DEF Lifecycle!Next, Abstract!Next, Lifecycle!vars, Abstract!vars,
         Lifecycle!Configure, Abstract!Configure, Lifecycle!Begin, Abstract!Begin,
         Lifecycle!Authorise, Abstract!Authorise, Lifecycle!CanPay, Abstract!CanPay,
         Lifecycle!Complete, Abstract!Complete, Lifecycle!GiveUp, Abstract!GiveUp
<1> QED
  BY <1>1, <1>2, PTL DEF Lifecycle!Spec, Abstract!Spec

\* The daemon power-cycles a port at most max_reset + 1 times, and exactly so often
\* before autoResetHandler shuts it down, for every max_reset the options can give.
THEOREM DaemonRebootsBounded == Spec => []RebootsBounded
<1>1. MaxResets \subseteq Nat
  BY CounterAssumption
<1>2. Abstract!Spec => []Abstract!RebootsBounded
  BY <1>1, Abstract!RebootsAreBounded
<1>3. RebootsBounded <=> Abstract!RebootsBounded
  BY DEF RebootsBounded, Lifecycle!RebootsBounded, Abstract!RebootsBounded
<1> QED
  BY <1>2, <1>3, SameLifecycle, Implementation, PTL DEF ImplementsLifecycle

=============================================================================
