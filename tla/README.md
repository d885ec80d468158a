# tf_autorestart: specification, model checking and proofs

`tf_autorestartd` watches the PoE port of a device. Once per `test_delay` seconds it reads
the administrative state of the port, tests it (link, ping or receive rate), counts the
failures, and cuts the power of a port that failed `test_num` times, at most `max_reset`
times. `tf_autorestart_ctrl` asks the daemon for its status, or to reboot a port, over a Unix
socket. This directory holds TLA+ modules of both programs, the TLC runs that check them on
small instances, and TLAPS proofs of what matters most. Paths below are relative to `src/`
of the sources.

## Inventory

| Part | Files | State | Operations | Hard because |
|---|---|---|---|---|
| Main loop, signals | `autorestartd/ar_maind.c`, `ar_mainApp.c` | `keepRunning` | `runTestHandler`, `graceful_shutdown_handler`, `critical_signal_handler` | a signal comes at any step; the loop looks at the flag once per round |
| Port tests | `autorestartd/port_manager.c` | `portConfigs`, `portState`, `portResetInfo` | `port_manager_init`, `_load_config`, `_get_ar_state`, `port_run_test_*` | each test reads the world at another moment; skipped tests leave old flags; a write to element -1 |
| Reboot machine | `autorestartd/events_module.c`, handlers in `port_manager.c` | `state`, `event`, `errorTestCount`, `resetCount`; `rebootState`, `rebootEvent`, `rebootDelay`, `rebootTimeStart` | `eventsHandler`, `handleIdleState`, `rebootHandler`, `test_ErrorHandler`, `autoResetHandler` | counters that wrap, a budget, a timer on the wall clock, an uncounted first reboot |
| Options | `autorestartd/init_module.c`, `init_module/config_loader.c` | `init_configOptions` | `system_init`, `config_load_main`, `load_config_from_string` | either of two sections may be unreadable; 8-bit values |
| Ping | `autorestartd/ar_ping.c` | one socket per call | `ping_host` | loss, delay, duplicates, packets of others (the sender is never compared), signals, a timeout |
| Error history | `autorestartd/init_module/error_handler.c` | `error_history`, `error_index` | `error_register`, `error_get_last` | the ends of a ring buffer |
| Control program | `autorestart_ctrl/*` | `flag_isRunning`, `resetPort`, for one call | `main`, `isRunning`, `ctrl_mainHandler`, `comHandler`, `printBufferJson` | the daemon may be absent, die or not answer at any step; 8-bit truncation; errors that are returned and not shown |
| Server side | `autorestartd/client_module.c`, `lib/socket_lib` | the socket and its path, the connections | `socket_asyncServer`, `accept_socket`, `clientHandler` | `SIGPIPE`, a full queue, a path left by a crash that may not go away, descriptors that run out; one that is never stored |
| Other libraries | `lib/thread_lib`, `lib/utils_lib`, `command_executor.c` | threads, timers | | not called by what runs |

The parts meet in one thread. `main` calls `system_init`, which fills the options and the
port's configuration, and `ar_mainApp`, which never returns before `keepRunning` is cleared.
Each round calls `port_manager_get_ar_state` (a `ubus` call), the tests (which write flags
into `portResetInfo[0].errorCode`), `eventsHandler` (which copies the records, runs the
handler of the port's state and copies them back) and `sleep`. Errors go to the error
history. The other two threads the code once had, and with them the loop of the socket server
and `MANUAL_RESTART`, are in commented-out code. So are the two calls that switch the power
(`events_module.c:120` and `:141`): the machine goes through its states, and nothing in the
present code acts on them.

## Modules

| Module | Models | Kind |
|---|---|---|
| `PortMonitor` | the daemon: loop, tests, reboot machine, signals | detailed specification |
| `RebootLifecycle` | what the reboot logic promises about one port | abstract specification |
| `Ping` | `ping_host` against a network and a host | detailed specification |
| `ConfigLoader`, `MCConfigLoader` | start of the daemon, loading of strings in the tests | detailed specification, instance |
| `ErrorHistory` | the ring buffer of errors, beside an unbounded log | detailed specification |
| `ControlLink`, `MCControlLink` | calls of the control program, the socket, the daemon's end of it | detailed specification, instance |
| `ParsingCommand` | arguments of a call, texts of an answer | operators, used by `ControlLink` |
| `CommandOnce` | what becomes of one command, whatever dies | abstract specification |
| `PortMonitorProofs`, `RebootLifecycleProofs`, `ErrorHistoryProofs`, `PingProofs`, `ConfigLoaderProofs`, `ControlLinkProofs`, `CommandOnceProofs` | theorems | proofs |

`PortMonitor` instantiates `RebootLifecycle`, and `ControlLink` instantiates `CommandOnce`,
each under a refinement mapping. `ConfigLoader` instantiates `PortMonitor`, whose step
`SystemInit` it takes apart: with the values a load can store for its constants, start-up
implements the beginning of the daemon (`ImplementsSystemInit`). So the configurations
`PortMonitor` starts with are those that come of a load, and of every load they fulfil its
assumptions (`CounterAssumption`, `TestTypeAssumption`; theorem `LoadedValuesFit`).
`Ping` justifies the variable `host` of `PortMonitor`: a verdict that differs from what the
host would say comes of a disturbance or of another host's reply, which `PortMonitor` shows as
a change of `host`.

A definition with a suffix after an underscore (`Decay_NoFloor`) is a slip one could make in
the code of the definition it is named after. No specification uses it; put in its place, it
makes TLC report the property that `PROJECT.json` names beside it.

### PortMonitor

The thread is cut where it reads something another party writes. `pc` names the step it does
next: `boot` (`SystemInit`), `loop` (`LoopTop`), `state` (`GetArState`), `disable`, `link`,
`ping`, `speed` (the tests), `events` (one action per case of `eventsHandler`), `sleep`
(`Wake`). `host` is what the second test finds of the outside: in ping mode whether `ping_host`
returns `PING_OK`, in speed mode whether `ubus` counts bytes and their rate is in range. The
handlers run on a local copy that is written back whole, so each is one action.
Flag words (`errorCode`, `event`, `rebootEvent`) are sets of the flags the reachable code
sets. The counters are `uint8_t`: `Increment` is modulo `CounterMod`. The other parties are
actions that may come between any two steps: `Terminate`, `Tick`, `ClockJump`, `UciChange`,
`LinkChange`, `HostChange`.

*The write to element -1.* `port_manager_get_ar_state(0)` writes `portState[-1]` and
`portResetInfo[-1]`, which C leaves undefined. What lies there was looked up in builds of the
file by gcc: without optimisation the flag `ERR_PORT_DISABLE` falls on the bit `START` of
`portRebootInfo[0].rebootEvent`; with `-O1`, `-O2` or `-Os` the port state falls on
`portRebootInfo[0].rebootDelay`. `layout`, chosen once, says which, and `SlotBelow` is the
effect. Other writes hit padding or bits that nothing reads. The linker of another toolchain
may place the globals in a third way.

*Time.* `timeLeft` is `rebootTimeStart - time(NULL)`, at least 0, since all the code asks is
whether it is positive. `Tick` is a second; `ClockJump` a setting of the clock.

*Data left out.* Alarm times, texts and the totals nothing decides on; of the speeds, only
whether they are in range. `port_run_test_speed` overwrites `time_prev` before it subtracts it,
so `delta_time` is always 0 (`DeltaTime`), the comparison with `min_speed` and `max_speed` is
never reached, and `SpeedFlags` fails a port whatever `host` is. That is a defect, and the run
`speed_never_good` shows it.

### Ping

One call at a time: `idle`, `open` (socket made, nothing sent), `waiting` (in `recvfrom`).
The socket queues at most `MaxQueue` packets; what arrives between two calls is dropped, as
the socket is closed. All requests carry the same identifier and sequence number, so packets
of the present call (`own`) and of earlier calls (`old`) are alike for `Valid`; the model
distinguishes them to say what the code cannot. Nor does `ping_host` compare the sender of a
packet with the host it asked: another host's echo reply with the same identifier and sequence
number (`alike`) is accepted too, and may come at any moment. All earlier calls are one class,
which keeps the model finite over calls without end; a reply may be delivered more than once.
`answered`, `disturbed` and `confused` are no state of the code. They record whether the host
ever answered, and whether the present call met anything else: a loss, a stray packet or a
change of the host, and a reply of another host.

### ConfigLoader

An answer gives each option a number, a word (which `strtol` makes 0), or nothing; or it is
unreadable as a whole. `Stored` is the assignment to the `uint8_t`. Texts that are cut at 15
characters are not modelled. The program is either the daemon (`init`, `main`, `ports`,
`ready`) or the test program (`tests`), which loads strings one after another.

### ControlLink

Each call of the control program is a process: `pc[c]` is the step it does next, `main`,
`isRunning`, `parse` (`ctrl_mainHandler` up to `comHandler`), `socket`, `connect`, `send`,
`result`, `print`. It is cut at every system call, since the daemon and the other calls may
run there. `Interrupt` is the user's; a call that writes to a peer that is gone, or reads from
a pipe that `popen` did not open, is killed. `flags` is `flag_isRunning`, `errorCode` what
`ctrl_mainHandler` returns; both make up the exit status, and only the first is printed. C
does not say whether the left operand of `flag_isRunning |= ctrl_mainHandler(...)` is read
before or after the call that changes it; `ExitStatus` follows gcc, which reads it after.

*The daemon.* `idle` is the daemon of this commit: it runs, and `runComHandler`, which would
serve the socket, is never called. In `bind`, `listen`, `accepting` and `reading` the daemon
serves with the functions the sources do have (`socket_asyncServer`, `accept_socket`,
`clientHandler`). **Their caller is external and assumed**: nothing in the sources calls
`clientHandler`, and the comments of `runComHandler` only accept and log. The assumed caller
accepts a connection, hands it to `clientHandler` once, and accepts the next, for ever and
whatever the two returned (`AfterMessage`, `Retry`). Everything said about who waits for whom
is said of the library under that caller. The handlers of the two commands are empty; what they
would answer is any of a few flag words, or nothing.

*Failures on the server's side.* `bind_socket` does not look whether `unlink` removed the path;
where it did not, `bind` fails. `bind` and `listen` may fail in any case, and then the whole
daemon exits with the path left as it is. `accept` may fail for a signal or for want of a
descriptor (`AcceptFails`): no connection is ever closed by the functions modelled, so that
descriptors do run out. How many there are is not counted; `accept` may fail at any call, and
the caller tries again.

*The descriptor.* `create_socket` opens a socket and does not store its number, so `connect`
and `bind` are given what the caller's variable held. In builds by gcc that was 0 or leftovers
of the stack, never the new number, and `connect` failed. C leaves the value open; the model
lets it be the right one, which shows what the rest of the code does, or another, with which
`connect` and `bind` fail.

*The kernel.* Connections queue up to one more than the backlog of `listen`, and `connect`
waits beyond that; the end of a process closes its sockets, what was written before can still
be read, and the path stays. A message is written and read whole: it is 5 or 52 bytes on a
stream socket, which the kernel does not cut.

*Data left out.* Numbers, times and texts of an answer but for its flag word.
`getProcessList.lua` is not part of the sources; it may say anything.

### CommandOnce

For each call an outcome, and how often its command was performed. `ControlLink` implements it
with `performed` mapped to the number of messages dispatched for a call, and `outcome` to how
the call ended: by a signal, without an answer, or with one.

### ErrorHistory

The buffer, its index, and a log of everything registered to compare it with.

### RebootLifecycle

Budget, reboots paid for, reboots done. `PortMonitor` implements it with `used` mapped to
`resetCount`, `authorised` to `rebootState # REBOOT_STATE_IDLE`, and `done` to the resets
counted, plus one when none is under way: the first reboot is authorised by
`port_manager_init` and never paid for.

## Runs

| Run | Question | Bounds |
|---|---|---|
| `monitor_safety` | seven invariants, among them the bound on reboots that the lifecycle promises (`RebootsBounded`); what steps may not do to a shut-down port (`ShutdownIsFinal`), to the failures counted (`FailuresForgiven`) and to a failing port (`NearsShutdown`); refinement of the lifecycle | all modes, `test_num` 0, 2, 3, `max_reset` 0, 2, counters modulo 4, delay 2, one setting of the clock; about 2.2 million states |
| `monitor_liveness` | the four liveness properties | three modes, `test_num` 3, `max_reset` 1, counters modulo 4; about 420 000 states |
| `ping` | what a verdict means; calls return; a dead host is noticed, and looks alive no more | timeout 2, queue of 2, calls without end; packets of the host, of an earlier call, of another host, stray; about 20 000 states |
| `config` | options and their defaults, the mode the port is tested in, the order of strings; what the daemon starts with | numbers below, in and above the table; two strings; about 400 000 states |
| `error_history` | the ring buffer | 3 slots, 8 errors: two full turns |
| `control_link` | what a call reports; what is performed; who waits for whom | two calls, eight command lines, three flag words, `MAX_CLIENTS` 0; about 457 000 states |

Counters modulo 4 make the wrap-around of `uint8_t` happen within a few failures; `test_num` 3
is then the largest value, at which a count wraps before it exceeds the threshold, as 255 is
in the code. `max_reset` 2 has a first uncounted, a counted and a last reboot; 0 has none to
spend. A delay of 2 is long enough for the timer to be found running and restarted. The
theorems hold for every value.

With `MAX_CLIENTS` 0 the kernel lets one connection wait, so that the second of two calls finds
the queue full and `connect` blocks; with the 10 of the code that takes twelve calls. The eight
command lines are those the code tells apart: none, an unknown word, the empty one, `status`,
and `reboot` without a number, with a good one, with 9, and with 257, which 8 bits make 1.
A daemon may die and be started again any number of times. `RebootLifecycle` has no run of its
own: `monitor_safety` checks the refinement and its bound.

Six runs show disagreements between the code and what the repository says of it; each is
described under `findings` in `PROJECT.json`:

* `slot_minus_one`: reading the state of the port disturbs the record of its own reboot;
* `speed_never_good`: a port whose traffic is in range fails the speed test, since no time ever
  passes between two samples;
* `one_reboot_too_many`: a port is rebooted `max_reset + 1` times;
* `ping_waits_seconds`: a timeout in milliseconds is used as seconds, and blocks the thread;
* `ping_foreign_reply`: the sequence number cannot tell the reply to an earlier call;
* `config_invalid`: values out of range are stored, and words become 0, where a test of the
  repository expects the default.

### What holds, and what that means

* The failure count reaches the threshold only together with a restart (`ThresholdHonoured`),
  apart from the count that the first reboot forgets to clear.
* Shut down, `IDLE_STATE`, `ERR_PORT_SHUTDOWN` and a spent budget are the same situation in
  every reachable state (`ShutdownAccounted`), and no step leaves it (`ShutdownIsFinal`): the
  event `TEST_OK`, which would, is never sent. A port that was shut down needs a restart of
  the daemon.
* `RebootEnds` holds for an optimised build, or if the port stays enabled in the end. In an
  unoptimised build a port that is disabled while its power is down never comes up again; the
  property says so in its premise.
* A failing port and a reboot do not stand still: every round takes from the budget, or from a
  number of steps that is bounded, or waits for the timer (`NearsShutdown`). That includes what
  a port in `REBOOT_STATE` waits for: the event it needs is pending in every state
  (`NoStuckReboot`).
* The count of failures is not forgotten behind the daemon's back: it falls by one at a good
  test, to 0 at a counted reboot, and to 0 by the wrap of the `uint8_t`, which happens during
  the uncounted first reboot and nowhere else (`FailuresForgiven`).
* No port is rebooted more than `max_reset + 1` times, and every port that is shut down was
  rebooted just so often (`RebootsBounded`).
* `FailingPortIsShutDown` is stated of a port whose link is down, whose host is silent or whose
  traffic is out of range. That a port in speed mode is shut down with the best of traffic too
  is not a promise but the defect that `speed_never_good` shows; `HealthyPortSettles` therefore
  leaves speed mode out.
* Nothing resets `resetCount`: a port may fail `max_reset + 1` times in years and is then
  shut down.
* A ping verdict of good means that the host ever answered, or that another host's reply with
  the same identifier and sequence number came during this call (`OkMeansAnswered`); what other
  hosts sent earlier, or send otherwise, does not pass. It may be wrong for some time after the host
  is gone, not for ever, as long as such replies of other hosts do not keep coming
  (`DeadHostNoticed`); once none is left on its way or in the socket, it stays bad until the
  host is back or one more arrives (`SilentHostFails`).
* The port is tested in the mode its section names, and in no other, also when the section of
  the options could not be read (`TestedAsConfigured`); in that case the daemon tests it with
  zeros for options.
* A call that prints "ok" alone was answered (`OkIsAnswered`), with three exceptions the
  property names: an empty command, and a `reboot` whose number is missing or wrong, whose
  errors `ctrl_mainHandler` returns and does not print. A *status* of "ok" is printed only of
  what a daemon said that dispatched this call's command. The exit status does tell the last
  two exceptions (`ExitTellsFailure`); a compiler that reads `flag_isRunning` before the call
  would break that, as the mutant `ExitStatus_ReadFirst` does.
* `reboot 257` is carried out for port 1 (`RebootAsTyped` allows multiples of 256, and no more).
* A command is performed at most once, also when the daemon dies between reading and answering
  it; then the call reports a socket error although the port was rebooted. Once a call has
  reported that, its command is not performed any more; the command of a call that was
  interrupted still may be (`ImplementsCommandOnce`).
* A daemon that reads and does not answer, as the empty handlers of this commit, keeps a call
  waiting as long as it lives, and no longer (`DeathReleases`). Under the assumed caller it keeps
  no other call waiting, provided that `accept` fails no longer from some time on
  (`RequestGetsThrough`), and drops none: a call that waits is in the queue, being read, or
  dispatched (`NobodyForgotten`). A daemon that has run out of descriptors keeps the premise
  from holding, and its queue from moving, until it dies.
* A path left by a daemon that was killed may stand in the way of the next, which then exits at
  `bind`. Calls meanwhile find nobody behind the path, and say so (`OkIsAnswered`,
  `ExitTellsFailure`).

### Fairness

`PortMonitor!FairSpec` has weak fairness of `Daemon` (the thread is scheduled and the calls it
makes return; `Ping!CallReturns` is that fact for the one call that can wait long, and a `ubus`
call that hangs is outside it) and of `Tick` (time passes). No fairness is assumed of signals,
cable, host, clock or `uci`. `Ping!FairSpec` adds that a reply on its way is delivered or lost
in the end; the time to live of the packet sees to it. `ControlLink!FairSpec` has weak fairness
of each call, and of `Server`, the daemon's functions with their assumed caller (`Retry`
included); both are processes the kernel schedules. Nothing says that a daemon is started, that
it dies, that `accept` fails, or that a user interrupts a call; the answer is not fair either,
since the code need not send one.

Deadlock is not checked: `stopped` and `crashed` are ends of the program, and the models of
start-up, of the bounded history and of the calls end by themselves.

## Proofs

All seven proof modules are checked by `tlapm` to the last leaf. They assume the named
`ASSUME`s of the modules, which TLC evaluates in the runs: counters have at least one value
and limits fit them, the modes are the four the code knows, the delay is positive, command
lines and flag words are of the kinds the code knows.

`PortMonitorProofs`. `TypeCorrect` is inductive as it is. The other invariants are not: that a
shut-down port has spent its budget, for example, needs to know that a counted reboot was
authorised by `autoResetHandler`, which needs to know what `AUTO_RESTART` and `ERR_REBOOTING`
mean in each state. `IInv` strengthens them by

* `Situations`: which combinations of `state`, `rebootState`, `AUTO_RESTART`, `ERR_REBOOTING`
  and `resetCount` occur,
* `FailuresCounted`: how the failure count relates to `test_num` in each of them,
* `FlagsFollow`: which flags of `errorCode` go with which state,
* `NothingTested`: that a port without a test mode has no failure flag, no count and no reboot,
* `Booting`: that nothing happened before the configuration is there.

`InvariantHolds` proves it action by action; the safety properties of the run follow, and so do
the action properties and `Implementation` (initial states map to initial states; each action
maps to a step of the lifecycle or a stutter).

`FailingPortNears` is the argument by which `FailingPortIsShutDown` and `RebootEnds` hold, as far
as it is not about fairness. Its measure is the pair of the budget left and `StepsToGo`, which
counts the failures to come (`FailuresToGo`, also across a wrap of the count), then the stages
of a reboot; `StepsToGoBounded` bounds it for every `test_num`. One call of `eventsHandler`
for a failing port lowers it (`FailureBringsNearer`), but in the rounds in which the timer
runs, and no other step touches it (`OthersKeepDistance`). What is left to TLC is that the
rounds go on and the timer runs out.

`RebootLifecycleProofs` proves the bound on reboots from `Account`, an equation between
reboots paid, authorised and done, for budgets that are natural numbers; that is a hypothesis
of its theorem, as the abstract module assumes nothing. `PortMonitorProofs` instantiates it
under the refinement mapping, and with `Implementation` and `CounterAssumption`, which gives
the hypothesis, concludes the bound for the daemon (`DaemonRebootsBounded`).

`ErrorHistoryProofs` proves the ring buffer for every size. `IndexCounts` ties the index to
the number of errors; that two errors less than a buffer apart never share a slot
(`SlotsDistinct`) is proved from division with remainder.

`PingProofs` strengthens the two verdict properties by what the packets on their way and in the
socket say: a reply of the host, to whatever call, means that it answered, one of another host
in the socket that this call is confused, a stray packet there that it is disturbed; and between
two calls no packet is kept.
`SilentIsDown` is the safety half of `DeadHostNoticed`: a socket that only packets join which
`validate_reply` rejects holds nothing to accept (`OnlyStraysQueued`), and a call with no reply
in it, of whichever host, cannot return `PING_OK`.

`ConfigLoaderProofs` ties options, port and report to the answers read so far (`Started`,
`PortAsRead`), and so proves that of any number of strings the last decides. `Implementation`
maps the start-up to the `SystemInit` of `PortMonitor`; it rests on `StoredIsSpelled`, that what
is stored is a spelled number modulo 256 or 0. `LoadedValuesFit` concludes that every start of
the daemon ends with values `PortMonitor` is instantiated with, and that those fulfil what its
theorems assume. `PortTestedAsConfigured` ties the mode of the port to the mode its section
names. `TableIsHonoured` says that within the table the 8-bit assignment changes nothing.

`ControlLinkProofs` proves every invariant of its run and the refinement, for any number of
calls, any backlog and any answers. None is inductive. `IInv` has, for each call, `Progress`
(flags, return value and connection by the step it has reached), `Printed`, `Requested` and
`Handled` (what was written and dispatched is what was typed) and `Exchange` (a call writes
once; a message is dispatched before it is answered; a message that is unread when its call has
ended lies in a connection that is reset); and `Queue`, by which every call is in the queue at
most once and the connection being read is open. The refinement needs all of `Exchange`: without
it, a message of a call that reported an error could still be waiting to be performed.

`NobodyIsForgotten` needs one invariant more, `Attended`, because it is about the daemon and not
about the call: a connection that is queued is in the queue of a daemon that listens, and one
that is open is the one being read, or its message was dispatched, or its call has ended.
`NoCallRetries` gives each call a rank, which every step of its own raises, so that no call goes
round in circles; `RequestGetsThrough` and `DeathReleases` need that besides fairness.

`CommandOnceProofs` proves of the abstract specification what it is stated for: a command is
performed at most once (`PerformedAtMostOnce`), and a report is never made wrong by a later step
(`ReportsAreFinal`). As with the lifecycle, `ControlLinkProofs` instantiates it and concludes
both for the two programs (`DispatchedAtMostOnce`, `ReportsStayTrue`).

Only model-checked: all liveness (`RebootEnds`, `FailingPortIsShutDown`, `HealthyPortSettles`,
`TerminationObeyed`, `CallReturns`, `DeadHostNoticed`, `RequestGetsThrough`, `DeathReleases`),
which is out of reach of the prover; the measures and safety halves named above are proved.
That a bounded measure which only falls makes an end come is an induction over the behaviour and
stays with TLC too. Every invariant and action property of the passing runs
is proved.

## Not modelled

* `runComHandler` and `runEventsHandler` of the daemon, `manualResetHandler`, the
  `MANUAL_RESTART` branches, `port_manager_auto_reset`, `parse_time_string`,
  `execute_ubus_command`, `select_socket`, `send_msg`: no code that runs reaches them. The
  bodies of `cmd_sendStatus` and `cmd_rebootHandler` are comments, so a reboot that a user asks
  for ends, in the sources as in `ControlLink`, at being dispatched.
* `alarmHandler`: it acts only on alarms whose `status` is set, and nothing sets it.
* `init_module/port_manager.c`: an earlier copy of `port_manager.c`.
* The thread library, and the timers and texts of the utility library: nothing calls them but
  commented-out code.
* Several ports: `NUM_PORTS` is 1, and the arrays with one element are modelled as that element
  and what lies before it.
* Memory: the JSON tree leaked by every reading of the state, and the bytes of an answer that
  its sender does not send, are noted as hazards.

## Plan

1. Done: `PortMonitor`, `RebootLifecycle`, `ErrorHistory`, `Ping`, `ConfigLoader`, `ControlLink`,
   `CommandOnce`, with proofs of all their safety properties.
2. A composition of `Ping` and the loop of the daemon in place of the variable `host`.
3. Should the serving thread be enabled again: its loop in place of the external one, and
   `manualResetHandler` with `MANUAL_RESTART` in `PortMonitor`, as two threads on one record.
