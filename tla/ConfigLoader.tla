---------------------------- MODULE ConfigLoader ----------------------------
(***************************************************************************)
(* How the options of the daemon and the configuration of the port come    *)
(* about (config_loader.c, port_manager.c, init_module.c): system_init     *)
(* asks ubus for two sections, one after the other, and goes on whatever   *)
(* becomes of either.  The program autorestart_test loads options from     *)
(* strings instead, several times over.                                    *)
(***************************************************************************)
EXTENDS Integers, Sequences

CONSTANTS
  Numbers,       \* the numbers the texts in an answer may spell
  MaxLoads       \* bound: strings the test program loads

ASSUME NumbersAssumption == Numbers \subseteq Int
ASSUME LoadsAssumption == MaxLoads \in Nat

(* global_param_defs; min_val and max_val are never read by the code. *)
Default == [test_delay |-> 3, test_num |-> 10, max_reset |-> 3, main_time |-> 0]
MinVal == [test_delay |-> 1, test_num |-> 1, max_reset |-> 1, main_time |-> 0]
MaxVal == [test_delay |-> 60, test_num |-> 100, max_reset |-> 20, main_time |-> 0]

Options == DOMAIN Default

VARIABLES
  pc,         \* "init", "main", "ports", "ready"; "tests" in the test program
  options,    \* init_configOptions[].value
  port,       \* portConfigs[0], its testType and host
  reported,   \* whether the error history holds the failure of the load
  answers,    \* the answers and strings parsed so far
  section     \* the section of the port, as answered

vars == <<pc, options, port, reported, answers, section>>

(* What json_object_get finds under the name of an option, or that the    *)
(* whole answer is not a JSON object with "values": then it is Unreadable *)
(* (popen fails, ubus prints nothing, or more than 511 characters).       *)
Texts ==
  [kind : {"number"}, value : Numbers] \cup
  {[kind |-> "word", value |-> 0], [kind |-> "absent", value |-> 0]}

Unreadable == "unreadable"
Answers == [readable : {TRUE}, text : [Options -> Texts]]
Failure == [readable |-> FALSE, text |-> [o \in Options |-> [kind |-> "absent", value |-> 0]]]

Sections ==
  [mode : {"ping", "link", "speed", "other"}, host : {"given", "none"}] \cup
  {[mode |-> Unreadable, host |-> "none"]}

\* A text is assigned, as an int, to a uint8_t; strtol makes 0 of a word.
Stored_Clamped(text) == IF text.value > 255 THEN 255 ELSE text.value
Stored(text) == text.value % 256

\* memset of portConfigs and the zero values of init_configOptions.
ZeroPort == [testType |-> "DISABLE", host |-> "none"]
ZeroOptions == [o \in Options |-> 0]

Init ==
  /\ pc \in {"init", "tests"}
  /\ options = ZeroOptions
  /\ port = ZeroPort
  /\ reported = FALSE
  /\ answers = <<>>
  /\ section = [mode |-> Unreadable, host |-> "none"]

-----------------------------------------------------------------------------
(* error_handler_init and port_manager_init. *)
SystemInit ==
  /\ pc = "init"
  /\ pc' = "main"
  /\ port' = ZeroPort
  /\ reported' = FALSE
  /\ UNCHANGED <<options, answers, section>>

\* An option the answer has no text for gets its default.
FromMain_OldKept(text, o) == IF text.kind = "absent" THEN options[o] ELSE Stored(text)
FromMain(text, o) == IF text.kind = "absent" THEN Default[o] ELSE Stored(text)

config_load_main(answer) ==
  /\ options' = IF answer.readable
                THEN [o \in Options |-> FromMain(answer.text[o], o)] ELSE options
  /\ answers' = Append(answers, answer)

\* system_init registers an error when config_load_main does not return 0.
Reports(answer) == ~answer.readable

LoadMain ==
  /\ pc = "main"
  /\ pc' = "ports"
  /\ \E answer \in Answers \cup {Failure} :
       config_load_main(answer) /\ reported' = Reports(answer)
  /\ UNCHANGED <<port, section>>

TestTypeOf_Swapped(mode) ==
  CASE mode = "ping" -> "PING" [] mode = "link" -> "SPEED" [] mode = "speed" -> "LINK"
    [] OTHER -> "DISABLE"
TestTypeOf(mode) ==
  CASE mode = "ping" -> "PING" [] mode = "link" -> "LINK" [] mode = "speed" -> "SPEED"
    [] OTHER -> "DISABLE"

(* port_manager_load_config: an unreadable section leaves the port as it *)
(* is; any other replaces all of its configuration.                      *)
LoadPort ==
  /\ pc = "ports"
  /\ pc' = "ready"
  /\ section' \in Sections
  /\ port' = IF section'.mode = Unreadable THEN port
             ELSE [testType |-> TestTypeOf(section'.mode), host |-> section'.host]
  /\ UNCHANGED <<options, reported, answers>>

-----------------------------------------------------------------------------
\* parse_config_from_json goes over all options but the last, and keeps those
\* the string has no text for.
Parsed_Default(text, o) == IF text.kind = "absent" THEN Default[o] ELSE Stored(text)
Parsed(text, o) ==
  IF text.kind = "absent" \/ o = "main_time" THEN options[o] ELSE Stored(text)

load_config_from_string ==
  /\ pc = "tests"
  /\ Len(answers) < MaxLoads
  /\ \E answer \in Answers \cup {Failure} :
       /\ options' = IF answer.readable
                     THEN [o \in Options |-> Parsed(answer.text[o], o)] ELSE options
       /\ answers' = Append(answers, answer)
  /\ UNCHANGED <<pc, port, reported, section>>

Next == SystemInit \/ LoadMain \/ LoadPort \/ load_config_from_string

Spec == Init /\ [][Next]_vars

-----------------------------------------------------------------------------
Loaded == pc \in {"ports", "ready"} /\ answers[1].readable

InTable(o, n) == n \in MinVal[o] .. MaxVal[o]

\* The options fit the uint8_t they are kept in, and the port has a test mode
\* that runTestHandler knows.
TypeOK ==
  /\ pc \in {"init", "main", "ports", "ready", "tests"}
  /\ options \in [Options -> 0 .. 255]
  /\ port \in [testType : {"DISABLE", "LINK", "PING", "SPEED"}, host : {"given", "none"}]
  /\ reported \in BOOLEAN
  /\ answers \in Seq(Answers \cup {Failure})
  /\ section \in Sections

\* The daemon never runs on an option outside the table unless the answer
\* spells it, or an error in the history says why: what is absent, and what is
\* in the table, comes out in the table.
OddOptionIsExplained ==
  pc = "ready" /\ ~reported =>
    \A o \in Options :
      \/ InTable(o, options[o])
      \/ \E answer \in {answers[1]} :
           answer.text[o].kind # "absent" /\ ~InTable(o, answer.text[o].value)

\* The port is tested in the mode its section names and in no other, whatever
\* became of the section of the options that is read before it: with the section's
\* host, and not at all while there is no section, it cannot be read, or it names
\* no mode.  So a daemon that runs on zeros for want of options still tests.
ModesNamed == {<<"ping", "PING">>, <<"link", "LINK">>, <<"speed", "SPEED">>}

TestedAsConfigured ==
  /\ pc # "ready" \/ section.mode = Unreadable => port = ZeroPort
  /\ pc = "ready" /\ section.mode # Unreadable =>
       /\ port.host = section.host
       /\ \/ <<section.mode, port.testType>> \in ModesNamed
          \/ section.mode = "other" /\ port.testType = "DISABLE"

\* The last string with a text for an option, if any, decides its value.
Given(o) == {n \in 1 .. Len(answers) : answers[n].text[o].kind # "absent"}
LastGivenDecides ==
  pc = "tests" =>
    \A o \in Options \ {"main_time"} :
      IF Given(o) = {} THEN options[o] = 0
      ELSE \E n \in Given(o) :
             /\ \A m \in Given(o) : m <= n
             /\ options[o] = Stored(answers[n].text[o])

\* What an int may be spelled as, by the time it is in a uint8_t.
StoredNumbers == {n % 256 : n \in Numbers}

\* The values test_num and max_reset may have when the daemon starts to loop.
LoadedTestNums == {0, Default.test_num} \cup StoredNumbers
LoadedMaxResets == {0, Default.max_reset} \cup StoredNumbers

\* To the main loop, the load of the two sections is one step, after which it
\* runs on exactly the values PortMonitor takes for granted: an option is 0, its
\* default or a number of the answer, cut to 8 bits, whatever combination of the
\* two sections could be read; and no mode is known before both were tried.
Running == pc = "ready"

Daemon == INSTANCE PortMonitor WITH
  TestTypes      <- {"DISABLE", "LINK", "PING", "SPEED"},
  TestNums       <- LoadedTestNums,
  MaxResets      <- LoadedMaxResets,
  CounterMod     <- 256,
  RebootDelay    <- 7,
  Layouts        <- {"unopt"},
  MaxJumps       <- 0,
  JumpSize       <- 0,
  pc             <- IF Running THEN "loop" ELSE "boot",
  keepRunning    <- TRUE,
  testType       <- IF Running THEN port.testType ELSE "DISABLE",
  testNum        <- IF Running THEN options.test_num ELSE 0,
  maxReset       <- IF Running THEN options.max_reset ELSE 0,
  errorCode      <- {"OK"},
  errorTestCount <- 0,
  resetCount     <- 0,
  event          <- {},
  state          <- "REGULAR",
  rebootState    <- "INIT",
  rebootEvent    <- {"START"},
  rebootDelay    <- 7,
  timeLeft       <- -1,
  jumps          <- 0,
  layout         <- "unopt",
  uci            <- "enabled",
  link           <- "up",
  host           <- TRUE

ImplementsSystemInit == Daemon!Spec

-----------------------------------------------------------------------------
(* What the repository says of the program, and the program does not do. *)

\* A text that is no number in the table's range gets the default, as the test
\* of invalid values says of load_config_from_string.
InvalidGetsDefault ==
  \A o \in Options :
    LET given == Given(o) IN
    pc = "tests" /\ given = {1} /\ ~(/\ answers[1].text[o].kind = "number"
                                    /\ InTable(o, answers[1].text[o].value)) =>
      options[o] = Default[o]

=============================================================================
