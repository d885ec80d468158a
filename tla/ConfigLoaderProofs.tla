------------------------- MODULE ConfigLoaderProofs -------------------------
(***************************************************************************)
(* What the daemon runs on after it loaded its sections, and the test      *)
(* program after any number of strings, proved for answers that may spell  *)
(* any integers.                                                           *)
(***************************************************************************)
EXTENDS ConfigLoader, SequenceTheorems, TLAPS

\* An option is stored in 8 bits.
LEMMA StoredInByte ==
  ASSUME NEW text \in Texts
  PROVE  Stored(text) \in 0 .. 255
<1>1. CASE text \in [kind : {"number"}, value : Numbers]
  <2>1. text.value \in Int
    BY <1>1, NumbersAssumption
  <2> QED
    BY <2>1 DEF Stored
<1>2. CASE text \in {[kind |-> "word", value |-> 0], [kind |-> "absent", value |-> 0]}
  <2>1. text.value = 0
    BY <1>2
  <2> QED
    BY <2>1 DEF Stored
<1> QED
  BY <1>1, <1>2 DEF Texts

\* The defaults are in the table.
LEMMA DefaultsInTable ==
  ASSUME NEW o \in Options
  PROVE  InTable(o, Default[o]) /\ Default[o] \in 0 .. 255
BY DEF InTable, Default, MinVal, MaxVal, Options

\* A number in the table fits 8 bits, and is stored as it is.
LEMMA TableFitsByte ==
  ASSUME NEW o \in Options, NEW text \in Texts, InTable(o, text.value)
  PROVE  Stored(text) = text.value
<1>1. text.value \in 0 .. 255
  BY DEF InTable, Default, MinVal, MaxVal, Options
<1> QED
  BY <1>1 DEF Stored

\* Both kinds of answer give every option one of the texts.
LEMMA AnswerTexts ==
  ASSUME NEW a \in Answers \cup {Failure}, NEW o \in Options
  PROVE  a.text[o] \in Texts /\ a.readable \in BOOLEAN
                             /\ (~a.readable => a.text[o].kind = "absent")
<1>1. CASE a \in Answers
  BY <1>1 DEF Answers
<1>2. CASE a = Failure
  <2>1. a.text[o] = [kind |-> "absent", value |-> 0] /\ a.readable = FALSE
    BY <1>2 DEF Failure
  <2>2. [kind |-> "absent", value |-> 0] \in Texts
    BY DEF Texts
  <2>3. [kind |-> "absent", value |-> 0].kind = "absent"
    OBVIOUS
  <2> QED
    BY <2>1, <2>2, <2>3
<1> QED
  BY <1>1, <1>2

-----------------------------------------------------------------------------
\* What the options are after config_load_main, for each answer.
Configured(a) ==
  IF a.readable THEN [o \in Options |-> FromMain(a.text[o], o)] ELSE ZeroOptions

\* How far the start is, and what has been read by then.
Started ==
  /\ pc \in {"init", "main"} =>
       answers = <<>> /\ options = ZeroOptions /\ ~reported
  /\ pc \in {"ports", "ready"} =>
       /\ answers # <<>> /\ answers[1] \in Answers \cup {Failure}
       /\ options = Configured(answers[1])
       /\ reported = Reports(answers[1])
  /\ pc = "tests" => ~reported

\* The port is as port_manager_init left it, or as its section says.
PortAsRead ==
  port = IF pc = "ready" /\ section.mode # Unreadable
         THEN [testType |-> TestTypeOf(section.mode), host |-> section.host]
         ELSE ZeroPort

IInv == TypeOK /\ Started /\ PortAsRead /\ LastGivenDecides

-----------------------------------------------------------------------------
LEMMA InitIInv == Init => IInv
<1> SUFFICES ASSUME Init PROVE IInv
  OBVIOUS
<1>1. TypeOK
  <2>1. options \in [Options -> 0 .. 255]
    BY DEF Init, ZeroOptions
  <2>2. answers \in Seq(Answers \cup {Failure})
    BY DEF Init
  <2>3. section \in Sections
    BY DEF Init, Sections
  <2> QED
    BY <2>1, <2>2, <2>3 DEF Init, TypeOK, ZeroPort
<1>2. Started /\ PortAsRead
  BY DEF Init, Started, PortAsRead
<1>3. LastGivenDecides
  <2>1. \A o \in Options : Given(o) = {}
    BY DEF Init, Given
  <2>2. \A o \in Options : options[o] = 0
    BY DEF Init, ZeroOptions
  <2> QED
    BY <2>1, <2>2 DEF LastGivenDecides
<1> QED
  BY <1>1, <1>2, <1>3 DEF IInv

\* Whatever the answer, config_load_main leaves options in 8 bits.
LEMMA ConfiguredInByte ==
  ASSUME NEW a \in Answers \cup {Failure}
  PROVE  Configured(a) \in [Options -> 0 .. 255]
<1>1. CASE ~a.readable
  BY <1>1 DEF Configured, ZeroOptions
<1>2. CASE a.readable
  <2>1. ASSUME NEW o \in Options PROVE FromMain(a.text[o], o) \in 0 .. 255
    BY AnswerTexts, StoredInByte, DefaultsInTable DEF FromMain
  <2> QED
    BY <1>2, <2>1 DEF Configured
<1> QED
  BY <1>1, <1>2

LEMMA TypeStep == IInv /\ [Next]_vars => TypeOK'
<1> SUFFICES ASSUME IInv, [Next]_vars PROVE TypeOK'
  OBVIOUS
<1>0. TypeOK /\ Started
  BY DEF IInv
<1>1. CASE SystemInit
  BY <1>0, <1>1 DEF SystemInit, TypeOK, ZeroPort
<1>2. CASE LoadMain
  <2>1. PICK a \in Answers \cup {Failure} :
          config_load_main(a) /\ reported' = Reports(a)
    BY <1>2 DEF LoadMain
  <2>2. options' \in [Options -> 0 .. 255]
    <3>1. options = ZeroOptions
      BY <1>0, <1>2 DEF LoadMain, Started
    <3>2. options' = Configured(a)
      BY <2>1, <3>1 DEF config_load_main, Configured
    <3> QED
      BY <3>2, ConfiguredInByte
  <2>3. answers' \in Seq(Answers \cup {Failure})
    BY <1>0, <2>1, AppendProperties DEF config_load_main, TypeOK
  <2>4. reported' \in BOOLEAN
    BY <2>1, AnswerTexts DEF Reports
  <2>5. pc' = "ports" /\ UNCHANGED <<port, section>>
    BY <1>2 DEF LoadMain
  <2> QED
    BY <1>0, <2>2, <2>3, <2>4, <2>5 DEF TypeOK
<1>3. CASE LoadPort
  <2>1. port' \in [testType : {"DISABLE", "LINK", "PING", "SPEED"}, host : {"given", "none"}]
    BY <1>0, <1>3 DEF LoadPort, TypeOK, Sections, TestTypeOf
  <2> QED
    BY <1>0, <1>3, <2>1 DEF LoadPort, TypeOK
<1>4. CASE load_config_from_string
  <2>1. PICK a \in Answers \cup {Failure} :
          /\ options' = IF a.readable THEN [o \in Options |-> Parsed(a.text[o], o)]
                                      ELSE options
          /\ answers' = Append(answers, a)
    BY <1>4 DEF load_config_from_string
  <2>2. ASSUME NEW o \in Options PROVE Parsed(a.text[o], o) \in 0 .. 255
    BY <1>0, AnswerTexts, StoredInByte DEF Parsed, TypeOK
  <2>3. options' \in [Options -> 0 .. 255]
    BY <1>0, <2>1, <2>2 DEF TypeOK
  <2>4. answers' \in Seq(Answers \cup {Failure})
    BY <1>0, <2>1, AppendProperties DEF TypeOK
  <2> QED
    BY <1>0, <1>4, <2>3, <2>4 DEF load_config_from_string, TypeOK
<1>5. CASE UNCHANGED vars
  BY <1>0, <1>5 DEF vars, TypeOK
<1> QED
  BY <1>1, <1>2, <1>3, <1>4, <1>5 DEF Next

LEMMA StartedStep == IInv /\ [Next]_vars => Started' /\ PortAsRead'
<1> SUFFICES ASSUME IInv, [Next]_vars PROVE Started' /\ PortAsRead'
  OBVIOUS
<1>0. TypeOK /\ Started /\ PortAsRead
  BY DEF IInv
<1> USE DEF Started, PortAsRead
<1>1. CASE SystemInit
  BY <1>0, <1>1 DEF SystemInit
<1>2. CASE LoadMain
  <2>1. PICK a \in Answers \cup {Failure} :
          config_load_main(a) /\ reported' = Reports(a)
    BY <1>2 DEF LoadMain
  <2>2. pc = "main" /\ pc' = "ports" /\ UNCHANGED <<port, section>>
    BY <1>2 DEF LoadMain
  <2>3. options = ZeroOptions /\ answers = <<>>
    BY <1>0, <2>2
  <2>4. answers' = <<a>>
    BY <2>1, <2>3 DEF config_load_main
  <2>5. options' = Configured(a)
    BY <2>1, <2>3 DEF config_load_main, Configured
  <2>6. answers' # <<>> /\ answers'[1] = a
    BY <2>4
  <2> QED
    BY <1>0, <2>1, <2>2, <2>5, <2>6
<1>3. CASE LoadPort
  BY <1>0, <1>3 DEF LoadPort
<1>4. CASE load_config_from_string
  BY <1>0, <1>4 DEF load_config_from_string
<1>5. CASE UNCHANGED vars
  BY <1>0, <1>5 DEF vars
<1> QED
  BY <1>1, <1>2, <1>3, <1>4, <1>5 DEF Next

\* A string adds itself to those that give an option a text, or leaves both them
\* and the option alone.
LEMMA DecidesStep == IInv /\ [Next]_vars => LastGivenDecides'
<1> SUFFICES ASSUME IInv, [Next]_vars PROVE LastGivenDecides'
  OBVIOUS
<1>0. TypeOK /\ LastGivenDecides
  BY DEF IInv
<1>1. CASE load_config_from_string
  <2>1. PICK a \in Answers \cup {Failure} :
          /\ options' = IF a.readable THEN [o \in Options |-> Parsed(a.text[o], o)]
                                      ELSE options
          /\ answers' = Append(answers, a)
    BY <1>1 DEF load_config_from_string
  <2>2. /\ Len(answers) \in Nat /\ Len(answers') = Len(answers) + 1
        /\ answers'[Len(answers) + 1] = a
        /\ \A n \in 1 .. Len(answers) : answers'[n] = answers[n]
    BY <1>0, <2>1, AppendProperties DEF TypeOK
  <2> SUFFICES ASSUME NEW o \in Options \ {"main_time"}, pc' = "tests"
               PROVE  IF Given(o)' = {} THEN options'[o] = 0
                      ELSE \E n \in Given(o)' :
                             /\ \A m \in Given(o)' : m <= n
                             /\ options'[o] = Stored(answers'[n].text[o])
    BY DEF LastGivenDecides
  <2>3. IF Given(o) = {} THEN options[o] = 0
        ELSE \E n \in Given(o) :
               /\ \A m \in Given(o) : m <= n
               /\ options[o] = Stored(answers[n].text[o])
    BY <1>0, <1>1 DEF load_config_from_string, LastGivenDecides
  <2>4. o \in Options /\ o # "main_time"
    OBVIOUS
  <2>5. CASE a.text[o].kind = "absent"
    <3>1. Given(o)' = Given(o)
      BY <2>2, <2>5 DEF Given
    <3>2. options'[o] = options[o]
      BY <1>0, <2>1, <2>4, <2>5 DEF Parsed, TypeOK
    <3>3. \A n \in Given(o) : answers'[n] = answers[n]
      BY <2>2 DEF Given
    <3> QED
      BY <2>3, <3>1, <3>2, <3>3
  <2>6. CASE a.text[o].kind # "absent"
    <3>1. Len(answers) + 1 \in Given(o)'
      BY <2>2, <2>6 DEF Given
    <3>2. \A m \in Given(o)' : m <= Len(answers) + 1
      BY <2>2 DEF Given
    <3>3. a.readable
      BY <2>4, <2>6, AnswerTexts
    <3>4. options'[o] = Stored(a.text[o])
      BY <2>1, <2>4, <2>6, <3>3 DEF Parsed
    <3> QED
      BY <2>2, <3>1, <3>2, <3>4
  <2> QED
    BY <2>5, <2>6
<1>2. CASE SystemInit \/ LoadMain \/ LoadPort
  BY <1>2 DEF SystemInit, LoadMain, LoadPort, LastGivenDecides
<1>3. CASE UNCHANGED vars
  BY <1>0, <1>3 DEF vars, LastGivenDecides, Given
<1> QED
  BY <1>1, <1>2, <1>3 DEF Next

\* The inductive invariant: the options and the port are a function of what was read.
THEOREM InvariantHolds == Spec => []IInv
<1>1. IInv /\ [Next]_vars => IInv'
  BY TypeStep, StartedStep, DecidesStep DEF IInv
<1> QED
  BY <1>1, InitIInv, PTL DEF Spec

-----------------------------------------------------------------------------
\* Every option fits its uint8_t and the port has one of the four modes, whatever
\* ubus or a string says.
THEOREM TypeCorrect == Spec => []TypeOK
<1>1. IInv => TypeOK
  BY DEF IInv
<1> QED
  BY <1>1, InvariantHolds, PTL

\* An option outside the table was spelled so in the answer, or its failure reported.
THEOREM OddOptionsExplained == Spec => []OddOptionIsExplained
<1>1. IInv => OddOptionIsExplained
  <2> SUFFICES ASSUME IInv, pc = "ready", ~reported, NEW o \in Options
               PROVE  \/ InTable(o, options[o])
                      \/ /\ answers[1].text[o].kind # "absent"
                         /\ ~InTable(o, answers[1].text[o].value)
    BY DEF OddOptionIsExplained
  <2>1. /\ answers[1] \in Answers \cup {Failure} /\ options = Configured(answers[1])
        /\ answers[1].readable
    BY DEF IInv, Started, Reports
  <2>2. options[o] = FromMain(answers[1].text[o], o) /\ answers[1].text[o] \in Texts
    BY <2>1, AnswerTexts DEF Configured
  <2> QED
    BY <2>2, DefaultsInTable, TableFitsByte DEF FromMain
<1> QED
  BY <1>1, InvariantHolds, PTL

\* A port is tested in the mode its section names and in no other, also when the
\* options could not be read.
THEOREM PortTestedAsConfigured == Spec => []TestedAsConfigured
<1>1. IInv => TestedAsConfigured
  <2> SUFFICES ASSUME IInv PROVE TestedAsConfigured
    OBVIOUS
  <2>1. TypeOK /\ PortAsRead
    BY DEF IInv
  <2>2. CASE pc # "ready" \/ section.mode = Unreadable
    BY <2>1, <2>2 DEF PortAsRead, TestedAsConfigured
  <2>3. CASE pc = "ready" /\ section.mode # Unreadable
    <3>1. port = [testType |-> TestTypeOf(section.mode), host |-> section.host]
      BY <2>1, <2>3 DEF PortAsRead
    <3>2. section.mode \in {"ping", "link", "speed", "other"}
      BY <2>1, <2>3 DEF TypeOK, Sections
    <3> QED
      BY <2>3, <3>1, <3>2 DEF TestedAsConfigured, ModesNamed, TestTypeOf
  <2> QED
    BY <2>2, <2>3
<1> QED
  BY <1>1, InvariantHolds, PTL

\* Of any number of strings, the last that gives an option a text decides.
THEOREM LastStringDecides == Spec => []LastGivenDecides
<1>1. IInv => LastGivenDecides
  BY DEF IInv
<1> QED
  BY <1>1, InvariantHolds, PTL

-----------------------------------------------------------------------------
\* An option is stored as 0 or as a number of the answer, cut to 8 bits.
LEMMA StoredIsSpelled ==
  ASSUME NEW text \in Texts
  PROVE  Stored(text) \in {0} \cup StoredNumbers
<1>1. CASE text \in [kind : {"number"}, value : Numbers]
  BY <1>1 DEF Stored, StoredNumbers
<1>2. CASE text.value = 0
  BY <1>2 DEF Stored
<1>3. text \in [kind : {"number"}, value : Numbers] \/ text.value = 0
  BY DEF Texts
<1> QED
  BY <1>1, <1>2, <1>3

\* So config_load_main gives an option no value but 0, its default or one of those,
\* whether the answer can be read or not.
LEMMA ConfiguredIsSpelled ==
  ASSUME NEW a \in Answers \cup {Failure}, NEW o \in Options
  PROVE  Configured(a)[o] \in {0, Default[o]} \cup StoredNumbers
<1>1. CASE ~a.readable
  BY <1>1 DEF Configured, ZeroOptions
<1>2. CASE a.readable
  <2>1. Configured(a)[o] = FromMain(a.text[o], o) /\ a.text[o] \in Texts
    BY <1>2, AnswerTexts DEF Configured
  <2> QED
    BY <2>1, StoredIsSpelled DEF FromMain
<1> QED
  BY <1>1, <1>2

\* So the options the main loop reads are among the values PortMonitor gives them.
LEMMA LoadedIsSpelled ==
  ASSUME NEW a \in Answers \cup {Failure}
  PROVE  /\ Configured(a).test_num \in LoadedTestNums
         /\ Configured(a).max_reset \in LoadedMaxResets
<1>1. "test_num" \in Options /\ "max_reset" \in Options
  BY DEF Options, Default
<1>2. Default["test_num"] = Default.test_num /\ Default["max_reset"] = Default.max_reset
  BY DEF Default
<1> QED
  BY <1>1, <1>2, ConfiguredIsSpelled DEF LoadedTestNums, LoadedMaxResets

\* Every start of the daemon, whatever combination of its sections could be read and
\* whatever they spell, ends with a test_num, a max_reset and a mode that are among
\* the constants of PortMonitor, and those constants fulfil what the theorems of
\* PortMonitor assume of them.
THEOREM LoadedValuesFit ==
  /\ LoadedTestNums \subseteq 0 .. 255 /\ LoadedMaxResets \subseteq 0 .. 255
  /\ Spec => [](Running => /\ options.test_num \in LoadedTestNums
                          /\ options.max_reset \in LoadedMaxResets
                          /\ port.testType \in {"DISABLE", "LINK", "PING", "SPEED"})
<1>1. LoadedTestNums \subseteq 0 .. 255 /\ LoadedMaxResets \subseteq 0 .. 255
  <2>1. StoredNumbers \subseteq 0 .. 255
    BY NumbersAssumption DEF StoredNumbers
  <2>2. 0 \in 0 .. 255 /\ Default.test_num \in 0 .. 255 /\ Default.max_reset \in 0 .. 255
    BY DEF Default
  <2> QED
    BY <2>1, <2>2, Zenon DEF LoadedTestNums, LoadedMaxResets
<1>2. IInv => (Running => /\ options.test_num \in LoadedTestNums
                         /\ options.max_reset \in LoadedMaxResets
                         /\ port.testType \in {"DISABLE", "LINK", "PING", "SPEED"})
  <2> SUFFICES ASSUME IInv, Running
               PROVE  /\ options.test_num \in LoadedTestNums
                      /\ options.max_reset \in LoadedMaxResets
                      /\ port.testType \in {"DISABLE", "LINK", "PING", "SPEED"}
    OBVIOUS
  <2>1. answers[1] \in Answers \cup {Failure} /\ options = Configured(answers[1])
    BY DEF IInv, Started, Running
  <2>2. port.testType \in {"DISABLE", "LINK", "PING", "SPEED"}
    BY DEF IInv, TypeOK
  <2> QED
    BY <2>1, <2>2, LoadedIsSpelled
<1>3. Spec => [](Running => /\ options.test_num \in LoadedTestNums
                         /\ options.max_reset \in LoadedMaxResets
                         /\ port.testType \in {"DISABLE", "LINK", "PING", "SPEED"})
  BY <1>2, InvariantHolds, PTL
<1> QED
  BY <1>1, <1>3

\* The start-up implements the one step SystemInit that PortMonitor takes it for.
THEOREM Implementation == Spec => ImplementsSystemInit
<1>1. Init => Daemon!Init
  BY DEF Init, Running, Daemon!Init, Daemon!Unset
<1>2. IInv /\ [Next]_vars => [Daemon!Next]_Daemon!vars
  <2> SUFFICES ASSUME IInv, [Next]_vars
               PROVE  Daemon!Next \/ UNCHANGED Daemon!vars
    OBVIOUS
  <2> USE DEF Daemon!vars, Daemon!config, Daemon!port, Daemon!reboot, Daemon!clock,
              Daemon!world
  <2>1. CASE LoadPort
    <3>1. pc = "ports" /\ pc' = "ready" /\ UNCHANGED options
      BY <2>1 DEF LoadPort
    <3>2. ~Running /\ Running'
      BY <3>1 DEF Running
    <3>3. answers[1] \in Answers \cup {Failure} /\ options = Configured(answers[1])
      BY <3>1 DEF IInv, Started
    <3>4. options.test_num \in LoadedTestNums /\ options.max_reset \in LoadedMaxResets
      BY <3>3, LoadedIsSpelled
    <3>5. port'.testType \in {"DISABLE", "LINK", "PING", "SPEED"}
      BY <2>1, TypeStep DEF TypeOK
    <3>6. Daemon!SystemInit
      BY <3>1, <3>2, <3>4, <3>5 DEF Daemon!SystemInit
    <3> QED
      BY <3>6 DEF Daemon!Next, Daemon!Daemon
  <2>2. CASE SystemInit \/ LoadMain \/ load_config_from_string
    <3>1. ~Running /\ ~Running'
      BY <2>2 DEF SystemInit, LoadMain, load_config_from_string, Running
    <3> QED
      BY <3>1
  <2>3. CASE UNCHANGED vars
    BY <2>3 DEF vars, Running
  <2> QED
    BY <2>1, <2>2, <2>3 DEF Next
<1> QED
  BY <1>1, <1>2, InvariantHolds, PTL DEF Spec, ImplementsSystemInit, Daemon!Spec

\* A number of the table is stored as it is spelled: no configuration the table allows
\* is changed on its way into the daemon.
THEOREM TableIsHonoured ==
  ASSUME NEW o \in Options, NEW text \in Texts, text.kind # "absent", InTable(o, text.value)
  PROVE  FromMain(text, o) = text.value
BY TableFitsByte DEF FromMain

=============================================================================
