-------------------------- MODULE CommandOnceProofs --------------------------
(***************************************************************************)
(* What the promise about a command comes to, proved for any set of calls. *)
(***************************************************************************)
EXTENDS CommandOnce, TLAPS

\* A call's command is counted, and before the call is answered.
Counted ==
  /\ outcome \in [Calls -> {"pending", "answered", "unanswered", "lost"}]
  /\ performed \in [Calls -> 0 .. 1]
  /\ \A c \in Calls : outcome[c] = "answered" => performed[c] = 1

LEMMA CommandsCounted == Spec => []Counted
<1>1. Init => Counted
  BY DEF Init, Counted
<1>2. Counted /\ [Next]_vars => Counted'
  <2> SUFFICES ASSUME Counted, [Next]_vars PROVE Counted'
    OBVIOUS
  <2> USE DEF Counted
  <2>1. ASSUME NEW c \in Calls, Perform(c) PROVE Counted'
    BY <2>1 DEF Perform
  <2>2. ASSUME NEW c \in Calls, Answer(c) PROVE Counted'
    BY <2>2 DEF Answer, End
  <2>3. ASSUME NEW c \in Calls, GiveUp(c) \/ Lose(c) PROVE Counted'
    BY <2>3 DEF GiveUp, Lose, End
  <2>4. CASE UNCHANGED vars
    BY <2>4 DEF vars
  <2> QED
    BY <2>1, <2>2, <2>3, <2>4 DEF Next
<1> QED
  BY <1>1, <1>2, PTL DEF Spec

\* A command is performed at most once, and before "OK" is printed for it.
THEOREM PerformedAtMostOnce == Spec => []AtMostOnce
<1>1. Counted => AtMostOnce
  BY DEF Counted, AtMostOnce
<1> QED
  BY <1>1, CommandsCounted, PTL

\* What a call reported when it ended is never made wrong by a later step.
THEOREM ReportsAreFinal == Spec => ReportIsFinal
<1>1. Counted /\ [Next]_vars => ReportKept
  <2> SUFFICES ASSUME Counted, [Next]_vars PROVE ReportKept
    OBVIOUS
  <2> USE DEF ReportKept
  <2>1. ASSUME NEW c \in Calls, Perform(c) PROVE ReportKept
    BY <2>1 DEF Perform, Counted
  <2>2. ASSUME NEW c \in Calls, Answer(c) \/ GiveUp(c) \/ Lose(c) PROVE ReportKept
    BY <2>2 DEF Answer, GiveUp, Lose, End, Counted
  <2>3. CASE UNCHANGED vars
    BY <2>3 DEF vars
  <2> QED
    BY <2>1, <2>2, <2>3 DEF Next
<1> QED
  BY <1>1, CommandsCounted, PTL DEF Spec, ReportIsFinal

=============================================================================
