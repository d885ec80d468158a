----------------------------- MODULE CommandOnce -----------------------------
(***************************************************************************)
(* What the control program and the daemon promise about a command,        *)
(* whatever becomes of either: it is performed at most once, a call is     *)
(* answered only after its command was, and once a call has ended without  *)
(* an answer its command is not performed any more.  It may have been      *)
(* before; and the command of a call that was interrupted may still be.    *)
(***************************************************************************)
EXTENDS Naturals

CONSTANT Calls

VARIABLES
  outcome,     \* of each call: "pending", "answered", "unanswered", "lost"
  performed    \* how often the daemon performed the command of each call

vars == <<outcome, performed>>

Init ==
  /\ outcome = [c \in Calls |-> "pending"]
  /\ performed = [c \in Calls |-> 0]

Perform(c) ==
  /\ outcome[c] \in {"pending", "lost"}
  /\ performed[c] = 0
  /\ performed' = [performed EXCEPT ![c] = 1]
  /\ UNCHANGED outcome

End(c, how) ==
  /\ outcome[c] = "pending"
  /\ outcome' = [outcome EXCEPT ![c] = how]
  /\ UNCHANGED performed

Answer(c) == performed[c] = 1 /\ End(c, "answered")
GiveUp(c) == End(c, "unanswered")
Lose(c) == End(c, "lost")

Next == \E c \in Calls : Perform(c) \/ Answer(c) \/ GiveUp(c) \/ Lose(c)

Spec == Init /\ [][Next]_vars

-----------------------------------------------------------------------------
(* What follows for every implementation. *)

\* A command that was sent once is never performed twice, and "OK" is never printed
\* for one that was not performed.
AtMostOnce ==
  \A c \in Calls : /\ performed[c] \in 0 .. 1
                  /\ outcome[c] = "answered" => performed[c] = 1

\* What a call reported when it ended stays true: a command reported as performed is
\* not performed again, and one reported as failed is not performed behind the
\* caller's back.
ReportKept ==
  \A c \in Calls : outcome[c] \in {"answered", "unanswered"} =>
    outcome'[c] = outcome[c] /\ performed'[c] = performed[c]

ReportIsFinal == [][ReportKept]_vars

=============================================================================
