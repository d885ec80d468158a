-------------------------- MODULE RebootLifecycle --------------------------
(***************************************************************************)
(* What the reboot logic of the daemon promises about one port, whatever   *)
(* the tests, the timer and the clock do: reboots are authorised one at a  *)
(* time, all but the first are paid from the budget max_reset, and a port  *)
(* whose budget is spent is shut down for good.                            *)
(***************************************************************************)
EXTENDS Naturals

CONSTANT Budgets   \* the values max_reset may have, natural numbers

VARIABLES
  phase,        \* "booting", "REGULAR", "REBOOT" or "IDLE" (shut down)
  budget,       \* max_reset
  used,         \* reboots paid from the budget
  authorised,   \* whether the next, or the present, reboot is paid for
  done          \* reboots that were completed

vars == <<phase, budget, used, authorised, done>>

\* The first reboot is authorised from the start and costs nothing.
Init ==
  /\ phase = "booting"
  /\ budget = 0 /\ used = 0 /\ done = 0
  /\ authorised = TRUE

Configure ==
  /\ phase = "booting"
  /\ phase' = "REGULAR"
  /\ budget' \in Budgets
  /\ UNCHANGED <<used, authorised, done>>

Begin ==
  /\ phase = "REGULAR"
  /\ phase' = "REBOOT"
  /\ UNCHANGED <<budget, used, authorised, done>>

CanPay == used < budget

Authorise ==
  /\ phase = "REBOOT" /\ ~authorised
  /\ CanPay
  /\ used' = used + 1
  /\ authorised' = TRUE
  /\ UNCHANGED <<phase, budget, done>>

Complete ==
  /\ phase = "REBOOT" /\ authorised
  /\ phase' = "REGULAR"
  /\ authorised' = FALSE
  /\ done' = done + 1
  /\ UNCHANGED <<budget, used>>

GiveUp ==
  /\ phase = "REBOOT" /\ ~authorised
  /\ used = budget
  /\ phase' = "IDLE"
  /\ UNCHANGED <<budget, used, authorised, done>>

Next == Configure \/ Begin \/ Authorise \/ Complete \/ GiveUp

Spec == Init /\ [][Next]_vars

-----------------------------------------------------------------------------
(* What follows for every implementation: a port is rebooted at most once *)
(* more than max_reset says, and exactly that often before it is shut     *)
(* down (autoResetHandler and rebootHandler together).                    *)
RebootsBounded ==
  /\ done <= budget + 1
  /\ phase = "IDLE" => done = budget + 1

=============================================================================
