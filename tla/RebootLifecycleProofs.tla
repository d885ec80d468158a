----------------------- MODULE RebootLifecycleProofs -----------------------
(***************************************************************************)
(* What the abstract lifecycle promises, proved for every set of budgets.  *)
(***************************************************************************)
EXTENDS RebootLifecycle, TLAPS

\* Every reboot but the first is paid for when it is authorised, so the reboots
\* that are done or authorised are one more than those paid.
Account ==
  /\ phase \in {"booting", "REGULAR", "REBOOT", "IDLE"}
  /\ budget \in Nat /\ used \in Nat /\ done \in Nat /\ authorised \in BOOLEAN
  /\ authorised => done = used
  /\ ~authorised => done = used + 1
  /\ used <= budget
  /\ phase = "booting" => used = 0
  /\ phase = "IDLE" => ~authorised /\ used = budget

\* The account balances in every state.
LEMMA AccountBalances ==
  ASSUME Budgets \subseteq Nat
  PROVE  Spec => []Account
<1>1. Init => Account
  BY DEF Init, Account
<1>2. Account /\ [Next]_vars => Account'
  <2> SUFFICES ASSUME Account, [Next]_vars PROVE Account'
    OBVIOUS
  <2> USE DEF Account
  <2>1. CASE Configure
    BY <2>1 DEF Configure
  <2>2. CASE Begin
    BY <2>2 DEF Begin
  <2>3. CASE Authorise
    BY <2>3 DEF Authorise, CanPay
  <2>4. CASE Complete
    <3>1. done = used
      BY <2>4 DEF Complete
    <3>2. done' = used' + 1 /\ done' \in Nat
      BY <2>4, <3>1 DEF Complete
    <3>3. ~authorised' /\ authorised' \in BOOLEAN
      BY <2>4, Zenon DEF Complete
    <3> QED
      BY <2>4, <3>2, <3>3 DEF Complete
  <2>5. CASE GiveUp
    BY <2>5 DEF GiveUp
  <2>6. CASE UNCHANGED vars
    BY <2>6 DEF vars
  <2> QED
    BY <2>1, <2>2, <2>3, <2>4, <2>5, <2>6 DEF Next
<1> QED
  BY <1>1, <1>2, PTL DEF Spec

\* A port is rebooted at most max_reset + 1 times, and exactly so often before
\* autoResetHandler shuts it down, whatever max_reset is.
THEOREM RebootsAreBounded ==
  ASSUME Budgets \subseteq Nat
  PROVE  Spec => []RebootsBounded
<1>1. Account => RebootsBounded
  BY DEF Account, RebootsBounded
<1> QED
  BY <1>1, AccountBalances, PTL

=============================================================================
