---------------------------- MODULE ErrorHistory ----------------------------
(***************************************************************************)
(* The error history of the daemon (error_handler.c): a ring buffer of the *)
(* last MAX_ERROR_HISTORY registered errors.  Every module registers its   *)
(* errors here; one thread does.                                           *)
(***************************************************************************)
EXTENDS Integers

CONSTANTS
  Entries,            \* what an ErrorEntry may hold
  Empty,              \* a slot as error_handler_init zeroes it
  MAX_ERROR_HISTORY,  \* 10
  MaxRegistered       \* bound: errors registered in one run

ASSUME HistoryAssumption ==
  /\ MAX_ERROR_HISTORY \in Nat \ {0}
  /\ MaxRegistered \in Nat
  /\ Empty \notin Entries

VARIABLES
  error_history,   \* the slots 0 .. MAX_ERROR_HISTORY - 1
  error_index,     \* the slot the next error goes to
  registered,      \* how many errors were registered so far ...
  log              \* ... and which: the record a buffer without end would keep

vars == <<error_history, error_index, registered, log>>

Slots == 0 .. (MAX_ERROR_HISTORY - 1)

Init ==
  /\ error_history = [s \in Slots |-> Empty]
  /\ error_index = 0
  /\ registered = 0
  /\ log = [n \in {} |-> Empty]

Advance_PastEnd(index) == (index + 1) % (MAX_ERROR_HISTORY + 1)
Advance_SkipOne(index) == (index + 2) % MAX_ERROR_HISTORY
Advance(index) == (index + 1) % MAX_ERROR_HISTORY

error_register(entry) ==
  /\ registered < MaxRegistered
  /\ error_history' = [error_history EXCEPT ![error_index] = entry]
  /\ error_index' = Advance(error_index)
  /\ registered' = registered + 1
  /\ log' = [n \in 1 .. registered + 1 |-> IF n <= registered THEN log[n] ELSE entry]

Next == \E entry \in Entries : error_register(entry)

Spec == Init /\ [][Next]_vars

(* The entry before error_index, across the end of the buffer.  Before the *)
(* first error it is a zeroed slot, not a null pointer.                    *)
LastSlot_NoWrap == IF error_index = 0 THEN 0 ELSE error_index - 1
LastSlot == IF error_index = 0 THEN MAX_ERROR_HISTORY - 1 ELSE error_index - 1

error_get_last == error_history[LastSlot]

-----------------------------------------------------------------------------
\* The index never leaves the buffer and every slot is zeroed or an entry.
TypeOK ==
  /\ error_index \in Slots
  /\ error_history \in [Slots -> Entries \cup {Empty}]
  /\ registered \in Nat
  /\ log \in [1 .. registered -> Entries]

\* error_get_last returns the error that was registered last, whatever the
\* position in the buffer, and a zeroed slot before there was one.
LastIsLatest == error_get_last = IF registered = 0 THEN Empty ELSE log[registered]

\* The buffer holds exactly the last MAX_ERROR_HISTORY errors, the error with
\* number n in the slot (n - 1) % MAX_ERROR_HISTORY.
KeepsTheLast ==
  \A n \in 1 .. registered :
    n > registered - MAX_ERROR_HISTORY =>
      error_history[(n - 1) % MAX_ERROR_HISTORY] = log[n]

=============================================================================
