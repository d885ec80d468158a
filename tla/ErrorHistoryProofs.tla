------------------------- MODULE ErrorHistoryProofs -------------------------
(***************************************************************************)
(* The error history, proved for a buffer of any size and any number of    *)
(* errors.                                                                 *)
(***************************************************************************)
EXTENDS ErrorHistory, TLAPS

\* Division with remainder.
LEMMA Division ==
  ASSUME NEW m \in Nat \ {0}, NEW n \in Nat
  PROVE  /\ n = m * (n \div m) + (n % m)
         /\ n \div m \in Nat
         /\ n % m \in 0 .. (m - 1)
BY Z3

\* The index moves on by one, and from the last slot to the first.
LEMMA NextSlot ==
  ASSUME NEW m \in Nat \ {0}, NEW i \in 0 .. (m - 1)
  PROVE  (i + 1) % m = IF i + 1 = m THEN 0 ELSE i + 1
BY Z3

\* Two numbers with one remainder are no less than the divisor apart.
LEMMA OneRemainder ==
  ASSUME NEW m \in Nat \ {0}, NEW q \in Int, NEW r \in Int, NEW x \in Int,
         NEW a \in Int, NEW b \in Int,
         a = m * q + x, b = m * r + x, a < b, b - a < m
  PROVE  FALSE
<1>1. b - a = m * (r - q)
  BY Z3
<1>2. m * (r - q) > 0 /\ m * (r - q) < m
  BY ONLY <1>1, a < b, b - a < m, a \in Int, b \in Int
<1>3. r - q > 0
  <2> SUFFICES ASSUME ~(r - q > 0) PROVE FALSE
    OBVIOUS
  <2>1. m * (r - q) <= 0
    BY ONLY m \in Nat \ {0}, q \in Int, r \in Int, ~(r - q > 0), Z3
  <2> QED
    BY <2>1, <1>2
<1>4. m * (r - q) >= m
  BY ONLY <1>3, m \in Nat \ {0}, q \in Int, r \in Int, Z3
<1> QED
  BY <1>2, <1>4

\* Fewer than MAX_ERROR_HISTORY errors apart, two errors go to different slots.
LEMMA SlotsDistinct ==
  ASSUME NEW m \in Nat \ {0}, NEW a \in Nat, NEW b \in Nat, a < b, b - a < m
  PROVE  a % m # b % m
<1> SUFFICES ASSUME a % m = b % m PROVE FALSE
  OBVIOUS
<1>1. a = m * (a \div m) + (a % m) /\ a \div m \in Int /\ a % m \in Int
  BY Division
<1>2. b = m * (b \div m) + (b % m) /\ b \div m \in Int
  BY Division
<1>3. b = m * (b \div m) + (a % m)
  BY <1>2, Zenon
<1>4. a \in Int /\ b \in Int
  OBVIOUS
<1>5. m \in Nat \ {0} /\ a < b /\ b - a < m
  OBVIOUS
<1> QED
  BY ONLY <1>1, <1>2, <1>3, <1>4, <1>5, OneRemainder, Zenon

\* A remainder below the divisor is the remainder.
LEMMA RemainderIs ==
  ASSUME NEW m \in Nat \ {0}, NEW n \in Nat, NEW q \in Int, NEW r \in 0 .. (m - 1),
         n = m * q + r
  PROVE  n % m = r
BY Z3

\* The index can be stepped before or after the remainder is taken.
LEMMA NextRemainder ==
  ASSUME NEW m \in Nat \ {0}, NEW n \in Nat
  PROVE  (n + 1) % m = ((n % m) + 1) % m
<1>1. n = m * (n \div m) + (n % m) /\ n \div m \in Int /\ n % m \in 0 .. (m - 1)
  BY Division
<1>2. PICK q \in Int : q = n \div m
  BY <1>1
<1>3. PICK r \in 0 .. (m - 1) : r = n % m
  BY <1>1
<1>4. n = m * q + r
  BY <1>1, <1>2, <1>3
<1>5. (r + 1) % m = IF r + 1 = m THEN 0 ELSE r + 1
  BY NextSlot
<1>6. n + 1 \in Nat /\ q + 1 \in Int /\ 0 \in 0 .. (m - 1)
  OBVIOUS
<1>7. (n + 1) % m = (r + 1) % m
  <2>1. CASE r + 1 = m
    <3>1. n + 1 = m * (q + 1) + 0
      BY ONLY <1>4, <2>1, r \in 0 .. (m - 1), q \in Int, m \in Nat \ {0}, n \in Nat, Z3
    <3>2. (n + 1) % m = 0
      BY <3>1, <1>6, RemainderIs, Zenon
    <3> QED
      BY <2>1, <3>2, <1>5, Zenon
  <2>2. CASE r + 1 # m
    <3>1. n + 1 = m * q + (r + 1) /\ r + 1 \in 0 .. (m - 1)
      BY ONLY <1>4, <2>2, r \in 0 .. (m - 1), q \in Int, m \in Nat \ {0}, n \in Nat, Z3
    <3>2. (n + 1) % m = r + 1
      BY <3>1, <1>6, RemainderIs, Zenon
    <3> QED
      BY <2>2, <3>2, <1>5, Zenon
  <2> QED
    BY <2>1, <2>2
<1> QED
  BY <1>3, <1>7, Zenon

-----------------------------------------------------------------------------
\* The slot an error went to can be told from its number: the index counts the
\* errors modulo the size of the buffer.
IndexCounts == error_index = registered % MAX_ERROR_HISTORY

\* Before there is an error every slot is zeroed.
Zeroed == registered = 0 => \A s \in Slots : error_history[s] = Empty

IInv == TypeOK /\ IndexCounts /\ Zeroed /\ LastIsLatest /\ KeepsTheLast

\* error_register never writes beyond the buffer, the index after it is again
\* one of its slots, and slots hold entries.
LEMMA TypeStep == TypeOK /\ [Next]_vars => TypeOK'
<1> SUFFICES ASSUME TypeOK, [Next]_vars PROVE TypeOK'
  OBVIOUS
<1> USE HistoryAssumption DEF TypeOK, Slots
<1>1. CASE Next
  <2>1. PICK entry \in Entries : error_register(entry)
    BY <1>1 DEF Next
  <2>2. error_index' \in Slots
    BY <2>1, NextSlot DEF error_register, Advance
  <2>3. error_history' \in [Slots -> Entries \cup {Empty}]
    BY <2>1 DEF error_register
  <2>4. registered' \in Nat /\ log' \in [1 .. registered' -> Entries]
    BY <2>1 DEF error_register
  <2> QED
    BY <2>2, <2>3, <2>4
<1>2. CASE UNCHANGED vars
  BY <1>2 DEF vars
<1> QED
  BY <1>1, <1>2

\* The index stays in the buffer, whatever its size.
THEOREM TypeCorrect == Spec => []TypeOK
<1>1. Init => TypeOK
  BY HistoryAssumption DEF Init, TypeOK, Slots
<1> QED
  BY <1>1, TypeStep, PTL DEF Spec

\* What one error_register does to the history, given the invariant.
LEMMA RegisterStep ==
  ASSUME IInv, NEW entry \in Entries, error_register(entry)
  PROVE  IndexCounts' /\ Zeroed' /\ LastIsLatest' /\ KeepsTheLast'
<1> USE HistoryAssumption DEF IInv, TypeOK
<1> DEFINE M == MAX_ERROR_HISTORY
<1>1. /\ registered' = registered + 1
      /\ error_index' = (error_index + 1) % M
      /\ error_history' = [error_history EXCEPT ![error_index] = entry]
      /\ log' = [n \in 1 .. registered + 1 |-> IF n <= registered THEN log[n] ELSE entry]
  BY DEF error_register, Advance
<1>2. IndexCounts'
  BY <1>1, NextRemainder DEF IndexCounts
<1>3. Zeroed'
  BY <1>1 DEF Zeroed
<1>4. error_history'[error_index] = entry
  BY <1>1
<1>5. log'[registered + 1] = entry
  BY <1>1
<1>6. LastIsLatest'
  <2>1. LastSlot' = error_index
    <3>1. error_index' = IF error_index + 1 = M THEN 0 ELSE error_index + 1
      BY <1>1, NextSlot DEF Slots
    <3> QED
      BY <3>1 DEF LastSlot, Slots
  <2> QED
    BY <1>1, <1>4, <1>5, <2>1 DEF LastIsLatest, error_get_last
<1>7. KeepsTheLast'
  <2> SUFFICES ASSUME NEW n \in 1 .. registered + 1, n > registered + 1 - M
               PROVE  error_history'[(n - 1) % M] = log'[n]
    BY <1>1 DEF KeepsTheLast
  <2>1. CASE n = registered + 1
    <3>1. n - 1 = registered
      BY <2>1
    <3>2. (n - 1) % M = error_index
      BY <3>1 DEF IndexCounts
    <3> QED
      BY <1>4, <1>5, <2>1, <3>2
  <2>2. CASE n # registered + 1
    <3>1. n \in 1 .. registered /\ n > registered - M
      BY <2>2
    <3>2. /\ n - 1 \in Nat /\ n - 1 < registered /\ registered - (n - 1) < M
      BY <3>1
    <3>3. (n - 1) % M # error_index
      BY <3>2, SlotsDistinct DEF IndexCounts
    <3>4. (n - 1) % M \in Slots
      BY <3>2, Division DEF Slots
    <3>5. error_history'[(n - 1) % M] = error_history[(n - 1) % M]
      BY <1>1, <3>3, <3>4
    <3>6. error_history[(n - 1) % M] = log[n]
      BY <3>1 DEF KeepsTheLast
    <3>7. log'[n] = log[n]
      BY <1>1, <3>1
    <3> QED
      BY <3>5, <3>6, <3>7
  <2> QED
    BY <2>1, <2>2
<1> QED
  BY <1>2, <1>3, <1>6, <1>7

\* The invariant holds: the buffer always holds exactly the last errors.
LEMMA InvariantHolds == Spec => []IInv
<1>1. Init => IInv
  <2> SUFFICES ASSUME Init PROVE IInv
    OBVIOUS
  <2> USE HistoryAssumption DEF Init, Slots
  <2>1. TypeOK
    BY DEF TypeOK
  <2>2. IndexCounts
    <3>1. 0 = MAX_ERROR_HISTORY * 0 + 0 /\ 0 \in 0 .. (MAX_ERROR_HISTORY - 1)
      OBVIOUS
    <3> QED
      BY <3>1, RemainderIs DEF IndexCounts
  <2>3. Zeroed /\ LastIsLatest
    BY DEF Zeroed, LastIsLatest, error_get_last, LastSlot
  <2>4. KeepsTheLast
    BY DEF KeepsTheLast
  <2> QED
    BY <2>1, <2>2, <2>3, <2>4 DEF IInv
<1>2. IInv /\ [Next]_vars => IInv'
  <2> SUFFICES ASSUME IInv, [Next]_vars PROVE IInv'
    OBVIOUS
  <2>1. TypeOK'
    BY TypeStep DEF IInv
  <2>2. CASE Next
    <3>1. PICK entry \in Entries : error_register(entry)
      BY <2>2 DEF Next
    <3> QED
      BY <2>1, <3>1, RegisterStep DEF IInv
  <2>3. CASE UNCHANGED vars
    BY <2>1, <2>3
    DEF IInv, IndexCounts, Zeroed, LastIsLatest, KeepsTheLast, error_get_last, LastSlot,
        vars
  <2> QED
    BY <2>2, <2>3
<1> QED
  BY <1>1, <1>2, PTL DEF Spec

\* error_get_last returns the error registered last, at every position in the
\* buffer.
THEOREM LastIsTheLatest == Spec => []LastIsLatest
BY InvariantHolds, PTL DEF IInv

\* Nothing but the oldest error is ever overwritten.
THEOREM LastOnesAreKept == Spec => []KeepsTheLast
BY InvariantHolds, PTL DEF IInv

=============================================================================
