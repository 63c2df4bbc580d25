---------------------------- MODULE AuditLogProofs ----------------------------
(***************************************************************************)
(* Theorems about AuditLog, for any settings, any size of a batch and any   *)
(* number of rows.                                                          *)
(***************************************************************************)
EXTENDS AuditLog, FiniteSetTheorems, TLAPS

RunStates ==
    [at : {"idle", "waiting", "days", "cap", "age", "count", "excess", "next",
           "record"},
     days : Days \cup {0}, cap : Caps \cup {0}, cut : Nat, age : 0..BATCH_ROWS,
     excess : 0..BATCH_ROWS, by_age : Nat, by_cap : Nat, seen : Nat]

RowsInv ==
    /\ last \in 0..MaxRows /\ log \subseteq 1..last
    /\ horizon \in [Days -> 0..last]
    /\ days \in Days /\ cap \in Caps /\ patches \in 0..MaxPatches
    /\ lock \in Runs \cup {"nobody"}
    /\ run \in [Runs -> RunStates]
    /\ reported \in Nat /\ missed \in Nat

\* The one run that is past the lock holds it.
LockInv == \A r \in Runs : run[r].at \notin {"idle", "waiting"} <=> lock = r

\* A run whose last batch was its last, or that is about to look at the cap.
NoMoreOld(r) ==
    \/ run[r].at \in {"count", "excess", "record"}
    \/ run[r].at = "next" /\ LastBatch(run[r].age, run[r].excess)

NoMoreExcess(r) ==
    \/ run[r].at = "record"
    \/ run[r].at = "next" /\ LastBatch(run[r].age, run[r].excess)

\* What a run knows of the table, which others only add to.
PlaceOf(r) ==
    /\ run[r].cut <= last /\ run[r].seen <= last
    /\ run[r].at = "cap" => run[r].days \in Days
    /\ NoMoreOld(r) => \A i \in log : i > run[r].cut
    /\ run[r].at \in {"count", "excess"} => run[r].age < BATCH_ROWS
    /\ run[r].at = "excess" =>
          /\ run[r].excess <= BATCH_ROWS - run[r].age
          /\ Cardinality(log) >= run[r].cap + run[r].excess
          /\ \/ run[r].excess = BATCH_ROWS - run[r].age
             \/ Cardinality(log) = run[r].cap + run[r].excess + (last - run[r].seen)
    /\ NoMoreExcess(r) => Cardinality(log) <= run[r].cap + (last - run[r].seen)

PlaceInv == \A r \in Runs : PlaceOf(r)

IInv == RowsInv /\ LockInv /\ PlaceInv /\ Accounted

(* The first rows of a finite set of ids. *)

\* A nonempty finite set of numbers has a greatest and a least element.
LEMMA Extremes ==
    ASSUME NEW S, S \subseteq Nat, IsFiniteSet(S), S # {}
    PROVE  /\ \E m \in S : \A j \in S : j <= m
           /\ \E m \in S : \A j \in S : m <= j
<1> DEFINE R == StrictSubsetOrdering(S)
           Above(m) == {j \in S : j >= m}
           Below(m) == {j \in S : j <= m}
<1>1. IsWellFoundedOn(R, SUBSET S)
  BY FS_StrictSubsetOrderingWellFounded, FS_FiniteSubsetsOfFinite
<1>2. \E m \in S : \A j \in S : j <= m
  <2> DEFINE T == {Above(m) : m \in S}
  <2>1. PICK X \in T : \A Y \in T : <<Y, X>> \notin R
    <3>1. T \subseteq SUBSET S /\ T # {}
      OBVIOUS
    <3> HIDE DEF R, T
    <3> QED
      BY <1>1, <3>1, WFMin
  <2>2. PICK m \in S : X = Above(m)
    OBVIOUS
  <2>3. ASSUME NEW j \in S, j > m PROVE FALSE
    <3>1. Above(j) \subseteq Above(m) /\ m \in Above(m) /\ m \notin Above(j)
      <4>1. j \in Nat /\ m \in Nat
        OBVIOUS
      <4>2. \A i \in Nat : i >= j => i >= m
        BY <2>3, <4>1
      <4>3. m >= m /\ ~(m >= j)
        BY <2>3, <4>1
      <4> HIDE DEF R
      <4> QED
        BY <4>2, <4>3
    <3>2. Above(j) \in T /\ Above(j) \subseteq S
      OBVIOUS
    <3>3. <<Above(j), X>> \in R
      <4>1. Above(j) \subseteq X /\ X # Above(j) /\ X \subseteq S
        BY <2>2, <3>1
      <4> HIDE DEF Above
      <4> QED
        BY <3>2, <4>1 DEF StrictSubsetOrdering
    <3> QED
      BY <2>1, <3>2, <3>3
  <2> QED
    BY <2>3
<1>3. \E m \in S : \A j \in S : m <= j
  <2> DEFINE T == {Below(m) : m \in S}
  <2>1. PICK X \in T : \A Y \in T : <<Y, X>> \notin R
    <3>1. T \subseteq SUBSET S /\ T # {}
      OBVIOUS
    <3> HIDE DEF R, T
    <3> QED
      BY <1>1, <3>1, WFMin
  <2>2. PICK m \in S : X = Below(m)
    OBVIOUS
  <2>3. ASSUME NEW j \in S, j < m PROVE FALSE
    <3>1. Below(j) \subseteq Below(m) /\ m \in Below(m) /\ m \notin Below(j)
      <4>1. j \in Nat /\ m \in Nat
        OBVIOUS
      <4>2. \A i \in Nat : i <= j => i <= m
        BY <2>3, <4>1
      <4>3. m <= m /\ ~(m <= j)
        BY <2>3, <4>1
      <4> HIDE DEF R
      <4> QED
        BY <4>2, <4>3
    <3>2. Below(j) \in T /\ Below(j) \subseteq S
      OBVIOUS
    <3>3. <<Below(j), X>> \in R
      <4>1. Below(j) \subseteq X /\ X # Below(j) /\ X \subseteq S
        BY <2>2, <3>1
      <4> HIDE DEF Below
      <4> QED
        BY <3>2, <4>1 DEF StrictSubsetOrdering
    <3> QED
      BY <2>1, <3>2, <3>3
  <2> QED
    BY <2>3
<1> QED
  BY <1>2, <1>3

\* They are at most as many as asked for, and fewer only if there are no more.
LEMMA OldestCount ==
    ASSUME NEW S, S \subseteq Nat, IsFiniteSet(S), NEW n \in Nat
    PROVE  /\ Oldest(S, n) \subseteq S /\ IsFiniteSet(Oldest(S, n))
           /\ Cardinality(Oldest(S, n)) \in 0..n
           /\ Cardinality(Oldest(S, n)) < n => Oldest(S, n) = S
<1> DEFINE O == Oldest(S, n)
           Before(X, m) == {j \in X : j < m}
<1>1. O \subseteq S
  BY DEF Oldest
<1>2. IsFiniteSet(O) /\ Cardinality(O) \in Nat
  BY <1>1, FS_Subset, FS_CardinalityType
<1>3. Cardinality(O) <= n
  <2>1. CASE O = {}
    BY <2>1, FS_EmptySet
  <2>2. CASE O # {}
    <3>1. PICK m \in O : \A j \in O : j <= m
      <4> O \subseteq Nat
        BY <1>1
      <4> HIDE DEF O
      <4> QED
        BY <1>2, <2>2, Extremes
    <3>2. O = Before(O, m) \cup {m} /\ m \notin Before(O, m)
      <4>1. O \subseteq Nat /\ m \in Nat
        BY <1>1
      <4>2. \A j \in O : j < m \/ j = m
        BY <3>1, <4>1
      <4>3. ~(m < m)
        BY <4>1
      <4> HIDE DEF O
      <4> QED
        BY <4>2, <4>3
    <3>3. Cardinality(Before(S, m)) < n
      BY <3>1 DEF Oldest
    <3>4. /\ IsFiniteSet(Before(O, m)) /\ IsFiniteSet(Before(S, m))
          /\ Cardinality(Before(O, m)) <= Cardinality(Before(S, m))
      <4>1. IsFiniteSet(Before(S, m))
        BY FS_Subset
      <4>2. Before(O, m) \in SUBSET Before(S, m)
        BY <1>1
      <4> HIDE DEF Before
      <4> QED
        BY <4>1, <4>2, FS_Subset
    <3>5. Cardinality(O) = Cardinality(Before(O, m)) + 1
      <4> HIDE DEF Before, O
      <4> QED
        BY <3>2, <3>4, FS_AddElement
    <3>6. Cardinality(Before(O, m)) \in Nat /\ Cardinality(Before(S, m)) \in Nat
      BY <3>4, FS_CardinalityType
    <3> HIDE DEF Before, O
    <3> QED
      BY <1>2, <3>3, <3>4, <3>5, <3>6
  <2> QED
    BY <2>1, <2>2
<1>4. ASSUME Cardinality(O) < n, O # S PROVE FALSE
  <2>1. S \ O \subseteq Nat /\ IsFiniteSet(S \ O) /\ S \ O # {}
    BY <1>1, <1>4, FS_Subset
  <2>2. PICK m \in S \ O : \A j \in S \ O : m <= j
    <3> HIDE DEF O
    <3> QED
      BY <2>1, Extremes
  <2>3. Before(S, m) \in SUBSET O
    BY <2>1, <2>2
  <2>4. Cardinality(Before(S, m)) \in Nat /\ Cardinality(Before(S, m)) <= Cardinality(O)
    <3> HIDE DEF Before, O
    <3> QED
      BY <1>2, <2>3, FS_Subset, FS_CardinalityType
  <2>5. Cardinality(Before(S, m)) < n
    <3> HIDE DEF Before, O
    <3> QED
      BY <1>2, <1>4, <2>4
  <2> QED
    BY <2>2, <2>5 DEF Oldest
<1> QED
  BY <1>1, <1>2, <1>3, <1>4

-----------------------------------------------------------------------------
(* The inductive invariant. *)

USE DEF Runs

LEMMA Sizes ==
    ASSUME RowsInv
    PROVE  /\ log \subseteq Nat /\ IsFiniteSet(log) /\ Cardinality(log) \in Nat
           /\ last \in Nat
<1>1. log \subseteq Nat /\ last \in Nat /\ IsFiniteSet(1..last)
  BY BoundsAssumption, FS_Interval DEF RowsInv
<1> QED
  BY <1>1, FS_Subset, FS_CardinalityType DEF RowsInv

LEMMA RunTypes ==
    ASSUME RowsInv, NEW r \in Runs
    PROVE  /\ run[r].cut \in Nat /\ run[r].seen \in Nat /\ run[r].cap \in Nat
           /\ run[r].age \in 0..BATCH_ROWS /\ run[r].age \in Nat
           /\ run[r].excess \in 0..BATCH_ROWS /\ run[r].excess \in Nat
           /\ run[r].by_age \in Nat /\ run[r].by_cap \in Nat
           /\ BATCH_ROWS \in Nat \ {0}
<1>1. run[r] \in RunStates
  BY DEF RowsInv
<1>2. /\ run[r].cut \in Nat /\ run[r].seen \in Nat /\ run[r].cap \in Caps \cup {0}
      /\ run[r].age \in 0..BATCH_ROWS /\ run[r].excess \in 0..BATCH_ROWS
      /\ run[r].by_age \in Nat /\ run[r].by_cap \in Nat
  BY <1>1 DEF RunStates
<1>3. Caps \cup {0} \subseteq Nat /\ BATCH_ROWS \in Nat \ {0}
  BY BoundsAssumption
<1>4. 0..BATCH_ROWS \subseteq Nat
  BY <1>3
<1> QED
  BY <1>2, <1>3, <1>4

\* Deleting the first rows of a part of the log.
LEMMA Deletion ==
    ASSUME RowsInv, NEW S, S \subseteq log, NEW n \in Nat
    PROVE  LET gone == Oldest(S, n) IN
           /\ gone \subseteq S /\ Cardinality(gone) \in 0..n
           /\ Cardinality(log \ gone) = Cardinality(log) - Cardinality(gone)
           /\ Cardinality(gone) < n => gone = S
<1>1. IsFiniteSet(log) /\ log \subseteq Nat
  BY Sizes
<1>2. IsFiniteSet(S) /\ S \subseteq Nat
  BY <1>1, FS_Subset
<1>3. Oldest(S, n) \subseteq S
  BY <1>2, OldestCount
<1>4. log \cap Oldest(S, n) = Oldest(S, n)
  BY <1>3
<1> QED
  BY <1>1, <1>2, <1>3, <1>4, OldestCount, FS_Difference

\* The table is empty and nobody prunes.
LEMMA Start == Init => IInv
<1> SUFFICES ASSUME Init PROVE IInv
  OBVIOUS
<1>1. RowsInv
  BY BoundsAssumption DEF Init, RowsInv, Idle, RunStates
<1>2. LockInv
  BY DEF Init, LockInv, Idle
<1>3. PlaceInv
  BY DEF Init, PlaceInv, PlaceOf, NoMoreOld, NoMoreExcess, Idle
<1>4. Accounted
  BY FS_EmptySet DEF Init, Accounted, Idle
<1> QED
  BY <1>1, <1>2, <1>3, <1>4 DEF IInv

\* A new row is counted by nobody yet, and too young for any cutoff.
LEMMA RecordStep ==
    ASSUME IInv, Record PROVE IInv'
<1>1. /\ log \subseteq Nat /\ IsFiniteSet(log) /\ Cardinality(log) \in Nat
      /\ last \in Nat
  BY Sizes DEF IInv
<1>2. last + 1 \notin log /\ last' = last + 1 /\ log' = log \cup {last + 1}
  BY <1>1 DEF IInv, RowsInv, Record
<1>3. Cardinality(log') = Cardinality(log) + 1
  BY <1>1, <1>2, FS_AddElement
<1>4. RowsInv'
  <2>1. log' \subseteq 1..last' /\ last' \in 0..MaxRows
    BY <1>1, <1>2, BoundsAssumption DEF IInv, RowsInv, Record
  <2>2. horizon' \in [Days -> 0..last']
    BY <1>1, <1>2 DEF IInv, RowsInv, Record
  <2> QED
    BY <2>1, <2>2 DEF IInv, RowsInv, Record, settings
<1>5. LockInv'
  BY DEF IInv, LockInv, Record
<1>6. PlaceInv'
  <2> SUFFICES ASSUME NEW r \in Runs PROVE PlaceOf(r)'
    BY DEF PlaceInv
  <2>1. PlaceOf(r) /\ run[r] \in RunStates /\ run' = run
    BY DEF IInv, PlaceInv, RowsInv, Record
  <2>2. /\ run[r].cut \in Nat /\ run[r].seen \in Nat /\ run[r].cap \in Nat
        /\ run[r].excess \in Nat /\ run[r].age \in Nat /\ BATCH_ROWS \in Nat
    BY RunTypes DEF IInv
  <2>3. NoMoreOld(r)' = NoMoreOld(r) /\ NoMoreExcess(r)' = NoMoreExcess(r)
    BY <2>1 DEF NoMoreOld, NoMoreExcess
  <2>4. ASSUME NoMoreOld(r), NEW i \in log' PROVE i > run[r].cut
    BY <1>1, <1>2, <2>1, <2>2, <2>4 DEF PlaceOf
  <2>5. ASSUME run[r].at = "excess"
        PROVE  /\ run[r].excess <= BATCH_ROWS - run[r].age
               /\ Cardinality(log') >= run[r].cap + run[r].excess
               /\ \/ run[r].excess = BATCH_ROWS - run[r].age
                  \/ Cardinality(log') = run[r].cap + run[r].excess + (last' - run[r].seen)
    BY <1>1, <1>2, <1>3, <2>1, <2>2, <2>5 DEF PlaceOf
  <2>6. ASSUME NoMoreExcess(r)
        PROVE  Cardinality(log') <= run[r].cap + (last' - run[r].seen)
    BY <1>1, <1>2, <1>3, <2>1, <2>2, <2>6 DEF PlaceOf
  <2>7. /\ run[r].cut <= last' /\ run[r].seen <= last'
        /\ run[r].at = "cap" => run[r].days \in Days
        /\ run[r].at \in {"count", "excess"} => run[r].age < BATCH_ROWS
    BY <1>1, <1>2, <2>1, <2>2 DEF PlaceOf
  <2> QED
    BY <2>1, <2>3, <2>4, <2>5, <2>6, <2>7 DEF PlaceOf
<1>7. Accounted'
  BY <1>1, <1>2, <1>3 DEF IInv, Accounted, Record, RowsInv, RunStates
<1> QED
  BY <1>4, <1>5, <1>6, <1>7 DEF IInv

\* What the clock and the admins do is read by a run at its next reading.
LEMMA OtherStep ==
    ASSUME IInv, TimePasses \/ SetRetention \/ SetCap PROVE IInv'
<1>1. UNCHANGED <<log, last, run, lock, reported, missed>>
  BY DEF TimePasses, SetRetention, SetCap
<1>2. /\ days' \in Days /\ cap' \in Caps /\ patches' \in 0..MaxPatches
      /\ horizon' \in [Days -> 0..last]
  <2>1. CASE TimePasses
    <3>1. PICK d \in Days : horizon[d] < last /\ horizon' = [horizon EXCEPT ![d] = @ + 1]
      BY <2>1 DEF TimePasses
    <3>2. horizon[d] + 1 \in 0..last
      BY <3>1, Sizes DEF IInv, RowsInv
    <3> QED
      BY <2>1, <3>1, <3>2 DEF TimePasses, settings, IInv, RowsInv
  <2>2. CASE SetRetention \/ SetCap
    BY <2>2, BoundsAssumption DEF SetRetention, SetCap, IInv, RowsInv
  <2> QED
    BY <2>1, <2>2
<1> QED
  BY <1>1, <1>2 DEF IInv, RowsInv, LockInv, PlaceInv, PlaceOf, NoMoreOld,
     NoMoreExcess, Accounted

\* A run that is past the lock is alone there.
LEMMA Alone ==
    ASSUME IInv, NEW r \in Runs, run[r].at \notin {"idle", "waiting"}
    PROVE  lock = r /\ \A o \in Runs \ {r} : run[o].at \in {"idle", "waiting"}
BY DEF IInv, LockInv

LEMMA KeepsLock ==
    ASSUME IInv, NEW r \in Runs, run[r].at \notin {"idle", "waiting"},
           run'[r].at \notin {"idle", "waiting"}, lock' = lock,
           \A o \in Runs \ {r} : run'[o] = run[o]
    PROVE  LockInv'
BY DEF IInv, LockInv

\* What a step of a run does to another that is at rest.
LEMMA AtRest ==
    ASSUME IInv, NEW o \in Runs, run[o].at \in {"idle", "waiting"},
           run'[o] = run[o], last' = last
    PROVE  PlaceOf(o)'
<1>1. PlaceOf(o)
  BY DEF IInv, PlaceInv
<1> QED
  BY <1>1 DEF PlaceOf, NoMoreOld, NoMoreExcess
\* The steps before the first batch.
LEMMA LockStep ==
    ASSUME IInv, NEW r \in Runs, Wake(r) \/ Lock(r) PROVE IInv'
<1>1. UNCHANGED <<log, last, horizon, days, cap, patches, reported, missed>>
  BY DEF Wake, Lock, settings
<1>2. /\ run[r].at \in {"idle", "waiting"}
      /\ \E at \in {"waiting", "days"} : run' = [run EXCEPT ![r].at = at]
  BY DEF Wake, Lock, Goes
<1>3. RowsInv'
  <2>1. run' \in [Runs -> RunStates]
    BY <1>2 DEF IInv, RowsInv, RunStates
  <2>2. lock' \in Runs \cup {"nobody"}
    BY DEF Wake, Lock, IInv, RowsInv
  <2> QED
    BY <1>1, <2>1, <2>2 DEF IInv, RowsInv
<1>4. LockInv'
  <2>1. \A o \in Runs \ {r} : run'[o] = run[o]
    BY <1>2 DEF IInv, RowsInv
  <2>2. CASE Wake(r)
    <3>1. run[r].at = "idle" /\ run'[r].at = "waiting" /\ lock' = lock
      BY <2>2 DEF Wake, Goes, IInv, RowsInv, RunStates
    <3> QED
      BY <2>1, <3>1 DEF IInv, LockInv
  <2>3. CASE Lock(r)
    <3>1. /\ run[r].at = "waiting" /\ run'[r].at = "days"
          /\ lock = "nobody" /\ lock' = r
      BY <2>3 DEF Lock, Goes, IInv, RowsInv, RunStates
    <3> QED
      BY <2>1, <3>1 DEF IInv, LockInv
  <2> QED
    BY <2>2, <2>3
<1>5. PlaceInv'
  BY <1>1, <1>2 DEF IInv, RowsInv, PlaceInv, PlaceOf, NoMoreOld, NoMoreExcess
<1>6. Accounted'
  BY <1>1, <1>2 DEF IInv, RowsInv, Accounted
<1> QED
  BY <1>3, <1>4, <1>5, <1>6 DEF IInv

LEMMA ReadStep ==
    ASSUME IInv, NEW r \in Runs, ReadDays(r) \/ ReadCap(r) PROVE IInv'
<1>1. UNCHANGED <<log, last, horizon, days, cap, patches, lock, reported, missed>>
  BY DEF ReadDays, ReadCap, settings
<1>2. /\ run[r].at \in {"days", "cap"} /\ run'[r].at \in {"cap", "age"}
      /\ \A o \in Runs \ {r} : run'[o] = run[o]
      /\ run'[r].by_age = run[r].by_age /\ run'[r].by_cap = run[r].by_cap
  <2>1. run \in [Runs -> RunStates] /\ run[r] \in RunStates
    BY DEF IInv, RowsInv
  <2>2. CASE ReadDays(r)
    BY <2>1, <2>2 DEF ReadDays, RunStates
  <2>3. CASE ReadCap(r)
    BY <2>1, <2>3 DEF ReadCap, RunStates
  <2> QED
    BY <2>2, <2>3
<1>3. /\ run' \in [Runs -> RunStates]
      /\ run'[r].at = "cap" => run'[r].days \in Days
      /\ run'[r].cut <= last /\ run'[r].seen <= last
  <2>1. PlaceOf(r)
    BY DEF IInv, PlaceInv
  <2>2. CASE ReadDays(r)
    BY <2>1, <2>2 DEF ReadDays, IInv, RowsInv, PlaceOf, RunStates
  <2>3. CASE ReadCap(r)
    <3>1. horizon[run[r].days] \in 0..last
      BY <2>1, <2>3 DEF ReadCap, IInv, RowsInv, PlaceOf
    <3>2. horizon[run[r].days] \in Nat /\ horizon[run[r].days] <= last
      BY <3>1, Sizes DEF IInv
    <3> QED
      BY <2>1, <2>3, <3>2 DEF ReadCap, IInv, RowsInv, PlaceOf, RunStates
  <2> QED
    BY <2>2, <2>3
<1>4. RowsInv'
  BY <1>1, <1>3 DEF IInv, RowsInv
<1>5. LockInv'
  BY <1>1, <1>2, KeepsLock
<1>6. PlaceInv'
  <2>1. PlaceOf(r)'
    BY <1>1, <1>2, <1>3 DEF PlaceOf, NoMoreOld, NoMoreExcess
  <2> QED
    BY <1>1, <1>2, <2>1, Alone, AtRest DEF PlaceInv
<1>7. Accounted'
  BY <1>1, <1>2 DEF IInv, Accounted
<1> QED
  BY <1>4, <1>5, <1>6, <1>7 DEF IInv

\* A batch of old rows: fewer than a batch only if there are no more of them.
LEMMA DeleteOldStep ==
    ASSUME IInv, NEW r \in Runs, DeleteOld(r) PROVE IInv'
<1> DEFINE old == {i \in log : i <= run[r].cut}
           gone == Oldest(old, BATCH_ROWS)
           n == Cardinality(gone)
<1>1. /\ run[r].at = "age" /\ log' = log \ gone
      /\ run' = [run EXCEPT ![r].at = IF n < BATCH_ROWS THEN "count" ELSE "next",
                            ![r].age = n, ![r].excess = 0,
                            ![r].by_age = run[r].by_age + n]
      /\ UNCHANGED <<last, horizon, lock, days, cap, patches, reported, missed>>
  BY DEF DeleteOld, settings
<1>2. /\ gone \subseteq old /\ n \in 0..BATCH_ROWS
      /\ Cardinality(log \ gone) = Cardinality(log) - n
      /\ n < BATCH_ROWS => gone = old
  BY Deletion, BoundsAssumption DEF IInv
<1>3. /\ log \subseteq Nat /\ IsFiniteSet(log) /\ Cardinality(log) \in Nat
      /\ last \in Nat
  BY Sizes DEF IInv
<1>4. n < BATCH_ROWS => \A i \in log' : i > run[r].cut
  <2>1. run[r].cut \in Nat
    BY RunTypes DEF IInv
  <2> HIDE DEF n, gone
  <2> QED
    BY <1>1, <1>2, <1>3, <2>1
<1> HIDE DEF n, gone, old
<1>5. /\ run'[r].at = (IF n < BATCH_ROWS THEN "count" ELSE "next")
      /\ run'[r].age = n /\ run'[r].excess = 0
      /\ run'[r].by_age = run[r].by_age + n /\ run'[r].by_cap = run[r].by_cap
      /\ run'[r].cut = run[r].cut /\ run'[r].seen = run[r].seen
      /\ run'[r].days = run[r].days /\ run'[r].cap = run[r].cap
      /\ \A o \in Runs \ {r} : run'[o] = run[o]
  BY <1>1 DEF IInv, RowsInv, RunStates
<1>6. RowsInv'
  <2>1. 0 \in 0..BATCH_ROWS /\ run[r].by_age + n \in Nat
    BY <1>2, BoundsAssumption, RunTypes DEF IInv
  <2>2. run' \in [Runs -> RunStates]
    BY <1>1, <1>2, <2>1 DEF IInv, RowsInv, RunStates
  <2> QED
    BY <1>1, <2>2 DEF IInv, RowsInv
<1>7. LockInv'
  <2>1. run'[r].at \in {"count", "next"} /\ run[r].at = "age" /\ lock' = lock
    BY <1>1, <1>5
  <2> QED
    BY <1>5, <2>1, KeepsLock
<1>8. PlaceInv'
  <2>1. PlaceOf(r)'
    <3>0. /\ run'[r].at \in {"count", "next"} /\ last' = last
          /\ run'[r].at = "count" => run'[r].age < BATCH_ROWS
      BY <1>1, <1>5
    <3>1. ~LastBatch(run'[r].age, run'[r].excess) \/ n < BATCH_ROWS
      BY <1>2, <1>5, BoundsAssumption DEF LastBatch
    <3>2. run[r].cut <= last /\ run[r].seen <= last
      BY DEF IInv, PlaceInv, PlaceOf
    <3>3. NoMoreOld(r)' => n < BATCH_ROWS
      BY <1>5, <3>1 DEF NoMoreOld
    <3>4. ~NoMoreExcess(r)'
      BY <1>5, <3>1 DEF NoMoreExcess
    <3> QED
      BY <1>4, <1>5, <3>0, <3>2, <3>3, <3>4 DEF PlaceOf
  <2> QED
    BY <1>1, <1>5, <2>1, Alone, AtRest DEF PlaceInv
<1>9. Accounted'
  <2>1. /\ run["daily"].by_age \in Nat /\ run["daily"].by_cap \in Nat
        /\ run["admin"].by_age \in Nat /\ run["admin"].by_cap \in Nat
        /\ reported \in Nat /\ missed \in Nat /\ n \in Nat
    BY <1>2, RunTypes, BoundsAssumption DEF IInv, RowsInv
  <2>2. /\ Cardinality(log') = Cardinality(log) - n /\ last' = last
        /\ reported' = reported /\ missed' = missed
    BY <1>1, <1>2
  <2>3. last - Cardinality(log) =
          reported + missed + run["daily"].by_age + run["daily"].by_cap
                   + run["admin"].by_age + run["admin"].by_cap
    BY DEF IInv, Accounted
  <2>4. CASE r = "daily"
    <3>1. /\ run'["daily"].by_age = run["daily"].by_age + n
          /\ run'["daily"].by_cap = run["daily"].by_cap
          /\ run'["admin"] = run["admin"]
      BY <1>5, <2>4
    <3> QED
      BY <1>3, <2>1, <2>2, <2>3, <3>1 DEF Accounted
  <2>5. CASE r = "admin"
    <3>1. /\ run'["admin"].by_age = run["admin"].by_age + n
          /\ run'["admin"].by_cap = run["admin"].by_cap
          /\ run'["daily"] = run["daily"]
      BY <1>5, <2>5
    <3> QED
      BY <1>3, <2>1, <2>2, <2>3, <3>1 DEF Accounted
  <2> QED
    BY <2>4, <2>5
<1> QED
  BY <1>6, <1>7, <1>8, <1>9 DEF IInv
\* The rows are counted: the excess is cut down to what the batch has left.
LEMMA CountStep ==
    ASSUME IInv, NEW r \in Runs, Count(r) PROVE IInv'
<1> DEFINE over == Cardinality(log) - run[r].cap
           some == IF over > 0 THEN Lesser(over, BATCH_ROWS - run[r].age) ELSE 0
<1>1. /\ run[r].at = "count"
      /\ run' = [run EXCEPT ![r].at = IF over > 0 THEN "excess" ELSE "next",
                            ![r].excess = some, ![r].seen = last]
      /\ UNCHANGED <<log, last, horizon, lock, days, cap, patches, reported, missed>>
  BY DEF Count, settings
<1>2. /\ Cardinality(log) \in Nat /\ last \in Nat /\ run[r].cap \in Nat
      /\ run[r].age \in Nat /\ BATCH_ROWS \in Nat /\ run[r].age < BATCH_ROWS
  BY <1>1, Sizes, RunTypes DEF IInv, PlaceInv, PlaceOf
<1>3. /\ some \in 0..BATCH_ROWS
      /\ over > 0 => /\ some <= BATCH_ROWS - run[r].age
                     /\ Cardinality(log) >= run[r].cap + some
                     /\ \/ some = BATCH_ROWS - run[r].age
                        \/ Cardinality(log) = run[r].cap + some
      /\ ~(over > 0) => Cardinality(log) <= run[r].cap
  BY <1>2 DEF Lesser
<1>4. over > 0 \/ ~(over > 0)
  OBVIOUS
<1> HIDE DEF some
<1>5. /\ run'[r].at = (IF over > 0 THEN "excess" ELSE "next")
      /\ run'[r].age = run[r].age /\ run'[r].excess = some
      /\ run'[r].by_age = run[r].by_age /\ run'[r].by_cap = run[r].by_cap
      /\ run'[r].cut = run[r].cut /\ run'[r].seen = last
      /\ run'[r].days = run[r].days /\ run'[r].cap = run[r].cap
      /\ \A o \in Runs \ {r} : run'[o] = run[o]
  BY <1>1 DEF IInv, RowsInv, RunStates
<1>6. RowsInv'
  <2>1. run' \in [Runs -> RunStates]
    BY <1>1, <1>2, <1>3 DEF IInv, RowsInv, RunStates
  <2> QED
    BY <1>1, <2>1 DEF IInv, RowsInv
<1> HIDE DEF over
<1>7. LockInv'
  <2>1. run'[r].at \in {"excess", "next"} /\ run[r].at = "count" /\ lock' = lock
    BY <1>1, <1>5
  <2> QED
    BY <1>5, <2>1, KeepsLock
<1>8. PlaceInv'
  <2>1. PlaceOf(r)'
    <3>1. /\ run[r].cut <= last /\ last <= last
          /\ \A i \in log : i > run[r].cut
      BY <1>1, <1>2 DEF IInv, PlaceInv, PlaceOf, NoMoreOld
    <3>2. last' = last /\ log' = log /\ last - last = 0
      BY <1>1, <1>2
    <3>3. CASE over > 0
      <4>1. run'[r].at = "excess"
        BY <1>5, <3>3
      <4>2. some \in Nat
        BY <1>2, <1>3
      <4> QED
        BY <1>2, <1>3, <1>5, <3>1, <3>2, <3>3, <4>1, <4>2 DEF PlaceOf, NoMoreExcess
    <3>4. CASE ~(over > 0)
      <4>1. run'[r].at = "next"
        BY <1>5, <3>4
      <4> QED
        BY <1>2, <1>3, <1>5, <3>1, <3>2, <3>4, <4>1 DEF PlaceOf
    <3> QED
      BY <3>3, <3>4
  <2> QED
    BY <1>1, <1>5, <2>1, Alone, AtRest DEF PlaceInv
<1>9. Accounted'
  BY <1>1, <1>5 DEF IInv, Accounted
<1> QED
  BY <1>6, <1>7, <1>8, <1>9 DEF IInv

\* The rest of the batch, of the rows above the cap: others have only added rows
\* since they were counted.
LEMMA DeleteExcessStep ==
    ASSUME IInv, NEW r \in Runs, DeleteExcess(r)
    PROVE  IInv' /\ Cardinality(log') >= run[r].cap
<1> DEFINE gone == Oldest(log, run[r].excess)
           n == Cardinality(gone)
<1>1. /\ run[r].at = "excess" /\ log' = log \ gone
      /\ run' = [run EXCEPT ![r].at = "next", ![r].excess = n,
                            ![r].by_cap = run[r].by_cap + n]
      /\ UNCHANGED <<last, horizon, lock, days, cap, patches, reported, missed>>
  BY DEF DeleteExcess, settings
<1>2. /\ Cardinality(log) \in Nat /\ last \in Nat /\ run[r].cap \in Nat
      /\ run[r].excess \in 0..BATCH_ROWS /\ run[r].excess \in Nat
      /\ run[r].age \in Nat /\ run[r].seen \in Nat /\ BATCH_ROWS \in Nat
      /\ log \subseteq Nat /\ IsFiniteSet(log)
  BY Sizes, RunTypes DEF IInv
<1>3. /\ n \in 0..run[r].excess
      /\ Cardinality(log \ gone) = Cardinality(log) - n
      /\ n < run[r].excess => gone = log
  BY <1>2, Deletion DEF IInv
<1>4. /\ run[r].cut <= last /\ run[r].seen <= last
      /\ \A i \in log : i > run[r].cut
      /\ run[r].excess <= BATCH_ROWS - run[r].age
      /\ Cardinality(log) >= run[r].cap + run[r].excess
      /\ \/ run[r].excess = BATCH_ROWS - run[r].age
         \/ Cardinality(log) = run[r].cap + run[r].excess + (last - run[r].seen)
  BY <1>1 DEF IInv, PlaceInv, PlaceOf, NoMoreOld
<1>5. n < run[r].excess => Cardinality(log') = 0
  <2>1. n < run[r].excess => log' = {}
    BY <1>1, <1>3
  <2> QED
    BY <2>1, FS_EmptySet
<1> HIDE DEF n, gone
<1>6. /\ run'[r].at = "next" /\ run'[r].age = run[r].age /\ run'[r].excess = n
      /\ run'[r].by_age = run[r].by_age /\ run'[r].by_cap = run[r].by_cap + n
      /\ run'[r].cut = run[r].cut /\ run'[r].seen = run[r].seen
      /\ run'[r].days = run[r].days /\ run'[r].cap = run[r].cap
      /\ \A o \in Runs \ {r} : run'[o] = run[o]
  BY <1>1 DEF IInv, RowsInv, RunStates
<1>7. Cardinality(log') = Cardinality(log) - n /\ n \in Nat /\ n <= run[r].excess
  BY <1>1, <1>2, <1>3
<1>8. RowsInv'
  <2>1. n \in 0..BATCH_ROWS /\ run[r].by_cap + n \in Nat
    BY <1>2, <1>7, RunTypes DEF IInv
  <2>2. run' \in [Runs -> RunStates]
    BY <1>1, <2>1 DEF IInv, RowsInv, RunStates
  <2> QED
    BY <1>1, <2>2 DEF IInv, RowsInv
<1>9. LockInv'
  BY <1>1, <1>6, KeepsLock
<1>10. PlaceInv'
  <2>1. PlaceOf(r)'
    <3>1. last' = last /\ log' \subseteq log
      BY <1>1
    <3>2. LastBatch(run'[r].age, run'[r].excess)
            => Cardinality(log') <= run[r].cap + (last - run[r].seen)
      <4>1. run[r].age + n < BATCH_ROWS
              => n < run[r].excess
                 \/ Cardinality(log) = run[r].cap + run[r].excess + (last - run[r].seen)
        BY <1>2, <1>4, <1>7
      <4>2. CASE n < run[r].excess
        BY <1>2, <1>4, <1>5, <4>2
      <4>3. CASE n = run[r].excess
        BY <1>2, <1>4, <1>6, <1>7, <4>1, <4>3 DEF LastBatch
      <4> QED
        BY <1>2, <1>7, <4>2, <4>3
    <3> QED
      BY <1>4, <1>6, <3>1, <3>2 DEF PlaceOf, NoMoreExcess
  <2> QED
    BY <1>1, <1>6, <2>1, Alone, AtRest DEF PlaceInv
<1>11. Accounted'
  <2>1. /\ run["daily"].by_age \in Nat /\ run["daily"].by_cap \in Nat
        /\ run["admin"].by_age \in Nat /\ run["admin"].by_cap \in Nat
        /\ reported \in Nat /\ missed \in Nat
    BY RunTypes DEF IInv, RowsInv
  <2>2. last' = last /\ reported' = reported /\ missed' = missed
    BY <1>1
  <2>3. last - Cardinality(log) =
          reported + missed + run["daily"].by_age + run["daily"].by_cap
                   + run["admin"].by_age + run["admin"].by_cap
    BY DEF IInv, Accounted
  <2>4. CASE r = "daily"
    <3>1. /\ run'["daily"].by_cap = run["daily"].by_cap + n
          /\ run'["daily"].by_age = run["daily"].by_age
          /\ run'["admin"] = run["admin"]
      BY <1>6, <2>4
    <3> QED
      BY <1>2, <1>7, <2>1, <2>2, <2>3, <3>1 DEF Accounted
  <2>5. CASE r = "admin"
    <3>1. /\ run'["admin"].by_cap = run["admin"].by_cap + n
          /\ run'["admin"].by_age = run["admin"].by_age
          /\ run'["daily"] = run["daily"]
      BY <1>6, <2>5
    <3> QED
      BY <1>2, <1>7, <2>1, <2>2, <2>3, <3>1 DEF Accounted
  <2> QED
    BY <2>4, <2>5
<1>12. Cardinality(log') >= run[r].cap
  BY <1>2, <1>4, <1>7
<1> QED
  BY <1>8, <1>9, <1>10, <1>11, <1>12 DEF IInv
LEMMA NextBatchStep ==
    ASSUME IInv, NEW r \in Runs, NextBatch(r) PROVE IInv'
<1> DEFINE ends == LastBatch(run[r].age, run[r].excess)
<1>1. /\ run[r].at = "next"
      /\ run' = [run EXCEPT ![r].at = IF ends THEN "record" ELSE "age"]
      /\ UNCHANGED <<log, last, horizon, lock, days, cap, patches, reported, missed>>
  BY DEF NextBatch, Goes, settings
<1>2. PlaceOf(r)
  BY DEF IInv, PlaceInv
<1>3. ends => NoMoreOld(r) /\ NoMoreExcess(r)
  BY <1>1 DEF NoMoreOld, NoMoreExcess
<1> HIDE DEF ends
<1>4. /\ run'[r].at = (IF ends THEN "record" ELSE "age")
      /\ run'[r].age = run[r].age /\ run'[r].excess = run[r].excess
      /\ run'[r].by_age = run[r].by_age /\ run'[r].by_cap = run[r].by_cap
      /\ run'[r].cut = run[r].cut /\ run'[r].seen = run[r].seen
      /\ run'[r].days = run[r].days /\ run'[r].cap = run[r].cap
      /\ \A o \in Runs \ {r} : run'[o] = run[o]
  BY <1>1 DEF IInv, RowsInv, RunStates
<1>5. RowsInv'
  BY <1>1 DEF IInv, RowsInv, RunStates
<1>6. LockInv'
  <2>1. run'[r].at \in {"record", "age"} /\ run[r].at = "next" /\ lock' = lock
    BY <1>1, <1>4
  <2> QED
    BY <1>4, <2>1, KeepsLock
<1>7. PlaceInv'
  <2>1. PlaceOf(r)'
    <3>1. CASE ends
      <4>1. run'[r].at = "record"
        BY <1>4, <3>1
      <4> QED
        BY <1>1, <1>2, <1>3, <1>4, <3>1, <4>1 DEF PlaceOf
    <3>2. CASE ~ends
      <4>1. run'[r].at = "age" /\ ~NoMoreOld(r)' /\ ~NoMoreExcess(r)'
        BY <1>4, <3>2 DEF NoMoreOld, NoMoreExcess
      <4> QED
        BY <1>1, <1>2, <1>4, <4>1 DEF PlaceOf
    <3> QED
      BY <3>1, <3>2
  <2> QED
    BY <1>1, <1>4, <2>1, Alone, AtRest DEF PlaceInv
<1>8. Accounted'
  BY <1>1, <1>4 DEF IInv, Accounted
<1> QED
  BY <1>5, <1>6, <1>7, <1>8 DEF IInv

\* What a run deleted passes to one of the two counts, and the lock is free.
LEMMA EndStep ==
    ASSUME IInv, NEW r \in Runs, RecordPrune(r) \/ Fails(r) PROVE IInv'
<1>1. /\ run' = [run EXCEPT ![r] = Idle] /\ lock' = "nobody"
      /\ UNCHANGED <<log, last, horizon, days, cap, patches>>
  BY DEF RecordPrune, Fails, Ends, settings
<1>2. run[r].at \notin {"idle", "waiting"}
  BY DEF RecordPrune, Fails, IInv, LockInv
<1>3. run'[r] = Idle /\ \A o \in Runs \ {r} : run'[o] = run[o]
  BY <1>1 DEF IInv, RowsInv
<1>4. /\ run["daily"].by_age \in Nat /\ run["daily"].by_cap \in Nat
      /\ run["admin"].by_age \in Nat /\ run["admin"].by_cap \in Nat
      /\ reported \in Nat /\ missed \in Nat
      /\ run[r].by_age \in Nat /\ run[r].by_cap \in Nat
  BY RunTypes DEF IInv, RowsInv
<1>5. /\ reported' \in Nat /\ missed' \in Nat
      /\ reported' + missed' = reported + missed + run[r].by_age + run[r].by_cap
  BY <1>4 DEF RecordPrune, Fails
<1>6. RowsInv'
  <2>1. Idle \in RunStates
    BY BoundsAssumption DEF Idle, RunStates
  <2> QED
    BY <1>1, <1>5, <2>1 DEF IInv, RowsInv
<1>7. LockInv'
  BY <1>1, <1>2, <1>3, Alone DEF LockInv, Idle
<1>8. PlaceInv'
  <2>1. PlaceOf(r)'
    BY <1>1, <1>3, Sizes DEF PlaceOf, NoMoreOld, NoMoreExcess, Idle, IInv
  <2> QED
    BY <1>1, <1>2, <1>3, <2>1, Alone, AtRest DEF PlaceInv
<1>9. Accounted'
  <2>1. last' = last /\ log' = log /\ run'[r].by_age = 0 /\ run'[r].by_cap = 0
    BY <1>1, <1>3 DEF Idle
  <2>2. last - Cardinality(log) =
          reported + missed + run["daily"].by_age + run["daily"].by_cap
                   + run["admin"].by_age + run["admin"].by_cap
    BY DEF IInv, Accounted
  <2>3. CASE r = "daily"
    <3>1. run'["admin"] = run["admin"]
      BY <1>3, <2>3
    <3> QED
      BY <1>4, <1>5, <2>1, <2>2, <2>3, <3>1 DEF Accounted
  <2>4. CASE r = "admin"
    <3>1. run'["daily"] = run["daily"]
      BY <1>3, <2>4
    <3> QED
      BY <1>4, <1>5, <2>1, <2>2, <2>4, <3>1 DEF Accounted
  <2> QED
    BY <2>3, <2>4
<1> QED
  BY <1>6, <1>7, <1>8, <1>9 DEF IInv

LEMMA Step == IInv /\ [Next]_vars => IInv'
<1> SUFFICES ASSUME IInv, [Next]_vars PROVE IInv'
  OBVIOUS
<1>1. CASE UNCHANGED vars
  BY <1>1 DEF vars, settings, IInv, RowsInv, LockInv, PlaceInv, PlaceOf,
     NoMoreOld, NoMoreExcess, Accounted
<1>2. CASE Record
  BY <1>2, RecordStep
<1>3. CASE TimePasses \/ SetRetention \/ SetCap
  BY <1>3, OtherStep
<1>4. ASSUME NEW r \in Runs, Wake(r) \/ RunStep(r) \/ Fails(r) PROVE IInv'
  BY <1>4, LockStep, ReadStep, DeleteOldStep, CountStep, DeleteExcessStep,
     NextBatchStep, EndStep DEF RunStep
<1> QED
  BY <1>1, <1>2, <1>3, <1>4 DEF Next

LEMMA Invariant == Spec => []IInv
BY Start, Step, PTL DEF Spec

-----------------------------------------------------------------------------
(* The theorems. *)

\* Every row that is gone is accounted for, in the prune log or by a prune that
\* is under way or was cut short (prune.py:76-77).
THEOREM AccountedHolds == Spec => []Accounted
BY Invariant, PTL DEF IInv

\* The first rows of the beginning of some rows are the beginning of them.
LEMMA OldestFirst ==
    ASSUME NEW S, S \subseteq Nat, IsFiniteSet(S), NEW n \in Nat,
           NEW i \in Oldest(S, n), NEW j \in S, j < i
    PROVE  j \in Oldest(S, n)
<1> DEFINE Before(m) == {k \in S : k < m}
<1>1. i \in S /\ Cardinality(Before(i)) < n
  BY DEF Oldest
<1>2. Before(j) \in SUBSET Before(i) /\ IsFiniteSet(Before(i))
  <2>1. \A k \in S : k < j => k < i
    <3>1. i \in Nat /\ j \in Nat
      BY <1>1
    <3> QED
      BY <3>1
  <2>2. Before(i) \in SUBSET S
    OBVIOUS
  <2> QED
    BY <2>1, <2>2, FS_Subset
<1>3. /\ Cardinality(Before(j)) <= Cardinality(Before(i))
      /\ Cardinality(Before(j)) \in Nat /\ Cardinality(Before(i)) \in Nat
  <2> HIDE DEF Before
  <2> QED
    BY <1>2, FS_Subset, FS_CardinalityType
<1>4. Cardinality(Before(j)) < n
  <2> HIDE DEF Before
  <2> QED
    BY <1>1, <1>3
<1> QED
  BY <1>4 DEF Oldest

\* No statement leaves a gap in the log.
LEMMA HolesStep ==
    ASSUME IInv, NoHoles, [Next]_vars
    PROVE  NoHoles'
<1>0. log \subseteq Nat /\ IsFiniteSet(log) /\ last \in Nat /\ log \subseteq 1..last
  BY Sizes DEF IInv, RowsInv
<1>1. ASSUME NEW S, S \subseteq log, \A i \in S, j \in log : j < i => j \in S,
             NEW n \in Nat, log' = log \ Oldest(S, n), last' = last
      PROVE  NoHoles'
  <2>1. S \subseteq Nat /\ IsFiniteSet(S)
    BY <1>0, <1>1, FS_Subset
  <2> SUFFICES ASSUME NEW i \in log', NEW k \in i..last PROVE k \notin Oldest(S, n)
    BY <1>1 DEF NoHoles
  <2>2. i \in log /\ i \in Nat /\ k \in log /\ k \in Nat
    BY <1>0, <1>1 DEF NoHoles
  <2>3. ASSUME k \in Oldest(S, n) PROVE FALSE
    <3>1. k \in S
      BY <2>3 DEF Oldest
    <3>2. i = k \/ i < k
      BY <2>2
    <3>3. CASE i < k
      <4>1. i \in S
        BY <1>1, <2>2, <3>1, <3>3
      <4> QED
        BY <1>1, <2>1, <2>3, <3>3, <4>1, OldestFirst
    <3> QED
      BY <1>1, <2>3, <3>2, <3>3
  <2> QED
    BY <2>3
<1>2. CASE Record
  BY <1>0, <1>2 DEF Record, NoHoles
<1>3. ASSUME NEW r \in Runs, DeleteOld(r) PROVE NoHoles'
  <2> DEFINE S == {i \in log : i <= run[r].cut}
  <2>1. run[r].cut \in Nat /\ BATCH_ROWS \in Nat
    BY RunTypes DEF IInv
  <2>2. ASSUME NEW i \in S, NEW j \in log, j < i PROVE j \in S
    <3>1. i \in Nat /\ j \in Nat /\ i <= run[r].cut
      BY <1>0
    <3>2. j <= run[r].cut
      BY <2>1, <2>2, <3>1
    <3> QED
      BY <3>2
  <2>3. log' = log \ Oldest(S, BATCH_ROWS) /\ last' = last
    BY <1>3 DEF DeleteOld
  <2> HIDE DEF S
  <2>4. S \subseteq log
    BY DEF S
  <2> QED
    BY <1>1, <2>1, <2>2, <2>3, <2>4
<1>4. ASSUME NEW r \in Runs, DeleteExcess(r) PROVE NoHoles'
  <2>1. run[r].excess \in Nat
    BY RunTypes DEF IInv
  <2>2. log' = log \ Oldest(log, run[r].excess) /\ last' = last
    BY <1>4 DEF DeleteExcess
  <2> QED
    BY <1>1, <2>1, <2>2
<1>5. ASSUME UNCHANGED <<log, last>> PROVE NoHoles'
  BY <1>5 DEF NoHoles
<1>6. ASSUME NEW r \in Runs,
             Wake(r) \/ Lock(r) \/ ReadDays(r) \/ ReadCap(r) \/ Count(r) \/ NextBatch(r)
               \/ RecordPrune(r) \/ Fails(r)
      PROVE  NoHoles'
  BY <1>5, <1>6 DEF Wake, Lock, ReadDays, ReadCap, Count, NextBatch, RecordPrune, Fails
<1>7. TimePasses \/ SetRetention \/ SetCap \/ UNCHANGED vars => NoHoles'
  BY <1>5 DEF TimePasses, SetRetention, SetCap, vars
<1> QED
  BY <1>2, <1>3, <1>4, <1>6, <1>7 DEF Next, RunStep

\* What is kept is the end of what was written: however deletions by age and by the
\* cap alternate, they take the oldest first (audit.py:141-163).
THEOREM NoHolesHolds == Spec => []NoHoles
<1>1. Init => NoHoles
  BY DEF Init, NoHoles
<1>2. IInv /\ NoHoles /\ [Next]_vars => NoHoles'
  BY HolesStep
<1> QED
  BY <1>1, <1>2, Invariant, PTL DEF Spec

\* Each variable has its type: no run has deleted more rows than there were.
THEOREM TypeCorrect == Spec => []TypeOK
<1>1. IInv => TypeOK
  <2> SUFFICES ASSUME IInv PROVE TypeOK
    OBVIOUS
  <2>1. /\ last \in 0..MaxRows /\ log \subseteq Ids
        /\ last \in Nat /\ MaxRows \in Nat /\ Cardinality(log) \in Nat
    BY Sizes, BoundsAssumption DEF IInv, RowsInv, Ids
  <2>2. /\ run["daily"].by_age \in 0..MaxRows /\ run["daily"].by_cap \in 0..MaxRows
        /\ run["admin"].by_age \in 0..MaxRows /\ run["admin"].by_cap \in 0..MaxRows
        /\ reported \in 0..MaxRows /\ missed \in 0..MaxRows
    <3>1. /\ run["daily"].by_age \in Nat /\ run["daily"].by_cap \in Nat
          /\ run["admin"].by_age \in Nat /\ run["admin"].by_cap \in Nat
          /\ reported \in Nat /\ missed \in Nat
      BY RunTypes DEF IInv, RowsInv
    <3> QED
      BY <2>1, <3>1 DEF IInv, Accounted
  <2>3. horizon \in [Days -> 0..MaxRows]
    BY <2>1 DEF IInv, RowsInv
  <2>4. ASSUME NEW r \in Runs
        PROVE  /\ run[r].at \in {"idle", "waiting", "days", "cap", "age", "count",
                                 "excess", "next", "record"}
               /\ run[r].days \in Days \cup {0} /\ run[r].cap \in Caps \cup {0}
               /\ run[r].cut \in 0..MaxRows /\ run[r].seen \in 0..MaxRows
               /\ run[r].age \in 0..BATCH_ROWS /\ run[r].excess \in 0..BATCH_ROWS
    <3>1. run[r] \in RunStates /\ run[r].cut <= last /\ run[r].seen <= last
      BY DEF IInv, RowsInv, PlaceInv, PlaceOf
    <3> QED
      BY <2>1, <3>1, RunTypes DEF RunStates, IInv
  <2> QED
    BY <2>1, <2>2, <2>3, <2>4 DEF TypeOK, IInv, RowsInv
<1> QED
  BY <1>1, Invariant, PTL

\* However counting and deleting are torn apart, the newest `cap' rows are spared
\* by the cap (audit.py:153-161).
THEOREM SparesTheCapHolds == Spec => SparesTheCap
<1>1. IInv /\ [Next]_vars =>
        [\A r \in Runs : DeleteExcess(r) => Cardinality(log') >= run[r].cap]_vars
  BY DeleteExcessStep
<1> QED
  BY <1>1, Invariant, PTL DEF Spec, SparesTheCap

\* A prune that ends of itself leaves nothing too old and no more than the cap
\* and what has come since it counted (prune.py:69-75).
THEOREM PrunedEnoughHolds == Spec => PrunedEnough
<1>1. IInv /\ [Next]_vars =>
        [\A r \in Runs : RecordPrune(r) =>
            /\ \A i \in log : i > run[r].cut
            /\ Cardinality(log) <= run[r].cap + (last - run[r].seen)]_vars
  BY DEF RecordPrune, IInv, PlaceInv, PlaceOf, NoMoreOld, NoMoreExcess
<1> QED
  BY <1>1, Invariant, PTL DEF Spec, PrunedEnough
=============================================================================
