------------------------------- MODULE AuditLog -------------------------------
(***************************************************************************)
(* The audit log of store/audit.py and the pruning of it by gateway/       *)
(* prune.py: once a day in a task of its own, and whenever an admin asks   *)
(* (api/settings.py), while tool calls and admins go on adding rows and    *)
(* changing the two settings it goes by.                                   *)
(*                                                                         *)
(* A row is its id.  Its age is what the retention settings tell apart:    *)
(* horizon[d] is the last id older than d days, the clock going forward.   *)
(* Vacuuming and the trimming of the prune log to 30 entries are left out. *)
(***************************************************************************)
EXTENDS Integers, FiniteSets

CONSTANTS
    Days,       \* values of audit_retention_days
    Caps,       \* values of audit_row_cap
    BATCH_ROWS,
    MaxRows,    \* bound: rows ever inserted
    MaxPatches  \* bound: changes of the settings

ASSUME BoundsAssumption ==
    /\ Days \subseteq Nat \ {0} /\ Days # {}
    /\ Caps \subseteq Nat \ {0} /\ Caps # {}
    /\ BATCH_ROWS \in Nat \ {0} /\ MaxRows \in Nat /\ MaxPatches \in Nat

VARIABLES
    log,        \* the rows of audit_log
    last,       \* the last id given
    horizon,    \* by number of days, the last id older than that
    days, cap,  \* the settings in the database
    lock,       \* who holds the pruner's lock, or "nobody"
    run,        \* of each run of run_once where it stands, and its locals
    patches,    \* changes of the settings so far
    reported,   \* history: deleted rows that audit_prune_log accounts for
    missed      \* history: deleted rows whose run ended by an exception

settings == <<days, cap, patches>>
vars == <<log, last, horizon, lock, run, settings, reported, missed>>

Runs == {"daily", "admin"}
Ids == 1..MaxRows

Idle == [at |-> "idle", days |-> 0, cap |-> 0, cut |-> 0, age |-> 0,
         excess |-> 0, by_age |-> 0, by_cap |-> 0, seen |-> 0]

TypeOK ==
    /\ log \subseteq Ids /\ last \in 0..MaxRows
    /\ horizon \in [Days -> 0..MaxRows]
    /\ days \in Days /\ cap \in Caps /\ patches \in 0..MaxPatches
    /\ lock \in Runs \cup {"nobody"}
    /\ \A r \in Runs :
          /\ run[r].at \in {"idle", "waiting", "days", "cap", "age", "count",
                            "excess", "next", "record"}
          /\ run[r].days \in Days \cup {0} /\ run[r].cap \in Caps \cup {0}
          /\ run[r].cut \in 0..MaxRows /\ run[r].seen \in 0..MaxRows
          /\ run[r].age \in 0..BATCH_ROWS /\ run[r].excess \in 0..BATCH_ROWS
          /\ run[r].by_age \in 0..MaxRows /\ run[r].by_cap \in 0..MaxRows
    /\ reported \in 0..MaxRows /\ missed \in 0..MaxRows

Init ==
    /\ log = {} /\ last = 0
    /\ horizon = [d \in Days |-> 0]
    /\ days \in Days /\ cap \in Caps /\ patches = 0
    /\ lock = "nobody"
    /\ run = [r \in Runs |-> Idle]
    /\ reported = 0 /\ missed = 0

Lesser(m, n) == IF m < n THEN m ELSE n

\* Seeded fault: the subquery has no ORDER BY, or the wrong one.
Newest(rows, n) == {i \in rows : Cardinality({j \in rows : j > i}) < n}

\* The first n of some rows, ORDER BY id.
Oldest(rows, n) == {i \in rows : Cardinality({j \in rows : j < i}) < n}

-----------------------------------------------------------------------------
(* Rows and settings. *)

\* record and record_admin.
Record ==
    /\ last < MaxRows
    /\ last' = last + 1
    /\ log' = log \cup {last'}
    /\ UNCHANGED <<horizon, lock, run, settings, reported, missed>>

TimePasses ==
    /\ \E d \in Days :
          /\ horizon[d] < last
          /\ \A e \in Days : e < d => horizon[e] > horizon[d]
          /\ horizon' = [horizon EXCEPT ![d] = @ + 1]
    /\ UNCHANGED <<log, last, lock, run, settings, reported, missed>>

\* patch_settings sets one after the other, each in a statement of its own.
SetRetention ==
    /\ patches < MaxPatches /\ patches' = patches + 1
    /\ days' \in Days /\ UNCHANGED cap
    /\ UNCHANGED <<log, last, horizon, lock, run, reported, missed>>

SetCap ==
    /\ patches < MaxPatches /\ patches' = patches + 1
    /\ cap' \in Caps /\ UNCHANGED days
    /\ UNCHANGED <<log, last, horizon, lock, run, reported, missed>>

-----------------------------------------------------------------------------
(* run_once. *)

Goes(r, at) == run' = [run EXCEPT ![r].at = at]

\* The daily task wakes, or an admin asks.
Wake(r) ==
    /\ run[r].at = "idle"
    /\ Goes(r, "waiting")
    /\ UNCHANGED <<log, last, horizon, lock, settings, reported, missed>>

\* Seeded fault: a run does not wait for the other.
LocksAnyway(r) ==
    /\ run[r].at = "waiting"
    /\ lock' = r /\ Goes(r, "days")
    /\ UNCHANGED <<log, last, horizon, settings, reported, missed>>

Lock(r) ==
    /\ run[r].at = "waiting" /\ lock = "nobody"
    /\ lock' = r /\ Goes(r, "days")
    /\ UNCHANGED <<log, last, horizon, settings, reported, missed>>

ReadDays(r) ==
    /\ run[r].at = "days"
    /\ run' = [run EXCEPT ![r].at = "cap", ![r].days = days]
    /\ UNCHANGED <<log, last, horizon, lock, settings, reported, missed>>

\* The cutoff is computed once, after both reads.
ReadCap(r) ==
    /\ run[r].at = "cap"
    /\ run' = [run EXCEPT ![r].at = "age", ![r].cap = cap,
                          ![r].cut = horizon[run[r].days]]
    /\ UNCHANGED <<log, last, horizon, lock, settings, reported, missed>>

\* prune_batch: up to a batch of rows that are too old, ...
DeleteOld(r) ==
    /\ run[r].at = "age"
    /\ LET gone == Oldest({i \in log : i <= run[r].cut}, BATCH_ROWS)
           n == Cardinality(gone) IN
       /\ log' = log \ gone
       /\ run' = [run EXCEPT ![r].at = IF n < BATCH_ROWS THEN "count" ELSE "next",
                             ![r].age = n, ![r].excess = 0,
                             ![r].by_age = @ + n]
    /\ UNCHANGED <<last, horizon, lock, settings, reported, missed>>

\* ... and if that was less than a batch, the rows are counted ...
Count(r) ==
    /\ run[r].at = "count"
    /\ LET excess == Cardinality(log) - run[r].cap IN
       run' = [run EXCEPT ![r].at = IF excess > 0 THEN "excess" ELSE "next",
                          ![r].excess = IF excess > 0
                                        THEN Lesser(excess, BATCH_ROWS - run[r].age)
                                        ELSE 0,
                          ![r].seen = last]
    /\ UNCHANGED <<log, last, horizon, lock, settings, reported, missed>>

\* Seeded fault: the total is what the last batch deleted.
DeletesUncounted(r) ==
    /\ run[r].at = "excess"
    /\ log' = log \ Oldest(log, run[r].excess)
    /\ run' = [run EXCEPT ![r].at = "next", ![r].by_cap = run[r].excess]
    /\ UNCHANGED <<last, horizon, lock, settings, reported, missed>>

\* ... and the oldest of those above the cap deleted, up to the rest of the batch.
DeleteExcess(r) ==
    /\ run[r].at = "excess"
    /\ LET gone == Oldest(log, run[r].excess) IN
       /\ log' = log \ gone
       /\ run' = [run EXCEPT ![r].at = "next", ![r].excess = Cardinality(gone),
                             ![r].by_cap = @ + Cardinality(gone)]
    /\ UNCHANGED <<last, horizon, lock, settings, reported, missed>>

\* Seeded fault: a batch that deleted nothing for its age is the last.
LastOfItsKind(age, excess) == age = 0 \/ age + excess < BATCH_ROWS

LastBatch(age, excess) == age + excess < BATCH_ROWS

NextBatch(r) ==
    /\ run[r].at = "next"
    /\ Goes(r, IF LastBatch(run[r].age, run[r].excess) THEN "record" ELSE "age")
    /\ UNCHANGED <<log, last, horizon, lock, settings, reported, missed>>

Ends(r) == run' = [run EXCEPT ![r] = Idle] /\ lock' = "nobody"

\* record_prune, if anything was deleted, and the lock is let go.
RecordPrune(r) ==
    /\ run[r].at = "record"
    /\ reported' = reported + run[r].by_age + run[r].by_cap
    /\ Ends(r)
    /\ UNCHANGED <<log, last, horizon, settings, missed>>

\* A statement raises, or stop() cancels the task: the rest is left for the next
\* run and what has been deleted is not recorded.
Fails(r) ==
    /\ lock = r
    /\ missed' = missed + run[r].by_age + run[r].by_cap
    /\ Ends(r)
    /\ UNCHANGED <<log, last, horizon, settings, reported>>

-----------------------------------------------------------------------------
RunStep(r) ==
    \/ Lock(r) \/ ReadDays(r) \/ ReadCap(r)
    \/ DeleteOld(r) \/ Count(r) \/ DeleteExcess(r) \/ NextBatch(r)
    \/ RecordPrune(r)

Next ==
    \/ Record \/ TimePasses \/ SetRetention \/ SetCap
    \/ \E r \in Runs : Wake(r) \/ RunStep(r) \/ Fails(r)

Spec == Init /\ [][Next]_vars

-----------------------------------------------------------------------------
(* Properties. *)

\* The cap takes no row that is among the newest `cap', though the rows are
\* counted in one statement and deleted in another and two prunes may be asked
\* for at once (docs/runbooks.md:114-116; audit.py:153-161).
SparesTheCap ==
    [][\A r \in Runs : DeleteExcess(r) => Cardinality(log') >= run[r].cap]_vars

\* When a prune ends of itself, nothing it found too old is left, and no more
\* rows than the cap but for those that have come since it counted last,
\* whatever the sizes of its batches (prune.py:69-75).
PrunedEnough ==
    [][\A r \in Runs : RecordPrune(r) =>
          /\ \A i \in log : i > run[r].cut
          /\ Cardinality(log) <= run[r].cap + (last - run[r].seen)]_vars

\* What is kept is the end of what was written, without a gap: deletions by age and
\* by the cap, in batches and between new rows, together still take the oldest
\* first (audit.py:141-163: "first by age, then by count cap, oldest first").
NoHoles == \A i \in log : i..last \subseteq log

\* Every row that is gone is accounted for in the prune log, but for those of a
\* prune that is under way or was cut short (prune.py:76-77).
Accounted ==
    last - Cardinality(log) =
        reported + missed + run["daily"].by_age + run["daily"].by_cap
                 + run["admin"].by_age + run["admin"].by_cap
=============================================================================
