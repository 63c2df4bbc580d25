---------------------------- MODULE RestoreProofs ----------------------------
(***************************************************************************)
(* Theorems about Restore, for any number of handlers, tokens, keys, writes *)
(* and crashes, with or without a rotation of the key.                      *)
(***************************************************************************)
EXTENDS Restore, TLAPS

\* The database is away only while a staged one is on its way into its place;
\* handlers, which have a token, and the rotation command work on one that is there.
PlaceInv ==
    /\ live = None => pc \in {"down", "applying"} /\ pending # None
    /\ pc = "applying" => live = None
    /\ pc \in {"opening", "migrating", "checking"} => pending = None
    /\ \A a \in Admins :
          admin[a].at # "idle" => pc \in Serving /\ admin[a].token \in Tokens
    /\ cli # "idle" => pc \in Serving \cup {"leaving"}

\* A token stands for one file, the one that was reported on, as long as it is
\* there.
ShownInv ==
    /\ \A a \in Admins :
          /\ admin[a].at = "inspect" =>
                shown[admin[a].token] = None /\ incoming[admin[a].token] # None
          /\ admin[a].at \in {"snapshot", "stage"} =>
                incoming[admin[a].token] = shown[admin[a].token]
    /\ \A a, b \in Admins :
          admin[a].at = "inspect" /\ admin[b].at = "inspect"
            /\ admin[a].token = admin[b].token => a = b
    /\ \A t \in Tokens : shown[t] # None => incoming[t] = shown[t]

\* Every database that is, or may yet be put, in the place has been booted ...
KeyedInv ==
    /\ live # None => live.key # None
    /\ pending # None => pending.key # None
    /\ \A t \in Tokens : shown[t] # None => shown[t].key # None

\* ... and until a rotation it was under the key the container has.
FitInv ==
    /\ cli = "done" \/ pc = "failed" => turned
    /\ ~turned =>
          /\ live # None => live.key = env
          /\ pending # None => pending.key = env
          /\ \A t \in Tokens : shown[t] # None => shown[t].key = env
          /\ pc # "down" => key = env

StagedInv == "locked" \notin Faults => StagedMeansStopping

\* The writes a confirm saw are in the database, then in its newest snapshot,
\* then in the one behind those taken since.
KeptInv ==
    /\ \A a \in Admins : admin[a].at \in {"snapshot", "stage"} =>
          admin[a].rows \subseteq live.rows
    /\ \A a \in Admins : admin[a].at = "stage" =>
          Len(snaps) >= 1 /\ admin[a].rows \subseteq snaps[1].rows
    /\ pending # None /\ since < KEEP =>
          since + 1 <= Len(snaps) /\ asked \subseteq snaps[since + 1].rows

FilesInv == TypeOK /\ snaps \in Seq(Images)

IInv == FilesInv /\ PlaceInv /\ StagedInv /\ KeptInv

\* What depends on a token standing for one file.
ReportInv == ShownInv /\ KeyedInv /\ FitInv

-----------------------------------------------------------------------------
USE DEF Serving, PCs, files, process, history

\* The parts of TypeOK the steps below turn on.
AdminStates ==
    [at : {"idle", "inspect", "snapshot", "stage", "record"},
     token : Tokens \cup {None}, rows : SUBSET (1..MaxWrites)]

LEMMA Types ==
    ASSUME FilesInv
    PROVE  /\ admin \in [Admins -> AdminStates]
           /\ written \in 0..MaxWrites /\ crashes \in 0..MaxCrashes
           /\ KEEP \in Nat \ {0} /\ MaxWrites \in Nat /\ MaxCrashes \in Nat
           /\ since \in 0..KEEP /\ 0 \in 0..KEEP
<1>1. KEEP \in Nat \ {0} /\ MaxWrites \in Nat /\ MaxCrashes \in Nat
  BY BoundsAssumption
<1> QED
  BY <1>1 DEF FilesInv, TypeOK, AdminStates

\* What taking a snapshot does to the list.
LEMMA Snapshots ==
    ASSUME FilesInv, live # None, Snapshot
    PROVE  /\ snaps' \in Seq(Images) /\ Len(snaps') \in 1..KEEP
           /\ snaps'[1] = live
           /\ \A i \in 1..Len(snaps) : i < KEEP =>
                 i + 1 <= Len(snaps') /\ snaps'[i + 1] = snaps[i]
           /\ since' \in 0..KEEP
           /\ pending # None /\ since' < KEEP => since' = since + 1
<1> DEFINE all == <<live>> \o snaps
           n == IF Len(all) < KEEP THEN Len(all) ELSE KEEP
<1>1. live \in Images /\ snaps \in Seq(Images) /\ KEEP \in Nat \ {0} /\ since \in 0..KEEP
  BY BoundsAssumption DEF FilesInv, TypeOK
<1>2. all \in Seq(Images) /\ Len(all) = Len(snaps) + 1 /\ Len(snaps) \in Nat
  BY <1>1
<1>3. all[1] = live /\ \A i \in 1..Len(snaps) : all[i + 1] = snaps[i]
  BY <1>1
<1>4. n \in 1..Len(all) /\ n <= KEEP /\ n \in Nat
      /\ \A i \in 1..Len(snaps) : i < KEEP => i + 1 <= n
  BY <1>1, <1>2
<1>5. snaps' = SubSeq(all, 1, n)
  BY DEF Snapshot, Kept
<1> HIDE DEF all, n
<1>6. snaps' \in Seq(Images) /\ Len(snaps') = n /\ \A i \in 1..n : snaps'[i] = all[i]
  BY <1>2, <1>4, <1>5
<1>7. since' \in 0..KEEP /\ (pending # None /\ since' < KEEP => since' = since + 1)
  BY <1>1 DEF Snapshot
<1> QED
  BY <1>1, <1>2, <1>3, <1>4, <1>6, <1>7

\* What the writes do to the database.
LEMMA Edits ==
    ASSUME FilesInv, PlaceInv,
           Migrate \/ CheckKey \/ Commit \/ RefreshWrites \/ RotateCommits
    PROVE  /\ live # None /\ live' # None /\ live' \in Images
           /\ live.rows \subseteq live'.rows
           /\ \/ live'.key = live.key
              \/ live.key = None
              \/ turned' /\ live'.key # None
<1>1. live # None /\ live \in Images /\ key \in Keys
  <2>1. live # None
    BY DEF PlaceInv, Migrate, CheckKey, Commit, RefreshWrites, RotateCommits
  <2> QED
    BY <2>1 DEF FilesInv, TypeOK
<1>2. CASE Migrate
  BY <1>1, <1>2, NamesAssumption DEF Migrate, Images
<1>3. CASE CheckKey
  BY <1>1, <1>3, NamesAssumption DEF CheckKey, Images
<1>4. CASE Commit
  <2>1. written' \in 1..MaxWrites
    BY <1>4, BoundsAssumption DEF Commit, FilesInv, TypeOK
  <2> QED
    BY <1>1, <1>4, <2>1, NamesAssumption DEF Commit, Images
<1>5. CASE RefreshWrites
  BY <1>1, <1>5, NamesAssumption DEF RefreshWrites, Images
<1>6. CASE RotateCommits
  BY <1>1, <1>6, NamesAssumption DEF RotateCommits, Images
<1> QED
  BY <1>2, <1>3, <1>4, <1>5, <1>6

\* Whoever takes a snapshot has a database to take it of.
LEMMA Taken ==
    ASSUME FilesInv, PlaceInv,
           TakeSnapshot \/ RotateSnapshots \/ \E a \in Admins : SnapshotFirst(a)
    PROVE  /\ snaps' \in Seq(Images) /\ Len(snaps') \in 1..KEEP
           /\ snaps'[1] = live
           /\ \A i \in 1..Len(snaps) : i < KEEP =>
                 i + 1 <= Len(snaps') /\ snaps'[i + 1] = snaps[i]
           /\ since' \in 0..KEEP
           /\ pending # None /\ since' < KEEP => since' = since + 1
           /\ 1 <= Len(snaps')
           /\ Len(snaps') <= KEEP /\ \A i \in 1..Len(snaps') : snaps'[i] \in Images
<1>1. live # None /\ Snapshot
  BY DEF PlaceInv, TakeSnapshot, RotateSnapshots, SnapshotFirst
<1>2. KEEP \in Nat
  BY BoundsAssumption
<1> QED
  BY <1>1, <1>2, Snapshots

\* The snapshot a restore can be taken back with moves down with the others.
LEMMA Deeper ==
    ASSUME FilesInv, PlaceInv, KeptInv,
           TakeSnapshot \/ RotateSnapshots \/ \E a \in Admins : SnapshotFirst(a)
    PROVE  pending' # None /\ since' < KEEP =>
              since' + 1 <= Len(snaps') /\ asked' \subseteq snaps'[since' + 1].rows
<1> SUFFICES ASSUME pending' # None, since' < KEEP
             PROVE  since' + 1 <= Len(snaps') /\ asked' \subseteq snaps'[since' + 1].rows
  OBVIOUS
<1>1. pending' = pending /\ asked' = asked
  BY DEF TakeSnapshot, RotateSnapshots, SnapshotFirst
<1>2. since \in Nat /\ KEEP \in Nat /\ Len(snaps) \in Nat
  BY BoundsAssumption DEF FilesInv, TypeOK
<1>3. since' = since + 1 /\ since < KEEP /\ since + 1 < KEEP
  BY <1>1, <1>2, Taken
<1>4. since + 1 \in 1..Len(snaps) /\ asked \subseteq snaps[since + 1].rows
  BY <1>1, <1>2, <1>3 DEF KeptInv
<1>5. (since + 1) + 1 <= Len(snaps') /\ snaps'[(since + 1) + 1] = snaps[since + 1]
  BY <1>3, <1>4, Taken
<1> QED
  BY <1>1, <1>3, <1>4, <1>5

\* The two outcomes of an inspection.
LEMMA Inspected ==
    ASSUME FilesInv, PlaceInv, NEW a \in Admins, Inspect(a)
    PROVE  \E t \in Tokens :
              /\ admin[a].at = "inspect" /\ admin[a].token = t
              /\ admin' = [admin EXCEPT ![a] = Idle]
              /\ \/ /\ incoming[t] \in Images /\ incoming[t] # None
                    /\ incoming[t].key = key
                    /\ shown' = [shown EXCEPT ![t] = incoming[t]]
                    /\ incoming' = incoming
                 \/ /\ incoming' = [incoming EXCEPT ![t] = None] /\ shown' = shown
<1> DEFINE t == admin[a].token
<1>1. admin[a].at = "inspect" /\ admin' = [admin EXCEPT ![a] = Idle]
  BY DEF Inspect, Ends
<1>2. t \in Tokens /\ incoming[t] \in Images \cup {None}
  BY <1>1 DEF PlaceInv, FilesInv, TypeOK
<1> QED
  BY <1>1, <1>2 DEF Inspect, Passes

\* The two outcomes of staging.
StageOutcome(a, t) ==
    /\ admin[a].at = "stage" /\ admin[a].token = t
    /\ \/ /\ incoming[t] = None /\ admin' = [admin EXCEPT ![a] = Idle]
          /\ UNCHANGED <<pending, incoming, shown, asked, since>>
       \/ /\ incoming[t] # None /\ incoming[t] \in Images
          /\ pending' = incoming[t]
          /\ incoming' = [incoming EXCEPT ![t] = None]
          /\ shown' = [shown EXCEPT ![t] = None]
          /\ asked' = admin[a].rows /\ since' = 0
          /\ admin' = [admin EXCEPT ![a].at = "record"]

LEMMA Staged ==
    ASSUME FilesInv, PlaceInv, NEW a \in Admins, Stage(a)
    PROVE  \E t \in Tokens : StageOutcome(a, t)
<1> DEFINE t == admin[a].token
<1>1. admin[a].at = "stage"
  BY DEF Stage
<1>2. t \in Tokens /\ incoming[t] \in Images \cup {None}
  BY <1>1 DEF PlaceInv, FilesInv, TypeOK
<1> QED
  BY <1>1, <1>2 DEF Stage, Ends, Moves, StageOutcome

\* What may be uploaded has the shape of a database.
LEMMA UploadTypes == FilesInv => Uploads \subseteq Images
<1> SUFFICES ASSUME FilesInv PROVE Uploads \subseteq Images
  OBVIOUS
<1>1. \A i \in 1..Len(snaps) : snaps[i] \in Images
  BY DEF FilesInv
<1>2. \A k \in Keys \cup {None} :
        [key |-> k, cred |-> k, old |-> FALSE, rows |-> {}] \in Images
  BY DEF Images
<1> QED
  BY <1>1, <1>2 DEF Uploads

\* Only a boot with a staged file takes the database away, and puts it there.
LEMMA PlaceStep ==
    ASSUME IInv, Next
    PROVE  PlaceInv'
<1>1. FilesInv /\ PlaceInv
  BY DEF IInv
<1>2. CASE Start \/ Apply \/ Open
  BY <1>1, <1>2 DEF Start, Apply, Open, LeavesPending, PlaceInv, FilesInv,
     TypeOK
<1>3. CASE Migrate
  BY <1>1, <1>3, Snapshots, Edits DEF Migrate, PlaceInv, FilesInv, TypeOK
<1>4. CASE CheckKey
  BY <1>1, <1>4, Edits DEF CheckKey, PlaceInv, FilesInv, TypeOK
<1>5. CASE SetKey \/ Leave \/ ForceExit
  BY <1>1, <1>5 DEF SetKey, Leave, ForceExit, Gone, Idle, PlaceInv, FilesInv,
     TypeOK
<1>6. CASE Crash
  BY <1>1, <1>6 DEF Crash, Gone, Idle, PlaceInv, FilesInv, TypeOK
<1>7. CASE Restart \/ TearDown
  BY <1>1, <1>7 DEF Restart, TearDown, Begin, Idle, PlaceInv, FilesInv, TypeOK
<1>8. CASE TakeSnapshot
  BY <1>1, <1>8, Taken DEF TakeSnapshot, PlaceInv, FilesInv, TypeOK
<1>9. CASE Commit
  BY <1>1, <1>9, Edits DEF Commit, PlaceInv, FilesInv, TypeOK
<1>10. CASE RefreshReads \/ RotateProves
  BY <1>1, <1>10 DEF RefreshReads, RotateProves, PlaceInv, FilesInv, TypeOK
<1>11. CASE RefreshWrites
  BY <1>1, <1>11, Edits DEF RefreshWrites, PlaceInv, FilesInv, TypeOK
<1>12. ASSUME NEW a \in Admins, Inspect(a) PROVE PlaceInv'
  BY <1>1, <1>12 DEF Inspect, Ends, Passes, Idle, PlaceInv, FilesInv, TypeOK
<1>13. ASSUME NEW a \in Admins, SnapshotFirst(a) PROVE PlaceInv'
  BY <1>1, <1>13, Taken DEF SnapshotFirst, Moves, PlaceInv, FilesInv, TypeOK
<1>14. ASSUME NEW a \in Admins, Stage(a) PROVE PlaceInv'
  <2>1. PICK t \in Tokens : StageOutcome(a, t)
    BY <1>1, <1>14, Staged
  <2>2. pc \in Serving /\ live # None /\ UNCHANGED <<live, pc, cli>>
    BY <1>1, <1>14 DEF Stage, process, PlaceInv, Serving
  <2>3. \A b \in Admins : admin'[b].at # "idle" => admin'[b].token \in Tokens
    BY <1>1, <2>1, Types DEF StageOutcome, Idle, AdminStates, PlaceInv
  <2> QED
    BY <1>1, <2>2, <2>3 DEF PlaceInv, Serving
<1>15. ASSUME NEW a \in Admins, Record(a) PROVE PlaceInv'
  BY <1>1, <1>15 DEF Record, Ends, Begin, Idle, PlaceInv, FilesInv, TypeOK
<1>16. ASSUME NEW a \in Admins, NEW t \in Tokens, Upload(a, t) PROVE PlaceInv'
  BY <1>1, <1>16, UploadTypes DEF Upload, FreshToken, Unused, PlaceInv,
     FilesInv, TypeOK
<1>17. ASSUME NEW a \in Admins, NEW t \in Tokens, Confirm(a, t) PROVE PlaceInv'
  BY <1>1, <1>17 DEF Confirm, PlaceInv, FilesInv, TypeOK
<1>18. ASSUME NEW t \in Tokens, Discard(t) PROVE PlaceInv'
  BY <1>1, <1>18 DEF Discard, PlaceInv, FilesInv, TypeOK
<1>19. CASE RotateSnapshots
  BY <1>1, <1>19, Taken DEF RotateSnapshots, PlaceInv, FilesInv, TypeOK
<1>20. CASE RotateCommits
  BY <1>1, <1>20, Edits DEF RotateCommits, PlaceInv, FilesInv, TypeOK
<1> QED
  BY <1>2, <1>3, <1>4, <1>5, <1>6, <1>7, <1>8, <1>9, <1>10, <1>11, <1>12,
     <1>13, <1>14, <1>15, <1>16, <1>17, <1>18, <1>19, <1>20 DEF Next,
     BootSteps, ExitSteps, HandlerSteps, RotateSteps

\* A token is free again only when nobody holds it.
LEMMA ShownStep ==
    ASSUME IInv, ReportInv, Next, "sameSecond" \notin Faults
    PROVE  ShownInv'
<1>1. FilesInv /\ PlaceInv /\ ShownInv
  BY DEF IInv, ReportInv
<1>2. CASE Start \/ Apply \/ Open
  BY <1>1, <1>2 DEF Start, Apply, Open, LeavesPending, ShownInv, FilesInv,
     TypeOK
<1>3. CASE Migrate
  BY <1>1, <1>3, Snapshots, Edits DEF Migrate, ShownInv, FilesInv, TypeOK
<1>4. CASE CheckKey
  BY <1>1, <1>4, Edits DEF CheckKey, ShownInv, FilesInv, TypeOK
<1>5. CASE SetKey \/ Leave \/ ForceExit
  BY <1>1, <1>5 DEF SetKey, Leave, ForceExit, Gone, Idle, ShownInv, FilesInv,
     TypeOK
<1>6. CASE Crash
  BY <1>1, <1>6 DEF Crash, Gone, Idle, ShownInv, FilesInv, TypeOK
<1>7. CASE Restart \/ TearDown
  BY <1>1, <1>7 DEF Restart, TearDown, Begin, Idle, ShownInv, FilesInv, TypeOK
<1>8. CASE TakeSnapshot
  BY <1>1, <1>8, Taken DEF TakeSnapshot, ShownInv, FilesInv, TypeOK
<1>9. CASE Commit
  BY <1>1, <1>9, Edits DEF Commit, ShownInv, FilesInv, TypeOK
<1>10. CASE RefreshReads \/ RotateProves
  BY <1>1, <1>10 DEF RefreshReads, RotateProves, ShownInv, FilesInv, TypeOK
<1>11. CASE RefreshWrites
  BY <1>1, <1>11, Edits DEF RefreshWrites, ShownInv, FilesInv, TypeOK
<1>12. ASSUME NEW a \in Admins, Inspect(a) PROVE ShownInv'
  BY <1>1, <1>12 DEF Inspect, Ends, Passes, Idle, ShownInv, PlaceInv, FilesInv,
     TypeOK
<1>13. ASSUME NEW a \in Admins, SnapshotFirst(a) PROVE ShownInv'
  BY <1>1, <1>13, Taken DEF SnapshotFirst, Moves, ShownInv, FilesInv, TypeOK
<1>14. ASSUME NEW a \in Admins, Stage(a) PROVE ShownInv'
  <2>1. PICK t \in Tokens : StageOutcome(a, t)
    BY <1>1, <1>14, Staged
  <2>3. \A b \in Admins : admin'[b].at \in {"inspect", "snapshot", "stage"} =>
           b # a /\ admin'[b] = admin[b]
    BY <1>1, <2>1, Types DEF Idle, AdminStates, StageOutcome
  <2>5. \A b \in Admins : admin[b].at = "inspect" => admin[b].token # t
    BY <1>1, <2>1 DEF ShownInv, StageOutcome
  <2>6. \A u \in Tokens : u # t => shown'[u] = shown[u] /\ incoming'[u] = incoming[u]
    BY <1>1, <2>1 DEF FilesInv, TypeOK, StageOutcome
  <2>7. \/ shown'[t] = None /\ incoming'[t] = None
        \/ shown' = shown /\ incoming' = incoming
    BY <1>1, <2>1 DEF FilesInv, TypeOK, StageOutcome
  <2>8. \A b \in Admins : admin'[b].at \in {"inspect", "snapshot", "stage"} =>
           admin'[b].token \in Tokens
    BY <1>1, <2>3 DEF PlaceInv
  <2>9. \A b \in Admins :
          /\ admin'[b].at = "inspect" =>
                shown'[admin'[b].token] = None /\ incoming'[admin'[b].token] # None
          /\ admin'[b].at \in {"snapshot", "stage"} =>
                incoming'[admin'[b].token] = shown'[admin'[b].token]
    BY <1>1, <2>3, <2>5, <2>6, <2>7, <2>8 DEF ShownInv
  <2>10. \A b, c \in Admins :
           admin'[b].at = "inspect" /\ admin'[c].at = "inspect"
             /\ admin'[b].token = admin'[c].token => b = c
    BY <1>1, <2>3 DEF ShownInv
  <2>11. \A u \in Tokens : shown'[u] # None => incoming'[u] = shown'[u]
    BY <1>1, <2>6, <2>7 DEF ShownInv
  <2> QED
    BY <2>9, <2>10, <2>11 DEF ShownInv
<1>15. ASSUME NEW a \in Admins, Record(a) PROVE ShownInv'
  BY <1>1, <1>15 DEF Record, Ends, Begin, Idle, ShownInv, FilesInv, TypeOK
<1>16. ASSUME NEW a \in Admins, NEW t \in Tokens, Upload(a, t) PROVE ShownInv'
  BY <1>1, <1>16, UploadTypes DEF Upload, FreshToken, Unused, ShownInv,
     FilesInv, TypeOK
<1>17. ASSUME NEW a \in Admins, NEW t \in Tokens, Confirm(a, t) PROVE ShownInv'
  BY <1>1, <1>17 DEF Confirm, Known, ShownInv, FilesInv, TypeOK
<1>18. ASSUME NEW t \in Tokens, Discard(t) PROVE ShownInv'
  BY <1>1, <1>18 DEF Discard, ShownInv, FilesInv, TypeOK
<1>19. CASE RotateSnapshots
  BY <1>1, <1>19, Taken DEF RotateSnapshots, ShownInv, FilesInv, TypeOK
<1>20. CASE RotateCommits
  BY <1>1, <1>20, Edits DEF RotateCommits, ShownInv, FilesInv, TypeOK
<1> QED
  BY <1>2, <1>3, <1>4, <1>5, <1>6, <1>7, <1>8, <1>9, <1>10, <1>11, <1>12,
     <1>13, <1>14, <1>15, <1>16, <1>17, <1>18, <1>19, <1>20 DEF Next,
     BootSteps, ExitSteps, HandlerSteps, RotateSteps

\* An upload that is no database of a gateway is not reported on.
LEMMA KeyedStep ==
    ASSUME IInv, ReportInv, Next, "sameSecond" \notin Faults
    PROVE  KeyedInv'
<1>1. FilesInv /\ PlaceInv /\ ShownInv /\ KeyedInv
  BY DEF IInv, ReportInv
<1>2. CASE Start \/ Apply \/ Open
  BY <1>1, <1>2 DEF Start, Apply, Open, LeavesPending, KeyedInv, ShownInv,
     PlaceInv, FilesInv, TypeOK
<1>3. CASE Migrate
  BY <1>1, <1>3, Snapshots, Edits DEF Migrate, KeyedInv, ShownInv, PlaceInv,
     FilesInv, TypeOK
<1>4. CASE CheckKey
  BY <1>1, <1>4, Edits DEF CheckKey, KeyedInv, ShownInv, PlaceInv, FilesInv,
     TypeOK
<1>5. CASE SetKey \/ Leave \/ ForceExit
  BY <1>1, <1>5 DEF SetKey, Leave, ForceExit, Gone, Idle, KeyedInv, ShownInv,
     PlaceInv, FilesInv, TypeOK
<1>6. CASE Crash
  BY <1>1, <1>6 DEF Crash, Gone, Idle, KeyedInv, ShownInv, PlaceInv, FilesInv,
     TypeOK
<1>7. CASE Restart \/ TearDown
  BY <1>1, <1>7 DEF Restart, TearDown, Begin, Idle, KeyedInv, ShownInv,
     PlaceInv, FilesInv, TypeOK
<1>8. CASE TakeSnapshot
  BY <1>1, <1>8, Taken DEF TakeSnapshot, KeyedInv, ShownInv, PlaceInv,
     FilesInv, TypeOK
<1>9. CASE Commit
  BY <1>1, <1>9, Edits DEF Commit, KeyedInv, ShownInv, PlaceInv, FilesInv,
     TypeOK
<1>10. CASE RefreshReads \/ RotateProves
  BY <1>1, <1>10 DEF RefreshReads, RotateProves, KeyedInv, ShownInv, PlaceInv,
     FilesInv, TypeOK
<1>11. CASE RefreshWrites
  BY <1>1, <1>11, Edits DEF RefreshWrites, KeyedInv, ShownInv, PlaceInv,
     FilesInv, TypeOK
<1>12. ASSUME NEW a \in Admins, Inspect(a) PROVE KeyedInv'
  <2>1. PICK t \in Tokens :
            /\ admin[a].at = "inspect" /\ admin[a].token = t
            /\ admin' = [admin EXCEPT ![a] = Idle]
            /\ \/ /\ incoming[t] \in Images /\ incoming[t] # None
                  /\ incoming[t].key = key
                  /\ shown' = [shown EXCEPT ![t] = incoming[t]]
                  /\ incoming' = incoming
               \/ /\ incoming' = [incoming EXCEPT ![t] = None] /\ shown' = shown
    BY <1>1, <1>12, Inspected
  <2>2. UNCHANGED <<live, pending, snaps, env, key, pc, cli, asked, since, turned>>
    BY <1>12 DEF Inspect
  <2> QED
    BY <1>1, <2>1, <2>2, NamesAssumption DEF KeyedInv, FilesInv, TypeOK
<1>13. ASSUME NEW a \in Admins, SnapshotFirst(a) PROVE KeyedInv'
  BY <1>1, <1>13, Taken DEF SnapshotFirst, Moves, KeyedInv, ShownInv, PlaceInv,
     FilesInv, TypeOK
<1>14. ASSUME NEW a \in Admins, Stage(a) PROVE KeyedInv'
  BY <1>1, <1>14 DEF Stage, Ends, Moves, Idle, KeyedInv, ShownInv, PlaceInv,
     FilesInv, TypeOK
<1>15. ASSUME NEW a \in Admins, Record(a) PROVE KeyedInv'
  BY <1>1, <1>15 DEF Record, Ends, Begin, Idle, KeyedInv, ShownInv, PlaceInv,
     FilesInv, TypeOK
<1>16. ASSUME NEW a \in Admins, NEW t \in Tokens, Upload(a, t) PROVE KeyedInv'
  BY <1>1, <1>16, UploadTypes DEF Upload, FreshToken, Unused, KeyedInv,
     ShownInv, PlaceInv, FilesInv, TypeOK
<1>17. ASSUME NEW a \in Admins, NEW t \in Tokens, Confirm(a, t) PROVE KeyedInv'
  BY <1>1, <1>17 DEF Confirm, KeyedInv, ShownInv, PlaceInv, FilesInv, TypeOK
<1>18. ASSUME NEW t \in Tokens, Discard(t) PROVE KeyedInv'
  BY <1>1, <1>18 DEF Discard, KeyedInv, ShownInv, PlaceInv, FilesInv, TypeOK
<1>19. CASE RotateSnapshots
  BY <1>1, <1>19, Taken DEF RotateSnapshots, KeyedInv, ShownInv, PlaceInv,
     FilesInv, TypeOK
<1>20. CASE RotateCommits
  BY <1>1, <1>20, Edits DEF RotateCommits, KeyedInv, ShownInv, PlaceInv,
     FilesInv, TypeOK
<1> QED
  BY <1>2, <1>3, <1>4, <1>5, <1>6, <1>7, <1>8, <1>9, <1>10, <1>11, <1>12,
     <1>13, <1>14, <1>15, <1>16, <1>17, <1>18, <1>19, <1>20 DEF Next,
     BootSteps, ExitSteps, HandlerSteps, RotateSteps

\* ... nor is one under another key.
LEMMA FitStep ==
    ASSUME IInv, ReportInv, Next, "sameSecond" \notin Faults
    PROVE  FitInv'
<1>1. FilesInv /\ PlaceInv /\ ShownInv /\ KeyedInv /\ FitInv
  BY DEF IInv, ReportInv
<1>2. CASE Start \/ Apply \/ Open
  BY <1>1, <1>2 DEF Start, Apply, Open, LeavesPending, FitInv, KeyedInv,
     ShownInv, PlaceInv, FilesInv, TypeOK
<1>3. CASE Migrate
  BY <1>1, <1>3, Snapshots, Edits DEF Migrate, FitInv, KeyedInv, ShownInv,
     PlaceInv, FilesInv, TypeOK
<1>4. CASE CheckKey
  BY <1>1, <1>4, Edits DEF CheckKey, FitInv, KeyedInv, ShownInv, PlaceInv,
     FilesInv, TypeOK
<1>5. CASE SetKey \/ Leave \/ ForceExit
  BY <1>1, <1>5 DEF SetKey, Leave, ForceExit, Gone, Idle, FitInv, KeyedInv,
     ShownInv, PlaceInv, FilesInv, TypeOK
<1>6. CASE Crash
  BY <1>1, <1>6 DEF Crash, Gone, Idle, FitInv, KeyedInv, ShownInv, PlaceInv,
     FilesInv, TypeOK
<1>7. CASE Restart \/ TearDown
  BY <1>1, <1>7 DEF Restart, TearDown, Begin, Idle, FitInv, KeyedInv, ShownInv,
     PlaceInv, FilesInv, TypeOK
<1>8. CASE TakeSnapshot
  BY <1>1, <1>8, Taken DEF TakeSnapshot, FitInv, KeyedInv, ShownInv, PlaceInv,
     FilesInv, TypeOK
<1>9. CASE Commit
  BY <1>1, <1>9, Edits DEF Commit, FitInv, KeyedInv, ShownInv, PlaceInv,
     FilesInv, TypeOK
<1>10. CASE RefreshReads \/ RotateProves
  BY <1>1, <1>10 DEF RefreshReads, RotateProves, FitInv, KeyedInv, ShownInv,
     PlaceInv, FilesInv, TypeOK
<1>11. CASE RefreshWrites
  BY <1>1, <1>11, Edits DEF RefreshWrites, FitInv, KeyedInv, ShownInv,
     PlaceInv, FilesInv, TypeOK
<1>12. ASSUME NEW a \in Admins, Inspect(a) PROVE FitInv'
  BY <1>1, <1>12 DEF Inspect, Ends, Passes, Idle, FitInv, KeyedInv, ShownInv,
     PlaceInv, FilesInv, TypeOK
<1>13. ASSUME NEW a \in Admins, SnapshotFirst(a) PROVE FitInv'
  BY <1>1, <1>13, Taken DEF SnapshotFirst, Moves, FitInv, KeyedInv, ShownInv,
     PlaceInv, FilesInv, TypeOK
<1>14. ASSUME NEW a \in Admins, Stage(a) PROVE FitInv'
  BY <1>1, <1>14 DEF Stage, Ends, Moves, Idle, FitInv, KeyedInv, ShownInv,
     PlaceInv, FilesInv, TypeOK
<1>15. ASSUME NEW a \in Admins, Record(a) PROVE FitInv'
  BY <1>1, <1>15 DEF Record, Ends, Begin, Idle, FitInv, KeyedInv, ShownInv,
     PlaceInv, FilesInv, TypeOK
<1>16. ASSUME NEW a \in Admins, NEW t \in Tokens, Upload(a, t) PROVE FitInv'
  BY <1>1, <1>16, UploadTypes DEF Upload, FreshToken, Unused, FitInv, KeyedInv,
     ShownInv, PlaceInv, FilesInv, TypeOK
<1>17. ASSUME NEW a \in Admins, NEW t \in Tokens, Confirm(a, t) PROVE FitInv'
  BY <1>1, <1>17 DEF Confirm, FitInv, KeyedInv, ShownInv, PlaceInv, FilesInv,
     TypeOK
<1>18. ASSUME NEW t \in Tokens, Discard(t) PROVE FitInv'
  BY <1>1, <1>18 DEF Discard, FitInv, KeyedInv, ShownInv, PlaceInv, FilesInv,
     TypeOK
<1>19. CASE RotateSnapshots
  BY <1>1, <1>19, Taken DEF RotateSnapshots, FitInv, KeyedInv, ShownInv,
     PlaceInv, FilesInv, TypeOK
<1>20. CASE RotateCommits
  BY <1>1, <1>20, Edits DEF RotateCommits, FitInv, KeyedInv, ShownInv,
     PlaceInv, FilesInv, TypeOK
<1> QED
  BY <1>2, <1>3, <1>4, <1>5, <1>6, <1>7, <1>8, <1>9, <1>10, <1>11, <1>12,
     <1>13, <1>14, <1>15, <1>16, <1>17, <1>18, <1>19, <1>20 DEF Next,
     BootSteps, ExitSteps, HandlerSteps, RotateSteps

\* Who has staged a file ends the process, and a boot that serves has none.
LEMMA StagedStep ==
    ASSUME IInv, Next
    PROVE  StagedInv'
<1>1. FilesInv /\ PlaceInv /\ StagedInv
  BY DEF IInv
<1>2. CASE Start \/ Apply \/ Open
  BY <1>1, <1>2 DEF Start, Apply, Open, LeavesPending, StagedInv,
     StagedMeansStopping, PlaceInv, FilesInv, TypeOK
<1>3. CASE Migrate
  BY <1>1, <1>3, Snapshots, Edits DEF Migrate, StagedInv, StagedMeansStopping,
     PlaceInv, FilesInv, TypeOK
<1>4. CASE CheckKey
  BY <1>1, <1>4, Edits DEF CheckKey, StagedInv, StagedMeansStopping, PlaceInv,
     FilesInv, TypeOK
<1>5. CASE SetKey \/ Leave \/ ForceExit
  BY <1>1, <1>5 DEF SetKey, Leave, ForceExit, Gone, Idle, StagedInv,
     StagedMeansStopping, PlaceInv, FilesInv, TypeOK
<1>6. CASE Crash
  BY <1>1, <1>6 DEF Crash, Gone, Idle, StagedInv, StagedMeansStopping,
     PlaceInv, FilesInv, TypeOK
<1>7. CASE Restart \/ TearDown
  BY <1>1, <1>7 DEF Restart, TearDown, Begin, Idle, StagedInv,
     StagedMeansStopping, PlaceInv, FilesInv, TypeOK
<1>8. CASE TakeSnapshot
  BY <1>1, <1>8, Taken DEF TakeSnapshot, StagedInv, StagedMeansStopping,
     PlaceInv, FilesInv, TypeOK
<1>9. CASE Commit
  BY <1>1, <1>9, Edits DEF Commit, StagedInv, StagedMeansStopping, PlaceInv,
     FilesInv, TypeOK
<1>10. CASE RefreshReads \/ RotateProves
  BY <1>1, <1>10 DEF RefreshReads, RotateProves, StagedInv,
     StagedMeansStopping, PlaceInv, FilesInv, TypeOK
<1>11. CASE RefreshWrites
  BY <1>1, <1>11, Edits DEF RefreshWrites, StagedInv, StagedMeansStopping,
     PlaceInv, FilesInv, TypeOK
<1>12. ASSUME NEW a \in Admins, Inspect(a) PROVE StagedInv'
  BY <1>1, <1>12 DEF Inspect, Ends, Passes, Idle, StagedInv,
     StagedMeansStopping, PlaceInv, FilesInv, TypeOK
<1>13. ASSUME NEW a \in Admins, SnapshotFirst(a) PROVE StagedInv'
  BY <1>1, <1>13, Taken DEF SnapshotFirst, Moves, StagedInv,
     StagedMeansStopping, PlaceInv, FilesInv, TypeOK
<1>14. ASSUME NEW a \in Admins, Stage(a) PROVE StagedInv'
  BY <1>1, <1>14 DEF Stage, Ends, Moves, Idle, StagedInv, StagedMeansStopping,
     PlaceInv, FilesInv, TypeOK
<1>15. ASSUME NEW a \in Admins, Record(a) PROVE StagedInv'
  BY <1>1, <1>15 DEF Record, Ends, Begin, Idle, StagedInv, StagedMeansStopping,
     PlaceInv, FilesInv, TypeOK
<1>16. ASSUME NEW a \in Admins, NEW t \in Tokens, Upload(a, t) PROVE StagedInv'
  BY <1>1, <1>16, UploadTypes DEF Upload, FreshToken, Unused, StagedInv,
     StagedMeansStopping, PlaceInv, FilesInv, TypeOK
<1>17. ASSUME NEW a \in Admins, NEW t \in Tokens, Confirm(a, t) PROVE StagedInv'
  BY <1>1, <1>17 DEF Confirm, StagedInv, StagedMeansStopping, PlaceInv,
     FilesInv, TypeOK
<1>18. ASSUME NEW t \in Tokens, Discard(t) PROVE StagedInv'
  BY <1>1, <1>18 DEF Discard, StagedInv, StagedMeansStopping, PlaceInv,
     FilesInv, TypeOK
<1>19. CASE RotateSnapshots
  BY <1>1, <1>19, Taken DEF RotateSnapshots, StagedInv, StagedMeansStopping,
     PlaceInv, FilesInv, TypeOK
<1>20. CASE RotateCommits
  BY <1>1, <1>20, Edits DEF RotateCommits, StagedInv, StagedMeansStopping,
     PlaceInv, FilesInv, TypeOK
<1> QED
  BY <1>2, <1>3, <1>4, <1>5, <1>6, <1>7, <1>8, <1>9, <1>10, <1>11, <1>12,
     <1>13, <1>14, <1>15, <1>16, <1>17, <1>18, <1>19, <1>20 DEF Next,
     BootSteps, ExitSteps, HandlerSteps, RotateSteps

\* Each snapshot moves the others one down.
LEMMA KeptStep ==
    ASSUME IInv, Next
    PROVE  KeptInv'
<1>1. FilesInv /\ PlaceInv /\ KeptInv
  BY DEF IInv
<1>2. CASE Start
  BY <1>1, <1>2 DEF Start, LeavesPending, KeptInv, PlaceInv, FilesInv, TypeOK
<1>3. CASE Apply
  BY <1>1, <1>3 DEF Apply, KeptInv, PlaceInv, FilesInv, TypeOK
<1>4. CASE Open
  BY <1>1, <1>4 DEF Open, KeptInv, PlaceInv, FilesInv, TypeOK
<1>5. CASE Migrate
  BY <1>1, <1>5, Snapshots, Edits DEF Migrate, KeptInv, PlaceInv, FilesInv,
     TypeOK
<1>6. CASE CheckKey
  BY <1>1, <1>6, Edits DEF CheckKey, KeptInv, PlaceInv, FilesInv, TypeOK
<1>7. CASE SetKey
  BY <1>1, <1>7 DEF SetKey, Gone, Idle, KeptInv, PlaceInv, FilesInv, TypeOK
<1>8. CASE Leave
  BY <1>1, <1>8 DEF Leave, Gone, Idle, KeptInv, PlaceInv, FilesInv, TypeOK
<1>9. CASE ForceExit
  BY <1>1, <1>9 DEF ForceExit, Gone, Idle, KeptInv, PlaceInv, FilesInv, TypeOK
<1>10. CASE Crash
  BY <1>1, <1>10 DEF Crash, Gone, Idle, KeptInv, PlaceInv, FilesInv, TypeOK
<1>11. CASE Restart
  BY <1>1, <1>11 DEF Restart, Begin, KeptInv, PlaceInv, FilesInv, TypeOK
<1>12. CASE TearDown
  BY <1>1, <1>12 DEF TearDown, Idle, KeptInv, PlaceInv, FilesInv, TypeOK
<1>13. CASE TakeSnapshot
  <2>1. UNCHANGED <<live, pending>> /\ 1 <= Len(snaps') /\ snaps'[1] = live
    <3>1. 1 <= Len(snaps') /\ snaps'[1] = live
      BY <1>1, <1>13, Taken
    <3> QED
      BY <1>13, <3>1 DEF TakeSnapshot
  <2>2. \A b \in Admins :
          /\ admin'[b].at \in {"snapshot", "stage"} => admin'[b].rows \subseteq live.rows
    BY <1>1, <1>13 DEF TakeSnapshot, KeptInv, FilesInv, TypeOK
  <2> QED
    BY <1>1, <1>13, <2>1, <2>2, Deeper DEF KeptInv
<1>14. CASE Commit
  BY <1>1, <1>14, Edits DEF Commit, KeptInv, PlaceInv, FilesInv, TypeOK
<1>15. CASE RefreshReads
  BY <1>1, <1>15 DEF RefreshReads, KeptInv, PlaceInv, FilesInv, TypeOK
<1>16. CASE RotateProves
  BY <1>1, <1>16 DEF RotateProves, KeptInv, PlaceInv, FilesInv, TypeOK
<1>17. CASE RefreshWrites
  BY <1>1, <1>17, Edits DEF RefreshWrites, KeptInv, PlaceInv, FilesInv, TypeOK
<1>18. ASSUME NEW a \in Admins, Inspect(a) PROVE KeptInv'
  BY <1>1, <1>18 DEF Inspect, Ends, Passes, Idle, KeptInv, PlaceInv, FilesInv,
     TypeOK
<1>19. ASSUME NEW a \in Admins, SnapshotFirst(a) PROVE KeptInv'
  <2>1. UNCHANGED <<live, pending>> /\ 1 <= Len(snaps') /\ snaps'[1] = live
    <3>1. 1 <= Len(snaps') /\ snaps'[1] = live
      BY <1>1, <1>19, Taken
    <3> QED
      BY <1>19, <3>1 DEF SnapshotFirst
  <2>2. \A b \in Admins :
          /\ admin'[b].at \in {"snapshot", "stage"} => admin'[b].rows \subseteq live.rows
    BY <1>1, <1>19 DEF SnapshotFirst, KeptInv, FilesInv, TypeOK, Moves
  <2> QED
    BY <1>1, <1>19, <2>1, <2>2, Deeper DEF KeptInv
<1>20. ASSUME NEW a \in Admins, Stage(a) PROVE KeptInv'
  <2>1. PICK t \in Tokens : StageOutcome(a, t)
    BY <1>1, <1>20, Staged
  <2>2. UNCHANGED <<live, snaps>>
    BY <1>20 DEF Stage
  <2>3. \A b \in Admins : admin'[b].at \in {"snapshot", "stage"} => admin'[b] = admin[b]
    BY <1>1, <2>1, Types DEF Idle, AdminStates, StageOutcome
  <2>4. CASE UNCHANGED <<pending, asked, since>>
    BY <1>1, <2>2, <2>3, <2>4 DEF KeptInv
  <2>5. CASE asked' = admin[a].rows /\ since' = 0
    <3>1. Len(snaps) >= 1 /\ admin[a].rows \subseteq snaps[1].rows
      BY <1>1, <2>1 DEF KeptInv, StageOutcome
    <3> QED
      BY <1>1, <2>2, <2>3, <2>5, <3>1 DEF KeptInv
  <2> QED
    BY <2>1, <2>4, <2>5 DEF StageOutcome
<1>21. ASSUME NEW a \in Admins, Record(a) PROVE KeptInv'
  BY <1>1, <1>21 DEF Record, Ends, Begin, Idle, KeptInv, PlaceInv, FilesInv,
     TypeOK
<1>22. ASSUME NEW a \in Admins, NEW t \in Tokens, Upload(a, t) PROVE KeptInv'
  BY <1>1, <1>22, UploadTypes DEF Upload, FreshToken, Unused, KeptInv,
     PlaceInv, FilesInv, TypeOK
<1>23. ASSUME NEW a \in Admins, NEW t \in Tokens, Confirm(a, t) PROVE KeptInv'
  BY <1>1, <1>23 DEF Confirm, KeptInv, PlaceInv, FilesInv, TypeOK
<1>24. ASSUME NEW t \in Tokens, Discard(t) PROVE KeptInv'
  BY <1>1, <1>24 DEF Discard, KeptInv, PlaceInv, FilesInv, TypeOK
<1>25. CASE RotateSnapshots
  <2>1. UNCHANGED <<live, pending>> /\ 1 <= Len(snaps') /\ snaps'[1] = live
    <3>1. 1 <= Len(snaps') /\ snaps'[1] = live
      BY <1>1, <1>25, Taken
    <3> QED
      BY <1>25, <3>1 DEF RotateSnapshots
  <2>2. \A b \in Admins :
          /\ admin'[b].at \in {"snapshot", "stage"} => admin'[b].rows \subseteq live.rows
    BY <1>1, <1>25 DEF RotateSnapshots, KeptInv, FilesInv, TypeOK
  <2> QED
    BY <1>1, <1>25, <2>1, <2>2, Deeper DEF KeptInv
<1>26. CASE RotateCommits
  BY <1>1, <1>26, Edits DEF RotateCommits, KeptInv, PlaceInv, FilesInv, TypeOK
<1> QED
  BY <1>2, <1>3, <1>4, <1>5, <1>6, <1>7, <1>8, <1>9, <1>10, <1>11, <1>12,
     <1>13, <1>14, <1>15, <1>16, <1>17, <1>18, <1>19, <1>20, <1>21, <1>22,
     <1>23, <1>24, <1>25, <1>26 DEF Next, BootSteps, ExitSteps, HandlerSteps,
     RotateSteps

\* Each variable keeps its type.
LEMMA FilesStep ==
    ASSUME IInv, Next
    PROVE  FilesInv'
<1>1. FilesInv /\ PlaceInv
  BY DEF IInv
<1>2. KEEP \in Nat \ {0} /\ MaxWrites \in Nat /\ MaxCrashes \in Nat
  BY BoundsAssumption
<1>3. CASE Start
  BY <1>1, <1>2, <1>3 DEF Start, LeavesPending, PlaceInv, FilesInv, TypeOK
<1>4. CASE Apply
  BY <1>1, <1>2, <1>4 DEF Apply, PlaceInv, FilesInv, TypeOK
<1>5. CASE Open
  BY <1>1, <1>2, <1>5 DEF Open, PlaceInv, FilesInv, TypeOK
<1>6. CASE Migrate
  BY <1>1, <1>2, <1>6, Snapshots, Edits DEF Migrate, PlaceInv, FilesInv, TypeOK
<1>7. CASE CheckKey
  BY <1>1, <1>2, <1>7, Edits DEF CheckKey, PlaceInv, FilesInv, TypeOK
<1>8. CASE SetKey
  BY <1>1, <1>2, <1>8 DEF SetKey, Gone, Idle, PlaceInv, FilesInv, TypeOK
<1>9. CASE Leave
  BY <1>1, <1>2, <1>9 DEF Leave, Gone, Idle, PlaceInv, FilesInv, TypeOK
<1>10. CASE ForceExit
  BY <1>1, <1>2, <1>10 DEF ForceExit, Gone, Idle, PlaceInv, FilesInv, TypeOK
<1>11. CASE Crash
  <2>1. crashes' \in 0..MaxCrashes
    BY <1>1, <1>11, Types DEF Crash
  <2>2. /\ cli' = "idle" /\ refresh' = FALSE /\ pc' = "down" /\ armed' = FALSE
        /\ admin' \in [Admins -> AdminStates]
    BY <1>11 DEF Crash, Gone, Idle, AdminStates
  <2> QED
    BY <1>1, <1>2, <1>11, <2>1, <2>2 DEF Crash, FilesInv, TypeOK, AdminStates
<1>12. CASE Restart
  BY <1>1, <1>2, <1>12 DEF Restart, Begin, PlaceInv, FilesInv, TypeOK
<1>13. CASE TearDown
  BY <1>1, <1>2, <1>13 DEF TearDown, Idle, PlaceInv, FilesInv, TypeOK
<1>14. CASE TakeSnapshot
  BY <1>1, <1>2, <1>14, Taken DEF TakeSnapshot, PlaceInv, FilesInv, TypeOK
<1>15. CASE Commit
  BY <1>1, <1>2, <1>15, Edits DEF Commit, PlaceInv, FilesInv, TypeOK
<1>16. CASE RefreshReads
  BY <1>1, <1>2, <1>16 DEF RefreshReads, PlaceInv, FilesInv, TypeOK
<1>17. CASE RotateProves
  BY <1>1, <1>2, <1>17 DEF RotateProves, PlaceInv, FilesInv, TypeOK
<1>18. CASE RefreshWrites
  BY <1>1, <1>2, <1>18, Edits DEF RefreshWrites, PlaceInv, FilesInv, TypeOK
<1>19. ASSUME NEW a \in Admins, Inspect(a) PROVE FilesInv'
  BY <1>1, <1>2, <1>19 DEF Inspect, Ends, Passes, Idle, PlaceInv, FilesInv,
     TypeOK
<1>20. ASSUME NEW a \in Admins, SnapshotFirst(a) PROVE FilesInv'
  <2>1. admin' \in [Admins -> AdminStates]
    BY <1>1, <1>20, Types DEF SnapshotFirst, Moves, AdminStates
  <2>2. /\ snaps' \in Seq(Images) /\ since' \in 0..KEEP
        /\ Len(snaps') <= KEEP /\ \A i \in 1..Len(snaps') : snaps'[i] \in Images
    BY <1>1, <1>20, Taken
  <2>3. UNCHANGED <<live, pending, incoming, process, cli, refresh, written,
                    crashes, shown, asked, turned>>
    BY <1>20 DEF SnapshotFirst
  <2> QED
    BY <1>1, <2>1, <2>2, <2>3 DEF FilesInv, TypeOK, AdminStates, process
<1>21. ASSUME NEW a \in Admins, Stage(a) PROVE FilesInv'
  <2>1. PICK t \in Tokens : StageOutcome(a, t)
    BY <1>1, <1>21, Staged
  <2>2. UNCHANGED <<live, snaps, env, key, pc, cli, turned>>
    BY <1>21 DEF Stage
  <2> QED
    <3>1. admin[a].rows \subseteq 1..MaxWrites
      BY <1>1, Types DEF AdminStates
    <3>2. asked' \subseteq 1..MaxWrites /\ since' \in 0..KEEP /\ pending' \in Images \cup {None}
      BY <1>1, <2>1, <3>1, Types DEF FilesInv, TypeOK, StageOutcome
    <3>3. admin' \in [Admins -> AdminStates]
      BY <1>1, <2>1, Types DEF Idle, AdminStates, StageOutcome
    <3>4. incoming' \in [Tokens -> Images \cup {None}] /\ shown' \in [Tokens -> Images \cup {None}]
      BY <1>1, <2>1 DEF FilesInv, TypeOK, StageOutcome
    <3> QED
      BY <1>1, <1>21, <2>2, <3>2, <3>3, <3>4 DEF Stage, FilesInv, TypeOK, AdminStates
<1>22. ASSUME NEW a \in Admins, Record(a) PROVE FilesInv'
  BY <1>1, <1>2, <1>22 DEF Record, Ends, Begin, Idle, PlaceInv, FilesInv,
     TypeOK
<1>23. ASSUME NEW a \in Admins, NEW t \in Tokens, Upload(a, t) PROVE FilesInv'
  <2>1. incoming' \in [Tokens -> Images \cup {None}]
    BY <1>1, <1>23, UploadTypes DEF Upload, FilesInv, TypeOK
  <2>2. shown' \in [Tokens -> Images \cup {None}]
    BY <1>1, <1>23 DEF Upload, FilesInv, TypeOK
  <2>3. admin' \in [Admins -> AdminStates]
    <3>1. admin' = [admin EXCEPT ![a].at = "inspect", ![a].token = t]
      BY <1>23 DEF Upload
    <3> QED
      BY <1>1, <3>1, Types DEF AdminStates
  <2> QED
    BY <1>1, <1>23, <2>1, <2>2, <2>3 DEF Upload, FilesInv, TypeOK, AdminStates
<1>24. ASSUME NEW a \in Admins, NEW t \in Tokens, Confirm(a, t) PROVE FilesInv'
  <2>1. live.rows \in SUBSET (1..MaxWrites)
    BY <1>1, <1>24 DEF Confirm, PlaceInv, FilesInv, TypeOK, Images
  <2>2. admin' \in [Admins -> AdminStates]
    BY <1>1, <1>24, <2>1, Types DEF Confirm, AdminStates
  <2> QED
    BY <1>1, <1>2, <1>24, <2>2 DEF Confirm, FilesInv, TypeOK, AdminStates
<1>25. ASSUME NEW t \in Tokens, Discard(t) PROVE FilesInv'
  BY <1>1, <1>2, <1>25 DEF Discard, PlaceInv, FilesInv, TypeOK
<1>26. CASE RotateSnapshots
  BY <1>1, <1>2, <1>26, Taken DEF RotateSnapshots, PlaceInv, FilesInv, TypeOK
<1>27. CASE RotateCommits
  BY <1>1, <1>2, <1>27, Edits DEF RotateCommits, PlaceInv, FilesInv, TypeOK
<1> QED
  BY <1>3, <1>4, <1>5, <1>6, <1>7, <1>8, <1>9, <1>10, <1>11, <1>12, <1>13,
     <1>14, <1>15, <1>16, <1>17, <1>18, <1>19, <1>20, <1>21, <1>22, <1>23,
     <1>24, <1>25, <1>26, <1>27 DEF Next, BootSteps, ExitSteps, HandlerSteps,
     RotateSteps

-----------------------------------------------------------------------------
(* The inductive invariant. *)

\* The database of a gateway that has been in use, and nobody at work.
LEMMA Beginning == Init => IInv /\ ReportInv
<1> SUFFICES ASSUME Init PROVE IInv /\ ReportInv
  OBVIOUS
<1>1. PICK k \in Keys, old \in BOOLEAN :
        /\ env = k /\ key = k
        /\ live = [key |-> k, cred |-> k, old |-> old, rows |-> {}]
  BY DEF Init
<1>2. live \in Images /\ live # None /\ live.key = k /\ k # None
  BY <1>1, NamesAssumption DEF Images
<1>3. FilesInv
  <2>1. written \in 0..MaxWrites /\ crashes \in 0..MaxCrashes /\ since \in 0..KEEP
    BY BoundsAssumption DEF Init
  <2>2. Len(snaps) <= KEEP /\ snaps \in Seq(Images) /\ \A i \in 1..Len(snaps) : FALSE
    BY BoundsAssumption DEF Init
  <2> QED
    BY <1>1, <1>2, <2>1, <2>2 DEF Init, FilesInv, TypeOK, Idle
<1>4. PlaceInv /\ ShownInv
  BY <1>2 DEF Init, PlaceInv, ShownInv, Idle
<1>5. KeyedInv /\ FitInv
  BY <1>1, <1>2 DEF Init, KeyedInv, FitInv
<1>6. StagedInv /\ KeptInv
  BY DEF Init, StagedInv, StagedMeansStopping, KeptInv, Idle
<1> QED
  BY <1>3, <1>4, <1>5, <1>6 DEF IInv, ReportInv

LEMMA Step == IInv /\ [Next]_vars => IInv'
<1>1. ASSUME IInv, UNCHANGED vars PROVE IInv'
  BY <1>1 DEF vars, IInv, FilesInv, TypeOK, PlaceInv, StagedInv, StagedMeansStopping,
     KeptInv
<1>2. ASSUME IInv, Next PROVE IInv'
  BY <1>2, FilesStep, PlaceStep, StagedStep, KeptStep DEF IInv
<1> QED
  BY <1>1, <1>2

LEMMA ReportStep ==
    ASSUME "sameSecond" \notin Faults
    PROVE  IInv /\ ReportInv /\ [Next]_vars => ReportInv'
<1>1. ASSUME ReportInv, UNCHANGED vars PROVE ReportInv'
  BY <1>1 DEF vars, ReportInv, ShownInv, KeyedInv, FitInv
<1>2. ASSUME IInv, ReportInv, Next PROVE ReportInv'
  BY <1>2, ShownStep, KeyedStep, FitStep DEF ReportInv
<1> QED
  BY <1>1, <1>2

LEMMA Invariant == Spec => []IInv
BY Beginning, Step, PTL DEF Spec

LEMMA ReportInvariant == ASSUME "sameSecond" \notin Faults PROVE Spec => [](IInv /\ ReportInv)
BY Beginning, Step, ReportStep, PTL DEF Spec

-----------------------------------------------------------------------------
(* The theorems.  Some are about gateways where no two uploads fall into one *)
(* second: a second one may replace a file that was reported on.             *)

\* Each variable has its type.
THEOREM TypeCorrect == Spec => []TypeOK
<1>1. IInv => TypeOK
  BY DEF IInv, FilesInv
<1> QED
  BY <1>1, Invariant, PTL

\* However the process dies, a database in use is on disk, and no boot starts over
\* with an empty one (snapshots.py:257-268).
THEOREM NeverEmptiedHolds == ASSUME "sameSecond" \notin Faults PROVE Spec => []NeverEmptied
<1>1. IInv /\ ReportInv => NeverEmptied
  BY DEF IInv, ReportInv, PlaceInv, KeyedInv, NeverEmptied
<1> QED
  BY <1>1, ReportInvariant, PTL

\* Only a rotation can make the gateway refuse to boot with the key it has.
THEOREM KeyFitsHolds == ASSUME "sameSecond" \notin Faults PROVE Spec => []KeyFits
<1>1. IInv /\ ReportInv => KeyFits
  BY DEF IInv, ReportInv, FitInv, KeyFits
<1> QED
  BY <1>1, ReportInvariant, PTL

\* A staged restore does not lie around under a gateway that goes on serving, if
\* the audit row of it can be written (backups.py:66-73).
THEOREM StagedMeansStoppingHolds ==
    ASSUME "locked" \notin Faults
    PROVE  Spec => []StagedMeansStopping
<1>1. IInv => StagedMeansStopping
  BY DEF IInv, StagedInv
<1> QED
  BY <1>1, Invariant, PTL

\* What an admin was shown a report on is what becomes staged (DECISIONS.md:485).
THEOREM ShownIsStagedHolds == ASSUME "sameSecond" \notin Faults PROVE Spec => ShownIsStaged
<1>1. IInv /\ ReportInv /\ [Next]_vars =>
        [\A a \in Admins :
            Stage(a) /\ pending' # pending => pending' = shown[admin[a].token]]_vars
  <2> SUFFICES ASSUME IInv, ReportInv, NEW a \in Admins, Stage(a), pending' # pending
               PROVE  pending' = shown[admin[a].token]
    OBVIOUS
  <2>1. FilesInv /\ PlaceInv /\ ShownInv
    BY DEF IInv, ReportInv
  <2> QED
    BY <2>1, Staged DEF StageOutcome, ShownInv
<1> QED
  BY <1>1, ReportInvariant, PTL DEF Spec, ShownIsStaged

\* What was committed when a restore was confirmed is in a snapshot when it is
\* applied, unless KEEP newer ones have been taken (DECISIONS.md:486).
THEOREM ReversibleHolds == Spec => Reversible
<1>1. IInv /\ [Next]_vars =>
        [Apply => \/ since >= KEEP
                  \/ \E i \in 1..Len(snaps) : asked \subseteq snaps[i].rows]_vars
  <2> SUFFICES ASSUME IInv, Apply, ~(since >= KEEP)
               PROVE  \E i \in 1..Len(snaps) : asked \subseteq snaps[i].rows
    OBVIOUS
  <2>1. FilesInv /\ PlaceInv /\ KeptInv
    BY DEF IInv
  <2>2. pending # None
    BY <2>1 DEF Apply, PlaceInv
  <2>3. since \in Nat /\ since < KEEP
    BY <2>1, Types
  <2>4. since + 1 \in 1..Len(snaps) /\ asked \subseteq snaps[since + 1].rows
    BY <2>1, <2>2, <2>3 DEF KeptInv, FilesInv
  <2> QED
    BY <2>4
<1> QED
  BY <1>1, Invariant, PTL DEF Spec, Reversible

-----------------------------------------------------------------------------
(* Restore implements DatabaseFile.                                          *)

Database == IF live = None THEN pending ELSE live
Waiting == IF live = None THEN None ELSE pending
Opened == pc \notin {"down", "applying", "failed"}

\* A step of Restore as DatabaseFile sees it, in terms of the three above.
Seen ==
    \/ /\ Opened /\ Opened' /\ Database' \in Images
       /\ Database.rows \subseteq Database'.rows /\ Waiting' = Waiting
    \/ /\ Opened /\ Opened' /\ Waiting' \in Images /\ Database' = Database
    \/ /\ ~Opened /\ ~Opened' /\ Waiting # None /\ Database' = Waiting /\ Waiting' = None
    \/ /\ ~Opened /\ Opened' /\ Waiting = None /\ UNCHANGED <<Database, Waiting>>
    \/ /\ Opened /\ ~Opened' /\ UNCHANGED <<Database, Waiting>>
    \/ UNCHANGED <<Database, Waiting, Opened>>

\* A process that starts replaces the database first, or finds it replaced by one
\* that was killed.
LEMMA StartSeen ==
    ASSUME FilesInv, PlaceInv, Start \/ Apply \/ Open PROVE Seen
<1>1. CASE Start /\ pending # None
  BY <1>1 DEF Start, LeavesPending, Seen, Database, Waiting, Opened
<1>2. CASE Start /\ pending = None
  BY <1>2 DEF Start, PlaceInv, Seen, Database, Waiting, Opened
<1>3. CASE Apply
  BY <1>3 DEF Apply, PlaceInv, Seen, Database, Waiting, Opened
<1>4. CASE Open
  BY <1>4 DEF Open, PlaceInv, Seen, Database, Waiting, Opened
<1> QED
  BY <1>1, <1>2, <1>3, <1>4

\* What works on the database keeps its rows.
LEMMA EditSeen ==
    ASSUME FilesInv, PlaceInv,
           Migrate \/ CheckKey \/ Commit \/ RefreshWrites \/ RotateCommits
    PROVE  Seen
<1>1. live # None /\ live' # None /\ live' \in Images /\ live.rows \subseteq live'.rows
  BY Edits
<1>2. pending' = pending /\ Opened
  BY DEF Migrate, CheckKey, Commit, RefreshWrites, RotateCommits, PlaceInv, Opened
<1>3. Opened' \/ live' = live
  BY <1>2 DEF Migrate, CheckKey, Commit, RefreshWrites, RotateCommits, Opened
<1> QED
  BY <1>1, <1>2, <1>3 DEF Seen, Database, Waiting

\* Every exit closes the database and moves no file.
LEMMA ExitSeen ==
    ASSUME SetKey \/ Leave \/ ForceExit \/ Crash \/ Restart \/ TearDown PROVE Seen
<1>1. UNCHANGED <<live, pending>>
  BY DEF SetKey, Leave, ForceExit, Crash, Restart, TearDown
<1>2. Opened' => Opened
  BY DEF SetKey, Leave, ForceExit, Crash, Gone, Restart, Begin, TearDown, Opened
<1>3. Opened \in BOOLEAN /\ Opened' \in BOOLEAN
  BY DEF Opened
<1> QED
  BY <1>1, <1>2, <1>3 DEF Seen, Database, Waiting

LEMMA StageSeen ==
    ASSUME FilesInv, PlaceInv, NEW a \in Admins, Stage(a) PROVE Seen
<1>1. PICK t \in Tokens : StageOutcome(a, t)
  BY Staged
<1>2. pc \in Serving /\ UNCHANGED <<live, pc>> /\ live # None
  BY <1>1 DEF StageOutcome, Stage, PlaceInv
<1>3. pending' = pending \/ pending' \in Images
  BY <1>1 DEF StageOutcome
<1> QED
  BY <1>2, <1>3 DEF Seen, Database, Waiting, Opened

LEMMA PlacedStep == ASSUME FilesInv, PlaceInv, [Next]_vars PROVE Seen
<1>1. ASSUME UNCHANGED <<live, pending, pc>> PROVE Seen
  BY <1>1 DEF Seen, Database, Waiting, Opened
<1>2. ASSUME NEW a \in Admins, HandlerSteps(a) PROVE Seen
  <2>1. CASE Inspect(a) \/ SnapshotFirst(a)
    BY <1>1, <2>1 DEF Inspect, SnapshotFirst
  <2>2. CASE Record(a)
    BY <2>2 DEF Record, Begin, PlaceInv, Seen, Database, Waiting, Opened
  <2> QED
    BY <1>2, <2>1, <2>2, StageSeen DEF HandlerSteps
<1>3. ASSUME NEW a \in Admins, NEW t \in Tokens, Upload(a, t) \/ Confirm(a, t) PROVE Seen
  BY <1>1, <1>3 DEF Upload, Confirm
<1>4. ASSUME NEW t \in Tokens, Discard(t) PROVE Seen
  BY <1>1, <1>4 DEF Discard
<1>5. TakeSnapshot \/ RefreshReads \/ RotateProves \/ RotateSnapshots \/ UNCHANGED vars => Seen
  BY <1>1 DEF TakeSnapshot, RefreshReads, RotateProves, RotateSnapshots, vars
<1> QED
  BY <1>2, <1>3, <1>4, <1>5, StartSeen, EditSeen, ExitSeen
     DEF Next, BootSteps, ExitSteps, RotateSteps

\* However often the process is killed on the way, a restore is one replacement of
\* the database while nobody has it open, and nothing else loses what has been
\* committed (snapshots.py:257-268).
THEOREM ReplacedAtOnceHolds == Spec => ReplacedAtOnce
<1>1. Init => Placed!Init
  <2>1. Init => FilesInv /\ live # None
    BY Beginning DEF IInv, Init, PlaceInv
  <2> QED
    BY <2>1 DEF Init, FilesInv, TypeOK, Placed!Init
<1>2. IInv /\ [Next]_vars => Seen
  BY PlacedStep DEF IInv
<1>3. Seen => [Placed!Next]_<<Database, Waiting, Opened>>
  BY DEF Seen, Database, Waiting, Opened, RowsKept, Placed!Next, Placed!Write,
     Placed!Stage, Placed!Replace, Placed!Open, Placed!Close
<1>4. ReplacedAtOnce <=>
         Placed!Init /\ [][Placed!Next]_<<Database, Waiting, Opened>>
  BY PTL DEF ReplacedAtOnce, Placed!Spec, Database, Waiting, Opened
<1> QED
  BY <1>1, <1>2, <1>3, <1>4, Invariant, PTL DEF Spec
=============================================================================
