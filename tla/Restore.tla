------------------------------- MODULE Restore -------------------------------
(***************************************************************************)
(* The database file over the life of the container: boot (lifespan of     *)
(* app.py), snapshots and the two-step restore (store/snapshots.py behind  *)
(* api/backups.py), the exit that applies it (gateway/shutdown.py), and    *)
(* the rotation of the master key by a second process (crypto/rotate.py).  *)
(*                                                                         *)
(* Of a database only what these tell apart is kept: the key its key check *)
(* row is under, the key its one credential is under, whether its schema   *)
(* is an old one, and which writes have been committed to it.              *)
(***************************************************************************)
EXTENDS Integers, Sequences

CONSTANTS
    Keys,       \* master keys
    Admins,     \* handlers of the restore API in progress
    Tokens,     \* restore tokens, that is names of uploaded files
    MaxWrites,  \* bound: writes committed
    MaxCrashes, \* bound: crashes
    KEEP,       \* snapshots kept
    Faults,     \* which of FaultKinds may happen
    None

FaultKinds == {"rotate",      \* the operator rotates the master key
               "sameSecond",  \* two uploads fall into one second
               "locked"}      \* an audit row cannot be written

ASSUME BoundsAssumption ==
    MaxWrites \in Nat /\ MaxCrashes \in Nat /\ KEEP \in Nat \ {0}

VARIABLES
    live,       \* manifold.db, or None
    pending,    \* manifold.db.restore, or None
    incoming,   \* uploaded files by token, or None
    snaps,      \* the snapshots, newest first
    env,        \* MANIFOLD_MASTER_KEY of the container
    key,        \* the key the gateway process runs with
    pc,         \* where the gateway process stands
    armed,      \* the watchdog of the process is running
    admin,      \* where each handler stands: [at, token, rows]
    cli,        \* where the rotation command stands
    refresh,    \* a token refresh has read the credential and will write it
    written,    \* writes committed so far
    crashes,    \* crashes so far
    shown,      \* history: what the report on each token was about, or None
                \* if there was none or its file is gone
    asked,      \* history: the writes in the database when the confirm that
                \* staged `pending' came in; none when nothing is staged
    since,      \* history: snapshots since the one it took
    turned      \* history: a rotation has been committed

files == <<live, pending, incoming, snaps>>
process == <<env, key, pc, armed>>
history == <<shown, asked, since, turned>>
vars == <<files, process, admin, cli, refresh, written, crashes, history>>

Images == [key : Keys \cup {None}, cred : Keys \cup {None}, old : BOOLEAN,
           rows : SUBSET (1..MaxWrites)]
ASSUME NamesAssumption == None \notin Keys \cup Images

Serving == {"serving", "stopping"}
PCs == Serving \cup {"down", "applying", "opening", "migrating", "checking",
                     "failed", "leaving"}
Idle == [at |-> "idle", token |-> None, rows |-> {}]

TypeOK ==
    /\ live \in Images \cup {None} /\ pending \in Images \cup {None}
    /\ incoming \in [Tokens -> Images \cup {None}]
    /\ Len(snaps) <= KEEP /\ \A i \in 1..Len(snaps) : snaps[i] \in Images
    /\ env \in Keys /\ key \in Keys /\ pc \in PCs /\ armed \in BOOLEAN
    /\ admin \in [Admins -> [at : {"idle", "inspect", "snapshot", "stage", "record"},
                             token : Tokens \cup {None}, rows : SUBSET (1..MaxWrites)]]
    /\ cli \in {"idle", "proved", "snapped", "done"}
    /\ refresh \in BOOLEAN
    /\ written \in 0..MaxWrites /\ crashes \in 0..MaxCrashes
    /\ shown \in [Tokens -> Images \cup {None}]
    /\ asked \subseteq 1..MaxWrites /\ since \in 0..KEEP /\ turned \in BOOLEAN

\* A gateway that has been in use, just before it boots, perhaps with a new build.
Init ==
    /\ \E k \in Keys, old \in BOOLEAN :
          /\ env = k /\ key = k
          /\ live = [key |-> k, cred |-> k, old |-> old, rows |-> {}]
    /\ pending = None /\ snaps = <<>>
    /\ incoming = [t \in Tokens |-> None]
    /\ pc = "down" /\ armed = FALSE
    /\ admin = [a \in Admins |-> Idle]
    /\ cli = "idle" /\ refresh = FALSE
    /\ written = 0 /\ crashes = 0
    /\ shown = [t \in Tokens |-> None] /\ asked = {} /\ since = 0 /\ turned = FALSE

-----------------------------------------------------------------------------
(* Snapshots. *)

\* _prune.
Kept(list) == SubSeq(list, 1, IF Len(list) < KEEP THEN Len(list) ELSE KEEP)

\* create: an online backup, then the rest is pruned.
Snapshot ==
    /\ snaps' = Kept(<<live>> \o snaps)
    /\ since' = IF pending # None /\ since < KEEP THEN since + 1 ELSE since

\* The daily one, or one on demand.
TakeSnapshot ==
    /\ pc \in Serving
    /\ Snapshot
    /\ UNCHANGED <<live, pending, incoming, process, admin, cli, refresh,
                   written, crashes, shown, asked, turned>>

-----------------------------------------------------------------------------
(* The life of the gateway process. *)

\* Seeded fault: the staged file is taken away before the live one is replaced.
TakesPending == pending' = None

LeavesPending == UNCHANGED pending

\* apply_pending begins by removing the live database.
Start ==
    /\ pc = "down"
    /\ key' = env
    /\ IF pending # None
       THEN live' = None /\ LeavesPending /\ pc' = "applying"
       ELSE UNCHANGED <<live, pending>> /\ pc' = "opening"
    /\ UNCHANGED <<incoming, snaps, env, armed, admin, cli, refresh, written,
                   crashes, history>>

\* It moves the staged file there.
Apply ==
    /\ pc = "applying"
    /\ live' = pending /\ pending' = None
    /\ asked' = {} /\ since' = 0
    /\ pc' = "opening"
    /\ UNCHANGED <<incoming, snaps, env, key, armed, admin, cli, refresh,
                   written, crashes, shown, turned>>

\* Opening a database that is not there creates one.
Open ==
    /\ pc = "opening"
    /\ live' = IF live = None
               THEN [key |-> None, cred |-> None, old |-> TRUE, rows |-> {}]
               ELSE live
    /\ pc' = "migrating"
    /\ UNCHANGED <<pending, incoming, snaps, env, key, armed, admin, cli,
                   refresh, written, crashes, history>>

\* A database that holds data is snapshotted before its migrations are applied.
Migrate ==
    /\ pc = "migrating"
    /\ IF live.old /\ live.key # None THEN Snapshot ELSE UNCHANGED <<snaps, since>>
    /\ live' = [live EXCEPT !.old = FALSE]
    /\ pc' = "checking"
    /\ UNCHANGED <<pending, incoming, env, key, armed, admin, cli, refresh,
                   written, crashes, shown, asked, turned>>

\* verify_or_initialise; with the wrong key the process exits.
CheckKey ==
    /\ pc = "checking"
    /\ IF live.key = None
       THEN live' = [live EXCEPT !.key = key, !.cred = key] /\ pc' = "serving"
       ELSE UNCHANGED live /\ pc' = IF live.key = key THEN "serving" ELSE "failed"
    /\ UNCHANGED <<pending, incoming, snaps, env, key, armed, admin, cli,
                   refresh, written, crashes, history>>

\* Everything in the container ends with the process.
Gone ==
    /\ pc' = "down" /\ armed' = FALSE
    /\ admin' = [a \in Admins |-> Idle]
    /\ cli' = "idle" /\ refresh' = FALSE

\* Seeded fault: shutdown is begun without a watchdog.
BeginUnarmed == pc' = "stopping" /\ UNCHANGED armed

\* Seeded fault: the restore is staged, and nothing makes the process exit.
StaysUp == UNCHANGED <<pc, armed>>

\* exit_process: the watchdog, and SIGTERM half a second later.
Begin == pc' = "stopping" /\ armed' = TRUE

\* The restart button, and a SIGTERM from outside.
Restart ==
    /\ pc = "serving"
    /\ Begin
    /\ UNCHANGED <<files, env, key, admin, cli, refresh, written, crashes, history>>

\* The server cancels the requests it still has, the tasks and the toolsets let
\* go, and the lifespan ends.
TearDown ==
    /\ pc = "stopping"
    /\ pc' = "leaving" /\ armed' = FALSE
    /\ admin' = [a \in Admins |-> Idle] /\ refresh' = FALSE
    /\ UNCHANGED <<files, env, key, cli, written, crashes, history>>

Leave ==
    /\ pc = "leaving"
    /\ Gone
    /\ UNCHANGED <<files, env, key, written, crashes, history>>

ForceExit ==
    /\ pc = "stopping" /\ armed
    /\ Gone
    /\ UNCHANGED <<files, env, key, written, crashes, history>>

Crash ==
    /\ crashes < MaxCrashes /\ pc # "down"
    /\ crashes' = crashes + 1
    /\ Gone
    /\ UNCHANGED <<files, env, key, written, history>>

-----------------------------------------------------------------------------
(* What else goes on while it serves. *)

Commit ==
    /\ pc \in Serving /\ written < MaxWrites
    /\ written' = written + 1
    /\ live' = [live EXCEPT !.rows = @ \cup {written'}]
    /\ UNCHANGED <<pending, incoming, snaps, process, admin, cli, refresh,
                   crashes, history>>

\* A token refresh reads and decrypts the credential, asks the provider, ...
RefreshReads ==
    /\ pc \in Serving /\ ~refresh /\ live.cred = key
    /\ refresh' = TRUE
    /\ UNCHANGED <<files, process, admin, cli, written, crashes, history>>

\* ... and writes it back, encrypted under the key the process has.
RefreshWrites ==
    /\ pc \in Serving /\ refresh
    /\ refresh' = FALSE
    /\ live' = [live EXCEPT !.cred = key]
    /\ UNCHANGED <<pending, incoming, snaps, process, admin, cli, written,
                   crashes, history>>

-----------------------------------------------------------------------------
(* The restore. *)

Moves(a, at) == admin' = [admin EXCEPT ![a].at = at]
Ends(a) == admin' = [admin EXCEPT ![a] = Idle]

\* What an admin may upload: a snapshot, or a database of another gateway under
\* some key; None stands for a file that is no booted database at all.
Uploads ==
    {snaps[i] : i \in 1..Len(snaps)}
        \cup {[key |-> k, cred |-> k, old |-> FALSE, rows |-> {}] : k \in Keys \cup {None}}

\* Seeded fault: the token does not tell uploads apart.
AnyToken(t) == TRUE

Unused(t) == incoming[t] = None /\ \A a \in Admins : admin[a].token # t

\* The token is made of the time in seconds and the process id.
FreshToken(t) == Unused(t) \/ "sameSecond" \in Faults

\* validate_upload writes the file ...
Upload(a, t) ==
    /\ pc \in Serving /\ admin[a].at = "idle"
    /\ FreshToken(t)
    /\ \E f \in Uploads : incoming' = [incoming EXCEPT ![t] = f]
    /\ shown' = IF Unused(t) THEN [shown EXCEPT ![t] = None] ELSE shown
    /\ admin' = [admin EXCEPT ![a].at = "inspect", ![a].token = t]
    /\ UNCHANGED <<live, pending, snaps, process, cli, refresh, written,
                   crashes, asked, since, turned>>

\* Seeded fault: the key check row is not decrypted.
AnyKeyPasses(f) == f # None /\ f.key # None

Passes(f) == f # None /\ f.key = key

\* ... and inspects it in a thread: it is removed, or reported on.
Inspect(a) ==
    /\ admin[a].at = "inspect"
    /\ LET t == admin[a].token IN
       IF Passes(incoming[t])
       THEN shown' = [shown EXCEPT ![t] = incoming[t]] /\ UNCHANGED incoming
       ELSE incoming' = [incoming EXCEPT ![t] = None] /\ UNCHANGED shown
    /\ Ends(a)
    /\ UNCHANGED <<live, pending, snaps, process, cli, refresh, written,
                   crashes, asked, since, turned>>

\* confirm_restore takes any token whose file is there.  An admin knows a token
\* from a report on it; if uploads share tokens, also from one on an earlier file.
Known(t) == shown[t] # None \/ "sameSecond" \in Faults

Confirm(a, t) ==
    /\ pc \in Serving /\ admin[a].at = "idle"
    /\ incoming[t] # None /\ Known(t)
    /\ admin' = [admin EXCEPT ![a] = [at |-> "snapshot", token |-> t,
                                      rows |-> live.rows]]
    /\ UNCHANGED <<files, process, cli, refresh, written, crashes, history>>

\* Seeded fault: the live database is not snapshotted first.
StagesAtOnce(a) ==
    /\ admin[a].at = "snapshot"
    /\ Moves(a, "stage")
    /\ UNCHANGED <<files, process, cli, refresh, written, crashes, history>>

SnapshotFirst(a) ==
    /\ admin[a].at = "snapshot"
    /\ Snapshot
    /\ Moves(a, "stage")
    /\ UNCHANGED <<live, pending, incoming, process, cli, refresh, written,
                   crashes, shown, asked, turned>>

\* Seeded fault: the file is put in the place of the database that is open.
SwapsUnderneath(a) ==
    LET t == admin[a].token IN
    /\ admin[a].at = "stage" /\ incoming[t] # None
    /\ live' = incoming[t]
    /\ Moves(a, "record")
    /\ UNCHANGED <<pending, incoming, snaps, process, cli, refresh, written,
                   crashes, history>>

\* Unless the file is gone by now, it becomes the staged one, in place of any
\* that is there.
Stage(a) ==
    /\ admin[a].at = "stage"
    /\ LET t == admin[a].token IN
       IF incoming[t] = None
       THEN Ends(a) /\ UNCHANGED <<pending, incoming, shown, asked, since>>
       ELSE /\ pending' = incoming[t]
            /\ incoming' = [incoming EXCEPT ![t] = None]
            /\ shown' = [shown EXCEPT ![t] = None]
            /\ asked' = admin[a].rows /\ since' = 0
            /\ Moves(a, "record")
    /\ UNCHANGED <<live, snaps, process, cli, refresh, written, crashes, turned>>

\* The audit row, and then exit_process.
Record(a) ==
    /\ admin[a].at = "record"
    /\ \/ Begin
       \/ "locked" \in Faults /\ UNCHANGED <<pc, armed>>
    /\ Ends(a)
    /\ UNCHANGED <<files, env, key, cli, refresh, written, crashes, history>>

\* discard_incoming, of a file an hour old.
Discard(t) ==
    /\ pc \in Serving /\ incoming[t] # None
    /\ \A a \in Admins : ~(admin[a].at = "inspect" /\ admin[a].token = t)
    /\ incoming' = [incoming EXCEPT ![t] = None]
    /\ shown' = [shown EXCEPT ![t] = None]
    /\ UNCHANGED <<live, pending, snaps, process, admin, cli, refresh, written,
                   crashes, asked, since, turned>>

-----------------------------------------------------------------------------
(* The master key. *)

\* `docker exec' of rotate-key while the gateway serves: it proves the key ...
RotateProves ==
    /\ "rotate" \in Faults /\ pc = "serving" /\ cli = "idle"
    /\ ~turned      \* bound: one rotation
    /\ live.key = env
    /\ cli' = "proved"
    /\ UNCHANGED <<files, process, admin, refresh, written, crashes, history>>

\* ... takes a snapshot ...
RotateSnapshots ==
    /\ cli = "proved"
    /\ Snapshot
    /\ cli' = "snapped"
    /\ UNCHANGED <<live, pending, incoming, process, admin, refresh, written,
                   crashes, shown, asked, turned>>

\* ... and rewrites the rows in one transaction, or none if one does not decrypt.
RotateCommits ==
    /\ cli = "snapped"
    /\ \E k \in Keys \ {env} :
          IF live.cred = env
          THEN /\ live' = [live EXCEPT !.key = k, !.cred = k]
               /\ cli' = "done" /\ turned' = TRUE
          ELSE UNCHANGED <<live, turned>> /\ cli' = "idle"
    /\ UNCHANGED <<pending, incoming, snaps, process, admin, refresh, written,
                   crashes, shown, asked, since>>

\* The operator gives the container another key, which recreates it: after a
\* rotation, and when the log shows that the key does not match.
SetKey ==
    /\ cli = "done" \/ pc = "failed"
    /\ env' \in Keys \ {env}
    /\ Gone
    /\ UNCHANGED <<files, key, written, crashes, history>>

-----------------------------------------------------------------------------
BootSteps == Start \/ Apply \/ Open \/ Migrate \/ CheckKey
ExitSteps == Leave \/ ForceExit
HandlerSteps(a) == Inspect(a) \/ SnapshotFirst(a) \/ Stage(a) \/ Record(a)
RotateSteps == RotateProves \/ RotateSnapshots \/ RotateCommits

Next ==
    \/ BootSteps \/ ExitSteps \/ Restart \/ TearDown \/ Crash
    \/ TakeSnapshot \/ Commit \/ RefreshReads \/ RefreshWrites
    \/ \E a \in Admins : HandlerSteps(a) \/ \E t \in Tokens : Upload(a, t) \/ Confirm(a, t)
    \/ \E t \in Tokens : Discard(t)
    \/ RotateSteps \/ SetKey

Spec == Init /\ [][Next]_vars

\* The container is restarted with the key it has, the watchdog is a thread of its
\* own, and a handler gets on.  The end of the process after its lifespan is
\* assumed.  Nobody is bound to rotate the key or to set another: SetKey is not fair.
FairSpec ==
    /\ Spec
    /\ WF_vars(BootSteps) /\ WF_vars(ExitSteps)
    /\ \A a \in Admins : WF_vars(HandlerSteps(a))

-----------------------------------------------------------------------------
(* Properties. *)

\* Whenever the process dies, a database in use is on disk, and no boot starts
\* over with an empty one (snapshots.py:257-268).
NeverEmptied == IF live = None THEN pending # None ELSE live.key # None

\* A restore can be taken back: what was committed when it was confirmed is in
\* a snapshot, unless enough newer ones have been taken before it is applied
\* (DECISIONS.md:486: "so a bad restore is itself reversible").
Reversible ==
    [][Apply => \/ since >= KEEP
                \/ \E i \in 1..Len(snaps) : asked \subseteq snaps[i].rows]_vars

\* What an admin was shown a report on is what becomes staged, as long as no two
\* uploads fall into one second (DECISIONS.md:485: "a separate explicit Confirm
\* restore that shows what changes").
ShownIsStaged ==
    [][\A a \in Admins : Stage(a) /\ pending' # pending => pending' = shown[admin[a].token]]_vars

\* Without a rotation the gateway boots with the key it has, whatever has been
\* restored meanwhile.
KeyFits == pc = "failed" => turned

\* A gateway that has booted with the key of its database can read the credential
\* (docs/runbooks.md:76-78 excepts credentials created between the rotation and
\* the restart).
CredentialReadable == pc = "serving" /\ key = live.key => live.cred = key

\* A staged restore does not lie around under a gateway that goes on serving.
StagedMeansStopping ==
    pending # None => pc # "serving" \/ \E a \in Admins : admin[a].at = "record"

\* The two steps of apply_pending, a kill between them and the boot that repeats
\* them are, to DatabaseFile, one replacement; nothing else loses what has been
\* committed, and nobody works on the database meanwhile (snapshots.py:257-268).
RowsKept(old, new) == old.rows \subseteq new.rows
Placed == INSTANCE DatabaseFile
          WITH Contents <- Images, Evolves <- RowsKept,
               db <- IF live = None THEN pending ELSE live,
               staged <- IF live = None THEN None ELSE pending,
               open <- pc \notin {"down", "applying", "failed"}
ReplacedAtOnce == Placed!Spec

\* The gateway comes back after every exit, with a staged restore applied
\* (shutdown.py:1-4: "Shutdown that always finishes"), unless a rotation has been
\* committed whose key the operator has not given to the container.
ComesBack ==
    pc # "serving" ~> \/ pc = "serving" /\ pending = None
                      \/ pc = "failed" /\ turned /\ env # live.key
=============================================================================
