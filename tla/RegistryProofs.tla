--------------------------- MODULE RegistryProofs ---------------------------
(***************************************************************************)
(* Theorems about Registry, for every set of keys, every set of admin      *)
(* handlers and every behaviour of the environment.                        *)
(***************************************************************************)
EXTENDS Registry, TLAPS

Building == {"upstream", "fresh", "start", "rehash"}
Looping == Building \cup {"loop", "secret"}

(* The inductive invariant of the run of _reload_once and its locals.       *)

\* The lock is held exactly while a run is in progress, and the locals are
\* empty until it has read the rows and todo is empty after it.
LockInv ==
    /\ holder = None <=> phase = "idle"
    /\ phase \in {"idle", "credentials", "rows"} =>
          to_stop = {} /\ new_mounted = NoKeys
    /\ phase \notin Looping => todo = {}

\* The loop has still to deal with exactly the wanted keys without an entry.
TodoInv(k) ==
    /\ k \in todo => desired[k] # None /\ new_mounted[k] = None
    /\ phase \in Looping /\ desired[k] # None => k \in todo \/ new_mounted[k] # None

\* A mounted runtime is live and, once its run stops things, not among them.
MountedInv(k) ==
    HasRuntime(mounted, k) =>
        /\ runtime[k][mounted[k].rt] # None
        /\ phase = "stop" => <<k, mounted[k].rt>> \notin to_stop

\* An entry for the next mapping holds the runtime just built or the mounted
\* one, and it holds one if there is a mounted one.
NewInv(k) ==
    phase \in Looping /\ new_mounted[k] # None =>
        /\ new_mounted[k].rt # 0 =>
              /\ runtime[k][new_mounted[k].rt] # None
              /\ \/ new_mounted[k].rt = Fresh(k)
                 \/ HasRuntime(mounted, k) /\ new_mounted[k].rt = mounted[k].rt
        /\ HasRuntime(mounted, k) => new_mounted[k].rt # 0

\* Up to the swap only mounted runtimes that have a successor are to be stopped.
StopInv(k) ==
    phase \in Looping =>
        \A s \in Slots : <<k, s>> \in to_stop =>
            /\ HasRuntime(mounted, k) /\ s = mounted[k].rt
            /\ new_mounted[k] # None /\ new_mounted[k].rt = Fresh(k)

\* The runtime under construction exists; only proxies have an upstream.
BuildInv(k) ==
    Current(k) =>
        /\ phase \in Building => runtime[k][Fresh(k)] # None
        /\ phase \in {"upstream", "fresh", "rehash"} => k \in ProxyKeys

KeyInv(k) == /\ TodoInv(k) /\ MountedInv(k) /\ NewInv(k)
             /\ StopInv(k) /\ BuildInv(k)

IInv == TypeOK /\ LockInv /\ \A k \in Keys : KeyInv(k)

(* What it takes besides for NativesInSync.  Secrets are numbered in the     *)
(* order they are stored and, no two writes sharing a second, so are stamps. *)

StampInv == cred.stamp = cred.secret

\* A runtime, built for a hash, has what the hash was computed from, except
\* that its secret may be a later one.
BuiltFor(k, r, hash) ==
    /\ r.conf = hash.conf /\ r.lists = hash.lists
    /\ hash.stamp <= r.secret /\ r.secret <= SecretFor(k)

SpecInv(k) ==
    phase \in Looping \cup {"rows"} =>
        /\ phase # "rows" /\ desired[k] # None => desired[k].stamp <= SecretFor(k)
        /\ k \notin unread /\ k \in CredKeys => usable = cred.usable
        /\ k \notin unread /\ phase # "rows" =>
              desired[k] = IF Wanted(k, cred.usable) THEN HashOf(k) ELSE None

ContentInv(k) ==
    /\ HasRuntime(mounted, k) =>
          BuiltFor(k, runtime[k][mounted[k].rt], mounted[k].hash)
    /\ phase \in Looping /\ HasRuntime(new_mounted, k) =>
          BuiltFor(k, runtime[k][new_mounted[k].rt], new_mounted[k].hash)
    /\ phase \in Building /\ Current(k) =>
          BuiltFor(k, runtime[k][Fresh(k)], desired[k])
    /\ phase \in Looping /\ new_mounted[k] # None =>
          /\ desired[k] # None
          /\ ~new_mounted[k].error => new_mounted[k].hash = desired[k]

SettledInv(k) ==
    phase = "stop" \/ (phase = "idle" /\ last_run = "done") =>
        (k \notin unread => InSync(k))

SyncInv ==
    /\ StampInv
    /\ \A k \in NativeKeys : SpecInv(k) /\ ContentInv(k) /\ SettledInv(k)

RuntimeMap == [Keys -> [Slots -> Runtime \cup {None}]]

-----------------------------------------------------------------------------
(* Facts the steps below share. *)

\* Rows come in the order of their keys, so the loop is at one spec at a time.
LEMMA CurrentUnique ==
    ASSUME TypeOK, NEW j \in Keys, NEW k \in Keys, Current(j), Current(k)
    PROVE  j = k
BY KeysAssumption DEF TypeOK, Current

\* None is no row, hash, entry or runtime.
LEMMA NoneOutside ==
    None \notin Row /\ None \notin Hash /\ None \notin Mounted /\ None \notin Runtime
<1>1. 0..MaxSecret \subseteq Nat BY BoundAssumption
<1>2. None \notin Row BY NoneAssumption DEF Row, KeyLists
<1>3. None \notin Hash BY <1>1, NoneAssumption DEF Hash, KeyLists
<1>4. Mounted \subseteq [hash : [conf : Confs, lists : Lists \cup {None}, stamp : Nat],
                        rt : 0..2, error : BOOLEAN]
  BY <1>1 DEF Mounted, Hash, KeyLists, Slots
<1>5. None \notin Mounted BY <1>4, NoneAssumption
<1>6. Runtime \subseteq [conf : Confs, lists : Lists \cup {None}, secret : Nat,
                        needs_rebuild : BOOLEAN, build_error : BOOLEAN]
  BY <1>1 DEF Runtime, KeyLists
<1>7. None \notin Runtime BY <1>6, NoneAssumption
<1> QED BY <1>2, <1>3, <1>5, <1>7

\* The two slots of a key are the mounted one and the fresh one.
LEMMA FreshSlot ==
    ASSUME TypeOK, NEW k \in Keys
    PROVE  /\ Fresh(k) \in Slots
           /\ HasRuntime(mounted, k) =>
                 /\ mounted[k].rt \in Slots /\ Fresh(k) # mounted[k].rt
                 /\ \A s \in Slots : s # Fresh(k) => s = mounted[k].rt
BY DEF TypeOK, Mounted, Slots, Fresh, HasRuntime

LEMMA HashType ==
    ASSUME TypeOK, NEW k \in Keys, row[k] # None PROVE HashOf(k) \in Hash
<1>1. row[k] \in Row BY DEF TypeOK
<1>2. cred.stamp \in 0..MaxSecret BY DEF TypeOK, Credential
<1> QED BY <1>1, <1>2, BoundAssumption DEF HashOf, Hash, Row

LEMMA PutRuntime ==
    ASSUME runtime \in RuntimeMap, NEW k \in Keys, NEW s \in Slots,
           NEW r \in Runtime \cup {None}
    PROVE  [runtime EXCEPT ![k][s] = r] \in RuntimeMap
BY DEF RuntimeMap

\* A row an admin or another process may write is a row.
LEMMA RowsAreRows == ASSUME NEW k \in Keys PROVE RowsOf(k) \subseteq Row
BY DEF RowsOf, Row, KeyLists

\* The step that makes a runtime: it fills the fresh slot and no other.
LEMMA BuildFromRuntime ==
    ASSUME IInv, NEW k \in Keys, k \in todo,
           NEW secret \in 0..MaxSecret, BuildFrom(k, secret)
    PROVE  /\ runtime' \in RuntimeMap
           /\ runtime'[k][Fresh(k)] # None
           /\ \A j \in Keys, s \in Slots :
                 j # k \/ s # Fresh(k) => runtime'[j][s] = runtime[j][s]
<1> DEFINE r == [conf |-> desired[k].conf, lists |-> desired[k].lists,
                 secret |-> secret, needs_rebuild |-> FALSE, build_error |-> FALSE]
<1>1. desired[k] \in Hash BY DEF IInv, KeyInv, TodoInv, TypeOK
<1>2. r \in Runtime BY <1>1 DEF Hash, Runtime
<1>3. Fresh(k) \in Slots BY FreshSlot DEF IInv
<1>4. runtime \in RuntimeMap BY DEF IInv, TypeOK, RuntimeMap
<1>5. runtime' = [runtime EXCEPT ![k][Fresh(k)] = r] BY DEF BuildFrom
<1> HIDE DEF r
<1>6. runtime' \in RuntimeMap BY <1>2, <1>3, <1>4, <1>5, PutRuntime
<1>7. runtime'[k][Fresh(k)] = r BY <1>3, <1>4, <1>5 DEF RuntimeMap
<1> QED BY <1>2, <1>3, <1>4, <1>5, <1>6, <1>7, NoneOutside DEF RuntimeMap

-----------------------------------------------------------------------------
(* Initially. *)

LEMMA InitIInv == Init => IInv
<1> SUFFICES ASSUME Init PROVE IInv OBVIOUS
<1>1. TypeOK
  <2> USE DEF Init, NoKeys
  <2>1. cred \in Credential BY BoundAssumption DEF Credential
  <2>2. row \in [Keys -> Row \cup {None}] OBVIOUS
  <2>3. mounted \in [Keys -> Mounted \cup {None}] OBVIOUS
  <2>4. new_mounted \in [Keys -> Mounted \cup {None}] OBVIOUS
  <2>5. desired \in [Keys -> Hash \cup {None}] OBVIOUS
  <2>6. runtime \in [Keys -> [Slots -> Runtime \cup {None}]] OBVIOUS
  <2> QED BY <2>1, <2>2, <2>3, <2>4, <2>5, <2>6 DEF TypeOK, Phases
<1>2. LockInv
  BY DEF Init, LockInv, Looping, Building
<1>3. \A k \in Keys : KeyInv(k)
  BY DEF Init, KeyInv, TodoInv, MountedInv, NewInv, StopInv, BuildInv, HasRuntime,
         NoKeys, Current, Looping, Building
<1> QED BY <1>1, <1>2, <1>3 DEF IInv

-----------------------------------------------------------------------------
(* Steps outside a run: they touch nothing IInv speaks of but types.        *)

LEMMA Frame ==
    ASSUME IInv, TypeOK',
           UNCHANGED <<holder, mounted, runtime, phase, desired, todo,
                       new_mounted, to_stop>>
    PROVE  IInv'
<1>1. LockInv' BY DEF IInv, LockInv
<1>2. ASSUME NEW j \in Keys PROVE KeyInv(j)'
  BY DEF IInv, KeyInv, TodoInv, MountedInv, NewInv, StopInv, BuildInv, HasRuntime,
         Fresh, Current
<1> QED BY <1>1, <1>2 DEF IInv

LEMMA WriteRowType ==
    ASSUME TypeOK, NEW k \in Keys, NEW r \in RowsOf(k) \cup {None}, WriteRow(k, r)
    PROVE  /\ row' \in [Keys -> Row \cup {None}] /\ cred' \in Credential
           /\ unread' \subseteq Keys
BY RowsAreRows DEF TypeOK, WriteRow

LEMMA WriteCredentialType ==
    ASSUME TypeOK, WriteCredential
    PROVE  /\ row' \in [Keys -> Row \cup {None}] /\ cred' \in Credential
           /\ unread' \subseteq Keys
<1>1. cred.secret + 1 \in 0..MaxSecret /\ cred.stamp \in 0..MaxSecret
  BY BoundAssumption DEF TypeOK, Credential, WriteCredential
<1>2. cred' \in Credential BY <1>1 DEF WriteCredential, Credential
<1> QED BY <1>2, KeysAssumption DEF TypeOK, WriteCredential

\* Boot, Poll and AdminReload: a run starts, or the mark is left.
LEMMA ReloadStep ==
    ASSUME IInv, NEW who \in Admins \cup {"boot", "watcher"}, Reload(who), TypeOK',
           UNCHANGED <<mounted, runtime, localVars>>
    PROVE  IInv'
<1> USE DEF Reload, localVars, Looping, Building
<1>1. LockInv' BY NoneAssumption DEF IInv, LockInv
<1>2. ASSUME NEW j \in Keys PROVE KeyInv(j)'
  BY DEF IInv, LockInv, KeyInv, TodoInv, MountedInv, NewInv, StopInv, BuildInv,
         HasRuntime, Fresh, Current
<1> QED BY <1>1, <1>2 DEF IInv

LEMMA OutsideStep ==
    ASSUME IInv,
           \/ Boot \/ StartWatcher \/ Poll \/ ExternalWrite
           \/ \E a \in Admins : AdminWrite(a) \/ AdminReload(a) \/ AdminAborts(a)
           \/ \E a \in Admins, k, j \in ProxyKeys : AdminRename(a, k, j)
           \/ \E k \in ProxyKeys : AdminCreate(k)
    PROVE  IInv'
<1> USE DEF dbVars, procVars, localVars, historyVars
<1>0. TypeOK BY DEF IInv
<1>1. CASE Boot
  <2>1. TypeOK' BY <1>0, <1>1 DEF Boot, Reload, TypeOK, Phases
  <2> QED BY <1>1, <2>1, ReloadStep DEF Boot
<1>2. CASE StartWatcher
  <2>1. TypeOK' BY <1>0, <1>2 DEF StartWatcher, TypeOK
  <2> QED BY <1>2, <2>1, Frame DEF StartWatcher
<1>3. CASE Poll
  <2>1. TypeOK' BY <1>0, <1>3 DEF Poll, Reload, TypeOK, Phases
  <2> QED BY <1>3, <2>1, ReloadStep DEF Poll
<1>4. CASE ExternalWrite
  <2>1. /\ row' \in [Keys -> Row \cup {None}] /\ cred' \in Credential
        /\ unread' \subseteq Keys
    BY <1>0, <1>4, WriteRowType, WriteCredentialType DEF ExternalWrite
  <2>2. TypeOK' BY <1>0, <1>4, <2>1 DEF ExternalWrite, TypeOK
  <2> QED BY <1>4, <2>2, Frame DEF ExternalWrite
<1>5. ASSUME NEW a \in Admins, AdminWrite(a) PROVE IInv'
  <2>1. /\ row' \in [Keys -> Row \cup {None}] /\ cred' \in Credential
        /\ unread' \subseteq Keys
    BY <1>0, <1>5, WriteRowType, WriteCredentialType DEF AdminWrite
  <2>2. TypeOK' BY <1>0, <1>5, <2>1 DEF AdminWrite, TypeOK
  <2> QED BY <1>5, <2>2, Frame DEF AdminWrite
<1>6. ASSUME NEW a \in Admins, AdminReload(a) PROVE IInv'
  <2>1. /\ holder' \in Admins \cup {"boot", "watcher", None}
        /\ pending' \in BOOLEAN /\ phase' \in Phases /\ editing' \subseteq Admins
    BY <1>0, <1>6 DEF AdminReload, Reload, TypeOK, Phases
  <2>2. TypeOK' BY <1>0, <1>6, <2>1 DEF AdminReload, TypeOK
  <2> QED BY <1>6, <2>2, ReloadStep DEF AdminReload
<1>7. ASSUME NEW a \in Admins, AdminAborts(a) PROVE IInv'
  <2>1. TypeOK' BY <1>0, <1>7 DEF AdminAborts, TypeOK
  <2> QED BY <1>7, <2>1, Frame DEF AdminAborts
<1>8. ASSUME NEW a \in Admins, NEW k \in ProxyKeys, NEW j \in ProxyKeys,
             AdminRename(a, k, j)
      PROVE  IInv'
  <2>1. TypeOK' BY <1>0, <1>8, KeysAssumption DEF AdminRename, TypeOK
  <2> QED BY <1>8, <2>1, Frame DEF AdminRename
<1>9. ASSUME NEW k \in ProxyKeys, AdminCreate(k) PROVE IInv'
  <2>1. row' \in [Keys -> Row \cup {None}]
    BY <1>0, <1>9, RowsAreRows, KeysAssumption DEF AdminCreate, TypeOK
  <2>2. TypeOK' BY <1>0, <1>9, <2>1 DEF AdminCreate, TypeOK
  <2> QED BY <1>9, <2>2, Frame DEF AdminCreate
<1> QED BY <1>1, <1>2, <1>3, <1>4, <1>5, <1>6, <1>7, <1>8, <1>9

\* A health check marks a runtime that exists.
LEMMA HealthCheckStep ==
    ASSUME IInv, NEW k \in Keys, HealthCheck(k) PROVE IInv'
<1> DEFINE s == mounted[k].rt
           r == [runtime[k][s] EXCEPT !.needs_rebuild = TRUE]
<1>0. /\ TypeOK /\ runtime \in RuntimeMap /\ s \in Slots
      /\ runtime[k][s] \in Runtime
  <2>1. HasRuntime(mounted, k) BY DEF HealthCheck
  <2>2. TypeOK /\ runtime \in RuntimeMap BY DEF IInv, TypeOK, RuntimeMap
  <2>3. s \in Slots BY <2>1, <2>2, FreshSlot
  <2>4. runtime[k][s] # None BY <2>1 DEF IInv, KeyInv, MountedInv
  <2> QED BY <2>2, <2>3, <2>4 DEF RuntimeMap
<1>1. r \in Runtime BY <1>0 DEF Runtime
<1>2. runtime' = [runtime EXCEPT ![k][s] = r] BY <1>0 DEF HealthCheck, RuntimeMap
<1> HIDE DEF r
<1>3. runtime' \in RuntimeMap BY <1>0, <1>1, <1>2, PutRuntime
<1>4. \A j \in Keys, t \in Slots : runtime[j][t] # None => runtime'[j][t] # None
  BY <1>0, <1>1, <1>2, NoneOutside DEF RuntimeMap
<1> USE DEF HealthCheck, dbVars, procVars, localVars, historyVars
<1>5. TypeOK' BY <1>0, <1>3 DEF TypeOK, RuntimeMap
<1>6. LockInv' BY DEF IInv, LockInv
<1>7. ASSUME NEW j \in Keys PROVE KeyInv(j)'
  <2>1. TodoInv(j)' /\ StopInv(j)'
    BY DEF IInv, KeyInv, TodoInv, StopInv, HasRuntime, Fresh
  <2>2. MountedInv(j)' BY <1>0, <1>4, FreshSlot DEF IInv, KeyInv, MountedInv, HasRuntime
  <2>3. NewInv(j)'
    BY <1>0, <1>4 DEF IInv, TypeOK, Mounted, KeyInv, NewInv, HasRuntime, Fresh
  <2>4. BuildInv(j)'
    BY <1>0, <1>4, FreshSlot DEF IInv, KeyInv, BuildInv, Current, HasRuntime, Fresh
  <2> QED BY <2>1, <2>2, <2>3, <2>4 DEF KeyInv
<1> QED BY <1>5, <1>6, <1>7 DEF IInv

-----------------------------------------------------------------------------
(* Steps of a run up to its loop. *)

LEMMA ReadCredentialsStep == ASSUME IInv, ReadCredentials PROVE IInv'
<1> USE DEF ReadCredentials, dbVars, procVars, Looping, Building
<1>1. TypeOK' BY DEF IInv, TypeOK, Credential, Phases
<1>2. LockInv' BY NoneAssumption DEF IInv, LockInv
<1>3. ASSUME NEW j \in Keys PROVE KeyInv(j)'
  BY DEF IInv, LockInv, KeyInv, TodoInv, MountedInv, NewInv, StopInv, BuildInv,
         HasRuntime, Fresh, Current
<1> QED BY <1>1, <1>2, <1>3 DEF IInv

LEMMA ReadRowsStep == ASSUME IInv, ReadRows PROVE IInv'
<1> USE DEF ReadRows, dbVars, procVars, historyVars, Looping, Building
<1>0. \A k \in Keys : Wanted(k, usable) => HashOf(k) \in Hash
  BY HashType DEF IInv, Wanted
<1>1. TypeOK' BY <1>0 DEF IInv, TypeOK, Phases
<1>2. LockInv' BY NoneAssumption DEF IInv, LockInv
<1>3. new_mounted = NoKeys /\ to_stop = {} BY DEF IInv, LockInv
<1>4. ASSUME NEW j \in Keys PROVE KeyInv(j)'
  <2>1. TodoInv(j)' BY <1>0, <1>3, NoneOutside DEF IInv, TypeOK, TodoInv, NoKeys
  <2>2. MountedInv(j)' BY DEF IInv, KeyInv, MountedInv, HasRuntime
  <2>3. NewInv(j)' BY <1>3 DEF NewInv, NoKeys
  <2>4. StopInv(j)' BY <1>3 DEF StopInv
  <2>5. BuildInv(j)' BY DEF BuildInv
  <2> QED BY <2>1, <2>2, <2>3, <2>4, <2>5 DEF KeyInv
<1> QED BY <1>1, <1>2, <1>4 DEF IInv

-----------------------------------------------------------------------------
(* Steps of the loop. *)

LEMMA KeepUnchangedStep ==
    ASSUME IInv, NEW k \in Keys, KeepUnchanged(k) PROVE IInv'
<1> USE DEF KeepUnchanged, dbVars, procVars, historyVars, Looping, Building
<1>0. TypeOK /\ HasRuntime(mounted, k) BY DEF IInv, Unchanged
<1>1. TypeOK' BY <1>0 DEF TypeOK
<1>2. LockInv' BY DEF IInv, LockInv
<1>3. /\ new_mounted'[k] = mounted[k] /\ new_mounted'[k] # None
      /\ \A j \in Keys : j # k => new_mounted'[j] = new_mounted[j]
      /\ \A j \in Keys : j \in todo' <=> j \in todo /\ j # k
  BY <1>0 DEF TypeOK, HasRuntime
<1>4. new_mounted[k] = None /\ k \in todo BY DEF IInv, KeyInv, TodoInv, Current
<1>5. ASSUME NEW j \in Keys PROVE KeyInv(j)'
  <2>1. TodoInv(j)' BY <1>3 DEF IInv, KeyInv, TodoInv
  <2>2. MountedInv(j)' BY DEF IInv, KeyInv, MountedInv, HasRuntime
  <2>3. NewInv(j)'
    BY <1>0, <1>3 DEF IInv, KeyInv, MountedInv, NewInv, HasRuntime, Fresh
  <2>4. StopInv(j)' BY <1>3, <1>4 DEF IInv, KeyInv, StopInv, HasRuntime, Fresh
  <2>5. BuildInv(j)' BY DEF BuildInv
  <2> QED BY <2>1, <2>2, <2>3, <2>4, <2>5 DEF KeyInv
<1> QED BY <1>1, <1>2, <1>5 DEF IInv

\* BeginBuild without a credential and ReadSecret make the runtime.
LEMMA BuildFromStep ==
    ASSUME IInv, NEW k \in Keys, Current(k), NEW secret \in 0..MaxSecret,
           BuildFrom(k, secret), phase \in {"loop", "secret"}, dbVars' = dbVars,
           UNCHANGED <<procVars, holder, pending, mounted, usable, desired, todo,
                       new_mounted, to_stop, historyVars>>
    PROVE  IInv'
<1> USE DEF dbVars, procVars, historyVars, Looping, Building
<1>0. /\ TypeOK /\ k \in todo /\ new_mounted[k] = None
      /\ Fresh(k) \in Slots
  BY FreshSlot DEF IInv, KeyInv, TodoInv, Current
<1>1. /\ runtime' \in RuntimeMap
      /\ runtime'[k][Fresh(k)] # None
      /\ \A j \in Keys, s \in Slots :
            j # k \/ s # Fresh(k) => runtime'[j][s] = runtime[j][s]
  BY <1>0, BuildFromRuntime
<1>2. phase' = IF k \in ProxyKeys THEN "upstream" ELSE "start" BY DEF BuildFrom
<1>3. TypeOK' BY <1>0, <1>1, <1>2 DEF TypeOK, RuntimeMap, Phases
<1>4. LockInv' BY <1>2 DEF IInv, LockInv
<1>5. ASSUME NEW j \in Keys PROVE KeyInv(j)'
  <2>1. TodoInv(j)' BY <1>2 DEF IInv, KeyInv, TodoInv
  <2>2. MountedInv(j)'
    BY <1>0, <1>1, <1>2, FreshSlot DEF IInv, KeyInv, MountedInv, HasRuntime
  <2>3. NewInv(j)'
    BY <1>0, <1>1, <1>2 DEF TypeOK, Mounted, IInv, KeyInv, NewInv, HasRuntime, Fresh
  <2>4. StopInv(j)' BY <1>2 DEF IInv, KeyInv, StopInv, HasRuntime, Fresh
  <2>5. BuildInv(j)'
    <3> SUFFICES ASSUME Current(j) PROVE BuildInv(j)' BY DEF BuildInv, Current
    <3>1. j = k BY <1>0, CurrentUnique
    <3> QED BY <1>1, <1>2, <3>1 DEF BuildInv, Fresh, HasRuntime
  <2> QED BY <2>1, <2>2, <2>3, <2>4, <2>5 DEF KeyInv
<1> QED BY <1>3, <1>4, <1>5 DEF IInv

LEMMA BeginBuildStep ==
    ASSUME IInv, NEW k \in Keys, BeginBuild(k) PROVE IInv'
<1>1. CASE k \in CredKeys
  <2> USE <1>1 DEF BeginBuild, dbVars, procVars, historyVars, Looping, Building
  <2>1. TypeOK' BY DEF IInv, TypeOK, Phases
  <2>2. LockInv' BY DEF IInv, LockInv
  <2>3. ASSUME NEW j \in Keys PROVE KeyInv(j)'
    BY DEF IInv, KeyInv, TodoInv, MountedInv, NewInv, StopInv, BuildInv, HasRuntime,
           Fresh, Current
  <2> QED BY <2>1, <2>2, <2>3 DEF IInv
<1>2. CASE k \notin CredKeys
  <2>1. 0 \in 0..MaxSecret BY BoundAssumption
  <2> QED BY <1>2, <2>1, BuildFromStep DEF BeginBuild
<1> QED BY <1>1, <1>2

LEMMA ReadSecretStep ==
    ASSUME IInv, NEW k \in Keys, ReadSecret(k) PROVE IInv'
<1>1. SecretFor(k) \in 0..MaxSecret
  BY BoundAssumption DEF IInv, TypeOK, Credential, SecretFor
<1> QED BY <1>1, BuildFromStep DEF ReadSecret

\* UseStoredSnapshot, SyncSnapshot and StartProxy move a proxy's build along.
LEMMA AlongStep ==
    ASSUME IInv, NEW k \in Keys,
           UseStoredSnapshot(k) \/ SyncSnapshot(k) \/ StartProxy(k)
    PROVE  IInv'
<1> USE DEF UseStoredSnapshot, SyncSnapshot, StartProxy, dbVars, procVars, localVars,
            historyVars, Looping, Building
<1>1. row' \in [Keys -> Row \cup {None}]
  <2>1. CASE SyncSnapshot(k)
    <3>1. row[k] \in Row BY <2>1 DEF IInv, TypeOK
    <3>2. \A l \in Lists : [row[k] EXCEPT !.lists = l] \in Row
      BY <3>1 DEF Row, KeyLists
    <3> QED BY <2>1, <3>1, <3>2 DEF IInv, TypeOK
  <2> QED BY <2>1 DEF IInv, TypeOK
<1>2. TypeOK' BY <1>1 DEF IInv, TypeOK, Phases
<1>3. LockInv' BY DEF IInv, LockInv
<1>4. ASSUME NEW j \in Keys PROVE KeyInv(j)'
  <2>1. TodoInv(j)' /\ MountedInv(j)' /\ NewInv(j)' /\ StopInv(j)'
    BY DEF IInv, KeyInv, TodoInv, MountedInv, NewInv, StopInv, HasRuntime, Fresh
  <2>2. BuildInv(j)'
    <3> SUFFICES ASSUME Current(j) PROVE BuildInv(j)' BY DEF BuildInv, Current
    <3>1. j = k BY CurrentUnique DEF IInv
    <3> QED BY <3>1 DEF IInv, KeyInv, BuildInv, Fresh, HasRuntime
  <2> QED BY <2>1, <2>2 DEF KeyInv
<1> QED BY <1>2, <1>3, <1>4 DEF IInv

LEMMA ReadFreshStep ==
    ASSUME IInv, NEW k \in Keys, ReadFresh(k) PROVE IInv'
<1> USE DEF ReadFresh, dbVars, procVars, localVars, historyVars, Looping, Building
<1> DEFINE r == [runtime[k][Fresh(k)] EXCEPT !.lists = row[k].lists]
<1>0. /\ TypeOK /\ runtime \in RuntimeMap /\ Fresh(k) \in Slots
      /\ runtime[k][Fresh(k)] \in Runtime /\ row[k] \in Row
  <2>1. TypeOK BY DEF IInv
  <2>2. Fresh(k) \in Slots BY <2>1, FreshSlot
  <2>3. runtime[k][Fresh(k)] # None BY DEF IInv, KeyInv, BuildInv
  <2> QED BY <2>1, <2>2, <2>3 DEF TypeOK, RuntimeMap
<1>1. r \in Runtime BY <1>0 DEF Runtime, Row
<1>2. runtime' = [runtime EXCEPT ![k][Fresh(k)] = r] BY <1>0 DEF RuntimeMap
<1> HIDE DEF r
<1>3. runtime' \in RuntimeMap
  <2>1. [runtime EXCEPT ![k][Fresh(k)] = r] \in RuntimeMap BY <1>0, <1>1, PutRuntime
  <2> QED BY <1>2, <2>1
<1>4. \A j \in Keys, t \in Slots : runtime[j][t] # None => runtime'[j][t] # None
  BY <1>0, <1>1, <1>2, NoneOutside DEF RuntimeMap
<1>5. TypeOK' BY <1>0, <1>3 DEF TypeOK, RuntimeMap, Phases
<1>6. LockInv' BY DEF IInv, LockInv
<1>7. ASSUME NEW j \in Keys PROVE KeyInv(j)'
  <2>1. TodoInv(j)' /\ StopInv(j)'
    BY DEF IInv, KeyInv, TodoInv, StopInv, HasRuntime, Fresh
  <2>2. MountedInv(j)' BY <1>0, <1>4, FreshSlot DEF IInv, KeyInv, MountedInv, HasRuntime
  <2>3. NewInv(j)'
    BY <1>0, <1>4 DEF IInv, TypeOK, Mounted, KeyInv, NewInv, HasRuntime, Fresh
  <2>4. BuildInv(j)'
    BY <1>0, <1>4, FreshSlot DEF IInv, KeyInv, BuildInv, Current, HasRuntime, Fresh
  <2> QED BY <2>1, <2>2, <2>3, <2>4 DEF KeyInv
<1> QED BY <1>5, <1>6, <1>7 DEF IInv

\* StartNative and Rehash: the entry is made, and it replaces the mounted one.
LEMMA MountStep ==
    ASSUME IInv, NEW k \in Keys, Current(k), phase \in Building,
           NEW hash \in Hash, Mount(k, hash), dbVars' = dbVars,
           UNCHANGED <<procVars, holder, pending, mounted, runtime, usable, desired,
                       historyVars>>
    PROVE  IInv'
<1> USE DEF Mount, dbVars, procVars, historyVars, Looping, Building
<1> DEFINE m == [hash |-> hash, rt |-> Fresh(k), error |-> FALSE]
<1>0. /\ TypeOK /\ k \in todo /\ Fresh(k) \in Slots /\ new_mounted[k] = None
      /\ runtime[k][Fresh(k)] # None
  BY FreshSlot DEF IInv, KeyInv, TodoInv, BuildInv, Current
<1>1. m \in Mounted BY <1>0 DEF Mounted
<1>2. m.rt = Fresh(k) OBVIOUS
<1> HIDE DEF m
<1>3. /\ new_mounted'[k] = m /\ new_mounted'[k] # None
      /\ \A j \in Keys : j # k => new_mounted'[j] = new_mounted[j]
      /\ \A j \in Keys : j \in todo' <=> j \in todo /\ j # k
      /\ new_mounted' \in [Keys -> Mounted \cup {None}]
  BY <1>0, <1>1, NoneOutside DEF TypeOK, m
<1>4. \A j \in Keys, s \in Slots : <<j, s>> \in to_stop' <=>
          \/ <<j, s>> \in to_stop
          \/ j = k /\ HasRuntime(mounted, k) /\ s = mounted[k].rt
  BY DEF Replaced
<1>5. to_stop' \subseteq Keys \X Slots BY <1>0, FreshSlot DEF TypeOK, Replaced
<1>6. TypeOK' BY <1>0, <1>3, <1>5 DEF TypeOK, Phases
<1>7. LockInv' BY DEF IInv, LockInv
<1> HIDE DEF Mount
<1>8. phase' = "loop" BY DEF Mount
<1>9. ASSUME NEW j \in Keys PROVE KeyInv(j)'
  <2>1. TodoInv(j)' BY <1>3, <1>8 DEF IInv, KeyInv, TodoInv
  <2>2. MountedInv(j)' BY <1>8 DEF IInv, KeyInv, MountedInv, HasRuntime
  <2>3. NewInv(j)'
    BY <1>0, <1>2, <1>3, <1>8 DEF IInv, KeyInv, NewInv, HasRuntime, Fresh, Slots
  <2>4. StopInv(j)'
    BY <1>0, <1>2, <1>3, <1>4, <1>8 DEF IInv, KeyInv, StopInv, HasRuntime, Fresh
  <2>5. BuildInv(j)' BY <1>8 DEF BuildInv
  <2> QED BY <2>1, <2>2, <2>3, <2>4, <2>5 DEF KeyInv
<1> QED BY <1>6, <1>7, <1>9 DEF IInv

LEMMA StartNativeStep ==
    ASSUME IInv, NEW k \in Keys, StartNative(k) PROVE IInv'
<1>1. desired[k] \in Hash
  BY DEF StartNative, IInv, TypeOK, KeyInv, TodoInv, Current
<1> QED BY <1>1, MountStep DEF StartNative, Building

LEMMA RehashStep ==
    ASSUME IInv, NEW k \in Keys, Rehash(k) PROVE IInv'
<1>1. HashOf(k) \in Hash BY HashType DEF Rehash, IInv
<1> QED BY <1>1, MountStep DEF Rehash, Building

LEMMA BuildFailsStep ==
    ASSUME IInv, NEW k \in Keys, BuildFails(k) PROVE IInv'
<1> USE DEF BuildFails, dbVars, procVars, historyVars, Looping, Building
<1> DEFINE m == FailedEntry(k)
<1>0. /\ TypeOK /\ k \in todo /\ Fresh(k) \in Slots /\ new_mounted[k] = None
      /\ desired[k] \in Hash
  BY FreshSlot DEF IInv, TypeOK, KeyInv, TodoInv, Current
<1>1. /\ m \in Mounted
      /\ HasRuntime(mounted, k) => m.rt = mounted[k].rt
      /\ ~HasRuntime(mounted, k) => m.rt = 0
  BY <1>0 DEF FailedEntry, Mounted, TypeOK, HasRuntime
<1> HIDE DEF m
<1>2. /\ new_mounted'[k] = m /\ new_mounted'[k] # None
      /\ \A j \in Keys : j # k => new_mounted'[j] = new_mounted[j]
      /\ \A j \in Keys : j \in todo' <=> j \in todo /\ j # k
      /\ new_mounted' \in [Keys -> Mounted \cup {None}]
  BY <1>0, <1>1, NoneOutside DEF TypeOK, m
<1>3. /\ runtime' \in RuntimeMap
      /\ \A j \in Keys, s \in Slots :
            runtime[j][s] # None /\ (j # k \/ s # Fresh(k)) => runtime'[j][s] # None
  <2>1. \A s \in Slots : HasRuntime(mounted, k) /\ s # Fresh(k) =>
           [runtime[k][s] EXCEPT !.build_error = TRUE] \in Runtime
    <3> SUFFICES ASSUME HasRuntime(mounted, k), NEW s \in Slots, s # Fresh(k)
                 PROVE  [runtime[k][s] EXCEPT !.build_error = TRUE] \in Runtime
      OBVIOUS
    <3>1. s = mounted[k].rt BY <1>0, FreshSlot
    <3>2. runtime[k][mounted[k].rt] # None BY DEF IInv, KeyInv, MountedInv
    <3>3. runtime[k][s] \in Runtime BY <1>0, <3>1, <3>2 DEF TypeOK
    <3> QED BY <3>3 DEF Runtime
  <2> DEFINE f == [s \in Slots |->
                     IF s = Fresh(k) THEN None
                     ELSE IF HasRuntime(mounted, k)
                          THEN [runtime[k][s] EXCEPT !.build_error = TRUE]
                          ELSE runtime[k][s]]
  <2>2. f \in [Slots -> Runtime \cup {None}] BY <1>0, <2>1 DEF TypeOK
  <2>3. \A s \in Slots : runtime[k][s] # None /\ s # Fresh(k) => f[s] # None
    BY <2>1, NoneOutside
  <2>4. runtime' = [runtime EXCEPT ![k] = f] OBVIOUS
  <2> HIDE DEF f
  <2>5. runtime \in RuntimeMap BY <1>0 DEF TypeOK, RuntimeMap
  <2> HIDE DEF BuildFails
  <2> QED BY <2>2, <2>3, <2>4, <2>5 DEF RuntimeMap
<1>4. TypeOK' BY <1>0, <1>2, <1>3 DEF TypeOK, RuntimeMap, Phases
<1>5. LockInv' BY DEF IInv, LockInv
<1> HIDE DEF BuildFails
<1>6. phase' = "loop" /\ UNCHANGED <<mounted, desired, to_stop>> BY DEF BuildFails
<1>7. phase \in Looping BY DEF BuildFails
<1>8. ASSUME NEW j \in Keys PROVE KeyInv(j)'
  <2>1. TodoInv(j)' BY <1>2, <1>6, <1>7 DEF IInv, KeyInv, TodoInv
  <2>2. MountedInv(j)'
    BY <1>0, <1>3, <1>6, FreshSlot DEF IInv, KeyInv, MountedInv, HasRuntime
  <2>3. NewInv(j)'
    <3>1. CASE j = k
      <4>1. HasRuntime(mounted, k) =>
               /\ m.rt = mounted[k].rt /\ mounted[k].rt # 0
               /\ runtime'[k][mounted[k].rt] # None
        BY <1>0, <1>1, <1>3, FreshSlot DEF IInv, KeyInv, MountedInv, HasRuntime
      <4>2. HasRuntime(mounted, k) <=> HasRuntime(mounted', k)
        BY <1>6 DEF HasRuntime
      <4> QED BY <1>1, <1>2, <1>6, <3>1, <4>1, <4>2 DEF NewInv
    <3>2. CASE j # k
      BY <1>0, <1>2, <1>3, <1>6, <1>7, <3>2
      DEF IInv, KeyInv, NewInv, HasRuntime, Fresh, TypeOK, Mounted
    <3> QED BY <3>1, <3>2
  <2>4. StopInv(j)'
    BY <1>0, <1>2, <1>6, <1>7 DEF IInv, KeyInv, StopInv, HasRuntime, Fresh
  <2>5. BuildInv(j)' BY <1>6 DEF BuildInv
  <2> QED BY <2>1, <2>2, <2>3, <2>4, <2>5 DEF KeyInv
<1> QED BY <1>4, <1>5, <1>8 DEF IInv

LEMMA RehashRaisesStep ==
    ASSUME IInv, NEW k \in Keys, RehashRaises(k) PROVE IInv'
<1> USE DEF RehashRaises, ResetLocals, dbVars, Looping, Building
<1>0. TypeOK BY DEF IInv
<1>1. /\ runtime' \in RuntimeMap
      /\ \A j \in Keys, s \in Slots : s # Fresh(j) => runtime'[j][s] = runtime[j][s]
  BY <1>0 DEF TypeOK, RuntimeMap
<1>2. TypeOK' BY <1>0, <1>1 DEF TypeOK, RuntimeMap, NoKeys, Phases
<1>3. LockInv' BY DEF LockInv
<1>4. ASSUME NEW j \in Keys PROVE KeyInv(j)'
  <2>1. MountedInv(j)'
    BY <1>0, <1>1, FreshSlot DEF IInv, KeyInv, MountedInv, HasRuntime
  <2> QED BY <2>1 DEF KeyInv, TodoInv, NewInv, StopInv, BuildInv, Current
<1> QED BY <1>2, <1>3, <1>4 DEF IInv

-----------------------------------------------------------------------------
(* The swap and the end of a run. *)

LEMMA SwapStep == ASSUME IInv, Swap PROVE IInv'
<1> USE DEF Swap, dbVars, procVars, historyVars, Looping, Building
<1>0. TypeOK BY DEF IInv
<1>1. to_stop' \subseteq Keys \X Slots
  BY <1>0, FreshSlot DEF TypeOK, RemovedRuntimes
<1>2. TypeOK' BY <1>0, <1>1 DEF TypeOK, Phases
<1>3. LockInv' BY DEF IInv, LockInv
<1>4. ASSUME NEW j \in Keys PROVE KeyInv(j)'
  <2>1. MountedInv(j)'
    <3> SUFFICES ASSUME HasRuntime(new_mounted, j)
                 PROVE  /\ runtime[j][new_mounted[j].rt] # None
                        /\ <<j, new_mounted[j].rt>> \notin to_stop'
      BY DEF MountedInv, HasRuntime
    <3>1. runtime[j][new_mounted[j].rt] # None
      BY DEF IInv, KeyInv, NewInv, HasRuntime
    <3>2. new_mounted[j].rt \in Slots BY <1>0 DEF TypeOK, Mounted, HasRuntime
    <3>3. <<j, new_mounted[j].rt>> \notin to_stop
      BY <1>0, <3>2, FreshSlot DEF IInv, KeyInv, StopInv
    <3>4. <<j, new_mounted[j].rt>> \notin RemovedRuntimes
      BY DEF RemovedRuntimes, HasRuntime
    <3> QED BY <3>1, <3>3, <3>4
  <2> QED BY <2>1 DEF IInv, KeyInv, TodoInv, NewInv, StopInv, BuildInv, Current
<1> QED BY <1>2, <1>3, <1>4 DEF IInv

LEMMA FinishRunStep == ASSUME IInv, FinishRun PROVE IInv'
<1> USE DEF FinishRun, ResetLocals, dbVars, Looping, Building
<1>0. TypeOK BY DEF IInv
<1>1. /\ runtime' \in RuntimeMap
      /\ \A j \in Keys, s \in Slots :
            <<j, s>> \notin to_stop => runtime'[j][s] = runtime[j][s]
  BY <1>0 DEF TypeOK, RuntimeMap
<1>2. TypeOK' BY <1>0, <1>1 DEF TypeOK, RuntimeMap, NoKeys, Phases
<1>3. LockInv' BY NoneAssumption DEF IInv, LockInv
<1>4. ASSUME NEW j \in Keys PROVE KeyInv(j)'
  <2>1. MountedInv(j)'
    BY <1>0, <1>1, FreshSlot DEF IInv, KeyInv, MountedInv, HasRuntime
  <2> QED BY <2>1 DEF KeyInv, TodoInv, NewInv, StopInv, BuildInv, Current
<1> QED BY <1>2, <1>3, <1>4 DEF IInv

-----------------------------------------------------------------------------
LEMMA RunIInv == ASSUME IInv, RunStep PROVE IInv'
<1>1. ASSUME NEW k \in Keys, BuildStep(k) PROVE IInv'
  BY <1>1, KeepUnchangedStep, BeginBuildStep, ReadSecretStep, AlongStep, ReadFreshStep,
     StartNativeStep, RehashStep, BuildFailsStep, RehashRaisesStep DEF BuildStep
<1> QED BY <1>1, ReadCredentialsStep, ReadRowsStep, SwapStep, FinishRunStep DEF RunStep

LEMMA NextIInv == ASSUME IInv, [Next]_vars PROVE IInv'
<1>1. CASE RunStep BY <1>1, RunIInv
<1>2. ASSUME NEW k \in ProxyKeys, HealthCheck(k) PROVE IInv'
  BY <1>2, HealthCheckStep, KeysAssumption
<1>3. CASE UNCHANGED vars
  <2>1. TypeOK' BY <1>3 DEF IInv, TypeOK, vars
  <2> QED BY <1>3, <2>1, Frame DEF vars
<1> QED BY <1>1, <1>2, <1>3, OutsideStep DEF Next

\* The inductive invariant holds of every reachable state.
THEOREM InvariantHolds == Spec => []IInv
BY InitIInv, NextIInv, PTL DEF Spec

\* Every variable keeps its type: in particular no step of a run looks into a
\* row, an entry or a runtime that is not there.
THEOREM TypeCorrect == Spec => []TypeOK
<1>1. IInv => TypeOK BY DEF IInv
<1> QED BY <1>1, InvariantHolds, PTL

\* A toolset in the routing table has a live runtime that is not being stopped,
\* whatever fails or raises during a reload.
THEOREM RoutedRunningHolds == Spec => []RoutedRunning
<1>1. IInv => RoutedRunning BY DEF IInv, KeyInv, MountedInv, RoutedRunning
<1> QED BY <1>1, InvariantHolds, PTL

\* The action KeepServing is about, without its box.
ServingKept ==
    \A k \in Keys :
        /\ mounted[k] # None /\ mounted'[k] = None => desired[k] = None
        /\ HasRuntime(mounted, k) /\ mounted'[k] # None => HasRuntime(mounted', k)

\* Only the swap changes the mapping; it unmounts only what the database did not
\* ask for, and puts no placeholder where something was serving.
THEOREM KeepServingHolds == Spec => KeepServing
<1>1. ASSUME IInv, Next PROVE ServingKept \/ UNCHANGED vars
  <2>1. CASE mounted' = mounted BY <2>1 DEF ServingKept, HasRuntime
  <2>2. CASE Swap
    <3> USE <2>2 DEF Swap, Looping
    <3>1. ASSUME NEW k \in Keys, mounted[k] # None, mounted'[k] = None
          PROVE  desired[k] = None
      BY <1>1, <3>1 DEF IInv, KeyInv, TodoInv
    <3>2. ASSUME NEW k \in Keys, HasRuntime(mounted, k), mounted'[k] # None
          PROVE  HasRuntime(mounted', k)
      BY <1>1, <3>2 DEF IInv, KeyInv, NewInv, HasRuntime
    <3> QED BY <3>1, <3>2 DEF ServingKept
  <2>3. mounted' = mounted \/ Swap
    BY <1>1 DEF Next, Boot, StartWatcher, Poll, RunStep, BuildStep, ReadCredentials,
       ReadRows, FinishRun, KeepUnchanged, BeginBuild, ReadSecret, UseStoredSnapshot,
       SyncSnapshot, ReadFresh, StartNative, StartProxy, Rehash, BuildFails, RehashRaises,
       AdminWrite, AdminReload, AdminAborts, AdminRename, AdminCreate, HealthCheck,
       ExternalWrite
  <2> QED BY <2>1, <2>2, <2>3
<1>2. IInv /\ [Next]_vars => [ServingKept]_vars BY <1>1
<1>3. KeepServing <=> [][ServingKept]_vars BY PTL DEF KeepServing, ServingKept
<1> QED BY <1>2, <1>3, InvariantHolds, PTL DEF Spec

-----------------------------------------------------------------------------
(* Native toolsets end in sync.                                             *)

Sync(j) == SpecInv(j) /\ ContentInv(j) /\ SettledInv(j)

LEMMA MountedRuntime ==
    ASSUME IInv, NEW j \in Keys, HasRuntime(mounted, j)
    PROVE  /\ mounted[j].rt \in Slots /\ runtime[j][mounted[j].rt] \in Runtime
           /\ mounted[j].hash \in Hash
<1>1. runtime[j][mounted[j].rt] # None BY DEF IInv, KeyInv, MountedInv
<1>2. mounted[j].rt \in Slots /\ mounted[j].hash \in Hash
  BY DEF IInv, TypeOK, Mounted, HasRuntime
<1> QED BY <1>1, <1>2 DEF IInv, TypeOK

\* What the environment may do to a native key: change what the database says of
\* it, if the edit is noted as unread, and start a run.
LEMMA SyncFrame ==
    ASSUME IInv, IInv', NEW j \in NativeKeys, Sync(j),
           UNCHANGED <<mounted, desired, todo, new_mounted, usable, last_run>>,
           runtime'[j] = runtime[j],
           phase' = phase \/ phase' = "credentials",
           unread \subseteq unread',
           row'[j] = row[j] \/ j \in unread',
           j \in CredKeys => cred' = cred \/ (j \in unread' /\ cred'.secret >= cred.secret)
    PROVE  Sync(j)'
<1> USE DEF Looping, Building
<1>0. /\ j \in Keys /\ TypeOK /\ TypeOK'
      /\ cred.secret \in Int /\ cred'.secret \in Int
  BY BoundAssumption DEF NativeKeys, IInv, TypeOK, Credential
<1>1. SecretFor(j)' >= SecretFor(j) /\ SecretFor(j) \in Int /\ SecretFor(j)' \in Int
  BY <1>0 DEF SecretFor
<1>2. j \notin unread' => /\ HashOf(j)' = HashOf(j) /\ SecretFor(j)' = SecretFor(j)
                          /\ j \notin unread
                          /\ Wanted(j, cred.usable)' = Wanted(j, cred.usable)
  BY DEF HashOf, SecretFor, Wanted
<1>3. SpecInv(j)'
  <2>1. desired[j] # None => desired[j].stamp \in Int
    BY <1>0, BoundAssumption DEF TypeOK, Hash
  <2> QED BY <1>1, <1>2, <2>1 DEF Sync, SpecInv
<1>4. ContentInv(j)'
  <2>1. \A r, h : r.secret \in Int /\ BuiltFor(j, r, h) => BuiltFor(j, r, h)'
    BY <1>1 DEF BuiltFor
  <2>2. HasRuntime(mounted, j) => runtime[j][mounted[j].rt].secret \in Int
    BY <1>0, BoundAssumption, MountedRuntime DEF Runtime
  <2>3. phase \in Looping /\ HasRuntime(new_mounted, j) =>
           runtime[j][new_mounted[j].rt].secret \in Int
    BY <1>0, BoundAssumption DEF IInv, KeyInv, NewInv, TypeOK, Mounted, Runtime, HasRuntime
  <2>4. phase \in Building /\ Current(j) => runtime[j][Fresh(j)].secret \in Int
    BY <1>0, BoundAssumption, FreshSlot DEF IInv, KeyInv, BuildInv, TypeOK, Runtime
  <2>5. HasRuntime(mounted, j)' => BuiltFor(j, runtime[j][mounted[j].rt], mounted[j].hash)'
    BY <2>1, <2>2 DEF Sync, ContentInv, HasRuntime, BuiltFor
  <2>6. phase' \in Looping /\ HasRuntime(new_mounted, j)' =>
           BuiltFor(j, runtime[j][new_mounted[j].rt], new_mounted[j].hash)'
    BY <2>1, <2>3 DEF Sync, ContentInv, HasRuntime, BuiltFor
  <2>7. phase' \in Building /\ Current(j)' =>
           BuiltFor(j, runtime[j][Fresh(j)], desired[j])'
    BY <2>1, <2>4 DEF Sync, ContentInv, HasRuntime, BuiltFor, Current, Fresh
  <2> QED BY <2>5, <2>6, <2>7 DEF Sync, ContentInv
<1>5. SettledInv(j)'
  BY <1>2 DEF Sync, SettledInv, InSync, HasRuntime, Wanted, SecretFor
<1> QED BY <1>3, <1>4, <1>5 DEF Sync

LEMMA CredentialGrows ==
    ASSUME IInv, WriteCredential
    PROVE  /\ \A j \in Keys : j \in CredKeys => j \in unread'
           /\ cred'.secret >= cred.secret
           /\ unread \subseteq unread' /\ row' = row
BY BoundAssumption DEF IInv, TypeOK, Credential, WriteCredential

LEMMA RowWritten ==
    ASSUME IInv, NEW k \in Keys, NEW r, WriteRow(k, r)
    PROVE  /\ \A j \in Keys : row'[j] = row[j] \/ j \in unread'
           /\ unread \subseteq unread' /\ cred' = cred
BY DEF IInv, TypeOK, WriteRow

LEMMA OutsideSync ==
    ASSUME IInv, IInv', NEW j \in NativeKeys, Sync(j),
           \/ Boot \/ StartWatcher \/ Poll \/ ExternalWrite
           \/ \E a \in Admins : AdminWrite(a) \/ AdminReload(a) \/ AdminAborts(a)
           \/ \E a \in Admins, k, i \in ProxyKeys : AdminRename(a, k, i)
           \/ \E k \in ProxyKeys : AdminCreate(k) \/ HealthCheck(k)
           \/ UNCHANGED vars
    PROVE  Sync(j)'
<1> USE DEF dbVars, procVars, localVars, historyVars, NativeKeys
<1>1. CASE Boot BY <1>1, SyncFrame DEF Boot, Reload
<1>2. CASE StartWatcher BY <1>2, SyncFrame DEF StartWatcher
<1>3. CASE Poll BY <1>3, SyncFrame DEF Poll, Reload
<1>4. CASE ExternalWrite
  <2>1. /\ UNCHANGED <<mounted, desired, todo, new_mounted, usable, last_run, runtime, phase>>
        /\ \/ \E k \in Keys, r \in Row \cup {None} : WriteRow(k, r)
           \/ WriteCredential
    BY <1>4, RowsAreRows DEF ExternalWrite
  <2> QED BY <2>1, SyncFrame, RowWritten, CredentialGrows
<1>5. ASSUME NEW a \in Admins, AdminWrite(a) PROVE Sync(j)'
  <2>1. /\ UNCHANGED <<mounted, desired, todo, new_mounted, usable, last_run, runtime, phase>>
        /\ \/ \E k \in Keys, r \in Row \cup {None} : WriteRow(k, r)
           \/ WriteCredential
    BY <1>5, RowsAreRows DEF AdminWrite
  <2> QED BY <2>1, SyncFrame, RowWritten, CredentialGrows
<1>6. ASSUME NEW a \in Admins, AdminReload(a) PROVE Sync(j)'
  BY <1>6, SyncFrame DEF AdminReload, Reload
<1>7. ASSUME NEW a \in Admins, AdminAborts(a) PROVE Sync(j)'
  BY <1>7, SyncFrame DEF AdminAborts
<1>8. ASSUME NEW a \in Admins, NEW k \in ProxyKeys, NEW i \in ProxyKeys,
             AdminRename(a, k, i)
      PROVE  Sync(j)'
  <2>1. row'[j] = row[j] BY <1>8 DEF AdminRename, IInv, TypeOK
  <2> QED BY <1>8, <2>1, SyncFrame DEF AdminRename
<1>9. ASSUME NEW k \in ProxyKeys, AdminCreate(k) PROVE Sync(j)'
  <2>1. row'[j] = row[j] BY <1>9 DEF AdminCreate, IInv, TypeOK
  <2> QED BY <1>9, <2>1, SyncFrame DEF AdminCreate
<1>10. ASSUME NEW k \in ProxyKeys, HealthCheck(k) PROVE Sync(j)'
  <2>1. runtime'[j] = runtime[j] BY <1>10 DEF HealthCheck, IInv, TypeOK
  <2> QED BY <1>10, <2>1, SyncFrame DEF HealthCheck
<1>11. CASE UNCHANGED vars BY <1>11, SyncFrame DEF vars
<1> QED BY <1>1, <1>2, <1>3, <1>4, <1>5, <1>6, <1>7, <1>8, <1>9, <1>10, <1>11

LEMMA ReadingSync ==
    ASSUME IInv, StampInv, NEW j \in NativeKeys, Sync(j), ReadCredentials \/ ReadRows
    PROVE  Sync(j)'
<1> USE DEF dbVars, procVars, historyVars, Looping, Building
<1>0. j \in Keys /\ TypeOK BY DEF NativeKeys, IInv
<1>1. CASE ReadCredentials
  BY <1>0, <1>1 DEF ReadCredentials, Sync, SpecInv, ContentInv, SettledInv, BuiltFor,
                    HasRuntime, SecretFor
<1>2. CASE ReadRows
  <2> USE <1>2 DEF ReadRows
  <2>1. desired'[j] = IF Wanted(j, usable) THEN HashOf(j) ELSE None BY <1>0
  <2>2. HashOf(j).stamp = SecretFor(j) BY DEF HashOf, SecretFor, StampInv
  <2>3. SecretFor(j) \in Int BY <1>0, BoundAssumption DEF SecretFor, TypeOK, Credential
  <2>4. SpecInv(j)'
    <3>1. j \notin unread => (Wanted(j, usable) <=> Wanted(j, cred.usable))
      BY DEF Sync, SpecInv, Wanted
    <3>2. UNCHANGED <<cred, row, unread, usable>> OBVIOUS
    <3> QED BY <2>1, <2>2, <2>3, <3>1, <3>2
        DEF Sync, SpecInv, SecretFor, Wanted, HashOf
  <2>5. ContentInv(j)'
    <3>1. new_mounted' = NoKeys BY DEF IInv, LockInv
    <3> QED BY <1>0, <3>1 DEF Sync, ContentInv, HasRuntime, NoKeys, BuiltFor, SecretFor
  <2>6. SettledInv(j)' BY DEF SettledInv
  <2> QED BY <2>4, <2>5, <2>6 DEF Sync
<1> QED BY <1>1, <1>2

\* A step of the loop that does not come to j leaves what it holds for j alone.
LEMMA LoopFrame ==
    ASSUME IInv, NEW j \in NativeKeys, Sync(j),
           phase \in Looping, phase' \in Looping,
           UNCHANGED <<cred, mounted, desired, usable, unread>>,
           row'[j] = row[j],
           new_mounted'[j] = new_mounted[j],
           runtime'[j] = runtime[j],
           phase' \in Building => ~Current(j)'
    PROVE  Sync(j)'
<1> USE DEF Looping, Building
<1>1. SpecInv(j)' BY DEF Sync, SpecInv, SecretFor, Wanted, HashOf
<1>2. ContentInv(j)' BY DEF Sync, ContentInv, HasRuntime, BuiltFor, SecretFor
<1>3. SettledInv(j)' BY DEF SettledInv
<1> QED BY <1>1, <1>2, <1>3 DEF Sync

\* A step that works on k, seen from another native key, or on a proxy.
LEMMA OtherSync ==
    ASSUME IInv, IInv', NEW k \in Keys, NEW j \in NativeKeys, Sync(j), j # k,
           BuildStep(k), ~RehashRaises(k)
    PROVE  Sync(j)'
<1> USE DEF dbVars, procVars, localVars, historyVars, Looping, Building
<1>0. j \in Keys /\ TypeOK /\ TypeOK' BY DEF NativeKeys, IInv
<1>1. UNCHANGED <<cred, mounted, desired, usable, unread>>
  BY DEF BuildStep, KeepUnchanged, BeginBuild, BuildFrom, ReadSecret, UseStoredSnapshot,
     SyncSnapshot, ReadFresh, StartNative, StartProxy, Rehash, BuildFails
<1>2. phase \in Looping /\ phase' \in Looping
  BY DEF BuildStep, KeepUnchanged, BeginBuild, BuildFrom, ReadSecret, UseStoredSnapshot,
     SyncSnapshot, ReadFresh, StartNative, StartProxy, Rehash, BuildFails, Mount
<1>3. row'[j] = row[j]
  BY <1>0 DEF TypeOK, BuildStep, KeepUnchanged, BeginBuild, ReadSecret, UseStoredSnapshot,
     SyncSnapshot, ReadFresh, StartNative, StartProxy, Rehash, BuildFails
<1>4. new_mounted'[j] = new_mounted[j]
  BY <1>0 DEF TypeOK, BuildStep, KeepUnchanged, BeginBuild, ReadSecret, UseStoredSnapshot,
     SyncSnapshot, ReadFresh, StartNative, StartProxy, Rehash, BuildFails, Mount
<1>5. runtime'[j] = runtime[j]
  BY <1>0 DEF TypeOK, BuildStep, KeepUnchanged, BeginBuild, BuildFrom, ReadSecret,
     UseStoredSnapshot, SyncSnapshot, ReadFresh, StartNative, StartProxy, Rehash, BuildFails
<1>6. phase' \in Building => ~Current(j)'
  <2>1. phase' \in Building => Current(k)'
    BY DEF BuildStep, KeepUnchanged, BeginBuild, BuildFrom, ReadSecret, UseStoredSnapshot,
       SyncSnapshot, ReadFresh, StartNative, StartProxy, Rehash, BuildFails, Mount, Current
  <2>2. Current(k)' /\ Current(j)' => j = k BY <1>0, KeysAssumption DEF Current, TypeOK
  <2> QED BY <2>1, <2>2
<1> QED BY <1>1, <1>2, <1>3, <1>4, <1>5, <1>6, LoopFrame

\* The steps of the loop that a native key itself goes through.
LEMMA OwnSync ==
    ASSUME IInv, IInv', NEW k \in NativeKeys, Sync(k), BuildStep(k), ~RehashRaises(k)
    PROVE  Sync(k)'
<1> USE DEF dbVars, procVars, localVars, historyVars, Looping, Building
<1>0. /\ k \in Keys /\ k \notin ProxyKeys /\ TypeOK /\ TypeOK' BY DEF NativeKeys, IInv
<1>1. UNCHANGED <<row, cred, mounted, desired, usable, unread>>
  BY <1>0 DEF BuildStep, KeepUnchanged, BeginBuild, BuildFrom, ReadSecret, UseStoredSnapshot,
     SyncSnapshot, ReadFresh, StartNative, StartProxy, Rehash, BuildFails, IInv, KeyInv,
     BuildInv
<1>2. /\ phase \in Looping /\ phase' \in Looping
      /\ k \in todo /\ desired[k] \in Hash /\ new_mounted[k] = None
      /\ Current(k)
  <2>1. phase \in Looping /\ phase' \in Looping /\ Current(k)
    BY DEF BuildStep, KeepUnchanged, BeginBuild, BuildFrom, ReadSecret, UseStoredSnapshot,
       SyncSnapshot, ReadFresh, StartNative, StartProxy, Rehash, BuildFails, Mount
  <2> QED BY <2>1 DEF Current, IInv, KeyInv, TodoInv, TypeOK
<1>3. SpecInv(k)' /\ SettledInv(k)'
  BY <1>1, <1>2 DEF Sync, SpecInv, SettledInv, SecretFor, Wanted, HashOf
<1>4. desired[k].stamp <= SecretFor(k) BY <1>2, NoneOutside DEF Sync, SpecInv
<1>5. CASE KeepUnchanged(k)
  <2>1. /\ new_mounted'[k] = mounted[k] /\ runtime' = runtime /\ phase' = "loop"
        /\ HasRuntime(mounted, k) /\ mounted[k].hash = desired[k]
    BY <1>0, <1>5 DEF KeepUnchanged, Unchanged, TypeOK
  <2>2. ContentInv(k)'
    BY <1>1, <1>2, <2>1, NoneOutside DEF Sync, ContentInv, HasRuntime, BuiltFor, SecretFor
  <2> QED BY <1>3, <2>2 DEF Sync
<1>6. CASE BeginBuild(k) \/ ReadSecret(k)
  <2>1. CASE phase' = "secret"
    <3>1. UNCHANGED <<runtime, new_mounted>>
      BY <1>6, <2>1 DEF BeginBuild, BuildFrom, ReadSecret
    <3>2. ContentInv(k)'
      BY <1>1, <1>2, <2>1, <3>1 DEF Sync, ContentInv, HasRuntime, BuiltFor, SecretFor
    <3> QED BY <1>3, <3>2 DEF Sync
  <2>2. CASE phase' # "secret"
    <3>1. SecretFor(k) \in 0..MaxSecret
      BY <1>0, BoundAssumption DEF SecretFor, TypeOK, Credential
    <3>2. BuildFrom(k, SecretFor(k)) /\ new_mounted' = new_mounted /\ todo' = todo
      BY <1>6, <2>2 DEF BeginBuild, ReadSecret, SecretFor
    <3>3. runtime'[k][Fresh(k)] =
            [conf |-> desired[k].conf, lists |-> desired[k].lists,
             secret |-> SecretFor(k), needs_rebuild |-> FALSE, build_error |-> FALSE]
      BY <1>0, <3>2, FreshSlot DEF BuildFrom, TypeOK
    <3>4. \A s \in Slots : s # Fresh(k) => runtime'[k][s] = runtime[k][s]
      BY <1>0, <1>2, <3>1, <3>2, BuildFromRuntime
    <3>5. HasRuntime(mounted, k) =>
            runtime'[k][mounted[k].rt] = runtime[k][mounted[k].rt]
      BY <1>0, <3>4, FreshSlot
    <3>6. ContentInv(k)'
      <4>1. BuiltFor(k, runtime[k][Fresh(k)], desired[k])'
        BY <1>0, <1>1, <1>4, <3>1, <3>3
        DEF BuiltFor, SecretFor, Fresh, HasRuntime
      <4>2. HasRuntime(mounted, k)' =>
               BuiltFor(k, runtime[k][mounted[k].rt], mounted[k].hash)'
        BY <1>1, <3>5 DEF Sync, ContentInv, HasRuntime, BuiltFor, SecretFor
      <4>3. new_mounted'[k] = None BY <1>2, <3>2
      <4> QED BY <4>1, <4>2, <4>3 DEF ContentInv, HasRuntime
    <3> QED BY <1>3, <3>6 DEF Sync
  <2> QED BY <2>1, <2>2
<1>7. CASE StartNative(k)
  <2>1. /\ new_mounted'[k] = [hash |-> desired[k], rt |-> Fresh(k), error |-> FALSE]
        /\ runtime' = runtime /\ phase' = "loop" /\ phase = "start"
    BY <1>0, <1>7 DEF StartNative, Mount, TypeOK
  <2>2. BuiltFor(k, runtime[k][Fresh(k)], desired[k])
    BY <1>2, <2>1 DEF Sync, ContentInv
  <2>3. ContentInv(k)'
    BY <1>1, <1>2, <2>1, <2>2, NoneOutside
    DEF Sync, ContentInv, HasRuntime, BuiltFor, SecretFor
  <2> QED BY <1>3, <2>3 DEF Sync
<1>8. CASE BuildFails(k)
  <2>1. /\ new_mounted'[k] = FailedEntry(k) /\ phase' = "loop"
    BY <1>0, <1>8 DEF BuildFails, TypeOK
  <2>2. ASSUME HasRuntime(mounted, k)
        PROVE  runtime'[k][mounted[k].rt] =
                 [runtime[k][mounted[k].rt] EXCEPT !.build_error = TRUE]
    BY <1>0, <1>8, <2>2, FreshSlot DEF BuildFails, TypeOK
  <2>3. HasRuntime(mounted, k) =>
           BuiltFor(k, runtime[k][mounted[k].rt], mounted[k].hash)'
    <3> SUFFICES ASSUME HasRuntime(mounted, k)
                 PROVE  BuiltFor(k, runtime[k][mounted[k].rt], mounted[k].hash)'
      OBVIOUS
    <3>1. runtime[k][mounted[k].rt] \in Runtime BY <1>0, MountedRuntime
    <3>2. BuiltFor(k, runtime[k][mounted[k].rt], mounted[k].hash) BY DEF Sync, ContentInv
    <3> QED BY <1>1, <2>2, <3>1, <3>2 DEF BuiltFor, SecretFor, Runtime
  <2>4. HasRuntime(mounted, k) => /\ FailedEntry(k).rt = mounted[k].rt
                                  /\ FailedEntry(k).hash = mounted[k].hash
                                  /\ FailedEntry(k).error
    BY <1>0 DEF FailedEntry, TypeOK, Mounted, HasRuntime
  <2>5. ~HasRuntime(mounted, k) => FailedEntry(k).rt = 0 /\ FailedEntry(k).error
    BY DEF FailedEntry
  <2>6. ContentInv(k)'
    BY <1>1, <1>2, <2>1, <2>3, <2>4, <2>5, NoneOutside
    DEF ContentInv, HasRuntime, BuiltFor
  <2> QED BY <1>3, <2>6 DEF Sync
<1>9. KeepUnchanged(k) \/ BeginBuild(k) \/ ReadSecret(k) \/ StartNative(k) \/ BuildFails(k)
  BY <1>0 DEF BuildStep, UseStoredSnapshot, SyncSnapshot, ReadFresh, StartProxy, Rehash,
     IInv, KeyInv, BuildInv
<1> QED BY <1>5, <1>6, <1>7, <1>8, <1>9

LEMMA RehashRaisesSync ==
    ASSUME IInv, NEW j \in NativeKeys, Sync(j), NEW k \in Keys, RehashRaises(k)
    PROVE  Sync(j)'
<1> USE DEF dbVars, Looping, Building
<1>0. j \in Keys /\ TypeOK BY DEF NativeKeys, IInv
<1>1. phase' = "idle" /\ last_run' = "raised" /\ UNCHANGED <<row, cred, mounted>>
  BY DEF RehashRaises
<1>2. HasRuntime(mounted, j) => runtime'[j][mounted[j].rt] = runtime[j][mounted[j].rt]
  BY <1>0, FreshSlot DEF RehashRaises
<1>3. ContentInv(j)'
  BY <1>1, <1>2 DEF Sync, ContentInv, HasRuntime, BuiltFor, SecretFor
<1> QED BY <1>1, <1>3 DEF Sync, SpecInv, SettledInv

\* The swap mounts what the loop made of the specs; of a key that is still as it
\* was read, that is what the database says.
LEMMA SwapSync ==
    ASSUME IInv, IInv', StampInv, NEW j \in NativeKeys, Sync(j), Swap
    PROVE  Sync(j)'
<1> USE DEF dbVars, procVars, historyVars, Looping, Building
<1>0. j \in Keys /\ TypeOK /\ TypeOK' BY DEF NativeKeys, IInv
<1>1. /\ phase = "loop" /\ phase' = "stop" /\ todo = {} /\ mounted' = new_mounted
      /\ UNCHANGED <<row, cred, runtime, unread>>
  BY DEF Swap
<1>2. ContentInv(j)'
  BY <1>1 DEF Sync, ContentInv, HasRuntime, BuiltFor, SecretFor
<1>3. ASSUME j \notin unread PROVE InSync(j)'
  <2>1. desired[j] = IF Wanted(j, cred.usable) THEN HashOf(j) ELSE None
    BY <1>1, <1>3 DEF Sync, SpecInv
  <2>2. Wanted(j, cred.usable) => desired[j] # None
    BY <1>0, <2>1, HashType, NoneOutside DEF Wanted
  <2>3. desired[j] # None <=> new_mounted[j] # None
    BY <1>0, <1>1 DEF IInv, KeyInv, TodoInv, Sync, ContentInv
  <2>4. ASSUME HasRuntime(new_mounted, j), ~new_mounted[j].error
        PROVE  LET r == runtime[j][new_mounted[j].rt]
               IN r.conf = row[j].conf /\ r.lists = row[j].lists /\ r.secret = SecretFor(j)
    <3> DEFINE r == runtime[j][new_mounted[j].rt]
    <3>1. new_mounted[j].hash = HashOf(j) /\ BuiltFor(j, r, HashOf(j))
      BY <1>1, <2>1, <2>3, <2>4 DEF Sync, ContentInv, HasRuntime
    <3>2. r \in Runtime
      BY <1>0, <1>1, <2>4 DEF IInv, KeyInv, NewInv, TypeOK, Mounted, HasRuntime
    <3>3. r.secret \in Int /\ SecretFor(j) \in Int
      BY <1>0, <3>2, BoundAssumption DEF Runtime, SecretFor, TypeOK, Credential
    <3>4. HashOf(j).stamp = SecretFor(j) BY DEF HashOf, SecretFor, StampInv
    <3>5. HashOf(j).conf = row[j].conf /\ HashOf(j).lists = row[j].lists BY DEF HashOf
    <3> QED BY <3>1, <3>3, <3>4, <3>5 DEF BuiltFor
  <2>5. Wanted(j, cred.usable)' <=> mounted'[j] # None
    BY <1>1, <2>1, <2>2, <2>3 DEF Wanted
  <2> QED BY <1>1, <2>4, <2>5 DEF InSync, HasRuntime, SecretFor
<1> QED BY <1>1, <1>2, <1>3 DEF Sync, SpecInv, SettledInv

\* Stopping what was replaced does not reach what is mounted.
LEMMA FinishRunSync ==
    ASSUME IInv, NEW j \in NativeKeys, Sync(j), FinishRun
    PROVE  Sync(j)'
<1> USE DEF dbVars, Looping, Building
<1>0. j \in Keys /\ TypeOK BY DEF NativeKeys, IInv
<1>1. /\ phase = "stop" /\ phase' \in {"idle", "credentials"}
      /\ UNCHANGED <<row, cred, mounted, unread>>
  BY DEF FinishRun
<1>2. HasRuntime(mounted, j) => runtime'[j][mounted[j].rt] = runtime[j][mounted[j].rt]
  BY <1>0, <1>1, FreshSlot DEF FinishRun, IInv, KeyInv, MountedInv
<1>3. ContentInv(j)'
  BY <1>1, <1>2 DEF Sync, ContentInv, HasRuntime, BuiltFor, SecretFor
<1>4. SettledInv(j)'
  BY <1>1, <1>2 DEF Sync, SettledInv, InSync, HasRuntime, Wanted, SecretFor
<1> QED BY <1>1, <1>3, <1>4 DEF Sync, SpecInv

\* Secret and stamp advance together when no two writes share a second.
LEMMA StampStep ==
    ASSUME "sameSecond" \notin Faults, IInv, StampInv, [Next]_vars
    PROVE  StampInv'
<1>1. ASSUME WriteCredential PROVE StampInv'
  BY <1>1 DEF WriteCredential, StampInv
<1>2. cred' = cred \/ WriteCredential
  BY DEF Next, Boot, StartWatcher, Poll, RunStep, BuildStep, ReadCredentials,
     ReadRows, Swap, FinishRun, KeepUnchanged, BeginBuild, ReadSecret, UseStoredSnapshot,
     SyncSnapshot, ReadFresh, StartNative, StartProxy, Rehash, BuildFails, RehashRaises,
     AdminWrite, AdminReload, AdminAborts, AdminRename, AdminCreate, HealthCheck,
     ExternalWrite, WriteRow, dbVars, vars
<1> QED BY <1>1, <1>2 DEF StampInv

LEMMA NextSync ==
    ASSUME "sameSecond" \notin Faults, IInv, SyncInv, [Next]_vars
    PROVE  SyncInv'
<1>1. IInv' BY NextIInv
<1>2. StampInv /\ StampInv' BY StampStep DEF SyncInv
<1>3. ASSUME NEW j \in NativeKeys PROVE Sync(j)'
  <2>0. Sync(j) BY DEF SyncInv, Sync
  <2>1. CASE RunStep
    <3>1. ASSUME NEW k \in Keys, BuildStep(k) PROVE Sync(j)'
      BY <1>1, <2>0, <3>1, OtherSync, OwnSync, RehashRaisesSync
    <3> QED BY <1>1, <1>2, <2>0, <2>1, <3>1, ReadingSync, SwapSync, FinishRunSync
        DEF RunStep
  <2> QED BY <1>1, <2>0, <2>1, OutsideSync DEF Next
<1> QED BY <1>2, <1>3 DEF SyncInv, Sync

LEMMA InitSync == Init => SyncInv
<1> SUFFICES ASSUME Init PROVE SyncInv OBVIOUS
<1>1. StampInv BY DEF Init, StampInv
<1>2. ASSUME NEW j \in NativeKeys PROVE SpecInv(j) /\ ContentInv(j) /\ SettledInv(j)
  BY DEF Init, NativeKeys, NoKeys, SpecInv, ContentInv, SettledInv, HasRuntime, Looping,
         Building
<1> QED BY <1>1, <1>2 DEF SyncInv

\* Whenever no run is in progress, every native toolset nobody has edited since
\* the last run began to read is mounted exactly if the database wants it, with
\* the configuration and the secret the database holds -- provided no two writes
\* of the credential carry the same updated_at (db.py:45 counts in seconds).
THEOREM NativesInSyncHolds ==
    ASSUME "sameSecond" \notin Faults PROVE Spec => []NativesInSync
<1>1. IInv /\ SyncInv => NativesInSync
  <2> SUFFICES ASSUME IInv, SyncInv, Quiet, NEW k \in NativeKeys \ unread PROVE InSync(k)
    BY DEF NativesInSync
  <2>1. phase = "idle" BY DEF Quiet, IInv, LockInv
  <2> QED BY <2>1 DEF SyncInv, SettledInv, Quiet
<1>2. Init => IInv /\ SyncInv BY InitIInv, InitSync
<1>3. IInv /\ SyncInv /\ [Next]_vars => (IInv /\ SyncInv)' BY NextIInv, NextSync
<1> QED BY <1>1, <1>2, <1>3, PTL DEF Spec

-----------------------------------------------------------------------------
(***************************************************************************)
(* What is alive, of native toolsets and of proxies.                       *)
(***************************************************************************)

\* Up to the swap, what has a successor is marked for a stop ...
ReplacedInv(k) ==
    phase \in Looping /\ HasRuntime(mounted, k) /\ new_mounted[k] # None
      /\ new_mounted[k].rt = Fresh(k) => <<k, mounted[k].rt>> \in to_stop

\* ... and what is alive is mounted, about to be, under construction, or to be
\* stopped.
AliveInv(k) ==
    \A s \in Slots : runtime[k][s] # None =>
        \/ mounted[k] # None /\ mounted[k].rt = s
        \/ phase \in Looping /\ new_mounted[k] # None /\ new_mounted[k].rt = s
        \/ phase \in Building /\ Current(k) /\ s = Fresh(k)
        \/ phase = "stop" /\ <<k, s>> \in to_stop

LifeInv == \A k \in Keys : ReplacedInv(k) /\ AliveInv(k)

USE DEF Looping, Building

LEMMA InitLife == Init => LifeInv
<1>1. Init => /\ phase = "idle"
              /\ \A k \in Keys, s \in Slots : runtime[k][s] = None
  BY DEF Init
<1> QED BY <1>1 DEF LifeInv, ReplacedInv, AliveInv

\* Steps that make no runtime and leave the run where it is, only start one, or
\* move a build along.
LEMMA LifeFrame ==
    ASSUME IInv, LifeInv,
           UNCHANGED <<mounted, todo, new_mounted, to_stop>>,
           \A k \in Keys, s \in Slots : runtime'[k][s] # None => runtime[k][s] # None,
           \/ phase' = phase
           \/ phase \in {"idle", "credentials"} /\ phase' \in {"credentials", "rows"}
           \/ phase \in Building /\ phase' \in Building
    PROVE  LifeInv'
<1> SUFFICES ASSUME NEW k \in Keys PROVE ReplacedInv(k)' /\ AliveInv(k)'
  BY DEF LifeInv
<1>1. ReplacedInv(k) /\ AliveInv(k) BY DEF LifeInv
<1>2. ReplacedInv(k)'
  BY <1>1 DEF IInv, LockInv, ReplacedInv, HasRuntime, Fresh, NoKeys
<1>3. AliveInv(k)'
  BY <1>1 DEF IInv, LockInv, AliveInv, Fresh, Current, NoKeys
<1> QED BY <1>2, <1>3

LEMMA OutsideLife ==
    ASSUME IInv, LifeInv,
           \/ Boot \/ StartWatcher \/ Poll \/ ExternalWrite
           \/ \E a \in Admins : AdminWrite(a) \/ AdminReload(a) \/ AdminAborts(a)
           \/ \E a \in Admins, k, j \in ProxyKeys : AdminRename(a, k, j)
           \/ \E k \in ProxyKeys : AdminCreate(k)
           \/ ReadCredentials \/ UNCHANGED vars
    PROVE  LifeInv'
<1>1. UNCHANGED <<mounted, runtime, todo, new_mounted, to_stop>>
  BY DEF Boot, StartWatcher, Poll, ExternalWrite, AdminWrite, AdminReload,
         AdminAborts, AdminRename, AdminCreate, ReadCredentials, localVars, vars
<1>2. \/ phase' = phase
      \/ phase \in {"idle", "credentials"} /\ phase' \in {"credentials", "rows"}
  BY DEF Boot, StartWatcher, Poll, ExternalWrite, AdminWrite, AdminReload,
         AdminAborts, AdminRename, AdminCreate, ReadCredentials, Reload, IInv, LockInv,
         vars
<1> QED BY <1>1, <1>2, LifeFrame

\* A health check marks a runtime that is there.
LEMMA HealthCheckLife ==
    ASSUME IInv, LifeInv, NEW k \in Keys, HealthCheck(k) PROVE LifeInv'
<1>1. runtime[k][mounted[k].rt] # None
  BY DEF HealthCheck, IInv, KeyInv, MountedInv
<1>2. \A j \in Keys, s \in Slots :
         j # k \/ s # mounted[k].rt => runtime'[j][s] = runtime[j][s]
  BY DEF HealthCheck, IInv, TypeOK
<1>3. \A j \in Keys, s \in Slots : runtime'[j][s] # None => runtime[j][s] # None
  BY <1>1, <1>2
<1> QED BY <1>3, LifeFrame DEF HealthCheck, localVars

LEMMA ReadRowsLife == ASSUME IInv, LifeInv, ReadRows PROVE LifeInv'
<1>1. new_mounted = NoKeys /\ to_stop = {} BY DEF ReadRows, IInv, LockInv
<1>2. UNCHANGED <<mounted, runtime, new_mounted, to_stop>>
      /\ phase = "rows" /\ phase' = "loop"
  BY DEF ReadRows, historyVars
<1> QED BY <1>1, <1>2 DEF LifeInv, ReplacedInv, AliveInv, HasRuntime, Fresh, NoKeys

\* What a step of the loop at one key leaves as it is at another.
LEMMA OtherLife ==
    ASSUME IInv, LifeInv, NEW k \in Keys, NEW j \in Keys, j # k, Current(k),
           phase \in Looping, phase' \in Looping,
           runtime'[j] = runtime[j], mounted' = mounted,
           new_mounted'[j] = new_mounted[j],
           \A s \in Slots : <<j, s>> \in to_stop => <<j, s>> \in to_stop',
           phase' \in Building => Current(k)'
    PROVE  ReplacedInv(j)' /\ AliveInv(j)'
<1>1. ~Current(j) BY CurrentUnique DEF IInv
<1>2. phase' \in Building => ~Current(j)'
  BY KeysAssumption DEF Current
<1>3. Fresh(j)' = Fresh(j) BY DEF Fresh
<1>4. ReplacedInv(j) /\ AliveInv(j) BY DEF LifeInv
<1>5. HasRuntime(mounted, j) => mounted[j].rt \in Slots BY FreshSlot DEF IInv
<1> QED BY <1>1, <1>2, <1>3, <1>4, <1>5 DEF ReplacedInv, AliveInv, HasRuntime

\* Where the loop is before and after a step that deals with a key or gets it
\* nearer to that.
LoopStep(k) ==
    \/ KeepUnchanged(k) \/ BeginBuild(k) \/ ReadSecret(k) \/ StartNative(k)
    \/ Rehash(k) \/ BuildFails(k)

LEMMA LoopSteps ==
    ASSUME IInv, NEW k \in Keys, LoopStep(k)
    PROVE  /\ Current(k) /\ phase \in Looping /\ phase' \in Looping
           /\ phase' \in Building => Current(k)'
           /\ mounted' = mounted /\ to_stop \subseteq to_stop'
           /\ \A j \in Keys : j # k => /\ runtime'[j] = runtime[j]
                                       /\ new_mounted'[j] = new_mounted[j]
<1> USE DEF LoopStep
<1>1. Current(k) /\ phase \in Looping /\ phase' \in Looping
  BY DEF KeepUnchanged, BeginBuild, BuildFrom, ReadSecret, StartNative, Rehash,
     BuildFails, Mount
<1>2. phase' \in Building => Current(k)'
  BY DEF KeepUnchanged, BeginBuild, BuildFrom, ReadSecret, StartNative, Rehash,
     BuildFails, Mount, Current
<1>3. mounted' = mounted /\ to_stop \subseteq to_stop'
  BY DEF KeepUnchanged, BeginBuild, ReadSecret, StartNative, Rehash, BuildFails, Mount
<1>4. ASSUME NEW j \in Keys, j # k
      PROVE  runtime'[j] = runtime[j] /\ new_mounted'[j] = new_mounted[j]
  BY <1>4 DEF IInv, TypeOK, KeepUnchanged, BeginBuild, BuildFrom, ReadSecret,
     StartNative, Rehash, BuildFails, Mount
<1> QED BY <1>1, <1>2, <1>3, <1>4

\* The step that mounts what was built, at its own key.
LEMMA MountLife ==
    ASSUME IInv, LifeInv, NEW k \in Keys, NEW hash \in Hash, Mount(k, hash),
           Current(k), phase \in Building, UNCHANGED <<mounted, runtime>>
    PROVE  ReplacedInv(k)' /\ AliveInv(k)'
<1>0. /\ TypeOK /\ Fresh(k) \in Slots /\ k \in todo /\ new_mounted[k] = None
      /\ ReplacedInv(k) /\ AliveInv(k)
  BY FreshSlot DEF IInv, KeyInv, TodoInv, Current, LifeInv
<1>1. /\ new_mounted'[k] = [hash |-> hash, rt |-> Fresh(k), error |-> FALSE]
      /\ phase' = "loop" /\ UNCHANGED <<mounted, runtime, Fresh(k)>>
      /\ HasRuntime(mounted, k) => <<k, mounted[k].rt>> \in to_stop'
  BY <1>0 DEF Mount, Replaced, TypeOK, Fresh
<1>2. new_mounted'[k] # None
  <2>1. [hash |-> hash, rt |-> Fresh(k), error |-> FALSE] \in Mounted
    BY <1>0 DEF Mounted
  <2> QED BY <1>1, <2>1, NoneOutside
<1>3. ReplacedInv(k)'
  BY <1>1 DEF ReplacedInv, HasRuntime
<1>4. AliveInv(k)'
  <2> SUFFICES ASSUME NEW s \in Slots, runtime[k][s] # None
               PROVE  \/ mounted[k] # None /\ mounted[k].rt = s
                      \/ new_mounted'[k] # None /\ new_mounted'[k].rt = s
    BY <1>1 DEF AliveInv
  <2>1. s = Fresh(k) \/ (mounted[k] # None /\ mounted[k].rt = s)
    BY <1>0 DEF AliveInv
  <2> QED BY <1>1, <1>2, <2>1
<1> QED BY <1>3, <1>4

\* A step of the loop, at its own key.
LEMMA LoopOwnLife ==
    ASSUME IInv, LifeInv, NEW k \in Keys, LoopStep(k)
    PROVE  ReplacedInv(k)' /\ AliveInv(k)'
<1> USE DEF dbVars, procVars, localVars, historyVars
<1>0. /\ TypeOK /\ Fresh(k) \in Slots /\ k \in todo /\ new_mounted[k] = None
      /\ Current(k) /\ desired[k] \in Hash
      /\ HasRuntime(mounted, k) =>
            /\ mounted[k].rt \in Slots /\ Fresh(k) # mounted[k].rt
            /\ \A s \in Slots : s # Fresh(k) => s = mounted[k].rt
  BY LoopSteps, FreshSlot DEF IInv, TypeOK, KeyInv, TodoInv, Current
<1>1. /\ mounted' = mounted /\ Fresh(k)' = Fresh(k)
      /\ HasRuntime(mounted, k)' = HasRuntime(mounted, k)
  BY LoopSteps DEF Fresh, HasRuntime
<1>2. ReplacedInv(k) /\ AliveInv(k)
  BY DEF LifeInv
<1>3. CASE KeepUnchanged(k)
  <2>1. /\ new_mounted'[k] = mounted[k] /\ runtime' = runtime /\ phase' = "loop"
        /\ HasRuntime(mounted, k) /\ phase = "loop"
    BY <1>0, <1>3 DEF KeepUnchanged, Unchanged, TypeOK
  <2> QED BY <1>0, <1>1, <1>2, <2>1 DEF ReplacedInv, AliveInv, HasRuntime
<1>4. CASE BeginBuild(k) \/ ReadSecret(k)
  <2>1. /\ new_mounted' = new_mounted /\ todo' = todo /\ to_stop' = to_stop
        /\ phase \in {"loop", "secret"} /\ phase' \in Looping
    BY <1>4 DEF BeginBuild, ReadSecret, BuildFrom
  <2>2. ReplacedInv(k)'
    BY <1>0, <2>1 DEF ReplacedInv
  <2>3. CASE phase' = "secret"
    <3>1. runtime' = runtime
      BY <1>4, <2>3 DEF BeginBuild, BuildFrom, ReadSecret
    <3>2. AliveInv(k)'
      BY <1>0, <1>1, <1>2, <2>1, <2>3, <3>1 DEF AliveInv
    <3> QED BY <2>2, <3>2
  <2>4. CASE phase' # "secret"
    <3>1. SecretFor(k) \in 0..MaxSecret
      BY <1>0, BoundAssumption DEF SecretFor, TypeOK, Credential
    <3>2. BuildFrom(k, SecretFor(k))
      BY <1>4, <2>4 DEF BeginBuild, ReadSecret, SecretFor
    <3>3. phase' \in Building
      BY <3>2 DEF BuildFrom
    <3>4. \A s \in Slots : s # Fresh(k) => runtime'[k][s] = runtime[k][s]
      BY <1>0, <3>1, <3>2, BuildFromRuntime
    <3>5. Current(k)'
      BY <1>0, <2>1 DEF Current
    <3>6. AliveInv(k)'
      BY <1>0, <1>1, <1>2, <2>1, <3>3, <3>4, <3>5 DEF AliveInv
    <3> QED BY <2>2, <3>6
  <2> QED BY <2>3, <2>4
<1>5. CASE StartNative(k)
  BY <1>0, <1>5, MountLife DEF StartNative
<1>6. CASE Rehash(k)
  BY <1>0, <1>6, MountLife, HashType DEF Rehash
<1>7. CASE BuildFails(k)
  <2>1. /\ new_mounted'[k] = FailedEntry(k) /\ phase' = "loop"
        /\ phase \in Building \cup {"secret"} /\ runtime'[k][Fresh(k)] = None
    BY <1>0, <1>7 DEF BuildFails, TypeOK
  <2>2. /\ HasRuntime(mounted, k) => FailedEntry(k).rt = mounted[k].rt
        /\ ~HasRuntime(mounted, k) =>
              /\ FailedEntry(k).rt = 0
              /\ \A s \in Slots : s # Fresh(k) => runtime'[k][s] = runtime[k][s]
    BY <1>0, <1>7 DEF FailedEntry, TypeOK, Mounted, HasRuntime, BuildFails
  <2>3. ReplacedInv(k)'
    BY <1>0, <1>1, <2>1, <2>2 DEF ReplacedInv
  <2>4. ASSUME NEW s \in Slots, runtime'[k][s] # None
        PROVE  mounted[k] # None /\ mounted[k].rt = s
    <3>1. s # Fresh(k)
      BY <2>1, <2>4
    <3>2. CASE HasRuntime(mounted, k)
      BY <1>0, <3>1, <3>2 DEF HasRuntime
    <3>3. CASE ~HasRuntime(mounted, k)
      <4>1. runtime[k][s] # None
        BY <2>2, <2>4, <3>1, <3>3
      <4> QED BY <1>0, <1>2, <2>1, <3>1, <4>1 DEF AliveInv
    <3> QED BY <3>2, <3>3
  <2>5. AliveInv(k)'
    BY <1>1, <2>4 DEF AliveInv
  <2> QED BY <2>3, <2>5
<1> QED BY <1>3, <1>4, <1>5, <1>6, <1>7 DEF LoopStep

LEMMA LoopLife ==
    ASSUME IInv, LifeInv, NEW k \in Keys, LoopStep(k) PROVE LifeInv'
<1>1. ASSUME NEW j \in Keys, j # k PROVE ReplacedInv(j)' /\ AliveInv(j)'
  BY <1>1, LoopSteps, OtherLife
<1> QED BY <1>1, LoopOwnLife DEF LifeInv

\* What moves a proxy's build along makes no runtime.
LEMMA AlongLife ==
    ASSUME IInv, LifeInv, NEW k \in Keys,
           UseStoredSnapshot(k) \/ SyncSnapshot(k) \/ ReadFresh(k) \/ StartProxy(k)
    PROVE  LifeInv'
<1>1. /\ UNCHANGED <<mounted, todo, new_mounted, to_stop>>
      /\ phase \in Building /\ phase' \in Building
  BY DEF UseStoredSnapshot, SyncSnapshot, ReadFresh, StartProxy, localVars
<1>2. ASSUME NEW j \in Keys, NEW s \in Slots, runtime'[j][s] # None
      PROVE  runtime[j][s] # None
  <2>1. CASE ReadFresh(k)
    <3>1. runtime[k][Fresh(k)] # None
      BY <2>1 DEF ReadFresh, IInv, KeyInv, BuildInv
    <3>2. j # k \/ s # Fresh(k) => runtime'[j][s] = runtime[j][s]
      BY <2>1 DEF ReadFresh, IInv, TypeOK
    <3> QED BY <1>2, <3>1, <3>2
  <2>2. CASE ~ReadFresh(k)
    BY <1>2, <2>2 DEF UseStoredSnapshot, SyncSnapshot, StartProxy
  <2> QED BY <2>1, <2>2
<1> QED BY <1>1, <1>2, LifeFrame

\* The run that ends by an exception leaves what is mounted.
LEMMA RehashRaisesLife ==
    ASSUME IInv, LifeInv, NEW k \in Keys, RehashRaises(k) PROVE LifeInv'
<1>0. /\ TypeOK /\ phase = "rehash" /\ phase' = "idle" /\ mounted' = mounted
  BY DEF RehashRaises, IInv
<1>1. ASSUME NEW j \in Keys, NEW s \in Slots, runtime'[j][s] # None
      PROVE  mounted[j] # None /\ mounted[j].rt = s
  <2>1. s # Fresh(j) /\ runtime[j][s] # None
    BY <1>1 DEF RehashRaises
  <2>2. \/ mounted[j] # None /\ mounted[j].rt = s
        \/ new_mounted[j] # None /\ new_mounted[j].rt = s
    BY <1>0, <2>1 DEF LifeInv, AliveInv
  <2>3. s # 0
    BY DEF Slots
  <2> QED BY <1>0, <2>1, <2>2, <2>3 DEF IInv, KeyInv, NewInv, HasRuntime
<1> QED BY <1>0, <1>1 DEF LifeInv, ReplacedInv, AliveInv

\* The swap marks what it takes out and has no successor; what has one was
\* marked when that was built.
LEMMA SwapLife == ASSUME IInv, LifeInv, Swap PROVE LifeInv'
<1>0. /\ TypeOK /\ phase = "loop" /\ phase' = "stop" /\ mounted' = new_mounted
      /\ runtime' = runtime /\ to_stop' = to_stop \cup RemovedRuntimes
  BY DEF IInv, Swap
<1>1. ASSUME NEW k \in Keys PROVE ReplacedInv(k)' /\ AliveInv(k)'
  <2>0. ReplacedInv(k) /\ AliveInv(k) /\ NewInv(k)
    BY DEF LifeInv, IInv, KeyInv
  <2>1. ReplacedInv(k)'
    BY <1>0 DEF ReplacedInv
  <2>2. ASSUME NEW s \in Slots, runtime[k][s] # None,
               mounted[k] # None, mounted[k].rt = s
        PROVE  \/ new_mounted[k] # None /\ new_mounted[k].rt = s
               \/ <<k, s>> \in to_stop'
    <3>1. HasRuntime(mounted, k)
      BY <2>2 DEF HasRuntime, Slots
    <3>2. CASE new_mounted[k] = None
      BY <1>0, <2>2, <3>1, <3>2 DEF RemovedRuntimes
    <3>3. CASE new_mounted[k] # None
      BY <1>0, <2>0, <2>2, <3>1, <3>3 DEF NewInv, ReplacedInv
    <3> QED BY <3>2, <3>3
  <2>3. AliveInv(k)'
    BY <1>0, <2>0, <2>2 DEF AliveInv
  <2> QED BY <2>1, <2>3
<1> QED BY <1>1 DEF LifeInv

LEMMA FinishRunLife == ASSUME IInv, LifeInv, FinishRun PROVE LifeInv'
<1>0. phase = "stop" /\ phase' \in {"credentials", "idle"} /\ mounted' = mounted
  BY DEF FinishRun
<1>1. \A k \in Keys, s \in Slots :
         runtime'[k][s] = IF <<k, s>> \in to_stop THEN None ELSE runtime[k][s]
  BY DEF FinishRun
<1> QED BY <1>0, <1>1 DEF LifeInv, ReplacedInv, AliveInv

LEMMA NextLife == ASSUME IInv, LifeInv, [Next]_vars PROVE LifeInv'
<1>1. ASSUME NEW k \in Keys, BuildStep(k) PROVE LifeInv'
  BY <1>1, LoopLife, AlongLife, RehashRaisesLife DEF BuildStep, LoopStep
<1>2. CASE RunStep
  BY <1>1, <1>2, OutsideLife, ReadRowsLife, SwapLife, FinishRunLife DEF RunStep
<1>3. ASSUME NEW k \in ProxyKeys, HealthCheck(k) PROVE LifeInv'
  BY <1>3, HealthCheckLife, KeysAssumption
<1> QED BY <1>2, <1>3, OutsideLife DEF Next

-----------------------------------------------------------------------------
(* The registry implements RuntimeLife.                                     *)

\* Outside a run nothing is made, dropped, mounted or taken out.
LEMMA OutsideLeaves ==
    ASSUME IInv, [Next]_vars, ~RunStep
    PROVE  /\ mounted' = mounted
           /\ \A k \in Keys, s \in Slots : runtime'[k][s] = None <=> runtime[k][s] = None
           /\ phase' = phase \/ (phase = "idle" /\ phase' = "credentials")
<1>1. CASE \E k \in ProxyKeys : HealthCheck(k)
  <2>1. PICK k \in ProxyKeys : HealthCheck(k)
    BY <1>1
  <2>2. /\ runtime[k][mounted[k].rt] # None /\ runtime'[k][mounted[k].rt] # None
        /\ mounted' = mounted /\ phase' = phase
    BY <2>1, HealthCheckStep, KeysAssumption
       DEF HealthCheck, IInv, KeyInv, MountedInv, HasRuntime
  <2>3. \A j \in Keys, s \in Slots :
           j # k \/ s # mounted[k].rt => runtime'[j][s] = runtime[j][s]
    BY <2>1 DEF HealthCheck, IInv, TypeOK
  <2> QED BY <2>2, <2>3
<1>2. CASE ~\E k \in ProxyKeys : HealthCheck(k)
  <2>1. UNCHANGED <<mounted, runtime>>
    BY <1>2 DEF Next, Boot, StartWatcher, Poll, ExternalWrite, AdminWrite, AdminReload,
       AdminAborts, AdminRename, AdminCreate, vars
  <2>2. phase' = phase \/ (phase = "idle" /\ phase' = "credentials")
    BY <1>2 DEF Next, Boot, StartWatcher, Poll, ExternalWrite, AdminWrite, AdminReload,
       AdminAborts, AdminRename, AdminCreate, Reload, IInv, LockInv, vars
  <2> QED BY <2>1, <2>2
<1> QED BY <1>1, <1>2

\* Every runtime moves at most one stage on.
LEMMA LifeMoves ==
    ASSUME IInv, LifeInv, [Next]_vars, NEW k \in Keys, NEW s \in Slots
    PROVE  LifeOf(k, s)' = LifeOf(k, s)
              \/ <<LifeOf(k, s), LifeOf(k, s)'>> \in Runtimes!Steps
<1> USE DEF LifeOf, Runtimes!Steps
<1>0. ReplacedInv(k) /\ AliveInv(k) /\ MountedInv(k) /\ MountedInv(k)' /\ s # 0
  BY NextIInv DEF LifeInv, IInv, KeyInv, Slots
<1>1. CASE Swap
  <2>1. /\ phase = "loop" /\ phase' = "stop" /\ runtime' = runtime
        /\ mounted' = new_mounted
    BY <1>1 DEF Swap
  <2> QED BY <1>0, <2>1 DEF AliveInv
<1>2. CASE FinishRun
  <2>1. /\ phase = "stop" /\ phase' # "stop" /\ mounted' = mounted
        /\ runtime'[k][s] = IF <<k, s>> \in to_stop THEN None ELSE runtime[k][s]
    BY <1>2 DEF FinishRun
  <2>2. mounted[k] # None /\ mounted[k].rt = s => <<k, s>> \notin to_stop
    BY <1>0, <2>1 DEF MountedInv, HasRuntime
  <2> QED BY <1>0, <2>1, <2>2 DEF AliveInv
<1>3. CASE ~RunStep
  BY <1>3, OutsideLeaves
<1>4. CASE RunStep /\ ~Swap /\ ~FinishRun
  <2>1. mounted' = mounted
    BY <1>4 DEF RunStep, BuildStep, ReadCredentials, ReadRows, KeepUnchanged,
       BeginBuild, ReadSecret, UseStoredSnapshot, SyncSnapshot, ReadFresh, StartNative,
       StartProxy, Rehash, BuildFails, RehashRaises
  <2>2. phase # "stop"
    BY <1>4 DEF RunStep, BuildStep, ReadCredentials, ReadRows, KeepUnchanged,
       BeginBuild, ReadSecret, UseStoredSnapshot, SyncSnapshot, ReadFresh, StartNative,
       StartProxy, Rehash, BuildFails, RehashRaises
  <2>3. phase' # "stop"
    BY <1>4, <2>2 DEF RunStep, BuildStep, ReadCredentials, ReadRows, KeepUnchanged,
       BeginBuild, BuildFrom, ReadSecret, UseStoredSnapshot, SyncSnapshot, ReadFresh,
       StartNative, StartProxy, Rehash, Mount, BuildFails, RehashRaises
  <2>4. mounted[k] # None /\ mounted[k].rt = s =>
           runtime[k][s] # None /\ runtime'[k][s] # None
    BY <1>0, <2>1 DEF MountedInv, HasRuntime
  <2> QED BY <2>1, <2>2, <2>3, <2>4
<1> QED BY <1>1, <1>2, <1>3, <1>4

LifeMap == [k \in Keys |-> [s \in Slots |-> LifeOf(k, s)]]

\* Every step of the registry is a step of RuntimeLife or changes nothing it sees.
LEMMA LifeStep ==
    ASSUME IInv, LifeInv, [Next]_vars
    PROVE  Runtimes!Next
<1>1. IInv' /\ LifeInv'
  BY NextIInv, NextLife
<1>2. LifeMap' \in [Keys -> [Slots -> Runtimes!Stages]]
  BY DEF LifeMap, LifeOf, Runtimes!Stages
<1>3. \A k \in Keys, s \in Slots : LifeMap[k][s] = LifeOf(k, s)
  BY DEF LifeMap
<1>4. \A k \in Keys, s \in Slots : LifeMap'[k][s] = LifeOf(k, s)'
  BY DEF LifeMap
<1>5. \A k \in Keys, s \in Slots :
         LifeMap'[k][s] = LifeMap[k][s]
            \/ <<LifeMap[k][s], LifeMap'[k][s]>> \in Runtimes!Steps
  BY <1>3, <1>4, LifeMoves
<1>6. holder = None => LifeMap' = LifeMap
  <2> SUFFICES ASSUME holder = None PROVE LifeMap' = LifeMap
    OBVIOUS
  <2>1. phase = "idle" /\ ~RunStep
    BY DEF IInv, LockInv, RunStep, BuildStep, ReadCredentials, ReadRows, Swap, FinishRun,
       KeepUnchanged, BeginBuild, ReadSecret, UseStoredSnapshot, SyncSnapshot, ReadFresh,
       StartNative, StartProxy, Rehash, BuildFails, RehashRaises
  <2>2. \A k \in Keys, s \in Slots : LifeOf(k, s)' = LifeOf(k, s)
    BY <2>1, OutsideLeaves DEF LifeOf
  <2> QED BY <2>2 DEF LifeMap
<1>7. holder' = None =>
         \A k \in Keys, s \in Slots : LifeOf(k, s)' \in {"none", "serving"}
  <2>1. holder' = None => phase' = "idle"
    BY <1>1 DEF IInv, LockInv
  <2> QED BY <1>1, <2>1 DEF LifeInv, AliveInv, LifeOf
<1> QED BY <1>2, <1>4, <1>5, <1>6, <1>7 DEF Runtimes!Next, Runtimes!Settled, LifeMap

\* For any toolsets, native or proxies, whatever fails or raises: what the registry
\* does with runtimes is what RuntimeLife promises (registry.py:378-389 and :410-469).
THEOREM RuntimesLiveHolds == Spec => RuntimesLive
<1>1. Init => IInv /\ LifeInv
  BY InitIInv, InitLife
<1>2. Init => Runtimes!Init
  BY DEF Init, Runtimes!Init, LifeOf
<1>3. IInv /\ LifeInv /\ [Next]_vars => (IInv /\ LifeInv)' /\ Runtimes!Next
  BY NextIInv, NextLife, LifeStep
<1> QED BY <1>1, <1>2, <1>3, PTL DEF Spec, RuntimesLive, Runtimes!Spec

-----------------------------------------------------------------------------
(***************************************************************************)
(* While every toolset is native: a proxy whose row is deleted under its   *)
(* build ends the run by an exception, which leaves reported what the run  *)
(* has set and drops the follow-up it was asked for (registry.py:439).     *)
(***************************************************************************)

\* A runtime reports a failed build only if its entry, or the one that is to
\* follow it, is marked.
ErrorInv(k) ==
    /\ HasRuntime(mounted, k) /\ runtime[k][mounted[k].rt].build_error =>
          \/ mounted[k].error
          \/ phase \in Looping /\ new_mounted[k] # None /\ new_mounted[k].error
    /\ phase \in Looping /\ HasRuntime(new_mounted, k)
          /\ runtime[k][new_mounted[k].rt].build_error => new_mounted[k].error
    /\ phase \in Building /\ Current(k) => ~runtime[k][Fresh(k)].build_error

NativeInv == \A k \in Keys : ErrorInv(k)

\* Until the watcher starts only the boot reload runs, and nobody writes.
BootInv ==
    /\ holder = "boot" => server = "booting"
    /\ server = "booting" => holder \in {None, "boot"}
    /\ server = "booting" /\ phase \notin {"idle", "credentials"} => unread = {}
    /\ server = "booted" => unread = {}

-----------------------------------------------------------------------------
(* What is reported. *)

LEMMA InitNative == Init => NativeInv
BY DEF Init, NativeInv, ErrorInv, HasRuntime, NoKeys, Slots

\* Steps that leave the registry and its run alone, or only start a run.
LEMMA IdleFrame ==
    ASSUME IInv, NativeInv,
           UNCHANGED <<mounted, runtime, todo, new_mounted, to_stop>>,
           \/ phase' = phase
           \/ phase \in {"idle", "credentials"} /\ phase' \in {"credentials", "rows"}
    PROVE  NativeInv'
BY DEF IInv, LockInv, NativeInv, ErrorInv, HasRuntime, Fresh, Current

LEMMA OutsideNative ==
    ASSUME IInv, NativeInv, ProxyKeys = {},
           \/ Boot \/ StartWatcher \/ Poll \/ ExternalWrite
           \/ \E a \in Admins : AdminWrite(a) \/ AdminReload(a) \/ AdminAborts(a)
           \/ ReadCredentials
    PROVE  NativeInv'
<1>1. UNCHANGED <<mounted, runtime, todo, new_mounted, to_stop>>
  BY DEF Boot, StartWatcher, Poll, ExternalWrite, AdminWrite, AdminReload,
         AdminAborts, ReadCredentials, localVars, historyVars
<1>2. \/ phase' = phase
      \/ phase \in {"idle", "credentials"} /\ phase' \in {"credentials", "rows"}
  BY DEF Boot, StartWatcher, Poll, ExternalWrite, AdminWrite, AdminReload,
         AdminAborts, ReadCredentials, Reload, IInv, LockInv
<1> QED BY <1>1, <1>2, IdleFrame

LEMMA ReadRowsNative == ASSUME IInv, NativeInv, ReadRows PROVE NativeInv'
<1>1. new_mounted = NoKeys /\ to_stop = {} BY DEF ReadRows, IInv, LockInv
<1>2. UNCHANGED <<mounted, runtime, new_mounted, to_stop>>
      /\ phase = "rows" /\ phase' = "loop"
  BY DEF ReadRows, historyVars
<1> QED BY <1>1, <1>2 DEF NativeInv, ErrorInv, HasRuntime, Fresh, NoKeys

\* What a step of the loop at one key leaves as it is at another.
LEMMA OtherNative ==
    ASSUME IInv, NativeInv, NEW k \in Keys, NEW j \in Keys, j # k, Current(k),
           phase \in Looping, phase' \in Looping,
           runtime'[j] = runtime[j], mounted' = mounted,
           new_mounted'[j] = new_mounted[j],
           phase' \in Building => Current(k)'
    PROVE  ErrorInv(j)'
<1>1. ~Current(j) BY CurrentUnique DEF IInv
<1>2. phase' \in Building => ~Current(j)'
  BY KeysAssumption DEF Current
<1>3. Fresh(j)' = Fresh(j) BY DEF Fresh
<1>4. ErrorInv(j) BY DEF NativeInv
<1>5. HasRuntime(mounted, j) => mounted[j].rt \in Slots BY FreshSlot DEF IInv
<1> QED BY <1>1, <1>2, <1>3, <1>4, <1>5 DEF ErrorInv, HasRuntime

\* A step of the loop, seen from another key.
LEMMA LoopOtherNative ==
    ASSUME IInv, NativeInv, ProxyKeys = {}, NEW k \in Keys, NEW j \in Keys,
           j # k, BuildStep(k)
    PROVE  ErrorInv(j)'
<1>1. LoopStep(k)
  BY DEF IInv, KeyInv, BuildInv, BuildStep, LoopStep, UseStoredSnapshot, SyncSnapshot,
         ReadFresh, StartProxy, RehashRaises
<1> QED BY <1>1, LoopSteps, OtherNative

\* A failed build leaves an entry.
LEMMA BuildFailsEntry ==
    ASSUME IInv, NEW k \in Keys, BuildFails(k)
    PROVE  new_mounted'[k] # None
<1>1. /\ TypeOK /\ k \in todo /\ desired[k] \in Hash
  BY DEF BuildFails, IInv, TypeOK, KeyInv, TodoInv, Current
<1>2. FailedEntry(k) \in Mounted
  BY <1>1 DEF FailedEntry, Mounted, TypeOK, HasRuntime
<1> QED BY <1>1, <1>2, NoneOutside DEF BuildFails, TypeOK

\* A step of the loop, at its own key.
LEMMA LoopOwnNative ==
    ASSUME IInv, IInv', NativeInv, ProxyKeys = {}, NEW k \in Keys, BuildStep(k)
    PROVE  ErrorInv(k)'
<1> USE DEF dbVars, procVars, localVars, historyVars
<1>0. /\ TypeOK /\ Fresh(k) \in Slots /\ k \in todo /\ new_mounted[k] = None
      /\ Current(k) /\ desired[k] # None
      /\ HasRuntime(mounted, k) =>
            /\ mounted[k].rt \in Slots /\ Fresh(k) # mounted[k].rt
            /\ \A s \in Slots : s # Fresh(k) => s = mounted[k].rt
  <2>1. Current(k)
    BY DEF BuildStep, KeepUnchanged, BeginBuild, ReadSecret, UseStoredSnapshot,
       SyncSnapshot, ReadFresh, StartNative, StartProxy, Rehash, BuildFails, RehashRaises
  <2> QED BY <2>1, FreshSlot DEF IInv, KeyInv, TodoInv, Current
<1>1. KeepUnchanged(k) \/ BeginBuild(k) \/ ReadSecret(k) \/ StartNative(k) \/ BuildFails(k)
  BY DEF IInv, KeyInv, BuildInv, BuildStep, UseStoredSnapshot, SyncSnapshot, ReadFresh,
         StartProxy, Rehash, RehashRaises
<1>2. mounted' = mounted /\ Fresh(k)' = Fresh(k) /\ HasRuntime(mounted, k)' = HasRuntime(mounted, k)
  BY <1>1 DEF KeepUnchanged, BeginBuild, ReadSecret, StartNative, BuildFails, Fresh,
     HasRuntime
<1>3. ErrorInv(k)
  BY DEF NativeInv
<1>4. CASE KeepUnchanged(k)
  <2>1. /\ new_mounted'[k] = mounted[k] /\ runtime' = runtime /\ phase' = "loop"
        /\ HasRuntime(mounted, k) /\ ~mounted[k].error /\ phase = "loop"
    BY <1>0, <1>4 DEF KeepUnchanged, Unchanged, TypeOK
  <2>2. ~runtime[k][mounted[k].rt].build_error
    BY <1>0, <1>3, <2>1 DEF ErrorInv
  <2> QED BY <1>0, <1>2, <1>3, <2>1, <2>2 DEF ErrorInv, HasRuntime
<1>5. CASE BeginBuild(k) \/ ReadSecret(k)
  <2>1. new_mounted' = new_mounted /\ todo' = todo /\ phase \in {"loop", "secret"}
    BY <1>5 DEF BeginBuild, ReadSecret
  <2>2. CASE phase' = "secret"
    <3>1. runtime' = runtime
      BY <1>5, <2>2 DEF BeginBuild, BuildFrom, ReadSecret
    <3> QED BY <1>0, <1>2, <1>3, <2>1, <2>2, <3>1
            DEF ErrorInv, HasRuntime
  <2>3. CASE phase' # "secret"
    <3>1. SecretFor(k) \in 0..MaxSecret
      BY <1>0, BoundAssumption DEF SecretFor, TypeOK, Credential
    <3>2. BuildFrom(k, SecretFor(k))
      BY <1>5, <2>3 DEF BeginBuild, ReadSecret, SecretFor
    <3>3. phase' = "start"
      BY <3>2 DEF BuildFrom
    <3>4. ~runtime'[k][Fresh(k)].build_error
      BY <1>0, <3>2 DEF BuildFrom, TypeOK
    <3>5. \A s \in Slots : s # Fresh(k) => runtime'[k][s] = runtime[k][s]
      BY <1>0, <3>1, <3>2, BuildFromRuntime
    <3>6. ErrorInv(k)'
      BY <1>0, <1>2, <1>3, <2>1, <3>3, <3>4, <3>5 DEF ErrorInv, HasRuntime
    <3> QED BY <3>6
  <2> QED BY <2>2, <2>3
<1>6. CASE StartNative(k)
  <2>1. /\ new_mounted'[k] = [hash |-> desired[k], rt |-> Fresh(k), error |-> FALSE]
        /\ runtime' = runtime /\ phase' = "loop" /\ phase = "start"
    BY <1>0, <1>6 DEF StartNative, Mount, TypeOK
  <2>2. new_mounted'[k] # None
    <3>1. desired[k] \in Hash
      BY <1>0 DEF TypeOK
    <3>2. [hash |-> desired[k], rt |-> Fresh(k), error |-> FALSE] \in Mounted
      BY <1>0, <3>1 DEF Mounted
    <3> QED BY <2>1, <3>2, NoneOutside
  <2> QED BY <1>0, <1>2, <1>3, <2>1, <2>2 DEF ErrorInv, HasRuntime
<1>7. CASE BuildFails(k)
  <2>1. /\ new_mounted'[k] = FailedEntry(k) /\ phase' = "loop"
        /\ phase \in {"secret", "start"} /\ runtime'[k][Fresh(k)] = None
    <3>1. phase \in {"secret", "start"}
      BY <1>0, <1>7 DEF BuildFails, IInv, KeyInv, BuildInv
    <3> QED BY <1>0, <1>7, <3>1 DEF BuildFails, TypeOK
  <2>2. FailedEntry(k).error
    BY <1>0 DEF FailedEntry, TypeOK, Mounted, HasRuntime
  <2>3. new_mounted'[k] # None
    BY <1>7, BuildFailsEntry
  <2> QED BY <1>2, <1>3, <2>1, <2>2, <2>3 DEF ErrorInv
<1> QED BY <1>1, <1>4, <1>5, <1>6, <1>7

\* The swap and the end of a run leave every mark where it is.
LEMMA SwapNative == ASSUME IInv, NativeInv, Swap PROVE NativeInv'
<1>1. /\ phase = "loop" /\ phase' = "stop" /\ mounted' = new_mounted
      /\ runtime' = runtime
  BY DEF Swap
<1>2. ASSUME NEW k \in Keys PROVE ErrorInv(k)'
  <2>1. ErrorInv(k) BY DEF NativeInv
  <2> QED BY <1>1, <2>1 DEF ErrorInv, HasRuntime
<1> QED BY <1>2 DEF NativeInv

LEMMA FinishRunNative == ASSUME IInv, NativeInv, FinishRun PROVE NativeInv'
<1>0. /\ TypeOK /\ phase = "stop" /\ phase' \in {"credentials", "idle"}
      /\ mounted' = mounted
  BY DEF IInv, FinishRun
<1>1. ASSUME NEW k \in Keys PROVE ErrorInv(k)'
  <2>0. ErrorInv(k) /\ MountedInv(k)
    BY DEF NativeInv, IInv, KeyInv
  <2>1. \A s \in Slots :
            runtime'[k][s] = IF <<k, s>> \in to_stop THEN None ELSE runtime[k][s]
    BY DEF FinishRun
  <2>2. HasRuntime(mounted, k) => runtime'[k][mounted[k].rt] = runtime[k][mounted[k].rt]
    BY <1>0, <2>0, <2>1, FreshSlot DEF MountedInv
  <2> QED BY <1>0, <2>0, <2>2 DEF ErrorInv, HasRuntime
<1> QED BY <1>1 DEF NativeInv

LEMMA LoopNative ==
    ASSUME IInv, IInv', NativeInv, ProxyKeys = {}, NEW k \in Keys, BuildStep(k)
    PROVE  NativeInv'
BY LoopOwnNative, LoopOtherNative DEF NativeInv

LEMMA NextNative ==
    ASSUME IInv, NativeInv, ProxyKeys = {}, [Next]_vars
    PROVE  NativeInv'
<1>1. IInv' BY NextIInv
<1>2. CASE RunStep
  BY <1>1, <1>2, OutsideNative, ReadRowsNative, SwapNative, FinishRunNative, LoopNative
     DEF RunStep
<1>3. CASE UNCHANGED vars
  BY <1>3, IdleFrame DEF vars
<1> QED BY <1>2, <1>3, OutsideNative DEF Next

-----------------------------------------------------------------------------
(* No edit is left without a reload to come. *)

PromiseInv == BootInv /\ ~changed /\ EditsPromised

LEMMA InitPromise == Init => PromiseInv
BY NoneAssumption DEF Init, PromiseInv, BootInv, EditsPromised

LEMMA NextPromise ==
    ASSUME IInv, PromiseInv, ProxyKeys = {}, "abort" \notin Faults,
           "external" \notin Faults, [Next]_vars
    PROVE  PromiseInv'
<1> USE DEF PromiseInv, BootInv, EditsPromised
<1>0. LockInv /\ TypeOK BY DEF IInv
<1>1. CASE Boot \/ StartWatcher \/ Poll
  <2>1. CASE Boot
    BY <1>0, <2>1, NoneAssumption DEF Boot, Reload, LockInv, procVars, historyVars
  <2>2. CASE StartWatcher
    BY <1>0, <2>2 DEF StartWatcher, LockInv, historyVars
  <2>3. ~Poll
    BY DEF Poll
  <2> QED BY <1>1, <2>1, <2>2, <2>3
<1>2. CASE ReadCredentials \/ ReadRows \/ Swap
  BY <1>0, <1>2 DEF ReadCredentials, ReadRows, Swap, LockInv, procVars, historyVars
<1>3. CASE FinishRun
  BY <1>0, <1>3, NoneAssumption DEF FinishRun, LockInv
<1>4. ASSUME NEW k \in Keys, BuildStep(k) PROVE PromiseInv'
  <2>1. KeepUnchanged(k) \/ BeginBuild(k) \/ ReadSecret(k) \/ StartNative(k) \/ BuildFails(k)
    BY <1>4 DEF IInv, KeyInv, BuildInv, BuildStep, UseStoredSnapshot, SyncSnapshot,
       ReadFresh, StartProxy, Rehash, RehashRaises
  <2>2. /\ UNCHANGED <<holder, server, unread, editing, pending, changed, watcher>>
        /\ phase \notin {"idle", "credentials"} /\ phase' \notin {"idle", "credentials"}
    BY <2>1 DEF KeepUnchanged, BeginBuild, BuildFrom, ReadSecret, StartNative, Mount,
       BuildFails, procVars, historyVars
  <2> QED BY <2>2
<1>5. ASSUME NEW a \in Admins, AdminWrite(a) \/ AdminReload(a) \/ AdminAborts(a)
      PROVE  PromiseInv'
  <2>1. CASE AdminWrite(a)
    BY <1>0, <2>1, AdminsAssumption DEF AdminWrite
  <2>2. CASE AdminReload(a)
    BY <1>0, <2>2, AdminsAssumption, NoneAssumption DEF AdminReload, Reload, historyVars
  <2>3. ~AdminAborts(a)
    BY DEF AdminAborts
  <2> QED BY <1>5, <2>1, <2>2, <2>3
<1>6. CASE UNCHANGED vars
  BY <1>6 DEF vars
<1> QED BY <1>1, <1>2, <1>3, <1>4, <1>5, <1>6 DEF Next, RunStep, ExternalWrite

-----------------------------------------------------------------------------
\* With native toolsets only: whenever no run is in progress, a runtime reports
\* "reload failed" only if the last build of its toolset did fail
\* (registry.py:231-236 and :413-427).
THEOREM ErrorsAreCurrentHolds ==
    ASSUME ProxyKeys = {} PROVE Spec => []ErrorsAreCurrent
<1>1. IInv /\ NativeInv => ErrorsAreCurrent
  BY DEF NativeInv, ErrorsAreCurrent, ErrorInv, Quiet, IInv, LockInv
<1>2. Init => IInv /\ NativeInv BY InitIInv, InitNative
<1>3. IInv /\ NativeInv /\ [Next]_vars => (IInv /\ NativeInv)' BY NextIInv, NextNative
<1> QED BY <1>1, <1>2, <1>3, PTL DEF Spec

\* With native toolsets, one process and handlers that reach their reload:
\* every edit no run has read yet has a reload to come (registry.py:378-389).
THEOREM EditsPromisedHolds ==
    ASSUME ProxyKeys = {}, "abort" \notin Faults, "external" \notin Faults
    PROVE  Spec => []EditsPromised
<1>1. Init => IInv /\ PromiseInv BY InitIInv, InitPromise
<1>2. IInv /\ PromiseInv /\ [Next]_vars => (IInv /\ PromiseInv)'
  BY NextIInv, NextPromise
<1>3. PromiseInv => EditsPromised BY DEF PromiseInv
<1> QED BY <1>1, <1>2, <1>3, PTL DEF Spec
=============================================================================
