------------------------------ MODULE Registry ------------------------------
(***************************************************************************)
(* The hot-reload core of the gateway: gateway/registry.py (Registry,      *)
(* ToolsetRuntime as far as a reload sees it), gateway/source.py (what the *)
(* database asks to be mounted, and how a runtime is built) and            *)
(* gateway/watch.py (the poll that notices other processes' commits),      *)
(* together with the admin handlers of api/ that write rows and then ask   *)
(* for a reload.                                                           *)
(*                                                                         *)
(* Everything runs on one asyncio loop, so a handler is atomic between two *)
(* awaits.  One action below is one such stretch of one coroutine; any     *)
(* other coroutine may move between two of them.                           *)
(*                                                                         *)
(* Data kept: a toolset row is [enabled, conf, lists] where `conf' stands  *)
(* for settings, upstream URL, prefix, disabled tools and credential link, *)
(* and `lists' for a proxy's allow and deny lists, which a build of that   *)
(* proxy may itself rewrite.  One stored credential serves CredKeys; of it *)
(* only what reload can tell apart is kept: whether its status lets a      *)
(* toolset mount, its secret, and the updated_at stamp the hash includes.  *)
(***************************************************************************)
EXTENDS Integers

CONSTANTS
    Keys,        \* toolset keys, integers: the code walks rows ORDER BY key
    ProxyKeys,   \* the keys whose kind is 'proxy'; the others are native
    CredKeys,    \* the keys whose row links the stored credential
    Confs,       \* values of the hashed configuration other than the lists
    Lists,       \* values of a proxy's allow and deny lists
    MaxSecret,   \* bound: how often the credential is rewritten
    Admins,      \* request handlers that edit and then call reload()
    Faults,      \* which of FaultKinds the environment may show
    None

FaultKinds == {"external",    \* another process commits to the database
               "abort",       \* a handler raises after its first write
               "sameSecond"}  \* two credential writes share a timestamp

ASSUME KeysAssumption ==
    /\ Keys \subseteq Int
    /\ ProxyKeys \subseteq Keys
    /\ CredKeys \subseteq Keys
ASSUME NoneAssumption ==
    /\ None \notin Admins \cup {"boot", "watcher"}
    /\ None \notin [enabled : BOOLEAN, conf : Confs, lists : Lists \cup {None}]
    /\ None \notin [conf : Confs, lists : Lists \cup {None}, stamp : Nat]
    /\ None \notin [hash : [conf : Confs, lists : Lists \cup {None}, stamp : Nat],
                    rt : 0..2, error : BOOLEAN]
    /\ None \notin [conf : Confs, lists : Lists \cup {None}, secret : Nat,
                    needs_rebuild : BOOLEAN, build_error : BOOLEAN]
ASSUME BoundAssumption == MaxSecret \in Nat /\ Faults \subseteq FaultKinds
ASSUME AdminsAssumption == "boot" \notin Admins /\ "watcher" \notin Admins

VARIABLES
    \* the database
    row,          \* [Keys -> Row or None]: toolsets and proxy_upstreams
    cred,         \* the credential the CredKeys link
    \* the process
    server,       \* "booting", "booted" (first reload done), "up", "failed"
    watcher,      \* "off", "sleeping", "dead"
    changed,      \* PRAGMA data_version differs from the watcher's _last
    editing,      \* admin handlers that have written and not yet reloaded
    \* Registry
    holder,       \* who holds _lock, or None
    pending,      \* _pending
    mounted,      \* [Keys -> Mounted or None]; routes is its projection
    runtime,      \* [Keys -> [Slots -> Runtime or None]]: the live runtimes
    \* the locals of the one run of _reload_once that may be in progress
    phase,        \* where it stands
    usable,       \* the credential summaries it read, as far as they matter
    desired,      \* [Keys -> Hash or None]: the specs of source.desired()
    todo,         \* the specs the loop has not dealt with
    new_mounted,
    to_stop,
    \* history
    unread,       \* keys committed to since a run last began to read
    last_run,     \* "none", "done" or "raised": how the latest run ended
    leaked        \* what was started and that nothing will ever stop

dbVars == <<row, cred>>
procVars == <<server, watcher, changed, editing>>
localVars == <<usable, desired, todo, new_mounted, to_stop>>
historyVars == <<unread, last_run, leaked>>
vars == <<row, cred, server, watcher, changed, editing, holder, pending, mounted,
          runtime, phase, usable, desired, todo, new_mounted, to_stop,
          unread, last_run, leaked>>

(***************************************************************************)
(* Types.  A toolset has at most two runtimes at a time, the mounted one   *)
(* and the one a run has just built, so two slots name them.  rt = 0 is a  *)
(* 503 placeholder: Mounted.runtime is None.                               *)
(***************************************************************************)
Slots == {1, 2}
KeyLists == Lists \cup {None}
Row == [enabled : BOOLEAN, conf : Confs, lists : KeyLists]
Credential == [usable : BOOLEAN, secret : 0..MaxSecret, stamp : 0..MaxSecret]
Hash == [conf : Confs, lists : KeyLists, stamp : 0..MaxSecret]
Runtime == [conf : Confs, lists : KeyLists, secret : 0..MaxSecret,
            needs_rebuild : BOOLEAN, build_error : BOOLEAN]
Mounted == [hash : Hash, rt : Slots \cup {0}, error : BOOLEAN]
Phases == {"idle", "credentials", "rows", "loop", "secret", "upstream",
           "fresh", "start", "rehash", "stop"}

TypeOK ==
    /\ row \in [Keys -> Row \cup {None}]
    /\ cred \in Credential
    /\ server \in {"booting", "booted", "up", "failed"}
    /\ watcher \in {"off", "sleeping", "dead"}
    /\ changed \in BOOLEAN
    /\ editing \subseteq Admins
    /\ holder \in Admins \cup {"boot", "watcher", None}
    /\ pending \in BOOLEAN
    /\ mounted \in [Keys -> Mounted \cup {None}]
    /\ runtime \in [Keys -> [Slots -> Runtime \cup {None}]]
    /\ phase \in Phases
    /\ usable \in BOOLEAN
    /\ desired \in [Keys -> Hash \cup {None}]
    /\ todo \subseteq Keys
    /\ new_mounted \in [Keys -> Mounted \cup {None}]
    /\ to_stop \subseteq Keys \X Slots
    /\ unread \subseteq Keys
    /\ last_run \in {"none", "done", "raised"}
    /\ leaked \subseteq {"runtime", "connection"}

-----------------------------------------------------------------------------
(* What the database says. *)

RowsOf(k) == [enabled : BOOLEAN, conf : Confs,
              lists : IF k \in ProxyKeys THEN Lists ELSE {None}]

\* Seeded fault: the hash leaves out the credential's updated_at.
HashWithoutStamp(k) == [conf |-> row[k].conf, lists |-> row[k].lists, stamp |-> 0]

\* ToolsetRow.content_hash: equal iff these fields are.
HashOf(k) == [conf |-> row[k].conf, lists |-> row[k].lists,
              stamp |-> IF k \in CredKeys THEN cred.stamp ELSE 0]

\* DbToolsetSource.desired: a row is wanted when it is enabled and its
\* credential, read earlier, is neither unconnected nor scopes_changed.
Wanted(k, credentialUsable) ==
    /\ row[k] # None
    /\ row[k].enabled
    /\ k \in CredKeys => credentialUsable

SecretFor(k) == IF k \in CredKeys THEN cred.secret ELSE 0

(* What the registry holds. *)

HasRuntime(m, k) == m[k] # None /\ m[k].rt # 0

\* The slot the next build of k uses: the one its mounted runtime does not.
Fresh(k) == IF mounted[k] # None /\ mounted[k].rt = 1 THEN 2 ELSE 1

\* The spec the loop is at: rows come ORDER BY key.
Current(k) == k \in todo /\ \A j \in todo : k <= j

\* The five conditions under which a mounted toolset is kept as it is.
Unchanged(k) ==
    /\ HasRuntime(mounted, k)
    /\ ~mounted[k].error
    /\ ~runtime[k][mounted[k].rt].needs_rebuild
    /\ mounted[k].hash = desired[k]

NoKeys == [k \in Keys |-> None]

\* The event loop runs another coroutine only while the run awaits something.
\* From one spec to the next, in the swap, and after it when nothing has to be
\* stopped, it does not.
AtAwait == phase # "loop" /\ (phase = "stop" => to_stop # {})

Init ==
    /\ row \in [Keys -> Row \cup {None}]
    /\ \A k \in Keys : row[k] # None => row[k] \in RowsOf(k)
    /\ cred \in [usable : BOOLEAN, secret : {0}, stamp : {0}]
    /\ server = "booting" /\ watcher = "off" /\ changed = FALSE
    /\ editing = {}
    /\ holder = None /\ pending = FALSE
    /\ mounted = NoKeys
    /\ runtime = [k \in Keys |-> [s \in Slots |-> None]]
    /\ phase = "idle"
    /\ usable = FALSE /\ desired = NoKeys /\ todo = {}
    /\ new_mounted = NoKeys /\ to_stop = {}
    /\ unread = Keys /\ last_run = "none" /\ leaked = {}

-----------------------------------------------------------------------------
\* Seeded fault: a reload that finds one running just returns.
ReloadOrSkip(who) ==
    /\ holder' = (IF holder = None THEN who ELSE holder)
    /\ phase' = (IF holder = None THEN "credentials" ELSE phase)
    /\ UNCHANGED pending

\* Registry.reload up to its first await: whoever finds the lock taken leaves a
\* mark and goes; whoever finds it free starts a run.
Reload(who) ==
    IF holder # None
    THEN /\ pending' = TRUE
         /\ UNCHANGED <<holder, phase>>
    ELSE /\ holder' = who
         /\ phase' = "credentials"
         /\ UNCHANGED pending

Boot ==
    /\ server = "booting" /\ holder = None
    /\ Reload("boot")
    /\ UNCHANGED <<dbVars, procVars, mounted, runtime, localVars, historyVars>>

\* Credential summaries are read before the rows, in a query of their own.
ReadCredentials ==
    /\ phase = "credentials"
    /\ usable' = cred.usable
    /\ unread' = {}
    /\ phase' = "rows"
    /\ UNCHANGED <<dbVars, procVars, holder, pending, mounted, runtime,
                   desired, todo, new_mounted, to_stop, last_run, leaked>>

ReadRows ==
    /\ phase = "rows"
    /\ desired' = [k \in Keys |-> IF Wanted(k, usable) THEN HashOf(k) ELSE None]
    /\ todo' = {k \in Keys : Wanted(k, usable)}
    /\ phase' = "loop"
    /\ UNCHANGED <<dbVars, procVars, holder, pending, mounted, runtime,
                   usable, new_mounted, to_stop, historyVars>>

KeepUnchanged(k) ==
    /\ phase = "loop" /\ Current(k) /\ Unchanged(k)
    /\ new_mounted' = [new_mounted EXCEPT ![k] = mounted[k]]
    /\ todo' = todo \ {k}
    /\ UNCHANGED <<dbVars, procVars, holder, pending, mounted, runtime, phase,
                   usable, desired, to_stop, historyVars>>

BuildFrom(k, secret) ==
    /\ runtime' = [runtime EXCEPT ![k][Fresh(k)] =
                     [conf |-> desired[k].conf, lists |-> desired[k].lists,
                      secret |-> secret,
                      needs_rebuild |-> FALSE, build_error |-> FALSE]]
    /\ phase' = IF k \in ProxyKeys THEN "upstream" ELSE "start"

\* spec.build() first awaits the credential's secret, if the row links one.  A
\* native build is then done but for ToolsetRuntime.start; a proxy goes on to
\* its upstream.
BeginBuild(k) ==
    /\ phase = "loop" /\ Current(k) /\ ~Unchanged(k)
    /\ IF k \in CredKeys
       THEN phase' = "secret" /\ UNCHANGED runtime
       ELSE BuildFrom(k, 0)
    /\ UNCHANGED <<dbVars, procVars, holder, pending, mounted,
                   usable, desired, todo, new_mounted, to_stop, historyVars>>

ReadSecret(k) ==
    /\ phase = "secret" /\ Current(k)
    /\ BuildFrom(k, SecretFor(k))
    /\ UNCHANGED <<dbVars, procVars, holder, pending, mounted,
                   usable, desired, todo, new_mounted, to_stop, historyVars>>

\* Proxy build, upstream unreachable: the stored snapshot and the lists of
\* the row as desired() saw it are used.
UseStoredSnapshot(k) ==
    /\ phase = "upstream" /\ Current(k)
    /\ phase' = "start"
    /\ UNCHANGED <<dbVars, procVars, holder, pending, mounted, runtime,
                   localVars, historyVars>>

\* Proxy build, upstream answered: sync_snapshot rewrites the lists of the row
\* as it is now (unless the live tools equal the stored ones).
SyncSnapshot(k) ==
    /\ phase = "upstream" /\ Current(k)
    /\ row[k] # None
    /\ \E l \in Lists : row' = [row EXCEPT ![k].lists = l]
    /\ phase' = "fresh"
    /\ UNCHANGED <<cred, procVars, holder, pending, mounted, runtime,
                   localVars, historyVars>>

\* `fresh = await self._toolsets.get(row.key)': lists from the row as it is.
ReadFresh(k) ==
    /\ phase = "fresh" /\ Current(k)
    /\ row[k] # None
    /\ runtime' = [runtime EXCEPT ![k][Fresh(k)].lists = row[k].lists]
    /\ phase' = "start"
    /\ UNCHANGED <<dbVars, procVars, holder, pending, mounted,
                   localVars, historyVars>>

\* Seeded fault: the new runtime is put on the stop list, not the old one.
ReplacedByMistake(k) == {<<k, Fresh(k)>>}

\* `to_stop.append(current.runtime)'.
Replaced(k) == IF HasRuntime(mounted, k) THEN {<<k, mounted[k].rt>>} ELSE {}

\* The entry of a toolset built in this run; what it replaces is to be stopped.
Mount(k, hash) ==
    /\ new_mounted' = [new_mounted EXCEPT ![k] =
                         [hash |-> hash, rt |-> Fresh(k), error |-> FALSE]]
    /\ to_stop' = to_stop \cup Replaced(k)
    /\ todo' = todo \ {k}
    /\ phase' = "loop"

StartNative(k) ==
    /\ phase = "start" /\ Current(k) /\ k \notin ProxyKeys
    /\ Mount(k, desired[k])
    /\ UNCHANGED <<dbVars, procVars, holder, pending, mounted, runtime,
                   usable, desired, historyVars>>

StartProxy(k) ==
    /\ phase = "start" /\ Current(k) /\ k \in ProxyKeys
    /\ phase' = "rehash"
    /\ UNCHANGED <<dbVars, procVars, holder, pending, mounted, runtime,
                   localVars, historyVars>>

\* content_hash = await spec.rehash(): the hash of the row as it is by now.
Rehash(k) ==
    /\ phase = "rehash" /\ Current(k)
    /\ row[k] # None
    /\ Mount(k, HashOf(k))
    /\ UNCHANGED <<dbVars, procVars, holder, pending, mounted, runtime,
                   usable, desired, historyVars>>

\* Seeded faults: a failed build always leaves a placeholder; a failed build
\* keeps the old entry but does not mark it.
AlwaysPlaceholder(k) == [hash |-> desired[k], rt |-> 0, error |-> TRUE]
FailedUnmarked(k) ==
    IF HasRuntime(mounted, k) THEN mounted[k] ELSE AlwaysPlaceholder(k)

\* What a failed build leaves in new_mounted: the old entry, marked, with its
\* runtime and its old hash; or a 503 placeholder if nothing was serving.
FailedEntry(k) ==
    IF HasRuntime(mounted, k)
    THEN [mounted[k] EXCEPT !.error = TRUE]
    ELSE [hash |-> desired[k], rt |-> 0, error |-> TRUE]

\* build() or start() raised.  The old runtime goes on and knows why.  A proxy
\* whose row vanished raises with its upstream connection still open.
BuildFails(k) ==
    /\ phase \in {"secret", "upstream", "fresh", "start"} /\ Current(k)
    /\ phase = "fresh" => row[k] = None
    /\ new_mounted' = [new_mounted EXCEPT ![k] = FailedEntry(k)]
    /\ runtime' = [runtime EXCEPT ![k] =
                     [s \in Slots |->
                        IF s = Fresh(k) THEN None
                        ELSE IF HasRuntime(mounted, k)
                             THEN [runtime[k][s] EXCEPT !.build_error = TRUE]
                             ELSE runtime[k][s]]]
    /\ leaked' = IF /\ k \in ProxyKeys
                    /\ \/ phase \in {"fresh", "start"}
                       \/ phase = "upstream" /\ row[k] = None
                 THEN leaked \cup {"connection"} ELSE leaked
    /\ todo' = todo \ {k}
    /\ phase' = "loop"
    /\ UNCHANGED <<dbVars, procVars, holder, pending, mounted,
                   usable, desired, to_stop, unread, last_run>>

ResetLocals ==
    /\ usable' = FALSE /\ desired' = NoKeys /\ todo' = {}
    /\ new_mounted' = NoKeys /\ to_stop' = {}

\* The row was deleted while its proxy was being built: rehash() raises outside
\* the try, the run ends there, the lock is released and the caller sees the
\* exception.  The runtimes this run had built are dropped without a stop.
RehashRaises(k) ==
    /\ phase = "rehash" /\ Current(k)
    /\ row[k] = None
    /\ runtime' = [j \in Keys |->
                     [s \in Slots |->
                        IF s = Fresh(j) THEN None ELSE runtime[j][s]]]
    /\ leaked' = leaked \cup {"runtime"}
    /\ holder' = None /\ phase' = "idle" /\ last_run' = "raised"
    /\ watcher' = IF holder = "watcher" THEN "dead" ELSE watcher
    /\ server' = IF holder = "boot" THEN "failed" ELSE server
    /\ ResetLocals
    /\ UNCHANGED <<dbVars, changed, editing, pending, mounted, unread>>

\* Seeded fault: only rebuilt toolsets are stopped, unmounted ones are not.
NoneRemoved == {}

\* The runtimes of `removed'.
RemovedRuntimes ==
    {<<k, mounted[k].rt>> :
        k \in {j \in Keys : HasRuntime(mounted, j) /\ new_mounted[j] = None}}

\* The swap, with no await inside it.
Swap ==
    /\ phase = "loop" /\ todo = {}
    /\ mounted' = new_mounted
    /\ to_stop' = to_stop \cup RemovedRuntimes
    /\ phase' = "stop"
    /\ UNCHANGED <<dbVars, procVars, holder, pending, runtime, usable, desired,
                   todo, new_mounted, historyVars>>

\* All of to_stop has drained and closed.  The run returns; reload() starts the
\* follow-up if anyone asked for it, else releases the lock.
FinishRun ==
    /\ phase = "stop"
    /\ runtime' = [k \in Keys |->
                     [s \in Slots |->
                        IF <<k, s>> \in to_stop THEN None ELSE runtime[k][s]]]
    /\ last_run' = "done"
    /\ ResetLocals
    /\ IF pending
       THEN /\ pending' = FALSE /\ phase' = "credentials"
            /\ UNCHANGED <<holder, server>>
       ELSE /\ holder' = None /\ phase' = "idle"
            /\ server' = IF holder = "boot" THEN "booted" ELSE server
            /\ UNCHANGED pending
    /\ UNCHANGED <<dbVars, watcher, changed, editing, mounted, unread, leaked>>

-----------------------------------------------------------------------------
(* The watcher. *)

\* start() reads data_version after the boot reload has returned.
StartWatcher ==
    /\ server = "booted"
    /\ server' = "up" /\ watcher' = "sleeping" /\ changed' = FALSE
    /\ UNCHANGED <<dbVars, editing, holder, pending, mounted, runtime, phase,
                   localVars, historyVars>>

\* One turn of _loop that sees a new version.  While a run of its own is in
\* progress the watcher is inside reload().
Poll ==
    /\ watcher = "sleeping" /\ holder # "watcher" /\ changed /\ AtAwait
    /\ changed' = FALSE
    /\ Reload("watcher")
    /\ UNCHANGED <<dbVars, server, watcher, editing, mounted, runtime,
                   localVars, historyVars>>

-----------------------------------------------------------------------------
(* Writers. *)

WriteRow(k, r) ==
    /\ row' = [row EXCEPT ![k] = r]
    /\ unread' = unread \cup {k}
    /\ UNCHANGED cred

\* A credential write: a new secret, or a new status.  updated_at moves on with
\* every write unless two fall into one second of utcnow().
WriteCredential ==
    /\ cred.secret < MaxSecret
    /\ \E u \in BOOLEAN,
          t \in {cred.secret + 1} \cup
                (IF "sameSecond" \in Faults THEN {cred.stamp} ELSE {}) :
         cred' = [usable |-> u, secret |-> cred.secret + 1, stamp |-> t]
    /\ unread' = unread \cup CredKeys
    /\ UNCHANGED row

\* One write of patch_toolset, rename or delete_toolset, or of patch_credential
\* or the OAuth callback.  A handler may make several before it reloads.
AdminWrite(a) ==
    /\ server = "up" /\ AtAwait /\ holder # a
    /\ \/ \E k \in Keys : /\ row[k] # None
                          /\ \E r \in (RowsOf(k) \cup {None}) \ {row[k]} :
                                WriteRow(k, r)
       \/ WriteCredential
    /\ editing' = editing \cup {a}
    /\ UNCHANGED <<server, watcher, changed, holder, pending, mounted, runtime,
                   phase, localVars, last_run, leaked>>

\* rename: insert under the new key and delete the old row, in one transaction.
AdminRename(a, k, j) ==
    /\ server = "up" /\ AtAwait /\ holder # a
    /\ row[k] # None /\ row[j] = None /\ {k, j} \subseteq ProxyKeys
    /\ row' = [row EXCEPT ![j] = row[k], ![k] = None]
    /\ unread' = unread \cup {k, j}
    /\ editing' = editing \cup {a}
    /\ UNCHANGED <<cred, server, watcher, changed, holder, pending, mounted,
                   runtime, phase, localVars, last_run, leaked>>

\* create_proxy stores a disabled row and asks for no reload.
AdminCreate(k) ==
    /\ server = "up" /\ AtAwait
    /\ row[k] = None /\ k \in ProxyKeys
    /\ \E r \in RowsOf(k) : ~r.enabled /\ row' = [row EXCEPT ![k] = r]
    /\ UNCHANGED <<cred, procVars, holder, pending, mounted, runtime, phase,
                   localVars, historyVars>>

\* The handler has written (and audited) all it wanted and calls reload().
AdminReload(a) ==
    /\ server = "up" /\ AtAwait /\ a \in editing
    /\ editing' = editing \ {a}
    /\ Reload(a)
    /\ UNCHANGED <<dbVars, server, watcher, changed, mounted, runtime,
                   localVars, historyVars>>

\* patch_toolset and patch_credential raise 409 or 422 for one field after
\* other fields were committed: the reload at their end is not reached.
AdminAborts(a) ==
    /\ "abort" \in Faults
    /\ server = "up" /\ AtAwait /\ a \in editing
    /\ editing' = editing \ {a}
    /\ UNCHANGED <<dbVars, server, watcher, changed, holder, pending, mounted,
                   runtime, phase, localVars, historyVars>>

\* Another process commits to the same database file.
ExternalWrite ==
    /\ "external" \in Faults
    /\ server # "failed"
    /\ \/ \E k \in Keys : \E r \in (RowsOf(k) \cup {None}) \ {row[k]} :
             WriteRow(k, r)
       \/ WriteCredential
    /\ changed' = TRUE
    /\ UNCHANGED <<server, watcher, editing, holder, pending, mounted, runtime,
                   phase, localVars, last_run, leaked>>

\* A health check of a mounted proxy finds other tools upstream than the
\* snapshot it was built from.  With a build error the check is not made.
HealthCheck(k) ==
    /\ server = "up" /\ AtAwait
    /\ k \in ProxyKeys /\ HasRuntime(mounted, k)
    /\ LET s == mounted[k].rt
       IN /\ ~runtime[k][s].build_error
          /\ ~runtime[k][s].needs_rebuild
          /\ runtime' = [runtime EXCEPT ![k][s].needs_rebuild = TRUE]
    /\ UNCHANGED <<dbVars, procVars, holder, pending, mounted, phase,
                   localVars, historyVars>>

-----------------------------------------------------------------------------
BuildStep(k) ==
    \/ KeepUnchanged(k) \/ BeginBuild(k) \/ ReadSecret(k) \/ UseStoredSnapshot(k)
    \/ SyncSnapshot(k) \/ ReadFresh(k) \/ StartNative(k) \/ StartProxy(k)
    \/ Rehash(k) \/ BuildFails(k) \/ RehashRaises(k)

RunStep ==
    \/ ReadCredentials \/ ReadRows \/ Swap \/ FinishRun
    \/ \E k \in Keys : BuildStep(k)

Next ==
    \/ Boot \/ StartWatcher \/ Poll
    \/ RunStep
    \/ \E a \in Admins : AdminWrite(a) \/ AdminReload(a) \/ AdminAborts(a)
    \/ \E a \in Admins, k, j \in ProxyKeys : AdminRename(a, k, j)
    \/ \E k \in ProxyKeys : AdminCreate(k) \/ HealthCheck(k)
    \/ ExternalWrite

\* Coroutines on one event loop: a step that can be taken is taken.  An admin
\* handler finishes; that anyone edits, or a check runs, is not assumed.
Fairness ==
    /\ WF_vars(Boot) /\ WF_vars(StartWatcher) /\ WF_vars(Poll)
    /\ WF_vars(RunStep)
    /\ \A a \in Admins : WF_vars(AdminReload(a))

Spec == Init /\ [][Next]_vars
FairSpec == Spec /\ Fairness

-----------------------------------------------------------------------------
(* Properties. *)

NativeKeys == Keys \ ProxyKeys

\* What an admin expects to see once the dust has settled: k is mounted iff the
\* database wants it, and unless its last build failed its runtime was built
\* from the configuration and the secret that the database holds.
InSync(k) ==
    /\ Wanted(k, cred.usable) <=> mounted[k] # None
    /\ HasRuntime(mounted, k) /\ ~mounted[k].error =>
          LET r == runtime[k][mounted[k].rt]
          IN r.conf = row[k].conf /\ r.lists = row[k].lists /\ r.secret = SecretFor(k)

Quiet == server = "up" /\ holder = None /\ last_run = "done"

\* A native toolset nobody has edited since the last run began to read is in
\* sync whenever no run is in progress: neither the unchanged test on hashes nor
\* the order in which credentials, rows and secrets are read leaves an old
\* runtime behind (registry.py, _reload_once; source.py, _desired).
NativesInSync == Quiet => \A k \in NativeKeys \ unread : InSync(k)

\* The same of proxies, whose hash is read again after the build
\* (registry.py:116-118 and :439).
ProxiesInSync == Quiet => \A k \in ProxyKeys \ unread : InSync(k)

\* Whoever is in the routing table has a live runtime, and not one that is
\* being stopped: a run stops only what its swap took out (registry.py:454-468).
RoutedRunning ==
    \A k \in Keys : HasRuntime(mounted, k) =>
        /\ runtime[k][mounted[k].rt] # None
        /\ phase = "stop" => <<k, mounted[k].rt>> \notin to_stop

\* Nothing is dropped without its stop: neither a connection whose toolset is not
\* built (source.py:118) nor a runtime whose run is not finished (registry.py:439).
NothingLeaked == leaked = {}

\* A runtime that reports "reload failed" belongs to an entry whose last build
\* did fail, so the report goes away when the configuration is applied
\* (registry.py:231-236 and :413-427).
ErrorsAreCurrent ==
    Quiet => \A k \in Keys :
        HasRuntime(mounted, k) /\ runtime[k][mounted[k].rt].build_error
            => mounted[k].error

\* Every edit no run has read yet will be read: somebody still has to reload, a
\* follow-up run is marked, or the watcher is going to see the commit
\* (registry.py:378-389 and watch.py; "our own writes trigger a reload").
EditsPromised ==
    unread # {} =>
        \/ server \in {"booting", "failed"}
        \/ editing # {}
        \/ holder # None /\ (pending \/ phase = "credentials")
        \/ changed /\ watcher # "dead"

\* A reload asked for during a run is not forgotten when that run ends
\* (registry.py:379-380: "one follow-up run happens afterwards").
PendingIsServed == pending => holder # None

\* The watcher goes on watching (watch.py:1-19).
WatcherSurvives == watcher # "dead"

\* A toolset leaves the routing table only because the database no longer wants
\* it, and one that serves is never replaced by a placeholder: a failed build
\* keeps what was there (registry.py:413-437).
KeepServing ==
    [][\A k \in Keys :
          /\ mounted[k] # None /\ mounted'[k] = None => desired[k] = None
          /\ HasRuntime(mounted, k) /\ mounted'[k] # None => HasRuntime(mounted', k)
      ]_vars

\* The registry implements RuntimeLife, for native toolsets and proxies alike: what
\* has served is drained before it is dropped, also when builds fail or the reload
\* raises, and no reload ends with a runtime that neither serves nor was given up
\* (registry.py:378-389 and :410-469).
LifeOf(k, s) ==
    IF runtime[k][s] = None THEN "none"
    ELSE IF mounted[k] # None /\ mounted[k].rt = s THEN "serving"
    ELSE IF phase = "stop" THEN "draining" ELSE "built"

Runtimes == INSTANCE RuntimeLife
            WITH life <- [k \in Keys |-> [s \in Slots |-> LifeOf(k, s)]],
                 reloading <- holder # None
RuntimesLive == Runtimes!Spec

\* When the edits stop, the registry comes to agree with the database and stays
\* so (registry.py:379 "bring the mounted set in line with the source").
Converges ==
    <>[][dbVars' = dbVars]_vars => <>[](server = "up" => \A k \in NativeKeys : InSync(k))
=============================================================================
