# Manifold MCP gateway: TLA+ models and proofs

Manifold is a gateway that mounts *toolsets* (native Python modules and proxies
to remote MCP servers) from an SQLite database, hot-reloads them while requests
are served, is an OAuth server to its clients and an OAuth client to the
providers behind the toolsets. It is one Python process with one asyncio loop
and, towards the database, one shared autocommit connection; a second process
(the CLI) may commit to the same file.

That shape sets the grain of the models. Between two `await`s a coroutine is
atomic; at every `await` any other coroutine may move, and each SQL statement
commits on its own. **One action is one stretch of one coroutine from one
`await` (where something of interest may change) to the next.** Where threads,
other processes or crashes matter (`Restore`), they are actions of their own.

Paths below are relative to `src/manifold/`.

## Contents

| model | what it is | instances | proofs |
|---|---|---|---|
| `Registry` | hot reload: registry, source, watcher, the admin handlers that edit and reload | `MCRegistry`, `RegistrySafe.cfg`, `RegistryLive.cfg` | `RegistryProofs` |
| `RuntimeLife` | what is promised about the life of a runtime (abstract) | checked by `RegistrySafe.cfg` | `RegistryProofs` |
| `ProxyConnection`, `ProxyRuntime` | one upstream session, reconnects and calls; around it one mounted runtime with its requests, drain and stop | `MCProxyRuntime`, `ProxyRuntime.cfg` | `ProxyRuntimeProofs` |
| `CredentialTokens` | tokens of one oauth2 credential: refresh, connect, patch | `MCCredentialTokens`, `TokensSafe.cfg`, `TokensLive.cfg`, `OldTokenBack.cfg` | `CredentialTokensProofs` |
| `Grants` | what is promised about authorization codes (abstract) | checked by `OAuthSafe.cfg` | `OAuthServerProofs` |
| `OAuthServer` | Manifold as an OAuth server, statement by statement on the shared connection | `MCOAuthServer`, `OAuthSafe.cfg`, `RefreshLives.cfg` | `OAuthServerProofs` |
| `AuditLog` | the audit log and its pruning | `MCAuditLog`, `AuditLog.cfg` | `AuditLogProofs` |
| `Restore` | the database file: boot, snapshots, two-step restore, exit, key rotation | `MCRestore`, `Restore.cfg` | `RestoreProofs` |
| `DatabaseFile` | what is promised about the database a restore replaces (abstract) | checked by `Restore.cfg` | `RestoreProofs` |
| `Sheets` | the Google Sheets tools that page, append and update by key, and their client's retries | `MCSheets`, `Sheets.cfg` | `SheetsProofs` |
| `Unraid` | the Unraid tools, the fields they leave out, mutations and the health check | `MCUnraid`, `Unraid.cfg` | `UnraidProofs` |

`PROJECT.json` lists components, runs, seeded faults, the source map, findings,
hazards and theorems. To check: `tlc -workers 2 -config RegistrySafe.cfg
MCRegistry` (each cfg with the MC module of its row), `tlapm RegistryProofs.tla`.

Every checked property of a passing run has a *seeded fault*: an operator, marked
so in its comment, that changes one definition the way a plausible bug would
(`HashWithoutStamp` for `HashOf`, `SweptAlone` for `Swept`, ...). `PROJECT.json`
pairs them; with the fault put in, TLC finds the property violated. They are used
nowhere else.

Each model also defines a `TypeOK`, which is a theorem (`TypeCorrect`) of its
proof module.

## Inventory

For each component: its state, operations, whom it talks to, what is hard in it,
what makes it correct, and where it is modelled.

**Hot-reload registry** (`gateway/registry.py`). State: `_mounted` (hash, runtime,
error per key) and the `routes` mapping projected from it, `_lock`, `_pending`;
per runtime its build error, `needs_rebuild`, `inflight` count and drain event.
Operations: `reload`, `_reload_once`, `running`, and of a runtime `start`,
`stop`, `health`, `handle`. Called by every admin handler and the watcher; calls
the source and the runtimes. Hard: a run has an await per read, build, start and
stop, during all of which rows, credentials and health change; builds and
rehashes fail; requests to reload coalesce. Correct when what is mounted
follows the database, a failing build never takes away what serves, no
routed runtime is stopped, nothing started is forgotten, no request to
reload is lost, and a runtime that goes drains first. *`Registry` and, for what
happens inside one runtime, `ProxyRuntime`. Left out: discovery of modules on
disk, the stop of all runtimes when `running()` ends.*

**Toolset source** (`gateway/source.py`). No state; `desired()`, the build
closures of native toolsets and proxies, `rehash()`. Reads credentials, rows,
secrets and, for a proxy, connects upstream and rewrites its stored lists. Hard:
all those reads are separate. Correct when the hash recorded speaks of what
was built. *`Registry`.*

**Change watcher** (`gateway/watch.py`). State: the last `PRAGMA data_version`, a
task. Correct when other processes' commits lead to a reload as long as the
process lives. *`Registry`, without `stop`, which only cancels the task.*

**Proxy connection** (`gateway/proxy.py`). State: `_session`, `_ready`, `_kick`,
`_stop`, the task of `_run`. Operations: connect, drop, wait for a session,
call, health check, stop. Hard: a late failure of an old session drops the new
one; waiters are woken and run later; an upstream that will not let go. Correct
when a dropped session is replaced, calls return, `stop()` returns and nothing
connects after it. *`ProxyConnection`.*

**Dispatcher and per-call filters** (`gateway/dispatcher.py`, `toolfilter.py`,
`audit.py`, `schema.py`, `upstream_auth.py`, `manifest.py`). Per request: look up
the route, check the bearer, filter tools, record an audit entry. A route taken
before the swap is used after it. *The path of a request is in `ProxyRuntime`;
schema validation, auth headers and the manifest are pure functions and left out.*

**Toolset and credential rows, admin handlers** (`store/toolsets.py`,
`store/credentials.py`, `api/toolsets.py`, `api/credentials.py`). State: the rows.
Operations: create, patch, rename, delete; a handler writes, records an audit
entry, reloads. Hard: patches write field by field and may raise midway;
time stamps in whole seconds act as versions; `update_meta` and `sync_snapshot`
read, merge and write back. Correct when each committed edit is followed by a
reload that reads it. *Edits as a reload sees them in `Registry`, the token side
in `CredentialTokens`, the transactions in `OAuthServer`, encryption in `Restore`.
Left out: field validation, forms, previews, the content of meta, deletion of a
credential.*

**Upstream OAuth client and token manager** (`auth/upstream.py`). State: rows of
`oauth_state`; a lock and a cached token per credential; tokens and status in the
credential row. Hard: refresh, callback and patch each write values, meta and
status in separate statements and only refreshes share a lock; the provider may
rotate refresh tokens, lose an answer, or withdraw a grant. Correct when
refreshes coalesce, a replaced token is never presented, a state is used once,
dropped tokens stay dropped and a dead grant is reported. *`CredentialTokens`.
Left out: PKCE, presets, the purge of expired states.*

**OAuth server** (`auth/provider.py`, `auth/store.py`, `auth/sqlite_store.py`,
`auth/routes.py`). State: rows of clients, codes and token pairs. Operations:
register, authorize (with a sweep of what expired), both exchanges, revocation,
loading, `disconnect_all`. Hard: two exchanges at once; expiry between check and
use; an exchange while its client is disconnected; and all of it on a connection
on which another coroutine's `BEGIN` takes one's statements into a transaction
that may be rolled back. Correct when a code gives tokens once, pairs come and
go whole, what was exchanged or disconnected is worth nothing. *`OAuthServer`,
against `Grants`. Hashes, scopes, PKCE, resources and redirect addresses are data
the properties do not tell apart.*

**Audit log and pruning** (`store/audit.py`, `gateway/prune.py`). State: the audit
rows, the prune log, two settings, a lock. Hard: age and size are pruned in
batches whose count and delete are two statements, and rows keep coming. Correct
when the cap is not overshot, a finished prune has pruned enough, and what is
gone is accounted for. *`AuditLog`. Left out: reads, vacuuming, trimming of the prune log.*

**Database connection** (`store/db.py`). State: one autocommit connection for all
coroutines. *Its transactions in `OAuthServer`, open, migration and commits in
`Restore`, `data_version` and `utcnow()` in `Registry`.*

**Snapshots and restore** (`store/snapshots.py`, `api/backups.py`), **encryption and
key rotation** (`crypto/`), **shutdown** (`gateway/shutdown.py`, `app.py`,
`__main__.py`). State: the database file, the staged one, uploads, snapshots, the
key in the environment and the key each row is under, a watchdog. Hard: crashes
between any two of these steps; two admins; a rotation by another process while
the gateway serves. Correct when the database is never lost, a restore is what
the admin was shown and can be undone, and the gateway comes back. *`Restore`.
Left out: a snapshot that fails, listing and download, the YAML export, the order
of the single teardown steps; the cipher is a library.*

**Settings** (`config/`, `store/settings.py`, `api/settings.py`). *The pruner's
settings in `AuditLog`, the buttons in `AuditLog`, `OAuthServer`, `Restore`.
Environment, cache headers and log levels are left out.*

**Native toolsets** (`toolsets/`) and **their clients** (`google/`, `unraid/`). State: of
Unraid the fields left out, shared by all calls of a runtime; else none that
outlives a call but the row numbers and ranges an assistant carries from one call
to the next. Hard: writes are retried although their answer alone was lost;
rows move between a find and a write; calls share what they learn of the API; a
health check of many requests that fail in different ways. Correct when the
gateway never tells a user something else than what happened. *`Sheets`, `Unraid`.
Left out: formatting tools and the manifold toolset, which build one request and
shape its answer; the token cache of `google/auth.py`; error texts.*

**Not modelled:** the registration guard (`auth/guard.py`: its window is
synchronous, and that requests in progress may exceed the client cap is accepted
by its docstring, "a brake on abuse, not an accounting system"); the check of
Access headers (`auth/access.py`: a comparison without state); the read-only admin
API and its shapes (`api/audit.py`, `deps.py`, `models.py`, `router.py`).

`PROJECT.json` lists the hazards of all these at their lines, with the properties
that cover them or the reason none does.

## Registry and RuntimeLife

| model | code |
|---|---|
| `row`, `cred` | rows of `toolsets`/`proxy_upstreams` and one stored credential, reduced to what a reload can tell apart |
| `mounted[k] = [hash, rt, error]` | `Registry._mounted`; `rt` names one of two runtime slots, 0 is a 503 placeholder |
| `runtime[k][s]` | live `ToolsetRuntime`s: what each was built from, `needs_rebuild`, `build_error` |
| `holder`, `pending` | `_lock`, `_pending` |
| `phase` and `usable`, `desired`, `todo`, `new_mounted`, `to_stop` | where the one run of `_reload_once` stands, and its locals |
| `server`, `watcher`, `changed` | boot, the watcher's task, whether `data_version` differs from its last |
| `editing` | handlers that have committed and not yet called `reload()` |
| `unread`, `last_run`, `leaked` | history the properties speak of |

A run is `Boot`, `Poll` or `AdminReload` taking the lock; `ReadCredentials`,
`ReadRows`; for each key in order `KeepUnchanged`, or `BeginBuild` with
`ReadSecret`, `UseStoredSnapshot`, `SyncSnapshot`, `ReadFresh` (proxies) and then
`StartNative`/`StartProxy`, `Rehash`, or `BuildFails`, or `RehashRaises`; `Swap`
(synchronous, so atomic) and `FinishRun`, which stops the replaced and starts the
follow-up if one was asked for. `AdminWrite`, `AdminRename`, `AdminCreate`,
`AdminAborts`, `ExternalWrite` and `HealthCheck` may come at any await.

Abstracted: of a row `conf` stands for all hashed fields but a proxy's lists, kept
apart since the build rewrites them; hashes are the hashed data themselves, so
equal exactly if these are. Stops always succeed (`stop()` suppresses
exceptions); what happens inside one is `ProxyRuntime`.

`RuntimeLife` is what the registry promises of runtimes without rows, hashes, locks or
failures: a runtime is built, serves, is drained and goes, in this order; only a
reload changes what the registry holds; when it is over the registry holds nothing
but what serves. **`Registry` implements it** under the mapping `LifeOf`, which reads
the stage of a slot off the table and the phase of the run: `RuntimesLive ==
Runtimes!Spec` is checked by TLC and proved (`RuntimesLiveHolds`). It holds even if
`rehash()` raises: what a run that raised had built is no longer held by the registry, alive or
not (`leaked`). That this does not happen is `NothingLeaked`, which TLC refutes with a proxy (below).

Properties:

* `RuntimesLive`: the registry implements `RuntimeLife`.
* `NativesInSync`: a native toolset nobody edited since the last run began to
  read is mounted iff the database wants it, and with that configuration and secret.
* `RoutedRunning`: whoever is routed has a live runtime not among those to be stopped.
* `KeepServing` (action): a key leaves the table only if the database no longer
  wants it, and a runtime is never replaced by a placeholder.
* `ErrorsAreCurrent`: a "reload failed" on a runtime goes with an entry whose build did fail
  (of natives: where a run can end by an exception, TLC refutes it, see below).
* `EditsPromised`: for every edit that no run has read there is somebody who will.
* `Converges` (liveness): edits having stopped, native toolsets agree with the database for good.

| run | instance | shows |
|---|---|---|
| `registry_safe` | 2 proxies, 1 admin, handlers that abort, external commits; create, rename, delete, failing builds | `RoutedRunning`, `KeepServing`, `RuntimesLive`: what serves keeps serving, and is drained before it goes, even if `rehash()` raises |
| `registry_live` | 2 native toolsets, one with the credential, 2 admins | `NativesInSync`, `EditsPromised`, `ErrorsAreCurrent`, `Converges` |

Bounds: a run handles keys one by one and one key's steps touch another only
through `to_stop`, the swap and the exception of `rehash()`, which two keys show
(one before, one after). Two admins give one reload in progress, one coalescing
with it and edits during both; for `registry_safe` the watcher is the second who
reloads. `MaxSecret = 1` lets the secret change before or within a run. Two
runtime slots are enough because a run builds one successor at most and puts it
into the slot the mounted one does not occupy (lemma `FreshSlot`); were something
still alive there, `RuntimesLive` would fail. The configuration has one
value: enabling, disabling, deletion and the secret make the edits. External
commits and aborting handlers on native toolsets are in no run: the theorem
`NativesInSyncHolds` covers them. `registry_safe` takes as its `VIEW` a state without
the three history variables: no action reads them, nor does what it checks.

`CHECK_DEADLOCK FALSE` because an idle gateway is a legal state: with the
bound on secrets used up and every handler done nothing need be enabled.

Fairness (`FairSpec`): the steps of a run, boot, the watcher's poll and a
handler's own reload are weakly fair: they are coroutines on one loop, whose
awaits return (a proxy's connect has a timeout, `gateway/proxy.py:85`, a stop
drains for a bounded time, `registry.py:201-203`, and a failed build is an outcome
too). Nobody is assumed to edit or to check health.

## ProxyConnection and ProxyRuntime

| model | code |
|---|---|
| `run` | where `_run` stands: connecting, in a session, closing it, in its pause, done |
| `session`, `ready`, `kick`, `stop` | `_session`, `_ready`, `_kick`, `_stop` |
| `up`, `alive` | the upstream answers; it still knows the session |
| `at[c]` | where a call stands: bearer check, waiting for a session, woken, in a session (`late` if `_run` has given that session up), on its way back |
| `phase`, `deadline` | `ToolsetRuntime.stop`: drain, session manager, connection, cancelled; whether the drain window is over |
| `held` | history: calls in flight at the swap |

`ProxyConnection` has the steps of `_run` (`Connect`, `ConnectFails`,
`LeaveSession`, `Close`, `BackoffEnds`, `Cancel`) and of calls (`Enter`, `GivesUp`,
`Resume`, `Answered`, `Fails` with `Drop`, `Refused`, `StartProbe`).
`ProxyRuntime` EXTENDS it with the way of a request through the dispatcher and the
bearer check (`Dispatch`, `Authenticated`, `Recorded`), the swap, and `stop()`
(`DrainTimesOut`, `Drained`, `ManagerStops`, `ConnectionStops`). A request is
counted as in flight only behind the bearer check, as in the code; a health
check (`Probes`) never.

* `DropIsSeen`: a session taken away, also by a call that failed on an earlier
  one, is on its way to be replaced.
* `ReadyMeansSession`: who is not sent to wait has a session (a theorem, in no run).
* `StoppedForGood`: a stopped runtime does not connect again, even if its task was abandoned.
* `DrainIsKept` (action): within the drain window no request in flight at the swap is cut.
* `Recovers`, `CallsReturn`, `StopReturns` (liveness): a session comes back while
  the upstream stays up and lets go of closed sessions, and stays once no call
  fails any more; calls return; `stop()` returns, however the upstream behaves.

Run `proxy_runtime`: two calls and a health check. Calls meet only in `_session`,
`_ready` and `_kick`, so one that fails late and one on the new session show every
meeting; the health check is a third that drops for other errors.
`CHECK_DEADLOCK FALSE`: after the stop nothing is left to do.

Fairness: `_run` gets on where it is ready or a timer ends it (connect timeout,
pause, `_stop`, `_kick`); a call where it is ready or its budget ends
(`GivesUp`, `Fails`); the steps of `stop()`, all of which have a bound. **Not** fair:
`Close`, since `__aexit__` of a session may wait for an upstream that does not let go
(`proxy.py:149-162`), `UpstreamChanges`, and the end of a session nobody uses.

## CredentialTokens

| model | code |
|---|---|
| `values`, `status` | the credential row: tokens and status; refresh tokens are numbered as issued, 0 is none; of the access token the age |
| `pending` | rows of `oauth_state` |
| `lock`, `cache` | `TokenManager._locks[id]`, `_cache[id]` |
| `pc`, `seen`, `got`, `state` | where each handler stands, and its locals |
| `issued`, `dead`, `outages` | the provider |
| `replaced`, `connected`, `refresh_bumped` | history |

A tool call goes `Call`, `Enter`, `ReadValues`, `ReadSummary`, then
`RefreshAnswered`, `RefreshRejected` or `RefreshFails`, then `StoreRefreshed` and
`BumpAndCache`, or `MarkRejected`; a callback `ReceiveCallback` (which consumes the
state), `ExchangeCode`/`ExchangeFails`, `StoreConnected`, `SetOk`; a patch
`BeginPatch`, `DropTokens`, `SetScopesChanged`. The provider may rotate or not at
each refresh; `Faults` adds revocation, lost answers and a restart of the
process at any point. Writes of `meta` have no content here: they show in
`refresh_bumped` alone. A token does not age while its answer is under way.

* `NeverReplaysReplaced`: no caller presents a refresh token that a refresh has
  already replaced in the row (a rotating provider would end the grant).
* `Coalesced` (action): nobody sends a refresh while the cache has a good token (a theorem, in no run).
* `StateUsedOnce`: at most one callback per state reaches the token endpoint.
* `CallsReturn` (liveness): a call that waits for the lock gets its turn and ends.
* `DeadGrantSurfaces` (liveness): if calls keep coming, a row that says `ok` while
  its refresh token is missing or dead does not stay so. Rows like that do
  arise: a callback's `set_status("ok")` may fall between the two writes of a
  patch, and a rotating refresh may lose its answer.

| run | instance | shows |
|---|---|---|
| `tokens_safe` | 2 callers, 2 callbacks, 1 state, 3 issued tokens, 1 outage, all faults | `NeverReplaysReplaced`, `StateUsedOnce` |
| `tokens_live` | 2 callers, 1 callback, 2 issued tokens, 1 outage, lost answers | the liveness properties |
| `old_token_back` | 1 caller and a patch; *violation* of `TokensDropped` | a refresh under way during a patch brings tokens of the old grant back |

Bounds: callers meet only at the lock and callbacks only at a state, so two of
each show every meeting; three issued tokens allow a rotation, a connect and
another rotation on top of either. The safety properties are proved without
bounds. `CHECK_DEADLOCK FALSE`: with all issued and nobody calling nothing need happen.

Fairness: a handler's next step is weakly fair (the request to the provider has a
20 s timeout, `upstream.py:230`, so it ends in an answer or a failure);
`Enter` is strongly fair for each caller, since `asyncio.Lock` wakes its waiters
first come, first served; time passes. That the provider answers, that an admin
connects or that anyone calls is not assumed: `DeadGrantSurfaces` has the calls
in its premise.

## OAuthServer and Grants

| model | code |
|---|---|
| `db = [clients, codes, access, refresh]` | the rows of `oauth_clients`, `oauth_codes`, `oauth_tokens`; a pair of tokens is one number |
| `txn`, `saved` | whose `BEGIN` is open on the shared connection, and the rows at that moment |
| `aged` | rows past `expires_at` |
| `pc`, `arg` | where each request, the browser and the admin stand, and what with |
| `owner`, `issued` | the client of each code and pair; pairs numbered so far |
| `known`, `answered`, `forgotten`, `restored` | history: clients ever registered; exchanges answered; clients removed by `disconnect_all`; what a rollback brought back |

One action is one statement: `Sweep`, `SaveCode` (authorize); `LoadCode`,
`DeleteCode`, `Begin`, `InsertAccess`, `InsertRefresh`, `Commit` or `Rollback`
(exchange of a code); `LoadRefresh`, `Revoke`, and the same inserts (exchange of a
refresh token); `LoadAccess`, `RevokeToken`; `ClearClients`, `ClearTokens`
(`disconnect_all`); `CreateProxy`, `RenameToolset`, `CreateCredential`, the other
transactions on the connection, which may fail and roll back what anybody wrote
since their `BEGIN`; `Expire`; `Crash`.

`Grants` is the promise about a code without clients, requests or a database:
unused, live, gone, done, and done once. **`OAuthServer` implements it** under the
mapping `Fate`, which reads a code's stage off the rows and the answers given:
`CodesKeepPromise == Promised!Spec` is checked by TLC and proved
(`CodesKeepPromiseHolds`). A code that a rollback brought back is `"void"`, all bets off:
that really happens, and without the exception `CodeOnce` is refuted (below).

* `PairsWhole`: the two tokens of a pair come and go together.
* `RotatedGone`: a pair that was exchanged is worth nothing any more.
* `DisconnectHolds`: no code or token of a client `disconnect_all` removed is valid,
  even if its exchange was between two statements then: the foreign key refuses it.
* `TxnEnds`: an open transaction has somebody about to end it (a theorem, in no run).
* `RefreshLives`: what SPEC.md says of the life of a refresh token; *violated*, run `refresh_lives`.

Run `oauth`: one client, one code, two pairs, two requests, failing inserts and crashes.
Two requests give two exchanges of the same thing at once, or one and a revocation;
two pairs an exchange and a rotation. All of it is proved without
bounds. `CHECK_DEADLOCK FALSE`: when codes and pairs are used up nothing need happen.
Assumed: no client registers between the two statements of `disconnect_all`
and is authorized and has exchanged its code before the second (`Register`).
Two exchanges of one *refresh* token at once are both answered (`provider.py:178`
does not look at the number of rows deleted): `RotatedGone` holds, and one client
has two pairs.

## AuditLog

| model | code |
|---|---|
| `log`, `last` | ids in `audit_log`, the last one given |
| `horizon[d]` | the last id older than d days: rows age in order, the clock going forward |
| `days`, `cap` | the two settings, read by a run in two statements |
| `lock`, `run[r]` | the pruner's lock; where the daily and the on-demand run stand, and their locals |
| `reported`, `missed` | history: deletions in the prune log; those of runs that raised or were cancelled |

A run: `Wake`, `Lock`, `ReadDays`, `ReadCap`, then per batch `DeleteOld`, `Count`,
`DeleteExcess`, `NextBatch`, at last `RecordPrune`; `Fails` at any of them. Rows,
time and settings move in between.

* `SparesTheCap` (action): pruning by size leaves the newest `cap` rows.
* `PrunedEnough` (action): a prune that ends of itself leaves nothing too old and
  no more than the cap and what came since it counted, whatever the sizes of its batches.
* `NoHoles`: what is kept is the end of what was written, without a gap, however
  deletions by age, by the cap and new rows interleave.
* `Accounted`: every deleted row is in the prune log, or with a run under way or cut short.

Run `audit_log`: 6 rows and batches of 2, so that a prune takes up to three batches, of
age, of size, and of both; two values of either setting and one change. All four
properties are proved without bounds. `CHECK_DEADLOCK FALSE`: rows and changes are bounded.

## Restore and DatabaseFile

| model | code |
|---|---|
| `live`, `pending`, `incoming`, `snaps` | `manifold.db`, `manifold.db.restore`, uploads by token, snapshots newest first; of a database its key check, the key of its credential, its schema's age, its writes |
| `env`, `key` | `MANIFOLD_MASTER_KEY` of the container, and the process' own |
| `pc`, `armed` | boot (applying, opening, migrating, checking), serving, stopping, leaving; the watchdog thread |
| `admin[a]`, `cli`, `refresh` | handlers of the restore API; `rotate-key` in a process of its own; a token refresh between its read and its write |
| `shown`, `asked`, `since`, `turned` | history, forgotten when nothing refers to it any more |

Boot is `Start` (which removes the live database if one is staged), `Apply`, `Open`,
`Migrate`, `CheckKey`; a restore `Upload`, `Inspect`, `Confirm`, `SnapshotFirst`,
`Stage`, `Record`; the exit `Begin`, `TearDown`, `Leave`, or `ForceExit` by the
watchdog; a rotation `RotateProves`, `RotateSnapshots`, `RotateCommits`, `SetKey`.
`Crash` may come at any of them. `Confirm` takes any token whose file is there, as the
code does; an admin has a token from a report on its file, or, where uploads may share
tokens (`"sameSecond"`), from one on an earlier file (`Known`).

`DatabaseFile` is what a restore promises without uploads, tokens, snapshots, keys or
kills: there is a database, which loses nothing committed until a staged one
replaces it, in one step, with nobody working on it. **`Restore` implements it**
(`ReplacedAtOnce == Placed!Spec`, proved as `ReplacedAtOnceHolds`). In the code the
replacement is two steps, the removal of the live file and the renaming of the staged
one, between which the process may die: while there is no live database the mapping
takes the staged one for it, and that this is sound is that every boot which
finds things so puts it in place before it opens anything.

* `ReplacedAtOnce`: boot, restore and exit implement `DatabaseFile`.
* `NeverEmptied`: whenever the process dies a database in use is on disk, and no
  boot starts over with an empty one.
* `Reversible` (action): what was committed when a restore was confirmed is in a
  snapshot when it is applied, unless `KEEP` newer ones were taken.
* `ShownIsStaged` (action): what gets staged is what the admin saw a report on.
* `KeyFits`: only a rotation can make the gateway refuse its own key.
* `StagedMeansStopping`: a staged restore is not left under a gateway that goes on serving.
* `ComesBack` (liveness): after every exit the gateway serves again, nothing staged,
  unless a rotation was committed whose key the operator has not given to the
  container: then it stays down, refusing the key it has.

Run `restore`: two admins, one token, one commit, one crash, two snapshots kept, two
keys, one rotation. One token suffices: uploads never share one, and two admins
may be about the same. One crash is enough since every boot begins from files alone
and a second could only repeat. `CHECK_DEADLOCK FALSE`: writes and crashes are
bounded. `Faults` leaves out `"sameSecond"` (two uploads in one second share a
token, `snapshots.py:146`) and `"locked"` (the audit row after staging fails,
`api/backups.py:66-73`): with the first `ShownIsStaged`, `NeverEmptied` and `KeyFits`
are refuted, with the second `StagedMeansStopping`, see below; the theorems about
them say so in their assumptions. `Reversible` and `ReplacedAtOnce` are proved with either.

Fairness: boot proceeds (the container restarts it with the key it has), handlers
proceed, and the exit ends, by the end of the process after its lifespan or by the
watchdog. A rotation and `SetKey` are the operator's and not fair: nobody is bound to
give the container another key. That the
process does end after its lifespan is assumed: the watchdog is cancelled at
`app.py:161`.

## Sheets

| model | code |
|---|---|
| `sheet` | rows of one sheet: content of the key column, who wrote it last |
| `call[c]` | a session of the assistant: what it is doing, row numbers found, attempt, range |
| `edits`, `shifted` | edits by others; history: sessions in which rows changed place |

`ReadPage` is `read_range` along `next_range`; `Locate` is `find_rows` or the first
half of `update_rows_by_key`; `CarriedOut`, `Refused`, `AnswerLost` are what becomes of
a request in `google/client.py` with its retries; `ColToIndex`/`IndexToCol` are
`a1.py`. Others insert and swap rows in between.

* `ReadsFar` (action): who follows `next_range` until there is none has been shown
  every row with data of the first page and of the one after it, and, if a page holds
  more rows than the cap, every row with data whatever its number.
* `AppendsBounded`: whichever answers are lost, refused or given up on, an append
  leaves at most one row for each of the attempts it is allowed.
* `KeyedWrites`: an update by key or after a find writes into no row with another
  key as long as no rows moved meanwhile.
* `ColumnsRoundTrip`: the two conversions of column names are inverse, for all of A..ZZZ.

Run `sheets`: two sessions, two keys, 4 rows below the header that become 5 by an edit
of others and 6 and more by appends, two retries. `CAP` is the setting `read_row_cap`, `PAGE` the 1000 of
`_next_range`: the run has `CAP = PAGE = 2`, the shipped proportion, so that a sheet
is longer than the two pages that reading is sure to get through.
`CHECK_DEADLOCK FALSE`: sessions end.

**With the shipped cap reading does not get to the end of a long sheet.** The
row that shows a range to be cut short is fetched for open ranges only
(`__init__.py:138-140`); `next_range` names 1000 rows (`:167`), which are no more than the
cap, so its answer is never truncated and names no next one. `ReadsToTheEnd` states what
`DECISIONS.md:345` ("when the cap truncates, the response says so and gives the next
range to request") and the docstring of `read_range` (`:247-248`) promise, and TLC refutes
it for `CAP >= PAGE`; `ReadsFar` is what holds for every cap.

## Unraid

| model | code |
|---|---|
| `nas` | what the API answers: values too large, roots closed to the key, services off, names renamed, what is running |
| `dropped` | `_Unraid.dropped`, shared by all calls of a runtime |
| `call[c]` | a tool call: its document, round of `query_raw`, attempt of the client, target |
| `check` | a health check, which works with a toolset of its own |

Reading tools: `BeginRead`, `ReadAnswered`, `Overflows`. Changing ones: `BeginChange`,
`Listed`, `CarriedOut`, `NotPossible`. The client: `Rejected`, `Unreached`,
`AnswerLost`. Health: `HealthQuery`, `Probe`, `OptionalQuery`, `Introspect`. Others
`Switch` and `Alter` the NAS.

* `OverflowsEnd` (liveness): fields too large for the API stop troubling the tools,
  however many calls run into them together. It needs no fairness: there are only
  so many fields to find out.
* `ToldTheTruth`: a change was made once if the call says so and not if it says it
  failed, but once more for each answer lost, and never unconfirmed.
* `HealthIsTrue`: while the NAS answers as it did and every request gets an answer,
  ok means all that is needed is there and readable, and the roots a degraded
  toolset names are those it cannot read.

The optional queries are asked one after the other in any order, each by
`query_raw` with its rounds: `asked` is the root a query has got a field of. The look-up
of `vm_control` leaves fields out like any query.

Run `unraid`: two calls *or* a health check (they share nothing, so a behaviour has one
or the other); a required root with two fields that may overflow and one that
fits, and two services that may be off, the VMs and a UPS with one field that may
overflow; one retry, two rounds (8 shipped, so that a tool here gives up after the
last of them, and the UPS is within what `Foreseen` asks), one change of the NAS, one
answer lost. The one target is a VM: the parity check goes the same way without
its look-up, and the proof covers any set of either.
Deadlock is checked. `OverflowsEnd` leaves out a selection set made up of such
fields alone: stripped of all it is a syntax error until the runtime is rebuilt.
A mutation that is carried out and answered with an error besides is not modelled.

## Findings

Two runs show where code and its own words differ; `PROJECT.json` quotes both sides:
`old_token_back` (a patch's dropped tokens come back) and `refresh_lives` (a
refresh token goes with its expired access token).

Further divergences: each is stated as a property in its module, and TLC refutes it
with the constants given; there is no run for it.

| property | with | what happens |
|---|---|---|
| `Registry!ProxiesInSync` | a proxy, 2 lists, 2 admins | an edit of a proxy's lists between its build's read and `rehash()` (`registry.py:439`) is recorded as mounted, never applied |
| `Registry!PendingIsServed` | a proxy, 2 admins | `rehash()` raising for a deleted proxy leaves `_pending` set and nobody to serve it (`registry.py:439`, `:387`) |
| `Registry!WatcherSurvives` | a proxy, external commits | `watch.py:49` awaits `reload()` outside the `try`: the same exception ends the watcher for good |
| `Registry!NothingLeaked` | a proxy | a build that fails after `connection.start()` leaves the connection behind (`source.py:118`) |
| `Registry!EditsPromised` | `"abort"` | a patch that commits one field and answers 409/422 for the next does not reload (`api/toolsets.py:212`) |
| `Registry!EditsPromised` | `"external"` | `watch.py:28` reads its baseline after the boot reload: a commit in between is never noticed |
| `Registry!ErrorsAreCurrent` | a native toolset with 2 configurations, a proxy, 2 admins | a build fails, then the proxy's `rehash()` ends the run, and the edit is taken back: the toolset is unchanged and reports "reload failed" for good (`registry.py:418`) |
| `Registry!NativesInSync` | `"sameSecond"` | two secrets stored in one second: the older stays mounted (`db.py:46`) |
| `CredentialTokens!RefreshIsNoChange` | any | a refresh moves `updated_at` and so rebuilds toolsets (`auth/upstream.py:328`) |
| `OAuthServer!CodeOnce` | `"conflict"` | another coroutine's ROLLBACK brings a code back that was exchanged (`provider.py:150`, `db.py:50`) |
| `Restore!ShownIsStaged` | `"sameSecond"` | a second upload within the second replaces the file that was reported on |
| `Restore!NeverEmptied`, `KeyFits` | `"sameSecond"` | the same before the second file has been inspected: one never booted, or under another key, is staged and booted (`snapshots.py:247`) |
| `Restore!StagedMeansStopping` | `"locked"` | the restore is staged, answered 500, and applied at some later restart |
| `Restore!CredentialReadable` | `"rotate"` | a refresh under way during a rotation writes its row under the old key; `docs/runbooks.md:76-78` excepts new credentials only |
| `Sheets!ReadsToTheEnd` | `CAP >= PAGE`, as shipped | a page of no more than the cap is not seen to be cut short: reading ends at row 2000, without the `next_range` of `DECISIONS.md:345` |
| `Sheets!ReadsToTheEnd`, `ReadsFar` | `"blank"` | blank rows at the end of what is fetched, be it the one row beyond the cap, end the reading |

Noticed while reading, outside what the models keep:

* `store/credentials.py:140-143`: two `update_meta` at once lose one's keys; a refresh
  under way during a change of the client secret writes the old secret back
  (`auth/upstream.py:321-327`).
* `gateway/proxy.py:206`: a drop between `_ready.set()` and the waiter's turn ends the
  call in an `AssertionError` (`Resume` has it); a health check that times out after 4 s, or
  gets an `MCPError`, drops the session under calls that have 25 s (`:209-217`).
* `gateway/registry.py:213`: a request that authenticated after the drain is answered
  500 or cut, since it was not counted.
* `store/db.py`: a rollback undoes any coroutine's statements; `OAuthServer` shows
  it for codes and tokens, and audit rows are exposed to it too (SPEC.md: "Every tool call written").
* `toolsets/unraid/__init__.py`: the call that finds a field known that it has not
  stripped fails (`:185`, against the docstring at `:178`); after 8 rounds a call
  fails though the next succeeds, while the health check, which begins anew each
  time, stays down with more than 8 such fields; "Every other root answered"
  (`:556-559`) is said although optional roots that failed otherwise were skipped.
  `DECISIONS.md:444` says a field comes back on the next reload, which keeps
  runtimes that are unchanged.
* `google/client.py:101-123`: an append whose answer is lost is sent again and may be there up
  to four times, of which `rows_appended` (`toolsets/sheets/__init__.py:298`) tells once;
  `AppendsBounded` is the limit.
* `toolsets/sheets/__init__.py:433`: row numbers found by one request are written to by another;
  when rows move in between, the write goes to rows of other keys, and nothing notices.
* `toolsets/sheets/shape.py:8-23`: suffixes given to duplicate headers can duplicate another header.

## Proofs

Checked by tlapm, for every value of the constants. Every theorem rests on the
`ASSUME`s of its module (the kinds of the constants, `None` outside the values it
is told from, names apart from each other); where one takes a further
hypothesis it is in its statement and below. In each module `IInv` is the
inductive invariant: it is shown to hold initially, to be kept by each action in
a lemma of its own, and to imply the properties.

**`RegistryProofs`.** `RoutedRunning` is not inductive: that a swap puts a live
runtime in depends on what the run has built, and that the stops spare it on what
it has put into `to_stop`. `IInv` adds: `LockInv`, the lock is held exactly during a
run, whose locals are empty before it has read; `TodoInv`, the loop still has to
do exactly the wanted keys without a new entry; `NewInv`, a new entry holds the
runtime just built or the mounted one, and one of them if something is mounted;
`StopInv`, before the swap only mounted runtimes with a built successor are marked
for a stop; `BuildInv`, the runtime under construction is there. From it follow
`TypeCorrect`, `RoutedRunningHolds` and, as an action property, `KeepServingHolds`.
`NativesInSyncHolds` takes the second invariant `SyncInv`, which follows each native
key through a run: what its runtime was built from agrees with the hash it was
built for, except that its secret may be later (`BuiltFor`); a key not edited since
the run began to read has in `desired` just what the database says (`SpecInv`);
stamps and secrets advance together (`StampInv`). The last is why the theorem
assumes `"sameSecond" \notin Faults`, and TLC shows that it must.
`LifeInv` accounts for every live runtime, of natives and proxies, whatever raises:
mounted, about to be, under construction, or marked for a stop (`AliveInv`), where
what has a successor is marked (`ReplacedInv`). With it `RuntimesLiveHolds` is the
refinement of `RuntimeLife`: `OutsideLeaves` shows that only a run changes what is
held, `LifeMoves` how far each of its actions takes a slot, and `LifeStep` that
every step of the registry is a step of `RuntimeLife` or a stutter.
Two properties that the exception of `rehash()` breaks are proved for
gateways without proxies (`ProxyKeys = {}`). For these `NativeInv` accounts for every
reported error (`ErrorInv`), from which `ErrorsAreCurrentHolds` follows. `EditsPromisedHolds` needs besides that until the watcher
starts nobody writes and only the boot reload runs (`BootInv`), and assumes
neither aborting handlers nor other processes: with either TLC refutes it.

**`ProxyRuntimeProofs`.** `SessionInv`: session and event are set and taken together,
while `_run` is in the session. `StopInv`: past the session manager `_stop` is set,
and a cancelled task cannot connect. `HeldInv`: who was inside at the swap never
comes in a second time. With `DropIsSeen` they are inductive, for any number of
calls and health checks; `DrainIsKeptHolds` is the action property they yield.

**`CredentialTokensProofs`.** `NeverReplaysReplaced` needs to know where each token
is. `LockInv`: whoever is past the lock holds it, and the cache is not fresh then.
`TokenInv`: the row's token, those callers hold and those they are about to store
are not among the replaced; a new grant's token is nobody else's until it is in
the row, so no refresh can replace it before. `StateInv`: a state is pending, or
with one callback, or done with. `StoreRefreshed` is the step that needs the lock,
`ExchangeCode` the one that needs tokens to be new.

**`OAuthServerProofs`.** The properties speak of the database, and a rollback may at
any time replace it: so each part of `IInv` speaks of `db` and of `saved`. `RowsInv`: codes
and tokens go with their client in both. `HalfInv`: what a rollback would bring
back is whole, and so will be what is half inserted. `RotateInv`: what is taken
out to be exchanged is gone. `IssueInv`: the number being inserted is new, since
only who holds the transaction (`LockInv`) inserts. `CodeInv`: a code is in the
database, or with exactly one request, or answered once. `CodesKeepPromiseHolds` is
the refinement: `FateShape` shows that a fate is one of the stages of `Grants` (so
no code is "done twice"), `CodeMoves` what a step may change of one code, and
`PromiseStep` that every step of the server is a step of `Grants` or a stutter.

**`AuditLogProofs`.** `PlaceInv` is what a run knows of a table that others only add
to: past its last batch of old rows there are none (`NoMoreOld`), past its last
batch at most the cap and what came since (`NoMoreExcess`), and between count and
delete the rows above the cap are still at least those counted. The lemmas
`Extremes`, `OldestCount` and `Deletion` show that the oldest n of a finite set are n
of them, `OldestFirst` that they leave no older one behind, from which `NoHolesHolds`
follows. Pruning is the only one to delete because the lock is held (`LockInv`).

**`RestoreProofs`.** `IInv` holds under all faults. `PlaceInv`: the database is away only
while a staged one is on its way in, and handlers and rotations work on one that is
there. `KeptInv`: the writes a confirm saw are in the database, then in its newest
snapshot, then in the one behind those taken since. `StagedInv`: who has staged is
about to end the process. `ReportInv` needs `"sameSecond" \notin Faults`: a token stands for
one file, the one that was reported on (`ShownInv`), so every database that is or may be
put in place has been booted (`KeyedInv`), until a rotation under the container's key
(`FitInv`). For `ReplacedAtOnceHolds` the database, what is staged and whether it is in use are given
names (`Database`, `Waiting`, `Opened`); `Seen` is the step of `DatabaseFile` they may take, a lemma per
group of actions shows that they take it, and `PlaceInv` is what makes the two steps of a boot one.
So `TypeCorrect`, `ReversibleHolds` and `ReplacedAtOnceHolds` assume nothing, `StagedMeansStoppingHolds`
`"locked" \notin Faults`, the others `"sameSecond" \notin Faults`; TLC refutes each without.

**`SheetsProofs`.** `ColumnsInverse` is about recursive functions, and the induction
theorems of the library cannot be used: instead `LeastNumber` shows that a set of
numbers has a least one, from the well-foundedness of finite sets, and each proof
looks at the least counterexample. It holds for names of any length; the checked
`ColumnsRoundTrip` is its case of up to three letters. `IInv`: each session's record is
of its kind (`SessionInv`), the rows it has found have its key unless rows moved
(`PlaceInv`), of the rows it has appended there are at most as many as attempts it
has made before this one, and one more once it has ended (`Accounted`), and those it has updated have its
key (`Keyed`); edits of others never add to its rows. So `AppendsBoundedHolds` and
`KeyedWritesHolds` assume nothing. `PageInv` (in `ReadInv`) adds that the rows above the next page have been
shown, and that a range in use is open or has `PAGE` rows and comes after a whole
cap of them. With it `ReadsFarHolds` says, for every cap, that reading does not end before the end
of the second page, and not before the last row if `CAP < PAGE`; it assumes that no
row is blank, and TLC refutes it otherwise.

**`UnraidProofs`.** `Truthful` ties a call's requests carried out to its answers lost and
what it says, at each point of its way; it is inductive on its own, for all calls,
retries and faults. `HealthInv` is what the check knows: `SoFar`, the roots that it has asked
are there and may be read while nothing changes; `RoundInv`, each round of an optional
query has found one more field to leave out. The latter is needed since a query that runs
out of rounds, or of fields, ends in a note: with a root of which as many fields overflow as
there are rounds `ok` would be said of what nobody has seen. `HealthIsTrueHolds` assumes
therefore `Foreseen`: of each optional root fewer fields may overflow than there are
rounds, and something is left of each selection set. The first holds of `queries.py:138-147`, where
the largest optional root has seven numbers and `query_raw` eight rounds; the second
fails only if all five numbers of a UPS' `power` overflow at once.

**Model-checked only:** the liveness properties (fairness and `ENABLED` are out of
the prover's reach): `Converges`, `CallsReturn`, `DeadGrantSurfaces`, `Recovers`,
`StopReturns`, `ComesBack`, `OverflowsEnd`.

## Plan

What is left, in the order of importance:

1. An abstract `ReloadRequests` (a request is followed by a run that begins after
   it), implemented by `Registry` without the exception of `rehash()`.
2. The teardown of `app.py` step by step with the budgets of `gateway/shutdown.py`,
   and the stop of all runtimes in `running()`, composed with `ProxyRuntime`.
3. The content of `meta` and of a proxy's lists, for the lost updates of
   `update_meta` and `sync_snapshot`; deletion of a credential in use.
4. Snapshots that fail or are listed and downloaded while they are pruned; the
   reads and the trimming of the prune log.
5. The registration guard and the token cache of `google/auth.py`.
