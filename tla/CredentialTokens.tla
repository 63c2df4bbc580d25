-------------------------- MODULE CredentialTokens --------------------------
(***************************************************************************)
(* The tokens of one oauth2 credential: auth/upstream.py (UpstreamOAuth,   *)
(* which finishes a connect, and TokenManager, which refreshes), the row   *)
(* of store/credentials.py they write, and patch_credential of             *)
(* api/credentials.py, which takes the tokens away.                        *)
(*                                                                         *)
(* All run on one asyncio loop and every statement on the row is awaited   *)
(* on its own, so any other handler may run between two of them.  Only the *)
(* callers of access_token() share a lock.                                 *)
(*                                                                         *)
(* Of the row's values only the tokens are kept, of meta nothing: a write  *)
(* of it shows in updated_at alone.  Refresh tokens are numbered in the    *)
(* order in which the provider issues them, 0 stands for none; of an       *)
(* access token only its age matters.                                      *)
(***************************************************************************)
EXTENDS Integers

CONSTANTS
    Callers,      \* tool calls that ask for an access token
    Callbacks,    \* requests to /oauth/callback
    States,       \* rows of oauth_state the admin's connects may create
    MaxRefresh,   \* bound: refresh tokens the provider issues
    MaxOutages,   \* bound: how often the provider does not answer
    Faults,       \* which of FaultKinds may happen
    None

FaultKinds == {"revoke",   \* the user or the provider withdraws a grant
               "lost",     \* a refresh took effect but its answer is lost
               "restart"}  \* the process stops, and starts on the same row

ASSUME CountsAssumption == MaxRefresh \in Nat \ {0} /\ MaxOutages \in Nat
ASSUME ProcsAssumption ==
    /\ Callers \cap Callbacks = {}
    /\ "admin" \notin Callers \cup Callbacks
    /\ None \notin Callers \cup States

VARIABLES
    values,         \* the row: [refresh, access]
    status,         \* the row: its status column
    pending,        \* the oauth_state rows
    lock,           \* the caller inside `async with lock', or None
    cache,          \* TokenManager._cache
    pc,             \* where each handler stands
    seen,           \* callers: the refresh token read from the row
    got,            \* the refresh token in the provider's answer
    state,          \* callbacks: the state consumed
    issued,         \* the provider: refresh tokens issued
    dead,           \* the provider: those it no longer accepts
    outages,
    replaced,       \* history: refresh tokens a refresh replaced in the row
    connected,      \* history: states whose code was exchanged
    refresh_bumped  \* history: a token refresh has moved updated_at

rowVars == <<values, status>>
providerVars == <<issued, dead, outages>>
historyVars == <<replaced, connected, refresh_bumped>>
vars == <<values, status, pending, lock, cache, pc, seen, got, state, issued,
          dead, outages, replaced, connected, refresh_bumped>>

Refresh == 0..MaxRefresh
Ages == {"none", "fresh", "old"}   \* old: within REFRESH_MARGIN of expiry
Statuses == {"unconnected", "ok", "reconnect_required", "scopes_changed"}
Procs == Callers \cup Callbacks \cup {"admin"}
CallerPCs == {"idle", "waiting", "read", "summary", "no_token", "post",
              "store", "bump", "rejected"}
CallbackPCs == {"idle", "exchange", "values", "status"}
AdminPCs == {"idle", "values", "status"}

TypeOK ==
    /\ values \in [refresh : Refresh, access : Ages]
    /\ status \in Statuses
    /\ pending \subseteq States
    /\ lock \in Callers \cup {None}
    /\ cache \in Ages
    /\ pc \in [Procs -> CallerPCs \cup CallbackPCs \cup AdminPCs]
    /\ seen \in [Callers -> Refresh]
    /\ got \in [Callers \cup Callbacks -> Refresh]
    /\ state \in [Callbacks -> States \cup {None}]
    /\ issued \in Refresh /\ dead \subseteq 1..issued
    /\ outages \in 0..MaxOutages
    /\ replaced \subseteq 1..MaxRefresh
    /\ connected \subseteq States
    /\ refresh_bumped \in BOOLEAN

\* The process starts on a row as created, or as a connect of old has left it.
Init ==
    /\ \/ /\ values = [refresh |-> 0, access |-> "none"]
          /\ status = "unconnected" /\ issued = 0
       \/ /\ values = [refresh |-> 1, access |-> "old"]
          /\ status = "ok" /\ issued = 1
    /\ pending = {} /\ lock = None /\ cache = "none"
    /\ pc = [p \in Procs |-> "idle"]
    /\ seen = [c \in Callers |-> 0]
    /\ got = [p \in Callers \cup Callbacks |-> 0]
    /\ state = [b \in Callbacks |-> None]
    /\ dead = {} /\ outages = 0
    /\ replaced = {} /\ connected = {} /\ refresh_bumped = FALSE

Goto(p, label) == pc' = [pc EXCEPT ![p] = label]

-----------------------------------------------------------------------------
(* TokenManager.access_token and _refresh. *)

\* The cache has no token that will do: the caller goes for the lock.
Call(c) ==
    /\ pc[c] = "idle" /\ cache # "fresh"
    /\ Goto(c, "waiting")
    /\ UNCHANGED <<rowVars, pending, lock, cache, seen, got, state, providerVars,
                   historyVars>>

\* Seeded fault: nobody waits for anybody.
MayEnterAtOnce == TRUE

MayEnter == lock = None

\* With the lock the cache is looked at again, for it may have been filled by
\* the caller before.
Enter(c) ==
    /\ pc[c] = "waiting" /\ MayEnter
    /\ IF cache = "fresh"
       THEN Goto(c, "idle") /\ UNCHANGED lock
       ELSE Goto(c, "read") /\ lock' = c
    /\ UNCHANGED <<rowVars, pending, cache, seen, got, state, providerVars,
                   historyVars>>

\* Seeded fault: a caller that raises keeps the lock.
LeaveLocked(c) == Goto(c, "idle") /\ UNCHANGED lock

\* The call returns or raises; `async with' lets the lock go.
Leave(c) == Goto(c, "idle") /\ lock' = None

\* A token in the row that is still good is taken over into the cache.
ReadValues(c) ==
    /\ pc[c] = "read"
    /\ seen' = [seen EXCEPT ![c] = values.refresh]
    /\ IF values.access = "fresh"
       THEN cache' = "fresh" /\ Leave(c)
       ELSE Goto(c, "summary") /\ UNCHANGED <<cache, lock>>
    /\ UNCHANGED <<rowVars, pending, got, state, providerVars, historyVars>>

ReadSummary(c) ==
    /\ pc[c] = "summary"
    /\ CASE status # "ok" -> Leave(c)
         [] status = "ok" /\ seen[c] = 0 -> Goto(c, "no_token") /\ UNCHANGED lock
         [] OTHER -> Goto(c, "post") /\ UNCHANGED lock
    /\ UNCHANGED <<rowVars, pending, cache, seen, got, state, providerVars,
                   historyVars>>

\* The row has no refresh token: the admin has to connect again.
MarkNoToken(c) ==
    /\ pc[c] = "no_token"
    /\ status' = "reconnect_required"
    /\ Leave(c)
    /\ UNCHANGED <<values, pending, cache, seen, got, state, providerVars,
                   historyVars>>

\* The provider accepts the refresh token and may issue another in its place.
ProviderRefreshes(r) ==
    /\ r \notin dead
    /\ \/ UNCHANGED <<issued, dead>>
       \/ /\ issued < MaxRefresh
          /\ issued' = issued + 1 /\ dead' = dead \cup {r}

RefreshAnswered(c) ==
    /\ pc[c] = "post"
    /\ ProviderRefreshes(seen[c])
    /\ got' = [got EXCEPT ![c] = IF issued' = issued THEN seen[c] ELSE issued']
    /\ Goto(c, "store")
    /\ UNCHANGED <<rowVars, pending, lock, cache, seen, state, outages, historyVars>>

RefreshRejected(c) ==
    /\ pc[c] = "post"
    /\ seen[c] \in dead
    /\ Goto(c, "rejected")
    /\ UNCHANGED <<rowVars, pending, lock, cache, seen, got, state, providerVars,
                   historyVars>>

\* No answer, or a 5xx: the call raises and nothing is written here, whatever
\* the provider has done.
RefreshFails(c) ==
    /\ pc[c] = "post"
    /\ outages < MaxOutages /\ outages' = outages + 1
    /\ \/ UNCHANGED <<issued, dead>>
       \/ "lost" \in Faults /\ ProviderRefreshes(seen[c])
    /\ Leave(c)
    /\ UNCHANGED <<rowVars, pending, cache, seen, got, state, historyVars>>

\* update_values(..., token_refresh=True): all values are written, from those
\* read before the request.
StoreRefreshed(c) ==
    /\ pc[c] = "store"
    /\ values' = [refresh |-> got[c], access |-> "fresh"]
    /\ replaced' = IF got[c] # seen[c] THEN replaced \cup {seen[c]} ELSE replaced
    /\ Goto(c, "bump")
    /\ UNCHANGED <<status, pending, lock, cache, seen, got, state, providerVars,
                   connected, refresh_bumped>>

\* update_meta({"expires_at": ...}) goes through _update, which sets updated_at.
\* Then the token is cached.
BumpAndCache(c) ==
    /\ pc[c] = "bump"
    /\ refresh_bumped' = TRUE
    /\ cache' = "fresh"
    /\ Leave(c)
    /\ UNCHANGED <<rowVars, pending, seen, got, state, providerVars, replaced,
                   connected>>

\* Seeded fault: a rejected refresh token is not noted in the row.
RejectUnmarked(c) ==
    /\ pc[c] = "rejected"
    /\ cache' = "none"
    /\ Leave(c)
    /\ UNCHANGED <<rowVars, pending, seen, got, state, providerVars, historyVars>>

MarkRejected(c) ==
    /\ pc[c] = "rejected"
    /\ cache' = "none"
    /\ status' = "reconnect_required"
    /\ Leave(c)
    /\ UNCHANGED <<values, pending, seen, got, state, providerVars, historyVars>>

-----------------------------------------------------------------------------
(* UpstreamOAuth. *)

\* start_connect, up to the redirect.  The browser may come back any time, more
\* than once, or never.
StartConnect(s) ==
    /\ s \notin pending \cup connected
    /\ \A b \in Callbacks : state[b] # s
    /\ pending' = pending \cup {s}
    /\ UNCHANGED <<rowVars, lock, cache, pc, seen, got, state, providerVars,
                   historyVars>>

\* Seeded fault: the state is looked up but not deleted.
LookUpState(s) == UNCHANGED pending

\* DELETE ... RETURNING: found at most once.
ConsumeState(s) == pending' = pending \ {s}

\* handle_callback with a state that is there: too old, without a code, or on
\* its way to the token endpoint.  Any other callback is refused and changes
\* nothing.
ReceiveCallback(b) ==
    /\ pc[b] = "idle"
    /\ \E s \in pending :
          /\ ConsumeState(s)
          /\ \/ UNCHANGED <<pc, state>>
             \/ Goto(b, "exchange") /\ state' = [state EXCEPT ![b] = s]
    /\ UNCHANGED <<rowVars, lock, cache, seen, got, providerVars, historyVars>>

EndCallback(b) == Goto(b, "idle") /\ state' = [state EXCEPT ![b] = None]

\* The code is exchanged for tokens of a new grant.
ExchangeCode(b) ==
    /\ pc[b] = "exchange"
    /\ issued < MaxRefresh /\ issued' = issued + 1
    /\ got' = [got EXCEPT ![b] = issued']
    /\ connected' = connected \cup {state[b]}
    /\ Goto(b, "values")
    /\ UNCHANGED <<rowVars, pending, lock, cache, seen, state, dead, outages,
                   replaced, refresh_bumped>>

\* Refused, unreachable, or no refresh token in the answer.
ExchangeFails(b) ==
    /\ pc[b] = "exchange"
    /\ EndCallback(b)
    /\ UNCHANGED <<rowVars, pending, lock, cache, seen, got, providerVars,
                   historyVars>>

StoreConnected(b) ==
    /\ pc[b] = "values"
    /\ values' = [refresh |-> got[b], access |-> "fresh"]
    /\ Goto(b, "status")
    /\ UNCHANGED <<status, pending, lock, cache, seen, got, state, providerVars,
                   historyVars>>

SetOk(b) ==
    /\ pc[b] = "status"
    /\ status' = "ok"
    /\ EndCallback(b)
    /\ UNCHANGED <<values, pending, lock, cache, seen, got, providerVars,
                   historyVars>>

-----------------------------------------------------------------------------
(* patch_credential with another client secret or other scopes.  Both write *)
(* the values without tokens, then the status, then forget the cache.       *)

BeginPatch ==
    /\ pc["admin"] = "idle"
    /\ Goto("admin", "values")
    /\ UNCHANGED <<rowVars, pending, lock, cache, seen, got, state, providerVars,
                   historyVars>>

DropTokens ==
    /\ pc["admin"] = "values"
    /\ values' = [refresh |-> 0, access |-> "none"]
    /\ Goto("admin", "status")
    /\ UNCHANGED <<status, pending, lock, cache, seen, got, state, providerVars,
                   historyVars>>

SetScopesChanged ==
    /\ pc["admin"] = "status"
    /\ status' = "scopes_changed"
    /\ cache' = "none"
    /\ Goto("admin", "idle")
    /\ UNCHANGED <<values, pending, lock, seen, got, state, providerVars,
                   historyVars>>

-----------------------------------------------------------------------------
(* The environment. *)

\* An hour goes by.  Tokens still under way are taken to arrive in time.
TimePasses ==
    /\ "fresh" \in {values.access, cache}
    /\ values' = [values EXCEPT !.access = IF @ = "fresh" THEN "old" ELSE @]
    /\ cache' = IF cache = "fresh" THEN "old" ELSE cache
    /\ UNCHANGED <<status, pending, lock, pc, seen, got, state, providerVars,
                   historyVars>>

Revoke ==
    /\ "revoke" \in Faults
    /\ \E r \in (1..issued) \ dead : dead' = dead \cup {r}
    /\ UNCHANGED <<rowVars, pending, lock, cache, pc, seen, got, state, issued,
                   outages, historyVars>>

Restart ==
    /\ "restart" \in Faults
    /\ pc' = [p \in Procs |-> "idle"]
    /\ state' = [b \in Callbacks |-> None]
    /\ lock' = None /\ cache' = "none"
    /\ UNCHANGED <<rowVars, pending, seen, got, providerVars, historyVars>>

-----------------------------------------------------------------------------
Inside(c) ==
    \/ Enter(c) \/ ReadValues(c) \/ ReadSummary(c) \/ MarkNoToken(c)
    \/ RefreshAnswered(c) \/ RefreshRejected(c) \/ RefreshFails(c)
    \/ StoreRefreshed(c) \/ BumpAndCache(c) \/ MarkRejected(c)

CallbackStep(b) ==
    \/ ExchangeCode(b) \/ ExchangeFails(b) \/ StoreConnected(b) \/ SetOk(b)

Next ==
    \/ \E c \in Callers : Call(c) \/ Inside(c)
    \/ \E s \in States : StartConnect(s)
    \/ \E b \in Callbacks : ReceiveCallback(b) \/ CallbackStep(b)
    \/ BeginPatch \/ DropTokens \/ SetScopesChanged
    \/ TimePasses \/ Revoke \/ Restart

\* A coroutine that can go on does; the provider answers or the request times
\* out; asyncio.Lock serves its waiters in turn; time passes.
Fairness ==
    /\ \A c \in Callers : WF_vars(Inside(c)) /\ SF_vars(Enter(c))
    /\ \A b \in Callbacks : WF_vars(CallbackStep(b))
    /\ WF_vars(DropTokens) /\ WF_vars(SetScopesChanged)
    /\ WF_vars(TimePasses)

Spec == Init /\ [][Next]_vars
FairSpec == Spec /\ Fairness

-----------------------------------------------------------------------------
(* Properties. *)

\* Refreshes are coalesced: nobody sends a refresh while there is a cached
\* token that will do (upstream.py:262-263: "the second one finds the fresh
\* token in the cache when the first finishes").
Coalesced ==
    [][\A c \in Callers : pc[c] # "post" /\ pc'[c] = "post" => cache # "fresh"]_vars

\* With a provider that rotates refresh tokens, one that a refresh has replaced
\* in the row is not presented again: that would have the grant revoked
\* (upstream.py:287-310, read and use of the token under one lock).
NeverReplaysReplaced ==
    \A c \in Callers : pc[c] = "post" => seen[c] \notin replaced

\* A state takes one callback to the token endpoint, however often the browser
\* comes back with it (upstream.py:149: "a replayed callback can never touch the
\* stored token").
StateUsedOnce ==
    \A b \in Callbacks : pc[b] = "exchange" =>
        /\ state[b] \notin pending \cup connected
        /\ \A d \in Callbacks \ {b} : state[d] # state[b]

\* A caller that has to wait gets its answer (upstream.py:283).
CallsReturn == \A c \in Callers : pc[c] = "waiting" ~> pc[c] = "idle"

\* A row that says ok without a refresh token the provider accepts is found out
\* if tools go on calling: whatever patches, callbacks and refreshes did to one
\* another, the admin will be told (upstream.py:299-318).
DeadGrantSurfaces ==
    (\A c \in Callers : []<>(pc[c] # "idle" \/ cache = "fresh"))
        => ((status = "ok" /\ values.refresh \in dead \cup {0})
              ~> (status # "ok" \/ values.refresh \notin dead \cup {0}))

NobodyWrites == \A p \in Procs : pc[p] = "idle"

\* Once new scopes or a new secret are in, no token obtained under the old ones
\* is left in the row or handed out (api/credentials.py:135, 148).
TokensDropped ==
    NobodyWrites /\ status = "scopes_changed" => values.refresh = 0 /\ cache = "none"

\* A refresh is no change of configuration: it leaves updated_at, and with it
\* the content hash, alone (credentials.py:123-124).
RefreshIsNoChange == ~refresh_bumped
=============================================================================
