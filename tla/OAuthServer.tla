----------------------------- MODULE OAuthServer -----------------------------
(***************************************************************************)
(* Manifold as an OAuth server: auth/provider.py and the rows it keeps     *)
(* through auth/sqlite_store.py, with disconnect_all of api/settings.py.   *)
(*                                                                         *)
(* All statements go over the one connection of store/db.py, which commits *)
(* each at once unless somebody's BEGIN is open: then whatever any         *)
(* coroutine writes belongs to that transaction and is kept or undone with *)
(* it.  Those that open one are save_token_pair here, and create_proxy and  *)
(* rename of store/toolsets.py and create of store/credentials.py, of      *)
(* whose rows nothing is kept.                                             *)
(*                                                                         *)
(* A token pair is one number, in the order of issue; its two rows are     *)
(* members of db.access and db.refresh.  Hashes, scopes, PKCE, redirect    *)
(* addresses and resources are left out, and times reduced to which rows   *)
(* are past their expires_at.                                              *)
(***************************************************************************)
EXTENDS Integers, FiniteSets

CONSTANTS
    Clients,    \* client ids that register, each once
    Codes,      \* authorization codes, each issued once
    MaxPairs,   \* bound: token pairs that may be inserted
    Requests,   \* requests in progress at the token and revoke endpoints
    Faults,     \* which of FaultKinds may happen
    None

FaultKinds == {"conflict",   \* an admin creates or renames to a name that exists
               "crash"}      \* the process dies, and starts on the same file

ASSUME PairsAssumption == MaxPairs \in Nat \ {0}
ASSUME NamesAssumption ==
    /\ None \notin Clients \cup Requests
    /\ {"admin", "browser"} \cap (Requests \cup {None}) = {}
    /\ Clients \cap Codes = {} /\ (Clients \cup Codes) \cap (0..MaxPairs) = {}

VARIABLES
    db,         \* the rows: [clients, codes, access, refresh]
    txn,        \* who has a transaction open, or None
    saved,      \* the rows as they were at its BEGIN
    aged,       \* rows past their expires_at: [codes, access, refresh]
    pc,         \* where each coroutine stands
    arg,        \* the code, pair or client each is about, 0 for none
    owner,      \* the client of each code and pair, None before it is issued
    issued,     \* pairs numbered so far
    known,      \* history: clients that have ever registered
    answered,   \* history: <<code or pair exchanged, pair answered with>>
    forgotten,  \* history: clients there when disconnect_all answered
    restored    \* history: clients, codes and pairs that an undone
                \* transaction brought back

historyVars == <<known, answered, forgotten, restored>>
vars == <<db, txn, saved, aged, pc, arg, owner, issued, historyVars>>

Pairs == 1..MaxPairs
Rows == [clients : SUBSET Clients, codes : SUBSET Codes,
         access : SUBSET Pairs, refresh : SUBSET Pairs]
Procs == Requests \cup {"admin", "browser"}
RequestPCs == {"idle", "delete", "revoke", "withdraw", "forget",
               "begin", "access", "refresh", "commit", "rollback"}
Inserting == {"toolset", "rename", "credential"}
AdminPCs == {"idle", "clients", "tokens", "begin", "commit", "rollback"} \cup Inserting

TypeOK ==
    /\ db \in Rows /\ saved \in Rows
    /\ txn \in Requests \cup {"admin", None}
    /\ aged \in [codes : SUBSET Codes, access : SUBSET Pairs, refresh : SUBSET Pairs]
    /\ pc \in [Procs -> RequestPCs \cup AdminPCs \cup {"save"}]
    /\ arg \in [Procs -> Codes \cup Clients \cup 0..MaxPairs]
    /\ owner \in [Codes \cup Pairs -> Clients \cup {None}]
    /\ issued \in 0..MaxPairs
    /\ known \subseteq Clients /\ forgotten \subseteq Clients
    /\ answered \subseteq (Codes \cup Pairs) \X Pairs
    /\ restored \subseteq Clients \cup Codes \cup Pairs

NoRows == [clients |-> {}, codes |-> {}, access |-> {}, refresh |-> {}]

Init ==
    /\ db = NoRows /\ saved = NoRows /\ txn = None
    /\ aged = [codes |-> {}, access |-> {}, refresh |-> {}]
    /\ pc = [p \in Procs |-> "idle"]
    /\ arg = [p \in Procs |-> 0]
    /\ owner = [x \in Codes \cup Pairs |-> None]
    /\ issued = 0
    /\ known = {} /\ answered = {} /\ forgotten = {} /\ restored = {}

At(p, label, x) == pc' = [pc EXCEPT ![p] = label] /\ arg' = [arg EXCEPT ![p] = x]
Goto(p, label) == At(p, label, arg[p])
End(p) == At(p, "idle", 0)

-----------------------------------------------------------------------------
(* Statements. *)

\* Deleting a pair by the hash of either token: its row or its partner's.
WithoutPairs(rows, P) ==
    [rows EXCEPT !.access = @ \ P, !.refresh = @ \ P]

\* Seeded fault: an expired row goes without its partner.
SweptAlone(rows) ==
    [rows EXCEPT !.codes = @ \ aged.codes,
                 !.access = @ \ aged.access, !.refresh = @ \ aged.refresh]

\* An expired row takes its partner with it, whichever of the two it is.
Swept(rows) ==
    WithoutPairs([rows EXCEPT !.codes = @ \ aged.codes],
                 (aged.access \cap rows.access) \cup (aged.refresh \cap rows.refresh))

\* Seeded fault: the connection does not enforce foreign keys.
AnyInsertPasses(k) == TRUE

\* A code or token can only be inserted for a client that is there.
InsertPasses(k) == k \in db.clients

\* What an undone transaction brings back.
BroughtBack ==
    (saved.clients \ db.clients) \cup (saved.codes \ db.codes)
        \cup ((saved.access \cup saved.refresh) \ (db.access \cup db.refresh))

\* BEGIN.  While somebody's transaction is open it raises, outside the `try'.
Begin(p, next) ==
    /\ pc[p] = "begin"
    /\ IF txn = None
       THEN txn' = p /\ saved' = db /\ Goto(p, next)
       ELSE UNCHANGED <<txn, saved>> /\ End(p)
    /\ UNCHANGED <<db, aged, owner, issued, historyVars>>

Rollback(p) ==
    /\ pc[p] = "rollback"
    /\ db' = saved /\ txn' = None /\ saved' = NoRows
    /\ restored' = restored \cup BroughtBack
    /\ End(p)
    /\ UNCHANGED <<aged, owner, issued, known, answered, forgotten>>

-----------------------------------------------------------------------------
(* Registration and consent. *)

\* Assumed: between the two statements of clear() nobody registers, for then
\* nobody does so and is let in and has exchanged a code before the second.
Register(k) ==
    /\ k \notin known /\ pc["admin"] # "tokens"
    /\ known' = known \cup {k}
    /\ db' = [db EXCEPT !.clients = @ \cup {k}]
    /\ UNCHANGED <<txn, saved, aged, pc, arg, owner, issued, answered,
                   forgotten, restored>>

\* An admin's browser at /oauth/authorize: what has expired is swept first.
Sweep(k) ==
    /\ pc["browser"] = "idle" /\ k \in db.clients
    /\ db' = Swept(db)
    /\ IF \E c \in Codes : owner[c] = None
       THEN At("browser", "save", k) ELSE End("browser")   \* bound: no code left
    /\ UNCHANGED <<txn, saved, aged, owner, issued, historyVars>>

SaveCode(c) ==
    /\ pc["browser"] = "save"
    /\ owner[c] = None
    /\ IF InsertPasses(arg["browser"])
       THEN /\ db' = [db EXCEPT !.codes = @ \cup {c}]
            /\ owner' = [owner EXCEPT ![c] = arg["browser"]]
       ELSE UNCHANGED <<db, owner>>
    /\ End("browser")
    /\ UNCHANGED <<txn, saved, aged, issued, historyVars>>

-----------------------------------------------------------------------------
(* Requests at the token and revoke endpoints. *)

\* The pairs whose tokens somebody has.
Sent == {a[2] : a \in answered}

Take(r, x, label) ==
    /\ pc[r] = "idle"
    /\ At(r, label, x)
    /\ UNCHANGED <<db, txn, saved, aged, owner, issued, historyVars>>

\* The handler of the SDK looks the code up and checks its expiry itself.
LoadCode(r, c) == c \in db.codes \ aged.codes /\ Take(r, c, "delete")

LoadRefresh(r, p) ==
    /\ p \in db.refresh
    /\ Take(r, p, IF p \in aged.refresh THEN "forget" ELSE "revoke")

\* A tool call with an access token that has expired.
LoadAccess(r, p) == p \in db.access \cap aged.access /\ Take(r, p, "forget")

RevokeToken(r, p) == p \in db.access \cup db.refresh /\ Take(r, p, "withdraw")

\* Seeded fault: the number of rows deleted is not looked at.
DeleteBlindly(r) ==
    /\ pc[r] = "delete"
    /\ db' = [db EXCEPT !.codes = @ \ {arg[r]}]
    /\ Goto(r, "begin")
    /\ UNCHANGED <<txn, saved, aged, owner, issued, historyVars>>

\* exchange_authorization_code: only who has deleted the row goes on.
DeleteCode(r) ==
    /\ pc[r] = "delete"
    /\ db' = [db EXCEPT !.codes = @ \ {arg[r]}]
    /\ IF arg[r] \in db.codes THEN Goto(r, "begin") ELSE End(r)
    /\ UNCHANGED <<txn, saved, aged, owner, issued, historyVars>>

\* Seeded fault: an exchange takes the refresh token out and not its partner.
RevokesAlone(r) ==
    /\ pc[r] \in {"revoke", "withdraw", "forget"}
    /\ IF pc[r] = "revoke"
       THEN db' = [db EXCEPT !.refresh = @ \ {arg[r]}] /\ Goto(r, "begin")
       ELSE db' = WithoutPairs(db, {arg[r]}) /\ End(r)
    /\ UNCHANGED <<txn, saved, aged, owner, issued, historyVars>>

\* The pair goes: to be replaced by another, or for good.
Revoke(r) ==
    /\ pc[r] \in {"revoke", "withdraw", "forget"}
    /\ db' = WithoutPairs(db, {arg[r]})
    /\ IF pc[r] = "revoke" THEN Goto(r, "begin") ELSE End(r)
    /\ UNCHANGED <<txn, saved, aged, owner, issued, historyVars>>

InsertAccess(r) ==
    /\ pc[r] = "access"
    /\ issued' = issued + 1
    /\ owner' = [owner EXCEPT ![issued'] = owner[arg[r]]]
    /\ IF InsertPasses(owner[arg[r]])
       THEN db' = [db EXCEPT !.access = @ \cup {issued'}] /\ Goto(r, "refresh")
       ELSE UNCHANGED db /\ Goto(r, "rollback")
    /\ UNCHANGED <<txn, saved, aged, historyVars>>

InsertRefresh(r) ==
    /\ pc[r] = "refresh"
    /\ IF InsertPasses(owner[arg[r]])
       THEN db' = [db EXCEPT !.refresh = @ \cup {issued}] /\ Goto(r, "commit")
       ELSE UNCHANGED db /\ Goto(r, "rollback")
    /\ UNCHANGED <<txn, saved, aged, owner, issued, historyVars>>

\* COMMIT, and the answer with the tokens.
Commit(r) ==
    /\ pc[r] = "commit"
    /\ txn' = None /\ saved' = NoRows
    /\ answered' = answered \cup {<<arg[r], issued>>}
    /\ End(r)
    /\ UNCHANGED <<db, aged, owner, issued, known, forgotten, restored>>

-----------------------------------------------------------------------------
(* The admin. *)

AdminStarts ==
    /\ pc["admin"] = "idle"
    /\ \E label \in {"clients", "begin"} : Goto("admin", label)
    /\ UNCHANGED <<db, txn, saved, aged, owner, issued, historyVars>>

\* disconnect_all: deleting the clients takes their codes and tokens along.
ClearClients ==
    /\ pc["admin"] = "clients"
    /\ db' = NoRows
    /\ Goto("admin", "tokens")
    /\ forgotten' = forgotten \cup db.clients
    /\ UNCHANGED <<txn, saved, aged, owner, issued, known, answered, restored>>

ClearTokens ==
    /\ pc["admin"] = "tokens"
    /\ db' = [db EXCEPT !.codes = {}, !.access = {}, !.refresh = {}]
    /\ End("admin")
    /\ UNCHANGED <<txn, saved, aged, owner, issued, historyVars>>

\* What an admin inserts goes in, or fails because the name exists.
Inserts(label) ==
    /\ pc["admin"] = label
    /\ \/ Goto("admin", "commit")
       \/ "conflict" \in Faults /\ Goto("admin", "rollback")
    /\ UNCHANGED <<db, txn, saved, aged, owner, issued, historyVars>>

\* create_proxy: the API answers a key that exists with 409.
CreateProxy == Inserts("toolset")

\* rename copies the row under its new key and deletes the old one.
RenameToolset == Inserts("rename")

\* CredentialsRepo.create, whose names are unique.
CreateCredential == Inserts("credential")

\* COMMIT of any of them.
CommitInserted ==
    /\ pc["admin"] = "commit"
    /\ txn' = None /\ saved' = NoRows
    /\ End("admin")
    /\ UNCHANGED <<db, aged, owner, issued, historyVars>>

-----------------------------------------------------------------------------
(* Time and the process. *)

\* A refresh token (30 days) outlives its access token (1 hour), and an access
\* token the request that issues it.
Expire ==
    /\ \/ \E c \in db.codes : aged' = [aged EXCEPT !.codes = @ \cup {c}]
       \/ \E p \in Sent \cap (db.access \cup db.refresh) :
             IF p \in aged.access
             THEN aged' = [aged EXCEPT !.refresh = @ \cup {p}]
             ELSE aged' = [aged EXCEPT !.access = @ \cup {p}]
    /\ UNCHANGED <<db, txn, saved, pc, arg, owner, issued, historyVars>>

\* An open transaction dies with the process.
Crash ==
    /\ "crash" \in Faults
    /\ db' = IF txn = None THEN db ELSE saved
    /\ restored' = IF txn = None THEN restored ELSE restored \cup BroughtBack
    /\ txn' = None /\ saved' = NoRows
    /\ pc' = [p \in Procs |-> "idle"] /\ arg' = [p \in Procs |-> 0]
    /\ UNCHANGED <<aged, owner, issued, known, answered, forgotten>>

-----------------------------------------------------------------------------
RequestStep(r) ==
    \/ DeleteCode(r) \/ Revoke(r) \/ (issued < MaxPairs /\ Begin(r, "access")) \/ InsertAccess(r)
    \/ InsertRefresh(r) \/ Commit(r) \/ Rollback(r)

AdminStep ==
    \/ ClearClients \/ ClearTokens
    \/ \E label \in Inserting : Begin("admin", label)
    \/ CreateProxy \/ RenameToolset \/ CreateCredential
    \/ CommitInserted \/ Rollback("admin")

Next ==
    \/ \E r \in Requests :
          \/ RequestStep(r)
          \/ \E c \in Codes : LoadCode(r, c)
          \/ \E p \in Sent : LoadRefresh(r, p) \/ LoadAccess(r, p) \/ RevokeToken(r, p)
    \/ \E k \in Clients : Register(k) \/ Sweep(k)
    \/ \E c \in Codes : SaveCode(c)
    \/ AdminStarts \/ AdminStep
    \/ Expire \/ Crash

Spec == Init /\ [][Next]_vars

-----------------------------------------------------------------------------
(* Properties. *)

\* An access token and its refresh token come and go together, whatever is
\* swept, revoked or cleared meanwhile, but for an insert half done and for
\* clients that an undone transaction brought back (SPEC.md:218: "revoking one
\* revokes its partner").
PairsWhole == \A p \in Pairs :
    \/ p \in db.access <=> p \in db.refresh
    \/ \E r \in Requests : txn = r /\ issued = p /\ pc[r] = "refresh"
    \/ owner[p] \in restored

\* A pair that has been exchanged for another is worth nothing any more, whoever
\* else exchanges, sweeps or loads it meanwhile (SPEC.md:218: "both rotate on
\* refresh"), unless an undone transaction brought it back.
RotatedGone ==
    \A a \in answered :
        a[1] \in db.access \cup db.refresh => a[1] \in restored

\* No token of a client that disconnect_all has removed is valid, even if its
\* exchange was under way, unless an undone transaction brought the client back
\* (auth/store.py:39: "Forget every client, code and token").
DisconnectHolds ==
    \A x \in db.codes \cup db.access \cup db.refresh :
        owner[x] \in forgotten => owner[x] \in restored

\* An open transaction has somebody who is about to end it; left open, it
\* would make every later BEGIN raise.
TxnEnds ==
    txn # None => pc[txn] \in {"access", "refresh", "commit", "rollback"} \cup Inserting

\* Provided no transaction is undone that others' statements fell into, codes
\* keep what Grants promises (provider.py:150-151).
Answers(c) == {p \in Pairs : <<c, p>> \in answered}
Fate(c) ==
    IF c \in restored THEN "void"
    ELSE IF owner[c] = None THEN "unused"
    ELSE IF Cardinality(Answers(c)) > 1 THEN "done twice"
    ELSE IF Answers(c) # {} THEN "done"
    ELSE IF c \in db.codes THEN "live" ELSE "gone"

Promised == INSTANCE Grants WITH grant <- [c \in Codes |-> Fate(c)]
CodesKeepPromise == Promised!Spec

\* A code is exchanged for tokens once (provider.py:151: "authorization code
\* already used").
CodeOnce == \A c \in Codes : Cardinality(Answers(c)) <= 1

\* A refresh token is there for its thirty days unless it is exchanged or
\* revoked or its client disconnected (SPEC.md:218: "Access tokens live one
\* hour, refresh tokens thirty days").
RefreshLives ==
    [][\A p \in db.refresh \ db'.refresh :
          \/ p \in aged.refresh
          \/ \E r \in Requests : arg[r] = p /\ pc[r] \in {"revoke", "withdraw"}
          \/ pc["admin"] \in {"clients", "tokens"}
          \/ txn # None /\ p \notin saved.refresh]_vars
=============================================================================
