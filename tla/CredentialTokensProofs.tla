----------------------- MODULE CredentialTokensProofs -----------------------
(***************************************************************************)
(* Theorems about CredentialTokens, for any sets of callers, callbacks and *)
(* states, any number of refreshes and outages, and all faults.            *)
(***************************************************************************)
EXTENDS CredentialTokens, TLAPS

Section == {"read", "summary", "no_token", "post", "store", "bump", "rejected"}
Holding == {"summary", "no_token", "post", "store", "rejected"}

\* Who is inside the section has the lock, and went in for want of a token.
LockInv ==
    \A c \in Callers : pc[c] \in Section => lock = c /\ cache # "fresh"

\* The row's refresh token, those callers work with and those on their way to
\* the row are issued (or none) and not replaced.
CallerInv(c) ==
    /\ pc[c] \in Holding => seen[c] \in (0..issued) \ replaced
    /\ pc[c] \in {"post", "store"} => seen[c] # 0
    /\ pc[c] = "store" => got[c] \in (1..issued) \ replaced

\* The token of a new grant is nobody else's until it is stored.
CallbackInv(b) ==
    pc[b] = "values" =>
        /\ got[b] \in (1..issued) \ replaced
        /\ got[b] # values.refresh
        /\ \A c \in Callers : /\ pc[c] \in Holding => seen[c] # got[b]
                              /\ pc[c] = "store" => got[c] # got[b]
        /\ \A d \in Callbacks \ {b} : pc[d] = "values" => got[d] # got[b]

TokenInv ==
    /\ replaced \subseteq 1..issued
    /\ values.refresh \in (0..issued) \ replaced
    /\ \A c \in Callers : CallerInv(c)
    /\ \A b \in Callbacks : CallbackInv(b)

\* A state is pending, with one callback, or done with.
StateInv ==
    /\ pending \cap connected = {}
    /\ \A b \in Callbacks :
          /\ state[b] \notin pending
          /\ pc[b] = "exchange" => state[b] \in States \ connected
          /\ \A d \in Callbacks \ {b} : state[b] # None => state[d] # state[b]

IInv == TypeOK /\ LockInv /\ TokenInv /\ StateInv

-----------------------------------------------------------------------------
\* The range of pc.
Labels == CallerPCs \cup CallbackPCs \cup AdminPCs

USE DEF Goto

USE DEF TypeOK, Refresh, Ages, Statuses, Procs, Labels, CallerPCs, CallbackPCs,
        AdminPCs, rowVars, providerVars, historyVars

(* Facts the steps below share. *)

\* What a caller presents to the provider is a token it has issued and that no
\* refresh has replaced.
LEMMA PresentsIssued ==
    ASSUME TypeOK, TokenInv, NEW c \in Callers, pc[c] \in {"post", "store"}
    PROVE  seen[c] \in (1..issued) \ replaced
BY DEF TokenInv, CallerInv, Holding

\* A refresh keeps to the bound on the tokens issued.
LEMMA IssuesInBounds ==
    ASSUME TypeOK, NEW r \in 1..issued, ProviderRefreshes(r)
    PROVE  issued' \in Refresh /\ issued <= issued' /\ dead' \subseteq 1..issued'
<1>1. CASE UNCHANGED <<issued, dead>>
  BY <1>1
<1>2. CASE issued < MaxRefresh /\ issued' = issued + 1 /\ dead' = dead \cup {r}
  <2>1. issued' \in Refresh /\ issued <= issued'
    BY <1>2, CountsAssumption
  <2>2. ASSUME NEW t \in dead' PROVE t \in 1..issued'
    BY <1>2, CountsAssumption
  <2> QED
    BY <2>1, <2>2
<1> QED
  BY <1>1, <1>2 DEF ProviderRefreshes

-----------------------------------------------------------------------------
(* The inductive invariant holds in the beginning and every step keeps it. *)

\* The row is empty, or holds the one token issued.
LEMMA Start == Init => IInv
<1> SUFFICES ASSUME Init PROVE IInv
  OBVIOUS
<1>1. TypeOK
  <2>1. 0 \in Refresh /\ 1 \in Refresh /\ 0 \in 0..MaxOutages
    BY CountsAssumption
  <2>2. values \in [refresh : Refresh, access : Ages] /\ status \in Statuses
    BY <2>1 DEF Init
  <2>3. issued \in Refresh /\ dead \subseteq 1..issued /\ outages \in 0..MaxOutages
    BY <2>1 DEF Init
  <2>4. /\ pc \in [Procs -> Labels] /\ seen \in [Callers -> Refresh]
        /\ got \in [Callers \cup Callbacks -> Refresh]
        /\ state \in [Callbacks -> States \cup {None}]
    BY <2>1 DEF Init
  <2> QED
    BY <2>2, <2>3, <2>4 DEF Init
<1>2. \A p \in Procs : pc[p] = "idle"
  BY DEF Init
<1>3. LockInv
  BY <1>2 DEF LockInv, Section
<1>4. TokenInv
  BY <1>2 DEF Init, TokenInv, CallerInv, CallbackInv, Holding
<1>5. StateInv
  BY <1>2 DEF Init, StateInv
<1> QED
  BY <1>1, <1>3, <1>4, <1>5 DEF IInv

\* Every step keeps the types; the bound on the tokens issued needs TokenInv, the
\* states need StateInv.
LEMMA TypeStep ==
    ASSUME TypeOK, TokenInv, StateInv, [Next]_vars
    PROVE  TypeOK'
<1>1. ASSUME NEW c \in Callers, Call(c) PROVE TypeOK'
  BY <1>1 DEF Call
<1>2. ASSUME NEW c \in Callers, Enter(c) PROVE TypeOK'
  BY <1>2 DEF Enter, MayEnter
<1>3. ASSUME NEW c \in Callers, ReadValues(c) PROVE TypeOK'
  BY <1>3 DEF ReadValues, Leave
<1>4. ASSUME NEW c \in Callers, ReadSummary(c) PROVE TypeOK'
  BY <1>4 DEF ReadSummary, Leave
<1>5. ASSUME NEW c \in Callers, MarkNoToken(c) PROVE TypeOK'
  BY <1>5 DEF MarkNoToken, Leave
<1>6. ASSUME NEW c \in Callers, RefreshAnswered(c) PROVE TypeOK'
  <2>1. seen[c] \in 1..issued
    BY <1>6, PresentsIssued DEF RefreshAnswered
  <2>2. issued' \in Refresh /\ issued <= issued' /\ dead' \subseteq 1..issued'
    BY <1>6, <2>1, IssuesInBounds DEF RefreshAnswered
  <2>3. got' \in [Callers \cup Callbacks -> Refresh]
    BY <1>6, <2>1, <2>2 DEF RefreshAnswered
  <2> QED
    BY <1>6, <2>2, <2>3 DEF RefreshAnswered
<1>7. ASSUME NEW c \in Callers, RefreshRejected(c) PROVE TypeOK'
  BY <1>7 DEF RefreshRejected
<1>8. ASSUME NEW c \in Callers, RefreshFails(c) PROVE TypeOK'
  <2>1. seen[c] \in 1..issued
    BY <1>8, PresentsIssued DEF RefreshFails
  <2>2. issued' \in Refresh /\ dead' \subseteq 1..issued'
    BY <1>8, <2>1, IssuesInBounds DEF RefreshFails
  <2>3. outages' \in 0..MaxOutages
    BY <1>8, CountsAssumption DEF RefreshFails
  <2> QED
    BY <1>8, <2>2, <2>3 DEF RefreshFails, Leave
<1>9. ASSUME NEW c \in Callers, StoreRefreshed(c) PROVE TypeOK'
  <2>1. seen[c] \in 1..MaxRefresh
    BY <1>9, PresentsIssued DEF StoreRefreshed
  <2>2. replaced' \subseteq 1..MaxRefresh
    BY <1>9, <2>1 DEF StoreRefreshed
  <2> QED
    BY <1>9, <2>2 DEF StoreRefreshed
<1>10. ASSUME NEW c \in Callers, BumpAndCache(c) PROVE TypeOK'
  BY <1>10 DEF BumpAndCache, Leave
<1>11. ASSUME NEW c \in Callers, MarkRejected(c) PROVE TypeOK'
  BY <1>11 DEF MarkRejected, Leave
<1>12. ASSUME NEW s \in States, StartConnect(s) PROVE TypeOK'
  BY <1>12 DEF StartConnect
<1>13. ASSUME NEW b \in Callbacks, ReceiveCallback(b) PROVE TypeOK'
  BY <1>13 DEF ReceiveCallback, ConsumeState
<1>14. ASSUME NEW b \in Callbacks, ExchangeCode(b) PROVE TypeOK'
  <2>1. state[b] \in States
    BY <1>14 DEF ExchangeCode, StateInv
  <2>2. issued' \in Refresh /\ dead' \subseteq 1..issued'
    BY <1>14, CountsAssumption DEF ExchangeCode
  <2> QED
    BY <1>14, <2>1, <2>2 DEF ExchangeCode
<1>15. ASSUME NEW b \in Callbacks, ExchangeFails(b) PROVE TypeOK'
  BY <1>15 DEF ExchangeFails, EndCallback
<1>16. ASSUME NEW b \in Callbacks, StoreConnected(b) PROVE TypeOK'
  BY <1>16 DEF StoreConnected
<1>17. ASSUME NEW b \in Callbacks, SetOk(b) PROVE TypeOK'
  BY <1>17 DEF SetOk, EndCallback
<1>18. ASSUME BeginPatch PROVE TypeOK'
  BY <1>18 DEF BeginPatch
<1>19. ASSUME DropTokens PROVE TypeOK'
  BY <1>19, CountsAssumption DEF DropTokens
<1>20. ASSUME SetScopesChanged PROVE TypeOK'
  BY <1>20 DEF SetScopesChanged
<1>21. ASSUME TimePasses PROVE TypeOK'
  BY <1>21 DEF TimePasses
<1>22. ASSUME Revoke PROVE TypeOK'
  BY <1>22 DEF Revoke
<1>23. ASSUME Restart PROVE TypeOK'
  BY <1>23 DEF Restart
<1>24. CASE UNCHANGED vars
  BY <1>24 DEF vars
<1> QED
  BY <1>1, <1>2, <1>3, <1>4, <1>5, <1>6, <1>7, <1>8, <1>9, <1>10, <1>11,
     <1>12, <1>13, <1>14, <1>15, <1>16, <1>17, <1>18, <1>19, <1>20, <1>21,
     <1>22, <1>23, <1>24
     DEF Next, Inside, CallbackStep

\* Only the holder moves inside the section, and it leaves when it fills the cache.
LEMMA LockStep ==
    ASSUME TypeOK, LockInv, [Next]_vars
    PROVE  LockInv'
<1>1. ASSUME NEW c \in Callers, Call(c) PROVE LockInv'
  BY <1>1 DEF LockInv, Section, Call
<1>2. ASSUME NEW c \in Callers, Enter(c) PROVE LockInv'
  BY <1>2, ProcsAssumption DEF LockInv, Section, Enter, MayEnter
<1>3. ASSUME NEW c \in Callers, ReadValues(c) PROVE LockInv'
  BY <1>3 DEF LockInv, Section, ReadValues, Leave
<1>4. ASSUME NEW c \in Callers, ReadSummary(c) PROVE LockInv'
  BY <1>4 DEF LockInv, Section, ReadSummary, Leave
<1>5. ASSUME NEW c \in Callers, MarkNoToken(c) PROVE LockInv'
  BY <1>5 DEF LockInv, Section, MarkNoToken, Leave
<1>6. ASSUME NEW c \in Callers, RefreshAnswered(c) PROVE LockInv'
  BY <1>6 DEF LockInv, Section, RefreshAnswered, ProviderRefreshes
<1>7. ASSUME NEW c \in Callers, RefreshRejected(c) PROVE LockInv'
  BY <1>7 DEF LockInv, Section, RefreshRejected
<1>8. ASSUME NEW c \in Callers, RefreshFails(c) PROVE LockInv'
  BY <1>8 DEF LockInv, Section, RefreshFails, ProviderRefreshes, Leave
<1>9. ASSUME NEW c \in Callers, StoreRefreshed(c) PROVE LockInv'
  BY <1>9 DEF LockInv, Section, StoreRefreshed
<1>10. ASSUME NEW c \in Callers, BumpAndCache(c) PROVE LockInv'
  BY <1>10 DEF LockInv, Section, BumpAndCache, Leave
<1>11. ASSUME NEW c \in Callers, MarkRejected(c) PROVE LockInv'
  BY <1>11 DEF LockInv, Section, MarkRejected, Leave
<1>12. ASSUME NEW s \in States, StartConnect(s) PROVE LockInv'
  BY <1>12 DEF LockInv, Section, StartConnect
<1>13. ASSUME NEW b \in Callbacks, ReceiveCallback(b) PROVE LockInv'
  BY <1>13 DEF LockInv, Section, ReceiveCallback, ConsumeState
<1>14. ASSUME NEW b \in Callbacks, ExchangeCode(b) PROVE LockInv'
  BY <1>14 DEF LockInv, Section, ExchangeCode
<1>15. ASSUME NEW b \in Callbacks, ExchangeFails(b) PROVE LockInv'
  BY <1>15 DEF LockInv, Section, ExchangeFails, EndCallback
<1>16. ASSUME NEW b \in Callbacks, StoreConnected(b) PROVE LockInv'
  BY <1>16 DEF LockInv, Section, StoreConnected
<1>17. ASSUME NEW b \in Callbacks, SetOk(b) PROVE LockInv'
  BY <1>17 DEF LockInv, Section, SetOk, EndCallback
<1>18. ASSUME BeginPatch PROVE LockInv'
  BY <1>18 DEF LockInv, Section, BeginPatch
<1>19. ASSUME DropTokens PROVE LockInv'
  BY <1>19 DEF LockInv, Section, DropTokens
<1>20. ASSUME SetScopesChanged PROVE LockInv'
  BY <1>20 DEF LockInv, Section, SetScopesChanged
<1>21. ASSUME TimePasses PROVE LockInv'
  BY <1>21 DEF LockInv, Section, TimePasses
<1>22. ASSUME Revoke PROVE LockInv'
  BY <1>22 DEF LockInv, Section, Revoke
<1>23. ASSUME Restart PROVE LockInv'
  BY <1>23 DEF LockInv, Section, Restart
<1>24. CASE UNCHANGED vars
  BY <1>24 DEF LockInv, Section, vars
<1> QED
  BY <1>1, <1>2, <1>3, <1>4, <1>5, <1>6, <1>7, <1>8, <1>9, <1>10, <1>11,
     <1>12, <1>13, <1>14, <1>15, <1>16, <1>17, <1>18, <1>19, <1>20, <1>21,
     <1>22, <1>23, <1>24
     DEF Next, Inside, CallbackStep

\* Refreshes replace the row's token under the lock; connects bring tokens nobody
\* has seen.
LEMMA TokenStep ==
    ASSUME TypeOK, LockInv, TokenInv, [Next]_vars
    PROVE  TokenInv'
<1>1. ASSUME NEW c \in Callers, Call(c) PROVE TokenInv'
  BY <1>1 DEF TokenInv, CallerInv, CallbackInv, Holding, Call
<1>2. ASSUME NEW c \in Callers, Enter(c) PROVE TokenInv'
  BY <1>2 DEF TokenInv, CallerInv, CallbackInv, Holding, Enter, MayEnter
<1>3. ASSUME NEW c \in Callers, ReadValues(c) PROVE TokenInv'
  BY <1>3 DEF TokenInv, CallerInv, CallbackInv, Holding, ReadValues, Leave
<1>4. ASSUME NEW c \in Callers, ReadSummary(c) PROVE TokenInv'
  BY <1>4 DEF TokenInv, CallerInv, CallbackInv, Holding, ReadSummary, Leave
<1>5. ASSUME NEW c \in Callers, MarkNoToken(c) PROVE TokenInv'
  BY <1>5 DEF TokenInv, CallerInv, CallbackInv, Holding, MarkNoToken, Leave
<1>6. ASSUME NEW c \in Callers, RefreshAnswered(c) PROVE TokenInv'
  <2> DEFINE r == seen[c]
  <2>1. r \in (1..issued) \ replaced
    BY <1>6, PresentsIssued DEF RefreshAnswered
  <2>2. issued' \in Nat /\ issued' \in {issued, issued + 1}
    BY <1>6, CountsAssumption DEF RefreshAnswered, ProviderRefreshes
  <2>3. got'[c] = IF issued' = issued THEN r ELSE issued'
    BY <1>6 DEF RefreshAnswered
  <2>4. got'[c] \in (1..issued') \ replaced'
    BY <1>6, <2>1, <2>2, <2>3 DEF RefreshAnswered, TokenInv
  <2>5. replaced' \subseteq 1..issued' /\ values'.refresh \in (0..issued') \ replaced'
    BY <1>6, <2>2 DEF RefreshAnswered, TokenInv
  <2>6. ASSUME NEW e \in Callers PROVE CallerInv(e)'
    BY <1>6, <2>1, <2>2, <2>4 DEF RefreshAnswered, TokenInv, CallerInv
  <2>7. ASSUME NEW b \in Callbacks, pc[b] = "values" PROVE got'[c] # got[b]
    BY <1>6, <2>2, <2>3, <2>7 DEF RefreshAnswered, TokenInv, CallbackInv, Holding
  <2>8. ASSUME NEW b \in Callbacks PROVE CallbackInv(b)'
    BY <1>6, <2>2, <2>7, ProcsAssumption
       DEF RefreshAnswered, TokenInv, CallbackInv, Holding
  <2> QED
    BY <2>5, <2>6, <2>8 DEF TokenInv
<1>7. ASSUME NEW c \in Callers, RefreshRejected(c) PROVE TokenInv'
  BY <1>7 DEF TokenInv, CallerInv, CallbackInv, Holding, RefreshRejected
<1>8. ASSUME NEW c \in Callers, RefreshFails(c) PROVE TokenInv'
  BY <1>8
     DEF TokenInv, CallerInv, CallbackInv, Holding, RefreshFails, ProviderRefreshes, Leave
<1>9. ASSUME NEW c \in Callers, StoreRefreshed(c) PROVE TokenInv'
  \* The lock keeps every other caller from holding the token that goes.
  <2>1. seen[c] \in (1..issued) \ replaced
    BY <1>9, PresentsIssued DEF StoreRefreshed
  <2>2. got[c] \in (1..issued) \ replaced
    BY <1>9 DEF StoreRefreshed, TokenInv, CallerInv
  <2>3. \A e \in Callers \ {c} : pc'[e] \notin Section
    BY <1>9, LockInv DEF StoreRefreshed, LockInv, Section
  <2>4. replaced' \subseteq 1..issued'
    BY <1>9, <2>1 DEF StoreRefreshed, TokenInv
  <2>5. values'.refresh \in (0..issued') \ replaced'
    BY <1>9, <2>1, <2>2 DEF StoreRefreshed
  <2>6. ASSUME NEW e \in Callers PROVE CallerInv(e)'
    BY <1>9, <2>3 DEF StoreRefreshed, CallerInv, Holding, Section
  <2>7. ASSUME NEW b \in Callbacks PROVE CallbackInv(b)'
    BY <1>9, <2>1, <2>3, ProcsAssumption
       DEF StoreRefreshed, TokenInv, CallbackInv, Holding, Section
  <2> QED
    BY <2>4, <2>5, <2>6, <2>7 DEF TokenInv
<1>10. ASSUME NEW c \in Callers, BumpAndCache(c) PROVE TokenInv'
  BY <1>10 DEF TokenInv, CallerInv, CallbackInv, Holding, BumpAndCache, Leave
<1>11. ASSUME NEW c \in Callers, MarkRejected(c) PROVE TokenInv'
  BY <1>11 DEF TokenInv, CallerInv, CallbackInv, Holding, MarkRejected, Leave
<1>12. ASSUME NEW s \in States, StartConnect(s) PROVE TokenInv'
  BY <1>12 DEF TokenInv, CallerInv, CallbackInv, Holding, StartConnect
<1>13. ASSUME NEW b \in Callbacks, ReceiveCallback(b) PROVE TokenInv'
  BY <1>13
     DEF TokenInv, CallerInv, CallbackInv, Holding, ReceiveCallback, ConsumeState
<1>14. ASSUME NEW b \in Callbacks, ExchangeCode(b) PROVE TokenInv'
  \* The new grant's token is later than any other.
  <2>1. issued' = issued + 1 /\ got'[b] = issued + 1
    BY <1>14 DEF ExchangeCode
  <2>2. replaced' \subseteq 1..issued' /\ values'.refresh \in (0..issued') \ replaced'
    BY <1>14, <2>1 DEF ExchangeCode, TokenInv
  <2>3. ASSUME NEW e \in Callers PROVE CallerInv(e)'
    BY <1>14, <2>1, ProcsAssumption DEF ExchangeCode, TokenInv, CallerInv
  <2>4. CallbackInv(b)'
    BY <1>14, <2>1, ProcsAssumption
       DEF ExchangeCode, TokenInv, CallerInv, CallbackInv
  <2>5. ASSUME NEW d \in Callbacks \ {b} PROVE CallbackInv(d)'
    BY <1>14, <2>1, ProcsAssumption DEF ExchangeCode, TokenInv, CallbackInv
  <2> QED
    BY <2>2, <2>3, <2>4, <2>5 DEF TokenInv
<1>15. ASSUME NEW b \in Callbacks, ExchangeFails(b) PROVE TokenInv'
  BY <1>15
     DEF TokenInv, CallerInv, CallbackInv, Holding, ExchangeFails, EndCallback
<1>16. ASSUME NEW b \in Callbacks, StoreConnected(b) PROVE TokenInv'
  BY <1>16 DEF TokenInv, CallerInv, CallbackInv, Holding, StoreConnected
<1>17. ASSUME NEW b \in Callbacks, SetOk(b) PROVE TokenInv'
  BY <1>17 DEF TokenInv, CallerInv, CallbackInv, Holding, SetOk, EndCallback
<1>18. ASSUME BeginPatch PROVE TokenInv'
  BY <1>18, ProcsAssumption
     DEF TokenInv, CallerInv, CallbackInv, Holding, BeginPatch
<1>19. ASSUME DropTokens PROVE TokenInv'
  BY <1>19 DEF TokenInv, CallerInv, CallbackInv, Holding, DropTokens
<1>20. ASSUME SetScopesChanged PROVE TokenInv'
  BY <1>20 DEF TokenInv, CallerInv, CallbackInv, Holding, SetScopesChanged
<1>21. ASSUME TimePasses PROVE TokenInv'
  BY <1>21 DEF TokenInv, CallerInv, CallbackInv, Holding, TimePasses
<1>22. ASSUME Revoke PROVE TokenInv'
  BY <1>22 DEF TokenInv, CallerInv, CallbackInv, Holding, Revoke
<1>23. ASSUME Restart PROVE TokenInv'
  BY <1>23 DEF TokenInv, CallerInv, CallbackInv, Holding, Restart
<1>24. CASE UNCHANGED vars
  BY <1>24 DEF TokenInv, CallerInv, CallbackInv, Holding, vars
<1> QED
  BY <1>1, <1>2, <1>3, <1>4, <1>5, <1>6, <1>7, <1>8, <1>9, <1>10, <1>11,
     <1>12, <1>13, <1>14, <1>15, <1>16, <1>17, <1>18, <1>19, <1>20, <1>21,
     <1>22, <1>23, <1>24
     DEF Next, Inside, CallbackStep

\* A state leaves the table with the callback that found it.
LEMMA StateStep ==
    ASSUME TypeOK, StateInv, [Next]_vars
    PROVE  StateInv'
<1>1. ASSUME NEW c \in Callers, Call(c) PROVE StateInv'
  BY <1>1 DEF StateInv, Call
<1>2. ASSUME NEW c \in Callers, Enter(c) PROVE StateInv'
  BY <1>2 DEF StateInv, Enter, MayEnter
<1>3. ASSUME NEW c \in Callers, ReadValues(c) PROVE StateInv'
  BY <1>3 DEF StateInv, ReadValues, Leave
<1>4. ASSUME NEW c \in Callers, ReadSummary(c) PROVE StateInv'
  BY <1>4 DEF StateInv, ReadSummary, Leave
<1>5. ASSUME NEW c \in Callers, MarkNoToken(c) PROVE StateInv'
  BY <1>5 DEF StateInv, MarkNoToken, Leave
<1>6. ASSUME NEW c \in Callers, RefreshAnswered(c) PROVE StateInv'
  BY <1>6 DEF StateInv, RefreshAnswered, ProviderRefreshes
<1>7. ASSUME NEW c \in Callers, RefreshRejected(c) PROVE StateInv'
  BY <1>7 DEF StateInv, RefreshRejected
<1>8. ASSUME NEW c \in Callers, RefreshFails(c) PROVE StateInv'
  BY <1>8 DEF StateInv, RefreshFails, ProviderRefreshes, Leave
<1>9. ASSUME NEW c \in Callers, StoreRefreshed(c) PROVE StateInv'
  BY <1>9 DEF StateInv, StoreRefreshed
<1>10. ASSUME NEW c \in Callers, BumpAndCache(c) PROVE StateInv'
  BY <1>10 DEF StateInv, BumpAndCache, Leave
<1>11. ASSUME NEW c \in Callers, MarkRejected(c) PROVE StateInv'
  BY <1>11 DEF StateInv, MarkRejected, Leave
<1>12. ASSUME NEW s \in States, StartConnect(s) PROVE StateInv'
  BY <1>12 DEF StateInv, StartConnect
<1>13. ASSUME NEW b \in Callbacks, ReceiveCallback(b) PROVE StateInv'
  BY <1>13 DEF StateInv, ReceiveCallback, ConsumeState
<1>14. ASSUME NEW b \in Callbacks, ExchangeCode(b) PROVE StateInv'
  BY <1>14, ProcsAssumption DEF StateInv, ExchangeCode
<1>15. ASSUME NEW b \in Callbacks, ExchangeFails(b) PROVE StateInv'
  BY <1>15, ProcsAssumption DEF StateInv, ExchangeFails, EndCallback
<1>16. ASSUME NEW b \in Callbacks, StoreConnected(b) PROVE StateInv'
  BY <1>16 DEF StateInv, StoreConnected
<1>17. ASSUME NEW b \in Callbacks, SetOk(b) PROVE StateInv'
  BY <1>17, ProcsAssumption DEF StateInv, SetOk, EndCallback
<1>18. ASSUME BeginPatch PROVE StateInv'
  BY <1>18 DEF StateInv, BeginPatch
<1>19. ASSUME DropTokens PROVE StateInv'
  BY <1>19 DEF StateInv, DropTokens
<1>20. ASSUME SetScopesChanged PROVE StateInv'
  BY <1>20 DEF StateInv, SetScopesChanged
<1>21. ASSUME TimePasses PROVE StateInv'
  BY <1>21 DEF StateInv, TimePasses
<1>22. ASSUME Revoke PROVE StateInv'
  BY <1>22 DEF StateInv, Revoke
<1>23. ASSUME Restart PROVE StateInv'
  BY <1>23, ProcsAssumption DEF StateInv, Restart
<1>24. CASE UNCHANGED vars
  BY <1>24 DEF StateInv, vars
<1> QED
  BY <1>1, <1>2, <1>3, <1>4, <1>5, <1>6, <1>7, <1>8, <1>9, <1>10, <1>11,
     <1>12, <1>13, <1>14, <1>15, <1>16, <1>17, <1>18, <1>19, <1>20, <1>21,
     <1>22, <1>23, <1>24
     DEF Next, Inside, CallbackStep

\* The invariant is inductive.
LEMMA Step == IInv /\ [Next]_vars => IInv'
BY TypeStep, LockStep, TokenStep, StateStep DEF IInv

-----------------------------------------------------------------------------
(* The theorems. *)

\* In every reachable state tokens, lock and states are as IInv says, whatever
\* the provider does and wherever the process stops (upstream.py:113-331).
THEOREM InvariantHolds == Spec => []IInv
<1>1. Init => IInv
  BY Start
<1>2. IInv /\ [Next]_vars => IInv'
  BY Step
<1> QED
  BY <1>1, <1>2, PTL DEF Spec

\* Row, cache, handlers and provider keep their types.
THEOREM TypeCorrect == Spec => []TypeOK
<1>1. IInv => TypeOK
  BY DEF IInv
<1> QED
  BY <1>1, InvariantHolds, PTL

\* No refresh token is presented once a refresh has replaced it in the row: it
\* is read and used under one lock, and what connects and patches write in
\* between is never one of the replaced (upstream.py:283-327).
THEOREM NeverReplaysReplacedHolds == Spec => []NeverReplaysReplaced
<1>1. IInv => NeverReplaysReplaced
  BY PresentsIssued DEF IInv, NeverReplaysReplaced
<1> QED
  BY <1>1, InvariantHolds, PTL

\* A state takes one callback at most to the token endpoint (upstream.py:209-217).
THEOREM StateUsedOnceHolds == Spec => []StateUsedOnce
<1>1. IInv => StateUsedOnce
  BY ProcsAssumption DEF IInv, StateInv, StateUsedOnce
<1> QED
  BY <1>1, InvariantHolds, PTL

\* Who sends a refresh is in the section, so nobody has filled the cache since
\* it looked (upstream.py:283-292).
THEOREM CoalescedHolds == Spec => Coalesced
<1> DEFINE Sends == \A c \in Callers : pc[c] # "post" /\ pc'[c] = "post" => cache # "fresh"
<1>1. IInv /\ [Next]_vars => Sends
  <2> SUFFICES ASSUME IInv, [Next]_vars, NEW c \in Callers,
                      pc[c] # "post", pc'[c] = "post"
               PROVE  cache # "fresh"
    OBVIOUS
  <2>1. pc[c] = "summary"
    BY ProcsAssumption
       DEF IInv, Next, Inside, CallbackStep, vars, Call, Enter, ReadValues, ReadSummary,
           MarkNoToken, RefreshAnswered, RefreshRejected, RefreshFails,
           StoreRefreshed, BumpAndCache, MarkRejected, Leave, StartConnect,
           ReceiveCallback, EndCallback, ExchangeCode, ExchangeFails,
           StoreConnected, SetOk, BeginPatch, DropTokens, SetScopesChanged,
           TimePasses, Revoke, Restart
  <2> QED
    BY <2>1 DEF IInv, LockInv, Section
<1>2. IInv /\ [Next]_vars => [Sends]_vars
  BY <1>1
<1> QED
  BY <1>2, InvariantHolds, PTL DEF Spec, Coalesced
=============================================================================
