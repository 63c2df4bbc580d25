-------------------------- MODULE OAuthServerProofs --------------------------
(***************************************************************************)
(* Theorems about OAuthServer, for any sets of clients, codes and requests, *)
(* any number of pairs, and all faults.                                     *)
(***************************************************************************)
EXTENDS OAuthServer, FiniteSetTheorems, TLAPS

Holding == {"access", "refresh", "commit", "rollback"} \cup Inserting

\* Where a request stands that has taken its code or pair out of the database.
Exchanging == {"begin", "access", "refresh", "commit", "rollback"}

InUse(rows) == rows.access \cup rows.refresh

\* Whoever is between BEGIN and its end has the transaction.
LockInv == \A p \in Procs : pc[p] \in Holding <=> txn = p

\* Requests are about codes and pairs that have been given out.
ArgInv ==
    /\ pc["browser"] = "save" => arg["browser"] \in Clients
    /\ \A r \in Requests :
          /\ pc[r] = "delete" => arg[r] \in Codes
          /\ pc[r] \in {"revoke", "withdraw", "forget"} => arg[r] \in Sent
          /\ pc[r] \in Exchanging => arg[r] \in Codes \cup Sent
    /\ \A a \in answered : a[1] \in Codes \cup Sent

\* Pairs are numbered as they are inserted, and sent when that is committed.
IssueInv ==
    /\ Sent \subseteq 1..issued
    /\ aged.access \cup aged.refresh \subseteq Sent
    /\ \A r \in Requests :
          /\ pc[r] = "access" => issued < MaxPairs
          /\ pc[r] \in {"refresh", "commit"} =>
                issued \in Pairs \ Sent /\ owner[issued] = owner[arg[r]]

\* Codes and tokens go with their client, in the database and in what a
\* rollback would bring back; a client that has been forgotten stays so unless
\* a rollback brings it back.
RowsOf(rows) ==
    /\ rows.clients \subseteq known
    /\ \A x \in rows.codes \cup InUse(rows) : owner[x] \in rows.clients
    /\ InUse(rows) \subseteq 1..issued

RowsInv ==
    /\ RowsOf(db) /\ RowsOf(saved)
    /\ forgotten \subseteq known
    /\ \A x \in Codes \cup Pairs : owner[x] \in known \cup {None}
    /\ forgotten \cap db.clients \subseteq restored
    /\ pc["admin"] = "tokens" => db.clients \subseteq restored

\* A pair exchanged, or taken out to be exchanged, is gone.
RotateInv ==
    /\ RotatedGone
    /\ \A r \in Requests :
          pc[r] \in Exchanging /\ arg[r] \in InUse(db) => arg[r] \in restored

\* What a rollback would bring back is whole, and so will be what is half
\* inserted.
HalfInv ==
    /\ PairsWhole
    /\ \A p \in Pairs : (p \in saved.access <=> p \in saved.refresh) \/ owner[p] \in restored
    /\ \A r \in Requests : pc[r] = "refresh" =>
          \/ issued \in db.access
          \/ owner[issued] \in restored
          \/ owner[issued] \notin db.clients

\* A code is in the database, or with one request, or answered once.
Taken(r, c) == pc[r] \in Exchanging /\ arg[r] = c

CodeInv ==
    /\ \A c \in Codes : owner[c] = None =>
          /\ \A p \in Pairs : <<c, p>> \notin answered
          /\ \A r \in Requests : arg[r] # c
    /\ \A c \in Codes \ restored :
          /\ \A p, q \in Pairs : <<c, p>> \in answered /\ <<c, q>> \in answered => p = q
          /\ \A p \in Pairs : <<c, p>> \in answered =>
                c \notin db.codes /\ \A r \in Requests : ~Taken(r, c)
          /\ c \in db.codes => \A r \in Requests : ~Taken(r, c)
          /\ \A r, s \in Requests : Taken(r, c) /\ Taken(s, c) => r = s

IInv == /\ TypeOK /\ LockInv /\ ArgInv /\ IssueInv
        /\ RowsInv /\ RotateInv /\ HalfInv /\ CodeInv

-----------------------------------------------------------------------------
USE DEF At, Goto, End, Procs, Pairs, Rows, RequestPCs, Inserting, AdminPCs, historyVars

(* The inductive invariant holds in the beginning and every step keeps it. *)

\* There are no rows, requests or answers yet.
LEMMA Start == Init => IInv
<1> SUFFICES ASSUME Init PROVE IInv
  OBVIOUS
<1>1. TypeOK
  BY PairsAssumption DEF Init, TypeOK, NoRows
<1>2. Sent = {}
  BY DEF Init, Sent
<1>3. LockInv
  BY NamesAssumption DEF Init, LockInv, Holding
<1>4. ArgInv /\ IssueInv
  BY <1>2 DEF Init, ArgInv, IssueInv, Exchanging
<1>5. RowsInv
  BY DEF Init, RowsInv, RowsOf, InUse, NoRows
<1>6. RotateInv /\ HalfInv
  BY DEF Init, RotateInv, RotatedGone, HalfInv, PairsWhole, InUse, NoRows, Exchanging
<1>7. CodeInv
  BY NamesAssumption, PairsAssumption DEF Init, CodeInv, Taken, Exchanging, NoRows
<1> QED
  BY <1>1, <1>3, <1>4, <1>5, <1>6, <1>7 DEF IInv

\* Sending is what grows the set of pairs sent.
LEMMA SentStep ==
    ASSUME TypeOK, IssueInv, NEW r \in Requests, Commit(r)
    PROVE  Sent' = Sent \cup {issued}
<1>1. answered' = answered \cup {<<arg[r], issued>>}
  BY DEF Commit
<1>2. ASSUME NEW p \in Sent' PROVE p \in Sent \cup {issued}
  BY <1>1 DEF Sent
<1>3. ASSUME NEW p \in Sent \cup {issued} PROVE p \in Sent'
  <2>1. CASE p \in Sent
    BY <1>1, <2>1 DEF Sent
  <2>2. CASE p = issued
    <3>1. <<arg[r], issued>> \in answered' /\ <<arg[r], issued>>[2] = issued
      BY <1>1
    <3> QED
      BY <2>2, <3>1 DEF Sent
  <2> QED
    BY <2>1, <2>2
<1> QED
  BY <1>2, <1>3

LEMMA SentStays == UNCHANGED answered => UNCHANGED Sent
BY DEF Sent

\* Statements that delete leave rows of the same type.
LEMMA DeleteTypes ==
    ASSUME NEW rows \in Rows, NEW P
    PROVE  WithoutPairs(rows, P) \in Rows /\ NoRows \in Rows
BY DEF WithoutPairs, NoRows

\* Every step keeps the types; the bound on pairs needs IssueInv.
LEMMA TypeStep ==
    ASSUME TypeOK, ArgInv, IssueInv, [Next]_vars
    PROVE  TypeOK'
<1> USE DEF TypeOK
<1> DEFINE Labels == RequestPCs \cup AdminPCs \cup {"save"}
           Args == Codes \cup Clients \cup 0..MaxPairs
<1>1. Sent \subseteq 1..MaxPairs /\ 0 \in Args
  BY PairsAssumption DEF IssueInv
<1>2. ASSUME NEW p \in Procs, NEW next \in Labels, Begin(p, next), p # "browser" PROVE TypeOK'
  BY <1>1, <1>2 DEF Begin
<1>3. ASSUME NEW r \in Requests, DeleteCode(r) PROVE TypeOK'
  BY <1>1, <1>3 DEF DeleteCode
<1>4. ASSUME NEW r \in Requests, Revoke(r) PROVE TypeOK'
  BY <1>1, <1>4, DeleteTypes DEF Revoke
<1>5. ASSUME NEW r \in Requests, InsertAccess(r) PROVE TypeOK'
  <2>1. issued' = issued + 1 /\ issued' \in 1..MaxPairs /\ issued' \in 0..MaxPairs
    BY <1>5, PairsAssumption DEF InsertAccess, IssueInv
  <2>2. owner[arg[r]] \in Clients \cup {None}
    BY <1>5, <1>1 DEF InsertAccess, ArgInv, Exchanging
  <2>3. owner' \in [Codes \cup Pairs -> Clients \cup {None}]
    BY <1>5, <2>1, <2>2 DEF InsertAccess
  <2> QED
    BY <1>5, <2>1, <2>3 DEF InsertAccess
<1>6. ASSUME NEW r \in Requests, InsertRefresh(r) PROVE TypeOK'
  <2>1. issued \in 1..MaxPairs
    BY <1>6 DEF InsertRefresh, IssueInv
  <2> QED
    BY <1>6, <2>1 DEF InsertRefresh
<1>7. ASSUME NEW r \in Requests, Commit(r) PROVE TypeOK'
  <2>1. issued \in 1..MaxPairs /\ arg[r] \in Codes \cup Pairs
    BY <1>7, <1>1 DEF Commit, IssueInv, ArgInv, Exchanging
  <2> QED
    BY <1>7, <1>1, <2>1, DeleteTypes DEF Commit
<1>8. ASSUME NEW p \in Procs, Rollback(p) PROVE TypeOK'
  BY <1>8, <1>1, DeleteTypes DEF Rollback, BroughtBack
<1>9. ASSUME NEW r \in Requests, NEW x \in Args, NEW label \in Labels, Take(r, x, label) PROVE TypeOK'
  BY <1>9 DEF Take
<1>10. ASSUME NEW k \in Clients, Register(k) PROVE TypeOK'
  BY <1>10 DEF Register
<1>11. ASSUME NEW k \in Clients, Sweep(k) PROVE TypeOK'
  <2>1. Swept(db) \in Rows
    BY DEF Swept, WithoutPairs
  <2> QED
    BY <1>1, <1>11, <2>1 DEF Sweep
<1>12. ASSUME NEW c \in Codes, SaveCode(c) PROVE TypeOK'
  BY <1>1, <1>12 DEF SaveCode, ArgInv
<1>13. AdminStarts => TypeOK'
  BY DEF AdminStarts
<1>14. ClearClients => TypeOK'
  BY DeleteTypes DEF ClearClients
<1>15. ASSUME ClearTokens PROVE TypeOK'
  <2>1. db' \in Rows
    BY <1>15 DEF ClearTokens
  <2> QED
    BY <1>1, <1>15, <2>1 DEF ClearTokens
<1>16. ASSUME NEW label \in Inserting, Inserts(label) PROVE TypeOK'
  BY <1>16 DEF Inserts
<1>17. CommitInserted => TypeOK'
  BY <1>1, DeleteTypes DEF CommitInserted
<1>18. Expire => TypeOK'
  BY <1>1 DEF Expire
<1>19. Crash => TypeOK'
  BY <1>1, DeleteTypes DEF Crash, BroughtBack
<1>20. UNCHANGED vars => TypeOK'
  BY DEF vars
<1>21. "access" \in Labels /\ Inserting \subseteq Labels /\ "browser" \notin Requests \cup {"admin"}
  BY NamesAssumption
<1>22. ASSUME NEW r \in Requests, NEW c \in Codes, LoadCode(r, c) PROVE TypeOK'
  BY <1>9, <1>22 DEF LoadCode
<1>23. ASSUME NEW r \in Requests, NEW p \in Sent,
              LoadRefresh(r, p) \/ LoadAccess(r, p) \/ RevokeToken(r, p)
       PROVE  TypeOK'
  <2>1. p \in Args
    BY <1>1
  <2> QED
    BY <1>9, <1>23, <2>1 DEF LoadRefresh, LoadAccess, RevokeToken
<1> HIDE DEF TypeOK, Labels
<1>24. ASSUME NEW r \in Requests, RequestStep(r) PROVE TypeOK'
  BY <1>2, <1>3, <1>4, <1>5, <1>6, <1>7, <1>8, <1>21, <1>24 DEF RequestStep
<1>25. AdminStep => TypeOK'
  BY <1>2, <1>8, <1>14, <1>15, <1>16, <1>17, <1>21
     DEF AdminStep, CreateProxy, RenameToolset, CreateCredential
<1> QED
  BY <1>10, <1>11, <1>12, <1>13, <1>18, <1>19, <1>20, <1>22, <1>23, <1>24, <1>25 DEF Next

\* BEGIN only passes when nobody is inside, and who is inside ends it alone.
LEMMA LockStep ==
    ASSUME TypeOK, LockInv, [Next]_vars
    PROVE  LockInv'
<1> USE DEF TypeOK
<1>1. ASSUME NEW r \in Requests, issued < MaxPairs, Begin(r, "access") PROVE LockInv'
  BY <1>1, NamesAssumption DEF Begin, LockInv, Holding
<1>2. ASSUME NEW label \in Inserting, Begin("admin", label) PROVE LockInv'
  BY <1>2, NamesAssumption DEF Begin, LockInv, Holding
<1>3. ASSUME NEW r \in Requests, DeleteCode(r) PROVE LockInv'
  BY <1>3, NamesAssumption DEF DeleteCode, LockInv, Holding
<1>4. ASSUME NEW r \in Requests, Revoke(r) PROVE LockInv'
  BY <1>4, NamesAssumption DEF Revoke, LockInv, Holding
<1>5. ASSUME NEW r \in Requests, InsertAccess(r) PROVE LockInv'
  BY <1>5, NamesAssumption DEF InsertAccess, LockInv, Holding
<1>6. ASSUME NEW r \in Requests, InsertRefresh(r) PROVE LockInv'
  BY <1>6, NamesAssumption DEF InsertRefresh, LockInv, Holding
<1>7. ASSUME NEW r \in Requests, Commit(r) PROVE LockInv'
  BY <1>7, NamesAssumption DEF Commit, LockInv, Holding
<1>8. ASSUME NEW p \in Requests \cup {"admin"}, Rollback(p) PROVE LockInv'
  BY <1>8, NamesAssumption DEF Rollback, LockInv, Holding
<1>9. ASSUME NEW r \in Requests, NEW c \in Codes, LoadCode(r, c) PROVE LockInv'
  BY <1>9, NamesAssumption DEF LoadCode, Take, LockInv, Holding
<1>10. ASSUME NEW r \in Requests, NEW p \in Sent, NEW label \in {"revoke", "withdraw", "forget"},
              Take(r, p, label)
       PROVE LockInv'
  BY <1>10, NamesAssumption DEF Take, LockInv, Holding
<1>11. ASSUME NEW k \in Clients, Register(k) PROVE LockInv'
  BY <1>11, NamesAssumption DEF Register, LockInv, Holding
<1>12. ASSUME NEW k \in Clients, Sweep(k) PROVE LockInv'
  BY <1>12, NamesAssumption DEF Sweep, LockInv, Holding
<1>13. ASSUME NEW c \in Codes, SaveCode(c) PROVE LockInv'
  BY <1>13, NamesAssumption DEF SaveCode, LockInv, Holding
<1>14. ASSUME AdminStarts PROVE LockInv'
  BY <1>14, NamesAssumption DEF AdminStarts, LockInv, Holding
<1>15. ASSUME ClearClients PROVE LockInv'
  BY <1>15, NamesAssumption DEF ClearClients, LockInv, Holding
<1>16. ASSUME ClearTokens PROVE LockInv'
  BY <1>16, NamesAssumption DEF ClearTokens, LockInv, Holding
<1>17. ASSUME NEW label \in Inserting, Inserts(label) PROVE LockInv'
  BY <1>17, NamesAssumption DEF Inserts, LockInv, Holding
<1>18. ASSUME CommitInserted PROVE LockInv'
  BY <1>18, NamesAssumption DEF CommitInserted, LockInv, Holding
<1>19. ASSUME Expire PROVE LockInv'
  BY <1>19, NamesAssumption DEF Expire, LockInv, Holding
<1>20. ASSUME Crash PROVE LockInv'
  BY <1>20, NamesAssumption DEF Crash, LockInv, Holding
<1>21. ASSUME UNCHANGED vars PROVE LockInv'
  BY <1>21, NamesAssumption DEF vars, LockInv, Holding
<1> QED
  BY <1>1, <1>2, <1>3, <1>4, <1>5, <1>6, <1>7, <1>8, <1>9, <1>10, <1>11,
     <1>12, <1>13, <1>14, <1>15, <1>16, <1>17, <1>18, <1>19, <1>20,
     <1>21
     DEF Next, RequestStep, AdminStep, LoadRefresh, LoadAccess, RevokeToken,
         CreateProxy, RenameToolset, CreateCredential

\* Nobody comes by a code or pair that was not given out.
LEMMA ArgStep ==
    ASSUME TypeOK, ArgInv, IssueInv, [Next]_vars
    PROVE  ArgInv'
<1>a. UNCHANGED answered => UNCHANGED Sent
  BY SentStays
<1> USE DEF TypeOK
<1>1. ASSUME NEW r \in Requests, issued < MaxPairs, Begin(r, "access") PROVE ArgInv'
  BY <1>1, <1>a DEF Begin, ArgInv, Exchanging
<1>2. ASSUME NEW label \in Inserting, Begin("admin", label) PROVE ArgInv'
  BY <1>2, <1>a DEF Begin, ArgInv, Exchanging
<1>3. ASSUME NEW r \in Requests, DeleteCode(r) PROVE ArgInv'
  BY <1>3, <1>a DEF DeleteCode, ArgInv, Exchanging
<1>4. ASSUME NEW r \in Requests, Revoke(r) PROVE ArgInv'
  BY <1>4, <1>a DEF Revoke, ArgInv, Exchanging
<1>5. ASSUME NEW r \in Requests, InsertAccess(r) PROVE ArgInv'
  BY <1>5, <1>a DEF InsertAccess, ArgInv, Exchanging
<1>6. ASSUME NEW r \in Requests, InsertRefresh(r) PROVE ArgInv'
  BY <1>6, <1>a DEF InsertRefresh, ArgInv, Exchanging
<1>7. ASSUME NEW r \in Requests, Commit(r) PROVE ArgInv'
  <2>1. Sent' = Sent \cup {issued} /\ answered' = answered \cup {<<arg[r], issued>>}
    BY <1>7, SentStep DEF Commit
  <2> QED
    BY <1>7, <2>1, <1>a DEF Commit, ArgInv, Exchanging
<1>8. ASSUME NEW p \in Requests \cup {"admin"}, Rollback(p) PROVE ArgInv'
  BY <1>8, <1>a DEF Rollback, ArgInv, Exchanging
<1>9. ASSUME NEW r \in Requests, NEW c \in Codes, LoadCode(r, c) PROVE ArgInv'
  BY <1>9, <1>a DEF LoadCode, Take, ArgInv, Exchanging
<1>10. ASSUME NEW r \in Requests, NEW p \in Sent, NEW label \in {"revoke", "withdraw", "forget"},
              Take(r, p, label)
       PROVE ArgInv'
  BY <1>10, <1>a DEF Take, ArgInv, Exchanging
<1>11. ASSUME NEW k \in Clients, Register(k) PROVE ArgInv'
  BY <1>11, <1>a DEF Register, ArgInv, Exchanging
<1>12. ASSUME NEW k \in Clients, Sweep(k) PROVE ArgInv'
  BY <1>12, <1>a DEF Sweep, ArgInv, Exchanging
<1>13. ASSUME NEW c \in Codes, SaveCode(c) PROVE ArgInv'
  BY <1>13, <1>a DEF SaveCode, ArgInv, Exchanging
<1>14. ASSUME AdminStarts PROVE ArgInv'
  BY <1>14, <1>a, NamesAssumption DEF AdminStarts, ArgInv, Exchanging
<1>15. ASSUME ClearClients PROVE ArgInv'
  BY <1>15, <1>a DEF ClearClients, ArgInv, Exchanging
<1>16. ASSUME ClearTokens PROVE ArgInv'
  BY <1>16, <1>a DEF ClearTokens, ArgInv, Exchanging
<1>17. ASSUME NEW label \in Inserting, Inserts(label) PROVE ArgInv'
  BY <1>17, <1>a, NamesAssumption DEF Inserts, ArgInv, Exchanging
<1>18. ASSUME CommitInserted PROVE ArgInv'
  BY <1>18, <1>a DEF CommitInserted, ArgInv, Exchanging
<1>19. ASSUME Expire PROVE ArgInv'
  BY <1>19, <1>a DEF Expire, ArgInv, Exchanging
<1>20. ASSUME Crash PROVE ArgInv'
  BY <1>20, <1>a DEF Crash, ArgInv, Exchanging
<1>21. ASSUME UNCHANGED vars PROVE ArgInv'
  BY <1>21, <1>a DEF vars, ArgInv, Exchanging
<1> QED
  BY <1>1, <1>2, <1>3, <1>4, <1>5, <1>6, <1>7, <1>8, <1>9, <1>10, <1>11,
     <1>12, <1>13, <1>14, <1>15, <1>16, <1>17, <1>18, <1>19, <1>20,
     <1>21
     DEF Next, RequestStep, AdminStep, LoadRefresh, LoadAccess, RevokeToken,
         CreateProxy, RenameToolset, CreateCredential

\* The pair under way is the last one numbered, and nobody has heard of it.
LEMMA IssueStep ==
    ASSUME TypeOK, LockInv, ArgInv, IssueInv, CodeInv, [Next]_vars
    PROVE  IssueInv'
<1>a. UNCHANGED answered => UNCHANGED Sent
  BY SentStays
<1> USE DEF TypeOK
<1> DEFINE Inserted == {"access", "refresh", "commit"}
<1>1. ASSUME NEW r \in Requests, issued < MaxPairs, Begin(r, "access") PROVE IssueInv'
  <2>1. \A q \in Requests : pc'[q] \in Inserted =>
           pc'[q] = "access" \/ (pc[q] = pc'[q] /\ arg'[q] = arg[q])
    BY <1>1, NamesAssumption DEF Begin
  <2>2. UNCHANGED <<Sent, issued, aged>>
    BY <1>1, <1>a DEF Begin
  <2>3. \A q \in Requests : pc'[q] = "access" => issued < MaxPairs
    BY <1>1, NamesAssumption DEF Begin, IssueInv
  <2> QED
    BY <1>1, <2>1, <2>2, <2>3 DEF Begin, IssueInv
<1>2. ASSUME NEW label \in Inserting, Begin("admin", label) PROVE IssueInv'
  <2>1. \A q \in Requests : pc'[q] \in Inserted =>
           pc'[q] = "access" \/ (pc[q] = pc'[q] /\ arg'[q] = arg[q])
    BY <1>2, NamesAssumption DEF Begin
  <2>2. UNCHANGED <<Sent, issued, aged>>
    BY <1>2, <1>a DEF Begin
  <2>3. \A q \in Requests : pc'[q] = "access" => issued < MaxPairs
    BY <1>2, NamesAssumption DEF Begin, IssueInv
  <2> QED
    BY <1>2, <2>1, <2>2, <2>3 DEF Begin, IssueInv
<1>3. ASSUME NEW r \in Requests, DeleteCode(r) PROVE IssueInv'
  BY <1>3, <1>a, PairsAssumption, NamesAssumption DEF DeleteCode, IssueInv, LockInv, Holding, ArgInv, Exchanging
<1>4. ASSUME NEW r \in Requests, Revoke(r) PROVE IssueInv'
  <2>1. \A q \in Requests : pc'[q] \in Inserted =>
           pc'[q] = "access" \/ (pc[q] = pc'[q] /\ arg'[q] = arg[q])
    BY <1>4, NamesAssumption DEF Revoke
  <2>2. UNCHANGED <<Sent, issued, aged>>
    BY <1>4, <1>a DEF Revoke
  <2>3. \A q \in Requests : pc'[q] = "access" => issued < MaxPairs
    BY <1>4, NamesAssumption DEF Revoke, IssueInv
  <2> QED
    BY <1>4, <2>1, <2>2, <2>3 DEF Revoke, IssueInv
<1>5. ASSUME NEW r \in Requests, InsertAccess(r) PROVE IssueInv'
  BY <1>5, <1>a, PairsAssumption, NamesAssumption DEF InsertAccess, IssueInv, LockInv, Holding, ArgInv, Exchanging
<1>6. ASSUME NEW r \in Requests, InsertRefresh(r) PROVE IssueInv'
  BY <1>6, <1>a, PairsAssumption, NamesAssumption DEF InsertRefresh, IssueInv, LockInv, Holding, ArgInv, Exchanging
<1>7. ASSUME NEW r \in Requests, Commit(r) PROVE IssueInv'
  <2>1. Sent' = Sent \cup {issued} /\ issued \in 1..MaxPairs
    BY <1>7, SentStep DEF Commit, IssueInv
  <2> QED
    BY <1>7, <2>1, NamesAssumption DEF Commit, IssueInv, LockInv, Holding
<1>8. ASSUME NEW p \in Requests \cup {"admin"}, Rollback(p) PROVE IssueInv'
  BY <1>8, <1>a, PairsAssumption, NamesAssumption DEF Rollback, IssueInv, LockInv, Holding, ArgInv, Exchanging
<1>9. ASSUME NEW r \in Requests, NEW c \in Codes, LoadCode(r, c) PROVE IssueInv'
  BY <1>9, <1>a, PairsAssumption, NamesAssumption DEF LoadCode, Take, IssueInv, LockInv, Holding, ArgInv, Exchanging
<1>10. ASSUME NEW r \in Requests, NEW p \in Sent, NEW label \in {"revoke", "withdraw", "forget"},
              Take(r, p, label)
       PROVE IssueInv'
  BY <1>10, <1>a, PairsAssumption, NamesAssumption DEF Take, IssueInv, LockInv, Holding, ArgInv, Exchanging
<1>11. ASSUME NEW k \in Clients, Register(k) PROVE IssueInv'
  BY <1>11, <1>a, PairsAssumption, NamesAssumption DEF Register, IssueInv, LockInv, Holding, ArgInv, Exchanging
<1>12. ASSUME NEW k \in Clients, Sweep(k) PROVE IssueInv'
  <2>1. \A q \in Requests : pc'[q] \in Inserted =>
           pc'[q] = "access" \/ (pc[q] = pc'[q] /\ arg'[q] = arg[q])
    BY <1>12, NamesAssumption DEF Sweep
  <2>2. UNCHANGED <<Sent, issued, aged>>
    BY <1>12, <1>a DEF Sweep
  <2>3. \A q \in Requests : pc'[q] = "access" => issued < MaxPairs
    BY <1>12, NamesAssumption DEF Sweep, IssueInv
  <2> QED
    BY <1>12, <2>1, <2>2, <2>3 DEF Sweep, IssueInv
<1>13. ASSUME NEW c \in Codes, SaveCode(c) PROVE IssueInv'
  <2>1. \A q \in Requests : pc'[q] \in Inserted =>
           pc'[q] = "access" \/ (pc[q] = pc'[q] /\ arg'[q] = arg[q])
    BY <1>13, NamesAssumption DEF SaveCode
  <2>2. UNCHANGED <<Sent, issued, aged>>
    BY <1>13, <1>a DEF SaveCode
  <2>3. \A q \in Requests : pc'[q] = "access" => issued < MaxPairs
    BY <1>13, NamesAssumption DEF SaveCode, IssueInv
  <2>4. \A x \in Codes \cup Pairs : x # c => owner'[x] = owner[x]
    BY <1>13 DEF SaveCode
  <2>5. c \notin Pairs /\ \A q \in Requests : arg[q] # c
    BY <1>13, NamesAssumption DEF SaveCode, CodeInv
  <2>6. \A q \in Requests : pc[q] \in Inserted => arg[q] \in Codes \cup Pairs
    <3>1. Sent \subseteq Pairs
      BY PairsAssumption DEF IssueInv
    <3> QED
      BY <3>1 DEF ArgInv, Exchanging
  <2> QED
    BY <2>1, <2>2, <2>3, <2>4, <2>5, <2>6 DEF IssueInv
<1>14. ASSUME AdminStarts PROVE IssueInv'
  BY <1>14, <1>a, PairsAssumption, NamesAssumption DEF AdminStarts, IssueInv
<1>15. ASSUME ClearClients PROVE IssueInv'
  BY <1>15, <1>a, PairsAssumption, NamesAssumption DEF ClearClients, IssueInv, LockInv, Holding, ArgInv, Exchanging
<1>16. ASSUME ClearTokens PROVE IssueInv'
  BY <1>16, <1>a, PairsAssumption, NamesAssumption DEF ClearTokens, IssueInv, LockInv, Holding, ArgInv, Exchanging
<1>17. ASSUME NEW label \in Inserting, Inserts(label) PROVE IssueInv'
  <2>1. UNCHANGED <<Sent, issued, aged, owner>>
    BY <1>17, <1>a DEF Inserts
  <2>2. \A q \in Requests : pc'[q] = pc[q] /\ arg'[q] = arg[q]
    BY <1>17, NamesAssumption DEF Inserts
  <2> QED
    BY <2>1, <2>2 DEF IssueInv
<1>18. ASSUME CommitInserted PROVE IssueInv'
  BY <1>18, <1>a, PairsAssumption, NamesAssumption DEF CommitInserted, IssueInv
<1>19. ASSUME Expire PROVE IssueInv'
  BY <1>19, <1>a, PairsAssumption, NamesAssumption DEF Expire, IssueInv, LockInv, Holding, ArgInv, Exchanging
<1>20. ASSUME Crash PROVE IssueInv'
  BY <1>20, <1>a, PairsAssumption, NamesAssumption DEF Crash, IssueInv, LockInv, Holding, ArgInv, Exchanging
<1>21. ASSUME UNCHANGED vars PROVE IssueInv'
  BY <1>21, <1>a, PairsAssumption, NamesAssumption DEF vars, IssueInv, LockInv, Holding, ArgInv, Exchanging
<1> QED
  BY <1>1, <1>2, <1>3, <1>4, <1>5, <1>6, <1>7, <1>8, <1>9, <1>10, <1>11,
     <1>12, <1>13, <1>14, <1>15, <1>16, <1>17, <1>18, <1>19, <1>20,
     <1>21
     DEF Next, RequestStep, AdminStep, LoadRefresh, LoadAccess, RevokeToken,
         CreateProxy, RenameToolset, CreateCredential

\* Rows whose client stays and that only become fewer keep what RowsOf says.
LEMMA FewerRows ==
    ASSUME NEW rows \in Rows, RowsOf(rows), NEW fewer \in Rows,
           fewer.clients = rows.clients, fewer.codes \subseteq rows.codes,
           fewer.access \subseteq rows.access, fewer.refresh \subseteq rows.refresh
    PROVE  RowsOf(fewer)
BY DEF RowsOf, InUse

\* What the deleting statements leave.
LEMMA WithoutPairsLeaves ==
    ASSUME NEW rows \in Rows, NEW P
    PROVE  /\ WithoutPairs(rows, P) \in Rows
           /\ WithoutPairs(rows, P).clients = rows.clients
           /\ WithoutPairs(rows, P).codes = rows.codes
           /\ WithoutPairs(rows, P).access = rows.access \ P
           /\ WithoutPairs(rows, P).refresh = rows.refresh \ P
BY DEF WithoutPairs

LEMMA SweptLeaves ==
    ASSUME NEW rows \in Rows
    PROVE  /\ Swept(rows) \in Rows
           /\ Swept(rows).clients = rows.clients
           /\ Swept(rows).codes \subseteq rows.codes
           /\ \E P \in SUBSET (aged.access \cup aged.refresh) :
                 /\ Swept(rows).access = rows.access \ P
                 /\ Swept(rows).refresh = rows.refresh \ P
<1> DEFINE P == (aged.access \cap rows.access) \cup (aged.refresh \cap rows.refresh)
           less == [rows EXCEPT !.codes = @ \ aged.codes]
<1>1. /\ less \in Rows /\ less.clients = rows.clients /\ less.codes = rows.codes \ aged.codes
      /\ less.access = rows.access /\ less.refresh = rows.refresh
  OBVIOUS
<1>2. Swept(rows) = WithoutPairs(less, P)
  BY DEF Swept
<1>3. P \in SUBSET (aged.access \cup aged.refresh)
  OBVIOUS
<1> HIDE DEF P, less
<1>4. /\ WithoutPairs(less, P) \in Rows
      /\ WithoutPairs(less, P).clients = less.clients
      /\ WithoutPairs(less, P).codes = less.codes
      /\ WithoutPairs(less, P).access = less.access \ P
      /\ WithoutPairs(less, P).refresh = less.refresh \ P
  BY <1>1, WithoutPairsLeaves
<1> QED
  BY <1>1, <1>2, <1>3, <1>4

\* A step that inserts nothing and leaves the clients alone.
LEMMA RowsShrink ==
    ASSUME TypeOK, RowsInv, db' \in Rows,
           db'.clients = db.clients, db'.codes \subseteq db.codes,
           db'.access \subseteq db.access, db'.refresh \subseteq db.refresh,
           saved' \in {saved, db, NoRows}, UNCHANGED <<owner, issued>>,
           known \subseteq known', forgotten \subseteq forgotten',
           restored \subseteq restored', UNCHANGED <<known, forgotten>>,
           pc'["admin"] = "tokens" => pc["admin"] = "tokens"
    PROVE  RowsInv'
<1>1. RowsOf(db) /\ RowsOf(saved)
  BY DEF RowsInv
<1>2. RowsOf(db')
  BY <1>1, FewerRows DEF TypeOK
<1>3. RowsOf(NoRows)
  BY DEF RowsOf, NoRows, InUse
<1>4. RowsOf(saved')
  BY <1>1, <1>3
<1>5. RowsOf(db)' /\ RowsOf(saved)'
  BY <1>2, <1>4 DEF RowsOf, InUse
<1> QED
  BY <1>5 DEF RowsInv

\* Rows are inserted for clients that are there only, and rolled back with them.
LEMMA RowsStep ==
    ASSUME TypeOK, LockInv, ArgInv, IssueInv, RowsInv, CodeInv, [Next]_vars
    PROVE  RowsInv'
<1> USE DEF TypeOK
<1>1. ASSUME NEW p \in Procs, NEW next \in {"access"} \cup Inserting, Begin(p, next) PROVE RowsInv'
  BY <1>1, RowsShrink DEF Begin
<1>2. ASSUME NEW r \in Requests, DeleteCode(r) PROVE RowsInv'
  BY <1>2, RowsShrink DEF DeleteCode
<1>3. ASSUME NEW r \in Requests, Revoke(r) PROVE RowsInv'
  <2>1. /\ db' \in Rows /\ db'.clients = db.clients /\ db'.codes = db.codes
        /\ db'.access \subseteq db.access /\ db'.refresh \subseteq db.refresh
    BY <1>3, WithoutPairsLeaves DEF Revoke
  <2> QED
    BY <1>3, <2>1, RowsShrink DEF Revoke
<1>4. ASSUME NEW r \in Requests, InsertAccess(r) PROVE RowsInv'
  <2> USE DEF RowsInv, RowsOf, InUse
  <2>1. issued' = issued + 1 /\ issued' \in Pairs /\ issued' \notin 1..issued
    BY <1>4, PairsAssumption DEF InsertAccess, IssueInv
  <2>2. issued' \notin Codes /\ 1..issued \subseteq 1..issued' /\ issued' \in 1..issued'
    BY <1>4, <2>1, NamesAssumption, PairsAssumption
  <2>3. arg[r] \in Codes \cup Pairs
    <3>1. Sent \subseteq Pairs
      BY PairsAssumption DEF IssueInv
    <3> QED
      BY <1>4, <3>1 DEF InsertAccess, ArgInv, Exchanging
  <2>4. \A x \in Codes \cup Pairs : owner'[x] = IF x = issued' THEN owner[arg[r]] ELSE owner[x]
    BY <1>4, <2>1 DEF InsertAccess
  <2>5. \A x \in db.codes \cup InUse(db) \cup saved.codes \cup InUse(saved) : owner'[x] = owner[x]
    BY <2>1, <2>2, <2>4
  <2>6. RowsOf(saved)'
    BY <1>4, <2>2, <2>5 DEF InsertAccess
  <2>7. CASE owner[arg[r]] \in db.clients
    <3>1. /\ db'.clients = db.clients /\ db'.codes = db.codes
          /\ db'.access = db.access \cup {issued'} /\ db'.refresh = db.refresh
      BY <1>4, <2>7 DEF InsertAccess, InsertPasses
    <3>2. owner'[issued'] \in db.clients
      BY <2>1, <2>4, <2>7
    <3>3. RowsOf(db)'
      BY <1>4, <2>2, <2>5, <3>1, <3>2 DEF InsertAccess
    <3> QED
      BY <1>4, <2>1, <2>3, <2>4, <2>6, <3>1, <3>3 DEF InsertAccess
  <2>8. CASE owner[arg[r]] \notin db.clients
    <3>1. db' = db
      BY <1>4, <2>8 DEF InsertAccess, InsertPasses
    <3>2. RowsOf(db)'
      BY <1>4, <2>2, <2>5, <3>1 DEF InsertAccess
    <3> QED
      BY <1>4, <2>1, <2>3, <2>4, <2>6, <3>1, <3>2 DEF InsertAccess
  <2> QED
    BY <2>7, <2>8
<1>5. ASSUME NEW r \in Requests, InsertRefresh(r) PROVE RowsInv'
  <2> USE DEF RowsInv, RowsOf, InUse
  <2>1. issued \in Pairs /\ issued \in 1..issued /\ owner[issued] = owner[arg[r]]
    BY <1>5, PairsAssumption DEF InsertRefresh, IssueInv
  <2>2. CASE owner[arg[r]] \in db.clients
    <3>1. /\ db'.clients = db.clients /\ db'.codes = db.codes
          /\ db'.access = db.access /\ db'.refresh = db.refresh \cup {issued}
      BY <1>5, <2>2 DEF InsertRefresh, InsertPasses
    <3> QED
      BY <1>5, <2>1, <2>2, <3>1 DEF InsertRefresh
  <2>3. CASE owner[arg[r]] \notin db.clients
    BY <1>5, <2>3, RowsShrink DEF InsertRefresh, InsertPasses
  <2> QED
    BY <2>2, <2>3
<1>6. ASSUME NEW r \in Requests, Commit(r) PROVE RowsInv'
  BY <1>6, RowsShrink DEF Commit
<1>7. ASSUME db' = saved, restored' = restored \cup BroughtBack, saved' = NoRows,
             UNCHANGED <<owner, issued, known, forgotten>>,
             pc'["admin"] = "tokens" => pc["admin"] = "tokens"
      PROVE  RowsInv'
  BY <1>7 DEF RowsInv, RowsOf, InUse, NoRows, BroughtBack
<1>8. ASSUME NEW p \in Requests \cup {"admin"}, Rollback(p) PROVE RowsInv'
  BY <1>7, <1>8 DEF Rollback
<1>9. ASSUME NEW r \in Requests, NEW x, NEW label \in RequestPCs, Take(r, x, label) PROVE RowsInv'
  BY <1>9, RowsShrink, NamesAssumption DEF Take
<1>10. ASSUME NEW k \in Clients, Register(k) PROVE RowsInv'
  <2>1. /\ db'.clients = db.clients \cup {k} /\ db'.codes = db.codes
        /\ db'.access = db.access /\ db'.refresh = db.refresh
    BY <1>10 DEF Register
  <2> QED
    BY <1>10, <2>1 DEF Register, RowsInv, RowsOf, InUse
<1>11. ASSUME NEW k \in Clients, Sweep(k) PROVE RowsInv'
  <2>1. /\ db' \in Rows /\ db'.clients = db.clients /\ db'.codes \subseteq db.codes
        /\ db'.access \subseteq db.access /\ db'.refresh \subseteq db.refresh
    BY <1>11, SweptLeaves DEF Sweep
  <2> QED
    BY <1>11, <2>1, RowsShrink DEF Sweep
<1>12. ASSUME NEW c \in Codes, SaveCode(c) PROVE RowsInv'
  <2> USE DEF RowsInv, RowsOf, InUse
  <2>1. CASE arg["browser"] \in db.clients
    <3>1. /\ db'.clients = db.clients /\ db'.codes = db.codes \cup {c}
          /\ db'.access = db.access /\ db'.refresh = db.refresh
      BY <1>12, <2>1 DEF SaveCode, InsertPasses
    <3>2. \A x \in Codes \cup Pairs : owner'[x] = IF x = c THEN arg["browser"] ELSE owner[x]
      BY <1>12, <2>1 DEF SaveCode, InsertPasses
    <3>3. c \notin db.codes \cup saved.codes /\ c \notin Pairs
      BY <1>12, NamesAssumption DEF SaveCode
    <3>4. arg["browser"] \in known
      BY <2>1
    <3>5. RowsOf(db)'
      BY <1>12, <2>1, <3>1, <3>2, <3>3 DEF SaveCode
    <3>6. RowsOf(saved)'
      BY <1>12, <3>2, <3>3 DEF SaveCode
    <3> QED
      BY <1>12, <3>1, <3>2, <3>4, <3>5, <3>6 DEF SaveCode
  <2>2. CASE arg["browser"] \notin db.clients
    BY <1>12, <2>2, RowsShrink DEF SaveCode, InsertPasses
  <2> QED
    BY <2>1, <2>2
<1>13. AdminStarts => RowsInv'
  BY RowsShrink DEF AdminStarts
<1>14. ClearClients => RowsInv'
  BY DEF ClearClients, RowsInv, RowsOf, InUse, NoRows
<1>15. ASSUME ClearTokens PROVE RowsInv'
  <2>1. /\ db' \in Rows /\ db'.clients = db.clients /\ db'.codes = {}
        /\ db'.access = {} /\ db'.refresh = {}
    BY <1>15 DEF ClearTokens
  <2> QED
    BY <1>15, <2>1, RowsShrink DEF ClearTokens
<1>16. ASSUME NEW label \in Inserting, Inserts(label) PROVE RowsInv'
  BY <1>16, RowsShrink DEF Inserts
<1>17. CommitInserted => RowsInv'
  BY RowsShrink DEF CommitInserted
<1>18. Expire => RowsInv'
  BY RowsShrink DEF Expire
<1>19. ASSUME Crash PROVE RowsInv'
  <2>1. CASE txn = None
    BY <1>19, <2>1, RowsShrink DEF Crash
  <2>2. CASE txn # None
    BY <1>7, <1>19, <2>2 DEF Crash
  <2> QED
    BY <2>1, <2>2
<1>20. UNCHANGED vars => RowsInv'
  BY RowsShrink DEF vars
<1> QED
  BY <1>1, <1>2, <1>3, <1>4, <1>5, <1>6, <1>8, <1>9, <1>10, <1>11, <1>12, <1>13,
     <1>14, <1>15, <1>16, <1>17, <1>18, <1>19, <1>20
     DEF Next, RequestStep, AdminStep, LoadCode, LoadRefresh, LoadAccess, RevokeToken,
         CreateProxy, RenameToolset, CreateCredential

\* A step that inserts no pair, answers nobody and lets no request take out
\* another pair than before.
LEMMA RotateKeeps ==
    ASSUME RotateInv, InUse(db') \subseteq InUse(db), UNCHANGED answered,
           restored \subseteq restored',
           \A q \in Requests : pc'[q] \in Exchanging =>
               \/ pc[q] \in Exchanging /\ arg'[q] = arg[q]
               \/ arg'[q] \notin InUse(db')
    PROVE  RotateInv'
BY DEF RotateInv, RotatedGone, InUse

\* What a request takes out does not come back but by a rollback: new pairs
\* have new numbers.
LEMMA RotateStep ==
    ASSUME TypeOK, LockInv, ArgInv, IssueInv, RotateInv, [Next]_vars
    PROVE  RotateInv'
<1> USE DEF TypeOK
<1> USE NamesAssumption
<1>a. \A x \in Codes : x \notin Pairs
  BY PairsAssumption
<1>1. ASSUME NEW p \in Procs, NEW next \in {"access"} \cup Inserting, Begin(p, next) PROVE RotateInv'
  BY <1>1, RotateKeeps DEF Begin, Exchanging, InUse
<1>2. ASSUME NEW r \in Requests, DeleteCode(r) PROVE RotateInv'
  <2>1. InUse(db') = InUse(db) /\ arg[r] \notin InUse(db)
    BY <1>2, <1>a DEF DeleteCode, InUse, ArgInv
  <2>2. arg'[r] = arg[r] \/ pc'[r] \notin Exchanging
    BY <1>2 DEF DeleteCode, Exchanging
  <2>3. \A q \in Requests \ {r} : pc'[q] = pc[q] /\ arg'[q] = arg[q]
    BY <1>2 DEF DeleteCode
  <2>4. UNCHANGED <<answered, restored>>
    BY <1>2 DEF DeleteCode
  <2> QED
    BY <2>1, <2>2, <2>3, <2>4, RotateKeeps
<1>3. ASSUME NEW r \in Requests, Revoke(r) PROVE RotateInv'
  <2>1. InUse(db') \subseteq InUse(db) /\ arg[r] \notin InUse(db')
    BY <1>3, WithoutPairsLeaves DEF Revoke, InUse
  <2>2. arg'[r] = arg[r] \/ pc'[r] \notin Exchanging
    BY <1>3 DEF Revoke, Exchanging
  <2>3. \A q \in Requests \ {r} : pc'[q] = pc[q] /\ arg'[q] = arg[q]
    BY <1>3 DEF Revoke
  <2>4. UNCHANGED <<answered, restored>>
    BY <1>3 DEF Revoke
  <2> QED
    BY <2>1, <2>2, <2>3, <2>4, RotateKeeps
<1>4. ASSUME NEW x, InUse(db') \subseteq InUse(db) \cup {x}, x \notin Codes \cup Sent,
             UNCHANGED <<answered, restored>>,
             \A q \in Requests : pc'[q] \in Exchanging =>
                 pc[q] \in Exchanging /\ arg'[q] = arg[q]
      PROVE  RotateInv'
  BY <1>4 DEF RotateInv, RotatedGone, ArgInv, InUse
<1>5. ASSUME NEW r \in Requests, InsertAccess(r) PROVE RotateInv'
  <2>1. issued' = issued + 1 /\ issued' \in Pairs /\ issued' \notin 1..issued
    BY <1>5, PairsAssumption DEF InsertAccess, IssueInv
  <2>2. issued' \notin Codes \cup Sent
    BY <1>a, <2>1 DEF IssueInv
  <2>3. InUse(db') \subseteq InUse(db) \cup {issued'}
    BY <1>5 DEF InsertAccess, InUse
  <2> QED
    BY <1>4, <1>5, <2>2, <2>3 DEF InsertAccess, Exchanging
<1>6. ASSUME NEW r \in Requests, InsertRefresh(r) PROVE RotateInv'
  <2>1. issued \notin Codes \cup Sent
    BY <1>6, <1>a DEF InsertRefresh, IssueInv
  <2>2. InUse(db') \subseteq InUse(db) \cup {issued}
    BY <1>6 DEF InsertRefresh, InUse
  <2> QED
    BY <1>4, <1>6, <2>1, <2>2 DEF InsertRefresh, Exchanging
<1>7. ASSUME NEW r \in Requests, Commit(r) PROVE RotateInv'
  <2>1. arg[r] \in InUse(db) => arg[r] \in restored
    BY <1>7 DEF Commit, RotateInv, Exchanging
  <2> QED
    BY <1>7, <2>1 DEF Commit, RotateInv, RotatedGone, InUse, Exchanging
<1>8. ASSUME db' = saved, restored' = restored \cup BroughtBack, UNCHANGED answered,
             \A q \in Requests : pc'[q] \in Exchanging =>
                 pc[q] \in Exchanging /\ arg'[q] = arg[q]
      PROVE  RotateInv'
  BY <1>8 DEF RotateInv, RotatedGone, InUse, BroughtBack
<1>9. ASSUME NEW p \in Requests \cup {"admin"}, Rollback(p) PROVE RotateInv'
  BY <1>8, <1>9 DEF Rollback, Exchanging
<1>10. ASSUME NEW r \in Requests, NEW x, NEW label \in {"delete", "revoke", "withdraw", "forget"},
              Take(r, x, label)
       PROVE  RotateInv'
  BY <1>10, RotateKeeps DEF Take, Exchanging
<1>11. ASSUME NEW k \in Clients, Register(k) PROVE RotateInv'
  BY <1>11, RotateKeeps DEF Register, InUse
<1>12. ASSUME NEW k \in Clients, Sweep(k) PROVE RotateInv'
  <2>1. InUse(db') \subseteq InUse(db)
    BY <1>12, SweptLeaves DEF Sweep, InUse
  <2> QED
    BY <1>12, <2>1, RotateKeeps DEF Sweep
<1>13. ASSUME NEW c \in Codes, SaveCode(c) PROVE RotateInv'
  <2>1. InUse(db') = InUse(db)
    BY <1>13 DEF SaveCode, InUse
  <2> QED
    BY <1>13, <2>1, RotateKeeps DEF SaveCode
<1>14. AdminStarts => RotateInv'
  BY RotateKeeps DEF AdminStarts
<1>15. ClearClients => RotateInv'
  BY RotateKeeps DEF ClearClients, InUse, NoRows
<1>16. ClearTokens => RotateInv'
  BY RotateKeeps DEF ClearTokens, InUse
<1>17. ASSUME NEW label \in Inserting, Inserts(label) PROVE RotateInv'
  BY <1>17, RotateKeeps DEF Inserts
<1>18. CommitInserted => RotateInv'
  BY RotateKeeps DEF CommitInserted
<1>19. Expire => RotateInv'
  BY RotateKeeps DEF Expire
<1>20. ASSUME Crash PROVE RotateInv'
  <2>1. \A q \in Requests : pc'[q] \notin Exchanging
    BY <1>20 DEF Crash, Exchanging
  <2>2. CASE txn = None
    BY <1>20, <2>1, <2>2, RotateKeeps DEF Crash
  <2>3. CASE txn # None
    BY <1>8, <1>20, <2>1, <2>3 DEF Crash
  <2> QED
    BY <2>2, <2>3
<1>21. UNCHANGED vars => RotateInv'
  BY RotateKeeps DEF vars
<1> QED
  BY <1>1, <1>2, <1>3, <1>5, <1>6, <1>7, <1>9, <1>10, <1>11, <1>12, <1>13, <1>14,
     <1>15, <1>16, <1>17, <1>18, <1>19, <1>20, <1>21
     DEF Next, RequestStep, AdminStep, LoadCode, LoadRefresh, LoadAccess, RevokeToken,
         CreateProxy, RenameToolset, CreateCredential

\* A step after which no pair is inserted half that was not before.
LEMMA HalfKeeps ==
    ASSUME TypeOK, HalfInv, NEW P, db' \in Rows,
           db'.access = db.access \ P, db'.refresh = db.refresh \ P,
           db'.clients \subseteq db.clients,
           UNCHANGED <<saved, txn, owner, issued>>, restored \subseteq restored',
           \A q \in Requests : pc[q] = "refresh" <=> pc'[q] = "refresh",
           \A q \in Requests : pc[q] = "refresh" =>
               \/ issued \notin P
               \/ owner[issued] \notin db'.clients \ restored
    PROVE  HalfInv'
BY PairsAssumption DEF HalfInv, PairsWhole, TypeOK

\* What comes and goes meanwhile takes a pair whole; of the pair half inserted
\* nobody has heard, so that only its client can go.
LEMMA HalfStep ==
    ASSUME TypeOK, LockInv, ArgInv, IssueInv, RowsInv, HalfInv, [Next]_vars
    PROVE  HalfInv'
<1> USE DEF TypeOK
<1> USE NamesAssumption
<1>a. \A q \in Requests : pc[q] = "refresh" =>
          txn = q /\ issued \in Pairs \ Sent /\ owner[issued] \in known \cup {None}
  BY DEF LockInv, Holding, IssueInv, RowsInv
<1>b. \A q \in Requests : pc[q] = "refresh" =>
          issued \notin aged.access \cup aged.refresh
  BY <1>a DEF IssueInv
<1>c. db.access = db.access \ {} /\ db.refresh = db.refresh \ {}
  OBVIOUS
<1>1. ASSUME NEW p \in Requests \cup {"admin"}, NEW next \in {"access"} \cup Inserting, Begin(p, next)
      PROVE  HalfInv'
  <2>1. CASE txn = None
    <3>1. \A q \in Requests : pc[q] # "refresh" /\ pc'[q] # "refresh"
      BY <1>1, <1>a, <2>1 DEF Begin
    <3> QED
      BY <1>1, <2>1, <3>1 DEF Begin, HalfInv, PairsWhole
  <2>2. CASE txn # None
    BY <1>1, <1>c, <2>2, HalfKeeps DEF Begin
  <2> QED
    BY <2>1, <2>2
<1>2. ASSUME NEW r \in Requests, DeleteCode(r) PROVE HalfInv'
  <2>1. db'.access = db.access \ {} /\ db'.refresh = db.refresh \ {}
        /\ db'.clients = db.clients /\ db' \in Rows
    BY <1>2 DEF DeleteCode
  <2> QED
    BY <1>2, <2>1, HalfKeeps DEF DeleteCode
<1>3. ASSUME NEW r \in Requests, Revoke(r) PROVE HalfInv'
  <2>1. db'.access = db.access \ {arg[r]} /\ db'.refresh = db.refresh \ {arg[r]}
        /\ db'.clients = db.clients /\ db' \in Rows
    BY <1>3, WithoutPairsLeaves DEF Revoke
  <2>2. arg[r] \in Sent
    BY <1>3 DEF Revoke, ArgInv
  <2>3. \A q \in Requests : pc[q] = "refresh" <=> pc'[q] = "refresh"
    BY <1>3 DEF Revoke
  <2>4. UNCHANGED <<saved, txn, owner, issued, restored>>
    BY <1>3 DEF Revoke
  <2>5. \A q \in Requests : pc[q] = "refresh" => issued \notin {arg[r]}
    BY <1>a, <2>2
  <2> QED
    BY <2>1, <2>3, <2>4, <2>5, HalfKeeps
<1>4. ASSUME NEW r \in Requests, InsertAccess(r) PROVE HalfInv'
  <2>1. issued' = issued + 1 /\ issued' \in Pairs /\ issued' \notin 1..issued
    BY <1>4, PairsAssumption DEF InsertAccess, IssueInv
  <2>2. issued' \notin InUse(db) \cup InUse(saved)
    BY <2>1 DEF RowsInv, RowsOf
  <2>3. txn = r /\ \A q \in Requests : pc[q] # "refresh" /\ (pc'[q] = "refresh" => q = r)
    BY <1>4, <1>a DEF InsertAccess, LockInv, Holding
  <2>4. \A p \in Pairs : p # issued' =>
            /\ owner'[p] = owner[p]
            /\ p \in db'.access <=> p \in db.access
            /\ p \in db'.refresh <=> p \in db.refresh
    BY <1>4 DEF InsertAccess
  <2>5. IF pc'[r] = "refresh" THEN issued' \in db'.access ELSE issued' \notin InUse(db')
    BY <1>4, <2>2 DEF InsertAccess, InUse
  <2>6. txn' = txn /\ saved' = saved /\ restored' = restored
    BY <1>4 DEF InsertAccess
  <2> QED
    BY <2>1, <2>2, <2>3, <2>4, <2>5, <2>6 DEF HalfInv, PairsWhole, InUse
<1>5. ASSUME NEW r \in Requests, InsertRefresh(r) PROVE HalfInv'
  <2>1. txn = r /\ issued \in Pairs /\ owner[issued] = owner[arg[r]]
    BY <1>5, <1>a DEF InsertRefresh, IssueInv
  <2>2. \A q \in Requests : pc'[q] # "refresh"
    BY <1>5, <1>a DEF InsertRefresh
  <2>3. UNCHANGED <<txn, saved, owner, issued, restored>>
    BY <1>5 DEF InsertRefresh
  <2>4. CASE owner[issued] \in db.clients
    <3>1. issued \in db.access \/ owner[issued] \in restored
      BY <1>5, <2>4 DEF InsertRefresh, HalfInv
    <3>2. db'.access = db.access /\ db'.refresh = db.refresh \cup {issued}
      BY <1>5, <2>1, <2>4 DEF InsertRefresh, InsertPasses
    <3> QED
      BY <2>1, <2>2, <2>3, <3>1, <3>2 DEF HalfInv, PairsWhole
  <2>5. CASE owner[issued] \notin db.clients
    <3>1. issued \notin db.access /\ issued \notin db.refresh
      BY <2>5 DEF RowsInv, RowsOf, InUse
    <3>2. db' = db
      BY <1>5, <2>1, <2>5 DEF InsertRefresh, InsertPasses
    <3> QED
      BY <2>1, <2>2, <2>3, <3>1, <3>2 DEF HalfInv, PairsWhole
  <2> QED
    BY <2>4, <2>5
<1>6. ASSUME \A q \in Requests : pc[q] # "refresh" /\ pc'[q] # "refresh",
             saved' = NoRows, db' \in {db, saved},
             UNCHANGED <<owner, issued>>, restored \subseteq restored'
      PROVE  HalfInv'
  BY <1>6 DEF HalfInv, PairsWhole, NoRows
<1>7. ASSUME NEW r \in Requests, Commit(r) PROVE HalfInv'
  <2>1. \A q \in Requests : pc[q] # "refresh" /\ pc'[q] # "refresh"
    BY <1>7, <1>a DEF Commit, LockInv, Holding
  <2> QED
    BY <1>6, <1>7, <2>1 DEF Commit
<1>8. ASSUME NEW p \in Requests \cup {"admin"}, Rollback(p) PROVE HalfInv'
  <2>1. \A q \in Requests : pc[q] # "refresh" /\ pc'[q] # "refresh"
    BY <1>8, <1>a DEF Rollback, LockInv, Holding
  <2> QED
    BY <1>6, <1>8, <2>1 DEF Rollback
<1>9. ASSUME NEW r \in Requests, NEW x, NEW label \in {"delete", "revoke", "withdraw", "forget"},
             Take(r, x, label)
      PROVE  HalfInv'
  BY <1>9, <1>c, HalfKeeps DEF Take
<1>10. ASSUME NEW k \in Clients, Register(k) PROVE HalfInv'
  <2>1. db'.clients = db.clients \cup {k} /\ db'.access = db.access /\ db'.refresh = db.refresh
    BY <1>10 DEF Register
  <2>2. \A q \in Requests : pc[q] = "refresh" => owner[issued] # k
    BY <1>10, <1>a DEF Register
  <2> QED
    BY <1>10, <2>1, <2>2 DEF Register, HalfInv, PairsWhole
<1>11. ASSUME NEW k \in Clients, Sweep(k) PROVE HalfInv'
  <2>1. PICK P \in SUBSET (aged.access \cup aged.refresh) :
            db'.access = db.access \ P /\ db'.refresh = db.refresh \ P
    BY <1>11, SweptLeaves DEF Sweep
  <2>2. db' \in Rows /\ db'.clients = db.clients
    BY <1>11, SweptLeaves DEF Sweep
  <2> QED
    BY <1>11, <1>b, <2>1, <2>2, HalfKeeps DEF Sweep
<1>12. ASSUME NEW c \in Codes, SaveCode(c) PROVE HalfInv'
  <2>1. c \notin Pairs /\ \A p \in Pairs : owner'[p] = owner[p]
    BY <1>12, PairsAssumption DEF SaveCode
  <2>2. db'.access = db.access /\ db'.refresh = db.refresh /\ db'.clients = db.clients
    BY <1>12 DEF SaveCode
  <2> QED
    BY <1>12, <1>a, <2>1, <2>2 DEF SaveCode, HalfInv, PairsWhole
<1>13. AdminStarts => HalfInv'
  BY <1>c, HalfKeeps DEF AdminStarts
<1>14. ASSUME ClearClients PROVE HalfInv'
  <2>1. db'.access = db.access \ Pairs /\ db'.refresh = db.refresh \ Pairs
        /\ db'.clients = {} /\ db' \in Rows
    BY <1>14 DEF ClearClients, NoRows
  <2> QED
    BY <1>14, <2>1, HalfKeeps DEF ClearClients
<1>15. ASSUME ClearTokens PROVE HalfInv'
  <2>1. db'.access = db.access \ Pairs /\ db'.refresh = db.refresh \ Pairs
        /\ db'.clients = db.clients /\ db' \in Rows
    BY <1>15 DEF ClearTokens
  <2>2. db.clients \subseteq restored
    BY <1>15 DEF ClearTokens, RowsInv
  <2> QED
    BY <1>15, <2>1, <2>2, HalfKeeps DEF ClearTokens
<1>16. ASSUME NEW label \in Inserting, Inserts(label) PROVE HalfInv'
  BY <1>16, <1>c, HalfKeeps DEF Inserts
<1>17. ASSUME CommitInserted PROVE HalfInv'
  <2>1. \A q \in Requests : pc[q] # "refresh" /\ pc'[q] # "refresh"
    BY <1>17, <1>a DEF CommitInserted, LockInv, Holding
  <2> QED
    BY <1>6, <1>17, <2>1 DEF CommitInserted
<1>18. Expire => HalfInv'
  BY <1>c, HalfKeeps DEF Expire
<1>19. ASSUME Crash PROVE HalfInv'
  <2>1. /\ txn' = None /\ saved' = NoRows /\ UNCHANGED <<owner, issued>>
        /\ restored \subseteq restored' /\ \A q \in Requests : pc'[q] # "refresh"
    BY <1>19 DEF Crash
  <2>2. CASE txn = None
    <3>1. \A q \in Requests : pc[q] # "refresh"
      BY <1>a, <2>2
    <3> QED
      BY <1>6, <1>19, <2>1, <2>2, <3>1 DEF Crash
  <2>3. CASE txn # None
    BY <1>19, <2>1, <2>3 DEF Crash, HalfInv, PairsWhole, NoRows
  <2> QED
    BY <2>2, <2>3
<1>20. UNCHANGED vars => HalfInv'
  BY DEF vars, HalfInv, PairsWhole
<1> QED
  BY <1>1, <1>2, <1>3, <1>4, <1>5, <1>7, <1>8, <1>9, <1>10, <1>11, <1>12, <1>13,
     <1>14, <1>15, <1>16, <1>17, <1>18, <1>19, <1>20
     DEF Next, RequestStep, AdminStep, LoadCode, LoadRefresh, LoadAccess, RevokeToken,
         CreateProxy, RenameToolset, CreateCredential

\* A step that issues and answers nothing and lets no request take out another
\* code than before.
LEMMA CodeKeeps ==
    ASSUME CodeInv, db'.codes \subseteq db.codes, UNCHANGED answered,
           \A c \in Codes : owner'[c] = owner[c], restored \subseteq restored',
           \A q \in Requests : arg'[q] \in Codes =>
               arg'[q] = arg[q] /\ (pc'[q] \in Exchanging => pc[q] \in Exchanging)
    PROVE  CodeInv'
BY DEF CodeInv, Taken

\* Only who deletes the row goes on with a code, and it ends with one answer.
LEMMA CodeStep ==
    ASSUME TypeOK, ArgInv, IssueInv, RowsInv, CodeInv, [Next]_vars
    PROVE  CodeInv'
<1> USE DEF TypeOK
<1> USE NamesAssumption
<1>a. \A c \in Codes : c \notin 0..MaxPairs /\ c # 0 /\ c \notin Pairs
  BY PairsAssumption
<1>b. Sent \subseteq Pairs
  BY PairsAssumption DEF IssueInv
<1>c. \A c \in db.codes \cup saved.codes : c \in Codes /\ owner[c] # None
  BY DEF RowsInv, RowsOf
<1>1. ASSUME NEW p \in Procs, NEW next \in {"access"} \cup Inserting, Begin(p, next) PROVE CodeInv'
  BY <1>1, <1>a, CodeKeeps DEF Begin, Exchanging
<1>2. ASSUME NEW r \in Requests, DeleteCode(r) PROVE CodeInv'
  <2>1. arg[r] \in Codes /\ db'.codes = db.codes \ {arg[r]}
        /\ UNCHANGED <<owner, answered, restored>>
    BY <1>2 DEF DeleteCode, ArgInv
  <2>2. \A q \in Requests \ {r} : pc'[q] = pc[q] /\ arg'[q] = arg[q]
    BY <1>2 DEF DeleteCode
  <2>3. CASE arg[r] \in db.codes
    <3>1. pc'[r] = "begin" /\ arg'[r] = arg[r]
      BY <1>2, <2>3 DEF DeleteCode
    <3> QED
      BY <1>c, <2>1, <2>2, <2>3, <3>1 DEF CodeInv, Taken
  <2>4. CASE arg[r] \notin db.codes
    <3>1. arg'[r] = 0
      BY <1>2, <2>4 DEF DeleteCode
    <3> QED
      BY <1>a, <2>1, <2>2, <3>1, CodeKeeps
  <2> QED
    BY <2>3, <2>4
<1>3. ASSUME NEW r \in Requests, Revoke(r) PROVE CodeInv'
  <2>0. arg[r] \in Pairs /\ arg'[r] \in {arg[r], 0}
    <3>1. arg[r] \in Sent
      BY <1>3 DEF Revoke, ArgInv
    <3>2. arg'[r] \in {arg[r], 0}
      BY <1>3 DEF Revoke
    <3> QED
      BY <1>b, <3>1, <3>2
  <2>1. arg'[r] \notin Codes
    BY <1>a, <2>0
  <2>2. db'.codes = db.codes
    BY <1>3, WithoutPairsLeaves DEF Revoke
  <2>3. /\ UNCHANGED <<owner, answered, restored>>
        /\ \A q \in Requests \ {r} : pc'[q] = pc[q] /\ arg'[q] = arg[q]
    BY <1>3 DEF Revoke
  <2> QED
    BY <2>1, <2>2, <2>3, CodeKeeps
<1>4. ASSUME NEW r \in Requests, InsertAccess(r) PROVE CodeInv'
  <2>1. issued' \notin Codes
    BY <1>4, <1>a, PairsAssumption DEF InsertAccess, IssueInv
  <2>2. db'.codes = db.codes /\ \A c \in Codes : owner'[c] = owner[c]
    BY <1>4, <2>1 DEF InsertAccess
  <2> QED
    BY <1>4, <2>2, CodeKeeps DEF InsertAccess, Exchanging
<1>5. ASSUME NEW r \in Requests, InsertRefresh(r) PROVE CodeInv'
  <2>1. db'.codes = db.codes
    BY <1>5 DEF InsertRefresh
  <2> QED
    BY <1>5, <2>1, CodeKeeps DEF InsertRefresh, Exchanging
<1>6. ASSUME NEW r \in Requests, Commit(r) PROVE CodeInv'
  <2>1. /\ answered' = answered \cup {<<arg[r], issued>>} /\ UNCHANGED <<db, owner, restored>>
        /\ pc'[r] = "idle" /\ arg'[r] = 0
        /\ \A q \in Requests \ {r} : pc'[q] = pc[q] /\ arg'[q] = arg[q]
    BY <1>6 DEF Commit
  <2>2. \A c \in Codes, p \in Pairs : <<c, p>> \in answered' =>
            <<c, p>> \in answered \/ (c = arg[r] /\ p = issued)
    BY <2>1
  <2>3. pc[r] \in Exchanging /\ Taken(r, arg[r])
    BY <1>6 DEF Commit, Exchanging, Taken
  <2>4. \A q \in Requests, c \in Codes : Taken(q, c)' => Taken(q, c) /\ q # r
    BY <1>a, <2>1 DEF Taken
  <2>5. \A c \in Codes : owner[c] = None =>
            /\ \A p \in Pairs : <<c, p>> \notin answered'
            /\ \A q \in Requests : arg'[q] # c
    BY <1>a, <2>1, <2>2, <2>3 DEF CodeInv
  <2>6. ASSUME NEW c \in Codes \ restored
        PROVE  /\ \A p, q \in Pairs : <<c, p>> \in answered' /\ <<c, q>> \in answered' => p = q
               /\ \A p \in Pairs : <<c, p>> \in answered' =>
                     c \notin db.codes /\ \A q \in Requests : ~Taken(q, c)'
               /\ c \in db.codes => \A q \in Requests : ~Taken(q, c)'
               /\ \A q, s \in Requests : Taken(q, c)' /\ Taken(s, c)' => q = s
    BY <2>2, <2>3, <2>4 DEF CodeInv
  <2> QED
    BY <2>1, <2>5, <2>6 DEF CodeInv
<1>7. ASSUME db' = saved, restored' = restored \cup BroughtBack, UNCHANGED <<owner, answered>>,
             \A q \in Requests : arg'[q] \in Codes => arg'[q] = arg[q] /\ pc'[q] = pc[q]
      PROVE  CodeInv'
  <2>1. \A c \in Codes \ restored' : c \in db'.codes => c \in db.codes
    BY <1>7 DEF BroughtBack
  <2> QED
    BY <1>7, <2>1 DEF CodeInv, Taken
<1>8. ASSUME NEW p \in Requests \cup {"admin"}, Rollback(p) PROVE CodeInv'
  BY <1>7, <1>8, <1>a DEF Rollback
<1>9. ASSUME NEW r \in Requests, NEW c \in Codes, LoadCode(r, c) PROVE CodeInv'
  <2>1. /\ UNCHANGED <<db, owner, answered, restored>>
        /\ pc'[r] = "delete" /\ arg'[r] = c /\ c \in db.codes
        /\ \A q \in Requests \ {r} : pc'[q] = pc[q] /\ arg'[q] = arg[q]
    BY <1>9 DEF LoadCode, Take
  <2> QED
    BY <1>c, <2>1 DEF CodeInv, Taken, Exchanging
<1>10. ASSUME NEW r \in Requests, NEW p \in Sent, NEW label \in RequestPCs, Take(r, p, label)
       PROVE  CodeInv'
  BY <1>10, <1>a, <1>b, CodeKeeps DEF Take
<1>11. ASSUME NEW k \in Clients, Register(k) PROVE CodeInv'
  <2>1. db'.codes = db.codes
    BY <1>11 DEF Register
  <2> QED
    BY <1>11, <2>1, CodeKeeps DEF Register
<1>12. ASSUME NEW k \in Clients, Sweep(k) PROVE CodeInv'
  <2>1. db'.codes \subseteq db.codes
    BY <1>12, SweptLeaves DEF Sweep
  <2> QED
    BY <1>12, <2>1, CodeKeeps DEF Sweep
<1>13. ASSUME NEW c \in Codes, SaveCode(c) PROVE CodeInv'
  <2>1. /\ owner[c] = None /\ UNCHANGED <<answered, restored>>
        /\ \A d \in Codes \ {c} : owner'[d] = owner[d]
        /\ db'.codes \subseteq db.codes \cup {c}
        /\ \A q \in Requests : pc'[q] = pc[q] /\ arg'[q] = arg[q]
    BY <1>13 DEF SaveCode
  <2> QED
    BY <2>1 DEF CodeInv, Taken
<1>14. AdminStarts => CodeInv'
  BY CodeKeeps DEF AdminStarts
<1>15. ClearClients => CodeInv'
  BY CodeKeeps DEF ClearClients, NoRows
<1>16. ASSUME ClearTokens PROVE CodeInv'
  <2>1. db'.codes = {}
    BY <1>16 DEF ClearTokens
  <2> QED
    BY <1>16, <2>1, CodeKeeps DEF ClearTokens
<1>17. ASSUME NEW label \in Inserting, Inserts(label) PROVE CodeInv'
  BY <1>17, CodeKeeps DEF Inserts
<1>18. CommitInserted => CodeInv'
  BY CodeKeeps DEF CommitInserted
<1>19. Expire => CodeInv'
  BY CodeKeeps DEF Expire
<1>20. ASSUME Crash PROVE CodeInv'
  <2>1. \A q \in Requests : arg'[q] \notin Codes
    BY <1>20, <1>a DEF Crash
  <2>2. CASE txn = None
    BY <1>20, <2>1, <2>2, CodeKeeps DEF Crash
  <2>3. CASE txn # None
    BY <1>7, <1>20, <2>1, <2>3 DEF Crash
  <2> QED
    BY <2>2, <2>3
<1>21. UNCHANGED vars => CodeInv'
  BY CodeKeeps DEF vars
<1> QED
  BY <1>1, <1>2, <1>3, <1>4, <1>5, <1>6, <1>8, <1>9, <1>10, <1>11, <1>12, <1>13,
     <1>14, <1>15, <1>16, <1>17, <1>18, <1>19, <1>20, <1>21
     DEF Next, RequestStep, AdminStep, LoadRefresh, LoadAccess, RevokeToken,
         CreateProxy, RenameToolset, CreateCredential

LEMMA Step == IInv /\ [Next]_vars => IInv'
BY TypeStep, LockStep, ArgStep, IssueStep, RowsStep, RotateStep, HalfStep, CodeStep DEF IInv

-----------------------------------------------------------------------------
(* The results. *)

LEMMA Invariant == Spec => []IInv
BY Start, Step, PTL DEF Spec

\* Every variable of the OAuth server stays within its type.
THEOREM TypeCorrect == Spec => []TypeOK
BY Invariant, PTL DEF IInv

\* The two tokens of a pair come and go together (sqlite_store.py, the sweep and
\* the deletions by either hash; provider.py, revoke_token).
THEOREM PairsWholeHolds == Spec => []PairsWhole
BY Invariant, PTL DEF IInv, HalfInv

\* A pair that has been exchanged for another stays out of the database
\* (provider.py, exchange_refresh_token).
THEOREM RotatedGoneHolds == Spec => []RotatedGone
BY Invariant, PTL DEF IInv, RotateInv

\* After disconnect_all no code or token of a client it has removed is valid
\* (sqlite_store.py, clear, against the statements of save_token_pair).
THEOREM DisconnectHoldsHolds == Spec => []DisconnectHolds
<1>1. IInv => DisconnectHolds
  BY DEF IInv, RowsInv, RowsOf, InUse, DisconnectHolds
<1> QED
  BY <1>1, Invariant, PTL

\* Who has a transaction open is about to end it (sqlite_store.py,
\* save_token_pair; store/toolsets.py and store/credentials.py).
THEOREM TxnEndsHolds == Spec => []TxnEnds
<1>1. IInv => TxnEnds
  BY NamesAssumption DEF IInv, TypeOK, LockInv, Holding, TxnEnds
<1> QED
  BY <1>1, Invariant, PTL

-----------------------------------------------------------------------------
(* The server implements Grants: its steps, seen through Fate, are steps of   *)
(* Grants or change nothing.                                                  *)

\* How far each code has come, without counting its answers.
FateShape == \A c \in Codes :
    /\ c \in restored => Fate(c) = "void"
    /\ c \notin restored /\ owner[c] = None => Fate(c) = "unused"
    /\ c \notin restored /\ owner[c] # None /\ Answers(c) = {} =>
          Fate(c) = IF c \in db.codes THEN "live" ELSE "gone"
    /\ c \notin restored /\ owner[c] # None /\ Answers(c) # {} => Fate(c) = "done"

LEMMA FateIs == TypeOK /\ CodeInv => FateShape
<1> SUFFICES ASSUME CodeInv, NEW c \in Codes, c \notin restored
             PROVE  ~(Cardinality(Answers(c)) > 1)
  BY DEF FateShape, Fate
<1>1. CASE Answers(c) = {}
  BY <1>1, FS_EmptySet
<1>2. CASE Answers(c) # {}
  <2>1. PICK p \in Pairs : <<c, p>> \in answered
    BY <1>2 DEF Answers
  <2>2. \A q \in Pairs : <<c, q>> \in answered => q = p
    BY <2>1 DEF CodeInv
  <2>3. Answers(c) = {p}
    BY <2>1, <2>2 DEF Answers
  <2> QED
    BY <1>2, <2>3, FS_Singleton
<1> QED
  BY <1>1, <1>2

\* What a step may do to a code.
LEMMA CodeMoves ==
    ASSUME IInv, [Next]_vars, NEW c \in Codes
    PROVE  /\ c \in restored => c \in restored'
           /\ owner[c] # None => owner'[c] # None
           /\ answered \subseteq answered'
           /\ \A p \in Pairs : <<c, p>> \in answered' \ answered =>
                 owner[c] # None /\ (c \in restored \/ c \notin db.codes)
           /\ c \in db'.codes \ db.codes => owner[c] = None \/ c \in restored'
           /\ c \in restored' \ restored => c \notin db.codes /\ owner[c] # None
           /\ owner[c] = None /\ owner'[c] # None => c \in db'.codes /\ UNCHANGED answered
<1> DEFINE Result ==
           /\ c \in restored => c \in restored'
           /\ owner[c] # None => owner'[c] # None
           /\ answered \subseteq answered'
           /\ \A p \in Pairs : <<c, p>> \in answered' \ answered =>
                 owner[c] # None /\ (c \in restored \/ c \notin db.codes)
           /\ c \in db'.codes \ db.codes => owner[c] = None \/ c \in restored'
           /\ c \in restored' \ restored => c \notin db.codes /\ owner[c] # None
           /\ owner[c] = None /\ owner'[c] # None => c \in db'.codes /\ UNCHANGED answered
<1> SUFFICES Result
  OBVIOUS
<1> USE DEF IInv, TypeOK
<1>a. c \notin 0..MaxPairs
  BY NamesAssumption
<1>b. c \in saved.codes => owner[c] # None
  BY NamesAssumption DEF RowsInv, RowsOf
<1>1. ASSUME UNCHANGED <<owner, answered, restored>>, db'.codes \subseteq db.codes
      PROVE  Result
  BY <1>1
<1>2. ASSUME NEW r \in Requests, InsertAccess(r) PROVE Result
  <2>1. issued' # c /\ db'.codes = db.codes
    BY <1>2, <1>a, PairsAssumption DEF InsertAccess, IssueInv
  <2> QED
    BY <1>2, <2>1 DEF InsertAccess
<1>3. ASSUME NEW r \in Requests, Commit(r) PROVE Result
  <2>1. arg[r] = c => owner[c] # None /\ (c \in restored \/ c \notin db.codes)
    BY <1>3 DEF Commit, CodeInv, Taken, Exchanging
  <2> QED
    BY <1>3, <2>1 DEF Commit
<1>4. ASSUME NEW d \in Codes, SaveCode(d) PROVE Result
  <2>1. UNCHANGED <<answered, restored>> /\ owner[d] = None
    BY <1>4 DEF SaveCode
  <2>2. CASE c = d
    BY <1>4, <2>1, <2>2 DEF SaveCode
  <2>3. CASE c # d
    BY <1>4, <2>1, <2>3 DEF SaveCode
  <2> QED
    BY <2>2, <2>3
<1>5. ASSUME db' = saved, restored' = restored \cup BroughtBack, UNCHANGED <<owner, answered>>
      PROVE  Result
  <2>1. c \in BroughtBack => c \notin db.codes /\ owner[c] # None
    BY <1>a, <1>b, NamesAssumption DEF BroughtBack
  <2>2. c \in saved.codes \ db.codes => c \in BroughtBack
    BY DEF BroughtBack
  <2> QED
    BY <1>5, <2>1, <2>2
<1>6. ASSUME NEW p \in Requests \cup {"admin"}, Rollback(p) PROVE Result
  BY <1>5, <1>6 DEF Rollback
<1>7. ASSUME Crash PROVE Result
  BY <1>1, <1>5, <1>7 DEF Crash
<1>8. ASSUME NEW p \in Procs, NEW next \in {"access"} \cup Inserting, Begin(p, next) PROVE Result
  BY <1>1, <1>8 DEF Begin
<1>9. ASSUME NEW r \in Requests, DeleteCode(r) PROVE Result
  BY <1>1, <1>9 DEF DeleteCode
<1>10. ASSUME NEW r \in Requests, Revoke(r) PROVE Result
  BY <1>1, <1>10, WithoutPairsLeaves DEF Revoke
<1>11. ASSUME NEW r \in Requests, InsertRefresh(r) PROVE Result
  BY <1>1, <1>11 DEF InsertRefresh
<1>12. ASSUME NEW r \in Requests, NEW x, NEW label, Take(r, x, label) PROVE Result
  BY <1>1, <1>12 DEF Take
<1>13. ASSUME NEW k \in Clients, Register(k) PROVE Result
  BY <1>1, <1>13 DEF Register
<1>14. ASSUME NEW k \in Clients, Sweep(k) PROVE Result
  BY <1>1, <1>14, SweptLeaves DEF Sweep
<1>15. AdminStarts => Result
  BY <1>1 DEF AdminStarts
<1>16. ClearClients => Result
  BY <1>1 DEF ClearClients, NoRows
<1>17. ClearTokens => Result
  BY <1>1 DEF ClearTokens
<1>18. ASSUME NEW label \in Inserting, Inserts(label) PROVE Result
  BY <1>1, <1>18 DEF Inserts
<1>19. CommitInserted => Result
  BY <1>1 DEF CommitInserted
<1>20. Expire => Result
  BY <1>1 DEF Expire
<1>21. UNCHANGED vars => Result
  BY <1>1 DEF vars
<1> HIDE DEF Result
<1> QED
  BY <1>2, <1>3, <1>4, <1>6, <1>7, <1>8, <1>9, <1>10, <1>11, <1>12, <1>13, <1>14,
     <1>15, <1>16, <1>17, <1>18, <1>19, <1>20, <1>21
     DEF Next, RequestStep, AdminStep, LoadCode, LoadRefresh, LoadAccess, RevokeToken,
         CreateProxy, RenameToolset, CreateCredential

\* Every step of the server is a step of Grants.
LEMMA PromiseStep ==
    ASSUME IInv, IInv', [Next]_vars
    PROVE  Promised!Next
<1>a. FateShape
  BY FateIs DEF IInv
<1>b. FateShape'
  BY FateIs, PTL DEF IInv
<1>1. ASSUME NEW c \in Codes
      PROVE  /\ Fate(c)' \in Promised!Stages
             /\ Fate(c)' = Fate(c) \/ <<Fate(c), Fate(c)'>> \in Promised!Steps
  <2>2. Answers(c) # {} => Answers(c)' # {} /\ owner[c] # None
    BY CodeMoves DEF Answers, IInv, CodeInv
  <2>3. Answers(c) = {} /\ Answers(c)' # {} =>
           owner[c] # None /\ (c \in restored \/ c \notin db.codes)
    BY CodeMoves DEF Answers
  <2>4. owner[c] = None /\ c \notin restored => c \notin restored' /\ Answers(c)' = {}
    BY CodeMoves, <2>3, <2>2
  <2>5. CASE c \in restored
    BY <1>a, <1>b, <2>5, CodeMoves DEF FateShape, Promised!Stages, Promised!Steps
  <2>6. CASE c \notin restored /\ owner[c] = None
    BY <1>a, <1>b, <2>4, <2>6, CodeMoves DEF FateShape, Promised!Stages, Promised!Steps
  <2>7. CASE c \notin restored /\ owner[c] # None /\ Answers(c) = {}
    BY <1>a, <1>b, <2>3, <2>7, CodeMoves DEF FateShape, Promised!Stages, Promised!Steps
  <2>8. CASE c \notin restored /\ owner[c] # None /\ Answers(c) # {}
    BY <1>a, <1>b, <2>2, <2>8, CodeMoves DEF FateShape, Promised!Stages, Promised!Steps
  <2> QED
    BY <2>5, <2>6, <2>7, <2>8
<1> QED
  BY <1>1 DEF Promised!Next

\* What the server does with authorization codes is what Grants promises, on one
\* connection that others may roll back (provider.py, exchange_authorization_code).
THEOREM CodesKeepPromiseHolds == Spec => CodesKeepPromise
<1>1. Init => Promised!Init
  BY FateIs, Start DEF Init, IInv, Promised!Init, Answers, FateShape
<1>2. IInv /\ IInv' /\ [Next]_vars => Promised!Next
  BY PromiseStep
<1> QED
  BY <1>1, <1>2, Invariant, PTL DEF Spec, CodesKeepPromise, Promised!Spec
=============================================================================
