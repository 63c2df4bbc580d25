---------------------------- MODULE UnraidProofs ----------------------------
(***************************************************************************)
(* Theorems about Unraid, for any number of calls, roots, fields, targets, *)
(* retries, rounds and changes.  Only what the health check says needs to  *)
(* know how many fields of a root may overflow: see Foreseen.              *)
(***************************************************************************)
EXTENDS Unraid, FiniteSetTheorems, TLAPS

-----------------------------------------------------------------------------
(* What the NAS answers. *)

LEMMA AnswersAre ==
    ASSUME NEW roots, NEW fields, NEW answer \in Answers(roots, fields)
    PROVE  \/ answer \in Answered \ {"refused", "unreachable"}
           \/ answer \in fields /\ answer \in nas.large
BY DEF Answers, Executed, Answered

LEMMA FieldAnswered ==
    ASSUME NEW roots, NEW fields, NEW f \in Answers(roots, fields) \cap Fields
    PROVE  f \in fields /\ f \in nas.large /\ f \in Executed(roots, fields)
<1>1. f \notin Answered BY NamesAssumption
<1> QED BY <1>1 DEF Answers, Executed, Answered

-----------------------------------------------------------------------------
(* Calls of tools. *)

\* A call makes what it says it makes, and only when the user has confirmed it;
\* an answer can be lost once for each attempt.
Truthful(r) ==
    /\ r.ran = r.lost + (IF r.told = "done" THEN 1 ELSE 0)
    /\ r.ran > 0 => r.confirm
    /\ r.at # "idle" => r.told = "nothing"
    /\ r.at \in {"listing", "changing"} => r.confirm
    /\ r.at \in {"reading", "listing"} => r.ran = 0
    /\ r.at = "changing" => r.lost <= r.attempt

\* Call c goes on to a record of that kind.
Moves(c) ==
    \E r \in CallsUnderWay : Truthful(r) /\ call' = [call EXCEPT ![c] = r]

CallInv == TypeOK /\ \A c \in Calls : Truthful(call[c])

LEMMA CallIs ==
    ASSUME CallInv, NEW c \in Calls
    PROVE  /\ call[c] \in CallsUnderWay /\ Truthful(call[c])
           /\ call[c].ran \in Nat /\ call[c].lost \in Nat /\ call[c].attempt \in Nat
<1>1. call[c] \in CallsUnderWay /\ Truthful(call[c]) BY DEF CallInv, TypeOK
<1> QED BY <1>1, BoundsAssumption DEF CallsUnderWay

LEMMA IdleIs ==
    /\ Idle \in CallsUnderWay /\ Truthful(Idle)
    /\ Idle.ran = 0 /\ Idle.lost = 0
<1>1. Idle \in CallsUnderWay BY BoundsAssumption DEF Idle, CallsUnderWay, Told, Answered
<1> QED BY <1>1 DEF Idle, Truthful

LEMMA EndsMoves ==
    ASSUME CallInv, NEW c \in Calls, call[c].at # "idle",
           NEW told \in Told \ {"done"}, Ends(c, told)
    PROVE  Moves(c)
<1> DEFINE r == [Idle EXCEPT !.told = told, !.confirm = call[c].confirm,
                             !.ran = call[c].ran, !.lost = call[c].lost]
<1>1. call[c] \in CallsUnderWay /\ Truthful(call[c]) BY CallIs
<1>2. call[c].told # "done" BY <1>1 DEF Truthful
<1>3. r \in CallsUnderWay BY <1>1, IdleIs DEF CallsUnderWay
<1>4. /\ r.told = told /\ r.confirm = call[c].confirm /\ r.ran = call[c].ran
      /\ r.lost = call[c].lost /\ r.at = "idle"
  BY DEF Idle
<1>5. call' = [call EXCEPT ![c] = r] BY DEF Ends
<1> HIDE DEF r
<1>6. Truthful(r) BY <1>1, <1>2, <1>4 DEF Truthful
<1> QED BY <1>3, <1>5, <1>6 DEF Moves

LEMMA ReportedTold ==
    ASSUME NEW c \in Calls, NEW answer \in Told \ {"done"}
    PROVE  Reported(c, answer) \in Told \ {"done"}
BY DEF Reported, Told

LEMMA BeginReadMoves ==
    ASSUME CallInv, NEW c \in Calls, NEW tool \in Tools, BeginRead(c, tool)
    PROVE  Moves(c)
<1> DEFINE r == [Idle EXCEPT !.at = "reading", !.roots = tool,
                             !.fields = Stripped(FieldsOf(tool))]
<1>1. tool \in SUBSET Roots /\ Stripped(FieldsOf(tool)) \in SUBSET Fields
  BY BoundsAssumption DEF Stripped, FieldsOf
<1>2. r \in CallsUnderWay BY <1>1, IdleIs DEF CallsUnderWay
<1>3. /\ r.at = "reading" /\ r.told = Idle.told /\ r.confirm = Idle.confirm
      /\ r.ran = 0 /\ r.lost = 0 /\ Idle.told = "nothing"
  BY DEF Idle
<1>4. call' = [call EXCEPT ![c] = r] BY DEF BeginRead
<1> HIDE DEF r
<1>5. Truthful(r) BY <1>3 DEF Truthful
<1> QED BY <1>2, <1>4, <1>5 DEF Moves

LEMMA BeginChangeMoves ==
    ASSUME CallInv, NEW c \in Calls, NEW t \in Targets, NEW start \in BOOLEAN,
           NEW confirm \in BOOLEAN, BeginChange(c, t, start, confirm)
    PROVE  Moves(c)
<1>1. CASE confirm
  <2> DEFINE roots == IF t \in VMs THEN {VmsRoot} ELSE {}
             at == IF t \in VMs THEN "listing" ELSE "changing"
             fields == Stripped(FieldsOf(roots))
             r == [Idle EXCEPT !.at = at, !.roots = roots, !.fields = fields,
                               !.target = {t}, !.start = start, !.confirm = TRUE]
  <2>1. roots \in SUBSET Roots /\ at \in {"listing", "changing"} BY BoundsAssumption
  <2> HIDE DEF roots, at
  <2>2. fields \in SUBSET Fields BY <2>1, BoundsAssumption DEF Stripped, FieldsOf
  <2> HIDE DEF fields
  <2>3. r \in CallsUnderWay
    <3>1. at \in {"idle", "reading", "listing", "changing"} BY <2>1
    <3> QED BY <2>1, <2>2, <3>1, IdleIs DEF CallsUnderWay
  <2>4. /\ r.at = at /\ r.told = "nothing" /\ r.confirm = TRUE
        /\ r.ran = 0 /\ r.lost = 0 /\ r.attempt = 0
    BY DEF Idle
  <2>5. call' = [call EXCEPT ![c] = r]
    BY <1>1 DEF BeginChange, Requested, roots, at, fields
  <2> HIDE DEF r
  <2>6. Truthful(r) BY <2>1, <2>4 DEF Truthful
  <2> QED BY <2>3, <2>5, <2>6 DEF Moves
<1>2. CASE ~confirm
  <2> DEFINE r == [Idle EXCEPT !.told = "not done"]
  <2>1. r \in CallsUnderWay BY IdleIs DEF CallsUnderWay, Told
  <2>2. r.at = "idle" /\ r.confirm = FALSE /\ r.ran = 0 /\ r.lost = 0 BY DEF Idle
  <2>3. r.told # "done"
    <3>1. r.told = "not done" BY DEF Idle
    <3> QED BY <3>1
  <2>4. call' = [call EXCEPT ![c] = r] BY <1>2 DEF BeginChange
  <2> HIDE DEF r
  <2>5. Truthful(r) BY <2>2, <2>3 DEF Truthful
  <2> QED BY <2>1, <2>4, <2>5 DEF Moves
<1> QED BY <1>1, <1>2

LEMMA ReadAnsweredMoves ==
    ASSUME CallInv, NEW c \in Calls, ReadAnswered(c)
    PROVE  Moves(c)
<1>1. PICK answer \in Answers(call[c].roots, call[c].fields) \ Fields :
         Ends(c, Reported(c, answer))
  BY DEF ReadAnswered
<1>2. call[c] \in CallsUnderWay BY CallIs
<1>3. answer \in Told \ {"done"}
  <2>1. answer \in Answered
    <3>1. call[c].fields \subseteq Fields BY <1>2 DEF CallsUnderWay
    <3> QED BY <3>1, AnswersAre
  <2> QED BY <2>1 DEF Told, Answered
<1>4. call[c].at # "idle" BY DEF ReadAnswered, Asking
<1> QED BY <1>1, <1>3, <1>4, ReportedTold, EndsMoves

LEMMA OverflowsMoves ==
    ASSUME CallInv, NEW c \in Calls, Overflows(c)
    PROVE  Moves(c) /\ dropped' \in SUBSET Large
<1>1. PICK f \in Answers(call[c].roots, call[c].fields) \cap Fields :
          IF f \in dropped
          THEN Ends(c, Reported(c, "overflow")) /\ UNCHANGED dropped
          ELSE /\ dropped' = dropped \cup {f}
               /\ IF call[c].round = MaxRounds
                  THEN Ends(c, Reported(c, "overflow"))
                  ELSE call' = [call EXCEPT ![c].fields = @ \ dropped',
                                            ![c].round = @ + 1, ![c].attempt = 0]
  BY DEF Overflows
<1>2. call[c] \in CallsUnderWay /\ Truthful(call[c]) BY CallIs
<1>3. call[c].at \in {"reading", "listing"} BY DEF Overflows, Asking
<1>4. dropped' \in SUBSET Large
  <2>1. f \in Large
    <3>1. nas \in Stations BY DEF CallInv, TypeOK
    <3> QED BY <3>1, FieldAnswered DEF Stations
  <2>2. dropped \in SUBSET Large BY DEF CallInv, TypeOK
  <2> QED BY <1>1, <2>1, <2>2
<1>5. CASE Ends(c, Reported(c, "overflow"))
  <2>1. "overflow" \in Told \ {"done"} BY DEF Told
  <2> QED BY <1>3, <1>4, <1>5, <2>1, ReportedTold, EndsMoves
<1>6. CASE ~Ends(c, Reported(c, "overflow"))
  <2> DEFINE fields == call[c].fields \ dropped'
             r == [call[c] EXCEPT !.fields = fields, !.round = call[c].round + 1,
                                  !.attempt = 0]
  <2>1. /\ call[c].round # MaxRounds
        /\ call' = [call EXCEPT ![c].fields = @ \ dropped',
                                ![c].round = @ + 1, ![c].attempt = 0]
    BY <1>1, <1>6
  <2>2. call[c].round + 1 \in 1..MaxRounds /\ 0 \in 0..MAX_RETRIES
    BY <1>2, <2>1, BoundsAssumption DEF CallsUnderWay
  <2>3. fields \in SUBSET Fields BY <1>2 DEF CallsUnderWay
  <2> HIDE DEF fields
  <2>4. r \in CallsUnderWay BY <1>2, <2>2, <2>3 DEF CallsUnderWay
  <2>5. /\ r.at = call[c].at /\ r.told = call[c].told /\ r.confirm = call[c].confirm
        /\ r.ran = call[c].ran /\ r.lost = call[c].lost
    BY <1>2 DEF CallsUnderWay
  <2>6. call' = [call EXCEPT ![c] = r] BY <2>1 DEF fields
  <2> HIDE DEF r
  <2>7. Truthful(r) BY <1>2, <1>3, <2>5 DEF Truthful
  <2> QED BY <1>4, <2>4, <2>6, <2>7 DEF Moves
<1> QED BY <1>5, <1>6

LEMMA ListedMoves ==
    ASSUME CallInv, NEW c \in Calls, Listed(c)
    PROVE  Moves(c)
<1>1. call[c] \in CallsUnderWay /\ Truthful(call[c]) /\ call[c].lost \in Nat BY CallIs
<1>2. call[c].at = "listing" BY DEF Listed
<1>3. CASE Ends(c, "refused")
  <2>1. "refused" \in Told \ {"done"} BY DEF Told, Answered
  <2> QED BY <1>2, <1>3, <2>1, EndsMoves
<1>4. CASE call' = [call EXCEPT ![c].at = "changing", ![c].attempt = 0]
  <2> DEFINE r == [call[c] EXCEPT !.at = "changing", !.attempt = 0]
  <2>1. 0 \in 0..MAX_RETRIES BY BoundsAssumption
  <2>2. r \in CallsUnderWay BY <1>1, <2>1 DEF CallsUnderWay
  <2>3. /\ r.at = "changing" /\ r.told = call[c].told /\ r.confirm = call[c].confirm
        /\ r.ran = call[c].ran /\ r.lost = call[c].lost /\ r.attempt = 0
    BY <1>1 DEF CallsUnderWay
  <2>4. call' = [call EXCEPT ![c] = r] BY <1>4
  <2> HIDE DEF r
  <2>5. Truthful(r) BY <1>1, <1>2, <2>3 DEF Truthful
  <2> QED BY <2>2, <2>4, <2>5 DEF Moves
<1> QED BY <1>3, <1>4 DEF Listed

\* What a change that is carried out makes of the NAS and of the numbers.
LEMMA Change ==
    ASSUME CallInv, NEW c \in Calls, call[c].at = "changing", Switched(c)
    PROVE  /\ nas' \in Stations
           /\ call[c].ran + 1 \in 0..(MAX_RETRIES + 1)
           /\ call[c].ran = call[c].lost /\ call[c].lost <= call[c].attempt
           /\ call[c].confirm /\ call[c].told = "nothing"
<1>1. call[c] \in CallsUnderWay /\ Truthful(call[c])
      /\ call[c].ran \in Nat /\ call[c].lost \in Nat /\ call[c].attempt \in Nat
  BY CallIs
<1>2. nas' \in Stations
  <2> DEFINE on == IF call[c].start THEN nas.on \cup call[c].target
                                    ELSE nas.on \ call[c].target
  <2>1. nas \in Stations BY DEF CallInv, TypeOK
  <2>2. on \in SUBSET Targets BY <1>1, <2>1 DEF Stations, CallsUnderWay
  <2>3. nas' = [nas EXCEPT !.on = on] BY DEF Switched
  <2> HIDE DEF on
  <2> QED BY <2>1, <2>2, <2>3 DEF Stations
<1>3. /\ call[c].told = "nothing" /\ call[c].confirm
      /\ call[c].ran = call[c].lost /\ call[c].lost <= call[c].attempt
  BY <1>1 DEF Truthful
<1>4. call[c].attempt \in 0..MAX_RETRIES BY <1>1 DEF CallsUnderWay
<1> QED BY <1>1, <1>2, <1>3, <1>4, BoundsAssumption

LEMMA CarriedOutMoves ==
    ASSUME CallInv, NEW c \in Calls, CarriedOut(c)
    PROVE  Moves(c) /\ nas' \in Stations
<1> DEFINE n == call[c].ran + 1
           r == [Idle EXCEPT !.told = "done", !.confirm = call[c].confirm,
                             !.ran = n, !.lost = call[c].lost]
<1>1. call[c].at = "changing" /\ Switched(c) BY DEF CarriedOut
<1>2. /\ nas' \in Stations /\ n \in 0..(MAX_RETRIES + 1)
      /\ n = call[c].lost + 1 /\ call[c].confirm
  BY <1>1, Change
<1>3. call[c] \in CallsUnderWay BY CallIs
<1> HIDE DEF n
<1>4. r \in CallsUnderWay BY <1>2, <1>3, IdleIs DEF CallsUnderWay, Told
<1>5. /\ r.at = "idle" /\ r.told = "done" /\ r.confirm = call[c].confirm
      /\ r.ran = n /\ r.lost = call[c].lost
  BY DEF Idle
<1>6. call' = [call EXCEPT ![c] = r] BY DEF CarriedOut, n
<1> HIDE DEF r
<1>7. Truthful(r) BY <1>2, <1>5 DEF Truthful
<1> QED BY <1>2, <1>4, <1>6, <1>7 DEF Moves

LEMMA AnswerLostMoves ==
    ASSUME CallInv, NEW c \in Calls, AnswerLost(c)
    PROVE  Moves(c) /\ nas' \in Stations
<1> DEFINE n == call[c].ran + 1
           m == call[c].lost + 1
           a == call[c].attempt + 1
           q == [call[c] EXCEPT !.ran = n, !.lost = m, !.attempt = a]
           r == [Idle EXCEPT !.told = "unreachable", !.confirm = call[c].confirm,
                             !.ran = n, !.lost = m]
<1>1. call[c].at = "changing" /\ Switched(c) BY DEF AnswerLost
<1>2. call[c] \in CallsUnderWay /\ call[c].lost \in Nat /\ call[c].attempt \in Nat BY CallIs
<1>3. /\ nas' \in Stations /\ n \in 0..(MAX_RETRIES + 1)
      /\ n = m /\ m <= a /\ call[c].confirm /\ call[c].told = "nothing"
  BY <1>1, <1>2, Change
<1>4. \/ call[c].attempt < MAX_RETRIES /\ call' = [call EXCEPT ![c] = q]
      \/ call' = [call EXCEPT ![c] = r]
  BY <1>2 DEF AnswerLost, CallsUnderWay
<1>5. CASE call[c].attempt < MAX_RETRIES /\ call' = [call EXCEPT ![c] = q]
  <2>1. a \in 0..MAX_RETRIES BY <1>2, <1>5, BoundsAssumption
  <2> HIDE DEF n, m, a
  <2>2. q \in CallsUnderWay BY <1>2, <1>3, <2>1 DEF CallsUnderWay
  <2>3. /\ q.at = "changing" /\ q.told = "nothing" /\ q.confirm = call[c].confirm
        /\ q.ran = n /\ q.lost = m /\ q.attempt = a
    BY <1>1, <1>2, <1>3 DEF CallsUnderWay
  <2> HIDE DEF q
  <2>4. Truthful(q) BY <1>3, <2>3 DEF Truthful
  <2> QED BY <1>3, <1>5, <2>2, <2>4 DEF Moves
<1>6. CASE call' = [call EXCEPT ![c] = r]
  <2> HIDE DEF n, m, a
  <2>1. r \in CallsUnderWay BY <1>2, <1>3, IdleIs DEF CallsUnderWay, Told, Answered
  <2>2. /\ r.at = "idle" /\ r.told = "unreachable" /\ r.confirm = call[c].confirm
        /\ r.ran = n /\ r.lost = m
    BY DEF Idle
  <2> HIDE DEF r
  <2>3. Truthful(r) BY <1>3, <2>2 DEF Truthful
  <2> QED BY <1>3, <1>6, <2>1, <2>3 DEF Moves
<1> QED BY <1>4, <1>5, <1>6

LEMMA RetriesMoves ==
    ASSUME CallInv, NEW c \in Calls, Retries(c)
    PROVE  Moves(c)
<1> DEFINE a == call[c].attempt + 1
           r == [call[c] EXCEPT !.attempt = a]
<1>1. call[c] \in CallsUnderWay /\ Truthful(call[c]) /\ call[c].attempt \in Nat
      /\ call[c].lost \in Nat
  BY CallIs
<1>2. /\ a \in 0..MAX_RETRIES /\ a \in Nat
      /\ call[c].lost <= call[c].attempt => call[c].lost <= a
  BY <1>1, BoundsAssumption DEF Retries
<1>3. call' = [call EXCEPT ![c] = r] BY DEF Retries
<1> HIDE DEF a
<1>4. r \in CallsUnderWay BY <1>1, <1>2 DEF CallsUnderWay
<1>5. /\ r.at = call[c].at /\ r.told = call[c].told /\ r.confirm = call[c].confirm
      /\ r.ran = call[c].ran /\ r.lost = call[c].lost /\ r.attempt = a
  BY <1>1 DEF CallsUnderWay
<1> HIDE DEF r
<1>6. Truthful(r) BY <1>1, <1>2, <1>5 DEF Truthful
<1> QED BY <1>3, <1>4, <1>6 DEF Moves

LEMMA FailureMoves ==
    ASSUME CallInv, NEW c \in Calls, Rejected(c) \/ Unreached(c) \/ NotPossible(c)
    PROVE  Moves(c)
<1>1. call[c].at # "idle" BY DEF Rejected, Unreached, NotPossible
<1>2. {"refused", "unreachable", "graphql"} \subseteq Told \ {"done"} BY DEF Told, Answered
<1>3. ASSUME NEW told \in {"refused", "unreachable"}, Ends(c, Reported(c, told))
      PROVE  Moves(c)
  BY <1>1, <1>2, <1>3, ReportedTold, EndsMoves
<1>4. CASE Rejected(c) BY <1>3, <1>4 DEF Rejected
<1>5. CASE Unreached(c) BY <1>3, <1>5, RetriesMoves DEF Unreached
<1>6. CASE NotPossible(c)
  <2>1. Ends(c, "graphql") BY <1>6 DEF NotPossible
  <2> QED BY <1>1, <1>2, <2>1, EndsMoves
<1> QED BY <1>4, <1>5, <1>6

CallStep(c) ==
    \/ \E tool \in Tools : BeginRead(c, tool)
    \/ \E t \in Targets, start, confirm \in BOOLEAN : BeginChange(c, t, start, confirm)
    \/ ReadAnswered(c) \/ Overflows(c) \/ Listed(c) \/ CarriedOut(c) \/ NotPossible(c)
    \/ Rejected(c) \/ Unreached(c) \/ AnswerLost(c)

LEMMA CallStepMoves ==
    ASSUME CallInv, NEW c \in Calls, CallStep(c)
    PROVE  Moves(c)
BY BeginReadMoves, BeginChangeMoves, ReadAnsweredMoves, OverflowsMoves, ListedMoves,
   CarriedOutMoves, AnswerLostMoves, FailureMoves DEF CallStep

LEMMA CallStepFrame ==
    ASSUME CallInv, NEW c \in Calls, CallStep(c)
    PROVE  /\ nas' \in Stations /\ dropped' \in SUBSET Large
           /\ check' = check /\ changes' = changes /\ losses' \in 0..MaxLost
           /\ nas'.large = nas.large /\ nas'.closed = nas.closed
           /\ nas'.off = nas.off /\ nas'.renamed = nas.renamed
<1>1. nas \in Stations /\ dropped \in SUBSET Large /\ losses \in 0..MaxLost
  BY DEF CallInv, TypeOK
<1>2. CASE CarriedOut(c)
  BY <1>1, <1>2, CarriedOutMoves DEF CarriedOut, Switched, Stations
<1>3. CASE AnswerLost(c)
  <2>1. losses' \in 0..MaxLost BY <1>1, <1>3, BoundsAssumption DEF AnswerLost
  <2> QED BY <1>1, <1>3, <2>1, AnswerLostMoves DEF AnswerLost, Switched, Stations
<1>4. CASE Overflows(c) BY <1>1, <1>4, OverflowsMoves DEF Overflows
<1>5. CASE ~(CarriedOut(c) \/ AnswerLost(c) \/ Overflows(c))
  BY <1>1, <1>5 DEF CallStep, BeginRead, BeginChange, ReadAnswered, Listed, NotPossible,
                    Rejected, Unreached
<1> QED BY <1>2, <1>3, <1>4, <1>5

LEMMA MovesKept ==
    ASSUME CallInv, NEW c \in Calls, Moves(c)
    PROVE  call' \in [Calls -> CallsUnderWay] /\ \A d \in Calls : Truthful(call'[d])
<1>1. PICK r \in CallsUnderWay : Truthful(r) /\ call' = [call EXCEPT ![c] = r] BY DEF Moves
<1>2. call \in [Calls -> CallsUnderWay] /\ \A d \in Calls : Truthful(call[d])
  BY DEF CallInv, TypeOK
<1>3. \A d \in Calls : call'[d] = IF d = c THEN r ELSE call[d] BY <1>1, <1>2
<1>4. call' \in [Calls -> CallsUnderWay] BY <1>1, <1>2
<1> QED BY <1>1, <1>2, <1>3, <1>4

-----------------------------------------------------------------------------
(* The health check, and the NAS. *)

CheckStep ==
    \/ BeginCheck \/ HealthQuery \/ Probed \/ OptionalDone \/ Introspected
    \/ \E r \in Roots : Probe(r) \/ OptionalQuery(r)
    \/ \E t \in Types : Introspect(t)

LEMMA CheckIs ==
    ASSUME TypeOK
    PROVE  /\ check \in Checks /\ nas \in Stations
           /\ check.round \in Nat /\ check.round >= 1 /\ check.round <= MaxRounds
BY BoundsAssumption DEF TypeOK, Checks

LEMMA ConcludesType ==
    ASSUME TypeOK, NEW told \in {"ok", "degraded", "down"}, Concludes(told)
    PROVE  /\ check' \in Checks
           /\ check'.at = "idle" /\ check'.told = told /\ check'.refused = check.refused
           /\ check'.still = check.still /\ check'.heard = check.heard
<1>1. check \in Checks BY CheckIs
<1>2. 1 \in 1..MaxRounds /\ told \in {"nothing", "ok", "degraded", "down"}
  BY BoundsAssumption
<1> QED BY <1>1, <1>2 DEF Concludes, Checks

LEMMA BeginCheckType ==
    ASSUME BeginCheck
    PROVE  /\ check' \in Checks
           /\ check'.at = "query" /\ check'.told = "nothing" /\ check'.refused = {}
<1>1. Unchecked \in Checks BY BoundsAssumption DEF Unchecked, Checks
<1>2. FieldsOf(Required) \in SUBSET Fields BY BoundsAssumption DEF FieldsOf, Required
<1>3. check' = [Unchecked EXCEPT !.at = "query", !.fields = FieldsOf(Required)] BY DEF BeginCheck
<1>4. Unchecked.told = "nothing" /\ Unchecked.refused = {} BY DEF Unchecked
<1> QED BY <1>1, <1>2, <1>3, <1>4 DEF Checks

LEMMA ProbeType == ASSUME TypeOK, NEW r \in Roots, Probe(r) PROVE check' \in Checks
<1>1. PICK answer \in Executed({r}, {}) \cup {"schema" : x \in {r} \cap nas.renamed}
                      \cup {"unreachable"} :
          check' = [check EXCEPT !.todo = @ \ {r},
                       !.heard = @ /\ answer # "unreachable",
                       !.refused = IF \/ answer = "forbidden"
                                      \/ answer # "data" /\ r \in Required
                                   THEN @ \cup {r} ELSE @]
  BY DEF Probe
<1> DEFINE todo == check.todo \ {r}
           heard == check.heard /\ answer # "unreachable"
           refused == IF \/ answer = "forbidden"
                         \/ answer # "data" /\ r \in Required
                      THEN check.refused \cup {r} ELSE check.refused
<1>2. check \in Checks BY CheckIs
<1>3. /\ todo \in SUBSET (Roots \cup Types) /\ heard \in BOOLEAN /\ refused \in SUBSET Roots
  BY <1>2 DEF Checks
<1>4. check' = [check EXCEPT !.todo = todo, !.heard = heard, !.refused = refused]
  BY <1>1, <1>2 DEF Checks
<1> HIDE DEF todo, heard, refused
<1> QED BY <1>2, <1>3, <1>4 DEF Checks

LEMMA HealthQueryType == ASSUME TypeOK, HealthQuery PROVE check' \in Checks
<1>0. check \in Checks /\ nas \in Stations BY CheckIs
<1>1. PICK answer \in Answers(Required, check.fields) \cup {"unreachable"} :
          \/ /\ answer = "data"
             /\ check' = [check EXCEPT !.at = "optional", !.todo = OptionalRoots, !.round = 1]
          \/ /\ answer = "schema" /\ Concludes("degraded")
          \/ /\ answer = "forbidden"
             /\ check' = [check EXCEPT !.at = "probes", !.todo = Roots]
          \/ /\ answer \in {"syntax", "graphql", "unreachable"} /\ Concludes("down")
          \/ /\ answer \in Fields
             /\ IF check.round = MaxRounds THEN Concludes("down")
                ELSE check' = [check EXCEPT !.own = @ \cup {answer}, !.round = @ + 1,
                                            !.fields = @ \ {answer}]
  BY DEF HealthQuery
<1>2. CASE Concludes("degraded") \/ Concludes("down") BY <1>2, ConcludesType
<1>3. CASE check' = [check EXCEPT !.at = "optional", !.todo = OptionalRoots, !.round = 1]
  <2>1. OptionalRoots \in SUBSET (Roots \cup Types) /\ 1 \in 1..MaxRounds
    BY BoundsAssumption
  <2> QED BY <1>0, <1>3, <2>1 DEF Checks
<1>4. CASE check' = [check EXCEPT !.at = "probes", !.todo = Roots]
  BY <1>0, <1>4 DEF Checks
<1>5. CASE /\ answer \in Fields /\ check.round # MaxRounds
           /\ check' = [check EXCEPT !.own = @ \cup {answer}, !.round = @ + 1,
                                     !.fields = @ \ {answer}]
  <2>1. answer \in Answers(Required, check.fields) \cap Fields
    <3>1. "unreachable" \notin Fields BY NamesAssumption DEF Answered
    <3> QED BY <1>1, <1>5, <3>1
  <2>2. answer \in Large BY <1>0, <2>1, FieldAnswered DEF Stations
  <2>3. check.round + 1 \in 1..MaxRounds
    BY <1>5, CheckIs, BoundsAssumption
  <2> QED BY <1>0, <1>5, <2>2, <2>3 DEF Checks
<1> QED BY <1>1, <1>2, <1>3, <1>4, <1>5

LEMMA OptionalQueryType == ASSUME TypeOK, NEW r \in Roots, OptionalQuery(r), r \in OptionalRoots
                           PROVE  check' \in Checks
<1>0. check \in Checks /\ nas \in Stations BY CheckIs
<1>1. PICK answer \in Answers({r}, Asks[r] \ check.own) \cup {"unreachable"} :
          \/ answer \in Degrades /\ Concludes("degraded")
          \/ /\ answer \in Fields /\ check.round < MaxRounds
             /\ check' = [check EXCEPT !.own = @ \cup {answer}, !.round = @ + 1,
                                       !.asked = {r}]
          \/ /\ answer \notin Degrades
             /\ answer \in Fields => check.round = MaxRounds
             /\ check' = [check EXCEPT !.todo = @ \ {r}, !.round = 1, !.asked = {},
                                       !.own = @ \cup ({answer} \cap Fields),
                                       !.heard = @ /\ answer # "unreachable"]
  BY DEF OptionalQuery
<1>2. answer \in Fields => answer \in Large
  <2>1. "unreachable" \notin Fields BY NamesAssumption DEF Answered
  <2>2. answer \in Fields => answer \in Answers({r}, Asks[r] \ check.own) \cap Fields
    BY <1>1, <2>1
  <2> QED BY <1>0, <2>2, FieldAnswered DEF Stations
<1>3. CASE Concludes("degraded") BY <1>3, ConcludesType
<1>4. CASE /\ answer \in Fields /\ check.round < MaxRounds
           /\ check' = [check EXCEPT !.own = @ \cup {answer}, !.round = @ + 1, !.asked = {r}]
  <2>1. check.round + 1 \in 1..MaxRounds BY <1>4, CheckIs, BoundsAssumption
  <2> QED BY <1>0, <1>2, <1>4, <2>1 DEF Checks
<1>5. CASE check' = [check EXCEPT !.todo = @ \ {r}, !.round = 1, !.asked = {},
                                  !.own = @ \cup ({answer} \cap Fields),
                                  !.heard = @ /\ answer # "unreachable"]
  <2> DEFINE own == check.own \cup ({answer} \cap Fields)
             heard == check.heard /\ answer # "unreachable"
             todo == check.todo \ {r}
  <2>1. own \in SUBSET Large /\ heard \in BOOLEAN /\ todo \in SUBSET (Roots \cup Types)
    BY <1>0, <1>2 DEF Checks
  <2>2. 1 \in 1..MaxRounds BY BoundsAssumption
  <2>3. check' = [check EXCEPT !.todo = todo, !.round = 1, !.asked = {}, !.own = own,
                               !.heard = heard]
    BY <1>0, <1>5 DEF Checks
  <2> HIDE DEF own, heard, todo
  <2> QED BY <1>0, <2>1, <2>2, <2>3 DEF Checks
<1> QED BY <1>1, <1>3, <1>4, <1>5

LEMMA OptionalQueryParts ==
    ASSUME TypeOK, NEW r \in Roots, OptionalQuery(r)
    PROVE  \E answer \in Answers({r}, Asks[r] \ check.own) \cup {"unreachable"} :
              \/ Concludes("degraded")
              \/ /\ answer \in Fields /\ check.round < MaxRounds
                 /\ check'.at = check.at /\ check'.todo = check.todo
                 /\ check'.own = check.own \cup {answer} /\ check'.round = check.round + 1
                 /\ check'.asked = {r} /\ check'.refused = check.refused
                 /\ check'.still = check.still /\ check'.heard = check.heard
                 /\ check'.told = check.told
              \/ /\ answer \notin Degrades /\ (answer \in Fields => check.round = MaxRounds)
                 /\ check'.at = check.at /\ check'.todo = check.todo \ {r}
                 /\ check'.round = 1 /\ check'.refused = check.refused
                 /\ check'.still = check.still
                 /\ check'.heard => check.heard /\ answer # "unreachable"
                 /\ check'.told = check.told
<1>0. check \in Checks BY CheckIs
<1>1. PICK answer \in Answers({r}, Asks[r] \ check.own) \cup {"unreachable"} :
          \/ answer \in Degrades /\ Concludes("degraded")
          \/ /\ answer \in Fields /\ check.round < MaxRounds
             /\ check' = [check EXCEPT !.own = @ \cup {answer}, !.round = @ + 1,
                                       !.asked = {r}]
          \/ /\ answer \notin Degrades
             /\ answer \in Fields => check.round = MaxRounds
             /\ check' = [check EXCEPT !.todo = @ \ {r}, !.round = 1, !.asked = {},
                                       !.own = @ \cup ({answer} \cap Fields),
                                       !.heard = @ /\ answer # "unreachable"]
  BY DEF OptionalQuery
<1>2. CASE Concludes("degraded") BY <1>2
<1>3. CASE /\ answer \in Fields /\ check.round < MaxRounds
           /\ check' = [check EXCEPT !.own = @ \cup {answer}, !.round = @ + 1, !.asked = {r}]
  <2>1. /\ check'.at = check.at /\ check'.todo = check.todo
        /\ check'.own = check.own \cup {answer} /\ check'.round = check.round + 1
        /\ check'.asked = {r} /\ check'.refused = check.refused
        /\ check'.still = check.still /\ check'.heard = check.heard
        /\ check'.told = check.told
    BY <1>0, <1>3 DEF Checks
  <2> QED BY <1>3, <2>1
<1>4. CASE /\ answer \notin Degrades /\ (answer \in Fields => check.round = MaxRounds)
           /\ check' = [check EXCEPT !.todo = @ \ {r}, !.round = 1, !.asked = {},
                                     !.own = @ \cup ({answer} \cap Fields),
                                     !.heard = @ /\ answer # "unreachable"]
  <2>1. /\ check'.at = check.at /\ check'.todo = check.todo \ {r}
        /\ check'.round = 1 /\ check'.refused = check.refused
        /\ check'.still = check.still /\ check'.told = check.told
        /\ check'.heard => check.heard /\ answer # "unreachable"
    BY <1>0, <1>4 DEF Checks
  <2> QED BY <1>4, <2>1
<1> QED BY <1>1, <1>2, <1>3, <1>4

LEMMA IntrospectType == ASSUME TypeOK, NEW t \in Types, Introspect(t) PROVE check' \in Checks
<1>1. check \in Checks BY CheckIs
<1>2. CASE check' = [check EXCEPT !.todo = {}, !.heard = FALSE] BY <1>1, <1>2 DEF Checks
<1>3. CASE check' = [check EXCEPT !.todo = @ \ {t}, !.missing = @ \/ t \in nas.renamed]
  <2> DEFINE todo == check.todo \ {t}
             missing == check.missing \/ t \in nas.renamed
  <2>1. todo \in SUBSET (Roots \cup Types) /\ missing \in BOOLEAN BY <1>1 DEF Checks
  <2>2. check' = [check EXCEPT !.todo = todo, !.missing = missing] BY <1>1, <1>3 DEF Checks
  <2> HIDE DEF todo, missing
  <2> QED BY <1>1, <2>1, <2>2 DEF Checks
<1> QED BY <1>2, <1>3 DEF Introspect

NasStep ==
    \/ \E t \in Targets : Switch(t)
    \/ \E f \in Large : Alter("large", f)
    \/ \E r \in Roots : Alter("closed", r)
    \/ \E r \in OptionalRoots : Alter("off", r)
    \/ \E x \in Roots \cup Types : Alter("renamed", x)

LEMMA AlterType ==
    ASSUME TypeOK,
           NEW field \in {"large", "closed", "off", "renamed"}, NEW x,
           field = "large" => x \in Large, field = "closed" => x \in Roots,
           field = "off" => x \in OptionalRoots, field = "renamed" => x \in Roots \cup Types,
           Alter(field, x)
    PROVE  nas' \in Stations /\ check' \in Checks
<1>1. nas \in Stations /\ check \in Checks BY CheckIs
<1>2. check' \in Checks BY <1>1 DEF Alter, Checks
<1>3. nas' = [nas EXCEPT ![field] = IF x \in @ THEN @ \ {x} ELSE @ \cup {x}] BY DEF Alter
<1>4. CASE field = "large"
  <2> DEFINE new == IF x \in nas.large THEN nas.large \ {x} ELSE nas.large \cup {x}
  <2>1. nas' = [nas EXCEPT !.large = new] BY <1>3, <1>4
  <2>2. new \in SUBSET Large BY <1>1, <1>4 DEF Stations
  <2> HIDE DEF new
  <2> QED BY <1>1, <1>2, <2>1, <2>2 DEF Stations
<1>5. CASE field = "closed"
  <2> DEFINE new == IF x \in nas.closed THEN nas.closed \ {x} ELSE nas.closed \cup {x}
  <2>1. nas' = [nas EXCEPT !.closed = new] BY <1>3, <1>5
  <2>2. new \in SUBSET Roots BY <1>1, <1>5 DEF Stations
  <2> HIDE DEF new
  <2> QED BY <1>1, <1>2, <2>1, <2>2 DEF Stations
<1>6. CASE field = "off"
  <2> DEFINE new == IF x \in nas.off THEN nas.off \ {x} ELSE nas.off \cup {x}
  <2>1. nas' = [nas EXCEPT !.off = new] BY <1>3, <1>6
  <2>2. new \in SUBSET OptionalRoots BY <1>1, <1>6 DEF Stations
  <2> HIDE DEF new
  <2> QED BY <1>1, <1>2, <2>1, <2>2 DEF Stations
<1>7. CASE field = "renamed"
  <2> DEFINE new == IF x \in nas.renamed THEN nas.renamed \ {x} ELSE nas.renamed \cup {x}
  <2>1. nas' = [nas EXCEPT !.renamed = new] BY <1>3, <1>7
  <2>2. new \in SUBSET (Roots \cup Types) BY <1>1, <1>7 DEF Stations
  <2> HIDE DEF new
  <2> QED BY <1>1, <1>2, <2>1, <2>2 DEF Stations
<1> QED BY <1>2, <1>4, <1>5, <1>6, <1>7

LEMMA NasStepType ==
    ASSUME TypeOK, NasStep
    PROVE  /\ nas' \in Stations /\ check' \in Checks
           /\ changes' \in 0..MaxChanges
           /\ dropped' = dropped /\ call' = call /\ losses' = losses
<1>1. CASE \E t \in Targets : Switch(t)
  <2>1. PICK t \in Targets : Switch(t) BY <1>1
  <2> DEFINE on == IF t \in nas.on THEN nas.on \ {t} ELSE nas.on \cup {t}
  <2>2. nas \in Stations /\ on \in SUBSET Targets /\ nas' = [nas EXCEPT !.on = on]
    BY <2>1, CheckIs DEF Switch, Stations
  <2> HIDE DEF on
  <2>3. nas' \in Stations BY <2>2 DEF Stations
  <2> QED BY <2>1, <2>3, CheckIs, BoundsAssumption DEF Switch, TypeOK
<1>2. ASSUME NEW field, NEW x, Alter(field, x), nas' \in Stations /\ check' \in Checks
      PROVE  /\ nas' \in Stations /\ check' \in Checks
             /\ changes' \in 0..MaxChanges
             /\ dropped' = dropped /\ call' = call /\ losses' = losses
  BY <1>2, BoundsAssumption DEF Alter, TypeOK
<1> QED BY <1>1, <1>2, AlterType DEF NasStep

LEMMA CheckStepType ==
    ASSUME TypeOK, check.at = "optional" => check.todo \subseteq OptionalRoots, CheckStep
    PROVE  /\ check' \in Checks
           /\ UNCHANGED <<nas, dropped, call, changes, losses>>
<1>1. check \in Checks BY CheckIs
<1>2. CASE BeginCheck BY <1>2, BeginCheckType DEF BeginCheck
<1>3. CASE HealthQuery BY <1>3, HealthQueryType DEF HealthQuery
<1>4. CASE Probed BY <1>4, ConcludesType DEF Probed
<1>5. CASE OptionalDone BY <1>1, <1>5 DEF OptionalDone, Checks
<1>6. CASE Introspected
  <2>1. Concludes("degraded") \/ Concludes("ok") BY <1>6 DEF Introspected
  <2> QED BY <1>6, <2>1, ConcludesType DEF Introspected
<1>7. ASSUME NEW r \in Roots, Probe(r)
      PROVE  check' \in Checks /\ UNCHANGED <<nas, dropped, call, changes, losses>>
  BY <1>7, ProbeType DEF Probe
<1>8. ASSUME NEW r \in Roots, OptionalQuery(r)
      PROVE  check' \in Checks /\ UNCHANGED <<nas, dropped, call, changes, losses>>
  <2>1. r \in OptionalRoots BY <1>8 DEF OptionalQuery
  <2> QED BY <1>8, <2>1, OptionalQueryType DEF OptionalQuery
<1>9. ASSUME NEW t \in Types, Introspect(t)
      PROVE  check' \in Checks /\ UNCHANGED <<nas, dropped, call, changes, losses>>
  BY <1>9, IntrospectType DEF Introspect
<1> QED BY <1>2, <1>3, <1>4, <1>5, <1>6, <1>7, <1>8, <1>9 DEF CheckStep

-----------------------------------------------------------------------------
(* Types, and what the calls tell. *)

\* The roots that are still to be asked for are optional ones.
TodoInv == check.at = "optional" => check.todo \subseteq OptionalRoots

LEMMA TodoKept == ASSUME TypeOK, TodoInv, CheckStep PROVE TodoInv'
<1>0. check \in Checks BY CheckIs
<1>1. ASSUME NEW told \in {"ok", "degraded", "down"}, Concludes(told) PROVE TodoInv'
  BY <1>1, ConcludesType DEF TodoInv
<1>2. CASE BeginCheck BY <1>2, BeginCheckType DEF TodoInv
<1>3. CASE HealthQuery
  <2>1. ASSUME check' = [check EXCEPT !.at = "optional", !.todo = OptionalRoots, !.round = 1]
        PROVE  TodoInv'
    BY <1>0, <2>1 DEF TodoInv, Checks
  <2>2. ASSUME check'.at # "optional" PROVE TodoInv' BY <2>2 DEF TodoInv
  <2>3. check.at = "query" BY <1>3 DEF HealthQuery
  <2> QED BY <1>0, <1>1, <1>3, <2>1, <2>2, <2>3 DEF HealthQuery, Checks
<1>4. CASE Probed BY <1>1, <1>4 DEF Probed
<1>5. CASE OptionalDone BY <1>0, <1>5 DEF OptionalDone, TodoInv, Checks
<1>6. CASE Introspected
  <2>1. Concludes("degraded") \/ Concludes("ok") BY <1>6 DEF Introspected
  <2> QED BY <1>1, <2>1
<1>7. ASSUME NEW r \in Roots, Probe(r) PROVE TodoInv'
  BY <1>0, <1>7 DEF Probe, TodoInv, Checks
<1>8. ASSUME NEW r \in Roots, OptionalQuery(r) PROVE TodoInv'
  <2>1. CASE Concludes("degraded") BY <1>1, <2>1
  <2>2. CASE ~Concludes("degraded")
    <3>1. check'.todo \subseteq check.todo /\ check'.at = check.at
      BY <1>8, <2>2, OptionalQueryParts
    <3> QED BY <3>1 DEF TodoInv
  <2> QED BY <2>1, <2>2
<1>9. ASSUME NEW t \in Types, Introspect(t) PROVE TodoInv'
  BY <1>0, <1>9 DEF Introspect, TodoInv, Checks
<1> QED BY <1>2, <1>3, <1>4, <1>5, <1>6, <1>7, <1>8, <1>9 DEF CheckStep

Inv == CallInv /\ TodoInv

LEMMA NextCases ==
    Next <=> (\E c \in Calls : CallStep(c)) \/ CheckStep \/ NasStep
BY DEF Next, CallStep, CheckStep, NasStep

LEMMA InitInv == Init => Inv
<1> SUFFICES ASSUME Init PROVE Inv OBVIOUS
<1>1. nas \in Stations BY DEF Init, Stations
<1>2. check \in Checks /\ check.at # "optional"
  <2>1. Unchecked \in Checks /\ Unchecked.at = "idle"
    BY BoundsAssumption DEF Unchecked, Checks
  <2> QED BY <2>1 DEF Init, Checks
<1>3. call \in [Calls -> CallsUnderWay] /\ \A c \in Calls : Truthful(call[c])
  BY IdleIs DEF Init
<1> QED BY <1>1, <1>2, <1>3, BoundsAssumption DEF Init, Inv, CallInv, TypeOK, TodoInv

LEMMA NextInv == ASSUME Inv, [Next]_vars PROVE Inv'
<1>1. CallInv /\ TodoInv /\ TypeOK BY DEF Inv, CallInv
<1>2. ASSUME NEW c \in Calls, CallStep(c) PROVE Inv'
  <2>1. /\ nas' \in Stations /\ dropped' \in SUBSET Large
        /\ check' = check /\ changes' = changes /\ losses' \in 0..MaxLost
    BY <1>1, <1>2, CallStepFrame
  <2>2. call' \in [Calls -> CallsUnderWay] /\ \A d \in Calls : Truthful(call'[d])
    BY <1>1, <1>2, CallStepMoves, MovesKept
  <2> QED BY <1>1, <2>1, <2>2 DEF Inv, CallInv, TypeOK, TodoInv
<1>3. CASE CheckStep
  <2>1. check' \in Checks /\ UNCHANGED <<nas, dropped, call, changes, losses>>
    BY <1>1, <1>3, CheckStepType DEF TodoInv
  <2>2. TodoInv' BY <1>1, <1>3, TodoKept
  <2> QED BY <1>1, <2>1, <2>2 DEF Inv, CallInv, TypeOK
<1>4. CASE NasStep
  <2>1. /\ nas' \in Stations /\ check' \in Checks
        /\ changes' \in 0..MaxChanges
        /\ dropped' = dropped /\ call' = call /\ losses' = losses
    BY <1>1, <1>4, NasStepType
  <2>2. TodoInv'
    <3>1. check \in Checks BY <1>1, CheckIs
    <3>2. check' = check \/ check' = [check EXCEPT !.still = FALSE]
      BY <1>4 DEF NasStep, Switch, Alter
    <3> QED BY <1>1, <3>1, <3>2 DEF TodoInv, Checks
  <2> QED BY <1>1, <2>1, <2>2 DEF Inv, CallInv, TypeOK
<1>5. CASE UNCHANGED vars BY <1>1, <1>5 DEF vars, Inv, CallInv, TypeOK, TodoInv
<1> QED BY <1>2, <1>3, <1>4, <1>5, NextCases

LEMMA InvHolds == Spec => []Inv
BY InitInv, NextInv, PTL DEF Spec

\* Every variable keeps its type: no more is left out than may overflow, no call
\* asks more often than MAX_RETRIES allows, no query goes beyond the last round.
THEOREM TypeCorrect == Spec => []TypeOK
<1>1. Inv => TypeOK BY DEF Inv, CallInv
<1> QED BY <1>1, InvHolds, PTL

\* A call that says it has made a change has made it once, one that says it failed
\* has not, but for answers that were lost; and none was made unconfirmed.
THEOREM ToldTheTruthHolds == Spec => []ToldTheTruth
<1>1. Inv => ToldTheTruth BY DEF Inv, CallInv, Truthful, ToldTheTruth
<1> QED BY <1>1, InvHolds, PTL

-----------------------------------------------------------------------------
(* What the health check says. *)

\* OPTIONAL_QUERIES: fewer of their fields may overflow than there are rounds, and
\* something is left of each of their selection sets.
Foreseen ==
    \A r \in OptionalRoots :
        /\ IsFiniteSet(Asks[r] \cap Large) /\ Cardinality(Asks[r] \cap Large) < MaxRounds
        /\ \A s \in Selections : s \subseteq Asks[r] => s \ Large # {}

\* A service that is off may hide that the key is not allowed to read it.
Readable(r) == r \notin nas.renamed /\ (r \in nas.closed => r \in nas.off)
Undisturbed == check.still /\ check.heard

\* Each round of a query has found another field to leave out.
RoundInv ==
    check.at = "optional" /\ check.round > 1 =>
        /\ check.asked # {}
        /\ \A r \in check.asked \cap OptionalRoots :
              check.round <= Cardinality(check.own \cap Asks[r]) + 1

\* What has been asked for so far is there and may be read.
SoFar ==
    /\ check.at \in {"query", "probes", "optional", "types"} => check.told = "nothing"
    /\ Undisturbed =>
          /\ check.at = "optional" => \A r \in Roots : r \in check.todo \/ Readable(r)
          /\ check.at = "types" =>
                /\ \A r \in Roots : Readable(r)
                /\ \A t \in Types : t \in check.todo \/ check.missing \/ t \notin nas.renamed
    /\ HealthIsTrue

HealthInv == RoundInv /\ SoFar

LEMMA DataMeans ==
    ASSUME NEW roots, NEW fields \in SUBSET Fields, "data" \in Answers(roots, fields)
    PROVE  roots \cap nas.renamed = {} /\ roots \cap nas.closed = {}
<1>1. "data" \notin fields BY NamesAssumption DEF Answered
<1>2. "data" \in Executed(roots, fields) /\ roots \cap nas.renamed = {} BY DEF Answers
<1> QED BY <1>1, <1>2 DEF Executed

LEMMA ConcludesKept ==
    ASSUME TypeOK, HealthInv, nas' = nas, NEW told \in {"degraded", "down"}, Concludes(told)
    PROVE  HealthInv'
<1>1. /\ check'.at = "idle" /\ check'.told = told /\ check'.refused = check.refused
      /\ check'.still = check.still /\ check'.heard = check.heard
  BY ConcludesType
<1> QED BY <1>1 DEF HealthInv, RoundInv, SoFar, HealthIsTrue, Undisturbed

LEMMA BeginCheckKept == ASSUME BeginCheck PROVE HealthInv'
BY BeginCheckType DEF HealthInv, RoundInv, SoFar, HealthIsTrue, Undisturbed

LEMMA HealthQueryKept == ASSUME TypeOK, HealthInv, HealthQuery PROVE HealthInv'
<1>0. check \in Checks /\ nas \in Stations /\ nas' = nas BY CheckIs DEF HealthQuery
<1>1. PICK answer \in Answers(Required, check.fields) \cup {"unreachable"} :
          \/ /\ answer = "data"
             /\ check' = [check EXCEPT !.at = "optional", !.todo = OptionalRoots, !.round = 1]
          \/ /\ answer = "schema" /\ Concludes("degraded")
          \/ /\ answer = "forbidden"
             /\ check' = [check EXCEPT !.at = "probes", !.todo = Roots]
          \/ /\ answer \in {"syntax", "graphql", "unreachable"} /\ Concludes("down")
          \/ /\ answer \in Fields
             /\ IF check.round = MaxRounds THEN Concludes("down")
                ELSE check' = [check EXCEPT !.own = @ \cup {answer}, !.round = @ + 1,
                                            !.fields = @ \ {answer}]
  BY DEF HealthQuery
<1>2. check.at = "query" /\ check.told = "nothing"
  BY DEF HealthQuery, HealthInv, SoFar
<1>3. CASE Concludes("degraded") \/ Concludes("down") BY <1>0, <1>3, ConcludesKept
<1>4. CASE /\ answer = "data"
           /\ check' = [check EXCEPT !.at = "optional", !.todo = OptionalRoots, !.round = 1]
  <2>1. \A r \in Required : Readable(r)
    <3>1. check.fields \in SUBSET Fields /\ "data" \in Answers(Required, check.fields)
      BY <1>0, <1>1, <1>4 DEF Checks
    <3>2. Required \cap nas.renamed = {} /\ Required \cap nas.closed = {} BY <3>1, DataMeans
    <3> QED BY <3>2 DEF Readable
  <2>2. /\ check'.at = "optional" /\ check'.todo = OptionalRoots /\ check'.round = 1
        /\ check'.told = "nothing" /\ check'.refused = check.refused
        /\ check'.still = check.still /\ check'.heard = check.heard
    BY <1>0, <1>2, <1>4 DEF Checks
  <2>3. \A r \in Roots : r \in OptionalRoots \/ Readable(r)
    BY <2>1 DEF Required
  <2> QED BY <1>0, <2>2, <2>3 DEF HealthInv, RoundInv, SoFar, HealthIsTrue, Undisturbed, Readable
<1>5. CASE check' = [check EXCEPT !.at = "probes", !.todo = Roots]
  <2>1. /\ check'.at = "probes" /\ check'.told = "nothing" /\ check'.refused = check.refused
        /\ check'.still = check.still /\ check'.heard = check.heard
    BY <1>0, <1>2, <1>5 DEF Checks
  <2> QED BY <1>0, <2>1 DEF HealthInv, RoundInv, SoFar, HealthIsTrue, Undisturbed
<1>6. CASE check' = [check EXCEPT !.own = @ \cup {answer}, !.round = @ + 1,
                                  !.fields = @ \ {answer}]
  <2>1. /\ check'.at = "query" /\ check'.told = "nothing" /\ check'.refused = check.refused
        /\ check'.still = check.still /\ check'.heard = check.heard
    BY <1>0, <1>2, <1>6 DEF Checks
  <2> QED BY <1>0, <2>1 DEF HealthInv, RoundInv, SoFar, HealthIsTrue, Undisturbed
<1> QED BY <1>1, <1>3, <1>4, <1>5, <1>6

LEMMA ProbeKept == ASSUME TypeOK, HealthInv, NEW r \in Roots, Probe(r) PROVE HealthInv'
<1>0. check \in Checks /\ nas \in Stations /\ nas' = nas BY CheckIs DEF Probe
<1>1. PICK answer \in Executed({r}, {}) \cup {"schema" : x \in {r} \cap nas.renamed}
                      \cup {"unreachable"} :
          check' = [check EXCEPT !.todo = @ \ {r},
                       !.heard = @ /\ answer # "unreachable",
                       !.refused = IF \/ answer = "forbidden"
                                      \/ answer # "data" /\ r \in Required
                                   THEN @ \cup {r} ELSE @]
  BY DEF Probe
<1> DEFINE held == \/ answer = "forbidden"
                   \/ answer # "data" /\ r \in Required
<1>2. check.at = "probes" /\ check.told = "nothing" BY DEF Probe, HealthInv, SoFar
<1>3. /\ check'.at = "probes" /\ check'.told = "nothing"
      /\ check'.still = check.still
      /\ check'.heard => check.heard /\ answer # "unreachable"
      /\ check'.refused = IF held THEN check.refused \cup {r} ELSE check.refused
  BY <1>0, <1>1, <1>2 DEF Checks
<1>4. answer # "unreachable" /\ held => r \in nas.closed \cup nas.renamed
  <2>1. CASE answer \in Executed({r}, {})
    <3>1. r \in Required => r \notin nas.off BY <1>0 DEF Stations, Required
    <3> QED BY <2>1, <3>1 DEF Executed
  <2>2. CASE r \in nas.renamed BY <2>2
  <2>3. answer \in Executed({r}, {}) \/ r \in nas.renamed \/ answer = "unreachable" BY <1>1
  <2> QED BY <2>1, <2>2, <2>3
<1> HIDE DEF held
<1> QED BY <1>0, <1>3, <1>4 DEF HealthInv, RoundInv, SoFar, HealthIsTrue, Undisturbed

\* What an optional query says while the fields can be foreseen.
LEMMA OptionalAnswer ==
    ASSUME Foreseen, TypeOK, RoundInv, check.at = "optional",
           NEW r \in OptionalRoots, check.asked \subseteq {r},
           NEW answer \in Answers({r}, Asks[r] \ check.own)
    PROVE  /\ answer \in Fields =>
                /\ check.round < MaxRounds
                /\ check.round <= Cardinality((check.own \cup {answer}) \cap Asks[r])
           /\ answer \notin Fields /\ answer \notin Degrades => Readable(r)
<1>0. check \in Checks /\ nas \in Stations BY CheckIs
<1> DEFINE L == Asks[r] \cap Large
           X == check.own \cap Asks[r]
<1>1. ~Emptied({r}, Asks[r] \ check.own)
  <2> SUFFICES ASSUME NEW s \in Selections, s \subseteq FieldsOf({r}),
                      s \cap (Asks[r] \ check.own) = {}
               PROVE  FALSE
    BY DEF Emptied
  <2>1. s \subseteq Asks[r] BY DEF FieldsOf
  <2>2. s \subseteq Large BY <1>0, <2>1 DEF Checks
  <2> QED BY <2>1, <2>2 DEF Foreseen
<1>2. answer = "schema" \/ (r \notin nas.renamed /\ answer \in Executed({r}, Asks[r] \ check.own))
  BY <1>1 DEF Answers
<1>3. ASSUME answer \in Fields
      PROVE  /\ check.round < MaxRounds
             /\ check.round <= Cardinality((check.own \cup {answer}) \cap Asks[r])
  <2>1. answer \in Asks[r] /\ answer \notin check.own /\ answer \in Large
    <3>1. answer \in Asks[r] \ check.own /\ answer \in nas.large BY <1>3, FieldAnswered
    <3> QED BY <1>0, <3>1 DEF Stations
  <2>2. X \in SUBSET L /\ answer \in L /\ answer \notin X
    BY <1>0, <2>1 DEF Checks
  <2>3. IsFiniteSet(L) /\ Cardinality(L) < MaxRounds BY DEF Foreseen
  <2>4. check.round > 1 => check.round <= Cardinality(X) + 1
    BY DEF RoundInv
  <2>5. (check.own \cup {answer}) \cap Asks[r] = X \cup {answer} BY <2>1
  <2> HIDE DEF L, X
  <2>6. IsFiniteSet(X) /\ Cardinality(X) \in Nat /\ Cardinality(L) \in Nat
    BY <2>2, <2>3, FS_Subset, FS_CardinalityType
  <2>7. Cardinality(X \cup {answer}) = Cardinality(X) + 1 BY <2>2, <2>6, FS_AddElement
  <2>8. X \cup {answer} \in SUBSET L BY <2>2
  <2>9. Cardinality(X \cup {answer}) <= Cardinality(L) BY <2>3, <2>8, FS_Subset
  <2>10. check.round \in Nat /\ MaxRounds \in Nat /\ check.round >= 1
    BY CheckIs, BoundsAssumption
  <2>11. check.round <= Cardinality(X) + 1 BY <2>4, <2>6, <2>10
  <2>12. check.round <= Cardinality(X \cup {answer}) BY <2>7, <2>11
  <2>13. check.round < MaxRounds
    <3>1. Cardinality(X \cup {answer}) \in Nat BY <2>6, <2>7
    <3> HIDE DEF L, X
    <3> QED BY <3>1, <2>3, <2>6, <2>9, <2>10, <2>12
  <2> QED BY <2>5, <2>12, <2>13
<1>4. ASSUME answer \notin Fields, answer \notin Degrades PROVE Readable(r)
  <2>1. r \notin nas.renamed /\ answer \in Executed({r}, Asks[r] \ check.own)
    BY <1>2, <1>4 DEF Degrades
  <2>2. answer \notin Asks[r] BY <1>4, BoundsAssumption
  <2>3. r \in nas.closed => r \in nas.off
    BY <1>4, <2>1, <2>2 DEF Executed, Degrades
  <2> QED BY <2>1, <2>3 DEF Readable
<1> QED BY <1>3, <1>4

LEMMA OptionalQueryKept ==
    ASSUME Foreseen, TypeOK, TodoInv, HealthInv, NEW r \in Roots, OptionalQuery(r)
    PROVE  HealthInv'
<1>0. check \in Checks /\ nas' = nas BY CheckIs DEF OptionalQuery
<1>1. /\ check.at = "optional" /\ r \in OptionalRoots /\ check.asked \subseteq {r}
      /\ check.told = "nothing"
  BY DEF OptionalQuery, TodoInv, HealthInv, SoFar
<1>2. PICK answer \in Answers({r}, Asks[r] \ check.own) \cup {"unreachable"} :
              \/ Concludes("degraded")
              \/ /\ answer \in Fields /\ check.round < MaxRounds
                 /\ check'.at = check.at /\ check'.todo = check.todo
                 /\ check'.own = check.own \cup {answer} /\ check'.round = check.round + 1
                 /\ check'.asked = {r} /\ check'.refused = check.refused
                 /\ check'.still = check.still /\ check'.heard = check.heard
                 /\ check'.told = check.told
              \/ /\ answer \notin Degrades /\ (answer \in Fields => check.round = MaxRounds)
                 /\ check'.at = check.at /\ check'.todo = check.todo \ {r}
                 /\ check'.round = 1 /\ check'.refused = check.refused
                 /\ check'.still = check.still
                 /\ check'.heard => check.heard /\ answer # "unreachable"
                 /\ check'.told = check.told
  BY OptionalQueryParts
<1>3. answer # "unreachable" =>
        /\ answer \in Fields =>
             /\ check.round < MaxRounds
             /\ check.round <= Cardinality((check.own \cup {answer}) \cap Asks[r])
        /\ answer \notin Fields /\ answer \notin Degrades => Readable(r)
  BY <1>1, <1>2, OptionalAnswer DEF HealthInv
<1>4. "unreachable" \notin Fields /\ check.round \in Nat /\ MaxRounds \in Nat
  BY CheckIs, NamesAssumption, BoundsAssumption DEF Answered
<1>5. CASE Concludes("degraded") BY <1>0, <1>5, ConcludesKept
<1>6. CASE /\ answer \in Fields /\ check'.at = check.at /\ check'.todo = check.todo
           /\ check'.own = check.own \cup {answer} /\ check'.round = check.round + 1
           /\ check'.asked = {r} /\ check'.refused = check.refused
           /\ check'.still = check.still /\ check'.heard = check.heard
           /\ check'.told = check.told
  <2>1. check.round <= Cardinality(check'.own \cap Asks[r]) BY <1>3, <1>4, <1>6
  <2>2. check'.round <= Cardinality(check'.own \cap Asks[r]) + 1
    <3>1. Cardinality(check'.own \cap Asks[r]) \in Nat
      <4>1. IsFiniteSet(Asks[r] \cap Large) BY <1>1 DEF Foreseen
      <4>2. answer \in Large
        <5>1. answer \in Answers({r}, Asks[r] \ check.own) \cap Fields BY <1>2, <1>4, <1>6
        <5> QED BY <5>1, CheckIs, FieldAnswered DEF Stations
      <4>3. check'.own \cap Asks[r] \in SUBSET (Asks[r] \cap Large)
        BY <1>0, <1>6, <4>2 DEF Checks
      <4> QED BY <4>1, <4>3, FS_Subset, FS_CardinalityType
    <3> QED BY <1>4, <1>6, <2>1, <3>1
  <2>3. RoundInv' BY <1>6, <2>2 DEF RoundInv
  <2>4. SoFar' BY <1>0, <1>1, <1>6 DEF HealthInv, SoFar, HealthIsTrue, Undisturbed, Readable
  <2> QED BY <2>3, <2>4 DEF HealthInv
<1>7. CASE /\ answer \notin Degrades /\ (answer \in Fields => check.round = MaxRounds)
           /\ check'.at = check.at /\ check'.todo = check.todo \ {r}
           /\ check'.round = 1 /\ check'.refused = check.refused
           /\ check'.still = check.still
           /\ check'.heard => check.heard /\ answer # "unreachable"
           /\ check'.told = check.told
  <2>1. check'.heard => Readable(r) BY <1>3, <1>4, <1>7
  <2>2. RoundInv' BY <1>7 DEF RoundInv
  <2>3. SoFar'
    BY <1>0, <1>1, <1>7, <2>1 DEF HealthInv, SoFar, HealthIsTrue, Undisturbed, Readable
  <2> QED BY <2>2, <2>3 DEF HealthInv
<1> QED BY <1>2, <1>5, <1>6, <1>7

LEMMA OptionalDoneKept == ASSUME TypeOK, HealthInv, OptionalDone PROVE HealthInv'
<1>1. check \in Checks /\ nas' = nas BY CheckIs DEF OptionalDone
<1>2. check.at = "optional" /\ check.todo = {} BY DEF OptionalDone
<1>3. /\ check'.at = "types" /\ check'.todo = Types /\ check'.told = check.told
      /\ check'.refused = check.refused
      /\ check'.still = check.still /\ check'.heard = check.heard
  BY <1>1 DEF OptionalDone, Checks
<1> QED BY <1>1, <1>2, <1>3 DEF HealthInv, RoundInv, SoFar, HealthIsTrue, Undisturbed, Readable

LEMMA IntrospectKept == ASSUME TypeOK, HealthInv, NEW t \in Types, Introspect(t) PROVE HealthInv'
<1>1. check \in Checks /\ nas' = nas /\ check.at = "types" BY CheckIs DEF Introspect
<1>2. CASE check' = [check EXCEPT !.todo = {}, !.heard = FALSE]
  <2>1. check'.at = "types" /\ check'.told = check.told /\ check'.heard = FALSE
    BY <1>1, <1>2 DEF Checks
  <2> QED BY <1>1, <2>1 DEF HealthInv, RoundInv, SoFar, HealthIsTrue, Undisturbed
<1>3. CASE check' = [check EXCEPT !.todo = @ \ {t}, !.missing = @ \/ t \in nas.renamed]
  <2>1. /\ check'.at = "types" /\ check'.told = check.told /\ check'.heard = check.heard
        /\ check'.still = check.still /\ check'.refused = check.refused
        /\ check'.todo = check.todo \ {t}
        /\ check.missing \/ t \in nas.renamed => check'.missing
    BY <1>1, <1>3 DEF Checks
  <2> QED BY <1>1, <2>1 DEF HealthInv, RoundInv, SoFar, HealthIsTrue, Undisturbed, Readable
<1> QED BY <1>2, <1>3 DEF Introspect

LEMMA IntrospectedKept == ASSUME TypeOK, HealthInv, Introspected PROVE HealthInv'
<1>1. nas' = nas /\ nas \in Stations /\ check.at = "types" /\ check.todo = {}
  BY CheckIs DEF Introspected
<1>2. CASE check.missing
  <2>1. Concludes("degraded") BY <1>2 DEF Introspected
  <2> QED BY <1>1, <2>1, ConcludesKept
<1>3. CASE ~check.missing
  <2>1. Concludes("ok") BY <1>3 DEF Introspected
  <2>2. /\ check'.at = "idle" /\ check'.told = "ok" /\ check'.refused = check.refused
        /\ check'.still = check.still /\ check'.heard = check.heard
    BY <2>1, ConcludesType
  <2>3. Undisturbed => nas.renamed = {} /\ nas.closed \subseteq nas.off
    BY <1>1, <1>3 DEF HealthInv, SoFar, Readable, Stations
  <2> QED BY <1>1, <2>2, <2>3 DEF HealthInv, RoundInv, SoFar, HealthIsTrue, Undisturbed
<1> QED BY <1>2, <1>3

LEMMA CheckStepKept == ASSUME Foreseen, TypeOK, TodoInv, HealthInv, CheckStep PROVE HealthInv'
<1>1. CASE Probed
  BY <1>1, ConcludesKept DEF Probed
<1> QED BY <1>1, BeginCheckKept, HealthQueryKept, ProbeKept, OptionalQueryKept, OptionalDoneKept,
           IntrospectKept, IntrospectedKept DEF CheckStep

LEMMA HealthKept == ASSUME Foreseen, Inv, HealthInv, [Next]_vars PROVE HealthInv'
<1>1. TypeOK /\ TodoInv /\ CallInv BY DEF Inv, CallInv
<1>2. ASSUME check' = check, nas'.closed = nas.closed, nas'.off = nas.off,
             nas'.renamed = nas.renamed
      PROVE  HealthInv'
  BY <1>2 DEF HealthInv, RoundInv, SoFar, HealthIsTrue, Undisturbed, Readable
<1>3. ASSUME NEW c \in Calls, CallStep(c) PROVE HealthInv'
  BY <1>1, <1>2, <1>3, CallStepFrame
<1>4. CASE NasStep
  <2>1. CASE \E t \in Targets : Switch(t)
    BY <1>1, <1>2, <2>1, CheckIs DEF Switch, Stations
  <2>2. CASE check' = [check EXCEPT !.still = FALSE]
    <3>1. /\ check'.still = FALSE /\ check'.at = check.at /\ check'.told = check.told
          /\ check'.round = check.round /\ check'.asked = check.asked
          /\ check'.own = check.own
      BY <1>1, <2>2, CheckIs DEF Checks
    <3> QED BY <3>1 DEF HealthInv, RoundInv, SoFar, HealthIsTrue, Undisturbed
  <2> QED BY <1>4, <2>1, <2>2 DEF NasStep, Alter
<1>5. CASE UNCHANGED vars BY <1>2, <1>5 DEF vars
<1> QED BY <1>1, <1>3, <1>4, <1>5, CheckStepKept, NextCases

LEMMA InitHealth == Init => HealthInv
<1> SUFFICES ASSUME Init PROVE HealthInv OBVIOUS
<1>1. /\ check.at \notin {"query", "probes", "optional", "types"}
      /\ check.told = "nothing" /\ check.refused = {}
  BY DEF Init, Unchecked
<1> QED BY <1>1 DEF HealthInv, RoundInv, SoFar, HealthIsTrue, Undisturbed

\* While the NAS answers as it did and every request gets an answer, ok means that
\* what the tools need is there and may be read, and the roots the health check
\* names as refused are (toolsets/unraid/__init__.py:519-597).
THEOREM HealthIsTrueHolds ==
    ASSUME Foreseen
    PROVE  Spec => []HealthIsTrue
<1>1. Init => HealthInv BY InitHealth
<1>2. Inv /\ HealthInv /\ [Next]_vars => HealthInv' BY HealthKept
<1>3. HealthInv => HealthIsTrue BY DEF HealthInv, SoFar
<1> QED BY <1>1, <1>2, <1>3, InvHolds, PTL DEF Spec
=============================================================================
