-------------------------- MODULE ProxyRuntimeProofs --------------------------
(***************************************************************************)
(* Theorems about ProxyRuntime, for any set of calls and health checks and *)
(* every behaviour of the upstream.                                        *)
(***************************************************************************)
EXTENDS ProxyRuntime, TLAPS

\* The event and the session are set and taken together, and _run is there as
\* long as they are.
SessionInv ==
    /\ session <=> ready
    /\ session => run \in {"live", "closing"}

\* Past the manager _stop is set; once cancelled the task is not going to
\* connect.
StopInv ==
    /\ phase \in {"connection", "cancelled", "stopped"} => stop
    /\ phase \in {"cancelled", "stopped"} => run \in {"closing", "done"}

\* After the swap nobody comes in a second time; who was inside is out by the
\* time that stop() goes on within the drain window.
HeldInv ==
    /\ held \cap Probes = {}
    /\ phase # "serving" => \A c \in held : at[c] # "auth"
    /\ phase = "manager" /\ ~deadline => \A c \in held : at[c] = "out"

IInv == TypeOK /\ SessionInv /\ DropIsSeen /\ StopInv /\ HeldInv

-----------------------------------------------------------------------------
USE DEF TypeOK, ConnTypeOK, RunPCs, Places, Waiting, InSession, Phases, rtVars, connVars

(* The inductive invariant holds in the beginning and every step keeps it. *)

\* A connection begins without a session, a runtime in the routes.
LEMMA Start == Init => IInv
BY DEF Init, ConnInit, IInv, SessionInv, DropIsSeen, StopInv, HeldInv

\* What the steps of a call have in common: it goes from one place to another,
\* never back to the bearer check.
LEMMA CallMoves ==
    ASSUME TypeOK, NEW c \in Calls, CallSteps(c)
    PROVE  /\ at[c] \in Waiting \cup InSession
           /\ \E to \in {"calling", "back"} : Move(c, to)
           /\ UNCHANGED <<run, stop, up, alive>>
           /\ UNCHANGED <<session, ready, kick>> \/ Drop
<1>1. CASE GivesUp(c)
  BY <1>1 DEF GivesUp
<1>2. CASE Resume(c)
  BY <1>2 DEF Resume
<1>3. CASE Answered(c)
  BY <1>3 DEF Answered
<1>4. CASE Fails(c)
  BY <1>4 DEF Fails
<1>5. CASE Refused(c)
  BY <1>5 DEF Refused
<1> QED
  BY <1>1, <1>2, <1>3, <1>4, <1>5 DEF CallSteps

\* A step of the connection, and a call that moves while nothing else does.
LEMMA ConnStep ==
    ASSUME IInv, ConnNext, UNCHANGED rtVars
    PROVE  IInv'
<1>1. CASE Connect
  <2>1. phase \notin {"cancelled", "stopped"}
    BY <1>1 DEF IInv, StopInv, Connect
  <2> QED
    BY <1>1, <2>1 DEF IInv, SessionInv, DropIsSeen, StopInv, HeldInv, Connect, Connected, MoveAll
<1>2. CASE ConnectFails
  BY <1>2 DEF IInv, SessionInv, DropIsSeen, StopInv, HeldInv, ConnectFails
<1>3. CASE LeaveSession
  BY <1>3 DEF IInv, SessionInv, DropIsSeen, StopInv, HeldInv, LeaveSession
<1>4. CASE Close
  <2>1. phase \in {"cancelled", "stopped"} => run' = "done"
    BY <1>4 DEF IInv, StopInv, Close
  <2> QED
    BY <1>4, <2>1 DEF IInv, SessionInv, DropIsSeen, StopInv, HeldInv, Close, MoveAll
<1>5. CASE BackoffEnds
  BY <1>5 DEF IInv, SessionInv, DropIsSeen, StopInv, HeldInv, BackoffEnds
<1>6. ASSUME NEW c \in Calls, CallSteps(c) PROVE IInv'
  <2>1. PICK to \in {"calling", "back"} : Move(c, to)
    BY <1>6, CallMoves DEF IInv
  <2>2. /\ UNCHANGED <<run, stop, up, alive>>
        /\ UNCHANGED <<session, ready, kick>> \/ Drop
        /\ at[c] # "out"
    BY <1>6, CallMoves DEF IInv
  <2>3. at' \in [Calls -> Places] /\ \A d \in Calls : at'[d] = at[d] \/ d = c
    BY <2>1 DEF IInv, Move
  <2>4. TypeOK' /\ SessionInv' /\ DropIsSeen' /\ StopInv'
    <3>1. CASE UNCHANGED <<session, ready, kick>>
      BY <3>1, <2>2, <2>3 DEF IInv, SessionInv, DropIsSeen, StopInv
    <3>2. CASE Drop
      BY <3>2, <2>2, <2>3 DEF IInv, SessionInv, DropIsSeen, StopInv, Drop
    <3> QED
      BY <2>2, <3>1, <3>2
  <2>5. HeldInv'
    BY <2>1, <2>2, <2>3 DEF IInv, HeldInv, Move
  <2> QED
    BY <2>4, <2>5 DEF IInv
<1>7. CASE UpstreamChanges
  BY <1>7 DEF IInv, SessionInv, DropIsSeen, StopInv, HeldInv, UpstreamChanges
<1> QED
  BY <1>1, <1>2, <1>3, <1>4, <1>5, <1>6, <1>7 DEF ConnNext

\* A request on its way in or out: nobody who was held comes in again.
LEMMA RequestStep ==
    ASSUME IInv, NEW c \in Calls,
           Dispatch(c) \/ Authenticated(c) \/ Probe(c) \/ Recorded(c)
    PROVE  IInv'
<1>1. CASE Dispatch(c)
  BY <1>1 DEF IInv, SessionInv, DropIsSeen, StopInv, HeldInv, Dispatch, Move
<1>2. CASE Authenticated(c)
  <2>1. PICK to \in {"calling", "wait", "back", "out"} : Move(c, to)
    BY <1>2 DEF Authenticated, Enter, AnsweredHere, TurnedAway
  <2>2. /\ UNCHANGED <<run, session, ready, kick, stop, up, alive, rtVars>>
        /\ at[c] = "auth"
    BY <1>2 DEF Authenticated, Enter, AnsweredHere, TurnedAway
  <2>3. TypeOK' /\ SessionInv' /\ DropIsSeen' /\ StopInv'
    BY <2>1, <2>2 DEF IInv, SessionInv, DropIsSeen, StopInv, Move
  <2>4. HeldInv'
    BY <2>1, <2>2 DEF IInv, HeldInv, Move
  <2> QED
    BY <2>3, <2>4 DEF IInv
<1>3. CASE Probe(c)
  BY <1>3 DEF IInv, SessionInv, DropIsSeen, StopInv, HeldInv, Probe, StartProbe, Move
<1>4. CASE Recorded(c)
  BY <1>4 DEF IInv, SessionInv, DropIsSeen, StopInv, HeldInv, Recorded, Move
<1> QED
  BY <1>1, <1>2, <1>3, <1>4

\* The swap and the stop.
LEMMA StopStep ==
    ASSUME IInv, SwapOut \/ StopSteps
    PROVE  IInv'
<1>1. CASE SwapOut
  BY <1>1 DEF IInv, SessionInv, DropIsSeen, StopInv, HeldInv, SwapOut, Inside, InsidePlaces
<1>2. CASE DrainTimesOut
  BY <1>2 DEF IInv, SessionInv, DropIsSeen, StopInv, HeldInv, DrainTimesOut
<1>3. CASE Drained
  <2>1. ~deadline => \A c \in held : at[c] = "out"
    BY <1>3 DEF IInv, HeldInv, Drained, Inflight, Inside, InsidePlaces
  <2> QED
    BY <1>3, <2>1 DEF IInv, SessionInv, DropIsSeen, StopInv, HeldInv, Drained
<1>4. CASE ManagerStops
  BY <1>4 DEF IInv, SessionInv, DropIsSeen, StopInv, HeldInv, ManagerStops, Inside
<1>5. CASE ConnectionStops
  BY <1>5 DEF IInv, SessionInv, DropIsSeen, StopInv, HeldInv, ConnectionStops, Cancel
<1> QED
  BY <1>1, <1>2, <1>3, <1>4, <1>5 DEF StopSteps

LEMMA Step == IInv /\ [Next]_vars => IInv'
<1> SUFFICES ASSUME IInv, [Next]_vars PROVE IInv'
  OBVIOUS
<1>1. CASE UNCHANGED vars
  BY <1>1 DEF vars, IInv, SessionInv, DropIsSeen, StopInv, HeldInv
<1> QED
  BY <1>1, ConnStep, RequestStep, StopStep DEF Next

-----------------------------------------------------------------------------
(* The results. *)

LEMMA Invariant == Spec => []IInv
BY Start, Step, PTL DEF Spec

\* Every variable of the runtime and its connection stays within its type.
THEOREM TypeCorrect == Spec => []TypeOK
BY Invariant, PTL DEF IInv

\* A session that a call has dropped is on its way to be replaced, whichever
\* calls fail on whichever sessions (proxy.py, _drop and _run).
THEOREM DropIsSeenHolds == Spec => []DropIsSeen
BY Invariant, PTL DEF IInv

\* Who does not wait for a session has one (proxy.py, _wait_ready).
THEOREM ReadyMeansSessionHolds == Spec => []ReadyMeansSession
<1>1. IInv => ReadyMeansSession
  BY DEF IInv, SessionInv, ReadyMeansSession
<1> QED
  BY <1>1, Invariant, PTL

\* A stopped runtime does not connect again, even if its task was abandoned
\* (proxy.py, stop).
THEOREM StoppedForGoodHolds == Spec => []StoppedForGood
<1>1. IInv => StoppedForGood
  BY DEF IInv, StopInv, StoppedForGood
<1> QED
  BY <1>1, Invariant, PTL

\* Within the drain window no request that was in flight at the swap is cut
\* (registry.py, drain and stop).
THEOREM DrainIsKeptHolds == Spec => DrainIsKept
<1>1. IInv /\ [Next]_vars => [ManagerStops /\ ~deadline => held \cap Inside = {}]_vars
  BY DEF IInv, HeldInv, ManagerStops, Inside, InsidePlaces
<1> QED
  BY <1>1, Invariant, PTL DEF Spec, DrainIsKept
=============================================================================
