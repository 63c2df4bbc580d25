--------------------------- MODULE ProxyConnection ---------------------------
(***************************************************************************)
(* ProxyConnection of gateway/proxy.py: the one client session of a proxy  *)
(* toolset to its upstream, kept by a task of its own (_run) that connects *)
(* again when a call has dropped the session, and the calls that use it.   *)
(*                                                                         *)
(* A call holds on to the session it got: "calling" on the one _run is     *)
(* keeping, "late" on one it has given up since.  What a late call gets    *)
(* from the client library, an error at once or nothing until its budget   *)
(* is used up, is left open.  Health checks are calls too, of tools/list.  *)
(* Of an error only whether it drops the session is kept.                  *)
(***************************************************************************)
CONSTANTS
    Calls,
    Probes      \* those of them that are health checks

ASSUME ProbesAssumption == Probes \subseteq Calls

VARIABLES
    run,        \* where _run stands
    session,    \* _session is set: to the session of _run
    ready,      \* _ready
    kick,       \* _kick
    stop,       \* _stop
    up,         \* the upstream answers
    alive,      \* the upstream knows the session _run keeps
    at          \* where each call stands

connVars == <<run, session, ready, kick, stop, up, alive, at>>

RunPCs == {"connect", "live", "closing", "backoff", "done"}
Waiting == {"wait", "woken"}        \* in _wait_ready
InSession == {"calling", "late"}    \* awaiting the upstream
Places == {"out", "auth",
           "back"}                  \* its result or error is on the way back
          \cup Waiting \cup InSession

ConnTypeOK ==
    /\ run \in RunPCs
    /\ session \in BOOLEAN /\ ready \in BOOLEAN /\ kick \in BOOLEAN
    /\ stop \in BOOLEAN
    /\ up \in BOOLEAN /\ alive \in BOOLEAN
    /\ at \in [Calls -> Places]

ConnInit ==
    /\ run = "connect" /\ session = FALSE /\ ready = FALSE
    /\ kick = FALSE /\ stop = FALSE
    /\ up \in BOOLEAN /\ alive = FALSE
    /\ at = [c \in Calls |-> "out"]

\* All calls at one of the places move to another.
MoveAll(places, to) == [c \in Calls |-> IF at[c] \in places THEN to ELSE at[c]]
Move(c, to) == at' = [at EXCEPT ![c] = to]

-----------------------------------------------------------------------------
(* _run. *)

\* Seeded fault: the kick that led here is not cleared.
ConnectedUncleared ==
    /\ session' = TRUE /\ alive' = TRUE
    /\ ready' = TRUE /\ at' = MoveAll({"wait"}, "woken")
    /\ UNCHANGED kick

\* The session is initialised; everybody waiting is woken and will run later.
Connected ==
    /\ session' = TRUE /\ alive' = TRUE
    /\ ready' = TRUE /\ at' = MoveAll({"wait"}, "woken")
    /\ kick' = FALSE

Connect ==
    /\ run = "connect" /\ up
    /\ run' = "live"
    /\ Connected
    /\ UNCHANGED <<stop, up>>

\* initialize() is refused or takes more than CONNECT_TIMEOUT_SECONDS.
ConnectFails ==
    /\ run = "connect" /\ ~up
    /\ run' = "closing"
    /\ UNCHANGED <<session, ready, kick, stop, up, alive, at>>

\* The wait for _stop or _kick is over, or the transport raises under it.
LeaveSession ==
    /\ run = "live" /\ (stop \/ kick \/ ~alive)
    /\ run' = "closing"
    /\ UNCHANGED <<session, ready, kick, stop, up, alive, at>>

\* The contexts are closed, however long the upstream makes that take: the
\* `finally' clause, and then the end or a pause.
Close ==
    /\ run = "closing"
    /\ session' = FALSE /\ ready' = FALSE /\ alive' = FALSE
    /\ at' = MoveAll({"calling"}, "late")
    /\ run' = IF stop THEN "done" ELSE "backoff"
    /\ UNCHANGED <<kick, stop, up>>

\* The pause is over, or cut short by _stop; a kick does not shorten it.
BackoffEnds ==
    /\ run = "backoff"
    /\ run' = IF stop THEN "done" ELSE "connect"
    /\ UNCHANGED <<session, ready, kick, stop, up, alive, at>>

\* The task is cancelled: what it awaits raises when it next comes to run.  A
\* session that is being closed may swallow that.
Cancel ==
    /\ run' = CASE run \in {"connect", "live"} -> "closing"
               [] run = "backoff" -> "done"
               [] OTHER -> run
    /\ UNCHANGED <<session, ready, kick, stop, up, alive, at>>

RunSteps == Connect \/ ConnectFails \/ (LeaveSession /\ (stop \/ kick)) \/ BackoffEnds

-----------------------------------------------------------------------------
(* Calls. *)

\* _wait_ready: nothing is awaited if the event is set already.
Enter(c) ==
    /\ Move(c, IF ready THEN "calling" ELSE "wait")
    /\ UNCHANGED <<run, session, ready, kick, stop, up, alive>>

\* Seeded fault: no bound on the wait for a session.
WaitsForever(c) == FALSE /\ UNCHANGED connVars

\* Half the budget is used up.
GivesUp(c) ==
    /\ at[c] = "wait"
    /\ Move(c, "back")
    /\ UNCHANGED <<run, session, ready, kick, stop, up, alive>>

\* A call that was woken takes the session there is when it comes to run; if it
\* has been dropped in between, the assertion fails.
Resume(c) ==
    /\ at[c] = "woken"
    /\ Move(c, IF session THEN "calling" ELSE "back")
    /\ UNCHANGED <<run, session, ready, kick, stop, up, alive>>

\* The upstream answers, with a result or an error of its own.
Answered(c) ==
    /\ at[c] = "calling" /\ alive
    /\ Move(c, "back")
    /\ UNCHANGED <<run, session, ready, kick, stop, up, alive>>

\* Seeded fault: the session is taken away and _run not told.
DropUnseen ==
    /\ session' = FALSE /\ ready' = FALSE
    /\ UNCHANGED kick

Drop ==
    /\ session' = FALSE /\ ready' = FALSE
    /\ kick' = TRUE

\* The call runs out of its budget or its transport fails, or a health check gets
\* any error, whichever session it is on: the one there is now is dropped.
Fails(c) ==
    /\ at[c] \in InSession
    /\ Move(c, "back")
    /\ Drop
    /\ UNCHANGED <<run, stop, up, alive>>

\* health_of lists the tools of the upstream over the session there is, if any.
StartProbe(c) ==
    /\ session
    /\ Move(c, "calling")
    /\ UNCHANGED <<run, session, ready, kick, stop, up, alive>>

\* The library reports the closed session: an MCPError, which a tool call passes
\* on and which drops nothing; list_tools drops the session for it, as Fails.
Refused(c) ==
    /\ c \notin Probes
    /\ at[c] = "late" \/ (at[c] = "calling" /\ run = "closing")
    /\ Move(c, "back")
    /\ UNCHANGED <<run, session, ready, kick, stop, up, alive>>

CallSteps(c) == GivesUp(c) \/ Resume(c) \/ Answered(c) \/ Fails(c) \/ Refused(c)

-----------------------------------------------------------------------------
\* The upstream goes away and forgets its sessions, or comes back.
UpstreamChanges ==
    /\ up' = ~up /\ alive' = (alive /\ up')
    /\ UNCHANGED <<run, session, ready, kick, stop, at>>

ConnNext ==
    \/ Connect \/ ConnectFails \/ LeaveSession \/ Close \/ BackoffEnds
    \/ \E c \in Calls : CallSteps(c)
    \/ UpstreamChanges

\* Timers fire and what is ready to run runs.  Close is not fair: an upstream
\* need not let go.
ConnFair ==
    /\ WF_connVars(RunSteps)
    /\ \A c \in Calls : WF_connVars(CallSteps(c))

-----------------------------------------------------------------------------
(* Properties. *)

\* A session that was taken away, also one taken by a call that had failed on
\* an earlier session, is on its way to be replaced: _run never sleeps on it.
DropIsSeen == run = "live" /\ ~session => kick \/ stop

\* Nobody is sent to wait for a session that is there, nor given one that is not.
ReadyMeansSession == ready => session /\ run \in {"live", "closing"}

\* If the upstream stays up and lets go of closed sessions, there is a session
\* again and again, whatever calls fail meanwhile; and it stays once no call
\* fails any more.
Recovers ==
    (<>[]up /\ []<>(run # "closing") /\ []~stop) =>
        /\ []<>session
        /\ <>[][\A c \in Calls : ~Fails(c)]_connVars => <>[]session

\* A call does not hang (proxy.py:6-7: "A call while the upstream is down
\* returns a readable error within the call budget rather than hanging").
CallsReturn == \A c \in Calls : at[c] \in Waiting \cup InSession ~> at[c] = "out"
=============================================================================
