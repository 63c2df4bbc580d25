---------------------------- MODULE ProxyRuntime ----------------------------
(***************************************************************************)
(* One mounted proxy toolset from its swap out of the routes to its end:   *)
(* ToolsetRuntime of gateway/registry.py, reached through the dispatcher   *)
(* (gateway/dispatcher.py) and the bearer check (auth/routes.py), around   *)
(* the connection of ProxyConnection.                                      *)
(*                                                                         *)
(* A request has the route it was dispatched to from then on.  It is       *)
(* counted as in flight only behind the bearer check, which awaits the     *)
(* database.  Health checks need no bearer and are not counted.            *)
(***************************************************************************)
EXTENDS ProxyConnection

VARIABLES
    phase,      \* where stop() stands
    deadline,   \* the drain window is over
    held        \* history: requests inside the runtime when it was swapped out

rtVars == <<phase, deadline, held>>
vars == <<connVars, rtVars>>

Phases == {"serving",      \* the routes lead here
           "drain", "manager", "connection", "cancelled", "stopped"}

TypeOK ==
    /\ ConnTypeOK
    /\ deadline \in BOOLEAN
    /\ phase \in Phases
    /\ held \subseteq Calls

Init ==
    /\ ConnInit
    /\ phase = "serving" /\ deadline = FALSE /\ held = {}

\* Requests inside the session manager.
InsidePlaces == Waiting \cup InSession \cup {"back"}
Inside == {c \in Calls \ Probes : at[c] \in InsidePlaces}

\* Seeded fault: only requests that have got a session count.
InflightInSession == {c \in Inside : at[c] \in InSession}

\* The counter that drain() waits for.
Inflight == Inside

-----------------------------------------------------------------------------
(* Requests. *)

Dispatch(c) ==
    /\ c \notin Probes /\ at[c] = "out" /\ phase = "serving"
    /\ Move(c, "auth")
    /\ UNCHANGED <<run, session, ready, kick, stop, up, alive, rtVars>>

\* The session manager takes requests until its task group is closed; after
\* that it raises.
ManagerTakes == phase \in {"serving", "drain", "manager"}

\* What needs no upstream: tools/list, and a call of a tool that is disabled
\* (toolfilter.py) or not exported.
AnsweredHere(c) ==
    /\ Move(c, "back")
    /\ UNCHANGED <<run, session, ready, kick, stop, up, alive>>

\* 401; or the manager is gone.
TurnedAway(c) ==
    /\ Move(c, "out")
    /\ UNCHANGED <<run, session, ready, kick, stop, up, alive>>

Authenticated(c) ==
    /\ at[c] = "auth"
    /\ \/ ManagerTakes /\ (Enter(c) \/ AnsweredHere(c))
       \/ TurnedAway(c)
    /\ UNCHANGED rtVars

\* GET /<key>/healthz or the admin's test: not down at once if there is a session.
Probe(c) ==
    /\ c \in Probes /\ at[c] = "out" /\ phase = "serving"
    /\ StartProbe(c)
    /\ UNCHANGED rtVars

\* However the call ended, the audit middleware awaits the row it inserts, while
\* the request is still in flight.  That this fails is logged and no more.  The
\* result of a health check is kept in the runtime.
Recorded(c) ==
    /\ at[c] = "back"
    /\ Move(c, "out")
    /\ UNCHANGED <<run, session, ready, kick, stop, up, alive, rtVars>>

-----------------------------------------------------------------------------
(* The swap, and ToolsetRuntime.stop. *)

SwapOut ==
    /\ phase = "serving"
    /\ phase' = "drain"
    /\ held' = Inside
    /\ UNCHANGED <<connVars, deadline>>

DrainTimesOut ==
    /\ phase = "drain" /\ ~deadline
    /\ deadline' = TRUE
    /\ UNCHANGED <<connVars, phase, held>>

Drained ==
    /\ phase = "drain"
    /\ Inflight = {} \/ deadline
    /\ phase' = "manager"
    /\ UNCHANGED <<connVars, deadline, held>>

\* The session manager's task ends, and the requests inside it with it; then
\* on_stop, the stop() of the connection, sets _stop.
ManagerStops ==
    /\ phase = "manager"
    /\ at' = [c \in Calls |-> IF c \in Inside THEN "out" ELSE at[c]]
    /\ stop' = TRUE
    /\ phase' = "connection"
    /\ UNCHANGED <<run, session, ready, kick, up, alive, deadline, held>>

\* Seeded fault: stop() waits for the task as long as it takes.
StopsWhenDone ==
    /\ phase \in {"connection", "cancelled"} /\ run = "done"
    /\ phase' = "stopped"
    /\ UNCHANGED <<connVars, deadline, held>>

\* Seeded fault: a task that does not end in time is abandoned as it is.
StopsUncancelled ==
    /\ phase = "connection"
    /\ phase' = "stopped"
    /\ UNCHANGED <<connVars, deadline, held>>

\* The task has ended; or not within the budget, and it is cancelled, and
\* abandoned if it does not end then either.
ConnectionStops ==
    /\ phase \in {"connection", "cancelled"}
    /\ IF run = "done" \/ phase = "cancelled"
       THEN phase' = "stopped" /\ UNCHANGED connVars
       ELSE phase' = "cancelled" /\ Cancel
    /\ UNCHANGED <<deadline, held>>

StopSteps == DrainTimesOut \/ Drained \/ ManagerStops \/ ConnectionStops

-----------------------------------------------------------------------------
Next ==
    \/ ConnNext /\ UNCHANGED rtVars
    \/ \E c \in Calls : Dispatch(c) \/ Authenticated(c) \/ Probe(c) \/ Recorded(c)
    \/ SwapOut \/ StopSteps

Spec == Init /\ [][Next]_vars

FairSpec ==
    /\ Spec
    /\ WF_vars(RunSteps /\ UNCHANGED rtVars)
    /\ \A c \in Calls : WF_vars((CallSteps(c) /\ UNCHANGED rtVars) \/ Authenticated(c) \/ Recorded(c))
    /\ WF_vars(StopSteps)

-----------------------------------------------------------------------------
(* Properties. *)

\* A request in flight at the swap is left alone until the drain window is over
\* (registry.py:14: "Old runtimes drain in-flight calls for a short window
\* before they close").
DrainIsKept ==
    [][ManagerStops /\ ~deadline => held \cap Inside = {}]_vars

\* stop() returns, however the upstream behaves (proxy.py:119-120: "abandoned
\* after `timeout` seconds so a restart never waits on it").
StopReturns == phase = "drain" ~> phase = "stopped"

\* A runtime that has been stopped does not connect again, even if its task was
\* abandoned.
StoppedForGood == phase = "stopped" => run \in {"closing", "done"}
=============================================================================
