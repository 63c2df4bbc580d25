------------------------------- MODULE Unraid -------------------------------
(***************************************************************************)
(* The Unraid toolset: tools that read the NAS, tools that change it, and  *)
(* the health check, through the client of unraid/client.py with its       *)
(* retries.  The API of the NAS cannot represent some numbers: the toolset *)
(* leaves such a field out and asks again, and all calls of one runtime    *)
(* share what has been left out.                                           *)
(*                                                                         *)
(* A document is the set of roots it reads and the set of fields it asks   *)
(* for; of the fields only those matter that may overflow, and those that  *)
(* stand next to them.  What a request finds is decided when the NAS       *)
(* answers.  The health check works with a toolset of its own and asks     *)
(* nothing that changes the NAS: it shares nothing with the calls, and a   *)
(* behaviour has either the one or the others.                             *)
(***************************************************************************)
EXTENDS Naturals, FiniteSets

CONSTANTS
    Calls,          \* calls of tools at once
    Roots,          \* roots of the API that are read
    OptionalRoots,  \* those of a service that may be off
    Types,          \* types whose fields only introspection shows
    Fields,         \* fields of numbers
    Large,          \* fields whose value may be too large
    Asks,           \* of each root the fields read
    Selections,     \* sets of fields that make up a selection set
    Tools,          \* of each reading tool the roots it reads
    Targets,        \* what can be started and stopped
    VMs,            \* those of them that are looked up by name first
    VmsRoot,        \* the root they are looked up in
    MAX_RETRIES,
    MaxRounds,      \* the 8 of query_raw
    MaxChanges,     \* bound: changes of what the NAS answers
    MaxLost         \* bound: answers lost

ASSUME BoundsAssumption ==
    /\ OptionalRoots \subseteq Roots /\ Large \subseteq Fields /\ VMs \subseteq Targets
    /\ VmsRoot \in OptionalRoots
    /\ Asks \in [Roots -> SUBSET Fields] /\ Selections \subseteq SUBSET Fields
    /\ Tools \subseteq SUBSET Roots
    /\ MAX_RETRIES \in Nat /\ MaxRounds \in Nat \ {0}
    /\ MaxChanges \in Nat /\ MaxLost \in Nat

\* What the client makes of a response, unless it is about a field.
Answered == {"data", "syntax", "schema", "forbidden", "graphql", "refused", "unreachable"}

ASSUME NamesAssumption == Fields \cap Answered = {}

VARIABLES
    nas,       \* what it answers, and what is running on it
    dropped,   \* self.dropped of the runtime
    call,      \* of each call where it stands
    check,     \* the health check
    changes,   \* changes so far
    losses     \* answers lost so far

vars == <<nas, dropped, call, check, changes, losses>>

Required == Roots \ OptionalRoots
FieldsOf(roots) == UNION {Asks[r] : r \in roots}

Idle == [at |-> "idle", roots |-> {}, fields |-> {}, round |-> 1, attempt |-> 0,
         target |-> {}, start |-> FALSE, confirm |-> FALSE, ran |-> 0, lost |-> 0,
         told |-> "nothing"]
Unchecked == [at |-> "idle", fields |-> {}, own |-> {}, round |-> 1, todo |-> {},
              asked |-> {}, refused |-> {}, missing |-> FALSE, still |-> TRUE,
              heard |-> TRUE, told |-> "nothing"]

Told == Answered \cup {"nothing", "noted", "done", "not done", "overflow"}

Stations ==
    [large : SUBSET Large, closed : SUBSET Roots, off : SUBSET OptionalRoots,
     renamed : SUBSET (Roots \cup Types), on : SUBSET Targets]
CallsUnderWay ==
    [at : {"idle", "reading", "listing", "changing"}, roots : SUBSET Roots,
     fields : SUBSET Fields, round : 1..MaxRounds, attempt : 0..MAX_RETRIES,
     target : SUBSET Targets, start : BOOLEAN, confirm : BOOLEAN,
     ran : 0..(MAX_RETRIES + 1), lost : 0..(MAX_RETRIES + 1), told : Told]
Checks ==
    [at : {"absent", "idle", "query", "probes", "optional", "types"}, fields : SUBSET Fields,
     own : SUBSET Large, round : 1..MaxRounds, todo : SUBSET (Roots \cup Types),
     asked : SUBSET OptionalRoots, refused : SUBSET Roots, missing : BOOLEAN,
     still : BOOLEAN, heard : BOOLEAN, told : {"nothing", "ok", "degraded", "down"}]

TypeOK ==
    /\ nas \in Stations /\ dropped \subseteq Large
    /\ call \in [Calls -> CallsUnderWay] /\ check \in Checks
    /\ changes \in 0..MaxChanges /\ losses \in 0..MaxLost

Init ==
    /\ nas \in [large : SUBSET Large, closed : {{}}, off : {{}}, renamed : {{}},
                on : SUBSET Targets]
    /\ dropped = {} /\ call = [c \in Calls |-> Idle]
    /\ check \in {Unchecked, [Unchecked EXCEPT !.at = "absent"]}
    /\ changes = 0 /\ losses = 0

-----------------------------------------------------------------------------
(* Documents and what the NAS answers. *)

\* A selection set of which nothing is left does not parse.
Emptied(roots, fields) ==
    \E s \in Selections : s \subseteq FieldsOf(roots) /\ s \cap fields = {}

\* Of the errors of several roots any may come first, and the client looks at
\* the first only.
Executed(roots, fields) ==
    LET errors == (IF roots \cap nas.closed # {} THEN {"forbidden"} ELSE {})
                    \cup (IF roots \cap nas.off # {} THEN {"graphql"} ELSE {})
                    \cup (fields \cap nas.large)
    IN IF errors = {} THEN {"data"} ELSE errors

\* A document is validated before it is executed.
Answers(roots, fields) ==
    IF Emptied(roots, fields) THEN {"syntax"}
    ELSE IF roots \cap nas.renamed # {} THEN {"schema"}
    ELSE Executed(roots, fields)

\* Seeded fault: what has been dropped is forgotten with the call.
StripsNothing(fields) == fields

\* strip_fields as a call begins.
Stripped(fields) == fields \ dropped

-----------------------------------------------------------------------------
(* A tool that reads, and the look-up of a VM: query_raw. *)

Ends(c, told) ==
    call' = [call EXCEPT ![c] = [Idle EXCEPT !.told = told, !.confirm = call[c].confirm,
                                             !.ran = call[c].ran, !.lost = call[c].lost]]

Free(c) == call[c].at = "idle" /\ check.at = "absent"

BeginRead(c, tool) ==
    /\ Free(c)
    /\ call' = [call EXCEPT ![c] = [Idle EXCEPT !.at = "reading", !.roots = tool,
                                                !.fields = Stripped(FieldsOf(tool))]]
    /\ UNCHANGED <<nas, dropped, check, changes, losses>>

Asking(c) == call[c].at \in {"reading", "listing"}

\* ups_status and list_vms take a service that fails for one that is off, unless
\* the key is not allowed or the NAS cannot be reached; vm_control does not.
Reported(c, answer) ==
    IF /\ call[c].at = "reading" /\ call[c].roots \subseteq OptionalRoots
       /\ answer \notin {"data", "forbidden", "unreachable"}
    THEN "noted" ELSE answer

\* The data, or an error that is not about a field.
ReadAnswered(c) ==
    /\ Asking(c)
    /\ \E answer \in Answers(call[c].roots, call[c].fields) \ Fields :
          /\ call[c].at = "reading" \/ answer # "data"
          /\ Ends(c, Reported(c, answer))
    /\ UNCHANGED <<nas, dropped, check, changes, losses>>

\* The field is left out, for the calls to come too, and the query sent again;
\* but not if it is known already, nor after the last round.
Overflows(c) ==
    /\ Asking(c)
    /\ \E f \in Answers(call[c].roots, call[c].fields) \cap Fields :
          IF f \in dropped
          THEN Ends(c, Reported(c, "overflow")) /\ UNCHANGED dropped
          ELSE /\ dropped' = dropped \cup {f}
               /\ IF call[c].round = MaxRounds
                  THEN Ends(c, Reported(c, "overflow"))
                  ELSE call' = [call EXCEPT ![c].fields = @ \ dropped',
                                            ![c].round = @ + 1, ![c].attempt = 0]
    /\ UNCHANGED <<nas, check, changes, losses>>

-----------------------------------------------------------------------------
(* A tool that changes something. *)

\* The first request: for a VM the look-up of its id.
Requested(t, start) ==
    LET roots == IF t \in VMs THEN {VmsRoot} ELSE {} IN
    [Idle EXCEPT !.at = IF t \in VMs THEN "listing" ELSE "changing",
                 !.roots = roots, !.fields = Stripped(FieldsOf(roots)),
                 !.target = {t}, !.start = start]

\* Seeded fault: the request goes out whatever the user has said.
BeginsUnasked(c, t, start, confirm) ==
    /\ Free(c)
    /\ call' = [call EXCEPT ![c] = [Requested(t, start) EXCEPT !.confirm = confirm]]
    /\ UNCHANGED <<nas, dropped, check, changes, losses>>

\* Nothing is asked of the NAS unless confirm is true.
BeginChange(c, t, start, confirm) ==
    /\ Free(c)
    /\ call' = [call EXCEPT ![c] =
          IF confirm
          THEN [Requested(t, start) EXCEPT !.confirm = TRUE]
          ELSE [Idle EXCEPT !.told = "not done"]]
    /\ UNCHANGED <<nas, dropped, check, changes, losses>>

\* vm_control takes the id of the VM of that name, if there is one.
Listed(c) ==
    /\ call[c].at = "listing" /\ "data" \in Answers(call[c].roots, call[c].fields)
    /\ \/ call' = [call EXCEPT ![c].at = "changing", ![c].attempt = 0]
       \/ Ends(c, "refused")
    /\ UNCHANGED <<nas, dropped, check, changes, losses>>

\* A start of what runs and a stop of what does not are refused.
Possible(c) == call[c].start = (call[c].target \cap nas.on = {})
Switched(c) ==
    nas' = [nas EXCEPT !.on = IF call[c].start THEN @ \cup call[c].target
                                               ELSE @ \ call[c].target]

CarriedOut(c) ==
    /\ call[c].at = "changing" /\ Possible(c)
    /\ Switched(c)
    /\ call' = [call EXCEPT ![c] = [Idle EXCEPT !.told = "done", !.confirm = call[c].confirm,
                                                !.ran = call[c].ran + 1, !.lost = call[c].lost]]
    /\ UNCHANGED <<dropped, check, changes, losses>>

NotPossible(c) ==
    /\ call[c].at = "changing" /\ ~Possible(c)
    /\ Ends(c, "graphql")
    /\ UNCHANGED <<nas, dropped, check, changes, losses>>

-----------------------------------------------------------------------------
(* UnraidClient.query when there is no answer to speak of. *)

\* A redirect, a CSRF page, a status of 400 to 499, a certificate: not retried.
Rejected(c) ==
    /\ call[c].at # "idle"
    /\ Ends(c, Reported(c, "refused"))
    /\ UNCHANGED <<nas, dropped, check, changes, losses>>

Retries(c) == call[c].attempt < MAX_RETRIES /\ call' = [call EXCEPT ![c].attempt = @ + 1]

\* No connection, or a status of 500 and more: once more, unless that was the
\* last attempt or the time is used up.
Unreached(c) ==
    /\ call[c].at # "idle"
    /\ Retries(c) \/ \E told \in {"unreachable", "refused"} : Ends(c, Reported(c, told))
    /\ UNCHANGED <<nas, dropped, check, changes, losses>>

\* The same after the NAS has done what it was asked.
AnswerLost(c) ==
    /\ call[c].at = "changing" /\ Possible(c) /\ losses < MaxLost
    /\ Switched(c)
    /\ losses' = losses + 1
    /\ LET unheard == [call[c] EXCEPT !.ran = @ + 1, !.lost = @ + 1] IN
       \/ /\ call[c].attempt < MAX_RETRIES
          /\ call' = [call EXCEPT ![c] = [unheard EXCEPT !.attempt = @ + 1]]
       \/ call' = [call EXCEPT ![c] = [Idle EXCEPT !.told = "unreachable", !.confirm = unheard.confirm,
                                                   !.ran = unheard.ran, !.lost = unheard.lost]]
    /\ UNCHANGED <<dropped, check, changes>>

-----------------------------------------------------------------------------
(* The health check. *)

Concludes(told) ==
    check' = [check EXCEPT !.at = "idle", !.told = told, !.fields = {}, !.own = {},
                           !.round = 1, !.todo = {}, !.asked = {}]

BeginCheck ==
    /\ check.at = "idle"
    /\ check' = [Unchecked EXCEPT !.at = "query", !.fields = FieldsOf(Required)]
    /\ UNCHANGED <<nas, dropped, call, changes, losses>>

\* HEALTH_QUERY: every root but the optional ones.
HealthQuery ==
    /\ check.at = "query"
    /\ \E answer \in Answers(Required, check.fields) \cup {"unreachable"} :
          \/ /\ answer = "data"
             /\ check' = [check EXCEPT !.at = "optional", !.todo = OptionalRoots, !.round = 1]
          \/ /\ answer = "schema" /\ Concludes("degraded")
          \/ /\ answer = "forbidden"
             /\ check' = [check EXCEPT !.at = "probes", !.todo = Roots]
          \/ /\ answer \in {"syntax", "graphql", "unreachable"} /\ Concludes("down")
          \/ /\ answer \in Fields
             /\ IF check.round = MaxRounds THEN Concludes("down")
                ELSE check' = [check EXCEPT !.own = @ \cup {answer}, !.round = @ + 1,
                                            !.fields = @ \ {answer}]
    /\ UNCHANGED <<nas, dropped, call, changes, losses>>

\* _forbidden_roots: a small query for each root; a service that is off is not
\* held against the key.
Probe(r) ==
    /\ check.at = "probes" /\ r \in check.todo
    /\ \E answer \in Executed({r}, {}) \cup {"schema" : x \in {r} \cap nas.renamed}
                      \cup {"unreachable"} :
          check' = [check EXCEPT !.todo = @ \ {r},
                       !.heard = @ /\ answer # "unreachable",
                       !.refused = IF \/ answer = "forbidden"
                                      \/ answer # "data" /\ r \in Required
                                   THEN @ \cup {r} ELSE @]
    /\ UNCHANGED <<nas, dropped, call, changes, losses>>

Probed ==
    /\ check.at = "probes" /\ check.todo = {}
    /\ Concludes("degraded")
    /\ UNCHANGED <<nas, dropped, call, changes, losses>>

\* Seeded fault: that the key may not read it is taken for a service that is off.
DegradesBySchema == {"schema"}

\* What of an optional root degrades the toolset; other failures are notes.
Degrades == {"schema", "forbidden"}

\* OPTIONAL_QUERIES, one after the other, by query_raw again.
OptionalQuery(r) ==
    /\ check.at = "optional" /\ r \in check.todo /\ check.asked \subseteq {r}
    /\ \E answer \in Answers({r}, Asks[r] \ check.own) \cup {"unreachable"} :
          \/ answer \in Degrades /\ Concludes("degraded")
          \/ /\ answer \in Fields /\ check.round < MaxRounds
             /\ check' = [check EXCEPT !.own = @ \cup {answer}, !.round = @ + 1,
                                       !.asked = {r}]
          \/ /\ answer \notin Degrades
             /\ answer \in Fields => check.round = MaxRounds
             /\ check' = [check EXCEPT !.todo = @ \ {r}, !.round = 1, !.asked = {},
                                       !.own = @ \cup ({answer} \cap Fields),
                                       !.heard = @ /\ answer # "unreachable"]
    /\ UNCHANGED <<nas, dropped, call, changes, losses>>

OptionalDone ==
    /\ check.at = "optional" /\ check.todo = {}
    /\ check' = [check EXCEPT !.at = "types", !.todo = Types]
    /\ UNCHANGED <<nas, dropped, call, changes, losses>>

\* FIELDS_USED, until introspection fails.
Introspect(t) ==
    /\ check.at = "types" /\ t \in check.todo
    /\ \/ check' = [check EXCEPT !.todo = @ \ {t}, !.missing = @ \/ t \in nas.renamed]
       \/ check' = [check EXCEPT !.todo = {}, !.heard = FALSE]
    /\ UNCHANGED <<nas, dropped, call, changes, losses>>

Introspected ==
    /\ check.at = "types" /\ check.todo = {}
    /\ Concludes(IF check.missing THEN "degraded" ELSE "ok")
    /\ UNCHANGED <<nas, dropped, call, changes, losses>>

-----------------------------------------------------------------------------
(* The NAS and its other users. *)

\* Somebody starts or stops something.
Switch(t) ==
    /\ changes < MaxChanges /\ changes' = changes + 1
    /\ nas' = [nas EXCEPT !.on = IF t \in @ THEN @ \ {t} ELSE @ \cup {t}]
    /\ UNCHANGED <<dropped, call, check, losses>>

\* A larger disk, another key, a service switched on or off, an upgrade.
Alter(field, x) ==
    /\ changes < MaxChanges /\ changes' = changes + 1
    /\ nas' = [nas EXCEPT ![field] = IF x \in @ THEN @ \ {x} ELSE @ \cup {x}]
    /\ check' = [check EXCEPT !.still = FALSE]
    /\ UNCHANGED <<dropped, call, losses>>

Next ==
    \/ \E c \in Calls :
          \/ \E tool \in Tools : BeginRead(c, tool)
          \/ \E t \in Targets, start, confirm \in BOOLEAN : BeginChange(c, t, start, confirm)
          \/ ReadAnswered(c) \/ Overflows(c) \/ Listed(c) \/ CarriedOut(c) \/ NotPossible(c)
          \/ Rejected(c) \/ Unreached(c) \/ AnswerLost(c)
    \/ BeginCheck \/ HealthQuery \/ Probed \/ OptionalDone \/ Introspected
    \/ \E r \in Roots : Probe(r) \/ OptionalQuery(r)
    \/ \E t \in Types : Introspect(t)
    \/ \E t \in Targets : Switch(t)
    \/ \E f \in Large : Alter("large", f)
    \/ \E r \in Roots : Alter("closed", r)
    \/ \E r \in OptionalRoots : Alter("off", r)
    \/ \E x \in Roots \cup Types : Alter("renamed", x)

Spec == Init /\ [][Next]_vars

-----------------------------------------------------------------------------
(* Properties. *)

\* What is too large for the API stops troubling the tools: each field is found
\* out once, however many calls run into it together (toolsets/unraid/
\* __init__.py:178-180), as long as no selection set consists of such fields.
OverflowsEnd ==
    (\A s \in Selections : s \ Large # {}) =>
        <>[][\A c \in Calls : Asking(c) /\ call'[c].at = "idle"
                => call'[c].told \notin {"overflow", "syntax"}]_vars

\* A change is made once if the call says so, and not at all if it says that it
\* failed; but once more for each answer that was lost; and never unless the
\* user has confirmed it (toolsets/unraid/__init__.py:3: "Mutations do nothing
\* unless confirm is true").
ToldTheTruth ==
    \A c \in Calls :
        /\ call[c].ran = call[c].lost + (IF call[c].told = "done" THEN 1 ELSE 0)
        /\ call[c].ran > 0 => call[c].confirm

\* While the NAS answers as it did and every request gets an answer, ok means
\* that whatever a tool needs is there and may be read, and the roots a degraded
\* toolset names are those it cannot read (toolsets/unraid/__init__.py:535-537).
HealthIsTrue ==
    check.still /\ check.heard =>
        /\ check.told = "ok" =>
              /\ nas.renamed = {}
              /\ nas.closed \subseteq nas.off
        /\ check.refused \subseteq nas.closed \cup nas.renamed
=============================================================================
