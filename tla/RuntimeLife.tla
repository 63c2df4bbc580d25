----------------------------- MODULE RuntimeLife -----------------------------
(***************************************************************************)
(* What gateway/registry.py promises about the runtimes of toolsets,       *)
(* without rows, hashes, locks or failures: whatever has served is drained *)
(* before it goes, only a reload changes what the registry holds, and once *)
(* it is over the registry holds nothing but what serves.  A runtime that  *)
(* never served may be given up in a reload, stopped or not.               *)
(***************************************************************************)
CONSTANTS Keys,   \* toolsets
          Slots   \* places for a runtime of a toolset

VARIABLES life,       \* how far the runtime in each slot has come
          reloading   \* a reload is in progress

Stages == {"none",      \* there is no runtime
           "built",     \* one is being built, or waits for the swap
           "serving",   \* the routing table leads to it
           "draining"}  \* it was taken out of the table and is being stopped

Steps == {<<"none", "built">>, <<"built", "none">>, <<"built", "serving">>,
          <<"serving", "draining">>, <<"draining", "none">>}

Settled == \A k \in Keys, s \in Slots : life[k][s] \in {"none", "serving"}

Init == /\ life = [k \in Keys |-> [s \in Slots |-> "none"]]
        /\ reloading = FALSE

\* A swap or a failure moves several at once.
Next ==
    /\ life' \in [Keys -> [Slots -> Stages]] /\ reloading' \in BOOLEAN
    /\ \A k \in Keys, s \in Slots :
          life'[k][s] = life[k][s] \/ <<life[k][s], life'[k][s]>> \in Steps
    /\ ~reloading => life' = life
    /\ ~reloading' => Settled'

Spec == Init /\ [][Next]_<<life, reloading>>
=============================================================================
