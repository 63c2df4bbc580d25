------------------------------- MODULE Grants -------------------------------
(***************************************************************************)
(* What the OAuth server of auth/provider.py promises about authorization  *)
(* codes, without clients, requests or a database: a code can be taken     *)
(* once, and at most one answer with tokens follows from it.               *)
(***************************************************************************)
CONSTANT Codes

VARIABLE grant   \* how far each code has come

Stages == {"unused",   \* not issued yet
           "live",     \* can be exchanged
           "gone",     \* taken by an exchange, or expired, or removed
           "done",     \* the exchange that took it has answered with tokens
           "void"}     \* its end was undone in the database: all bets are off

Steps == {<<"unused", "live">>, <<"live", "gone">>, <<"gone", "done">>,
          <<"gone", "void">>, <<"done", "void">>}

Init == grant = [c \in Codes |-> "unused"]

\* A sweep or a rollback moves several at once.
Next ==
    /\ grant' \in [Codes -> Stages]
    /\ \A c \in Codes : grant'[c] = grant[c] \/ <<grant[c], grant'[c]>> \in Steps

Spec == Init /\ [][Next]_grant
=============================================================================
