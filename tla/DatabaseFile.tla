----------------------------- MODULE DatabaseFile -----------------------------
(***************************************************************************)
(* What a restore promises about the database, without uploads, tokens,    *)
(* snapshots, keys or kills: there is always one, which loses nothing that *)
(* was committed until a staged one replaces it, and that is a single step *)
(* taken while no process has it open, which uses up the staged one.       *)
(***************************************************************************)
CONSTANTS Contents,       \* what a database may hold
          Evolves(_, _),  \* it may turn from the one to the other without a loss
          None

VARIABLES db,      \* the database
          staged,  \* the one that is to replace it, or None
          open     \* a process works on the database

Init == db \in Contents /\ staged = None /\ open = FALSE

\* The gateway migrates it, writes to it, rotates its key.
Write == /\ open
         /\ db' \in Contents /\ Evolves(db, db')
         /\ UNCHANGED <<staged, open>>

\* A later restore may take the place of one that is staged.
Stage == /\ open
         /\ staged' \in Contents
         /\ UNCHANGED <<db, open>>

Replace == /\ ~open /\ staged # None
           /\ db' = staged /\ staged' = None
           /\ UNCHANGED open

\* A boot opens it only after what is staged was put in place.
Open == /\ ~open /\ staged = None
        /\ open' = TRUE
        /\ UNCHANGED <<db, staged>>

\* An exit, or a kill.
Close == /\ open
         /\ open' = FALSE
         /\ UNCHANGED <<db, staged>>

Next == Write \/ Stage \/ Replace \/ Open \/ Close

Spec == Init /\ [][Next]_<<db, staged, open>>
=============================================================================
