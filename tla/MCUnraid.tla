------------------------------ MODULE MCUnraid ------------------------------
(* Unraid on a small instance: a root with two fields that may overflow and   *)
(* one that does not, and two services that may be off: the VMs, and a UPS    *)
(* with one field that may overflow.                                          *)
EXTENDS Unraid, TLC

CONSTANTS array, vms, ups, free, used, state, runtime

MCAsks == array :> {free, used, state} @@ vms :> {} @@ ups :> {runtime, state}
MCSelections == {{free, used, state}, {runtime, state}}
MCTools == {{array}, {vms}}
=============================================================================
