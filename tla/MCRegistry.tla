----------------------------- MODULE MCRegistry -----------------------------
(* Registry on small instances.                                             *)
EXTENDS Registry, TLC

\* No action reads the history variables, so two states that differ in them
\* alone have the same future.  A run whose properties do not speak of them
\* takes this as its VIEW.
WithoutHistory ==
    <<row, cred, server, watcher, changed, editing, holder, pending, mounted,
      runtime, phase, usable, desired, todo, new_mounted, to_stop>>
=============================================================================
