--------------------------- MODULE SlaveStatusMC ----------------------------
(* SlaveStatus for TLC: a few important builds and an experimental one. *)
EXTENDS SlaveStatus

CONSTANTS i1, i2, i3, e1        \* builds
=============================================================================
