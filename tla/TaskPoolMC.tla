----------------------------- MODULE TaskPoolMC -----------------------------
(* Instances of TaskPool with three workers. *)
EXTENDS TaskPool

CONSTANTS k1, k2, k3            \* workers

=============================================================================
