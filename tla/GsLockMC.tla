------------------------------ MODULE GsLockMC ------------------------------
(* Instances of GsLock. *)
EXTENDS GsLock

CONSTANTS c1, c2, c3            \* clients

(* Enough generations: one for the file, one per client, one to write. *)
MCGenerations == 1..Cardinality(Clients) + 2

=============================================================================
