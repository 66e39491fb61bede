---------------------------- MODULE DiskCacheMC -----------------------------
(* Instances of DiskCache. *)
EXTENDS DiskCache

CONSTANTS p1, p2, p3            \* processes

(* Enough inodes: one that each process has open, and one to open. *)
MCInodes == 1..Cardinality(Procs) + 1

=============================================================================
