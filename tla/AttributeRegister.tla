------------------------- MODULE AttributeRegister -------------------------
(***************************************************************************)
(* What one parallel run attribute promises to the stages that use it: a   *)
(* register shared by all processes.  SetParallel replaces the value,      *)
(* GetParallel returns the newest one or fails while there is none, and    *)
(* HasParallel tells whether there is one.  Values are numbered in the     *)
(* order in which they are set; 0 stands for "not set".                    *)
(***************************************************************************)
EXTENDS Naturals

CONSTANT Procs          \* the processes (stages) of one builder run

VARIABLES reg,          \* the number of the newest value, 0 while unset
          ret           \* what the last query of each process returned

Init == reg = 0 /\ ret = [p \in Procs |-> <<"none", 0>>]

Set == reg' = reg + 1 /\ UNCHANGED ret

Get(p) == ret' = [ret EXCEPT ![p] = <<"get", reg>>] /\ UNCHANGED reg

Has(p) == /\ ret' = [ret EXCEPT ![p] = <<"has", IF reg = 0 THEN 0 ELSE 1>>]
          /\ UNCHANGED reg

Next == Set \/ \E p \in Procs : Get(p) \/ Has(p)

Spec == Init /\ [][Next]_<<reg, ret>>
=============================================================================
