----------------------------- MODULE LeaseLock ------------------------------
(***************************************************************************)
(* What lib/paygen/gslock.py promises of one lock file: it belongs to one  *)
(* client at a time; it passes to another client only when it is free or   *)
(* its time-out has run out; and until then nobody removes it under the    *)
(* client that is working inside it.                                       *)
(***************************************************************************)
CONSTANTS Clients, NoClient

VARIABLES owner,        \* who wrote the lock file, or NoClient
          expired,      \* its time-out has run out
          inside        \* clients that are in their protected code

vars == <<owner, expired, inside>>

Init == owner = NoClient /\ expired = FALSE /\ inside = {}

MayTake(c) == owner \in {NoClient, c} \/ expired

Enter(c) == /\ MayTake(c)
            /\ owner' = c /\ expired' = FALSE
            /\ inside' = inside \cup {c}

(* The client takes the lock but never hears of it. *)
Seize(c) == /\ MayTake(c)
            /\ owner' = c /\ expired' = FALSE
            /\ inside' \in {inside, inside \ {c}}

Leave(c) == /\ inside' = inside \ {c}
            /\ UNCHANGED <<owner, expired>>

Free == /\ owner \notin inside \/ expired
        /\ owner' = NoClient /\ expired' = FALSE
        /\ UNCHANGED inside

Expire == /\ owner # NoClient
          /\ expired' = TRUE
          /\ UNCHANGED <<owner, inside>>

Next == \/ Free \/ Expire
        \/ \E c \in Clients : Enter(c) \/ Seize(c) \/ Leave(c)

Spec == Init /\ [][Next]_vars
=============================================================================
