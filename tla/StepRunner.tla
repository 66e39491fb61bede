----------------------------- MODULE StepRunner -----------------------------
(***************************************************************************)
(* What RunParallelSteps promises its caller: it ends only when no step is *)
(* running any more; it returns only if every step succeeded, and raises a *)
(* BackgroundFailure only if some step did not.  An exception of the       *)
(* caller's own block is passed on once no step is running.                *)
(***************************************************************************)
CONSTANT Steps

VARIABLES result,       \* "pending", "ok" or "failed", per step
          outcome       \* "none" until the call ends

Init == result = [t \in Steps |-> "pending"] /\ outcome = "none"

Complete(t) == /\ result[t] = "pending"
               /\ result' = [result EXCEPT ![t] = "ok"]
               /\ UNCHANGED outcome

(* A step that ended well may still be judged to have failed, when its     *)
(* process was silent or slow to exit.                                     *)
Fail(t) == /\ outcome = "none" /\ result[t] # "failed"
           /\ result' = [result EXCEPT ![t] = "failed"]
           /\ UNCHANGED outcome

AllEnded == \A t \in Steps : result[t] # "pending"

Return == /\ outcome = "none" /\ \A t \in Steps : result[t] = "ok"
          /\ outcome' = "returned" /\ UNCHANGED result

Raise == /\ outcome = "none" /\ AllEnded /\ \E t \in Steps : result[t] = "failed"
         /\ outcome' = "raised" /\ UNCHANGED result

PassOn == /\ outcome = "none" /\ AllEnded
          /\ outcome' = "foreground" /\ UNCHANGED result

Next == Return \/ Raise \/ PassOn \/ \E t \in Steps : Complete(t) \/ Fail(t)

Spec == Init /\ [][Next]_<<result, outcome>>
=============================================================================
