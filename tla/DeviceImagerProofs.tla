------------------------- MODULE DeviceImagerProofs -------------------------
(***************************************************************************)
(* Proofs about DeviceImager, for any of the updaters: a step ends well    *)
(* only after its commands, and RunParallelSteps returns only after all    *)
(* steps ended well (StepRunner), so that the commands which outlive their *)
(* steps are there only after it has raised.                               *)
(***************************************************************************)
EXTENDS DeviceImager, TLAPS

(* A step is judged to have ended well only when its commands are over.    *)
EndedQuiet == \A u \in Updaters : result[u] = "ok" => command[u] = "none"

ReturnedOk == installed = "returned" => \A u \in Updaters : result[u] = "ok"

IInv == TypeOK /\ EndedQuiet /\ ReturnedOk
-----------------------------------------------------------------------------
LEMMA InitInv == Init => IInv
BY DEF Init, Install!Init, IInv, TypeOK, EndedQuiet, ReturnedOk

(* The updaters, one at a time. *)
LEMMA StepInv ==
  ASSUME IInv, NEW u \in Updaters,
         StartWrite(u) \/ StartSwitch(u) \/ StepEnds(u) \/ StepFails(u)
  PROVE  IInv'
<1> USE DEF IInv, TypeOK, EndedQuiet, ReturnedOk, device, parent
<1>1. CASE StartWrite(u)
  BY <1>1 DEF StartWrite, Running
<1>2. CASE StartSwitch(u)
  BY <1>2 DEF StartSwitch, Running
<1>3. CASE StepEnds(u)
  BY <1>3 DEF StepEnds, Install!Complete
<1>4. CASE StepFails(u)
  BY <1>4 DEF StepFails, Install!Fail
<1> QED BY <1>1, <1>2, <1>3, <1>4

(* The device, for a step that is running or has failed. *)
LEMMA DeviceInv ==
  ASSUME IInv, NEW u \in Updaters,
         Write(u) \/ WriteEnds(u) \/ Switch(u) \/ CommandStops(u)
  PROVE  IInv'
<1> USE DEF IInv, TypeOK, EndedQuiet, ReturnedOk, parent
<1>1. CASE Write(u)
  BY <1>1 DEF Write
<1>2. CASE WriteEnds(u)
  BY <1>2 DEF WriteEnds
<1>3. CASE Switch(u)
  BY <1>3 DEF Switch
<1>4. CASE CommandStops(u)
  BY <1>4 DEF CommandStops
<1> QED BY <1>1, <1>2, <1>3, <1>4

LEMMA ParentInv ==
  ASSUME IInv, \/ InstallReturns \/ InstallRaises \/ RevertEnds \/ Reboot
               \/ SkipReboot \/ VerifyBoot \/ DeviceFails
               \/ \E u \in Updaters : Revert(u)
  PROVE  IInv'
<1> USE DEF IInv, TypeOK, EndedQuiet, ReturnedOk, device
<1>1. CASE InstallReturns
  BY <1>1 DEF InstallReturns, Install!Return
<1>2. CASE InstallRaises
  BY <1>2 DEF InstallRaises, Install!Raise
<1>3. CASE \E u \in Updaters : Revert(u)
  BY <1>3 DEF Revert, RanPostinst
<1>4. CASE Reboot
  BY <1>4 DEF Reboot
<1>5. CASE SkipReboot \/ VerifyBoot
  BY <1>5 DEF SkipReboot, VerifyBoot
<1>6. CASE RevertEnds \/ DeviceFails
  BY <1>6 DEF RevertEnds, DeviceFails
<1> QED BY <1>1, <1>2, <1>3, <1>4, <1>5, <1>6

LEMMA NextInv == IInv /\ [Next]_vars => IInv'
<1>1. ASSUME IInv, UNCHANGED vars PROVE IInv'
  BY <1>1 DEF vars, IInv, TypeOK, EndedQuiet, ReturnedOk
<1> QED BY <1>1, StepInv, DeviceInv, ParentInv DEF Next

LEMMA Invariant == Spec => []IInv
BY InitInv, NextInv, PTL DEF Spec
-----------------------------------------------------------------------------
(* Types, whatever is updated. *)
THEOREM TypeCorrect == Spec => []TypeOK
BY Invariant, PTL DEF IInv

(* DeviceImager neither reboots the device nor returns while the device    *)
(* still writes a partition or switches a slot.                            *)
THEOREM Quiet == Spec => []QuietWhenInstalled
<1>1. IInv => QuietWhenInstalled
  BY DEF IInv, QuietWhenInstalled, EndedQuiet, ReturnedOk
<1> QED BY <1>1, Invariant, PTL
=============================================================================
