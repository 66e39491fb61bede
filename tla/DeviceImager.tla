---------------------------- MODULE DeviceImager ----------------------------
(***************************************************************************)
(* cli/device_imager.py: the partitions of the inactive slot of a device   *)
(* are written by updaters that run as parallel steps; what RunParallel-   *)
(* Steps promises is taken from StepRunner.  The steps are forked, so what *)
(* an updater assigns to its own attributes while it runs is not seen by   *)
(* the process that decides afterwards what to retry and what to revert.   *)
(*                                                                         *)
(* What is written comes from a thread of the step (a ReaderBase) through a*)
(* pipe.  When the thread raises, or a stage of its pipeline or of the     *)
(* device's fails before the last one, the last one sees the end of its    *)
(* input, and the step does not learn that the partition was cut short.    *)
(***************************************************************************)
CONSTANTS Updaters,             \* some of "rootfs", "kernel", "stateful", "minios"
          NoReboot              \* the no_reboot argument

VARIABLES
  result, installed,    \* the steps of RunParallelSteps, and how it ended
  command,              \* what the device does for an updater: "write" (dd or
                        \* tar), "switch" (give the new contents the priority),
                        \* "none"
  part,                 \* the target partitions: "old", "partial", "short" (cut
                        \* short, and taken for written), "new", "reset"
  active,               \* what the device prefers from the next boot on; the
                        \* kernel goes with the rootfs
  reverting,            \* updaters whose Revert has not ended, or has failed
  booted,               \* the slot the device runs
  phase                 \* where _Run is

vars == <<result, installed, command, part, active, reverting, booted, phase>>
device == <<command, part, active>>
parent == <<reverting, booted, phase>>

Install == INSTANCE StepRunner WITH Steps <- Updaters, outcome <- installed

Init == /\ Install!Init
        /\ command = [u \in Updaters |-> "none"]
        /\ part = [u \in Updaters |-> "old"]
        /\ active = [u \in Updaters |-> "old"]
        /\ reverting = {}
        /\ booted = "old"
        /\ phase = "install"
-----------------------------------------------------------------------------
(*                     The updaters, each in its process                   *)

Running(u) == phase = "install" /\ result[u] = "pending"

Written(u) == part[u] \in {"new", "short"}

StartWrite(u) ==
  /\ Running(u) /\ part[u] = "old" /\ command[u] = "none"
  /\ command' = [command EXCEPT ![u] = "write"]
  /\ UNCHANGED <<result, installed, part, active, parent>>

(* postinst on the new root file system gives its slot the priority,       *)
(* _FlipMiniOSPriority that of the new miniOS, and _MarkUpdateType has the *)
(* next boot take the new stateful; they do not look at what the other     *)
(* updaters have done.                                                     *)
StartSwitch(u) ==
  /\ Running(u) /\ u # "kernel"
  /\ Written(u) /\ active[u] = "old" /\ command[u] = "none"
  /\ command' = [command EXCEPT ![u] = "switch"]
  /\ UNCHANGED <<result, installed, part, active, parent>>

(* The miniOS update is left out when the image or the device has none.    *)
LeftOut(u) == u = "minios" /\ part[u] = "old"

StepEnds(u) ==
  /\ phase = "install" /\ command[u] = "none"
  /\ \/ Written(u) /\ (u = "kernel" \/ active[u] = "new")
     \/ LeftOut(u)
  /\ Install!Complete(u)
  /\ UNCHANGED <<device, parent>>

(* A step raises at any point, as when its connection breaks, or is killed *)
(* because another one did.  What the device does for it goes on.          *)
StepFails(u) ==
  /\ phase = "install" /\ Install!Fail(u)
  /\ UNCHANGED <<device, parent>>
-----------------------------------------------------------------------------
(*       The device: commands of steps, and of steps that have failed      *)

Write(u) ==
  /\ command[u] = "write"
  /\ part' = [part EXCEPT ![u] = "partial"]
  /\ UNCHANGED <<result, installed, command, active, parent>>

WriteEnds(u) ==
  /\ command[u] = "write"
  /\ \E p \in {"new", "short"} : part' = [part EXCEPT ![u] = p]
  /\ command' = [command EXCEPT ![u] = "none"]
  /\ UNCHANGED <<result, installed, active, parent>>

Switch(u) ==
  /\ command[u] = "switch"
  /\ active' = [active EXCEPT ![u] = "new"]
  /\ command' = [command EXCEPT ![u] = "none"]
  /\ UNCHANGED <<result, installed, part, parent>>

(* A command whose connection is gone may stop instead. *)
CommandStops(u) ==
  /\ command[u] # "none" /\ result[u] = "failed"
  /\ command' = [command EXCEPT ![u] = "none"]
  /\ UNCHANGED <<result, installed, part, active, parent>>
-----------------------------------------------------------------------------
(*                             The parent process                          *)

InstallReturns ==
  /\ phase = "install" /\ Install!Return
  /\ phase' = "reboot"
  /\ UNCHANGED <<device, reverting, booted>>

(* RetryException retries on Error; RunParallelSteps raises a Background-  *)
(* Failure, which is none, and so the updaters run once.                   *)
InstallRaises ==
  /\ phase = "install" /\ Install!Raise
  /\ phase' = "revert" /\ reverting' = Updaters
  /\ UNCHANGED <<device, booted>>

(* _ran_postinst, in the parent's copy of the updaters. *)
RanPostinst(u) == FALSE

(* Revert runs in a process that is forked from the parent.  Reset of the  *)
(* stateful partition ignores the error of its command.                    *)
Revert(u) ==
  /\ phase = "revert" /\ u \in reverting
  /\ reverting' = reverting \ {u}
  /\ \/ u = "stateful" /\ part' = [part EXCEPT ![u] = "reset"]
                        /\ active' = [active EXCEPT ![u] = "old"]
     \/ u = "stateful" /\ UNCHANGED <<part, active>>
     \/ u # "stateful" /\ UNCHANGED part
          /\ active' = IF RanPostinst(u) THEN [active EXCEPT ![u] = "old"] ELSE active
  /\ UNCHANGED <<result, installed, command, booted, phase>>

(* Reverts that raise do not stop the others; theirs stay in reverting.    *)
RevertEnds ==
  /\ phase = "revert"
  /\ phase' = "raised"
  /\ UNCHANGED <<result, installed, device, reverting, booted>>

(* The firmware prefers the slot with priority, and takes the other one    *)
(* when it cannot boot that.                                               *)
Reboot ==
  /\ phase = "reboot" /\ ~NoReboot
  /\ booted' \in {"old"} \cup {active[u] : u \in Updaters \cap {"rootfs"}}
  /\ phase' = "verify"
  /\ UNCHANGED <<result, installed, device, reverting>>

SkipReboot ==
  /\ phase = "reboot" /\ NoReboot
  /\ phase' = "returned"
  /\ UNCHANGED <<result, installed, device, reverting, booted>>

(* _VerifyBootExpectations compares with the slot that was inactive, also  *)
(* when no rootfs was updated.                                             *)
VerifyBoot ==
  /\ phase = "verify"
  /\ phase' = IF booted = "new" THEN "returned" ELSE "raised"
  /\ UNCHANGED <<result, installed, device, reverting, booted>>

(* ClearTpmOwner, the reboot or DisableRootfsVerification raises. *)
DeviceFails ==
  /\ phase \in {"reboot", "verify"}
  /\ phase' = "raised"
  /\ UNCHANGED <<result, installed, device, reverting, booted>>

Next == \/ \E u \in Updaters : \/ StartWrite(u) \/ StartSwitch(u) \/ StepEnds(u) \/ StepFails(u)
                               \/ Write(u) \/ WriteEnds(u) \/ Switch(u) \/ CommandStops(u)
                               \/ Revert(u)
        \/ InstallReturns \/ InstallRaises \/ RevertEnds \/ Reboot \/ SkipReboot
        \/ VerifyBoot \/ DeviceFails

Spec == Init /\ [][Next]_vars
-----------------------------------------------------------------------------
(* Types. *)
TypeOK ==
  /\ result \in [Updaters -> {"pending", "ok", "failed"}]
  /\ installed \in {"none", "returned", "raised"}
  /\ command \in [Updaters -> {"none", "write", "switch"}]
  /\ part \in [Updaters -> {"old", "partial", "short", "new", "reset"}]
  /\ active \in [Updaters -> {"old", "new"}]
  /\ reverting \subseteq Updaters
  /\ booted \in {"old", "new"}
  /\ phase \in {"install", "revert", "reboot", "verify", "returned", "raised"}

(* "If one of the partitions failed to be installed, revert all            *)
(* partitions": when every Revert has been carried out, the device is to   *)
(* boot what it booted before, at least where the updater's own step had   *)
(* ended well, so that no command of its can still be running.             *)
FailedInstallReverted ==
  phase = "raised" /\ installed = "raised" /\ reverting = {} =>
    \A u \in Updaters \cap {"rootfs", "minios"} : result[u] = "ok" => active[u] = "old"

(* Once RunParallelSteps has returned the device does nothing for an       *)
(* updater any more, though commands outlive their steps: it is not        *)
(* rebooted, and Run does not return, while a partition is being written.  *)
QuietWhenInstalled == installed = "returned" => \A u \in Updaters : command[u] = "none"
=============================================================================
