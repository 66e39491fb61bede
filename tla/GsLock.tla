------------------------------- MODULE GsLock -------------------------------
(***************************************************************************)
(* lib/paygen/gslock.py: Lock, a lock kept as one Google Storage object.   *)
(* Each client has a Lock object that it uses again and again (Method 2 of *)
(* the class comment).  Google Storage executes a gsutil command           *)
(* atomically, but its answer may be lost: gsutil then reports a transient *)
(* error, and DoCommand runs the command again or gives up.                *)
(*                                                                         *)
(* Generations are only compared for equality, so one that no variable     *)
(* holds any more may be used again; this keeps the state finite without a *)
(* bound on the number of calls.  Time is the age of what each client      *)
(* wrote last, up to the point where it has expired; clients and servers   *)
(* share one clock, as the class comment assumes.                          *)
(***************************************************************************)
EXTENDS Naturals, FiniteSets

CONSTANTS Clients,              \* Lock objects, each in a process of its own
          NoClient,             \* the owner of no file
          Generations,          \* generation numbers; 0 means "no object"
          Timeout,              \* lock_timeout_mins, in ticks
          MaxErrors,            \* bound: commands that fail for the network
          MaxCrashes            \* bound: processes that die

ASSUME GsLockAssumption ==
  /\ IsFiniteSet(Clients) /\ NoClient \notin Clients
  /\ Generations \subseteq Nat \ {0}
  /\ Timeout \in Nat /\ MaxErrors \in Nat /\ MaxCrashes \in Nat

VARIABLES
  file,         \* the object: its generation, who wrote it, and whether
                \*   the writer was told
  age,          \* ticks since each client's last write, up to Timeout + 1
  generation,   \* Lock._generation
  pc,           \* where each client is
  inside,       \* clients that are in their protected code
  errors,       \* network failures so far
  crashes       \* crashes so far

vars == <<file, age, generation, pc, inside, errors, crashes>>

NoFile == [gen |-> 0, owner |-> NoClient, heard |-> TRUE]
Places == {"idle", "copy", "cat", "expire", "steal", "held", "release", "dead"}

Init == /\ file = NoFile
        /\ age = [c \in Clients |-> Timeout + 1]
        /\ generation = [c \in Clients |-> 0]
        /\ pc = [c \in Clients |-> "idle"]
        /\ inside = {}
        /\ errors = 0 /\ crashes = 0

InUse == {file.gen} \cup {generation[c] : c \in Clients}

(* The generation of the next object written: one that nobody remembers. *)
Fresh == {g \in Generations \ InUse : \A h \in Generations \ InUse : g <= h}

(* x-goog-if-generation-match: 0 asks that there is no object. *)
Matches(c) == generation[c] = file.gen

Expired(c) == age[c] > Timeout
TimedOut == file # NoFile /\ Expired(file.owner)

(* What the object says, as Cat returns it, and what Lock compares it with: *)
(* Cat is called without an encoding and gives bytes, MachineDetails a str. *)
CatReturns == [type |-> "bytes", text |-> file.owner]
Contents(c) == [type |-> "str", text |-> c]
-----------------------------------------------------------------------------
(*                               The server                                *)

Write(c, heard) ==
  /\ Matches(c)
  /\ \E g \in Fresh : file' = [gen |-> g, owner |-> c, heard |-> heard]
  /\ age' = [age EXCEPT ![c] = 0]

(* Mutant: rm without the generation. *)
DeleteAny(c) == file' = NoFile

Delete(c) == file' = IF Matches(c) THEN NoFile ELSE file

Tick == /\ \E c \in Clients : ~Expired(c)
        /\ age' = [c \in Clients |-> IF Expired(c) THEN age[c] ELSE age[c] + 1]
        /\ UNCHANGED <<file, generation, pc, inside, errors, crashes>>
-----------------------------------------------------------------------------
(*                               The client                                *)

Goto(c, place) == pc' = [pc EXCEPT ![c] = place]

(* Mutant: a Renew that fails does not end the protected code. *)
RaiseInside(c) == Goto(c, "release") /\ UNCHANGED inside

(* An exception leaves Acquire: __enter__ passes it on, and a Renew in the *)
(* protected code ends that code, so that __exit__ calls Release.          *)
Raise(c) == /\ Goto(c, IF c \in inside THEN "release" ELSE "idle")
            /\ inside' = inside \ {c}

StartAcquire(c) ==
  /\ pc[c] = "idle"
  /\ Goto(c, "copy")
  /\ UNCHANGED <<file, age, generation, inside, errors, crashes>>

Renew(c) ==
  /\ pc[c] = "held" /\ generation[c] # 0
  /\ Goto(c, "copy")
  /\ UNCHANGED <<file, age, generation, inside, errors, crashes>>

(* Mutant: the expired lock is overwritten whatever its generation. *)
CopyOverwrites(c) ==
  /\ \/ pc[c] = "copy" /\ Matches(c)
     \/ pc[c] = "steal"
  /\ \E g \in Fresh : file' = [gen |-> g, owner |-> c, heard |-> TRUE]
  /\ age' = [age EXCEPT ![c] = 0]
  /\ generation' = [generation EXCEPT ![c] = file'.gen]
  /\ Goto(c, "held")
  /\ inside' = inside \cup {c}
  /\ UNCHANGED <<errors, crashes>>

CopyWrites(c) ==
  /\ pc[c] \in {"copy", "steal"}
  /\ Write(c, TRUE)
  /\ generation' = [generation EXCEPT ![c] = file'.gen]
  /\ Goto(c, "held")
  /\ inside' = inside \cup {c}
  /\ UNCHANGED <<errors, crashes>>

(* The object is written, but the answer is lost, and the command is run   *)
(* again; or given up; or it succeeds without telling the generation       *)
(* (LockProbeError).                                                       *)
CopyUnheard(c) ==
  /\ pc[c] \in {"copy", "steal"} /\ errors < MaxErrors
  /\ Write(c, FALSE)
  /\ errors' = errors + 1
  /\ \/ UNCHANGED <<generation, pc, inside>>
     \/ Raise(c) /\ UNCHANGED generation
     \/ Raise(c) /\ generation' = [generation EXCEPT ![c] = 0]
  /\ UNCHANGED crashes

(* The precondition failed.  The contents are only looked at when the lock *)
(* was to be created; otherwise they are for the message.                  *)
CopyRefused(c) ==
  /\ pc[c] = "copy" /\ ~Matches(c)
  /\ Goto(c, IF generation[c] = 0 THEN "cat" ELSE "expire")
  /\ generation' = [generation EXCEPT ![c] = 0]
  /\ UNCHANGED <<file, age, inside, errors, crashes>>

StealRefused(c) ==
  /\ pc[c] = "steal" /\ ~Matches(c)
  /\ generation' = [generation EXCEPT ![c] = 0]
  /\ Raise(c)
  /\ UNCHANGED <<file, age, errors, crashes>>

(* Mutant: a lock found to be held is not looked at for its age. *)
CatGivesUp(c) ==
  /\ pc[c] = "cat"
  /\ Raise(c)
  /\ UNCHANGED <<file, age, generation, errors, crashes>>

(* "find out if we already own it" *)
Cat(c) ==
  /\ pc[c] = "cat"
  /\ IF CatReturns = Contents(c)
     THEN /\ generation' = [generation EXCEPT ![c] = file.gen]
          /\ Goto(c, "held") /\ inside' = inside \cup {c}
     ELSE Goto(c, "expire") /\ UNCHANGED <<generation, inside>>
  /\ UNCHANGED <<file, age, errors, crashes>>

CatFails(c) ==
  /\ pc[c] = "cat" /\ errors < MaxErrors
  /\ errors' = errors + 1
  /\ Goto(c, "expire")
  /\ UNCHANGED <<file, age, generation, inside, crashes>>

(* Acquire's _LockExpired: the lock has timed out, and is to be replaced   *)
(* if its generation is still the one seen here.                           *)
FindExpired(c) ==
  /\ pc[c] = "expire"
  /\ TimedOut
  /\ generation' = [generation EXCEPT ![c] = file.gen]
  /\ Goto(c, "steal")
  /\ UNCHANGED <<file, age, inside, errors, crashes>>

FindValid(c) ==
  /\ pc[c] = "expire"
  /\ ~TimedOut
  /\ Raise(c)
  /\ UNCHANGED <<file, age, generation, errors, crashes>>

(* The protected code ends. *)
StartRelease(c) ==
  /\ pc[c] = "held"
  /\ Goto(c, "release")
  /\ inside' = inside \ {c}
  /\ UNCHANGED <<file, age, generation, errors, crashes>>

(* A missing object is ignored, and so is one of another generation:       *)
(* "not self._LockExpired()" negates a pair, so the error is never raised. *)
Remove(c) ==
  /\ pc[c] = "release"
  /\ Delete(c)
  /\ generation' = [generation EXCEPT ![c] = 0]
  /\ Goto(c, "idle")
  /\ UNCHANGED <<age, inside, errors, crashes>>

RemoveUnheard(c) ==
  /\ pc[c] = "release" /\ errors < MaxErrors
  /\ Delete(c)
  /\ errors' = errors + 1
  /\ \E place \in {"release", "idle"} : Goto(c, place)
  /\ UNCHANGED <<age, generation, inside, crashes>>

(* Mutant: Release forgets the generation before it is sure. *)
CommandFailsForgetting(c) ==
  /\ errors < MaxErrors /\ errors' = errors + 1
  /\ \/ pc[c] \in {"copy", "steal", "expire"} /\ Raise(c) /\ UNCHANGED generation
     \/ /\ pc[c] = "release" /\ Goto(c, "idle") /\ UNCHANGED inside
        /\ generation' = [generation EXCEPT ![c] = 0]
  /\ UNCHANGED <<file, age, crashes>>

(* A command fails without effect, too often to be run again. *)
CommandFails(c) ==
  /\ errors < MaxErrors /\ errors' = errors + 1
  /\ \/ pc[c] \in {"copy", "steal", "expire"} /\ Raise(c)
     \/ pc[c] = "release" /\ Goto(c, "idle") /\ UNCHANGED inside
  /\ UNCHANGED <<file, age, generation, crashes>>

Crash(c) ==
  /\ pc[c] # "dead" /\ crashes < MaxCrashes
  /\ crashes' = crashes + 1
  /\ Goto(c, "dead")
  /\ inside' = inside \ {c}
  /\ generation' = [generation EXCEPT ![c] = 0]
  /\ UNCHANGED <<file, age, errors>>
-----------------------------------------------------------------------------
Step(c) == \/ StartAcquire(c) \/ CopyWrites(c) \/ CopyRefused(c)
           \/ StealRefused(c) \/ Cat(c) \/ FindExpired(c) \/ FindValid(c)
           \/ StartRelease(c) \/ Remove(c)

Trouble(c) == \/ CopyUnheard(c) \/ CatFails(c) \/ RemoveUnheard(c)
              \/ CommandFails(c) \/ Crash(c)

Next == Tick \/ \E c \in Clients : Step(c) \/ Renew(c) \/ Trouble(c)

(* Time passes; the processes run, their callers leave the protected code  *)
(* and, in the loop of Method 2, ask again.                                *)
Spec == /\ Init /\ [][Next]_vars
        /\ WF_vars(Tick)
        /\ \A c \in Clients : WF_vars(Step(c))
-----------------------------------------------------------------------------
(* Types; in particular only a client that holds the lock or renews it is  *)
(* in the protected code.                                                  *)
TypeOK ==
  /\ file \in {NoFile} \cup
        [gen : Generations, owner : Clients, heard : BOOLEAN]
  /\ age \in [Clients -> 0..Timeout + 1]
  /\ generation \in [Clients -> {0} \cup Generations]
  /\ pc \in [Clients -> Places]
  /\ inside \subseteq {c \in Clients : pc[c] \notin {"idle", "release", "dead"}}
  /\ errors \in 0..MaxErrors /\ crashes \in 0..MaxCrashes

(* Of two clients in their protected code one has overstayed: what it      *)
(* wrote last is older than the time-out ("Locking is strictly atomic,     *)
(* except when timeouts are involved").                                    *)
HoldersExclusive ==
  \A c, d \in inside : c # d => Expired(c) \/ Expired(d)

(* A lock file of a living client that the client no longer knows the      *)
(* generation of, and so cannot release, is one whose writing it was never *)
(* told of: no path through Acquire, Renew and Release forgets a lock.     *)
NoLockForgotten ==
  file # NoFile /\ file.heard /\ pc[file.owner] # "dead" =>
    generation[file.owner] = file.gen

(* A lock file that its writer will not release, because it died or does   *)
(* not know of it, is taken over as long as one client keeps asking.       *)
Orphaned == /\ file # NoFile
            /\ pc[file.owner] = "dead" \/ generation[file.owner] # file.gen
OrphanReclaimed == Orphaned ~> ~Orphaned

(* The object implements the lease: it changes hands only when it is free  *)
(* or expired, and is not removed under a client whose time is not up.     *)
Lease == INSTANCE LeaseLock WITH
           owner <- file.owner,
           expired <- TimedOut
ImplementsLease == Lease!Spec

(* The comment on the retried Copy: when the lock was to be created and is *)
(* found to hold our contents, we own it.                                  *)
OwnLockRecognised ==
  [][\A c \in Clients :
       pc[c] = "cat" /\ pc'[c] = "expire" /\ errors' = errors
         => file.owner # c]_vars
=============================================================================
