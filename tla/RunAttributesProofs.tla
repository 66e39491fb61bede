------------------------ MODULE RunAttributesProofs ------------------------
(***************************************************************************)
(* The safety of one parallel attribute, for any number of processes in    *)
(* any roles, any number of calls and any number of kills.                 *)
(***************************************************************************)
EXTENDS RunAttributes, FiniteSetTheorems, TLAPS

(* A process inside "with queue.rlock" is its owner, so two of them are    *)
(* never between a drain and the put that follows it.                      *)
LockedRegion == \A p \in Procs : pc[p] \in Locked <=> rlock = p

(* What a process's position says about its call and its value.            *)
CallInv ==
  \A p \in Procs :
    /\ pc[p] \notin {"idle", "reset"} => op[p] # "none"
    /\ pc[p] \in {"drain", "put"} => op[p] \in GetOps \cup SetOps
    /\ pc[p] = "put" /\ op[p] \in GetOps => hand[p] # 0

(* Nothing happens before the attribute has a queue.                       *)
UnregisteredInv ==
  ~registered => /\ latest = 0
                 /\ \A p \in Procs : pc[p] = "idle"

IInv == /\ TypeOK
        /\ LockedRegion
        /\ OneValueAtMost
        /\ CallInv
        /\ UnregisteredInv
        /\ NeverLost

LEMMA InitIInv == Init => IInv
<1> SUFFICES ASSUME Init PROVE IInv
  OBVIOUS
<1> USE DEF Init
<1>1. TypeOK
  <2>1. \A p \in Procs : ret[p] \in {"none", "get", "has"} \X Nat
    OBVIOUS
  <2>2. ret \in [Procs -> {"none", "get", "has"} \X Nat]
    BY <2>1
  <2>3. calls \in [Procs -> 0..MaxCalls]
    BY BoundsAssumption
  <2>4. queue \in Seq(Nat \ {0})
    OBVIOUS
  <2>7. registered \in BOOLEAN
    OBVIOUS
  <2>5. pc \in [Procs -> PCs] /\ op \in [Procs -> Ops]
    BY DEF PCs, Ops
  <2>6. rlock \in Procs \cup {NoProc} /\ hand \in [Procs -> Nat] /\ killed \subseteq Procs /\ latest \in Nat
    OBVIOUS
  <2> QED
    BY <2>2, <2>3, <2>4, <2>5, <2>6, <2>7 DEF TypeOK
<1>2. LockedRegion
  BY ProcsAssumption DEF LockedRegion, Locked
<1>3. OneValueAtMost
  BY DEF OneValueAtMost
<1>4. CallInv /\ UnregisteredInv /\ NeverLost
  BY DEF CallInv, UnregisteredInv, NeverLost
<1> QED
  BY <1>1, <1>2, <1>3, <1>4 DEF IInv

(* Taking from a queue of at most one value leaves it empty. *)
LEMMA TailOfOne ==
  ASSUME NEW S, NEW q \in Seq(S), q # <<>>, Len(q) <= 1
  PROVE  Tail(q) = <<>> /\ Head(q) \in S
  OBVIOUS

(* Appending to an empty queue. *)
LEMMA AppendToEmpty ==
  ASSUME NEW S, NEW x \in S
  PROVE  /\ Append(<<>>, x) \in Seq(S)
         /\ Len(Append(<<>>, x)) = 1
         /\ Append(<<>>, x) # <<>>
  OBVIOUS
LEMMA NextIInv == IInv /\ [Next]_vars => IInv'
<1> SUFFICES ASSUME IInv, [Next]_vars PROVE IInv'
  OBVIOUS
<1> USE ProcsAssumption, BoundsAssumption DEF IInv
<1>1. CASE UNCHANGED vars
  BY <1>1 DEF vars, TypeOK, LockedRegion, OneValueAtMost, CallInv, UnregisteredInv, NeverLost, InFlight
<1>2. CASE RegisterBoardAttrs
  <2>1. TypeOK'
    <3>1. registered' \in BOOLEAN
      <4>1. registered' = TRUE
        BY <1>2 DEF RegisterBoardAttrs
      <4> HIDE DEF IInv
      <4> QED
        BY <4>1, Zenon
    <3>2. /\ queue' = queue \/ queue' = <<>>
          /\ rlock' = rlock \/ rlock' = NoProc
      BY <1>2, Zenon DEF RegisterBoardAttrs
    <3>3. UNCHANGED <<pc, op, hand, killed, calls, latest, ret>>
      BY <1>2 DEF RegisterBoardAttrs
    <3>4. queue' \in Seq(Nat \ {0}) /\ rlock' \in Procs \cup {NoProc}
      <4>1. queue \in Seq(Nat \ {0}) /\ rlock \in Procs \cup {NoProc}
        BY DEF TypeOK
      <4>2. <<>> \in Seq(Nat \ {0})
        OBVIOUS
      <4> HIDE DEF IInv
      <4> QED
        BY <3>2, <4>1, <4>2, Zenon
    <3> QED
      BY <3>1, <3>3, <3>4 DEF TypeOK
  <2>2. LockedRegion' /\ OneValueAtMost'
    BY <1>2 DEF RegisterBoardAttrs, LockedRegion, OneValueAtMost, UnregisteredInv, Locked, TypeOK
  <2>3. CallInv' /\ UnregisteredInv' /\ NeverLost'
    BY <1>2 DEF RegisterBoardAttrs, CallInv, UnregisteredInv, NeverLost, InFlight, TypeOK
  <2> QED
    BY <2>1, <2>2, <2>3
<1>3. ASSUME NEW p \in Procs, NEW o \in Ops, Call(p, o) PROVE IInv'
  <2> USE <1>3 DEF Call
  <2>1. TypeOK'
    BY DEF TypeOK, OneValueAtMost, PCs, Ops, GetOps, SetOps
  <2>2. LockedRegion'
    BY DEF TypeOK, LockedRegion, Locked
  <2>3. OneValueAtMost'
    BY DEF TypeOK, OneValueAtMost, LockedRegion, Locked
  <2>4. CallInv' /\ UnregisteredInv'
    BY DEF TypeOK, CallInv, UnregisteredInv, OneValueAtMost, GetOps, SetOps, Allowed, Ops, NoWait, Waits, Forever
  <2>5. NeverLost'
    BY DEF TypeOK, OneValueAtMost, NeverLost, InFlight, CallInv, GetOps, SetOps, NoWait, Waits, Forever
  <2> QED
    BY <2>1, <2>2, <2>3, <2>4, <2>5
<1>4. ASSUME NEW p \in Procs, Take(p) PROVE IInv'
  <2> USE <1>4 DEF Take
  <2>1. TypeOK'
    BY TailOfOne DEF TypeOK, OneValueAtMost, PCs, Ops, GetOps, SetOps
  <2>2. LockedRegion'
    BY DEF TypeOK, LockedRegion, Locked
  <2>3. OneValueAtMost'
    BY TailOfOne DEF TypeOK, OneValueAtMost, LockedRegion, Locked
  <2>4. CallInv' /\ UnregisteredInv'
    BY TailOfOne DEF TypeOK, CallInv, UnregisteredInv, OneValueAtMost, GetOps, SetOps, Allowed, Ops, NoWait, Waits, Forever
  <2>5. NeverLost'
    BY TailOfOne DEF TypeOK, OneValueAtMost, NeverLost, InFlight, CallInv, GetOps, SetOps, NoWait, Waits, Forever
  <2> QED
    BY <2>1, <2>2, <2>3, <2>4, <2>5
<1>5. ASSUME NEW p \in Procs, TakeEmpty(p) PROVE IInv'
  <2> USE <1>5 DEF TakeEmpty
  <2>1. TypeOK'
    BY DEF TypeOK, OneValueAtMost, PCs, Ops, GetOps, SetOps
  <2>2. LockedRegion'
    BY DEF TypeOK, LockedRegion, Locked
  <2>3. OneValueAtMost'
    BY DEF TypeOK, OneValueAtMost, LockedRegion, Locked
  <2>4. CallInv' /\ UnregisteredInv'
    BY DEF TypeOK, CallInv, UnregisteredInv, OneValueAtMost, GetOps, SetOps, Allowed, Ops, NoWait, Waits, Forever
  <2>5. NeverLost'
    BY DEF TypeOK, OneValueAtMost, NeverLost, InFlight, CallInv, GetOps, SetOps, NoWait, Waits, Forever
  <2> QED
    BY <2>1, <2>2, <2>3, <2>4, <2>5
<1>6. ASSUME NEW p \in Procs, Acquire(p) PROVE IInv'
  <2> USE <1>6 DEF Acquire
  <2>1. TypeOK'
    BY DEF TypeOK, OneValueAtMost, PCs, Ops, GetOps, SetOps
  <2>2. LockedRegion'
    BY DEF TypeOK, LockedRegion, Locked
  <2>3. OneValueAtMost'
    BY DEF TypeOK, OneValueAtMost, LockedRegion, Locked
  <2>4. CallInv' /\ UnregisteredInv'
    BY DEF TypeOK, CallInv, UnregisteredInv, OneValueAtMost, GetOps, SetOps, Allowed, Ops, NoWait, Waits, Forever
  <2>5. NeverLost'
    BY DEF TypeOK, OneValueAtMost, NeverLost, InFlight, CallInv, GetOps, SetOps, NoWait, Waits, Forever
  <2> QED
    BY <2>1, <2>2, <2>3, <2>4, <2>5
<1>7. ASSUME NEW p \in Procs, Test(p) PROVE IInv'
  <2> USE <1>7 DEF Test
  <2>1. TypeOK'
    BY DEF TypeOK, OneValueAtMost, PCs, Ops, GetOps, SetOps
  <2>2. LockedRegion'
    BY DEF TypeOK, LockedRegion, Locked
  <2>3. OneValueAtMost'
    BY DEF TypeOK, OneValueAtMost, LockedRegion, Locked
  <2>4. CallInv' /\ UnregisteredInv'
    BY DEF TypeOK, CallInv, UnregisteredInv, OneValueAtMost, GetOps, SetOps, Allowed, Ops, NoWait, Waits, Forever
  <2>5. NeverLost'
    BY DEF TypeOK, OneValueAtMost, NeverLost, InFlight, CallInv, GetOps, SetOps, NoWait, Waits, Forever
  <2> QED
    BY <2>1, <2>2, <2>3, <2>4, <2>5
<1>8. ASSUME NEW p \in Procs, Drain(p) PROVE IInv'
  <2> USE <1>8 DEF Drain
  <2>1. TypeOK'
    BY TailOfOne DEF TypeOK, OneValueAtMost, PCs, Ops, GetOps, SetOps
  <2>2. LockedRegion'
    BY DEF TypeOK, LockedRegion, Locked
  <2>3. OneValueAtMost'
    BY TailOfOne DEF TypeOK, OneValueAtMost, LockedRegion, Locked
  <2>4. CallInv' /\ UnregisteredInv'
    BY TailOfOne DEF TypeOK, CallInv, UnregisteredInv, OneValueAtMost, GetOps, SetOps, Allowed, Ops, NoWait, Waits, Forever
  <2>5. NeverLost'
    BY TailOfOne DEF TypeOK, OneValueAtMost, NeverLost, InFlight, CallInv, GetOps, SetOps, NoWait, Waits, Forever
  <2> QED
    BY <2>1, <2>2, <2>3, <2>4, <2>5
<1>9. ASSUME NEW p \in Procs, DrainEmpty(p) PROVE IInv'
  <2> USE <1>9 DEF DrainEmpty
  <2>1. TypeOK'
    <3>1. ret' \in [Procs -> {"none", "get", "has"} \X Nat]
      <4>1. ret \in [Procs -> {"none", "get", "has"} \X Nat]
        BY DEF TypeOK
      <4>2. ret' = ret \/ ret' = [ret EXCEPT ![p] = <<"get", 0>>]
        OBVIOUS
      <4>3. <<"get", 0>> \in {"none", "get", "has"} \X Nat
        OBVIOUS
      <4> HIDE <1>9 DEF DrainEmpty
      <4> QED
        BY <4>1, <4>2, <4>3
    <3>2. pc' \in [Procs -> PCs]
      <4>1. pc \in [Procs -> PCs] /\ "put" \in PCs /\ "unlock" \in PCs
        BY DEF TypeOK, PCs
      <4>2. pc' = [pc EXCEPT ![p] = "put"] \/ pc' = [pc EXCEPT ![p] = "unlock"]
        OBVIOUS
      <4> HIDE <1>9 DEF DrainEmpty, IInv
      <4> QED
        BY <4>1, <4>2
    <3> QED
      BY <3>1, <3>2 DEF TypeOK
  <2>2. LockedRegion'
    BY DEF TypeOK, LockedRegion, Locked
  <2>3. OneValueAtMost'
    BY DEF TypeOK, OneValueAtMost, LockedRegion, Locked
  <2>4. CallInv' /\ UnregisteredInv'
    BY DEF TypeOK, CallInv, UnregisteredInv, OneValueAtMost, GetOps, SetOps, Allowed, Ops, NoWait, Waits, Forever
  <2>5. NeverLost'
    BY DEF TypeOK, OneValueAtMost, NeverLost, InFlight, CallInv, GetOps, SetOps, NoWait, Waits, Forever
  <2> QED
    BY <2>1, <2>2, <2>3, <2>4, <2>5
<1>10. ASSUME NEW p \in Procs, PutNew(p) PROVE IInv'
  <2> USE <1>10 DEF PutNew
  <2>1. TypeOK'
    BY AppendToEmpty DEF TypeOK, OneValueAtMost, PCs, Ops, GetOps, SetOps
  <2>2. LockedRegion'
    BY DEF TypeOK, LockedRegion, Locked
  <2>3. OneValueAtMost'
    BY AppendToEmpty DEF TypeOK, OneValueAtMost, LockedRegion, Locked
  <2>4. CallInv' /\ UnregisteredInv'
    BY AppendToEmpty DEF TypeOK, CallInv, UnregisteredInv, OneValueAtMost, GetOps, SetOps, Allowed, Ops, NoWait, Waits, Forever
  <2>5. NeverLost'
    BY AppendToEmpty DEF TypeOK, OneValueAtMost, NeverLost, InFlight, CallInv, GetOps, SetOps, NoWait, Waits, Forever
  <2> QED
    BY <2>1, <2>2, <2>3, <2>4, <2>5
<1>11. ASSUME NEW p \in Procs, PutBack(p) PROVE IInv'
  <2> USE <1>11 DEF PutBack
  <2>1. TypeOK'
    <3>1. queue' \in Seq(Nat \ {0})
      BY AppendToEmpty DEF TypeOK, OneValueAtMost, CallInv
    <3>2. ret' \in [Procs -> {"none", "get", "has"} \X Nat]
      BY DEF TypeOK
    <3>3. pc' \in [Procs -> PCs] /\ hand' \in [Procs -> Nat]
      BY DEF TypeOK, PCs
    <3> QED
      BY <3>1, <3>2, <3>3 DEF TypeOK
  <2>2. LockedRegion'
    BY DEF TypeOK, LockedRegion, Locked
  <2>3. OneValueAtMost'
    BY AppendToEmpty DEF TypeOK, OneValueAtMost, LockedRegion, Locked
  <2>4. CallInv' /\ UnregisteredInv'
    BY AppendToEmpty DEF TypeOK, CallInv, UnregisteredInv, OneValueAtMost, GetOps, SetOps, Allowed, Ops, NoWait, Waits, Forever
  <2>5. NeverLost'
    BY AppendToEmpty DEF TypeOK, OneValueAtMost, NeverLost, InFlight, CallInv, GetOps, SetOps, NoWait, Waits, Forever
  <2> QED
    BY <2>1, <2>2, <2>3, <2>4, <2>5
<1>12. ASSUME NEW p \in Procs, Release(p) PROVE IInv'
  <2> USE <1>12 DEF Release
  <2>1. TypeOK'
    BY DEF TypeOK, OneValueAtMost, PCs, Ops, GetOps, SetOps
  <2>a. /\ \A q \in Procs : q # p => pc'[q] = pc[q] /\ op'[q] = op[q]
        /\ \/ pc[p] = "reset" /\ pc'[p] = "lock" /\ op'[p] = "dset"
           \/ pc[p] = "unlock" /\ pc'[p] = "idle" /\ op'[p] = "none"
    BY DEF TypeOK
  <2>b. UNCHANGED <<registered, queue, hand, latest>> /\ rlock' = NoProc
    OBVIOUS
  <2>2. LockedRegion'
    <3>1. rlock = p
      BY DEF LockedRegion, Locked
    <3>2. \A q \in Procs : q # p => pc'[q] \notin Locked
      BY <3>1, <2>a DEF LockedRegion
    <3> QED
      BY <2>a, <2>b, <3>2 DEF LockedRegion, Locked
  <2>3. OneValueAtMost'
    BY DEF TypeOK, OneValueAtMost, LockedRegion, Locked
  <2>4. CallInv' /\ UnregisteredInv'
    <3>1. CallInv'
      BY <2>a, <2>b DEF CallInv
    <3>2. registered
      BY DEF UnregisteredInv
    <3> QED
      BY <2>b, <3>1, <3>2 DEF UnregisteredInv
  <2>5. NeverLost'
    BY DEF TypeOK, OneValueAtMost, NeverLost, InFlight, CallInv, GetOps, SetOps, NoWait, Waits, Forever
  <2> QED
    BY <2>1, <2>2, <2>3, <2>4, <2>5
<1>13. ASSUME NEW p \in Procs, Kill(p) PROVE IInv'
  <2> USE <1>13 DEF Kill
  <2>1. TypeOK'
    BY DEF TypeOK, OneValueAtMost, PCs, Ops, GetOps, SetOps
  <2>2. LockedRegion'
    BY DEF TypeOK, LockedRegion, Locked
  <2>3. OneValueAtMost'
    BY DEF TypeOK, OneValueAtMost, LockedRegion, Locked
  <2>4. CallInv' /\ UnregisteredInv'
    BY DEF TypeOK, CallInv, UnregisteredInv, OneValueAtMost, GetOps, SetOps, Allowed, Ops, NoWait, Waits, Forever
  <2>5. NeverLost'
    BY DEF TypeOK, OneValueAtMost, NeverLost, InFlight, CallInv, GetOps, SetOps, NoWait, Waits, Forever
  <2> QED
    BY <2>1, <2>2, <2>3, <2>4, <2>5
<1> QED
  BY <1>1, <1>2, <1>3, <1>4, <1>5, <1>6, <1>7, <1>8, <1>9, <1>10, <1>11, <1>12, <1>13 DEF Next, ServeDead, Step

(* The inductive invariant holds in every reachable state. *)
LEMMA SpecIInv == Spec => []IInv
  BY InitIInv, NextIInv, PTL DEF Spec

(* Every variable keeps its type; in particular only values that were set  *)
(* are ever put on the queue, never the unset local of a GetParallel.      *)
THEOREM TypeCorrect == Spec => []TypeOK
  BY SpecIInv, PTL DEF IInv

(* Two processes are never both inside "with queue.rlock", and the queue   *)
(* never holds two values, whoever is killed.                              *)
THEOREM OnePlaceBuffer == Spec => [](LockedRegion /\ OneValueAtMost)
  BY SpecIInv, PTL DEF IInv

(* A value that was set is never dropped by the protocol itself: it is on  *)
(* the queue or with a process inside a call.                              *)
THEOREM ValueNeverLost == Spec => []NeverLost
  BY SpecIInv, PTL DEF IInv
-----------------------------------------------------------------------------
(***************************************************************************)
(* The refinement of AttributeRegister while one process alone queries.    *)
(***************************************************************************)
Queriers == Getters \cup Testers \cup Defaulters

(* The processes that have queried are one at most. *)
OneReader == \A p, q \in Reading : p = q

(* A setter has emptied, or is emptying, the queue for its own value. *)
Setting == \E s \in Procs : op[s] \in SetOps /\ pc[s] \in {"drain", "put"}

(* Who is inside a query has made a call that Reading counts, and only     *)
(* a GetParallel between its two phases has a value in its hand.           *)
ReaderInv ==
  \A p \in Procs :
    /\ pc[p] = "take" => op[p] \in GetOps
    /\ pc[p] = "test" => op[p] \in {"has", "default"}
    /\ op[p] \in GetOps \cup {"has", "default"} => p \in Queriers /\ calls[p] > 0
    /\ hand[p] # 0 => op[p] \in GetOps /\ pc[p] \in {"lock", "drain", "put", "gone"}
    /\ pc[p] = "gone" => p \in killed

(* While there is one reader the value on the queue is the newest, and so  *)
(* is the one in the reader's hand unless a newer one is on the queue or   *)
(* about to be put there.                                                  *)
Fresh ==
  OneReader =>
    /\ queue # <<>> => Head(queue) = latest
    /\ \A p \in Procs : hand[p] # 0 => \/ hand[p] = latest
                                       \/ queue # <<>>
                                       \/ Setting

LEMMA InitFresh == Init => ReaderInv /\ Fresh
  BY DEF Init, ReaderInv, Fresh, GetOps, NoWait, Waits, Forever

(* Once there are two readers there always are. *)
LEMMA ReadersStay ==
  ASSUME IInv, [Next]_vars, OneReader'
  PROVE  OneReader
<1>1. ASSUME NEW q \in Procs, NEW o \in Ops, Call(q, o)
      PROVE  \A p \in Procs : calls[p] > 0 => calls'[p] > 0
  BY <1>1, BoundsAssumption DEF IInv, TypeOK, Call
<1>2. (\E q \in Procs, o \in Ops : Call(q, o)) \/ UNCHANGED calls
  BY DEF Next, ServeDead, Step, vars, RegisterBoardAttrs, Take, TakeEmpty,
     Acquire, Test, Drain, DrainEmpty, PutNew, PutBack, Release, Kill
<1>3. \A p \in Procs : calls[p] > 0 => calls'[p] > 0
  BY <1>1, <1>2
<1> QED
  BY <1>3, ProcsAssumption DEF OneReader, Reading

(* A step that moves no value. *)
LEMMA FreshStays ==
  ASSUME Fresh, UNCHANGED <<queue, hand, latest>>,
         OneReader' => OneReader, Setting => Setting'
  PROVE  Fresh'
  BY DEF Fresh

LEMMA NextFresh == IInv /\ ReaderInv /\ Fresh /\ [Next]_vars => ReaderInv' /\ Fresh'
<1> SUFFICES ASSUME IInv, ReaderInv, Fresh, [Next]_vars PROVE ReaderInv' /\ Fresh'
  OBVIOUS
<1> USE ProcsAssumption, BoundsAssumption, ReadersStay DEF IInv
<1>1. CASE UNCHANGED vars
  BY <1>1 DEF vars, ReaderInv, Fresh, OneReader, Reading, Setting
<1>2. CASE RegisterBoardAttrs
  BY <1>2 DEF RegisterBoardAttrs, ReaderInv, Fresh, OneReader, Reading, Setting, UnregisteredInv
<1>3. ASSUME NEW p \in Procs, NEW o \in Ops, Call(p, o) PROVE ReaderInv' /\ Fresh'
  <2> USE <1>3 DEF Call
  <2>1. ReaderInv'
    BY DEF ReaderInv, Allowed, Queriers, Ops, GetOps, SetOps, NoWait, Waits, Forever, TypeOK
  <2>2. Setting => Setting'
    BY DEF Setting, TypeOK
  <2>3. Fresh'
    BY <2>2 DEF Fresh
  <2> QED
    BY <2>1, <2>3
<1>4. ASSUME NEW p \in Procs, Take(p) PROVE ReaderInv' /\ Fresh'
  <2> USE <1>4 DEF Take
  <2>1. ReaderInv'
    <3>1. \A q \in Procs : q # p => pc'[q] = pc[q] /\ hand'[q] = hand[q]
      BY DEF TypeOK
    <3>2. pc'[p] = (IF p \in killed THEN "gone" ELSE "lock") /\ op[p] \in GetOps
      BY DEF TypeOK, ReaderInv
    <3> QED
      BY <3>1, <3>2 DEF ReaderInv
  <2>2. ASSUME OneReader, NEW q \in Procs, hand[q] # 0, op[p] \in GetOps PROVE q = p
    <3>1. q \in Reading /\ p \in Reading
      BY <2>2 DEF ReaderInv, Reading, Queriers
    <3> QED
      BY <2>2, <3>1 DEF OneReader
  <2>3. ASSUME OneReader PROVE \A q \in Procs : hand'[q] # 0 => hand'[q] = latest'
    BY <2>2, <2>3, Zenon DEF Fresh, ReaderInv, TypeOK
  <2>4. queue' = <<>>
    BY TailOfOne DEF OneValueAtMost, TypeOK
  <2>5. Fresh'
    BY <2>3, <2>4 DEF Fresh
  <2> QED
    BY <2>1, <2>5
<1>5. ASSUME NEW p \in Procs, TakeEmpty(p) PROVE ReaderInv' /\ Fresh'
  <2> USE <1>5 DEF TakeEmpty
  <2>1. ReaderInv'
    BY DEF ReaderInv, CallInv, Queriers, GetOps, SetOps, NoWait, Waits, Forever, TypeOK
  <2>2. Fresh'
    <3>1. Setting => Setting'
      BY DEF Setting, TypeOK
    <3>2. UNCHANGED <<queue, hand, latest>>
      OBVIOUS
    <3> QED
      BY <3>1, <3>2, FreshStays
  <2> QED
    BY <2>1, <2>2
<1>6. ASSUME NEW p \in Procs, Acquire(p) PROVE ReaderInv' /\ Fresh'
  <2> USE <1>6 DEF Acquire
  <2>1. ReaderInv'
    BY DEF ReaderInv, CallInv, Queriers, GetOps, SetOps, NoWait, Waits, Forever, TypeOK
  <2>2. Fresh'
    <3>1. Setting => Setting'
      BY DEF Setting, TypeOK
    <3>2. UNCHANGED <<queue, hand, latest>>
      OBVIOUS
    <3> QED
      BY <3>1, <3>2, FreshStays
  <2> QED
    BY <2>1, <2>2
<1>7. ASSUME NEW p \in Procs, Test(p) PROVE ReaderInv' /\ Fresh'
  <2> USE <1>7 DEF Test
  <2>1. ReaderInv'
    BY DEF ReaderInv, CallInv, Queriers, GetOps, SetOps, NoWait, Waits, Forever, TypeOK
  <2>2. Fresh'
    <3>1. Setting => Setting'
      BY DEF Setting, TypeOK
    <3>2. UNCHANGED <<queue, hand, latest>>
      OBVIOUS
    <3> QED
      BY <3>1, <3>2, FreshStays
  <2> QED
    BY <2>1, <2>2
<1>8. ASSUME NEW p \in Procs, Drain(p) PROVE ReaderInv' /\ Fresh'
  <2> USE <1>8 DEF Drain
  <2>1. ReaderInv'
    BY TailOfOne DEF ReaderInv, CallInv, Queriers, GetOps, SetOps, NoWait, Waits, Forever, TypeOK
  <2>2. ASSUME OneReader, NEW q \in Procs, hand[q] # 0, op[p] \in GetOps PROVE q = p
    <3>1. q \in Reading /\ p \in Reading
      BY <2>2 DEF ReaderInv, Reading, Queriers
    <3> QED
      BY <2>2, <3>1 DEF OneReader
  <2>3. queue' = <<>>
    BY TailOfOne DEF OneValueAtMost, TypeOK
  <2>4. CASE op[p] \in GetOps
    <3>1. hand' = [hand EXCEPT ![p] = Head(queue)] /\ queue # <<>> /\ latest' = latest
      BY <2>4
    <3>2. ASSUME OneReader, NEW q \in Procs, hand'[q] # 0 PROVE hand'[q] = latest'
      <4>1. Head(queue) = latest
        BY <3>1, <3>2 DEF Fresh
      <4>2. CASE q = p
        BY <3>1, <4>1, <4>2 DEF TypeOK
      <4>3. CASE q # p
        <5>1. hand[q] # 0
          BY <3>1, <3>2, <4>3 DEF TypeOK
        <5> QED
          BY <2>2, <2>4, <3>2, <4>3, <5>1
      <4> QED
        BY <4>2, <4>3
    <3> QED
      <4> HIDE <1>8 DEF Drain, IInv
      <4> QED
        BY <2>1, <2>3, <3>2, ReadersStay DEF Fresh
  <2>5. CASE op[p] \notin GetOps
    <3>1. op'[p] \in SetOps /\ pc'[p] = "drain"
      <4>1. op[p] \in SetOps /\ pc[p] = "drain"
        BY <2>5 DEF CallInv
      <4> QED
        BY <4>1
    <3> QED
      BY <2>1, <2>3, <3>1 DEF Fresh, Setting
  <2> QED
    BY <2>4, <2>5
<1>9. ASSUME NEW p \in Procs, DrainEmpty(p) PROVE ReaderInv' /\ Fresh'
  <2> USE <1>9 DEF DrainEmpty
  <2>1. ReaderInv'
    BY DEF ReaderInv, CallInv, Queriers, GetOps, SetOps, NoWait, Waits, Forever, TypeOK
  <2>2. Fresh'
    <3>1. Setting => Setting'
      BY DEF Setting, TypeOK, GetOps, SetOps, NoWait, Waits, Forever
    <3>2. UNCHANGED <<queue, hand, latest>>
      OBVIOUS
    <3> QED
      BY <3>1, <3>2, FreshStays
  <2> QED
    BY <2>1, <2>2
<1>10. ASSUME NEW p \in Procs, PutNew(p) PROVE ReaderInv' /\ Fresh'
  <2> USE <1>10 DEF PutNew
  <2>1. ReaderInv'
    BY DEF ReaderInv, CallInv, Queriers, GetOps, SetOps, NoWait, Waits, Forever, TypeOK
  <2>2. Fresh'
    <3>1. queue' # <<>> /\ Head(queue') = latest'
      BY DEF OneValueAtMost, TypeOK
    <3> QED
      BY <3>1 DEF Fresh
  <2> QED
    BY <2>1, <2>2
<1>11. ASSUME NEW p \in Procs, PutBack(p) PROVE ReaderInv' /\ Fresh'
  <2> USE <1>11 DEF PutBack
  <2>1. ReaderInv'
    BY DEF ReaderInv, CallInv, Queriers, GetOps, SetOps, NoWait, Waits, Forever, TypeOK
  <2>2. ASSUME OneReader PROVE hand[p] = latest
    <3>1. queue = <<>> /\ hand[p] # 0
      BY DEF OneValueAtMost, CallInv
    <3>2. ~Setting
      BY DEF Setting, LockedRegion, Locked, SetOps, GetOps, NoWait, Waits, Forever
    <3> QED
      BY <2>2, <3>1, <3>2 DEF Fresh
  <2>3. queue' # <<>> /\ Head(queue') = hand[p]
    BY DEF OneValueAtMost, CallInv, TypeOK
  <2>4. Fresh'
    BY <2>2, <2>3 DEF Fresh
  <2> QED
    BY <2>1, <2>4
<1>12. ASSUME NEW p \in Procs, Release(p) PROVE ReaderInv' /\ Fresh'
  <2> USE <1>12 DEF Release
  <2>1. ReaderInv'
    <3>1. hand[p] = 0
      BY DEF ReaderInv
    <3>2. \A q \in Procs : q # p => pc'[q] = pc[q] /\ op'[q] = op[q]
      BY DEF TypeOK
    <3>3. pc'[p] \in {"lock", "idle"} /\ op'[p] \in {"dset", "none"}
      BY DEF TypeOK
    <3> QED
      BY <3>1, <3>2, <3>3 DEF ReaderInv, GetOps, NoWait, Waits, Forever
  <2>2. Fresh'
    <3>1. Setting => Setting'
      BY DEF Setting, TypeOK
    <3>2. UNCHANGED <<queue, hand, latest>>
      OBVIOUS
    <3> QED
      BY <3>1, <3>2, FreshStays
  <2> QED
    BY <2>1, <2>2
<1>13. ASSUME NEW p \in Procs, Kill(p) PROVE ReaderInv' /\ Fresh'
  <2> USE <1>13 DEF Kill
  <2>1. ReaderInv'
    BY DEF ReaderInv, CallInv, Queriers, GetOps, SetOps, NoWait, Waits, Forever, TypeOK
  <2>2. Fresh'
    <3>1. Setting => Setting'
      BY DEF Setting, TypeOK
    <3>2. UNCHANGED <<queue, hand, latest>>
      OBVIOUS
    <3> QED
      BY <3>1, <3>2, FreshStays
  <2> QED
    BY <2>1, <2>2
<1> QED
  BY <1>1, <1>2, <1>3, <1>4, <1>5, <1>6, <1>7, <1>8, <1>9, <1>10, <1>11, <1>12, <1>13 DEF Next, ServeDead, Step

(* A query that finds neither a value on the queue nor one in its own hand *)
(* is right: none was ever set.                                            *)
LEMMA NothingToFind ==
  ASSUME IInv, ReaderInv, OneReader, NEW p \in Procs,
         op[p] \in GetOps \cup {"has", "default"}, pc[p] \in {"test", "drain"},
         queue = <<>>, hand[p] = 0
  PROVE  latest = 0
<1>1. p \in Reading
  BY DEF ReaderInv, Queriers, Reading
<1>2. \A q \in Procs : hand[q] = 0
  <2> SUFFICES ASSUME NEW q \in Procs, hand[q] # 0 PROVE FALSE
    OBVIOUS
  <2>1. q \in Reading
    BY DEF ReaderInv, Queriers, Reading
  <2> QED
    BY <1>1, <2>1 DEF OneReader
<1>3. ~Setting
  BY DEF Setting, IInv, LockedRegion, Locked, SetOps, GetOps, NoWait, Waits, Forever
<1> QED
  BY <1>2, <1>3 DEF IInv, TypeOK, NeverLost, InFlight, Setting

(* A step of the code is a step of the register, or none. *)
LEMMA RegisterStep ==
  ASSUME IInv, ReaderInv, Fresh, [Next]_vars, OneReader'
  PROVE  Register!Next \/ UNCHANGED <<latest, ret>>
<1>1. OneReader
  BY ReadersStay
<1>2. ASSUME NEW p \in Procs, Test(p) PROVE Register!Has(p)
  <2>1. op[p] \in {"has", "default"} /\ hand[p] = 0
    BY <1>2 DEF Test, ReaderInv, GetOps, NoWait, Waits, Forever
  <2>2. queue = <<>> => latest = 0
    BY <1>1, <1>2, <2>1, NothingToFind DEF Test
  <2>3. queue # <<>> => latest # 0
    BY <1>1 DEF Fresh, IInv, TypeOK
  <2> QED
    BY <1>2, <2>2, <2>3 DEF Test, Register!Has
<1>3. ASSUME NEW p \in Procs, DrainEmpty(p) PROVE Register!Get(p) \/ UNCHANGED <<latest, ret>>
  <2>1. CASE op[p] \in GetOps /\ hand[p] = 0
    <3>1. latest = 0
      BY <1>1, <1>3, <2>1, NothingToFind DEF DrainEmpty
    <3> QED
      BY <1>3, <2>1, <3>1 DEF DrainEmpty, Register!Get
  <2>2. CASE ~(op[p] \in GetOps /\ hand[p] = 0)
    BY <1>3, <2>2 DEF DrainEmpty
  <2> QED
    BY <2>1, <2>2
<1>4. ASSUME NEW p \in Procs, PutNew(p) PROVE Register!Set
  BY <1>4 DEF PutNew, Register!Set
<1>5. ASSUME NEW p \in Procs, PutBack(p) PROVE Register!Get(p)
  <2>1. queue = <<>> /\ hand[p] # 0
    BY <1>5 DEF PutBack, IInv, OneValueAtMost, CallInv
  <2>2. ~Setting
    BY <1>5 DEF PutBack, Setting, IInv, LockedRegion, Locked, SetOps, GetOps, NoWait, Waits, Forever
  <2>3. hand[p] = latest
    BY <1>1, <2>1, <2>2 DEF Fresh
  <2> QED
    BY <1>5, <2>3 DEF PutBack, Register!Get
<1>6. ASSUME \/ UNCHANGED vars
             \/ RegisterBoardAttrs
             \/ \E p \in Procs : \/ \E o \in Ops : Call(p, o)
                                 \/ Take(p) \/ TakeEmpty(p) \/ Acquire(p)
                                 \/ Drain(p) \/ Release(p) \/ Kill(p)
      PROVE  UNCHANGED <<latest, ret>>
  BY <1>6 DEF vars, RegisterBoardAttrs, Call, Take, TakeEmpty, Acquire, Drain, Release, Kill
<1> QED
  BY <1>2, <1>3, <1>4, <1>5, <1>6 DEF Next, ServeDead, Step, Register!Next

(* A set of at most one element. *)
LEMMA FewElements ==
  ASSUME NEW S, IsFiniteSet(S), Cardinality(S) <= 1
  PROVE  \A p, q \in S : p = q
<1> SUFFICES ASSUME NEW p \in S, NEW q \in S, p # q PROVE FALSE
  OBVIOUS
<1>1. /\ IsFiniteSet(S \ {p})
      /\ Cardinality(S \ {p}) = Cardinality(S) - 1
  BY FS_RemoveElement
<1>2. /\ Cardinality(S) \in Nat
      /\ Cardinality(S \ {p}) \in Nat
  BY <1>1, FS_CardinalityType
<1>3. Cardinality(S \ {p}) = 0
  BY <1>1, <1>2
<1> QED
  BY <1>1, <1>3, FS_EmptySet

(* While one process alone reads, tests and sets defaults, the queue is a  *)
(* register: no query fails after the first SetParallel, and none returns  *)
(* a value older than the newest.                                          *)
THEOREM RegisterKept == Spec => RegisterForOneReader
<1>1. Init => Register!Init
  BY DEF Init, Register!Init
<1>2. IInv /\ ReaderInv /\ Fresh /\ [Next]_vars
        => [Cardinality(Reading') <= 1 => Register!Next]_<<latest, ret>>
  <2> SUFFICES ASSUME IInv, ReaderInv, Fresh, [Next]_vars, Cardinality(Reading') <= 1
               PROVE  Register!Next \/ UNCHANGED <<latest, ret>>
    OBVIOUS
  <2>1. OneReader'
    <3>1. IsFiniteSet(Reading')
      BY ProcsAssumption, FiniteAssumption, FS_Subset DEF Reading
    <3> QED
      BY <3>1, FewElements DEF OneReader
  <2> QED
    BY <2>1, RegisterStep
<1> QED
  BY <1>1, <1>2, SpecIInv, InitFresh, NextFresh, PTL DEF Spec, RegisterForOneReader
-----------------------------------------------------------------------------
(***************************************************************************)
(* The safety half of ReaderServed: calls do not wait for one another for  *)
(* ever, and each takes a bounded number of steps.                         *)
(***************************************************************************)

(* What a live process inside a call waits for: a value on the queue,      *)
(* unless its get has a time-out, or the lock.                             *)
CanGoOn(p) ==
  /\ p \notin killed
  /\ \/ pc[p] = "take" /\ (queue # <<>> \/ op[p] # Forever)
     \/ pc[p] = "lock" /\ rlock = NoProc
     \/ pc[p] \in Locked

(* Once a value was set, a live process inside a call can go on, or        *)
(* another one can that it waits for - or there is a process that was      *)
(* killed with the lock or the value.                                      *)
NotStuck ==
  latest > 0 =>
    \A p \in Procs \ killed : pc[p] # "idle" =>
      \/ \E q \in Procs : CanGoOn(q)
      \/ \E k \in killed : rlock = k \/ InFlight(k)

(* A stage that waits for a value without a time-out is never stuck while  *)
(* nobody was killed, however gets, sets, tests and defaults interleave:   *)
(* whoever holds the value can put it back, or waits for a lock whose      *)
(* owner can go on.  After kills it can only be stuck because one of them  *)
(* took the lock or the value away.                                        *)
THEOREM ReadersNeverStuck == Spec => []NotStuck
<1>1. IInv /\ ReaderInv => NotStuck
  <2> SUFFICES ASSUME IInv, ReaderInv, latest > 0,
                      NEW p \in Procs \ killed, pc[p] # "idle",
                      \A k \in killed : rlock # k /\ ~InFlight(k)
               PROVE  \E q \in Procs : CanGoOn(q)
    BY DEF NotStuck
  <2>1. CASE rlock # NoProc
    <3>1. rlock \in Procs \ killed /\ pc[rlock] \in Locked
      BY <2>1 DEF IInv, TypeOK, LockedRegion
    <3> QED
      BY <3>1 DEF CanGoOn
  <2>2. CASE rlock = NoProc
    <3>1. \A q \in Procs : pc[q] \in {"idle", "take", "lock", "gone"}
      BY <2>2, ProcsAssumption DEF IInv, TypeOK, LockedRegion, Locked, PCs
    <3>2. CASE queue # <<>>
      <4>1. p \in Procs /\ p \notin killed /\ pc[p] \in {"take", "lock"}
        BY <3>1 DEF ReaderInv
      <4> QED
        BY <2>2, <3>2, <4>1 DEF CanGoOn
    <3>3. CASE queue = <<>>
      <4>1. PICK q \in Procs : InFlight(q)
        BY <3>3 DEF IInv, NeverLost
      <4>2. q \notin killed /\ pc[q] = "lock"
        BY <3>1, <4>1 DEF InFlight, ReaderInv
      <4> QED
        BY <2>2, <4>2 DEF CanGoOn
    <3> QED
      BY <3>2, <3>3
  <2> QED
    BY <2>1, <2>2
<1> QED
  BY <1>1, SpecIInv, InitFresh, NextFresh, PTL DEF Spec

(* An upper bound on the steps that are left of a call.                    *)
CallLeft(p) ==
  CASE pc[p] = "take" -> 7
    [] pc[p] = "lock" -> IF op[p] \in {"has", "default"} THEN 9 ELSE 6
    [] pc[p] = "test" -> 8
    [] pc[p] = "reset" -> 7
    [] pc[p] = "drain" -> 4 + Len(queue)
    [] pc[p] = "put" -> 3
    [] pc[p] = "unlock" -> 2
    [] OTHER -> 0

CallsShrink ==
  [][\A p \in Procs : pc[p] # "idle" =>
       /\ CallLeft(p)' <= CallLeft(p)
       /\ Step(p) => CallLeft(p)' < CallLeft(p)]_vars

(* The queue gets no longer under a process that drains it.                *)
LEMMA DrainedStays ==
  ASSUME IInv, [Next]_vars, NEW q \in Procs, pc[q] = "drain"
  PROVE  Len(queue') \in Nat /\ Len(queue') <= Len(queue)
<1>1. queue \in Seq(Nat \ {0}) /\ Len(queue) \in Nat
  BY DEF IInv, TypeOK
<1>2. ASSUME NEW p \in Procs, PutNew(p) \/ PutBack(p) PROVE FALSE
  <2>1. pc[p] = "put"
    BY <1>2 DEF PutNew, PutBack
  <2> QED
    BY <2>1 DEF IInv, LockedRegion, Locked
<1>3. ASSUME NEW p \in Procs, Take(p) \/ Drain(p) PROVE Len(queue') = Len(queue) - 1
  BY <1>1, <1>3 DEF Take, Drain
<1>4. CASE RegisterBoardAttrs
  BY <1>1, <1>4 DEF RegisterBoardAttrs
<1>5. ASSUME ~RegisterBoardAttrs,
             \A p \in Procs : ~(Take(p) \/ Drain(p) \/ PutNew(p) \/ PutBack(p))
      PROVE  queue' = queue
  BY <1>5 DEF Next, ServeDead, Step, vars, Call, TakeEmpty, Acquire, Test, DrainEmpty, Release, Kill
<1> QED
  BY <1>1, <1>2, <1>3, <1>4, <1>5

(* A step of one process takes nothing from the others' progress.          *)
LEMMA OthersLeft ==
  ASSUME IInv, [Next]_vars, NEW q \in Procs, pc'[q] = pc[q], op'[q] = op[q]
  PROVE  CallLeft(q)' <= CallLeft(q)
<1>1. CASE pc[q] = "drain"
  BY <1>1, DrainedStays DEF CallLeft, IInv, TypeOK
<1>2. CASE pc[q] # "drain"
  BY <1>2 DEF CallLeft
<1> QED
  BY <1>1, <1>2

LEMMA OwnLeft ==
  ASSUME IInv, ReaderInv, [Next]_vars, NEW p \in Procs, Step(p) \/ ServeDead(p)
  PROVE  CallLeft(p)' < CallLeft(p)
<1> USE DEF IInv, TypeOK
<1>1. CASE Take(p) \/ TakeEmpty(p)
  <2>1. pc[p] = "take" /\ pc'[p] \in {"lock", "gone"} /\ op'[p] = op[p]
    BY <1>1 DEF Take, TakeEmpty
  <2>2. op[p] \in GetOps
    BY <2>1 DEF ReaderInv
  <2> QED
    BY <2>1, <2>2 DEF CallLeft, GetOps, NoWait, Waits, Forever
<1>2. CASE Acquire(p)
  <2>1. pc[p] = "lock" /\ op'[p] = op[p] /\ queue' = queue
    BY <1>2 DEF Acquire
  <2>2. pc'[p] = IF op[p] \in {"has", "default"} THEN "test" ELSE "drain"
    BY <1>2 DEF Acquire
  <2>3. Len(queue) \in Nat /\ Len(queue) <= 1
    BY DEF OneValueAtMost
  <2> QED
    BY <2>1, <2>2, <2>3 DEF CallLeft
<1>3. CASE Test(p)
  <2>1. pc[p] = "test" /\ pc'[p] \in {"reset", "unlock"}
    BY <1>3 DEF Test
  <2> QED
    BY <2>1 DEF CallLeft
<1>4. CASE Drain(p)
  <2>1. pc[p] = "drain" /\ pc' = pc /\ Len(queue') = Len(queue) - 1 /\ Len(queue) \in Nat
    BY <1>4 DEF Drain
  <2> QED
    BY <2>1 DEF CallLeft
<1>5. CASE DrainEmpty(p)
  <2>1. pc[p] = "drain" /\ pc'[p] \in {"put", "unlock"} /\ Len(queue) = 0
    BY <1>5 DEF DrainEmpty
  <2> QED
    BY <2>1 DEF CallLeft
<1>6. CASE PutNew(p) \/ PutBack(p)
  <2>1. pc[p] = "put" /\ pc'[p] = "unlock"
    BY <1>6 DEF PutNew, PutBack
  <2> QED
    BY <2>1 DEF CallLeft
<1>7. CASE Release(p)
  <2>1. \/ pc[p] = "unlock" /\ pc'[p] = "idle"
        \/ pc[p] = "reset" /\ pc'[p] = "lock" /\ op'[p] = "dset"
    BY <1>7 DEF Release
  <2> QED
    BY <2>1 DEF CallLeft
<1> QED
  BY <1>1, <1>2, <1>3, <1>4, <1>5, <1>6, <1>7 DEF Step, ServeDead

(* Each step that a process takes inside a call brings the call nearer to  *)
(* its end, and nothing that the others do takes it further away: the loop *)
(* in which a setter or a reader drains the queue ends, because whoever    *)
(* else could fill the queue needs the lock.                               *)
THEOREM CallsAreFinite == Spec => CallsShrink /\ []\A p \in Procs : CallLeft(p) \in Nat
<1>1. ASSUME IInv, NEW p \in Procs PROVE CallLeft(p) \in Nat
  <2>1. Len(queue) \in Nat
    BY <1>1 DEF IInv, TypeOK
  <2> QED
    BY <2>1 DEF CallLeft
<1>2. ASSUME IInv, ReaderInv, [Next]_vars, NEW p \in Procs, pc[p] # "idle"
      PROVE  CallLeft(p)' <= CallLeft(p)
  <2>1. IInv'
    BY <1>2, NextIInv
  <2>2. CallLeft(p) \in Nat /\ CallLeft(p)' \in Nat
    <3>1. Len(queue') \in Nat
      BY <2>1 DEF IInv, TypeOK
    <3>2. CallLeft(p)' \in Nat
      BY <3>1 DEF CallLeft
    <3> QED
      BY <1>1, <1>2, <3>2
  <2>3. CASE Step(p) \/ ServeDead(p)
    BY <1>2, <2>2, <2>3, OwnLeft
  <2>4. CASE ~(Step(p) \/ ServeDead(p))
    <3>1. ASSUME NEW q \in Procs, q # p, \/ Step(q) \/ ServeDead(q) \/ Kill(q)
                                        \/ \E o \in Ops : Call(q, o)
          PROVE  pc'[p] = pc[p] /\ op'[p] = op[p]
      <4> USE DEF IInv, TypeOK
      <4>1. CASE Take(q) \/ TakeEmpty(q) \/ Acquire(q) \/ Test(q) \/ Drain(q)
        BY <1>2, <3>1, <4>1 DEF Take, TakeEmpty, Acquire, Test, Drain
      <4>2. CASE DrainEmpty(q) \/ PutNew(q) \/ PutBack(q) \/ Release(q) \/ Kill(q)
        BY <1>2, <3>1, <4>2 DEF DrainEmpty, PutNew, PutBack, Release, Kill
      <4>3. ASSUME NEW o \in Ops, Call(q, o) PROVE pc'[p] = pc[p] /\ op'[p] = op[p]
        BY <1>2, <3>1, <4>3 DEF Call
      <4> HIDE DEF IInv, TypeOK
      <4> QED
        BY <3>1, <4>1, <4>2, <4>3 DEF Step, ServeDead
    <3>2. ASSUME (UNCHANGED vars) \/ RegisterBoardAttrs \/ Kill(p)
          PROVE  pc'[p] = pc[p] /\ op'[p] = op[p]
      BY <3>2 DEF vars, RegisterBoardAttrs, Kill
    <3>3. ASSUME NEW o \in Ops PROVE ~Call(p, o)
      BY <1>2 DEF Call
    <3>4. pc'[p] = pc[p] /\ op'[p] = op[p]
      BY <1>2, <2>4, <3>1, <3>2, <3>3 DEF Next
    <3> QED
      BY <1>2, <3>4, OthersLeft
  <2> QED
    BY <2>3, <2>4
<1>3. IInv /\ ReaderInv /\ [Next]_vars =>
        [\A p \in Procs : pc[p] # "idle" =>
           /\ CallLeft(p)' <= CallLeft(p)
           /\ Step(p) => CallLeft(p)' < CallLeft(p)]_vars
  BY <1>2, OwnLeft
<1>4. IInv => \A p \in Procs : CallLeft(p) \in Nat
  BY <1>1
<1> QED
  BY <1>3, <1>4, SpecIInv, InitFresh, NextFresh, PTL DEF Spec, CallsShrink
=============================================================================
