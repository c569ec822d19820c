-------------------------- MODULE SynchListProofs --------------------------
(***************************************************************************)
(* Theorems about SynchList, for every set of threads and items.           *)
(***************************************************************************)
EXTENDS SynchList, FiniteSetTheorems, SequenceTheorems, TLAPS

-----------------------------------------------------------------------------
(* Queues without repetitions *)

\* What a queue holds after a new element was put at its end ...
LEMMA AppendMembers ==
  ASSUME NEW S, NEW q \in Seq(S), NEW e \in S,
         IsInjective(q), e \notin Range(q)
  PROVE  /\ Append(q, e) \in Seq(S)
         /\ IsInjective(Append(q, e))
         /\ \A x \in S : x \in Range(Append(q, e)) <=> x \in Range(q) \/ x = e
<1> DEFINE r == Append(q, e)
<1>1. /\ DOMAIN q = 1 .. Len(q) /\ DOMAIN r = 1 .. Len(q) + 1
      /\ Len(q) \in Nat /\ r \in Seq(S)
  BY AppendProperties, LenProperties
<1>2. /\ \A i \in 1 .. Len(q) : r[i] = q[i]
      /\ r[Len(q) + 1] = e
  BY AppendProperties
<1>3. \A i \in 1 .. Len(q) : q[i] # e
  BY <1>1 DEF Range
<1> HIDE DEF r
<1>4. IsInjective(r)
  <2> SUFFICES ASSUME NEW a \in 1 .. Len(q) + 1, NEW b \in 1 .. Len(q) + 1, r[a] = r[b]
               PROVE  a = b
    BY <1>1 DEF IsInjective
  <2>1. CASE a \in 1 .. Len(q) /\ b \in 1 .. Len(q)
    BY <1>1, <1>2, <2>1 DEF IsInjective
  <2>2. CASE a = Len(q) + 1 /\ b \in 1 .. Len(q)
    BY <1>2, <1>3, <2>2
  <2>3. CASE b = Len(q) + 1 /\ a \in 1 .. Len(q)
    BY <1>2, <1>3, <2>3
  <2> QED
    BY <1>1, <2>1, <2>2, <2>3
<1>5. ASSUME NEW x \in S
      PROVE  x \in Range(r) <=> x \in Range(q) \/ x = e
  <2>1. x \in Range(r) <=> \E i \in 1 .. Len(q) + 1 : x = r[i]
    BY <1>1 DEF Range
  <2>2. x \in Range(q) <=> \E i \in 1 .. Len(q) : x = q[i]
    BY <1>1 DEF Range
  <2> QED
    BY <1>1, <1>2, <2>1, <2>2
<1> QED
  BY <1>1, <1>4, <1>5 DEF r

\* ... and after its first one was taken off.
LEMMA TailMembers ==
  ASSUME NEW S, NEW q \in Seq(S), q # <<>>, IsInjective(q)
  PROVE  /\ Head(q) \in S /\ Head(q) \in Range(q)
         /\ Tail(q) \in Seq(S)
         /\ IsInjective(Tail(q))
         /\ \A x \in S : x \in Range(Tail(q)) <=> x \in Range(q) /\ x # Head(q)
<1> DEFINE r == Tail(q)
<1>1. /\ r \in Seq(S) /\ Head(q) \in S /\ Len(q) \in Nat \ {0}
      /\ DOMAIN q = 1 .. Len(q) /\ DOMAIN r = 1 .. Len(q) - 1
      /\ \A i \in 1 .. Len(q) - 1 : r[i] = q[i + 1]
  BY HeadTailProperties, LenProperties, EmptySeq
<1>2. Head(q) = q[1]
  OBVIOUS
<1> HIDE DEF r
<1>3. IsInjective(r)
  <2> SUFFICES ASSUME NEW a \in 1 .. Len(q) - 1, NEW b \in 1 .. Len(q) - 1, r[a] = r[b]
               PROVE  a = b
    BY <1>1 DEF IsInjective
  <2>1. a + 1 \in DOMAIN q /\ b + 1 \in DOMAIN q /\ q[a + 1] = q[b + 1]
    BY <1>1
  <2> QED
    BY <1>1, <2>1 DEF IsInjective
<1>4. ASSUME NEW x \in S
      PROVE  x \in Range(r) <=> x \in Range(q) /\ x # Head(q)
  <2>1. x \in Range(r) <=> \E i \in 1 .. Len(q) - 1 : x = q[i + 1]
    BY <1>1 DEF Range
  <2>2. x \in Range(q) <=> \E i \in 1 .. Len(q) : x = q[i]
    BY <1>1 DEF Range
  <2>3. \A i \in 1 .. Len(q) : i # 1 => q[i] # q[1]
    BY <1>1 DEF IsInjective
  <2>4. ASSUME x \in Range(r) PROVE x \in Range(q) /\ x # Head(q)
    <3>1. PICK i \in 1 .. Len(q) - 1 : x = q[i + 1]
      BY <2>1, <2>4
    <3> QED
      BY <1>1, <1>2, <2>2, <2>3, <3>1
  <2>5. ASSUME x \in Range(q), x # Head(q) PROVE x \in Range(r)
    <3>1. PICK i \in 1 .. Len(q) : x = q[i]
      BY <2>2, <2>5
    <3>2. i - 1 \in 1 .. Len(q) - 1 /\ x = q[(i - 1) + 1]
      BY <1>1, <1>2, <2>5, <3>1
    <3> QED
      BY <2>1, <3>2
  <2> QED
    BY <2>4, <2>5
<1>5. Head(q) \in Range(q)
  BY <1>1, <1>2 DEF Range
<1> QED
  BY <1>1, <1>3, <1>4, <1>5 DEF r

-----------------------------------------------------------------------------
(* The inductive invariant *)

\* What each call may be doing where it stands.
CallsPlaced ==
  \A t \in Thread :
    /\ op[t] = "append" /\ pc[t] # "idle" => item[t] \in Item
    /\ pc[t] = "sleep" => op[t] = "remove"
    /\ pc[t] = "release" => op[t] # "remove"

Inv == TypeOK /\ CallsPlaced /\ MonitorExclusive /\ WaitersQueued

LEMMA InvInit == Init => Inv
<1> SUFFICES ASSUME Init PROVE Inv
  OBVIOUS
<1>1. TypeOK /\ CallsPlaced
  BY SynchListAssumption DEF Init, TypeOK, CallsPlaced, PC, Op
<1>2. MonitorExclusive
  BY SynchListAssumption DEF Init, MonitorExclusive, InMonitor
<1>3. WaitersQueued
  BY DEF Init, WaitersQueued, IsInjective, Range
<1> QED
  BY <1>1, <1>2, <1>3 DEF Inv

\* What Signal does: the first waiter leaves the queue and its semaphore is up.
LEMMA SignalEffect ==
  ASSUME TypeOK, WaitersQueued, SignalFirst
  PROVE  LET h == Head(waitQueue) IN
         /\ h \in Thread /\ pc[h] = "sleep" /\ waiter[h] = 0
         /\ waitQueue' \in Seq(Thread) /\ IsInjective(waitQueue')
         /\ \A t \in Thread : t \in Range(waitQueue') <=> t \in Range(waitQueue) /\ t # h
         /\ waiter' \in [Thread -> 0 .. 1]
         /\ \A t \in Thread : waiter'[t] = IF t = h THEN 1 ELSE waiter[t]
<1> DEFINE h == Head(waitQueue)
<1>1. /\ h \in Thread /\ h \in Range(waitQueue)
      /\ Tail(waitQueue) \in Seq(Thread) /\ IsInjective(Tail(waitQueue))
      /\ \A t \in Thread : t \in Range(Tail(waitQueue)) <=> t \in Range(waitQueue) /\ t # h
  BY TailMembers DEF TypeOK, WaitersQueued, SignalFirst
<1>2. pc[h] = "sleep" /\ waiter[h] = 0
  BY <1>1 DEF WaitersQueued
<1>3. waitQueue' = Tail(waitQueue) /\ waiter' = [waiter EXCEPT ![h] = @ + 1]
  BY DEF SignalFirst
<1> HIDE DEF h
<1>4. /\ waiter' \in [Thread -> 0 .. 1]
      /\ \A t \in Thread : waiter'[t] = IF t = h THEN 1 ELSE waiter[t]
  BY <1>1, <1>2, <1>3 DEF TypeOK
<1> QED
  BY <1>1, <1>2, <1>3, <1>4 DEF h

LEMMA InvNext == Inv /\ [Next]_vars => Inv'
<1> SUFFICES ASSUME Inv, [Next]_vars PROVE Inv'
  OBVIOUS
<1> USE DEF Inv
<1>1. CASE UNCHANGED vars
  BY <1>1 DEF vars, TypeOK, CallsPlaced, MonitorExclusive, InMonitor, WaitersQueued
<1>2. ASSUME NEW t \in Thread, NEW o \in Op, Call(t, o),
             UNCHANGED <<list, value, lockHolder, waitQueue, waiter, got>>,
             \/ o = "append" /\ \E x \in Item : item' = [item EXCEPT ![t] = x]
             \/ o # "append" /\ UNCHANGED item
      PROVE  Inv'
  <2>1. TypeOK' /\ CallsPlaced'
    BY <1>2, SynchListAssumption DEF Call, GoTo, TypeOK, CallsPlaced, PC, Op
  <2>2. MonitorExclusive' /\ WaitersQueued'
    BY <1>2 DEF Call, GoTo, TypeOK, MonitorExclusive, InMonitor, WaitersQueued
  <2> QED
    BY <2>1, <2>2
<1>3. ASSUME NEW t \in Thread, Acquire(t)
      PROVE  Inv'
  <2>1. TypeOK' /\ CallsPlaced'
    BY <1>3 DEF Acquire, GoTo, TypeOK, CallsPlaced, PC
  <2>2. MonitorExclusive' /\ WaitersQueued'
    BY <1>3 DEF Acquire, GoTo, TypeOK, MonitorExclusive, InMonitor, WaitersQueued
  <2> QED
    BY <2>1, <2>2
<1>4. ASSUME NEW t \in Thread, AppendItem(t)
      PROVE  Inv'
  <2>1. /\ pc[t] = "locked" /\ op[t] = "append"
        /\ list' \in Seq(Item) /\ UNCHANGED <<op, item, got, calls>>
    BY <1>4, AppendProperties DEF AppendItem, TypeOK, CallsPlaced
  <2>2. CASE SignalFirst /\ lockHolder' = t /\ GoTo(t, "release") /\ UNCHANGED value
    <3>1. TypeOK' /\ CallsPlaced'
      BY <2>1, <2>2, SignalEffect DEF GoTo, TypeOK, CallsPlaced, PC
    <3>2. MonitorExclusive'
      BY <2>1, <2>2, SynchListAssumption DEF GoTo, TypeOK, MonitorExclusive, InMonitor
    <3>3. WaitersQueued'
      BY <2>1, <2>2, SignalEffect DEF GoTo, TypeOK, WaitersQueued
    <3> QED
      BY <3>1, <3>2, <3>3
  <2>3. CASE waitQueue = <<>> /\ Unlock /\ GoTo(t, "idle") /\ UNCHANGED <<waitQueue, waiter>>
    <3>1. TypeOK' /\ CallsPlaced'
      BY <2>1, <2>3 DEF GoTo, Unlock, TypeOK, CallsPlaced, PC
    <3>2. MonitorExclusive'
      BY <2>1, <2>3, SynchListAssumption DEF GoTo, Unlock, TypeOK, MonitorExclusive, InMonitor
    <3>3. WaitersQueued'
      BY <2>1, <2>3 DEF GoTo, TypeOK, WaitersQueued
    <3> QED
      BY <3>1, <3>2, <3>3
  <2> QED
    BY <1>4, <2>2, <2>3 DEF AppendItem
<1>5. ASSUME NEW t \in Thread, RemoveFront(t)
      PROVE  Inv'
  <2>1. list' \in Seq(Item) /\ Head(list) \in Item
    BY <1>5, HeadTailProperties DEF RemoveFront, TypeOK
  <2>2. TypeOK' /\ CallsPlaced'
    BY <1>5, <2>1 DEF RemoveFront, GoTo, Unlock, TypeOK, CallsPlaced, PC
  <2>3. MonitorExclusive' /\ WaitersQueued'
    BY <1>5, SynchListAssumption
    DEF RemoveFront, GoTo, Unlock, TypeOK, MonitorExclusive, InMonitor, WaitersQueued
  <2> QED
    BY <2>2, <2>3
<1>6. ASSUME NEW t \in Thread, Wait(t)
      PROVE  Inv'
  <2>1. t \notin Range(waitQueue)
    BY <1>6 DEF Wait, WaitersQueued
  <2>2. /\ waitQueue' \in Seq(Thread) /\ IsInjective(waitQueue')
        /\ \A u \in Thread : u \in Range(waitQueue') <=> u \in Range(waitQueue) \/ u = t
    BY <1>6, <2>1, AppendMembers DEF Wait, TypeOK, WaitersQueued
  <2>3. TypeOK' /\ CallsPlaced'
    BY <1>6, <2>2 DEF Wait, GoTo, Unlock, TypeOK, CallsPlaced, PC
  <2>4. MonitorExclusive'
    BY <1>6, SynchListAssumption DEF Wait, GoTo, Unlock, TypeOK, MonitorExclusive, InMonitor
  <2>5. \A u \in Thread : /\ pc'[u] = IF u = t THEN "sleep" ELSE pc[u]
                          /\ waiter'[u] = IF u = t THEN 0 ELSE waiter[u]
    BY <1>6 DEF Wait, GoTo, TypeOK
  <2>6. WaitersQueued'
    BY <2>2, <2>5 DEF WaitersQueued
  <2> QED
    BY <2>3, <2>4, <2>6
<1>7. ASSUME NEW t \in Thread, Wake(t)
      PROVE  Inv'
  <2>1. TypeOK' /\ CallsPlaced'
    BY <1>7 DEF Wake, GoTo, TypeOK, CallsPlaced, PC
  <2>2. MonitorExclusive' /\ WaitersQueued'
    BY <1>7 DEF Wake, GoTo, TypeOK, MonitorExclusive, InMonitor, WaitersQueued
  <2> QED
    BY <2>1, <2>2
<1>8. ASSUME NEW t \in Thread, Apply(t)
      PROVE  Inv'
  <2>1. TypeOK' /\ CallsPlaced'
    BY <1>8 DEF Apply, GoTo, TypeOK, CallsPlaced, PC
  <2>2. MonitorExclusive' /\ WaitersQueued'
    BY <1>8, SynchListAssumption DEF Apply, GoTo, TypeOK, MonitorExclusive, InMonitor, WaitersQueued
  <2> QED
    BY <2>1, <2>2
<1>9. ASSUME NEW t \in Thread, Release(t)
      PROVE  Inv'
  <2>1. TypeOK' /\ CallsPlaced'
    BY <1>9 DEF Release, GoTo, Unlock, TypeOK, CallsPlaced, PC
  <2>2. MonitorExclusive' /\ WaitersQueued'
    BY <1>9, SynchListAssumption
    DEF Release, GoTo, Unlock, TypeOK, MonitorExclusive, InMonitor, WaitersQueued
  <2> QED
    BY <2>1, <2>2
<1> QED
  <2>1. ASSUME NEW t \in Thread, NEW x \in Item, CallAppend(t, x)
        PROVE  Inv'
    BY <2>1, <1>2 DEF CallAppend, Op
  <2>2. ASSUME NEW t \in Thread, CallRemoveFront(t)
        PROVE  Inv'
    BY <2>2, <1>2 DEF CallRemoveFront, Op
  <2>3. ASSUME NEW t \in Thread, CallApply(t)
        PROVE  Inv'
    BY <2>3, <1>2 DEF CallApply, Op
  <2> QED
    BY <1>1, <1>3, <1>4, <1>5, <1>6, <1>7, <1>8, <1>9, <2>1, <2>2, <2>3 DEF Next, Step

LEMMA InvCorrect == Spec => []Inv
BY InvInit, InvNext, PTL DEF Spec

(***************************************************************************)
(* Lock, holder and the condition's queue match what the threads do.       *)
(***************************************************************************)
THEOREM MonitorSoundCorrect == Spec => []MonitorSound
<1>1. Inv => MonitorSound
  BY DEF Inv, MonitorSound
<1> QED
  BY <1>1, InvCorrect, PTL

(***************************************************************************)
(* One thread at a time is in the monitor, and the holder that the ASSERTs *)
(* of Lock and Condition read is that thread.                              *)
(***************************************************************************)
THEOREM MonitorCorrect == Spec => []MonitorExclusive
<1>1. Inv => MonitorExclusive
  BY DEF Inv
<1> QED
  BY <1>1, InvCorrect, PTL

(***************************************************************************)
(* The condition's queue holds exactly the threads that wait for a Signal. *)
(***************************************************************************)
THEOREM WaitersCorrect == Spec => []WaitersQueued
<1>1. Inv => WaitersQueued
  BY DEF Inv
<1> QED
  BY <1>1, InvCorrect, PTL

-----------------------------------------------------------------------------
(* No signal is lost *)

SignalInv == Inv /\ NoLostSignal

LEMMA AwakeFinite ==
  /\ IsFiniteSet(Awake) /\ Cardinality(Awake) \in Nat
  /\ IsFiniteSet(Awake') /\ Cardinality(Awake') \in Nat
<1>1. Awake \subseteq Thread /\ Awake' \subseteq Thread
  BY DEF Awake
<1> QED
  BY <1>1, FS_Subset, FS_CardinalityType, SynchListAssumption

\* A step that leaves the list and the queue alone, and nobody out.
LEMMA SignalFrame ==
  ASSUME NoLostSignal, TypeOK, UNCHANGED <<list, waitQueue>>, Awake \subseteq Awake'
  PROVE  NoLostSignal'
<1>1. Cardinality(Awake) <= Cardinality(Awake')
  BY AwakeFinite, FS_Subset
<1>2. Len(list) \in Nat
  BY LenProperties DEF TypeOK
<1> QED
  BY <1>1, <1>2, AwakeFinite DEF NoLostSignal

\* Append with a Signal: one item more, and one more thread on its way.
LEMMA SignalAppend ==
  ASSUME SignalInv, NEW t \in Thread, AppendItem(t)
  PROVE  NoLostSignal'
<1> USE DEF SignalInv, Inv
<1>1. pc[t] = "locked" /\ op[t] = "append" /\ item[t] \in Item
  BY DEF AppendItem, CallsPlaced
<1>2. CASE waitQueue = <<>> /\ UNCHANGED waitQueue
  BY <1>2 DEF NoLostSignal
<1>3. CASE SignalFirst /\ GoTo(t, "release")
  <2> DEFINE h == Head(waitQueue)
  <2>1. /\ h \in Thread /\ pc[h] = "sleep" /\ waiter[h] = 0 /\ op[h] = "remove"
        /\ \A u \in Thread : waiter'[u] = IF u = h THEN 1 ELSE waiter[u]
    BY <1>3, SignalEffect DEF CallsPlaced
  <2>2. /\ \A u \in Thread : pc'[u] = IF u = t THEN "release" ELSE pc[u]
        /\ op' = op
    BY <1>3 DEF AppendItem, GoTo, TypeOK
  <2>3. Len(list') = Len(list) + 1 /\ Len(list) \in Nat
    BY <1>1, AppendProperties, LenProperties DEF AppendItem, TypeOK
  <2>4. waitQueue # <<>>
    BY <1>3 DEF SignalFirst
  <2> HIDE DEF h
  <2>5. Awake' = Awake \cup {h} /\ h \notin Awake
    BY <1>1, <2>1, <2>2 DEF Awake
  <2>6. Cardinality(Awake') = Cardinality(Awake) + 1
    BY <2>5, AwakeFinite, FS_AddElement
  <2> QED
    BY <2>3, <2>4, <2>6, AwakeFinite DEF NoLostSignal
<1> QED
  BY <1>2, <1>3 DEF AppendItem

\* RemoveFront: one item less, and the thread that took it is done.
LEMMA SignalRemove ==
  ASSUME SignalInv, NEW t \in Thread, RemoveFront(t)
  PROVE  NoLostSignal'
<1> USE DEF SignalInv, Inv
<1>1. /\ pc[t] = "locked" /\ op[t] = "remove" /\ op' = op
      /\ waiter' = waiter /\ waitQueue' = waitQueue
      /\ \A u \in Thread : pc'[u] = IF u = t THEN "idle" ELSE pc[u]
  BY DEF RemoveFront, GoTo, TypeOK
<1>2. Len(list) \in Nat /\ Len(list') = Len(list) - 1
  BY HeadTailProperties, LenProperties DEF RemoveFront, TypeOK
<1>3. Awake' = Awake \ {t} /\ t \in Awake
  BY <1>1 DEF Awake
<1>4. Cardinality(Awake') = Cardinality(Awake) - 1
  BY <1>3, AwakeFinite, FS_RemoveElement
<1> QED
  BY <1>1, <1>2, <1>4, AwakeFinite DEF NoLostSignal

LEMMA SignalNext == SignalInv /\ [Next]_vars => SignalInv'
<1> SUFFICES ASSUME SignalInv, [Next]_vars
             PROVE  NoLostSignal'
  BY InvNext DEF SignalInv
<1> USE DEF SignalInv, Inv
<1>1. CASE UNCHANGED vars
  BY <1>1, SignalFrame DEF vars, Awake
<1>2. ASSUME NEW t \in Thread, NEW o \in Op, Call(t, o),
             UNCHANGED <<list, waitQueue, waiter>>
      PROVE  NoLostSignal'
  <2>1. /\ pc[t] = "idle"
        /\ \A u \in Thread \ {t} : pc'[u] = pc[u] /\ op'[u] = op[u]
    BY <1>2 DEF Call, GoTo, TypeOK
  <2>2. Awake \subseteq Awake'
    BY <1>2, <2>1 DEF Awake
  <2> QED
    BY <1>2, <2>2, SignalFrame
<1>3. ASSUME NEW t \in Thread, Acquire(t)
      PROVE  NoLostSignal'
  <2>1. Awake \subseteq Awake'
    BY <1>3 DEF Acquire, GoTo, Awake, TypeOK
  <2> QED
    BY <1>3, <2>1, SignalFrame DEF Acquire
<1>4. ASSUME NEW t \in Thread, Wait(t)
      PROVE  NoLostSignal'
  <2>1. list' = <<>>
    BY <1>4 DEF Wait
  <2> QED
    BY <2>1, AwakeFinite DEF NoLostSignal
<1>5. ASSUME NEW t \in Thread, Wake(t)
      PROVE  NoLostSignal'
  <2>1. Awake \subseteq Awake'
    BY <1>5 DEF Wake, GoTo, Awake, TypeOK
  <2> QED
    BY <1>5, <2>1, SignalFrame DEF Wake
<1>6. ASSUME NEW t \in Thread, Apply(t)
      PROVE  NoLostSignal'
  <2>1. Awake \subseteq Awake'
    BY <1>6 DEF Apply, GoTo, Awake, TypeOK
  <2> QED
    BY <1>6, <2>1, SignalFrame DEF Apply
<1>7. ASSUME NEW t \in Thread, Release(t)
      PROVE  NoLostSignal'
  <2>1. Awake \subseteq Awake'
    BY <1>7 DEF Release, GoTo, Awake, TypeOK
  <2> QED
    BY <1>7, <2>1, SignalFrame DEF Release
<1> QED
  BY <1>1, <1>2, <1>3, <1>4, <1>5, <1>6, <1>7, SignalAppend, SignalRemove
  DEF Next, Step, CallAppend, CallRemoveFront, CallApply, Op

(***************************************************************************)
(* While a thread waits for a Signal, every item on the list has a thread  *)
(* of its own that will come for it.                                       *)
(***************************************************************************)
THEOREM NoLostSignalCorrect == Spec => []NoLostSignal
<1>1. Init => SignalInv
  <2>1. Init => NoLostSignal
    BY DEF Init, NoLostSignal
  <2> QED
    BY <2>1, InvInit DEF SignalInv
<1>2. SignalInv => NoLostSignal
  BY DEF SignalInv
<1> QED
  BY <1>1, <1>2, SignalNext, PTL DEF Spec

-----------------------------------------------------------------------------
(* The monitor implements the list whose calls are single steps *)

LEMMA AbstractStep ==
  Inv /\ [Next]_vars => [Abstract!ListNext]_(Abstract!listVars)
<1> SUFFICES ASSUME Inv, [Next]_vars
             PROVE  Abstract!ListNext \/ UNCHANGED Abstract!listVars
  OBVIOUS
<1> USE DEF Inv
<1> DEFINE waiting == {t \in Thread : op[t] = "remove" /\ pc[t] # "idle"}
<1>1. CASE UNCHANGED vars
  BY <1>1 DEF vars, Abstract!listVars
<1>2. ASSUME NEW t \in Thread, NEW x \in Item, CallAppend(t, x)
      PROVE  UNCHANGED Abstract!listVars
  <2>1. waiting' = waiting
    BY <1>2 DEF CallAppend, Call, GoTo, TypeOK
  <2> QED
    BY <1>2, <2>1 DEF CallAppend, Abstract!listVars
<1>3. ASSUME NEW t \in Thread, CallApply(t)
      PROVE  UNCHANGED Abstract!listVars
  <2>1. waiting' = waiting
    BY <1>3 DEF CallApply, Call, GoTo, TypeOK
  <2> QED
    BY <1>3, <2>1 DEF CallApply, Abstract!listVars
<1>4. ASSUME NEW t \in Thread, CallRemoveFront(t)
      PROVE  Abstract!Ask(t)
  <2>1. waiting' = waiting \cup {t}
    BY <1>4 DEF CallRemoveFront, Call, GoTo, TypeOK
  <2> QED
    BY <1>4, <2>1 DEF CallRemoveFront, Abstract!Ask
<1>5. ASSUME NEW t \in Thread, AppendItem(t)
      PROVE  Abstract!Put(item[t]) /\ item[t] \in Item
  <2>1. waiting' = waiting
    BY <1>5 DEF AppendItem, GoTo, TypeOK
  <2> QED
    BY <1>5, <2>1 DEF AppendItem, CallsPlaced, Abstract!Put
<1>6. ASSUME NEW t \in Thread, RemoveFront(t)
      PROVE  Abstract!Take(t)
  <2>1. waiting' = waiting \ {t} /\ t \in waiting
    BY <1>6 DEF RemoveFront, GoTo, TypeOK
  <2> QED
    BY <1>6, <2>1 DEF RemoveFront, Abstract!Take
<1>7. ASSUME NEW t \in Thread, Acquire(t) \/ Wait(t) \/ Wake(t) \/ Apply(t) \/ Release(t)
      PROVE  UNCHANGED Abstract!listVars
  <2>1. waiting' = waiting
    BY <1>7 DEF Acquire, Wait, Wake, Apply, Release, GoTo, TypeOK, CallsPlaced
  <2> QED
    BY <1>7, <2>1 DEF Acquire, Wait, Wake, Apply, Release, Abstract!listVars
<1> QED
  BY <1>1, <1>2, <1>3, <1>4, <1>5, <1>6, <1>7 DEF Next, Step, Abstract!ListNext

(***************************************************************************)
(* Every step of the monitor is a step or a stutter of SharedList: the     *)
(* calls of any number of threads behave as if each were one step.         *)
(***************************************************************************)
THEOREM ListRefinement == Spec => ImplementsList
<1>1. Init => Abstract!ListInit
  BY DEF Init, Abstract!ListInit
<1>2. Inv /\ [Next]_vars => [Abstract!ListNext]_(Abstract!listVars)
  BY AbstractStep
<1> QED
  BY <1>1, <1>2, InvCorrect, PTL DEF Spec, ImplementsList, Abstract!ListSafety
=============================================================================
