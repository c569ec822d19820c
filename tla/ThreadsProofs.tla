--------------------------- MODULE ThreadsProofs ---------------------------
(***************************************************************************)
(* Theorems about Threads, for every set of threads and semaphores.        *)
(***************************************************************************)
EXTENDS Threads, FiniteSetTheorems, SequenceTheorems, TLAPS

-----------------------------------------------------------------------------
(* Queues without repetitions *)

\* What a queue holds after a new element was put at its end ...
LEMMA AppendMembers ==
  ASSUME NEW S, NEW q \in Seq(S), NEW e \in S,
         IsInjective(q), e \notin Range(q)
  PROVE  /\ Append(q, e) \in Seq(S)
         /\ IsInjective(Append(q, e))
         /\ \A x \in S : x \in Range(Append(q, e)) <=> x \in Range(q) \/ x = e
<1> DEFINE r == Append(q, e)
<1>1. /\ DOMAIN q = 1 .. Len(q) /\ DOMAIN r = 1 .. Len(q) + 1
      /\ Len(q) \in Nat /\ r \in Seq(S)
  BY AppendProperties, LenProperties
<1>2. /\ \A i \in 1 .. Len(q) : r[i] = q[i]
      /\ r[Len(q) + 1] = e
  BY AppendProperties
<1>3. \A i \in 1 .. Len(q) : q[i] # e
  BY <1>1 DEF Range
<1> HIDE DEF r
<1>4. IsInjective(r)
  <2> SUFFICES ASSUME NEW a \in 1 .. Len(q) + 1, NEW b \in 1 .. Len(q) + 1, r[a] = r[b]
               PROVE  a = b
    BY <1>1 DEF IsInjective
  <2>1. CASE a \in 1 .. Len(q) /\ b \in 1 .. Len(q)
    BY <1>1, <1>2, <2>1 DEF IsInjective
  <2>2. CASE a = Len(q) + 1 /\ b \in 1 .. Len(q)
    BY <1>2, <1>3, <2>2
  <2>3. CASE b = Len(q) + 1 /\ a \in 1 .. Len(q)
    BY <1>2, <1>3, <2>3
  <2> QED
    BY <1>1, <2>1, <2>2, <2>3
<1>5. ASSUME NEW x \in S
      PROVE  x \in Range(r) <=> x \in Range(q) \/ x = e
  <2>1. x \in Range(r) <=> \E i \in 1 .. Len(q) + 1 : x = r[i]
    BY <1>1 DEF Range
  <2>2. x \in Range(q) <=> \E i \in 1 .. Len(q) : x = q[i]
    BY <1>1 DEF Range
  <2> QED
    BY <1>1, <1>2, <2>1, <2>2
<1> QED
  BY <1>1, <1>4, <1>5 DEF r

\* ... and after its first one was taken off.
LEMMA TailMembers ==
  ASSUME NEW S, NEW q \in Seq(S), q # <<>>, IsInjective(q)
  PROVE  /\ Head(q) \in S /\ Head(q) \in Range(q)
         /\ Tail(q) \in Seq(S)
         /\ IsInjective(Tail(q))
         /\ \A x \in S : x \in Range(Tail(q)) <=> x \in Range(q) /\ x # Head(q)
<1> DEFINE r == Tail(q)
<1>1. /\ r \in Seq(S) /\ Head(q) \in S /\ Len(q) \in Nat \ {0}
      /\ DOMAIN q = 1 .. Len(q) /\ DOMAIN r = 1 .. Len(q) - 1
      /\ \A i \in 1 .. Len(q) - 1 : r[i] = q[i + 1]
  BY HeadTailProperties, LenProperties, EmptySeq
<1>2. Head(q) = q[1]
  OBVIOUS
<1> HIDE DEF r
<1>3. IsInjective(r)
  <2> SUFFICES ASSUME NEW a \in 1 .. Len(q) - 1, NEW b \in 1 .. Len(q) - 1, r[a] = r[b]
               PROVE  a = b
    BY <1>1 DEF IsInjective
  <2>1. a + 1 \in DOMAIN q /\ b + 1 \in DOMAIN q /\ q[a + 1] = q[b + 1]
    BY <1>1
  <2> QED
    BY <1>1, <2>1 DEF IsInjective
<1>4. ASSUME NEW x \in S
      PROVE  x \in Range(r) <=> x \in Range(q) /\ x # Head(q)
  <2>1. x \in Range(r) <=> \E i \in 1 .. Len(q) - 1 : x = q[i + 1]
    BY <1>1 DEF Range
  <2>2. x \in Range(q) <=> \E i \in 1 .. Len(q) : x = q[i]
    BY <1>1 DEF Range
  <2>3. \A i \in 1 .. Len(q) : i # 1 => q[i] # q[1]
    BY <1>1 DEF IsInjective
  <2>4. ASSUME x \in Range(r) PROVE x \in Range(q) /\ x # Head(q)
    <3>1. PICK i \in 1 .. Len(q) - 1 : x = q[i + 1]
      BY <2>1, <2>4
    <3> QED
      BY <1>1, <1>2, <2>2, <2>3, <3>1
  <2>5. ASSUME x \in Range(q), x # Head(q) PROVE x \in Range(r)
    <3>1. PICK i \in 1 .. Len(q) : x = q[i]
      BY <2>2, <2>5
    <3>2. i - 1 \in 1 .. Len(q) - 1 /\ x = q[(i - 1) + 1]
      BY <1>1, <1>2, <2>5, <3>1
    <3> QED
      BY <2>1, <3>2
  <2> QED
    BY <2>4, <2>5
<1>5. Head(q) \in Range(q)
  BY <1>1, <1>2 DEF Range
<1> QED
  BY <1>1, <1>3, <1>4, <1>5 DEF r

-----------------------------------------------------------------------------
(* Type correctness *)

\* A switch to the head of the ready list keeps the scheduler's types.
LEMMA RunType ==
  ASSUME TypeOK, readyList # <<>>,
         NEW self \in ThreadStatus, NEW rest \in Seq(Thread),
         NEW finishing \in BOOLEAN, Run(self, rest, finishing)
  PROVE  /\ status' \in [Thread -> ThreadStatus]
         /\ readyList' \in Seq(Thread)
         /\ currentThread' \in Thread
         /\ toBeDestroyed' \in Thread \cup {NoThread}
<1>1. Head(readyList) \in Thread
  BY HeadTailProperties DEF TypeOK
<1> QED
  BY <1>1 DEF TypeOK, Run, ThreadStatus

\* So does the body of Yield.
LEMMA YieldType ==
  ASSUME TypeOK, NEW p \in PC, YieldTo(p)
  PROVE  /\ status' \in [Thread -> ThreadStatus]
         /\ readyList' \in Seq(Thread)
         /\ currentThread' \in Thread
         /\ toBeDestroyed' \in Thread \cup {NoThread}
         /\ pc' \in [Thread -> PC]
<1> DEFINE rest == Append(Tail(readyList), currentThread)
<1>1. rest \in Seq(Thread)
  BY HeadTailProperties, AppendProperties DEF TypeOK, YieldTo
<1>2. Run("READY", rest, FALSE)
  BY DEF YieldTo
<1>3. pc' \in [Thread -> PC]
  BY DEF TypeOK, YieldTo, GoTo
<1> HIDE DEF rest
<1> QED
  BY <1>1, <1>2, <1>3, RunType DEF YieldTo, ThreadStatus

\* What a V does, by cases on the queue.
LEMMA SignalEffect ==
  ASSUME NEW s \in Sem, Signal(s)
  PROVE  /\ value' = [value EXCEPT ![s] = @ + 1]
         /\ UNCHANGED <<pc, sem, currentThread, toBeDestroyed, mstatus, oldStatus, ctx>>
         /\ queue[s] = <<>> => UNCHANGED <<queue, status, readyList>>
         /\ queue[s] # <<>> =>
              /\ queue' = [queue EXCEPT ![s] = Tail(@)]
              /\ status' = [status EXCEPT ![Head(queue[s])] = "READY"]
              /\ readyList' = Append(readyList, Head(queue[s]))
<1>1. CASE queue[s] = <<>>
  BY <1>1 DEF Signal, WakeAndAdd, modeVars
<1>2. CASE queue[s] # <<>>
  BY <1>2 DEF Signal, WakeAndAdd, modeVars
<1> QED
  BY <1>1, <1>2

\* A V, whoever calls it, keeps the types.
LEMMA SignalType ==
  ASSUME TypeOK, NEW s \in Sem, Signal(s)
  PROVE  TypeOK'
<1>1. value' = [value EXCEPT ![s] = @ + 1]
  BY SignalEffect
<1>2. UNCHANGED <<pc, sem, currentThread, toBeDestroyed, mstatus, oldStatus, ctx>>
  BY SignalEffect
<1>3. CASE queue[s] = <<>>
  <2>1. UNCHANGED <<queue, status, readyList>>
    BY <1>3, SignalEffect
  <2> QED
    BY <1>1, <1>2, <2>1 DEF TypeOK
<1>4. CASE queue[s] # <<>>
  <2>1. Head(queue[s]) \in Thread /\ Tail(queue[s]) \in Seq(Thread)
    BY <1>4, HeadTailProperties DEF TypeOK
  <2>2. /\ queue' = [queue EXCEPT ![s] = Tail(@)]
        /\ status' = [status EXCEPT ![Head(queue[s])] = "READY"]
        /\ readyList' = Append(readyList, Head(queue[s]))
    BY <1>4, SignalEffect
  <2>3. readyList' \in Seq(Thread)
    BY <2>1, <2>2, AppendProperties DEF TypeOK
  <2> QED
    BY <1>1, <1>2, <2>1, <2>2, <2>3 DEF TypeOK, ThreadStatus
<1> QED
  BY <1>3, <1>4

LEMMA TypeInit == Init => TypeOK
  BY ThreadsAssumption DEF Init, TypeOK, ThreadStatus, PC, MachineStatus

LEMMA TypeNext == TypeOK /\ [Next]_vars => TypeOK'
<1> SUFFICES ASSUME TypeOK, [Next]_vars
             PROVE  TypeOK'
  OBVIOUS
<1> USE DEF schedVars, semVars, modeVars
<1>1. CASE SwitchIn
  BY <1>1 DEF TypeOK, SwitchIn, GoTo, PC, ThreadStatus
<1>2. CASE Dispatch
  <2>1. /\ status[currentThread] \in ThreadStatus
        /\ Tail(readyList) \in Seq(Thread)
        /\ At("finish") \in BOOLEAN
    BY <1>2, HeadTailProperties DEF TypeOK, Dispatch, At
  <2>2. /\ readyList # <<>>
        /\ Run(status[currentThread], Tail(readyList), At("finish"))
        /\ UNCHANGED <<pc, sem, value, queue, mstatus, oldStatus, ctx>>
    BY <1>2 DEF Dispatch
  <2>3. /\ status' \in [Thread -> ThreadStatus]
        /\ readyList' \in Seq(Thread)
        /\ currentThread' \in Thread
        /\ toBeDestroyed' \in Thread \cup {NoThread}
    BY <2>1, <2>2, RunType, Zenon
  <2> QED
    BY <2>2, <2>3 DEF TypeOK
<1>3. CASE Yield
  BY <1>3, YieldType DEF TypeOK, Yield, PC
<1>4. CASE Finish
  BY <1>4 DEF TypeOK, Finish, GoTo, PC, ThreadStatus
<1>5. CASE PTest
  <2> DEFINE s == sem[currentThread]
  <2>1. CASE /\ value[s] = 0
             /\ queue' = [queue EXCEPT ![s] = Append(@, currentThread)]
             /\ status' = [status EXCEPT ![currentThread] = "BLOCKED"]
             /\ GoTo("sleep")
             /\ UNCHANGED <<value, sem>>
    <3>1. \A r \in Sem : Append(queue[r], currentThread) \in Seq(Thread)
      BY AppendProperties DEF TypeOK
    <3> QED
      BY <1>5, <2>1, <3>1 DEF TypeOK, PTest, GoTo, PC, ThreadStatus
  <2>2. CASE /\ value[s] # 0
             /\ value' = [value EXCEPT ![s] = @ - 1]
             /\ GoTo("kernel")
             /\ sem' = [sem EXCEPT ![currentThread] = NoSem]
             /\ UNCHANGED <<queue, status>>
    <3>1. value' \in [Sem -> Nat]
      <4> HIDE DEF s
      <4>1. \A r \in Sem : value[r] # 0 => value[r] - 1 \in Nat
        BY DEF TypeOK
      <4> QED
        BY <2>2, <4>1 DEF TypeOK
    <3>2. pc' \in [Thread -> PC] /\ sem' \in [Thread -> Sem \cup {NoSem}]
      BY <2>2 DEF TypeOK, GoTo, PC
    <3> QED
      BY <1>5, <2>2, <3>1, <3>2 DEF TypeOK, PTest
  <2> QED
    BY <1>5, <2>1, <2>2 DEF PTest
<1>6. CASE EnterUser \/ Trap \/ IdleStart \/ IdleEnd
  BY <1>6 DEF TypeOK, EnterUser, Trap, IdleStart, IdleEnd, GoTo, PC, MachineStatus
<1>7. CASE TimerTick
  <2>1. pc[currentThread] \in {"user", "kernel", "tick"}
    BY <1>7 DEF TimerTick, IntsEnabled
  <2>2. /\ oldStatus' \in [Thread -> MachineStatus]
        /\ ctx' \in [Thread -> {"user", "kernel"}]
    BY <1>7, <2>1 DEF TypeOK, TimerTick, At
  <2> QED
    BY <1>7, <2>2, YieldType DEF TypeOK, TimerTick, PC, MachineStatus
<1>8. CASE TickReturn
  BY <1>8 DEF TypeOK, TickReturn, GoTo, PC
<1>9. CASE \E u \in Thread : Construct(u) \/ Fork(u)
  <2>1. \A u \in Thread : Append(readyList, u) \in Seq(Thread)
    BY AppendProperties DEF TypeOK
  <2> QED
    <3>1. PICK u \in Thread : Construct(u) \/ Fork(u)
      BY <1>9
    <3>2. CASE Construct(u)
      BY <3>2 DEF TypeOK, Construct, ThreadStatus
    <3>3. CASE Fork(u)
      BY <2>1, <3>3 DEF TypeOK, Fork, PC, ThreadStatus
    <3> QED
      BY <3>1, <3>2, <3>3
<1>10. CASE \E s \in Sem : PStart(s)
  BY <1>10 DEF TypeOK, PStart, GoTo, PC
<1>11. CASE \E s \in Sem : V(s) \/ DeviceTick(s) \/ IdleInterrupt(s)
  BY <1>11, SignalType DEF V, DeviceTick, IdleInterrupt
<1>12. CASE UNCHANGED vars
  BY <1>12 DEF TypeOK, vars
<1> QED
  BY <1>1, <1>2, <1>3, <1>4, <1>5, <1>6, <1>7, <1>8, <1>9, <1>10, <1>11, <1>12
  DEF Next

\* Every variable keeps its type, for any number of threads and semaphores.
THEOREM TypeCorrect == Spec => []TypeOK
  BY TypeInit, TypeNext, PTL DEF Spec

-----------------------------------------------------------------------------
(* The scheduler's and the semaphores' state *)

\* Consistent is inductive: each conjunct needs the others.  Where a thread
\* stands (pc) says which list it must be in, and what the lists hold says where
\* it resumes.
LEMMA ConsistentInit == Init => Consistent
<1> SUFFICES ASSUME Init PROVE Consistent
  OBVIOUS
<1>1. TypeOK
  BY TypeInit
<1>2. Placement
  <2>1. Range(<<>>) = {} /\ IsInjective(<<>>)
    BY DEF Range, IsInjective
  <2> QED
    BY <2>1, ThreadsAssumption DEF Init, Placement
<1>3. OneRunning
  BY ThreadsAssumption DEF Init, OneRunning, InSleepLoop
<1>4. CarcassCollected
  BY ThreadsAssumption DEF Init, CarcassCollected, JustSwitched, At, InSleepLoop
<1>5. ModeRestored
  BY ThreadsAssumption DEF Init, ModeRestored, ModeOf
<1> QED
  BY <1>1, <1>2, <1>3, <1>4, <1>5 DEF Consistent

\* A thread that calls an operation is running, and nothing is to be deleted.
LEMMA CallerRuns ==
  ASSUME Consistent, ~(pc[currentThread] \in {"begin", "sleep", "finish", "yield", "tickYield"})
  PROVE  /\ status[currentThread] = "RUNNING"
         /\ toBeDestroyed = NoThread
         /\ mstatus = ModeOf(pc[currentThread])
  BY DEF Consistent, TypeOK, OneRunning, CarcassCollected, ModeRestored, JustSwitched, InSleepLoop

\* The lists do not change, and neither does whom they should hold.
LEMMA PlacementFrame ==
  ASSUME Consistent, UNCHANGED <<readyList, queue>>,
         \A t \in Thread : /\ status'[t] = "READY" <=> status[t] = "READY"
                           /\ status'[t] = "BLOCKED" /\ pc'[t] = "sleep" <=>
                                status[t] = "BLOCKED" /\ pc[t] = "sleep"
                           /\ status[t] = "BLOCKED" => sem'[t] = sem[t]
  PROVE  Placement'
  BY DEF Consistent, Placement

LEMMA ConsistentLocal ==
  ASSUME Consistent, Finish \/ EnterUser \/ Trap \/ TickReturn \/ IdleStart \/ IdleEnd
                     \/ \E s \in Sem : PStart(s)
  PROVE  Consistent'
<1> USE DEF schedVars, semVars, modeVars, At, GoTo
<1>0. TypeOK'
  BY TypeNext DEF Consistent, Next
<1>1. CASE Finish
  <2>1. /\ status[currentThread] = "RUNNING"
        /\ toBeDestroyed = NoThread
        /\ mstatus = "SystemMode"
    BY <1>1, CallerRuns DEF Finish, ModeOf
  <2>2. Placement'
    BY <1>1, <2>1, PlacementFrame DEF Consistent, TypeOK, Finish
  <2>3. OneRunning'
    BY <1>1, <2>1 DEF Consistent, TypeOK, Finish, OneRunning, InSleepLoop
  <2>4. CarcassCollected'
    BY <1>1, <2>1, ThreadsAssumption DEF Consistent, TypeOK, Finish, CarcassCollected, InSleepLoop, JustSwitched
  <2>5. ModeRestored'
    BY <1>1, <2>1 DEF Consistent, TypeOK, Finish, ModeRestored, ModeOf
  <2> QED
    BY <1>0, <2>2, <2>3, <2>4, <2>5 DEF Consistent
<1>2. CASE EnterUser \/ Trap
  <2>1. /\ status[currentThread] = "RUNNING"
        /\ toBeDestroyed = NoThread
        /\ mstatus = ModeOf(pc[currentThread])
    BY <1>2, CallerRuns DEF EnterUser, Trap
  <2>2. Placement'
    BY <1>2, <2>1, PlacementFrame DEF Consistent, TypeOK, EnterUser, Trap
  <2>3. OneRunning'
    BY <1>2, <2>1 DEF Consistent, TypeOK, EnterUser, Trap, OneRunning, InSleepLoop
  <2>4. CarcassCollected'
    BY <1>2, <2>1, ThreadsAssumption DEF Consistent, TypeOK, EnterUser, Trap, CarcassCollected, InSleepLoop, JustSwitched
  <2>5. ModeRestored'
    BY <1>2, <2>1 DEF Consistent, TypeOK, EnterUser, Trap, ModeRestored, ModeOf, InSleepLoop
  <2> QED
    BY <1>0, <2>2, <2>3, <2>4, <2>5 DEF Consistent
<1>3. CASE TickReturn
  <2>1. /\ status[currentThread] = "RUNNING"
        /\ toBeDestroyed = NoThread
        /\ mstatus = ModeOf(pc[currentThread])
    BY <1>3, CallerRuns DEF TickReturn
  <2>2. /\ ctx[currentThread] \in {"user", "kernel"}
        /\ oldStatus[currentThread] = ModeOf(ctx[currentThread])
    BY <1>3 DEF Consistent, TypeOK, TickReturn, ModeRestored
  <2>3. Placement'
    BY <1>3, <2>1, <2>2, PlacementFrame DEF Consistent, TypeOK, TickReturn
  <2>4. OneRunning'
    BY <1>3, <2>1, <2>2 DEF Consistent, TypeOK, TickReturn, OneRunning, InSleepLoop
  <2>5. CarcassCollected'
    BY <1>3, <2>1, <2>2, ThreadsAssumption DEF Consistent, TypeOK, TickReturn, CarcassCollected, InSleepLoop, JustSwitched
  <2>6. ModeRestored'
    BY <1>3, <2>1, <2>2 DEF Consistent, TypeOK, TickReturn, ModeRestored, ModeOf, InSleepLoop
  <2> QED
    BY <1>0, <2>3, <2>4, <2>5, <2>6 DEF Consistent
<1>4. CASE IdleStart \/ IdleEnd
  <2>1. InSleepLoop
    BY <1>4 DEF Consistent, IdleStart, IdleEnd, ModeRestored, ModeOf
  <2>2. Placement'
    BY <1>4, PlacementFrame DEF IdleStart, IdleEnd
  <2>3. OneRunning' /\ CarcassCollected'
    BY <1>4 DEF Consistent, IdleStart, IdleEnd, OneRunning, CarcassCollected, InSleepLoop, JustSwitched
  <2>4. pc[currentThread] # "user"
    BY <2>1 DEF Consistent, OneRunning
  <2>5. ModeRestored'
    BY <1>4, <2>1, <2>4 DEF Consistent, IdleStart, IdleEnd, ModeRestored, ModeOf, InSleepLoop
  <2> QED
    BY <1>0, <2>2, <2>3, <2>5 DEF Consistent
<1>5. CASE \E s \in Sem : PStart(s)
  <2>0. PICK s \in Sem : PStart(s)
    BY <1>5
  <2>1. /\ status[currentThread] = "RUNNING"
        /\ toBeDestroyed = NoThread
        /\ mstatus = ModeOf(pc[currentThread])
    BY <2>0, CallerRuns DEF PStart
  <2>2. Placement'
    BY <2>0, <2>1, PlacementFrame DEF Consistent, TypeOK, PStart
  <2>3. OneRunning'
    BY <2>0, <2>1 DEF Consistent, TypeOK, PStart, OneRunning, InSleepLoop
  <2>4. CarcassCollected'
    BY <2>0, <2>1, ThreadsAssumption DEF Consistent, TypeOK, PStart, CarcassCollected, InSleepLoop, JustSwitched
  <2>5. ModeRestored'
    BY <2>0, <2>1 DEF Consistent, TypeOK, PStart, ModeRestored, ModeOf
  <2> QED
    BY <1>0, <2>2, <2>3, <2>4, <2>5 DEF Consistent
<1> QED
  BY <1>1, <1>2, <1>3, <1>4, <1>5

LEMMA ConsistentSwitchIn ==
  ASSUME Consistent, SwitchIn
  PROVE  Consistent'
<1> USE DEF semVars, At, GoTo
<1>0. TypeOK'
  BY TypeNext DEF Consistent, Next
<1>1. /\ toBeDestroyed # NoThread =>
           /\ toBeDestroyed \in Thread
           /\ status[toBeDestroyed] = "BLOCKED"
           /\ pc[toBeDestroyed] = "finish"
           /\ toBeDestroyed # currentThread
      /\ status[currentThread] = "RUNNING"
  BY DEF SwitchIn, JustSwitched, Consistent, TypeOK, CarcassCollected
<1>2. \A t \in Thread : status'[t] = IF t = toBeDestroyed THEN "ABSENT" ELSE status[t]
  BY <1>1, ThreadsAssumption DEF SwitchIn, Consistent, TypeOK
<1>3. PICK p \in {"kernel", "test", "tick"} :
        /\ pc' = [pc EXCEPT ![currentThread] = p]
        /\ p = "tick" => pc[currentThread] = "tickYield"
  BY DEF SwitchIn
<1>4. Placement'
  BY <1>1, <1>2, <1>3, PlacementFrame DEF Consistent, TypeOK, SwitchIn
<1>5. OneRunning'
  BY <1>1, <1>2, <1>3 DEF Consistent, TypeOK, SwitchIn, OneRunning, InSleepLoop
<1>6. CarcassCollected'
  BY <1>1, <1>2, <1>3, ThreadsAssumption
  DEF Consistent, TypeOK, SwitchIn, CarcassCollected, InSleepLoop
<1>7. ModeRestored'
  BY <1>1, <1>2, <1>3 DEF Consistent, TypeOK, SwitchIn, JustSwitched, ModeRestored, ModeOf, InSleepLoop
<1> QED
  BY <1>0, <1>4, <1>5, <1>6, <1>7 DEF Consistent

LEMMA ConsistentNewThread ==
  ASSUME Consistent, NEW u \in Thread, Construct(u) \/ Fork(u)
  PROVE  Consistent'
<1> USE DEF semVars, modeVars, At
<1>0. TypeOK'
  BY TypeNext DEF Consistent, Next
<1>1. /\ status[currentThread] = "RUNNING"
      /\ toBeDestroyed = NoThread
      /\ mstatus = ModeOf(pc[currentThread])
      /\ u # currentThread
  BY CallerRuns DEF Construct, Fork
<1>2. CASE Construct(u)
  <2>1. Placement'
    BY <1>1, <1>2, PlacementFrame DEF Consistent, TypeOK, Construct
  <2>2. OneRunning'
    BY <1>1, <1>2 DEF Consistent, TypeOK, Construct, OneRunning, InSleepLoop
  <2>3. CarcassCollected'
    BY <1>1, <1>2, ThreadsAssumption DEF Consistent, TypeOK, Construct, CarcassCollected, InSleepLoop
  <2>4. ModeRestored'
    BY <1>1, <1>2 DEF Consistent, TypeOK, Construct, ModeRestored, InSleepLoop
  <2> QED
    BY <1>0, <2>1, <2>2, <2>3, <2>4 DEF Consistent
<1>3. CASE Fork(u)
  <2>1. /\ IsInjective(readyList')
        /\ \A t \in Thread : t \in Range(readyList') <=> t \in Range(readyList) \/ t = u
    BY <1>3, AppendMembers DEF Consistent, TypeOK, Placement, Fork
  <2>2. Placement'
    BY <1>1, <1>3, <2>1 DEF Consistent, TypeOK, Placement, Fork
  <2>3. OneRunning'
    BY <1>1, <1>3 DEF Consistent, TypeOK, Fork, OneRunning, InSleepLoop
  <2>4. CarcassCollected'
    BY <1>1, <1>3, ThreadsAssumption DEF Consistent, TypeOK, Fork, CarcassCollected, InSleepLoop
  <2>5. ModeRestored'
    BY <1>1, <1>3 DEF Consistent, TypeOK, Fork, ModeRestored, InSleepLoop, ModeOf
  <2> QED
    BY <1>0, <2>2, <2>3, <2>4, <2>5 DEF Consistent
<1> QED
  BY <1>2, <1>3

LEMMA ConsistentPTest ==
  ASSUME Consistent, PTest
  PROVE  Consistent'
<1> USE DEF modeVars, At, GoTo
<1> DEFINE s == sem[currentThread]
<1>0. TypeOK'
  BY TypeNext DEF Consistent, Next
<1>1. /\ status[currentThread] = "RUNNING"
      /\ toBeDestroyed = NoThread
      /\ mstatus = "SystemMode"
      /\ pc[currentThread] = "test"
  BY CallerRuns DEF PTest, ModeOf
<1>2. CASE value[s] = 0 /\ GoTo("sleep")
  <2>1. /\ queue' = [queue EXCEPT ![s] = Append(@, currentThread)]
        /\ status' = [status EXCEPT ![currentThread] = "BLOCKED"]
        /\ pc' = [pc EXCEPT ![currentThread] = "sleep"]
        /\ UNCHANGED <<sem, readyList, currentThread, toBeDestroyed, mstatus, oldStatus, ctx>>
    BY <1>2 DEF PTest
  <2>2. ASSUME NEW r \in Sem
        PROVE  /\ IsInjective(queue'[r])
               /\ \A t \in Thread : t \in Range(queue'[r]) <=>
                    t \in Range(queue[r]) \/ (r = s /\ t = currentThread)
    <3>1. currentThread \notin Range(queue[r])
      BY <1>1 DEF Consistent, TypeOK, Placement
    <3>2. CASE r = s
      <4>1. queue'[r] = Append(queue[r], currentThread)
        BY <2>1, <3>2 DEF Consistent, TypeOK
      <4> QED
        BY <3>1, <3>2, <4>1, AppendMembers DEF Consistent, TypeOK, Placement
    <3>3. CASE r # s
      BY <2>1, <3>3 DEF Consistent, TypeOK, Placement
    <3> QED
      BY <3>2, <3>3
  <2>3. Placement'
    BY <1>1, <2>1, <2>2 DEF Consistent, TypeOK, Placement
  <2>4. OneRunning'
    BY <1>1, <2>1 DEF Consistent, TypeOK, OneRunning, InSleepLoop
  <2>5. CarcassCollected'
    BY <1>1, <2>1, ThreadsAssumption DEF Consistent, TypeOK, CarcassCollected, InSleepLoop
  <2>6. ModeRestored'
    BY <1>1, <2>1 DEF Consistent, TypeOK, ModeRestored, InSleepLoop, ModeOf
  <2> QED
    BY <1>0, <2>3, <2>4, <2>5, <2>6 DEF Consistent
<1>3. CASE value[s] # 0 /\ GoTo("kernel")
  <2>1. /\ pc' = [pc EXCEPT ![currentThread] = "kernel"]
        /\ sem' = [sem EXCEPT ![currentThread] = NoSem]
        /\ UNCHANGED <<status, queue, readyList, currentThread, toBeDestroyed, mstatus, oldStatus, ctx>>
    BY <1>3 DEF PTest
  <2>2. Placement'
    BY <1>1, <2>1, PlacementFrame DEF Consistent, TypeOK
  <2>3. OneRunning'
    BY <1>1, <2>1 DEF Consistent, TypeOK, OneRunning, InSleepLoop
  <2>4. CarcassCollected'
    BY <1>1, <2>1, ThreadsAssumption DEF Consistent, TypeOK, CarcassCollected, InSleepLoop
  <2>5. ModeRestored'
    BY <1>1, <2>1 DEF Consistent, TypeOK, ModeRestored, InSleepLoop, ModeOf
  <2> QED
    BY <1>0, <2>2, <2>3, <2>4, <2>5 DEF Consistent
<1> QED
  BY <1>2, <1>3 DEF PTest

LEMMA ConsistentSignal ==
  ASSUME Consistent, NEW s \in Sem, Signal(s)
  PROVE  Consistent'
<1>0. TypeOK'
  BY SignalType DEF Consistent
<1>1. UNCHANGED <<pc, sem, currentThread, toBeDestroyed, mstatus, oldStatus, ctx>>
  BY SignalEffect
<1>2. CASE queue[s] = <<>>
  <2>1. UNCHANGED <<queue, status, readyList>>
    BY <1>2, SignalEffect
  <2> QED
    BY <1>0, <1>1, <2>1
    DEF Consistent, Placement, OneRunning, CarcassCollected, ModeRestored, InSleepLoop, JustSwitched, At
<1>3. CASE queue[s] # <<>>
  <2> DEFINE w == Head(queue[s])
  <2>1. /\ queue' = [queue EXCEPT ![s] = Tail(@)]
        /\ status' = [status EXCEPT ![w] = "READY"]
        /\ readyList' = Append(readyList, w)
    BY <1>3, SignalEffect
  <2>2. /\ w \in Thread /\ w \in Range(queue[s])
        /\ IsInjective(Tail(queue[s]))
        /\ \A t \in Thread : t \in Range(Tail(queue[s])) <=> t \in Range(queue[s]) /\ t # w
    BY <1>3, TailMembers DEF Consistent, TypeOK, Placement
  <2>3. status[w] = "BLOCKED" /\ pc[w] = "sleep" /\ sem[w] = s
    BY <2>2 DEF Consistent, Placement
  <2> HIDE DEF w
  <2>4. /\ IsInjective(readyList')
        /\ \A t \in Thread : t \in Range(readyList') <=> t \in Range(readyList) \/ t = w
    BY <2>1, <2>2, <2>3, AppendMembers DEF Consistent, TypeOK, Placement
  <2>5. \A r \in Sem : /\ queue'[r] = IF r = s THEN Tail(queue[s]) ELSE queue[r]
                       /\ \A t \in Thread : t \in Range(queue'[r]) <=> t \in Range(queue[r]) /\ t # w
    BY <2>1, <2>2, <2>3 DEF Consistent, TypeOK, Placement
  <2>6. \A t \in Thread : status'[t] = IF t = w THEN "READY" ELSE status[t]
    BY <2>1 DEF Consistent, TypeOK
  <2>7. Placement'
    BY <1>1, <2>2, <2>3, <2>4, <2>5, <2>6 DEF Consistent, Placement
  <2>8. OneRunning'
    BY <1>1, <2>2, <2>3, <2>6 DEF Consistent, TypeOK, OneRunning, InSleepLoop
  <2>9. CarcassCollected'
    BY <1>1, <2>2, <2>3, <2>6 DEF Consistent, TypeOK, OneRunning, CarcassCollected, InSleepLoop, JustSwitched, At
  <2>10. ModeRestored'
    BY <1>1, <2>2, <2>3, <2>6 DEF Consistent, TypeOK, ModeRestored, InSleepLoop
  <2> QED
    BY <1>0, <2>7, <2>8, <2>9, <2>10 DEF Consistent
<1> QED
  BY <1>2, <1>3

\* The thread taken off the ready list can be resumed.
LEMMA HeadOfReadyList ==
  ASSUME Consistent, readyList # <<>>
  PROVE  LET next == Head(readyList) IN
         /\ next \in Thread
         /\ status[next] = "READY"
         /\ pc[next] \in {"begin", "sleep", "yield", "tickYield"}
         /\ Tail(readyList) \in Seq(Thread)
         /\ IsInjective(Tail(readyList))
         /\ \A t \in Thread : t \in Range(Tail(readyList)) <=>
              t \in Range(readyList) /\ t # next
<1>1. readyList \in Seq(Thread) /\ IsInjective(readyList)
  BY DEF Consistent, TypeOK, Placement
<1>2. Head(readyList) \in Thread /\ Head(readyList) \in Range(readyList)
  BY <1>1, TailMembers
<1> QED
  BY <1>1, <1>2, TailMembers DEF Consistent, Placement, OneRunning

LEMMA ConsistentDispatch ==
  ASSUME Consistent, Dispatch
  PROVE  Consistent'
<1> USE DEF semVars, modeVars, At
<1> DEFINE next == Head(readyList)
<1>0. TypeOK'
  BY TypeNext DEF Consistent, Next
<1>1. /\ next \in Thread
      /\ status[next] = "READY"
      /\ pc[next] \in {"begin", "sleep", "yield", "tickYield"}
      /\ IsInjective(Tail(readyList))
      /\ \A t \in Thread : t \in Range(Tail(readyList)) <=> t \in Range(readyList) /\ t # next
  BY HeadOfReadyList DEF Dispatch
<1>2. /\ readyList' = Tail(readyList)
      /\ currentThread' = next
      /\ toBeDestroyed' = IF pc[currentThread] = "finish" THEN currentThread ELSE toBeDestroyed
      /\ status' = [status EXCEPT ![currentThread] = status[currentThread], ![next] = "RUNNING"]
      /\ UNCHANGED <<pc, sem, value, queue, mstatus, oldStatus, ctx>>
      /\ InSleepLoop
      /\ mstatus # "IdleMode"
  BY DEF Dispatch, Run
<1> HIDE DEF next
<1>3. \A t \in Thread : status'[t] = IF t = next THEN "RUNNING" ELSE status[t]
  BY <1>1, <1>2 DEF Consistent, TypeOK
<1>4. toBeDestroyed = NoThread /\ pc[currentThread] \in {"sleep", "finish"}
  BY <1>2 DEF Consistent, CarcassCollected, OneRunning, JustSwitched, InSleepLoop
<1>5. Placement'
  <2>1. /\ IsInjective(readyList')
        /\ \A t \in Thread : t \in Range(readyList') <=> status'[t] = "READY"
    <3>1. readyList' = Tail(readyList)
      BY <1>2
    <3>2. \A t \in Thread : t \in Range(readyList) <=> status[t] = "READY"
      BY DEF Consistent, Placement
    <3>3. \A t \in Thread : t \in Range(Tail(readyList)) <=> status'[t] = "READY"
      BY <1>1, <1>3, <3>2
    <3> QED
      BY <1>1, <3>1, <3>3
  <2>2. \A t \in Thread : status'[t] = "BLOCKED" <=> status[t] = "BLOCKED"
    BY <1>1, <1>3
  <2> QED
    BY <1>2, <2>1, <2>2 DEF Consistent, Placement
<1>6. OneRunning'
  BY <1>1, <1>2, <1>3 DEF Consistent, TypeOK, OneRunning, InSleepLoop
<1>7. CarcassCollected'
  <2>1. \A t \in Thread : status'[t] = "BLOCKED" /\ pc'[t] = "finish" <=>
                          status[t] = "BLOCKED" /\ pc[t] = "finish"
    BY <1>1, <1>2, <1>3
  <2>2. pc[currentThread] = "finish" => status[currentThread] = "BLOCKED" /\ currentThread # next
    BY <1>1, <1>2 DEF Consistent, OneRunning, TypeOK, InSleepLoop
  <2>3. JustSwitched' /\ pc'[currentThread'] # "finish"
    BY <1>1, <1>2, <1>3 DEF JustSwitched
  <2> QED
    BY <1>1, <1>2, <1>4, <2>1, <2>2, <2>3, ThreadsAssumption
    DEF Consistent, TypeOK, CarcassCollected
<1>8. ModeRestored'
  BY <1>1, <1>2, <1>3, <1>4 DEF Consistent, TypeOK, ModeRestored, ModeOf, InSleepLoop
<1> QED
  BY <1>0, <1>5, <1>6, <1>7, <1>8 DEF Consistent

\* A Yield, called by the thread or by OneTick on its behalf.
LEMMA ConsistentYield ==
  ASSUME Consistent, Yield \/ TimerTick
  PROVE  Consistent'
<1> USE DEF semVars, modeVars, At, GoTo
<1> DEFINE next == Head(readyList)
<1> DEFINE me == currentThread
<1>0. TypeOK'
  BY TypeNext DEF Consistent, Next
<1>1. /\ next \in Thread
      /\ status[next] = "READY"
      /\ pc[next] \in {"begin", "sleep", "yield", "tickYield"}
      /\ Tail(readyList) \in Seq(Thread)
      /\ IsInjective(Tail(readyList))
      /\ \A t \in Thread : t \in Range(Tail(readyList)) <=> t \in Range(readyList) /\ t # next
  BY HeadOfReadyList DEF Yield, TimerTick, YieldTo
<1>2. /\ status[me] = "RUNNING"
      /\ toBeDestroyed = NoThread
      /\ mstatus = ModeOf(pc[me])
      /\ me \in Thread
      /\ pc[me] \in {"user", "kernel", "tick"}
  BY CallerRuns DEF Yield, TimerTick, IntsEnabled, Consistent, TypeOK
<1>3. PICK p \in {"yield", "tickYield"} :
        /\ readyList' = Append(Tail(readyList), me)
        /\ currentThread' = next
        /\ toBeDestroyed' = toBeDestroyed
        /\ status' = [status EXCEPT ![me] = "READY", ![next] = "RUNNING"]
        /\ pc' = [pc EXCEPT ![me] = p]
        /\ UNCHANGED <<sem, value, queue>>
        /\ p = "yield" => Yield
        /\ p = "tickYield" => TimerTick
  BY DEF Yield, TimerTick, YieldTo, Run
<1> HIDE DEF next, me
<1>4. next # me
  BY <1>1, <1>2
<1>5. \A t \in Thread :
        /\ status'[t] = IF t = next THEN "RUNNING" ELSE IF t = me THEN "READY" ELSE status[t]
        /\ pc'[t] = IF t = me THEN p ELSE pc[t]
  BY <1>1, <1>2, <1>3, <1>4 DEF Consistent, TypeOK
<1>6. Placement'
  <2>1. me \notin Range(Tail(readyList))
    BY <1>1, <1>2 DEF Consistent, Placement
  <2>2. /\ IsInjective(readyList')
        /\ \A t \in Thread : t \in Range(readyList') <=> t \in Range(Tail(readyList)) \/ t = me
    BY <1>1, <1>2, <1>3, <2>1, AppendMembers
  <2>3. \A t \in Thread : t \in Range(readyList') <=> status'[t] = "READY"
    BY <1>1, <1>2, <1>4, <1>5, <2>2 DEF Consistent, Placement
  <2>4. \A t \in Thread : status'[t] = "BLOCKED" /\ pc'[t] = "sleep" <=>
                          status[t] = "BLOCKED" /\ pc[t] = "sleep"
    BY <1>1, <1>2, <1>5
  <2> QED
    BY <1>3, <2>2, <2>3, <2>4 DEF Consistent, Placement
<1>7. OneRunning'
  <2>1. \A t \in Thread :
          /\ status[t] = "RUNNING" => t = me
          /\ status[t] = "READY" => pc[t] \in {"begin", "sleep", "yield", "tickYield"}
          /\ status[t] = "BLOCKED" => pc[t] \in {"sleep", "finish"}
          /\ status[t] \in {"ABSENT", "JUST_CREATED"} => pc[t] \in {"begin", "finish"}
    BY DEF Consistent, OneRunning, me
  <2>2. \A t \in Thread :
          /\ status'[t] = "RUNNING" => t = next
          /\ status'[t] = "READY" => pc'[t] \in {"begin", "sleep", "yield", "tickYield"}
          /\ status'[t] = "BLOCKED" => pc'[t] \in {"sleep", "finish"}
          /\ status'[t] \in {"ABSENT", "JUST_CREATED"} => pc'[t] \in {"begin", "finish"}
    BY <1>5, <2>1
  <2>3. currentThread' = next /\ status'[next] = "RUNNING"
    BY <1>1, <1>3, <1>5
  <2> QED
    BY <2>2, <2>3 DEF OneRunning, InSleepLoop
<1>8. CarcassCollected'
  <2>1. \A t \in Thread : ~(status[t] = "BLOCKED" /\ pc[t] = "finish" /\ t # me)
    BY <1>2, ThreadsAssumption DEF Consistent, CarcassCollected, me
  <2>2. \A t \in Thread : ~(status'[t] = "BLOCKED" /\ pc'[t] = "finish")
    BY <1>2, <1>5, <2>1
  <2>3. toBeDestroyed' = NoThread /\ pc'[currentThread'] # "finish"
    BY <1>1, <1>2, <1>3, <1>4, <1>5
  <2> QED
    BY <2>2, <2>3, ThreadsAssumption DEF CarcassCollected
<1>9. ModeRestored'
  <2>1. mstatus' = "SystemMode"
    BY <1>2, <1>3 DEF Yield, TimerTick, ModeOf, me
  <2>2. ASSUME NEW t \in Thread, pc'[t] \in {"tick", "tickYield"}
        PROVE  oldStatus'[t] = ModeOf(ctx'[t])
    <3>1. CASE t # me
      <4>1. oldStatus'[t] = oldStatus[t] /\ ctx'[t] = ctx[t]
        BY <1>3, <3>1 DEF Yield, TimerTick, me, Consistent, TypeOK
      <4> QED
        BY <1>5, <2>2, <3>1, <4>1 DEF Consistent, ModeRestored
    <3>2. CASE t = me
      <4>1. TimerTick
        BY <1>3, <1>5, <2>2, <3>2
      <4>2. CASE pc[me] = "tick"
        BY <1>2, <3>2, <4>1, <4>2 DEF TimerTick, me, Consistent, ModeRestored
      <4>3. CASE pc[me] # "tick"
        BY <1>2, <3>2, <4>1, <4>3 DEF TimerTick, me, Consistent, TypeOK
      <4> QED
        BY <4>2, <4>3
    <3> QED
      BY <3>1, <3>2
  <2>3. pc'[currentThread'] # "user"
    BY <1>1, <1>3, <1>4, <1>5
  <2> QED
    BY <2>1, <2>2, <2>3 DEF ModeRestored, ModeOf
<1> QED
  BY <1>0, <1>6, <1>7, <1>8, <1>9 DEF Consistent

LEMMA ConsistentNext == Consistent /\ [Next]_vars => Consistent'
<1> SUFFICES ASSUME Consistent, [Next]_vars
             PROVE  Consistent'
  OBVIOUS
<1>1. CASE Next
  <2>1. CASE Finish \/ EnterUser \/ Trap \/ TickReturn \/ IdleStart \/ IdleEnd
    BY <2>1, ConsistentLocal
  <2>2. CASE \E u \in Thread : Construct(u) \/ Fork(u)
    BY <2>2, ConsistentNewThread
  <2>3. CASE \E s \in Sem : PStart(s)
    BY <2>3, ConsistentLocal
  <2>4. CASE \E s \in Sem : V(s) \/ DeviceTick(s) \/ IdleInterrupt(s)
    BY <2>4, ConsistentSignal DEF V, DeviceTick, IdleInterrupt
  <2> QED
    BY <1>1, <2>1, <2>2, <2>3, <2>4, ConsistentSwitchIn, ConsistentDispatch,
       ConsistentYield, ConsistentPTest DEF Next
<1>2. CASE UNCHANGED vars
  BY <1>2 DEF vars, Consistent, TypeOK, Placement, OneRunning, CarcassCollected,
              ModeRestored, InSleepLoop, JustSwitched, At
<1> QED
  BY <1>1, <1>2

\* The scheduler's state is consistent in every reachable state.
THEOREM ConsistentCorrect == Spec => []Consistent
  BY ConsistentInit, ConsistentNext, PTL DEF Spec

\* A thread is never in two lists, nor in none while it waits.
THEOREM PlacementCorrect == Spec => []Placement
<1>1. Consistent => Placement
  BY DEF Consistent
<1> QED
  BY <1>1, ConsistentCorrect, PTL

\* At most one thread runs, and it is currentThread.
THEOREM OneRunningCorrect == Spec => []OneRunning
<1>1. Consistent => OneRunning
  BY DEF Consistent
<1> QED
  BY <1>1, ConsistentCorrect, PTL

\* The ASSERTs of Scheduler::Run and ~Thread hold; no carcass is forgotten.
THEOREM CarcassCorrect == Spec => []CarcassCollected
<1>1. Consistent => CarcassCollected
  BY DEF Consistent
<1> QED
  BY <1>1, ConsistentCorrect, PTL

\* Preemption does not leave the machine in another thread's mode.
THEOREM ModeCorrect == Spec => []ModeRestored
<1>1. Consistent => ModeRestored
  BY DEF Consistent
<1> QED
  BY <1>1, ConsistentCorrect, PTL

-----------------------------------------------------------------------------
(* No lost wakeup *)

WakeupInv == Consistent /\ NoLostWakeup

LEMMA WokenFinite ==
  ASSUME NEW s
  PROVE  /\ Woken(s) \subseteq Thread /\ Woken(s)' \subseteq Thread
         /\ IsFiniteSet(Woken(s)) /\ Cardinality(Woken(s)) \in Nat
         /\ IsFiniteSet(Woken(s)') /\ Cardinality(Woken(s)') \in Nat
<1>1. Woken(s) \subseteq Thread /\ Woken(s)' \subseteq Thread
  BY DEF Woken
<1> QED
  BY <1>1, ThreadsAssumption, FS_Subset, FS_CardinalityType

\* A step that touches no semaphore and lets no woken thread go.
LEMMA WakeupFrame ==
  ASSUME NoLostWakeup, TypeOK, UNCHANGED <<value, queue>>,
         \A s \in Sem : Woken(s) \subseteq Woken(s)'
  PROVE  NoLostWakeup'
<1> SUFFICES ASSUME NEW s \in Sem, queue[s] # <<>>
             PROVE  value[s] <= Cardinality(Woken(s)')
  BY DEF NoLostWakeup
<1>1. value[s] <= Cardinality(Woken(s))
  BY DEF NoLostWakeup
<1>2. Cardinality(Woken(s)) <= Cardinality(Woken(s)')
  BY WokenFinite, FS_Subset
<1>3. /\ Cardinality(Woken(s)) \in Nat /\ value[s] \in Nat
      /\ Cardinality(Woken(s)') \in Nat
  BY WokenFinite DEF TypeOK
<1> QED
  BY <1>1, <1>2, <1>3

LEMMA WakeupSignal ==
  ASSUME WakeupInv, NEW s \in Sem, Signal(s)
  PROVE  NoLostWakeup'
<1>1. /\ value' = [value EXCEPT ![s] = @ + 1]
      /\ UNCHANGED <<pc, sem>>
  BY SignalEffect
<1>2. CASE queue[s] = <<>>
  <2>1. UNCHANGED <<queue, status>>
    BY <1>2, SignalEffect
  <2>2. \A r \in Sem : Woken(r)' = Woken(r)
    BY <1>1, <2>1 DEF Woken
  <2> QED
    BY <1>1, <1>2, <2>1, <2>2 DEF WakeupInv, Consistent, TypeOK, NoLostWakeup
<1>3. CASE queue[s] # <<>>
  <2> DEFINE w == Head(queue[s])
  <2>1. /\ queue' = [queue EXCEPT ![s] = Tail(@)]
        /\ status' = [status EXCEPT ![w] = "READY"]
    BY <1>3, SignalEffect
  <2>2. w \in Thread /\ status[w] = "BLOCKED" /\ pc[w] = "sleep" /\ sem[w] = s
    BY <1>3, TailMembers DEF WakeupInv, Consistent, TypeOK, Placement
  <2> HIDE DEF w
  <2>3. \A t \in Thread : status'[t] = IF t = w THEN "READY" ELSE status[t]
    BY <2>1 DEF WakeupInv, Consistent, TypeOK
  <2>4. /\ Woken(s)' = Woken(s) \cup {w}
        /\ w \notin Woken(s)
        /\ \A r \in Sem : r # s => Woken(r)' = Woken(r)
    BY <1>1, <2>2, <2>3 DEF Woken
  <2>5. Cardinality(Woken(s)') = Cardinality(Woken(s)) + 1
    BY <2>4, WokenFinite, FS_AddElement
  <2>6. value'[s] = value[s] + 1 /\ value[s] \in Nat
    BY <1>1 DEF WakeupInv, Consistent, TypeOK
  <2>7. value'[s] <= Cardinality(Woken(s)')
    BY <1>3, <2>5, <2>6, WokenFinite DEF WakeupInv, NoLostWakeup
  <2>8. \A r \in Sem : r # s => value'[r] = value[r] /\ queue'[r] = queue[r]
    BY <1>1, <2>1 DEF WakeupInv, Consistent, TypeOK
  <2> QED
    BY <2>4, <2>7, <2>8 DEF WakeupInv, NoLostWakeup
<1> QED
  BY <1>2, <1>3

LEMMA WakeupPTest ==
  ASSUME WakeupInv, PTest
  PROVE  NoLostWakeup'
<1> USE DEF At, GoTo
<1> DEFINE s == sem[currentThread]
<1> DEFINE me == currentThread
<1>1. me \in Thread /\ status[me] = "RUNNING" /\ pc[me] = "test"
  BY CallerRuns DEF PTest, WakeupInv, Consistent, TypeOK
<1>2. CASE value[s] = 0 /\ GoTo("sleep")
  <2>1. /\ queue' = [queue EXCEPT ![s] = Append(@, me)]
        /\ status' = [status EXCEPT ![me] = "BLOCKED"]
        /\ pc' = [pc EXCEPT ![me] = "sleep"]
        /\ UNCHANGED <<value, sem>>
    BY <1>2 DEF PTest
  <2>2. \A t \in Thread : t # me => status'[t] = status[t] /\ pc'[t] = pc[t]
    BY <2>1 DEF WakeupInv, Consistent, TypeOK
  <2>3. ASSUME NEW r \in Sem, queue'[r] # <<>>
        PROVE  value'[r] <= Cardinality(Woken(r)')
    <3>1. CASE r = s
      BY <1>2, <2>1, <3>1, WokenFinite
    <3>2. CASE r # s
      <4>1. Woken(r)' = Woken(r)
        BY <2>1, <2>2, <3>2 DEF Woken
      <4>2. queue'[r] = queue[r]
        BY <2>1, <3>2 DEF WakeupInv, Consistent, TypeOK
      <4> QED
        BY <2>1, <2>3, <4>1, <4>2 DEF WakeupInv, NoLostWakeup
    <3> QED
      BY <3>1, <3>2
  <2> QED
    BY <2>3 DEF NoLostWakeup
<1>3. CASE value[s] # 0 /\ GoTo("kernel")
  <2>1. /\ value' = [value EXCEPT ![s] = @ - 1]
        /\ pc' = [pc EXCEPT ![me] = "kernel"]
        /\ sem' = [sem EXCEPT ![me] = NoSem]
        /\ UNCHANGED <<status, queue>>
    BY <1>3 DEF PTest
  <2>2. \A t \in Thread : t # me => sem'[t] = sem[t] /\ pc'[t] = pc[t]
    BY <2>1 DEF WakeupInv, Consistent, TypeOK
  <2>3. sem'[me] = NoSem /\ NoSem \notin Sem
    BY <1>1, <2>1, ThreadsAssumption DEF WakeupInv, Consistent, TypeOK
  <2>4. ASSUME NEW r \in Sem, queue[r] # <<>>
        PROVE  value'[r] <= Cardinality(Woken(r)')
    <3>1. CASE r = s
      <4>1. Woken(r)' = Woken(r) \ {me} /\ me \in Woken(r)
        BY <1>1, <2>1, <2>2, <2>3, <3>1 DEF Woken
      <4>2. Cardinality(Woken(r)') = Cardinality(Woken(r)) - 1
        BY <4>1, WokenFinite, FS_RemoveElement
      <4>3. value'[r] = value[r] - 1 /\ value[r] \in Nat
        BY <2>1, <3>1 DEF WakeupInv, Consistent, TypeOK
      <4>4. value[r] <= Cardinality(Woken(r))
        BY <2>4 DEF WakeupInv, NoLostWakeup
      <4> QED
        BY <4>2, <4>3, <4>4, WokenFinite
    <3>2. CASE r # s
      <4>1. Woken(r)' = Woken(r)
        BY <2>1, <2>2, <2>3, <3>2 DEF Woken
      <4>2. value'[r] = value[r]
        BY <2>1, <3>2 DEF WakeupInv, Consistent, TypeOK
      <4> QED
        BY <2>4, <4>1, <4>2 DEF WakeupInv, NoLostWakeup
    <3> QED
      BY <3>1, <3>2
  <2> QED
    BY <2>1, <2>4 DEF NoLostWakeup
<1> QED
  BY <1>2, <1>3 DEF PTest

\* Every other step keeps the woken threads on their way.
LEMMA WakeupOther ==
  ASSUME WakeupInv,
         \/ Finish \/ EnterUser \/ Trap \/ TickReturn \/ IdleStart \/ IdleEnd
         \/ SwitchIn \/ Dispatch \/ Yield \/ TimerTick
         \/ \E u \in Thread : Construct(u) \/ Fork(u)
         \/ \E s \in Sem : PStart(s)
         \/ UNCHANGED vars
  PROVE  NoLostWakeup'
<1> USE DEF schedVars, semVars, modeVars, At, GoTo
<1> SUFFICES \A t \in Thread :
               pc[t] \in {"test", "sleep"} /\ status[t] \in {"READY", "RUNNING"} =>
                 /\ sem'[t] = sem[t]
                 /\ pc'[t] \in {"test", "sleep"}
                 /\ status'[t] \in {"READY", "RUNNING"}
  <2>1. UNCHANGED <<value, queue>>
    BY DEF Finish, EnterUser, Trap, TickReturn, IdleStart, IdleEnd, SwitchIn,
           Dispatch, Yield, TimerTick, Construct, Fork, PStart, vars
  <2> QED
    BY <2>1, WakeupFrame DEF WakeupInv, Consistent, Woken
<1>1. CASE Finish \/ EnterUser \/ Trap \/ TickReturn \/ IdleStart \/ IdleEnd
           \/ UNCHANGED vars
  BY <1>1 DEF WakeupInv, Consistent, TypeOK, Finish, EnterUser, Trap, TickReturn,
              IdleStart, IdleEnd, vars
<1>2. CASE SwitchIn
  <2>1. toBeDestroyed # NoThread => status[toBeDestroyed] = "BLOCKED"
    BY DEF WakeupInv, Consistent, TypeOK, CarcassCollected
  <2>2. /\ \A t \in Thread : status[t] # "BLOCKED" => status'[t] = status[t]
        /\ sem' = sem
    BY <1>2, <2>1 DEF SwitchIn, WakeupInv, Consistent, TypeOK
  <2>3. \A t \in Thread : pc[t] \in {"test", "sleep"} => pc'[t] \in {"test", "sleep"}
    BY <1>2 DEF SwitchIn, JustSwitched, WakeupInv, Consistent, TypeOK
  <2> QED
    BY <2>2, <2>3
<1>3. CASE Dispatch
  BY <1>3, HeadOfReadyList DEF Dispatch, Run, WakeupInv, Consistent, TypeOK
<1>4. CASE Yield \/ TimerTick
  BY <1>4, HeadOfReadyList DEF Yield, TimerTick, IntsEnabled, YieldTo, Run,
                               WakeupInv, Consistent, TypeOK
<1>5. CASE \E u \in Thread : Construct(u) \/ Fork(u)
  BY <1>5 DEF Construct, Fork, WakeupInv, Consistent, TypeOK
<1>6. CASE \E s \in Sem : PStart(s)
  BY <1>6 DEF PStart, WakeupInv, Consistent, TypeOK
<1> QED
  BY <1>1, <1>2, <1>3, <1>4, <1>5, <1>6

LEMMA WakeupNext == WakeupInv /\ [Next]_vars => WakeupInv'
<1> SUFFICES ASSUME WakeupInv, [Next]_vars
             PROVE  NoLostWakeup'
  BY ConsistentNext DEF WakeupInv
<1>2. CASE \E s \in Sem : V(s) \/ DeviceTick(s) \/ IdleInterrupt(s)
  BY <1>2, WakeupSignal DEF V, DeviceTick, IdleInterrupt
<1>3. CASE PTest
  BY <1>3, WakeupPTest
<1>4. CASE ~ \E s \in Sem : V(s) \/ DeviceTick(s) \/ IdleInterrupt(s)
  BY <1>3, <1>4, WakeupOther DEF Next
<1> QED
  BY <1>2, <1>4

\* While somebody sleeps on a semaphore, each of its units has a thread of its
\* own on the way to test for it.
THEOREM NoLostWakeupCorrect == Spec => []NoLostWakeup
<1>1. Init => WakeupInv
  <2>1. Init => NoLostWakeup
    BY DEF Init, NoLostWakeup
  <2> QED
    BY <2>1, ConsistentInit DEF WakeupInv
<1>2. WakeupInv => NoLostWakeup
  BY DEF WakeupInv
<1> QED
  BY <1>1, <1>2, WakeupNext, PTL DEF Spec

-----------------------------------------------------------------------------
(* The abstract semaphore *)

LEMMA AbstractStep ==
  ASSUME Consistent, [Next]_vars
  PROVE  [Abstract!AbstractNext]_(Abstract!abstractVars)
<1> DEFINE inP == [s \in Sem |-> InP(s)]
<1> USE DEF Abstract!abstractVars
<1>1. CASE \E s \in Sem : V(s) \/ DeviceTick(s) \/ IdleInterrupt(s)
  <2>1. PICK s \in Sem : Signal(s)
    BY <1>1 DEF V, DeviceTick, IdleInterrupt
  <2>2. UNCHANGED inP /\ value' = [value EXCEPT ![s] = @ + 1]
    BY <2>1, SignalEffect DEF InP
  <2> QED
    BY <2>1, <2>2 DEF Abstract!AbstractNext, Abstract!Signal
<1>2. CASE \E s \in Sem : PStart(s)
  <2>1. PICK s \in Sem : PStart(s)
    BY <1>2
  <2>2. \A t \in Thread : /\ t # currentThread => sem'[t] = sem[t] /\ pc'[t] = pc[t]
                          /\ t = currentThread => sem'[t] = s /\ pc'[t] = "test"
    BY <2>1 DEF PStart, GoTo, Consistent, TypeOK
  <2>3. \A r \in Sem : currentThread \notin inP[r]
    BY <2>1 DEF PStart, At, InP
  <2>4. inP' = [inP EXCEPT ![s] = @ \cup {currentThread}]
    <3>1. currentThread \in Thread /\ pc[currentThread] = "kernel"
      BY <2>1 DEF PStart, At, Consistent, TypeOK
    <3>2. \A r \in Sem : InP(r)' = IF r = s THEN InP(r) \cup {currentThread} ELSE InP(r)
      BY <2>2, <3>1 DEF InP
    <3> QED
      BY <3>2
  <2>5. Abstract!Enter(currentThread, s)
    BY <2>1, <2>3, <2>4 DEF Abstract!Enter, PStart, semVars
  <2> QED
    BY <2>5 DEF Abstract!AbstractNext, Consistent, TypeOK
<1>3. CASE PTest
  <2> DEFINE s == sem[currentThread]
  <2>1. /\ currentThread \in Thread
        /\ status[currentThread] = "RUNNING" /\ pc[currentThread] = "test"
    BY <1>3, CallerRuns DEF PTest, At, Consistent, TypeOK
  <2>2. CASE value[s] = 0 /\ GoTo("sleep")
    <3>1. UNCHANGED <<value, sem>> /\ pc' = [pc EXCEPT ![currentThread] = "sleep"]
      BY <1>3, <2>2 DEF PTest, GoTo
    <3>2. \A t \in Thread : pc'[t] \in {"test", "sleep"} <=> pc[t] \in {"test", "sleep"}
      BY <2>1, <3>1 DEF Consistent, TypeOK
    <3>3. UNCHANGED inP
      BY <3>1, <3>2 DEF InP
    <3> QED
      BY <3>1, <3>3
  <2>3. CASE value[s] # 0 /\ GoTo("kernel")
    <3>1. /\ value' = [value EXCEPT ![s] = @ - 1]
          /\ pc' = [pc EXCEPT ![currentThread] = "kernel"]
          /\ sem' = [sem EXCEPT ![currentThread] = NoSem]
      BY <1>3, <2>3 DEF PTest, GoTo
    <3>2. \A t \in Thread : t # currentThread => sem'[t] = sem[t] /\ pc'[t] = pc[t]
      BY <3>1 DEF Consistent, TypeOK
    <3>3. pc'[currentThread] = "kernel"
      BY <2>1, <3>1 DEF Consistent, TypeOK
    <3>4. \A r \in Sem : inP[r]' = IF r = s THEN inP[r] \ {currentThread} ELSE inP[r]
      BY <2>1, <3>2, <3>3 DEF InP
    <3>5. CASE s \in Sem
      <4>1. inP' = [inP EXCEPT ![s] = @ \ {currentThread}]
        BY <3>4, <3>5
      <4>2. currentThread \in inP[s] /\ value[s] > 0
        BY <2>1, <2>3, <3>5 DEF InP, Consistent, TypeOK
      <4>3. Abstract!Pass(currentThread, s)
        BY <3>1, <4>1, <4>2 DEF Abstract!Pass
      <4> QED
        BY <2>1, <3>5, <4>3 DEF Abstract!AbstractNext
    <3>6. CASE s \notin Sem
      <4>1. UNCHANGED inP /\ UNCHANGED value
        BY <3>1, <3>4, <3>6 DEF Consistent, TypeOK
      <4> QED
        BY <4>1
    <3> QED
      BY <3>5, <3>6
  <2> QED
    BY <1>3, <2>2, <2>3 DEF PTest
<1>4. CASE /\ ~ PTest
           /\ ~ \E s \in Sem : PStart(s)
           /\ ~ \E s \in Sem : V(s) \/ DeviceTick(s) \/ IdleInterrupt(s)
  <2>1. UNCHANGED <<value, sem>>
    BY <1>4 DEF Next, vars, SwitchIn, Dispatch, Yield, Finish, EnterUser, Trap, TimerTick,
                TickReturn, IdleStart, IdleEnd, Construct, Fork, semVars
  <2>2. \A t \in Thread : sem[t] \in Sem =>
          (pc'[t] \in {"test", "sleep"} <=> pc[t] \in {"test", "sleep"})
    <3> USE DEF At, GoTo
    <3>1. CASE Finish \/ EnterUser \/ Trap \/ IdleStart \/ IdleEnd \/ Dispatch \/ UNCHANGED vars
      BY <3>1 DEF Finish, EnterUser, Trap, IdleStart, IdleEnd, Dispatch, vars, modeVars,
                  Consistent, TypeOK
    <3>2. CASE SwitchIn
      BY <3>2 DEF SwitchIn, JustSwitched, Consistent, TypeOK
    <3>3. CASE Yield \/ TimerTick \/ TickReturn
      BY <3>3 DEF Yield, TimerTick, TickReturn, IntsEnabled, YieldTo, Consistent, TypeOK
    <3>4. CASE \E u \in Thread : Construct(u) \/ Fork(u)
      BY <3>4 DEF Construct, Fork, Consistent, TypeOK, OneRunning
    <3> QED
      BY <1>4, <3>1, <3>2, <3>3, <3>4 DEF Next
  <2>3. UNCHANGED inP
    BY <2>1, <2>2 DEF InP
  <2> QED
    BY <2>1, <2>3
<1> QED
  BY <1>1, <1>2, <1>3, <1>4

\* The scheduler, the queues and the interrupts implement the semaphore that
\* synch.h promises.
THEOREM SemaphoreRefinement == Spec => ImplementsSemaphore
<1>1. Init => Abstract!AbstractInit
  BY DEF Init, Abstract!AbstractInit, InP
<1>2. Consistent /\ [Next]_vars => [Abstract!AbstractNext]_(Abstract!abstractVars)
  BY AbstractStep
<1> QED
  BY <1>1, <1>2, ConsistentCorrect, PTL DEF Spec, ImplementsSemaphore, Abstract!AbstractSafety
=============================================================================
