------------------------------ MODULE Threads ------------------------------
(***************************************************************************)
(* The thread system of NachOS: threads/thread.cc, threads/scheduler.cc,   *)
(* threads/synch.cc (Semaphore), threads/alarm.cc and the part of          *)
(* machine/interrupt.cc that decides when a thread may be preempted.       *)
(*                                                                         *)
(* One CPU.  Kernel code loses it only where interrupts are enabled: in    *)
(* OneTick, reached from SetLevel(IntOff -> IntOn) and after every user    *)
(* instruction.  So an action is what runs between two such points, or,    *)
(* where Run switches stacks in the middle of a function, what runs on     *)
(* one side of the SWITCH.  pc[t] names the point at which t stands.       *)
(*                                                                         *)
(* What a thread calls, and when, is left open: every thread may call any  *)
(* operation at any time its code runs with interrupts enabled.            *)
(***************************************************************************)
EXTENDS Naturals, Sequences, FiniteSets, Functions

CONSTANTS
  Thread,        \* Thread objects; a deleted one may be constructed again
  Main,          \* the thread Kernel::Initialize constructs for itself
  Sem,           \* Semaphore objects
  DeviceSem,     \* those an interrupt handler calls V on
  InitialValue,  \* [Sem -> Nat], the constructor's argument
  MaxValue,      \* bound on a semaphore's value, for model checking
  NoThread,      \* the NULL of toBeDestroyed
  NoSem

ASSUME ThreadsAssumption ==
  /\ Main \in Thread
  /\ NoThread \notin Thread
  /\ NoSem \notin Sem
  /\ DeviceSem \subseteq Sem
  /\ InitialValue \in [Sem -> Nat]
  /\ MaxValue \in Nat
  /\ IsFiniteSet(Thread)

VARIABLES
  status,         \* Thread::status, "ABSENT" when there is no object
  pc,             \* where the thread's code stands
  ctx,            \* the code a timer interrupt preempted: "user" or "kernel"
  sem,            \* the semaphore of the P the thread is in
  readyList,      \* Scheduler::readyList
  currentThread,  \* Kernel::currentThread
  toBeDestroyed,  \* Scheduler::toBeDestroyed
  value,          \* Semaphore::value
  queue,          \* Semaphore::queue
  mstatus,        \* Interrupt::status
  oldStatus       \* oldStatus[t]: the local of the OneTick that preempted t

schedVars == <<status, readyList, currentThread, toBeDestroyed>>
semVars   == <<value, queue>>
modeVars  == <<mstatus, oldStatus, ctx>>
vars      == <<status, pc, ctx, sem, readyList, currentThread, toBeDestroyed,
               value, queue, mstatus, oldStatus>>

-----------------------------------------------------------------------------
ThreadStatus  == {"ABSENT", "JUST_CREATED", "RUNNING", "READY", "BLOCKED"}
MachineStatus == {"IdleMode", "SystemMode", "UserMode"}

\* user, kernel: interrupts enabled.  tick: back from the Yield in OneTick,
\* inside the second OneTick that Yield's SetLevel calls.  test: in P, at the
\* loop test.  sleep: in Sleep(FALSE), called from P.  finish: in Sleep(TRUE).
\* yield, tickYield: in the Run that Yield called.  begin: at ThreadRoot.
PC == {"begin", "user", "kernel", "tick", "test", "sleep", "finish",
       "yield", "tickYield"}

TypeOK ==
  /\ status \in [Thread -> ThreadStatus]
  /\ pc \in [Thread -> PC]
  /\ ctx \in [Thread -> {"user", "kernel"}]
  /\ sem \in [Thread -> Sem \cup {NoSem}]
  /\ readyList \in Seq(Thread)
  /\ currentThread \in Thread
  /\ toBeDestroyed \in Thread \cup {NoThread}
  /\ value \in [Sem -> Nat]
  /\ queue \in [Sem -> Seq(Thread)]
  /\ mstatus \in MachineStatus
  /\ oldStatus \in [Thread -> MachineStatus]

Init ==
  /\ status = [t \in Thread |-> IF t = Main THEN "RUNNING" ELSE "ABSENT"]
  /\ pc = [t \in Thread |-> IF t = Main THEN "kernel" ELSE "begin"]
  /\ ctx = [t \in Thread |-> "kernel"]
  /\ sem = [t \in Thread |-> NoSem]
  /\ readyList = <<>>
  /\ currentThread = Main
  /\ toBeDestroyed = NoThread
  /\ value = InitialValue
  /\ queue = [s \in Sem |-> <<>>]
  /\ mstatus = "SystemMode"
  /\ oldStatus = [t \in Thread |-> "SystemMode"]

\* The current thread stands at p.
At(p) == pc[currentThread] = p
GoTo(p) == pc' = [pc EXCEPT ![currentThread] = p]

IntsEnabled == pc[currentThread] \in {"user", "kernel", "tick"}

\* In Sleep's loop: no longer running, but still on the CPU.
InSleepLoop == status[currentThread] # "RUNNING"

\* Back from SWITCH: running again, but not yet past Run.
JustSwitched ==
  /\ status[currentThread] = "RUNNING"
  /\ pc[currentThread] \in {"begin", "sleep", "yield", "tickYield"}

-----------------------------------------------------------------------------
(* Scheduler *)

\* Run(Head(readyList), finishing), up to the SWITCH; self is what becomes of
\* the status of the thread that gives up the CPU.
Run(self, rest, finishing) ==
  LET next == Head(readyList) IN
  /\ readyList' = rest
  /\ currentThread' = next
  /\ status' = [status EXCEPT ![currentThread] = self, ![next] = "RUNNING"]
  /\ toBeDestroyed' = IF finishing THEN currentThread ELSE toBeDestroyed

\* The other side of the SWITCH: CheckToBeDestroyed deletes the thread that
\* finished, and the resumed code goes on where it left off.
\* Faulty: Thread::Begin enables interrupts without CheckToBeDestroyed.
SwitchInKeepsCarcass ==
  /\ JustSwitched
  /\ At("begin") /\ GoTo("kernel")
  /\ UNCHANGED <<ctx, sem, schedVars, semVars, mstatus, oldStatus>>

SwitchIn ==
  /\ JustSwitched
  /\ toBeDestroyed' = NoThread
  /\ status' = IF toBeDestroyed = NoThread THEN status
               ELSE [status EXCEPT ![toBeDestroyed] = "ABSENT"]
  /\ \/ At("begin")     /\ GoTo("kernel")
     \/ At("sleep")     /\ GoTo("test")
     \/ At("yield")     /\ GoTo("kernel")
     \/ At("tickYield") /\ GoTo("tick")
  /\ UNCHANGED <<ctx, sem, readyList, currentThread, semVars, mstatus, oldStatus>>

\* The loop of Sleep once the ready list is not empty.
Dispatch ==
  /\ InSleepLoop
  /\ mstatus # "IdleMode"
  /\ readyList # <<>>
  /\ Run(status[currentThread], Tail(readyList), At("finish"))
  /\ UNCHANGED <<pc, sem, semVars, modeVars>>

\* Faulty: the yielding thread goes to the front of the ready list.
YieldToFront(p) ==
  /\ readyList # <<>>
  /\ Run("READY", <<currentThread>> \o Tail(readyList), FALSE)
  /\ GoTo(p)

\* Faulty: the yielding thread is queued but not marked READY.
YieldStillRunning(p) ==
  /\ readyList # <<>>
  /\ Run("RUNNING", Append(Tail(readyList), currentThread), FALSE)
  /\ GoTo(p)

\* The body of Yield, when there is another thread to run.
YieldTo(p) ==
  /\ readyList # <<>>
  /\ Run("READY", Append(Tail(readyList), currentThread), FALSE)
  /\ GoTo(p)

-----------------------------------------------------------------------------
(* Thread *)

Construct(u) ==
  /\ At("kernel")
  /\ status[u] = "ABSENT"
  /\ status' = [status EXCEPT ![u] = "JUST_CREATED"]
  /\ UNCHANGED <<pc, sem, readyList, currentThread, toBeDestroyed, semVars, modeVars>>

Fork(u) ==
  /\ At("kernel")
  /\ status[u] = "JUST_CREATED"
  /\ status' = [status EXCEPT ![u] = "READY"]
  /\ readyList' = Append(readyList, u)
  /\ pc' = [pc EXCEPT ![u] = "begin"]
  /\ UNCHANGED <<sem, currentThread, toBeDestroyed, semVars, modeVars>>

Yield ==
  /\ At("kernel")
  /\ YieldTo("yield")
  /\ UNCHANGED <<sem, semVars, modeVars>>

\* Finish calls Sleep(TRUE); main's code ends in Interrupt::Halt instead.
Finish ==
  /\ At("kernel")
  /\ currentThread # Main
  /\ GoTo("finish")
  /\ status' = [status EXCEPT ![currentThread] = "BLOCKED"]
  /\ UNCHANGED <<sem, readyList, currentThread, toBeDestroyed, semVars, modeVars>>

-----------------------------------------------------------------------------
(* Semaphore *)

PStart(s) ==
  /\ At("kernel")
  /\ GoTo("test")
  /\ sem' = [sem EXCEPT ![currentThread] = s]
  /\ UNCHANGED <<schedVars, semVars, modeVars>>

\* Faulty: P does not look at the value.
PTestUnguarded ==
  /\ At("test")
  /\ value' = [value EXCEPT ![sem[currentThread]] = @ - 1]
  /\ GoTo("kernel")
  /\ sem' = [sem EXCEPT ![currentThread] = NoSem]
  /\ UNCHANGED <<schedVars, queue, modeVars>>

\* One evaluation of the while condition: go to sleep at the end of the queue,
\* whether for the first time or again, or take a unit and enable interrupts.
PTest ==
  LET s == sem[currentThread] IN
  /\ At("test")
  /\ \/ /\ value[s] = 0
        /\ queue' = [queue EXCEPT ![s] = Append(@, currentThread)]
        /\ status' = [status EXCEPT ![currentThread] = "BLOCKED"]
        /\ GoTo("sleep")
        /\ UNCHANGED <<value, sem>>
     \/ /\ value[s] # 0
        /\ value' = [value EXCEPT ![s] = @ - 1]
        /\ GoTo("kernel")
        /\ sem' = [sem EXCEPT ![currentThread] = NoSem]
        /\ UNCHANGED <<queue, status>>
  /\ UNCHANGED <<readyList, currentThread, toBeDestroyed, modeVars>>

\* Faulty: V readies the first waiter without taking it off the queue.
SignalKeepsWaiter(s) ==
  /\ value[s] < MaxValue
  /\ value' = [value EXCEPT ![s] = @ + 1]
  /\ queue[s] # <<>>
  /\ status' = [status EXCEPT ![Head(queue[s])] = "READY"]
  /\ readyList' = Append(readyList, Head(queue[s]))
  /\ UNCHANGED <<queue, pc, sem, currentThread, toBeDestroyed, modeVars>>

\* Make the first waiter ready if wakes, add one unit if adds.
WakeAndAdd(s, wakes, adds) ==
  /\ value[s] < MaxValue
  /\ value' = IF adds THEN [value EXCEPT ![s] = @ + 1] ELSE value
  /\ IF wakes
     THEN /\ queue' = [queue EXCEPT ![s] = Tail(@)]
          /\ status' = [status EXCEPT ![Head(queue[s])] = "READY"]
          /\ readyList' = Append(readyList, Head(queue[s]))
     ELSE UNCHANGED <<queue, status, readyList>>
  /\ UNCHANGED <<pc, sem, currentThread, toBeDestroyed, modeVars>>

\* Faulty: V wakes a waiter only when the value was zero.
SignalWakesOnce(s) == WakeAndAdd(s, queue[s] # <<>> /\ value[s] = 0, TRUE)

\* V: make the first waiter ready, if there is one, and add one unit.
Signal(s) == WakeAndAdd(s, queue[s] # <<>>, TRUE)

V(s) == At("kernel") /\ Signal(s)

-----------------------------------------------------------------------------
(* Interrupt and Alarm *)

\* The user program starts, or a system call returns to it.
EnterUser ==
  /\ At("kernel")
  /\ GoTo("user")
  /\ mstatus' = "UserMode"
  /\ UNCHANGED <<sem, schedVars, semVars, oldStatus, ctx>>

\* Machine::RaiseException.
Trap ==
  /\ At("user")
  /\ GoTo("kernel")
  /\ mstatus' = "SystemMode"
  /\ UNCHANGED <<sem, schedVars, semVars, oldStatus, ctx>>

\* OneTick with a device interrupt due, whose handler calls V(s).
DeviceTick(s) == s \in DeviceSem /\ IntsEnabled /\ Signal(s)

\* Faulty: OneTick leaves Interrupt::status alone when it yields.
TimerTickInUserMode ==
  /\ IntsEnabled
  /\ YieldTo("tickYield")
  /\ oldStatus' = [oldStatus EXCEPT ![currentThread] = mstatus]
  /\ ctx' = [ctx EXCEPT ![currentThread] =
               IF At("tick") THEN @ ELSE pc[currentThread]]
  /\ UNCHANGED <<sem, semVars, mstatus>>

\* OneTick with the timer interrupt due: the handler asks for a Yield.  A
\* OneTick inside a OneTick leaves the outer one's local alone.  With no other
\* thread ready nothing changes.
TimerTick ==
  /\ IntsEnabled
  /\ YieldTo("tickYield")
  /\ mstatus' = "SystemMode"
  /\ IF At("tick")
     THEN UNCHANGED <<oldStatus, ctx>>
     ELSE /\ oldStatus' = [oldStatus EXCEPT ![currentThread] = mstatus]
          /\ ctx' = [ctx EXCEPT ![currentThread] = pc[currentThread]]
  /\ UNCHANGED <<sem, semVars>>

\* The Yield in OneTick has returned: status = oldStatus.
TickReturn ==
  /\ At("tick")
  /\ mstatus' = oldStatus[currentThread]
  /\ GoTo(ctx[currentThread])
  /\ UNCHANGED <<sem, schedVars, semVars, oldStatus, ctx>>

\* Idle, called in Sleep's loop: the clock jumps to the next pending interrupt
\* (there is one, the timer's) and the handlers due by then run.  The timer's
\* does nothing in IdleMode; a device's calls V.
IdleStart ==
  /\ InSleepLoop
  /\ readyList = <<>>
  /\ mstatus # "IdleMode"
  /\ mstatus' = "IdleMode"
  /\ UNCHANGED <<pc, sem, schedVars, semVars, oldStatus, ctx>>

IdleInterrupt(s) == s \in DeviceSem /\ mstatus = "IdleMode" /\ Signal(s)

IdleEnd ==
  /\ mstatus = "IdleMode"
  /\ mstatus' = "SystemMode"
  /\ UNCHANGED <<pc, sem, schedVars, semVars, oldStatus, ctx>>

-----------------------------------------------------------------------------
Next ==
  \/ SwitchIn \/ Dispatch \/ Yield \/ Finish \/ PTest
  \/ EnterUser \/ Trap \/ TimerTick \/ TickReturn \/ IdleStart \/ IdleEnd
  \/ \E u \in Thread : Construct(u) \/ Fork(u)
  \/ \E s \in Sem : PStart(s) \/ V(s) \/ DeviceTick(s) \/ IdleInterrupt(s)

Spec == Init /\ [][Next]_vars

(***************************************************************************)
(* The CPU does not stop: the code between two points runs to its end, and *)
(* the timer, always pending, goes off again and again.  The latter is     *)
(* strong fairness: its interrupt is taken at the first OneTick after it   *)
(* is due, though the interrupted code keeps disabling interrupts between. *)
(* Nothing is assumed of the programs or of the devices.                   *)
(***************************************************************************)
Fairness ==
  /\ WF_vars(SwitchIn \/ Dispatch \/ PTest \/ TickReturn \/ IdleEnd)
  /\ SF_vars(TimerTick)

FairSpec == Spec /\ Fairness

-----------------------------------------------------------------------------
(***************************************************************************)
(* A live thread is in exactly one place and there once: on the CPU, on    *)
(* the ready list, or on the queue of the semaphore whose P it sleeps in.  *)
(* This is what the ASSERT in List::Append (lib/list.cc) relies on, and    *)
(* why RemoveFront never returns a deleted thread.                         *)
(***************************************************************************)
Placement ==
  /\ IsInjective(readyList)
  /\ \A t \in Thread : t \in Range(readyList) <=> status[t] = "READY"
  /\ \A s \in Sem :
       /\ IsInjective(queue[s])
       /\ \A t \in Thread : t \in Range(queue[s]) <=>
            status[t] = "BLOCKED" /\ pc[t] = "sleep" /\ sem[t] = s

(***************************************************************************)
(* At most one thread runs and it is currentThread; currentThread is       *)
(* otherwise in the loop of Sleep.  Every suspended thread is at a point   *)
(* from which SwitchIn can resume it.                                      *)
(***************************************************************************)
OneRunning ==
  /\ \A t \in Thread : status[t] = "RUNNING" => t = currentThread
  /\ status[currentThread] \in {"RUNNING", "READY", "BLOCKED"}
  /\ InSleepLoop => pc[currentThread] \in {"sleep", "finish"}
  /\ \A t \in Thread : status[t] = "READY" =>
       pc[t] \in {"begin", "sleep", "yield", "tickYield"}
  /\ \A t \in Thread : status[t] = "BLOCKED" => pc[t] \in {"sleep", "finish"}
  /\ \A t \in Thread : status[t] \in {"ABSENT", "JUST_CREATED"} =>
       pc[t] \in {"begin", "finish"}

(***************************************************************************)
(* The carcass of a finished thread is kept exactly until the next thread  *)
(* is past its SWITCH: the ASSERTs of Scheduler::Run (toBeDestroyed is     *)
(* free when a thread finishes) and of ~Thread (never the current thread)  *)
(* hold, and no finished thread is forgotten.                              *)
(***************************************************************************)
CarcassCollected ==
  /\ toBeDestroyed # NoThread =>
       /\ toBeDestroyed # currentThread
       /\ JustSwitched
  /\ At("finish") => InSleepLoop
  /\ \A t \in Thread : t = toBeDestroyed <=>
       status[t] = "BLOCKED" /\ pc[t] = "finish" /\ t # currentThread

ModeOf(p) == IF p = "user" THEN "UserMode" ELSE "SystemMode"

(***************************************************************************)
(* Interrupt::status is global, yet OneTick saves it in a local across a   *)
(* context switch: whoever runs next, user code runs in UserMode and       *)
(* kernel code in SystemMode, also after the preempted thread is back.     *)
(***************************************************************************)
ModeRestored ==
  /\ mstatus = IF mstatus = "IdleMode" /\ InSleepLoop THEN "IdleMode"
               ELSE ModeOf(pc[currentThread])
  /\ \A t \in Thread : pc[t] \in {"tick", "tickYield"} => oldStatus[t] = ModeOf(ctx[t])

(***************************************************************************)
(* The thread system's state is in order: threads, lists, carcass and      *)
(* machine mode tell the same story at every point where a thread may lose *)
(* the CPU (thread.cc, scheduler.cc, synch.cc, interrupt.cc:147-176).      *)
(***************************************************************************)
Consistent ==
  /\ TypeOK
  /\ Placement
  /\ OneRunning
  /\ CarcassCollected
  /\ ModeRestored

\* Threads inside P on s that will test value again without another V.
Woken(s) == {t \in Thread : /\ sem[t] = s
                            /\ pc[t] \in {"test", "sleep"}
                            /\ status[t] \in {"READY", "RUNNING"}}

(***************************************************************************)
(* V removes a waiter from the queue but gives the unit to nobody: another *)
(* thread may take it first, and the woken one queues up again.  Still, as *)
(* long as somebody sleeps on s, each unit has a thread of its own that is *)
(* on its way to test for it: no wakeup is lost.                           *)
(***************************************************************************)
NoLostWakeup ==
  \A s \in Sem : queue[s] # <<>> => value[s] <= Cardinality(Woken(s))

(***************************************************************************)
(* Time slicing: a ready thread gets the CPU in the end, whatever the      *)
(* others do.                                                              *)
(***************************************************************************)
ReadyRuns ==
  \A t \in Thread : status[t] = "READY" ~> status[t] = "RUNNING"

\* The callers inside P on s, asleep or not.
InP(s) == {t \in Thread : pc[t] \in {"test", "sleep"} /\ sem[t] = s}

Abstract == INSTANCE CountingSemaphore WITH
  Proc <- Thread, count <- value, waiting <- [s \in Sem |-> InP(s)]

(***************************************************************************)
(* The queue, the scheduler and the interrupts implement the abstract      *)
(* semaphore.                                                              *)
(***************************************************************************)
ImplementsSemaphore == Abstract!AbstractSafety

\* With the CPU's fairness, a unit is claimed while somebody waits for it.
SemaphoreProgress == Abstract!AbstractSpec
=============================================================================
