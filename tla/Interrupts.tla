----------------------------- MODULE Interrupts -----------------------------
(***************************************************************************)
(* Simulated time: machine/interrupt.cc with its list of pending           *)
(* interrupts (SortedList of lib/list.cc), machine/timer.cc and            *)
(* threads/alarm.cc.                                                       *)
(*                                                                         *)
(* Time advances only in OneTick and in Idle, which fire what is due.  The *)
(* threads are there for one reason: OneTick may call Yield, whose SetLevel*)
(* is a OneTick again, so several OneTicks of several threads are under    *)
(* way at once.  Which thread a switch takes up is Threads' business and   *)
(* left open here.                                                         *)
(***************************************************************************)
EXTENDS Integers, Sequences, SequencesExt

CONSTANTS
  Thread,
  First,       \* the thread that runs at the start
  Device,      \* objects that have interrupts scheduled
  Timer,       \* the one of the Alarm; its handler schedules the next
  Polling,     \* those whose handler schedules the next poll
  Delay,       \* Delay[d]: the values of fromNow in d's calls of Schedule
  UserTick,
  SystemTick,
  MaxTicks,    \* bound on totalTicks, for model checking
  MaxDepth     \* bound on the OneTicks of one thread under way

ASSUME InterruptsAssumption ==
  /\ First \in Thread
  /\ Timer \in Device
  /\ Polling \subseteq Device \ {Timer}
  /\ Delay \in [Device -> SUBSET (Nat \ {0})]
  /\ UserTick \in Nat \ {0}
  /\ SystemTick \in Nat \ {0}
  /\ MaxTicks \in Nat
  /\ MaxDepth \in Nat

VARIABLES
  level,          \* Interrupt::level
  inHandler,      \* Interrupt::inHandler
  yieldOnReturn,  \* Interrupt::yieldOnReturn
  status,         \* Interrupt::status
  pending,        \* Interrupt::pending, with the number of the Schedule call
  totalTicks, idleTicks, systemTicks, userTicks,   \* Statistics
  current,        \* the running thread
  at,             \* at[t]: where t's code stands
  frames,         \* frames[t]: oldStatus of t's OneTicks that called Yield
  scheduled,      \* history: the number of Schedule calls
  fired           \* history: the interrupt fired last

clock == <<totalTicks, idleTicks, systemTicks, userTicks>>
vars  == <<level, inHandler, yieldOnReturn, status, pending, totalTicks, idleTicks,
           systemTicks, userTicks, current, at, frames, scheduled, fired>>

\* code: anywhere else.  tick, idle: in CheckIfDue, called by OneTick, by Idle.
\* yield: in the Yield of a OneTick.  halt: Halt was called.
At == {"code", "tick", "idle", "yield", "halt"}

PendingInterrupt == [device : Device, when : Nat, no : Nat]

TypeOK ==
  /\ level \in {"IntOn", "IntOff"}
  /\ inHandler \in BOOLEAN
  /\ yieldOnReturn \in BOOLEAN
  /\ status \in {"IdleMode", "SystemMode", "UserMode"}
  /\ pending \in Seq(PendingInterrupt)
  /\ totalTicks \in Nat /\ idleTicks \in Nat /\ systemTicks \in Nat /\ userTicks \in Nat
  /\ current \in Thread
  /\ at \in [Thread -> At]
  /\ frames \in [Thread -> Seq({"SystemMode", "UserMode"})]
  /\ scheduled \in Nat
  /\ fired \in [when : Nat, no : Nat]

Init ==
  /\ level = "IntOff" /\ inHandler = FALSE /\ yieldOnReturn = FALSE
  /\ status = "SystemMode"
  /\ pending = <<>>
  /\ totalTicks = 0 /\ idleTicks = 0 /\ systemTicks = 0 /\ userTicks = 0
  /\ current = First
  /\ at = [t \in Thread |-> "code"]
  /\ frames = [t \in Thread |-> <<>>]
  /\ scheduled = 0
  /\ fired = [when |-> 0, no |-> 0]

Stands(p) == at[current] = p
GoTo(p) == at' = [at EXCEPT ![current] = p]

-----------------------------------------------------------------------------
(* The list of pending interrupts *)

\* Faulty: an interrupt goes before those of the same time.
InsertBefore(p, s) ==
  LET later == {i \in 1..Len(s) : p.when <= s[i].when}
  IN InsertAt(s, IF later = {} THEN Len(s) + 1 ELSE CHOOSE i \in later : \A j \in later : i <= j, p)

\* SortedList::Insert: before the first interrupt that is later.
Insert(p, s) ==
  LET later == {i \in 1..Len(s) : p.when < s[i].when}
  IN InsertAt(s, IF later = {} THEN Len(s) + 1 ELSE CHOOSE i \in later : \A j \in later : i <= j, p)

\* Schedule(d, fromNow) with the list otherwise s.
Schedule(d, fromNow, s) ==
  /\ pending' = Insert([device |-> d, when |-> totalTicks + fromNow, no |-> scheduled + 1], s)
  /\ scheduled' = scheduled + 1

Scheduled(d) == \E i \in 1..Len(pending) : pending[i].device = d

\* Faulty: an interrupt that is due right now waits for the next tick.
FrontDueLater(now) == pending # <<>> /\ Head(pending).when < now

FrontDue(now) == pending # <<>> /\ Head(pending).when <= now

-----------------------------------------------------------------------------
(* Code that runs outside the handlers *)

Running == Stands("code") /\ ~inHandler

\* A device is constructed, or asked for something while it is not busy; the
\* interrupt comes n ticks later.
StartWithin(d, n) ==
  /\ Running /\ status = "SystemMode"
  /\ ~Scheduled(d)
  /\ Schedule(d, n, pending)
  /\ UNCHANGED <<level, inHandler, yieldOnReturn, status, clock, current, at, frames, fired>>

StartDevice(d) == \E n \in Delay[d] : StartWithin(d, n)

\* Machine::Run, and the return from a system call; RaiseException.
EnterUser ==
  /\ Running /\ status = "SystemMode" /\ level = "IntOn"
  /\ status' = "UserMode"
  /\ UNCHANGED <<level, inHandler, yieldOnReturn, pending, clock, current, at, frames,
                 scheduled, fired>>

Trap ==
  /\ Running /\ status = "UserMode"
  /\ status' = "SystemMode"
  /\ UNCHANGED <<level, inHandler, yieldOnReturn, pending, clock, current, at, frames,
                 scheduled, fired>>

SetLevelOff ==
  /\ Running /\ status = "SystemMode" /\ level = "IntOn"
  /\ level' = "IntOff"
  /\ UNCHANGED <<inHandler, yieldOnReturn, status, pending, clock, current, at, frames,
                 scheduled, fired>>

\* SWITCH, with interrupts off on both sides: from Yield or from Sleep.
SwitchTo(t) ==
  /\ level = "IntOff" /\ ~inHandler /\ status = "SystemMode"
  /\ Stands("code") \/ Stands("yield")
  /\ t # current /\ at[t] \in {"code", "yield"}
  /\ current' = t
  /\ UNCHANGED <<level, inHandler, yieldOnReturn, status, pending, clock, at, frames,
                 scheduled, fired>>

-----------------------------------------------------------------------------
(* OneTick *)

\* The innermost OneTick of the thread returns, into the Yield of the one
\* outside it, which returns too: the outermost oldStatus is the one that stays.
Return ==
  /\ level' = "IntOn"
  /\ GoTo("code")
  /\ status' = IF frames[current] = <<>> THEN status ELSE Head(frames[current])
  /\ frames' = [frames EXCEPT ![current] = <<>>]

\* Faulty: the tick of a user instruction is counted as the system's too.
CountTickTwice ==
  IF status = "SystemMode"
  THEN /\ totalTicks' = totalTicks + SystemTick
       /\ systemTicks' = systemTicks + SystemTick
       /\ UNCHANGED <<userTicks, idleTicks>>
  ELSE /\ totalTicks' = totalTicks + UserTick
       /\ userTicks' = userTicks + UserTick
       /\ systemTicks' = systemTicks + UserTick
       /\ UNCHANGED idleTicks

CountTick ==
  IF status = "SystemMode"
  THEN /\ totalTicks' = totalTicks + SystemTick
       /\ systemTicks' = systemTicks + SystemTick
       /\ UNCHANGED <<userTicks, idleTicks>>
  ELSE /\ totalTicks' = totalTicks + UserTick
       /\ userTicks' = userTicks + UserTick
       /\ UNCHANGED <<systemTicks, idleTicks>>

\* OneTick as far as the first handler, or to its end when nothing is due.
OneTick ==
  /\ totalTicks < MaxTicks
  /\ CountTick
  /\ IF FrontDue(totalTicks')
     THEN /\ level' = "IntOff"
          /\ inHandler' = TRUE
          /\ GoTo("tick")
          /\ UNCHANGED <<status, frames>>
     ELSE Return /\ UNCHANGED inHandler
  /\ UNCHANGED <<yieldOnReturn, pending, current, scheduled, fired>>

\* A user instruction has been executed; SetLevel(IntOn); the same at the end
\* of the Yield that OneTick called.
Instruction   == Running /\ status = "UserMode" /\ OneTick
SetLevelOn    == Running /\ status = "SystemMode" /\ level = "IntOff" /\ OneTick
YieldReturns  == Stands("yield") /\ OneTick

\* The handlers are done and OneTick goes on.
TickEnd ==
  /\ Stands("tick")
  /\ inHandler /\ ~FrontDue(totalTicks)
  /\ inHandler' = FALSE
  /\ IF yieldOnReturn
     THEN /\ Len(frames[current]) < MaxDepth
          /\ yieldOnReturn' = FALSE
          /\ frames' = [frames EXCEPT ![current] = Append(@, status)]
          /\ status' = "SystemMode"
          /\ GoTo("yield")
          /\ UNCHANGED level
     ELSE Return /\ UNCHANGED yieldOnReturn
  /\ UNCHANGED <<pending, clock, current, scheduled, fired>>

-----------------------------------------------------------------------------
(* Idle, and the handlers *)

\* Idle up to the first handler: the clock jumps to the first interrupt.
Idle ==
  /\ Running /\ level = "IntOff" /\ status = "SystemMode"
  /\ status' = "IdleMode"
  /\ IF pending = <<>>
     THEN /\ GoTo("halt")
          /\ UNCHANGED <<inHandler, totalTicks, idleTicks>>
     ELSE /\ GoTo("idle")
          /\ inHandler' = TRUE
          /\ Head(pending).when <= MaxTicks
          /\ IF Head(pending).when > totalTicks
             THEN /\ idleTicks' = idleTicks + (Head(pending).when - totalTicks)
                  /\ totalTicks' = Head(pending).when
             ELSE UNCHANGED <<idleTicks, totalTicks>>
  /\ UNCHANGED <<level, yieldOnReturn, pending, systemTicks, userTicks, current, frames,
                 scheduled, fired>>

IdleEnd ==
  /\ Stands("idle")
  /\ inHandler /\ ~FrontDue(totalTicks)
  /\ inHandler' = FALSE
  /\ status' = "SystemMode"
  /\ GoTo("code")
  /\ UNCHANGED <<level, yieldOnReturn, pending, clock, current, frames, scheduled, fired>>

\* Faulty: the alarm asks for a context switch when the machine is idle too.
AlarmCallBackAlways == yieldOnReturn' = TRUE

\* Alarm::CallBack.
AlarmCallBack == yieldOnReturn' = (yieldOnReturn \/ status # "IdleMode")

\* One round of CheckIfDue's loop.  The first round needs no test: CheckIfDue
\* was left otherwise.  A handler that only calls V schedules nothing.
Fire ==
  LET next == Head(pending) IN
  /\ inHandler /\ FrontDue(totalTicks)
  /\ fired' = [when |-> next.when, no |-> next.no]
  /\ IF next.device = Timer THEN AlarmCallBack ELSE UNCHANGED yieldOnReturn
  /\ IF next.device \in Polling \cup {Timer}
     THEN \E n \in Delay[next.device] : Schedule(next.device, n, Tail(pending))
     ELSE pending' = Tail(pending) /\ UNCHANGED scheduled
  /\ UNCHANGED <<level, inHandler, status, clock, current, at, frames>>

-----------------------------------------------------------------------------
\* All that happens but the start of a device.
Step ==
  \/ EnterUser \/ Trap \/ SetLevelOff \/ Instruction \/ SetLevelOn \/ YieldReturns
  \/ TickEnd \/ Idle \/ IdleEnd \/ Fire
  \/ \E t \in Thread : SwitchTo(t)

Next == Step \/ \E d \in Device : StartDevice(d)

Spec == Init /\ [][Next]_vars

-----------------------------------------------------------------------------
(***************************************************************************)
(* Whoever runs, wherever interrupts may be taken nothing is overdue:      *)
(* a pending interrupt lies in the future except between an advance of the *)
(* clock and the end of CheckIfDue's loop.  So disabling interrupts never  *)
(* makes one late, and Idle never jumps back.                              *)
(***************************************************************************)
NoneOverdue ==
  ~inHandler => \A i \in 1..Len(pending) : totalTicks < pending[i].when

(***************************************************************************)
(* Handlers run with interrupts off, and the context switch a handler asks *)
(* for (ASSERT of YieldOnReturn) is done by the OneTick the handler ran    *)
(* in, before any other code: it never waits in the flag for the next      *)
(* OneTick of some other thread, or for the idle loop's end.               *)
(***************************************************************************)
HandlersContained ==
  /\ inHandler => level = "IntOff" /\ at[current] \in {"tick", "idle"}
  /\ yieldOnReturn => inHandler /\ at[current] = "tick"
  /\ \A t \in Thread : t # current => at[t] \in {"code", "yield"}
  /\ \A t \in Thread : frames[t] # <<>> => at[t] \in {"tick", "yield"}
  /\ at[current] \in {"tick", "idle"} => inHandler
  /\ at[current] = "yield" => status = "SystemMode" /\ level = "IntOff"

\* Every tick is counted once: as the user's, the system's or an idle one.
ClockAccounted == totalTicks = idleTicks + systemTicks + userTicks

(***************************************************************************)
(* Interrupts come in the order of their times, those of one time in the   *)
(* order they were scheduled, each once and none early, whatever handlers  *)
(* schedule in between.                                                    *)
(***************************************************************************)
FiredInOrder ==
  [][fired' # fired =>
       /\ fired'.when <= totalTicks
       /\ \/ fired.when < fired'.when
          \/ fired.when = fired'.when /\ fired.no < fired'.no]_vars

(***************************************************************************)
(* What holds of simulated time between any two steps (interrupt.cc:155,   *)
(* :189, :206, :288).                                                      *)
(***************************************************************************)
TimeConsistent == TypeOK /\ NoneOverdue /\ HandlersContained /\ ClockAccounted
=============================================================================
