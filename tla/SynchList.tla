----------------------------- MODULE SynchList -----------------------------
(***************************************************************************)
(* The monitor of threads/synchlist.cc: a List under a Lock and a          *)
(* Condition (threads/synch.cc), used by any number of threads.  The       *)
(* mailboxes of the post office are such lists.                            *)
(*                                                                         *)
(* Lock and Condition are built from semaphores, which behave as in        *)
(* CountingSemaphore: a thread stands before P, and passes at any moment   *)
(* at which the value is positive.  Kernel code loses the CPU only inside  *)
(* P and V (module Threads), so an action is the code between two of       *)
(* these.  The semaphore that Condition::Wait allocates belongs to one     *)
(* call of one thread, and is named by the thread.                         *)
(***************************************************************************)
EXTENDS Naturals, Sequences, FiniteSets, Functions

CONSTANTS
  Thread,
  Item,
  NoItem,
  NoThread,   \* the NULL of lockHolder
  MaxCalls    \* bound: calls of Append, RemoveFront and Apply

ASSUME SynchListAssumption ==
  /\ IsFiniteSet(Thread)
  /\ NoThread \notin Thread
  /\ NoItem \notin Item
  /\ MaxCalls \in Nat

VARIABLES
  list,        \* SynchList::list
  value,       \* the value of the lock's semaphore
  lockHolder,  \* Lock::lockHolder
  waitQueue,   \* Condition::waitQueue
  waiter,      \* waiter[t]: value of the semaphore in t's Condition::Wait
  pc,          \* where the thread stands
  op,          \* the call in progress, or the last one
  item,        \* the argument of t's last Append
  got,         \* what t's last RemoveFront returned
  calls        \* number of calls so far

vars == <<list, value, lockHolder, waitQueue, waiter, pc, op, item, got, calls>>

-----------------------------------------------------------------------------
\* acquire: before the P of Acquire.  locked: after it.  release: inside the
\* monitor, after a V or a call that let others run.  sleep: before waiter's P.
PC == {"idle", "acquire", "locked", "release", "sleep"}
Op == {"append", "remove", "apply"}

TypeOK ==
  /\ list \in Seq(Item)
  /\ value \in 0 .. 1
  /\ lockHolder \in Thread \cup {NoThread}
  /\ waitQueue \in Seq(Thread)
  /\ waiter \in [Thread -> 0 .. 1]
  /\ pc \in [Thread -> PC]
  /\ op \in [Thread -> Op]
  /\ item \in [Thread -> Item \cup {NoItem}]
  /\ got \in [Thread -> Item \cup {NoItem}]
  /\ calls \in 0 .. MaxCalls

Init ==
  /\ list = <<>>
  /\ value = 1
  /\ lockHolder = NoThread
  /\ waitQueue = <<>>
  /\ waiter = [t \in Thread |-> 0]
  /\ pc = [t \in Thread |-> "idle"]
  /\ op = [t \in Thread |-> "apply"]
  /\ item = [t \in Thread |-> NoItem]
  /\ got = [t \in Thread |-> NoItem]
  /\ calls = 0

\* Lock::Release, up to the point in V at which others may run.
Unlock == lockHolder' = NoThread /\ value' = 1

GoTo(t, l) == pc' = [pc EXCEPT ![t] = l]

-----------------------------------------------------------------------------
Call(t, o) ==
  /\ pc[t] = "idle"
  /\ calls < MaxCalls
  /\ calls' = calls + 1
  /\ GoTo(t, "acquire")
  /\ op' = [op EXCEPT ![t] = o]

CallAppend(t, x) ==
  /\ Call(t, "append")
  /\ item' = [item EXCEPT ![t] = x]
  /\ UNCHANGED <<list, value, lockHolder, waitQueue, waiter, got>>

CallRemoveFront(t) ==
  /\ Call(t, "remove")
  /\ UNCHANGED <<list, value, lockHolder, waitQueue, waiter, item, got>>

CallApply(t) ==
  /\ Call(t, "apply")
  /\ UNCHANGED <<list, value, lockHolder, waitQueue, waiter, item, got>>

\* The P of Lock::Acquire; lockHolder is assigned only when the thread goes on.
Acquire(t) ==
  /\ pc[t] = "acquire"
  /\ value > 0
  /\ value' = value - 1
  /\ GoTo(t, "locked")
  /\ UNCHANGED <<list, lockHolder, waitQueue, waiter, op, item, got, calls>>

\* Faulty variant: the waiter stays in the queue.
SignalKeeps ==
  /\ waitQueue # <<>>
  /\ waiter' = [waiter EXCEPT ![Head(waitQueue)] = @ + 1]
  /\ UNCHANGED waitQueue

\* Condition::Signal: V on the first waiter's semaphore, or nothing to do.
SignalFirst ==
  /\ waitQueue # <<>>
  /\ waitQueue' = Tail(waitQueue)
  /\ waiter' = [waiter EXCEPT ![Head(waitQueue)] = @ + 1]

\* Faulty variant: Append signals nobody.
AppendSilent(t) ==
  /\ pc[t] = "locked" /\ op[t] = "append"
  /\ list' = Append(list, item[t])
  /\ Unlock
  /\ GoTo(t, "idle")
  /\ UNCHANGED <<waitQueue, waiter, op, item, got, calls>>

\* Append, with the Signal, and with the Release unless Signal's V comes first.
AppendItem(t) ==
  /\ pc[t] = "locked" /\ op[t] = "append"
  /\ list' = Append(list, item[t])
  /\ \/ SignalFirst /\ lockHolder' = t /\ GoTo(t, "release") /\ UNCHANGED value
     \/ waitQueue = <<>> /\ Unlock /\ GoTo(t, "idle") /\ UNCHANGED <<waitQueue, waiter>>
  /\ UNCHANGED <<op, item, got, calls>>

RemoveFront(t) ==
  /\ pc[t] = "locked" /\ op[t] = "remove"
  /\ list # <<>>
  /\ list' = Tail(list)
  /\ got' = [got EXCEPT ![t] = Head(list)]
  /\ Unlock
  /\ GoTo(t, "idle")
  /\ UNCHANGED <<waitQueue, waiter, op, item, calls>>

\* Faulty variant: the waiter is not put on the condition's queue.
WaitUnqueued(t) ==
  /\ pc[t] = "locked" /\ op[t] = "remove"
  /\ list = <<>>
  /\ waiter' = [waiter EXCEPT ![t] = 0]
  /\ Unlock
  /\ GoTo(t, "sleep")
  /\ UNCHANGED <<list, waitQueue, op, item, got, calls>>

\* Condition::Wait up to the V of its Release.
Wait(t) ==
  /\ pc[t] = "locked" /\ op[t] = "remove"
  /\ list = <<>>
  /\ waitQueue' = Append(waitQueue, t)
  /\ waiter' = [waiter EXCEPT ![t] = 0]
  /\ Unlock
  /\ GoTo(t, "sleep")
  /\ UNCHANGED <<list, op, item, got, calls>>

\* Faulty variant: Wait returns without the lock.
WakeUnlocked(t) ==
  /\ pc[t] = "sleep"
  /\ waiter[t] > 0
  /\ waiter' = [waiter EXCEPT ![t] = @ - 1]
  /\ GoTo(t, "locked")
  /\ UNCHANGED <<list, value, lockHolder, waitQueue, op, item, got, calls>>

\* The rest of Condition::Wait: the lock is acquired again, and RemoveFront
\* then looks at the list again.
Wake(t) ==
  /\ pc[t] = "sleep"
  /\ waiter[t] > 0
  /\ waiter' = [waiter EXCEPT ![t] = @ - 1]
  /\ GoTo(t, "acquire")
  /\ UNCHANGED <<list, value, lockHolder, waitQueue, op, item, got, calls>>

\* Apply calls a function on each item, which may let others run.
Apply(t) ==
  /\ pc[t] = "locked" /\ op[t] = "apply"
  /\ lockHolder' = t
  /\ GoTo(t, "release")
  /\ UNCHANGED <<list, value, waitQueue, waiter, op, item, got, calls>>

Release(t) ==
  /\ pc[t] = "release"
  /\ Unlock
  /\ GoTo(t, "idle")
  /\ UNCHANGED <<list, waitQueue, waiter, op, item, got, calls>>

-----------------------------------------------------------------------------
Step(t) ==
  \/ Acquire(t) \/ AppendItem(t) \/ RemoveFront(t) \/ Wait(t)
  \/ Wake(t) \/ Apply(t) \/ Release(t)

Next ==
  \E t \in Thread : \/ \E x \in Item : CallAppend(t, x)
                    \/ CallRemoveFront(t)
                    \/ CallApply(t)
                    \/ Step(t)

Spec == Init /\ [][Next]_vars

\* A thread that can run is run in the end (Threads!ReadyRuns); nobody has to
\* call anything.
FairSpec == Spec /\ \A t \in Thread : WF_vars(Step(t))

-----------------------------------------------------------------------------
(* Properties *)

InMonitor == {t \in Thread : pc[t] \in {"locked", "release"}}

(***************************************************************************)
(* One thread at a time is in the monitor, the semaphore's value says      *)
(* whether there is one, and lockHolder names it: the ASSERTs of Release,  *)
(* Wait and Signal (synch.cc:204, :252, :281) hold, also in a thread that  *)
(* others overtook while it was between P and the assignment.              *)
(***************************************************************************)
MonitorExclusive ==
  /\ value = 1 <=> InMonitor = {}
  /\ \A t, u \in InMonitor : t = u
  /\ \A t \in Thread : lockHolder = t <=> pc[t] = "release"

(***************************************************************************)
(* The condition's queue holds, once each, the threads inside Wait that    *)
(* were not signalled: nobody is signalled twice, or forgotten.            *)
(***************************************************************************)
WaitersQueued ==
  /\ IsInjective(waitQueue)
  /\ \A t \in Thread : t \in Range(waitQueue) <=> pc[t] = "sleep" /\ waiter[t] = 0

(***************************************************************************)
(* The monitor is sound: lock, holder and the condition's queue match what *)
(* the threads are doing (synch.cc:170-300, synchlist.cc).                 *)
(***************************************************************************)
MonitorSound == TypeOK /\ MonitorExclusive /\ WaitersQueued

\* Threads that will look at the list without a further Signal.
Awake == {t \in Thread : /\ op[t] = "remove"
                         /\ \/ pc[t] \in {"acquire", "locked"}
                            \/ pc[t] = "sleep" /\ waiter[t] = 1}

(***************************************************************************)
(* Append signals one waiter, which may find that another thread took the  *)
(* item, and sleep again.  Still, while somebody sleeps, there is for each *)
(* item a thread on its way to the list.                                   *)
(***************************************************************************)
NoLostSignal ==
  waitQueue # <<>> => Len(list) <= Cardinality(Awake)

Abstract == INSTANCE SharedList WITH
  User <- Thread, items <- list, taken <- got,
  waiting <- {t \in Thread : op[t] = "remove" /\ pc[t] # "idle"}

\* The monitor implements the list whose calls are single steps.
ImplementsList == Abstract!ListSafety

\* With a fair CPU it also hands out what is there while somebody waits.
ListProgress == Abstract!ListSpec
=============================================================================
