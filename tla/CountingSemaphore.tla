------------------------- MODULE CountingSemaphore -------------------------
(***************************************************************************)
(* What synch.h promises of a Semaphore: P waits until the value is        *)
(* positive and takes one unit, V adds one unit, and a unit that is there  *)
(* while somebody waits is taken in the end.  No queue, no scheduler, no   *)
(* interrupt: the specification that Threads implements.                   *)
(***************************************************************************)
EXTENDS Naturals

CONSTANTS Proc,          \* who may call P and V
          Sem,           \* the semaphores
          InitialValue   \* [Sem -> Nat], the constructor's argument

VARIABLES count,         \* count[s]: units available
          waiting        \* waiting[s]: callers inside P on s

abstractVars == <<count, waiting>>

AbstractInit ==
  /\ count = InitialValue
  /\ waiting = [s \in Sem |-> {}]

\* A caller enters P; nobody is in two P's at once.
Enter(p, s) ==
  /\ \A r \in Sem : p \notin waiting[r]
  /\ waiting' = [waiting EXCEPT ![s] = @ \cup {p}]
  /\ UNCHANGED count

\* P returns: one unit is consumed, and there was one.
Pass(p, s) ==
  /\ p \in waiting[s]
  /\ count[s] > 0
  /\ count' = [count EXCEPT ![s] = @ - 1]
  /\ waiting' = [waiting EXCEPT ![s] = @ \ {p}]

\* V, by a thread or by an interrupt handler.
Signal(s) ==
  /\ count' = [count EXCEPT ![s] = @ + 1]
  /\ UNCHANGED waiting

AbstractNext ==
  \E s \in Sem : \/ Signal(s)
                 \/ \E p \in Proc : Enter(p, s) \/ Pass(p, s)

AbstractSafety == AbstractInit /\ [][AbstractNext]_abstractVars

\* A unit does not stay unclaimed for ever while somebody waits for it.
AbstractSpec ==
  /\ AbstractSafety
  /\ \A s \in Sem : WF_abstractVars(\E p \in Proc : Pass(p, s))
=============================================================================
