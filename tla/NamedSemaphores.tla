-------------------------- MODULE NamedSemaphores --------------------------
(***************************************************************************)
(* The table of named semaphores, threads/stable.cc and threads/sem.h,     *)
(* behind the system calls CreateSemaphore, Wait and Signal.  The kernel   *)
(* is not preempted while it searches the table; a Wait that must wait     *)
(* does so inside Semaphore::P (module Threads), on the semaphore it       *)
(* found.  Nothing is ever removed, so the slots in use are the first      *)
(* ones: semTab is a sequence.                                             *)
(***************************************************************************)
EXTENDS Integers, Sequences, FiniteSets

CONSTANTS
  Callers,      \* who calls
  SemNames,     \* names programs use
  MaxSemaphore  \* MAX_SEMAPHORE

ASSUME MaxSemaphoreAssumption == MaxSemaphore \in Nat

VARIABLES
  semTab,   \* STable::semTab: the name and the value of each semaphore
  waitsOn,  \* the slot in whose P a caller waits, or 0
  initial,  \* history: the value each name was created with
  passed,   \* history: Waits on each name that have passed
  given     \* history: Signals on each name

semVars == <<semTab, waitsOn, initial, passed, given>>

SemTypeOK ==
  /\ semTab \in Seq([name : SemNames, value : Int])
  /\ waitsOn \in [Callers -> 0 .. Len(semTab)]
  /\ initial \in [SemNames -> Int]
  /\ passed \in [SemNames -> Nat]
  /\ given \in [SemNames -> Nat]

SemInit ==
  /\ semTab = <<>>
  /\ waitsOn = [c \in Callers |-> 0]
  /\ initial = [n \in SemNames |-> 0]
  /\ passed = [n \in SemNames |-> 0]
  /\ given = [n \in SemNames |-> 0]

-----------------------------------------------------------------------------
Known(n) == \E i \in DOMAIN semTab : semTab[i].name = n

\* Slot i is the one a search for the name ends at.
IsSlotOf(n, i) ==
  /\ i \in DOMAIN semTab
  /\ semTab[i].name = n
  /\ \A j \in 1 .. i - 1 : semTab[j].name # n

\* Create refuses a name it knows.
CreateRefuses(n) == Known(n) \/ Len(semTab) = MaxSemaphore

CreateFails(n) == CreateRefuses(n) /\ UNCHANGED semVars

CreateSemaphore(n, v) ==
  /\ ~CreateRefuses(n)
  /\ semTab' = Append(semTab, [name |-> n, value |-> v])
  /\ initial' = [initial EXCEPT ![n] = v]
  /\ UNCHANGED <<waitsOn, passed, given>>

\* Semaphore::P waits while the value is 0.  Faulty: it passes without
\* taking the unit.
PassFree(c, i) ==
  /\ semTab[i].value # 0
  /\ waitsOn' = [waitsOn EXCEPT ![c] = 0]
  /\ passed' = [passed EXCEPT ![semTab[i].name] = @ + 1]
  /\ UNCHANGED <<semTab, initial, given>>

Pass(c, i) ==
  /\ semTab[i].value # 0
  /\ semTab' = [semTab EXCEPT ![i].value = @ - 1]
  /\ waitsOn' = [waitsOn EXCEPT ![c] = 0]
  /\ passed' = [passed EXCEPT ![semTab[i].name] = @ + 1]
  /\ UNCHANGED <<initial, given>>

\* Wait and Signal on a name nobody created return -1.
UnknownName(n) == ~Known(n) /\ UNCHANGED semVars

Wait(c, n) ==
  /\ waitsOn[c] = 0
  /\ \E i \in DOMAIN semTab :
       /\ IsSlotOf(n, i)
       /\ \/ Pass(c, i)
          \/ /\ semTab[i].value = 0
             /\ waitsOn' = [waitsOn EXCEPT ![c] = i]
             /\ UNCHANGED <<semTab, initial, passed, given>>

\* A caller that waits finds a unit.
WaitPass(c) == waitsOn[c] # 0 /\ Pass(c, waitsOn[c])

\* Faulty variant: the search begins at the second slot.
SignalSkipsFirst(n) ==
  \/ /\ \E i \in DOMAIN semTab :
          /\ IsSlotOf(n, i) /\ i > 1
          /\ semTab' = [semTab EXCEPT ![i].value = @ + 1]
     /\ given' = [given EXCEPT ![n] = @ + 1]
     /\ UNCHANGED <<waitsOn, initial, passed>>
  \/ IsSlotOf(n, 1) /\ UNCHANGED semVars

Signal(n) ==
  /\ \E i \in DOMAIN semTab :
       /\ IsSlotOf(n, i)
       /\ semTab' = [semTab EXCEPT ![i].value = @ + 1]
  /\ given' = [given EXCEPT ![n] = @ + 1]
  /\ UNCHANGED <<waitsOn, initial, passed>>

-----------------------------------------------------------------------------
\* A name denotes one semaphore whoever creates it and however often, and no
\* unit of it is lost or made up: what it holds is what it was created with
\* and what was given, less what was taken; while the program created it
\* with no less than nothing, it never holds less.  stable.cc:27 (a second
\* Create must not make a second semaphore, which Wait would never reach).
UnitsKept ==
  \A i \in DOMAIN semTab :
    LET n == semTab[i].name
    IN /\ \A j \in DOMAIN semTab : semTab[j].name = n => j = i
       /\ semTab[i].value = initial[n] + given[n] - passed[n]
       /\ initial[n] >= 0 => semTab[i].value >= 0
=============================================================================
