-------------------------- MODULE ProcTableProofs --------------------------
(***************************************************************************)
(* Theorems about ProcTable, for every size of the table and every number  *)
(* of calls.                                                               *)
(***************************************************************************)
EXTENDS ProcTable, FiniteSetTheorems, TLAPS

-----------------------------------------------------------------------------
(* Type correctness *)

LEMMA SlotIsParent == \A p \in Slot : p \in Parent
BY ProcTableAssumption DEF Slot, Parent

LEMMA TypeInit == Init => TypeOK
<1>1. 0 \in Slot /\ -1 \in Parent
  BY ProcTableAssumption DEF Slot, Parent
<1>2. NewPCB(-1) \in PCB /\ [NewPCB(0) EXCEPT !.state = "null"] \in PCB
      /\ [NewPCB(0) EXCEPT !.state = "null"].parentID = 0
  BY <1>1, SlotIsParent, ProcTableAssumption DEF NewPCB, PCB
<1> SUFFICES ASSUME Init PROVE TypeOK
  OBVIOUS
<1> DEFINE main == NewPCB(-1)
           null == [NewPCB(0) EXCEPT !.state = "null"]
<1>3. pcb = [s \in Slot |-> IF s = 0 THEN main ELSE null]
  BY DEF Init
<1>4. main \in PCB /\ null \in PCB /\ null.parentID = 0
  BY <1>2
<1> HIDE DEF main, null
<1>5. pcb \in [Slot -> PCB] /\ \A s \in Slot \ {0} : pcb[s].parentID \in Slot
  BY <1>1, <1>3, <1>4
<1> QED
  BY <1>1, <1>5, ProcTableAssumption DEF Init, TypeOK, PC

LEMMA NewPCBType ==
  ASSUME NEW f \in Parent
  PROVE  NewPCB(f) \in PCB /\ [NewPCB(f) EXCEPT !.multex = 0] \in PCB
<1>1. NewPCB(f) \in PCB
  BY ProcTableAssumption DEF NewPCB, PCB
<1>2. \A r \in PCB : [r EXCEPT !.multex = 0] \in PCB
  BY DEF PCB
<1> QED
  BY <1>1, <1>2

\* Assigning to one PCB.
LEMMA Assign ==
  ASSUME TypeOK, NEW c \in Slot, NEW r \in PCB, pcb' = [pcb EXCEPT ![c] = r]
  PROVE  /\ pcb' \in [Slot -> PCB]
         /\ \A s \in Slot : pcb'[s] = IF s = c THEN r ELSE pcb[s]
BY DEF TypeOK

\* What the discipline is about in the table stays as it is: everything but
\* locks, counters and exit codes.
SameLinks ==
  \A s \in Slot : /\ pcb'[s].state = pcb[s].state
                  /\ pcb'[s].parentID = pcb[s].parentID
                  /\ pcb'[s].exitsem = pcb[s].exitsem

SameTable ==
  SameLinks /\ \A s \in Slot : pcb'[s].joinsem > 0 => pcb[s].joinsem > 0

\* A lock taken or given back.
LEMMA AssignLock ==
  ASSUME TypeOK, NEW c \in Slot, NEW v \in 0 .. 1, pcb' = [pcb EXCEPT ![c].multex = v]
  PROVE  /\ pcb' \in [Slot -> PCB] /\ SameTable
         /\ \A s \in Slot : /\ pcb'[s].multex = IF s = c THEN v ELSE pcb[s].multex
                            /\ pcb'[s].joinsem = pcb[s].joinsem
                            /\ pcb'[s].exitcode = pcb[s].exitcode
<1> DEFINE r == [pcb[c] EXCEPT !.multex = v]
<1>1. pcb[c] \in PCB
  BY DEF TypeOK
<1>2. /\ r \in PCB /\ r.state = pcb[c].state /\ r.parentID = pcb[c].parentID
      /\ r.exitsem = pcb[c].exitsem /\ r.joinsem = pcb[c].joinsem
      /\ r.multex = v /\ r.exitcode = pcb[c].exitcode
  BY <1>1 DEF PCB
<1>3. pcb' = [pcb EXCEPT ![c] = r]
  OBVIOUS
<1> HIDE DEF r
<1> QED
  BY <1>2, <1>3, Assign DEF SameTable, SameLinks

\* numwait changed under the lock.
LEMMA AssignCount ==
  ASSUME TypeOK, NEW c \in Slot, NEW n \in 0 .. MaxWait,
         pcb' = [pcb EXCEPT ![c].numwait = n, ![c].multex = 1]
  PROVE  /\ pcb' \in [Slot -> PCB] /\ SameTable
         /\ \A s \in Slot : /\ pcb'[s].multex = IF s = c THEN 1 ELSE pcb[s].multex
                            /\ pcb'[s].joinsem = pcb[s].joinsem
                            /\ pcb'[s].exitcode = pcb[s].exitcode
<1> DEFINE q == [pcb[c] EXCEPT !.numwait = n]
           r == [q EXCEPT !.multex = 1]
<1>1. pcb[c] \in PCB
  BY DEF TypeOK
<1>2. /\ q \in PCB /\ q.state = pcb[c].state /\ q.parentID = pcb[c].parentID
      /\ q.exitsem = pcb[c].exitsem /\ q.joinsem = pcb[c].joinsem
      /\ q.exitcode = pcb[c].exitcode
  BY <1>1 DEF PCB
<1>3. pcb' = [pcb EXCEPT ![c] = r]
  BY DEF TypeOK
<1> HIDE DEF q
<1>4. /\ r \in PCB /\ r.state = q.state /\ r.parentID = q.parentID
      /\ r.exitsem = q.exitsem /\ r.joinsem = q.joinsem
      /\ r.multex = 1 /\ r.exitcode = q.exitcode
  BY <1>2 DEF PCB
<1> HIDE DEF r
<1>5. /\ pcb' \in [Slot -> PCB]
      /\ \A s \in Slot : pcb'[s] = IF s = c THEN r ELSE pcb[s]
  BY <1>3, <1>4, Assign, Zenon
<1>6. /\ r.state = pcb[c].state /\ r.parentID = pcb[c].parentID /\ r.exitsem = pcb[c].exitsem
      /\ r.joinsem = pcb[c].joinsem /\ r.multex = 1 /\ r.exitcode = pcb[c].exitcode
  BY <1>2, <1>4
<1> QED
  BY <1>5, <1>6 DEF SameTable, SameLinks

\* joinsem assigned.
LEMMA AssignJoin ==
  ASSUME TypeOK, NEW c \in Slot, NEW v \in Nat, pcb' = [pcb EXCEPT ![c].joinsem = v]
  PROVE  /\ pcb' \in [Slot -> PCB] /\ SameLinks
         /\ \A s \in Slot \ {c} : pcb'[s].joinsem = pcb[s].joinsem
         /\ pcb'[c].joinsem = v
         /\ \A s \in Slot : /\ pcb'[s].multex = pcb[s].multex
                            /\ pcb'[s].exitcode = pcb[s].exitcode
<1> DEFINE r == [pcb[c] EXCEPT !.joinsem = v]
<1>1. pcb[c] \in PCB
  BY DEF TypeOK
<1>2. /\ r \in PCB /\ r.state = pcb[c].state /\ r.parentID = pcb[c].parentID
      /\ r.exitsem = pcb[c].exitsem /\ r.joinsem = v
      /\ r.multex = pcb[c].multex /\ r.exitcode = pcb[c].exitcode
  BY <1>1 DEF PCB
<1>3. pcb' = [pcb EXCEPT ![c] = r]
  OBVIOUS
<1> HIDE DEF r
<1> QED
  BY <1>2, <1>3, Assign DEF SameLinks

\* Of the table, only the exitsem of the PCB in slot c changes, to v.
OnlyExit(c, v) ==
  /\ pcb' \in [Slot -> PCB]
  /\ \A s \in Slot : /\ pcb'[s].state = pcb[s].state
                     /\ pcb'[s].parentID = pcb[s].parentID
                     /\ pcb'[s].joinsem = pcb[s].joinsem
                     /\ pcb'[s].exitsem = IF s = c THEN v ELSE pcb[s].exitsem
                     /\ pcb'[s].multex = pcb[s].multex
                     /\ pcb'[s].exitcode = pcb[s].exitcode

\* exitsem assigned.
LEMMA AssignExit ==
  ASSUME TypeOK, NEW c \in Slot, NEW v \in Nat, pcb' = [pcb EXCEPT ![c].exitsem = v]
  PROVE  OnlyExit(c, v)
<1> DEFINE r == [pcb[c] EXCEPT !.exitsem = v]
<1>1. pcb[c] \in PCB
  BY DEF TypeOK
<1>2. /\ r \in PCB /\ r.state = pcb[c].state /\ r.parentID = pcb[c].parentID
      /\ r.joinsem = pcb[c].joinsem /\ r.exitsem = v
      /\ r.multex = pcb[c].multex /\ r.exitcode = pcb[c].exitcode
  BY <1>1 DEF PCB
<1>3. pcb' = [pcb EXCEPT ![c] = r]
  OBVIOUS
<1> HIDE DEF r
<1>4. /\ pcb' \in [Slot -> PCB]
      /\ \A s \in Slot : pcb'[s] = IF s = c THEN r ELSE pcb[s]
  BY <1>2, <1>3, Assign, Zenon
<1> QED
  BY <1>2, <1>4 DEF OnlyExit

LEMMA FieldTypes ==
  ASSUME TypeOK, NEW c \in Slot
  PROVE  /\ pcb[c].joinsem \in Nat /\ pcb[c].exitsem \in Nat
         /\ pcb[c].numwait \in 0 .. MaxWait /\ pcb[c].multex \in 0 .. 1
         /\ pcb[c].parentID \in Parent /\ pcb[c].exitcode \in ExitCodes \cup {0}
<1>1. pcb[c] \in PCB
  BY DEF TypeOK
<1> QED
  BY <1>1 DEF PCB

\* The effect on the table of the steps that leave its links alone.
LEMMA LockSteps ==
  ASSUME TypeOK, NEW p \in Slot,
         \/ ExecUnlock(p) \/ IncPass(p) \/ Inc(p) \/ JoinPass(p) \/ DecPass(p) \/ Dec(p)
         \/ \E c \in Slot : JoinStart(p, c)
  PROVE  pcb' \in [Slot -> PCB] /\ SameTable
<1> DEFINE c == target[p]
<1>1. c \in Slot
  BY DEF TypeOK
<1>2. CASE ExecUnlock(p) \/ IncPass(p) \/ DecPass(p) \/ \E k \in Slot : JoinStart(p, k)
  <2>1. PICK s \in Slot, v \in 0 .. 1 : pcb' = [pcb EXCEPT ![s].multex = v]
    BY <1>1, <1>2 DEF ExecUnlock, IncPass, DecPass, JoinStart
  <2> QED
    BY <2>1, AssignLock
<1>3. CASE Inc(p)
  <2> DEFINE n == IF pcb[p].numwait < MaxWait THEN pcb[p].numwait + 1 ELSE pcb[p].numwait
  <2>1. n \in 0 .. MaxWait
    BY FieldTypes, ProcTableAssumption
  <2>2. pcb' = [pcb EXCEPT ![p].numwait = n, ![p].multex = 1]
    BY <1>3 DEF Inc
  <2> HIDE DEF n
  <2> QED
    BY <2>1, <2>2, AssignCount
<1>4. CASE Dec(p)
  <2> DEFINE n == IF pcb[c].numwait > 0 THEN pcb[c].numwait - 1 ELSE pcb[c].numwait
  <2>1. n \in 0 .. MaxWait
    BY <1>1, FieldTypes, ProcTableAssumption
  <2>2. pcb' = [pcb EXCEPT ![c].numwait = n, ![c].multex = 1]
    BY <1>4 DEF Dec
  <2> HIDE DEF c, n
  <2> QED
    BY <1>1, <2>1, <2>2, AssignCount
<1>5. CASE JoinPass(p)
  <2> DEFINE v == pcb[c].joinsem - 1
  <2>1. v \in Nat /\ pcb[c].joinsem > 0
    BY <1>1, <1>5, FieldTypes DEF JoinPass
  <2>2. pcb' = [pcb EXCEPT ![c].joinsem = v]
    BY <1>5 DEF JoinPass
  <2> HIDE DEF c, v
  <2> QED
    BY <1>1, <2>1, <2>2, AssignJoin DEF SameTable
<1> QED
  BY <1>2, <1>3, <1>4, <1>5

LEMMA JoinPEffect ==
  ASSUME TypeOK, NEW p \in Slot, JoinP(p), ~Fault(target[p])
  PROVE  pcb' \in [Slot -> PCB] /\ SameTable
<1> DEFINE c == target[p]
           v == IF pcb[c].joinsem > 0 THEN pcb[c].joinsem - 1 ELSE pcb[c].joinsem
<1>1. c \in Slot
  BY DEF TypeOK
<1>2. v \in Nat /\ (v > 0 => pcb[c].joinsem > 0)
  BY <1>1, FieldTypes
<1>3. pcb' = [pcb EXCEPT ![c].joinsem = v]
  BY DEF JoinP
<1> HIDE DEF c, v
<1> QED
  BY <1>1, <1>2, <1>3, AssignJoin DEF SameTable

LEMMA ExitStartEffect ==
  ASSUME TypeOK, NEW p \in Slot, ExitStart(p), ~Fault(pcb[p].parentID)
  PROVE  /\ pcb[p].parentID \in Slot /\ pcb' \in [Slot -> PCB] /\ SameTable
         /\ pcb'[p].exitcode \in ExitCodes
         /\ \A s \in Slot :
              /\ pcb'[s].multex = IF s = pcb[p].parentID THEN 0 ELSE pcb[s].multex
              /\ pcb'[s].joinsem = pcb[s].joinsem
              /\ s # p => pcb'[s].exitcode = pcb[s].exitcode
<1> DEFINE f == pcb[p].parentID
<1>1. f \in Slot
  BY DEF ExitStart, TypeOK
<1>2. PICK ec \in ExitCodes : pcb' = [pcb EXCEPT ![p].exitcode = ec, ![f].multex = 0]
  BY DEF ExitStart
<1> DEFINE r == [pcb[p] EXCEPT !.exitcode = ec]
           g == [pcb EXCEPT ![p] = r]
<1>3. pcb' = [g EXCEPT ![f] = [g[f] EXCEPT !.multex = 0]]
  BY <1>1, <1>2 DEF TypeOK
<1>4. /\ r \in PCB /\ r.state = pcb[p].state /\ r.parentID = pcb[p].parentID
      /\ r.exitsem = pcb[p].exitsem /\ r.joinsem = pcb[p].joinsem
      /\ r.multex = pcb[p].multex /\ r.exitcode = ec
  <2>1. pcb[p] \in PCB
    BY DEF TypeOK
  <2> QED
    BY <2>1 DEF PCB
<1> HIDE DEF f, r
<1>5. g \in [Slot -> PCB] /\ \A s \in Slot : g[s] = IF s = p THEN r ELSE pcb[s]
  BY <1>4 DEF TypeOK
<1> HIDE DEF g
<1> DEFINE q == [g[f] EXCEPT !.multex = 0]
<1>6. /\ q \in PCB /\ q.state = g[f].state /\ q.parentID = g[f].parentID
      /\ q.exitsem = g[f].exitsem /\ q.joinsem = g[f].joinsem
      /\ q.multex = 0 /\ q.exitcode = g[f].exitcode
  <2>1. g[f] \in PCB
    BY <1>1, <1>5
  <2> QED
    BY <2>1 DEF PCB
<1> HIDE DEF q
<1>7. pcb' \in [Slot -> PCB] /\ \A s \in Slot : pcb'[s] = IF s = f THEN q ELSE g[s]
  BY <1>1, <1>3, <1>5, <1>6 DEF q
<1>8. SameTable
  BY <1>4, <1>5, <1>6, <1>7 DEF SameTable, SameLinks
<1>9. /\ pcb'[p].exitcode \in ExitCodes
      /\ \A s \in Slot :
           /\ pcb'[s].multex = IF s = f THEN 0 ELSE pcb[s].multex
           /\ pcb'[s].joinsem = pcb[s].joinsem
           /\ s # p => pcb'[s].exitcode = pcb[s].exitcode
  BY <1>2, <1>4, <1>5, <1>6, <1>7
<1> QED
  BY <1>1, <1>7, <1>8, <1>9 DEF f

LEMMA ReleaseEffect ==
  ASSUME TypeOK, NEW p \in Slot, Release(p)
  PROVE  /\ pcb' \in [Slot -> PCB] /\ SameLinks
         /\ \A s \in Slot \ {p} : pcb'[s].joinsem = pcb[s].joinsem
<1> DEFINE v == pcb[p].joinsem + 1
<1>1. v \in Nat
  BY FieldTypes
<1>2. pcb' = [pcb EXCEPT ![p].joinsem = v]
  BY DEF Release
<1> HIDE DEF v
<1> QED
  BY <1>1, <1>2, AssignJoin

LEMMA CollectEffect ==
  ASSUME TypeOK, NEW p \in Slot, Collect(p), ~Fault(target[p])
  PROVE  /\ pcb' \in [Slot -> PCB]
         /\ \A s \in Slot : /\ pcb'[s].state = pcb[s].state
                            /\ pcb'[s].parentID = pcb[s].parentID
                            /\ pcb'[s].joinsem = pcb[s].joinsem
                            /\ pcb'[s].exitsem = IF s = target[p] THEN pcb[s].exitsem + 1
                                                                ELSE pcb[s].exitsem
<1> DEFINE c == target[p]
           v == pcb[c].exitsem + 1
<1>1. c \in Slot
  BY DEF TypeOK
<1>2. v \in Nat
  BY <1>1, FieldTypes
<1>3. pcb' = [pcb EXCEPT ![c].exitsem = v]
  BY DEF Collect
<1>4. v = pcb[c].exitsem + 1 /\ c = target[p]
  OBVIOUS
<1> HIDE DEF c, v
<1>5. /\ pcb' \in [Slot -> PCB]
      /\ \A s \in Slot : /\ pcb'[s].state = pcb[s].state
                         /\ pcb'[s].parentID = pcb[s].parentID
                         /\ pcb'[s].joinsem = pcb[s].joinsem
                         /\ pcb'[s].exitsem = IF s = c THEN v ELSE pcb[s].exitsem
  <2>1. OnlyExit(c, v)
    BY <1>1, <1>2, <1>3, AssignExit, Zenon
  <2> QED
    BY <2>1 DEF OnlyExit
<1> QED
  BY <1>4, <1>5

LEMMA ExitSemEffect ==
  ASSUME TypeOK, NEW p \in Slot, ExitP(p) \/ ExitPass(p)
  PROVE  /\ pcb' \in [Slot -> PCB]
         /\ \A s \in Slot : /\ pcb'[s].state = pcb[s].state
                            /\ pcb'[s].parentID = pcb[s].parentID
                            /\ pcb'[s].joinsem = pcb[s].joinsem
                            /\ s # p => pcb'[s].exitsem = pcb[s].exitsem
         /\ pcb[p].exitsem \in 0 .. 1 => pcb'[p].exitsem = 0
<1> DEFINE v == IF pcb[p].exitsem > 0 THEN pcb[p].exitsem - 1 ELSE pcb[p].exitsem
<1>1. v \in Nat /\ (pcb[p].exitsem \in 0 .. 1 => v = 0)
  BY FieldTypes
<1>2. pcb' = [pcb EXCEPT ![p].exitsem = v]
  BY DEF ExitP, ExitPass
<1> HIDE DEF v
<1>3. /\ pcb' \in [Slot -> PCB]
      /\ \A s \in Slot : /\ pcb'[s].state = pcb[s].state
                         /\ pcb'[s].parentID = pcb[s].parentID
                         /\ pcb'[s].joinsem = pcb[s].joinsem
                         /\ pcb'[s].exitsem = IF s = p THEN v ELSE pcb[s].exitsem
  BY <1>1, <1>2, AssignExit DEF OnlyExit
<1> QED
  BY <1>1, <1>3

LEMMA RemoveEffect ==
  ASSUME TypeOK, NEW p \in Slot, Remove(p)
  PROVE  /\ pcb' \in [Slot -> PCB]
         /\ \A s \in Slot \ {p} : pcb'[s] = pcb[s]
         /\ pcb'[p].state = "deleted" /\ pcb'[p].parentID = pcb[p].parentID
<1> DEFINE r == [pcb[p] EXCEPT !.state = "deleted"]
<1>1. r \in PCB /\ r.state = "deleted" /\ r.parentID = pcb[p].parentID
  <2>1. pcb[p] \in PCB
    BY DEF TypeOK
  <2> QED
    BY <2>1 DEF PCB
<1>2. pcb' = [pcb EXCEPT ![p] = r]
  BY DEF Remove
<1>3. pcb \in [Slot -> PCB]
  BY DEF TypeOK
<1> HIDE DEF r
<1> QED
  BY <1>1, <1>2, <1>3

LEMMA ExecForkEffect ==
  ASSUME TypeOK, NEW p \in Slot, ExecFork(p)
  PROVE  /\ pcb' \in [Slot -> PCB]
         /\ \A s \in Slot : /\ pcb'[s].state = pcb[s].state
                            /\ pcb'[s].parentID = IF s = target[p] THEN p ELSE pcb[s].parentID
                            /\ pcb'[s].joinsem = pcb[s].joinsem
                            /\ pcb'[s].exitsem = pcb[s].exitsem
                            /\ pcb'[s].multex = pcb[s].multex
                            /\ pcb'[s].exitcode = pcb[s].exitcode
<1> DEFINE c == target[p]
           r == [pcb[c] EXCEPT !.parentID = p]
<1>1. c \in Slot
  BY DEF TypeOK
<1>2. /\ r \in PCB /\ r.state = pcb[c].state /\ r.parentID = p
      /\ r.exitsem = pcb[c].exitsem /\ r.joinsem = pcb[c].joinsem
      /\ r.multex = pcb[c].multex /\ r.exitcode = pcb[c].exitcode
  <2>1. pcb[c] \in PCB /\ p \in Parent
    BY <1>1, SlotIsParent DEF TypeOK
  <2> QED
    BY <2>1 DEF PCB
<1>3. pcb' = [pcb EXCEPT ![c] = r]
  BY DEF ExecFork
<1>4. c = target[p]
  OBVIOUS
<1> HIDE DEF c, r
<1>5. pcb' \in [Slot -> PCB] /\ \A s \in Slot : pcb'[s] = IF s = c THEN r ELSE pcb[s]
  BY <1>1, <1>2, <1>3, Assign
<1>6. \A s \in Slot : /\ pcb'[s].state = pcb[s].state
                      /\ pcb'[s].parentID = IF s = c THEN p ELSE pcb[s].parentID
                      /\ pcb'[s].joinsem = pcb[s].joinsem
                      /\ pcb'[s].exitsem = pcb[s].exitsem
                      /\ pcb'[s].multex = pcb[s].multex
                      /\ pcb'[s].exitcode = pcb[s].exitcode
  BY <1>2, <1>5
<1> QED
  BY <1>4, <1>5, <1>6

LEMMA AllocateEffect ==
  ASSUME TypeOK, NEW p \in Slot, ExecAllocate(p)
  PROVE  /\ pcb' \in [Slot -> PCB]
         /\ target' \in [Slot -> Slot] /\ target'[p] \in Slot \ bm
         /\ \A s \in Slot \ {p} : target'[s] = target[s]
         /\ bm' = bm \cup {target'[p]}
         /\ orphans' = orphans \ {target'[p]}
         /\ \A s \in Slot \ {target'[p]} : pcb'[s] = pcb[s]
         /\ LET r == pcb'[target'[p]] IN
              /\ r.state = "live" /\ r.parentID = p
              /\ r.joinsem = 0 /\ r.exitsem = 0 /\ r.multex = 0
<1>1. PICK c \in Slot \ bm :
        /\ bm' = bm \cup {c}
        /\ pcb' = [pcb EXCEPT ![c] = [NewPCB(p) EXCEPT !.multex = 0]]
        /\ orphans' = orphans \ {c}
        /\ target' = [target EXCEPT ![p] = c]
  BY DEF ExecAllocate
<1> DEFINE r == [NewPCB(p) EXCEPT !.multex = 0]
<1>2. r \in PCB
  BY NewPCBType, SlotIsParent
<1>3. /\ r.state = "live" /\ r.parentID = p
      /\ r.joinsem = 0 /\ r.exitsem = 0 /\ r.multex = 0
  BY DEF NewPCB
<1>4. pcb' = [pcb EXCEPT ![c] = r]
  BY <1>1
<1> HIDE DEF r
<1>5. target' \in [Slot -> Slot] /\ target'[p] = c /\ \A s \in Slot \ {p} : target'[s] = target[s]
  BY <1>1 DEF TypeOK
<1>6. pcb' \in [Slot -> PCB] /\ \A s \in Slot : pcb'[s] = IF s = c THEN r ELSE pcb[s]
  BY <1>2, <1>4, Assign
<1>7. bm' = bm \cup {c} /\ orphans' = orphans \ {c}
  BY <1>1
<1> QED
  BY <1>3, <1>5, <1>6, <1>7

LEMMA TypeExec ==
  ASSUME TypeOK, NEW p \in Slot, ExecStep(p)
  PROVE  TypeOK'
<1>1. CASE ExecStart(p)
  <2>1. pc' \in [Slot -> PC]
    BY <1>1 DEF ExecStart, PassOrWait, GoTo, TypeOK, PC, ExecPC
  <2> QED
    BY <1>1, <2>1, ProcTableAssumption DEF ExecStart, TypeOK
<1>2. CASE ExecPass(p)
  <2>1. pc' \in [Slot -> PC]
    BY <1>2 DEF ExecPass, GoTo, TypeOK, PC, ExecPC
  <2> QED
    BY <1>2, <2>1 DEF ExecPass, TypeOK
<1>3. CASE ExecReject(p)
  <2>1. pc' \in [Slot -> PC]
    BY <1>3 DEF ExecReject, GoTo, TypeOK, PC, ExecPC
  <2> QED
    BY <1>3, <2>1 DEF ExecReject, TypeOK
<1>4. CASE ExecAllocate(p)
  <2>1. pc' \in [Slot -> PC]
    BY <1>4 DEF ExecAllocate, GoTo, TypeOK, PC, ExecPC
  <2>2. /\ pcb' \in [Slot -> PCB]
        /\ \A s \in Slot \ {0} : pcb'[s].parentID \in Slot
    BY <1>4, AllocateEffect DEF TypeOK
  <2>3. bm' \subseteq Slot /\ target' \in [Slot -> Slot] /\ orphans' \subseteq Slot
    <3>1. /\ target' \in [Slot -> Slot] /\ target'[p] \in Slot
          /\ bm' = bm \cup {target'[p]} /\ orphans' = orphans \ {target'[p]}
      BY <1>4, AllocateEffect
    <3> QED
      BY <3>1 DEF TypeOK
  <2> QED
    BY <1>4, <2>1, <2>2, <2>3 DEF ExecAllocate, TypeOK
<1>5. CASE ExecFork(p)
  <2>1. pc' \in [Slot -> PC]
    BY <1>5 DEF ExecFork, GoTo, TypeOK, PC, ExecPC
  <2>2. /\ pcb' \in [Slot -> PCB]
        /\ \A s \in Slot \ {0} : pcb'[s].parentID \in Slot
    <3>1. /\ pcb' \in [Slot -> PCB]
          /\ \A s \in Slot : pcb'[s].parentID = IF s = target[p] THEN p ELSE pcb[s].parentID
      BY <1>5, ExecForkEffect
    <3> QED
      BY <3>1 DEF TypeOK
  <2> QED
    BY <1>5, <2>1, <2>2 DEF ExecFork, TypeOK
<1>6. CASE ExecUnlock(p)
  <2>1. pc' \in [Slot -> PC]
    BY <1>6 DEF ExecUnlock, GoTo, TypeOK, PC, ExecPC
  <2>2. /\ pcb' \in [Slot -> PCB]
        /\ \A s \in Slot \ {0} : pcb'[s].parentID \in Slot
    BY <1>6, LockSteps DEF SameTable, SameLinks, TypeOK
  <2> QED
    BY <1>6, <2>1, <2>2 DEF ExecUnlock, TypeOK
<1>7. CASE ExecReturn(p)
  <2>1. pc' \in [Slot -> PC]
    BY <1>7 DEF ExecReturn, GoTo, TypeOK, PC, ExecPC
  <2>2. kids' \in [Slot -> SUBSET Slot]
    <3>1. target[p] \in Slot /\ kids[p] \subseteq Slot
      BY DEF TypeOK
    <3> QED
      BY <1>7, <3>1 DEF ExecReturn, TypeOK
  <2> QED
    BY <1>7, <2>1, <2>2 DEF ExecReturn, TypeOK
<1>8. CASE Load(p)
  <2>1. pc' \in [Slot -> PC]
    BY <1>8 DEF Load, GoTo, TypeOK, PC, ExecPC
  <2> QED
    BY <1>8, <2>1 DEF Load, TypeOK
<1> QED
  BY <1>1, <1>2, <1>3, <1>4, <1>5, <1>6, <1>7, <1>8 DEF ExecStep

LEMMA TypeJoin ==
  ASSUME TypeOK, NEW p \in Slot, JoinStep(p)
  PROVE  TypeOK'
<1>1. ASSUME NEW c \in Slot, JoinStart(p, c)
      PROVE  TypeOK'
  <2>1. pc' \in [Slot -> PC]
    BY <1>1 DEF JoinStart, PassOrWait, GoTo, TypeOK, PC, JoinPC
  <2>2. /\ pcb' \in [Slot -> PCB]
        /\ \A s \in Slot \ {0} : pcb'[s].parentID \in Slot
    BY <1>1, LockSteps DEF SameTable, SameLinks, TypeOK
  <2> QED
    BY <1>1, <2>1, <2>2 DEF JoinStart, TypeOK
<1>2. CASE IncPass(p)
  <2>1. pc' \in [Slot -> PC]
    BY <1>2 DEF IncPass, GoTo, TypeOK, PC, JoinPC
  <2>2. /\ pcb' \in [Slot -> PCB]
        /\ \A s \in Slot \ {0} : pcb'[s].parentID \in Slot
    BY <1>2, LockSteps DEF SameTable, SameLinks, TypeOK
  <2> QED
    BY <1>2, <2>1, <2>2 DEF IncPass, TypeOK
<1>3. CASE Inc(p)
  <2>1. pc' \in [Slot -> PC]
    BY <1>3 DEF Inc, GoTo, TypeOK, PC, JoinPC
  <2>2. /\ pcb' \in [Slot -> PCB]
        /\ \A s \in Slot \ {0} : pcb'[s].parentID \in Slot
    BY <1>3, LockSteps DEF SameTable, SameLinks, TypeOK
  <2> QED
    BY <1>3, <2>1, <2>2 DEF Inc, TypeOK
<1>4. CASE JoinP(p)
  <2>1. CASE Fault(target[p])
    BY <2>1 DEF Fault, TypeOK
  <2>2. CASE ~Fault(target[p])
    <3>1. pc' \in [Slot -> PC]
      BY <1>4, <2>2 DEF JoinP, PassOrWait, GoTo, TypeOK, PC, JoinPC
    <3>2. /\ pcb' \in [Slot -> PCB]
          /\ \A s \in Slot \ {0} : pcb'[s].parentID \in Slot
      BY <1>4, <2>2, JoinPEffect DEF SameTable, SameLinks, TypeOK
    <3> QED
      BY <1>4, <2>2, <3>1, <3>2 DEF JoinP, TypeOK
  <2> QED
    BY <2>1, <2>2
<1>5. CASE JoinPass(p)
  <2>1. pc' \in [Slot -> PC]
    BY <1>5 DEF JoinPass, GoTo, TypeOK, PC, JoinPC
  <2>2. /\ pcb' \in [Slot -> PCB]
        /\ \A s \in Slot \ {0} : pcb'[s].parentID \in Slot
    BY <1>5, LockSteps DEF SameTable, SameLinks, TypeOK
  <2> QED
    BY <1>5, <2>1, <2>2 DEF JoinPass, TypeOK
<1>6. CASE Collect(p)
  <2>1. CASE Fault(target[p])
    BY <2>1 DEF Fault, TypeOK
  <2>2. CASE ~Fault(target[p])
    <3>1. pc' \in [Slot -> PC]
      BY <1>6, <2>2 DEF Collect, PassOrWait, GoTo, TypeOK, PC, JoinPC
    <3>2. kids' \in [Slot -> SUBSET Slot]
      BY <1>6, <2>2 DEF Collect, TypeOK
    <3>3. \A s \in Slot \ {0} : pcb'[s].parentID \in Slot
      BY <1>6, <2>2, CollectEffect DEF TypeOK
    <3> QED
      BY <1>6, <2>2, <3>1, <3>2, <3>3, CollectEffect DEF Collect, TypeOK
  <2> QED
    BY <2>1, <2>2
<1> QED
  BY <1>1, <1>2, <1>3, <1>4, <1>5, <1>6 DEF JoinStep

LEMMA TypeExit ==
  ASSUME TypeOK, NEW p \in Slot, ExitStep(p)
  PROVE  TypeOK'
<1>1. CASE MainExit \/ UserHalt(p)
  BY <1>1 DEF MainExit, UserHalt, TypeOK
<1>2. CASE ExitStart(p)
  <2>1. CASE Fault(pcb[p].parentID)
    BY <2>1 DEF Fault, TypeOK
  <2>2. CASE ~Fault(pcb[p].parentID)
    <3>1. pc' \in [Slot -> PC]
      BY <1>2, <2>2 DEF ExitStart, PassOrWait, GoTo, TypeOK, PC, ExitPC
    <3>2. /\ pcb' \in [Slot -> PCB]
          /\ \A s \in Slot \ {0} : pcb'[s].parentID \in Slot
      BY <1>2, <2>2, ExitStartEffect DEF SameTable, SameLinks, TypeOK
    <3> QED
      BY <1>2, <2>2, <3>1, <3>2, ExitStartEffect DEF ExitStart, TypeOK
  <2> QED
    BY <2>1, <2>2
<1>3. CASE DecPass(p)
  <2>1. pc' \in [Slot -> PC]
    BY <1>3 DEF DecPass, GoTo, TypeOK, PC, ExitPC
  <2>2. /\ pcb' \in [Slot -> PCB]
        /\ \A s \in Slot \ {0} : pcb'[s].parentID \in Slot
    BY <1>3, LockSteps DEF SameTable, SameLinks, TypeOK
  <2> QED
    BY <1>3, <2>1, <2>2 DEF DecPass, TypeOK
<1>4. CASE Dec(p)
  <2>1. pc' \in [Slot -> PC]
    BY <1>4 DEF Dec, GoTo, TypeOK, PC, ExitPC
  <2>2. /\ pcb' \in [Slot -> PCB]
        /\ \A s \in Slot \ {0} : pcb'[s].parentID \in Slot
    BY <1>4, LockSteps DEF SameTable, SameLinks, TypeOK
  <2> QED
    BY <1>4, <2>1, <2>2 DEF Dec, TypeOK
<1>5. CASE Release(p)
  <2>1. pc' \in [Slot -> PC]
    BY <1>5 DEF Release, GoTo, TypeOK, PC, ExitPC
  <2>2. /\ pcb' \in [Slot -> PCB]
        /\ \A s \in Slot \ {0} : pcb'[s].parentID \in Slot
    BY <1>5, ReleaseEffect DEF SameTable, SameLinks, TypeOK
  <2> QED
    BY <1>5, <2>1, <2>2 DEF Release, TypeOK
<1>6. CASE ExitP(p)
  <2>1. pc' \in [Slot -> PC]
    BY <1>6 DEF ExitP, PassOrWait, GoTo, TypeOK, PC, ExitPC
  <2>2. /\ pcb' \in [Slot -> PCB]
        /\ \A s \in Slot \ {0} : pcb'[s].parentID \in Slot
    <3>1. pcb' \in [Slot -> PCB] /\ \A s \in Slot : pcb'[s].parentID = pcb[s].parentID
      BY <1>6, ExitSemEffect
    <3> QED
      BY <3>1 DEF TypeOK
  <2> QED
    BY <1>6, <2>1, <2>2 DEF ExitP, TypeOK
<1>7. CASE ExitPass(p)
  <2>1. pc' \in [Slot -> PC]
    BY <1>7 DEF ExitPass, GoTo, TypeOK, PC, ExitPC
  <2>2. /\ pcb' \in [Slot -> PCB]
        /\ \A s \in Slot \ {0} : pcb'[s].parentID \in Slot
    <3>1. pcb' \in [Slot -> PCB] /\ \A s \in Slot : pcb'[s].parentID = pcb[s].parentID
      BY <1>7, ExitSemEffect
    <3> QED
      BY <3>1 DEF TypeOK
  <2> QED
    BY <1>7, <2>1, <2>2 DEF ExitPass, TypeOK
<1>8. CASE Remove(p)
  <2>1. pc' \in [Slot -> PC]
    BY <1>8 DEF Remove, GoTo, TypeOK, PC, ExitPC
  <2>2. /\ pcb' \in [Slot -> PCB]
        /\ \A s \in Slot \ {0} : pcb'[s].parentID \in Slot
    BY <1>8, RemoveEffect DEF TypeOK
  <2> QED
    BY <1>8, <2>1, <2>2 DEF Remove, TypeOK
<1> QED
  BY <1>1, <1>2, <1>3, <1>4, <1>5, <1>6, <1>7, <1>8 DEF ExitStep

LEMMA TypeNext == TypeOK /\ [Next]_vars => TypeOK'
<1> SUFFICES ASSUME TypeOK, [Next]_vars PROVE TypeOK'
  OBVIOUS
<1>1. CASE UNCHANGED vars
  BY <1>1 DEF vars, TypeOK
<1> QED
  BY <1>1, TypeExec, TypeJoin, TypeExit DEF Next, Stopped, Step

(***************************************************************************)
(* Every field of the table keeps its type; numwait does not go below 0    *)
(* and no lock above 1 under any order of calls.                           *)
(***************************************************************************)
THEOREM TypeCorrect == Spec => []TypeOK
BY TypeInit, TypeNext, PTL DEF Spec

-----------------------------------------------------------------------------
(* The inductive invariant of programs that keep the discipline *)

Creating == {"execFork", "execUnlock", "execReturn"}
Leaving  == {"exitP", "exitWait", "remove"}

\* Its parent has read c's exit code.
Collected(c) == pcb[c].exitsem > 0 \/ pc[c] = "remove"

\* c is a process that p created and has not collected.
Child(p, c) ==
  /\ c \in bm \ {0}
  /\ pcb[c].parentID = p
  /\ ~Collected(c)

SlotsMatch ==
  /\ 0 \in bm
  /\ \A s \in Slot : /\ s \in bm <=> pcb[s].state = "live"
                     /\ pc[s] # "none" => s \in bm

KidsMatch == \A p \in Slot : \A c \in kids[p] : Child(p, c)

CreatingMatch ==
  \A p \in Slot :
    /\ pc[p] \in Creating => Child(p, target[p])
    /\ pc[p] = "execFork" => pc[target[p]] = "none"

\* Whoever still has to notify its parent is known to the parent.
ParentsMatch ==
  \A c \in bm \ {0} : ~Collected(c) =>
    LET p == pcb[c].parentID IN
    /\ p \in bm
    /\ c \notin orphans
    /\ c \in kids[p] \/ (pc[p] \in Creating /\ target[p] = c)

JoiningMatch ==
  \A p \in Slot :
    /\ pc[p] \in JoinPC => target[p] \in kids[p]
    /\ pc[p] = "collect" => pc[target[p]] \in {"exitP", "exitWait"}

ExitingMatch ==
  \A c \in Slot :
    /\ pc[c] \in ExitPC => c # 0 /\ kids[c] = {}
    /\ pc[c] \in {"decWait", "dec"} => target[c] = pcb[c].parentID
    /\ c \in bm /\ pcb[c].joinsem > 0 => pc[c] \in Leaving
    /\ c \in bm /\ pcb[c].exitsem > 0 => pcb[c].exitsem = 1 /\ pc[c] \in {"exitP", "exitWait"}

DisciplineInv ==
  /\ TypeOK
  /\ SlotsMatch
  /\ KidsMatch
  /\ CreatingMatch
  /\ ParentsMatch
  /\ JoiningMatch
  /\ ExitingMatch
  /\ NoUseAfterDelete

\* p's thread goes to l, with what is asked of the places it leaves and enters.
Moves(p, l) ==
  /\ UNCHANGED <<bm, kids, orphans>> /\ SameLinks
  /\ pc' = [pc EXCEPT ![p] = l]
  /\ \A s \in Slot \ {p} : /\ target'[s] = target[s]
                           /\ pcb'[s].joinsem > 0 => pcb[s].joinsem > 0
  /\ pc[p] \notin {"none", "remove"} /\ l \notin {"none", "remove", "execFork"}
  /\ pc[p] \in Creating <=> l \in Creating
  /\ pc[p] \in Creating => target'[p] = target[p]
  /\ pc[p] \in Leaving => l \in Leaving
  /\ l \in JoinPC => target'[p] \in kids[p]
  /\ l = "collect" => target'[p] # p /\ pc[target'[p]] \in {"exitP", "exitWait"}
  /\ l \in ExitPC => p # 0 /\ kids[p] = {}
  /\ l \in {"decWait", "dec"} => target'[p] = pcb[p].parentID
  /\ pcb'[p].joinsem > 0 => l \in Leaving

LEMMA MoveKeeps ==
  ASSUME DisciplineInv, TypeOK', NoUseAfterDelete', NEW p \in Slot, NEW l \in PC, Moves(p, l)
  PROVE  DisciplineInv'
<1>1. /\ \A s \in Slot : pc'[s] = IF s = p THEN l ELSE pc[s]
      /\ bm' = bm /\ kids' = kids /\ orphans' = orphans
  BY DEF Moves, DisciplineInv, TypeOK
<1>2. /\ pc[p] \notin {"none", "remove"} /\ l \notin {"none", "remove", "execFork"}
      /\ \A s \in Slot \ {p} : target'[s] = target[s]
  BY DEF Moves
<1>3. \A s \in Slot : /\ pcb'[s].state = pcb[s].state
                      /\ pcb'[s].parentID = pcb[s].parentID
                      /\ pcb'[s].exitsem = pcb[s].exitsem
  BY DEF Moves, SameLinks
<1>4. \A c \in Slot : Collected(c)' <=> Collected(c)
  BY <1>1, <1>2, <1>3 DEF Collected
<1>5. \A q, c \in Slot : Child(q, c)' <=> Child(q, c)
  BY <1>1, <1>3, <1>4 DEF Child
<1>6. TypeOK
  BY DEF DisciplineInv
<1>7. SlotsMatch'
  BY <1>1, <1>2, <1>3 DEF DisciplineInv, SlotsMatch
<1>8. KidsMatch'
  BY <1>1, <1>5, <1>6 DEF DisciplineInv, KidsMatch, TypeOK
<1>9. CreatingMatch'
  <2> SUFFICES ASSUME NEW q \in Slot, pc'[q] \in Creating
               PROVE  /\ Child(q, target[q])'
                      /\ pc'[q] = "execFork" => pc'[target'[q]] = "none"
    BY DEF CreatingMatch, Creating
  <2>1. PICK c \in Slot : c = target[q]
    BY <1>6 DEF TypeOK
  <2>2. pc[q] \in Creating /\ target'[q] = c /\ (pc'[q] = "execFork" => pc[q] = "execFork")
    BY <1>1, <1>2, <2>1 DEF Moves
  <2>3. Child(q, c) /\ (pc[q] = "execFork" => pc[c] = "none")
    BY <2>1, <2>2 DEF DisciplineInv, CreatingMatch
  <2>4. Child(q, c)'
    BY <1>5, <2>3
  <2>5. Child(q, target[q])'
    BY <2>2, <2>4 DEF Child, Collected
  <2> QED
    BY <1>1, <1>2, <2>2, <2>3, <2>5
<1>10. ParentsMatch'
  <2> SUFFICES ASSUME NEW c \in bm \ {0}, ~Collected(c)
               PROVE  LET q == pcb[c].parentID IN
                      /\ q \in bm
                      /\ c \notin orphans
                      /\ c \in kids[q] \/ (pc'[q] \in Creating /\ target'[q] = c)
    BY <1>1, <1>3, <1>4, <1>6 DEF ParentsMatch, TypeOK
  <2> DEFINE q == pcb[c].parentID
  <2>1. q \in bm /\ c \notin orphans /\ (c \in kids[q] \/ (pc[q] \in Creating /\ target[q] = c))
    BY DEF DisciplineInv, ParentsMatch
  <2>2. q \in Slot
    BY <1>6, <2>1 DEF TypeOK
  <2>3. pc[q] \in Creating => pc'[q] \in Creating /\ target'[q] = target[q]
    BY <1>1, <1>2, <2>2 DEF Moves
  <2> QED
    BY <2>1, <2>3
<1>11. JoiningMatch'
  <2> SUFFICES ASSUME NEW q \in Slot
               PROVE  /\ pc'[q] \in JoinPC => target'[q] \in kids[q]
                      /\ pc'[q] = "collect" => pc'[target'[q]] \in {"exitP", "exitWait"}
    BY <1>1 DEF JoiningMatch
  <2>1. CASE q = p
    <3>1. l = "collect" => target'[p] \in Slot
      BY DEF TypeOK
    <3> QED
      BY <1>1, <2>1, <3>1 DEF Moves
  <2>2. CASE q # p
    <3>1. target[q] \in Slot /\ target'[q] = target[q] /\ pc'[q] = pc[q]
      BY <1>1, <1>2, <1>6, <2>2 DEF TypeOK
    <3>2. /\ pc[q] \in JoinPC => target[q] \in kids[q]
          /\ pc[q] = "collect" => pc[target[q]] \in {"exitP", "exitWait"}
      BY DEF DisciplineInv, JoiningMatch
    <3>3. pc[p] \in {"exitP", "exitWait"} => l \in {"exitP", "exitWait"}
      BY DEF Moves, Leaving
    <3> QED
      BY <1>1, <3>1, <3>2, <3>3
  <2> QED
    BY <2>1, <2>2
<1>12. ExitingMatch'
  <2> SUFFICES ASSUME NEW c \in Slot
               PROVE  /\ pc'[c] \in ExitPC => c # 0 /\ kids[c] = {}
                      /\ pc'[c] \in {"decWait", "dec"} => target'[c] = pcb[c].parentID
                      /\ c \in bm /\ pcb'[c].joinsem > 0 => pc'[c] \in Leaving
                      /\ c \in bm /\ pcb[c].exitsem > 0 =>
                           pcb[c].exitsem = 1 /\ pc'[c] \in {"exitP", "exitWait"}
    BY <1>1, <1>3 DEF ExitingMatch
  <2>1. /\ pc[c] \in ExitPC => c # 0 /\ kids[c] = {}
        /\ pc[c] \in {"decWait", "dec"} => target[c] = pcb[c].parentID
        /\ c \in bm /\ pcb[c].joinsem > 0 => pc[c] \in Leaving
        /\ c \in bm /\ pcb[c].exitsem > 0 =>
             pcb[c].exitsem = 1 /\ pc[c] \in {"exitP", "exitWait"}
    BY DEF DisciplineInv, ExitingMatch
  <2>2. CASE c = p
    BY <1>1, <2>1, <2>2 DEF Moves, Leaving
  <2>3. CASE c # p
    BY <1>1, <1>2, <2>1, <2>3 DEF Moves
  <2> QED
    BY <2>2, <2>3
<1> QED
  BY <1>7, <1>8, <1>9, <1>10, <1>11, <1>12 DEF DisciplineInv

\* A move that leaves joinsem alone, or takes from it.
LEMMA TableMoves ==
  ASSUME DisciplineInv, NEW p \in Slot, NEW l \in PC, SameTable,
         pc[p] # "none", pc[p] \in Leaving => l \in Leaving
  PROVE  /\ SameLinks
         /\ \A s \in Slot \ {p} : pcb'[s].joinsem > 0 => pcb[s].joinsem > 0
         /\ pcb'[p].joinsem > 0 => l \in Leaving
<1>1. p \in bm
  BY DEF DisciplineInv, SlotsMatch
<1>2. pcb[p].joinsem > 0 => pc[p] \in Leaving
  BY <1>1 DEF DisciplineInv, ExitingMatch
<1> QED
  BY <1>2 DEF SameTable

LEMMA SameTableIfUnchanged == pcb' = pcb => SameTable
BY DEF SameTable, SameLinks

\* The steps of Exec that only move the thread.
LEMMA ExecMoves ==
  ASSUME DisciplineInv, TypeOK', NEW p \in Slot,
         ExecStart(p) \/ ExecPass(p) \/ ExecReject(p) \/ ExecUnlock(p) \/ Load(p)
  PROVE  DisciplineInv'
<1> DEFINE l == pc'[p]
<1>1. TypeOK
  BY DEF DisciplineInv
<1>2. l \in PC
  BY DEF TypeOK
<1>3. /\ UNCHANGED <<bm, target, kids, outcome, orphans>>
      /\ pc' = [pc EXCEPT ![p] = l]
  BY <1>1 DEF ExecStart, ExecPass, ExecReject, ExecUnlock, Load, PassOrWait, GoTo, TypeOK
<1>4. \/ pc[p] \in {"user", "execWait", "exec", "load"} /\ l \in {"user", "execWait", "exec", "dead"}
      \/ pc[p] = "execUnlock" /\ l = "execReturn"
  BY <1>1 DEF ExecStart, ExecPass, ExecReject, ExecUnlock, Load, PassOrWait, GoTo, At, TypeOK
<1>5. SameTable
  <2>1. CASE ExecUnlock(p)
    BY <1>1, <2>1, LockSteps
  <2>2. CASE ExecStart(p) \/ ExecPass(p) \/ ExecReject(p) \/ Load(p)
    BY <2>2, SameTableIfUnchanged DEF ExecStart, ExecPass, ExecReject, Load
  <2> QED
    BY <2>1, <2>2
<1>6. NoUseAfterDelete'
  BY <1>3 DEF NoUseAfterDelete, DisciplineInv
<1> HIDE DEF l
<1>7. Moves(p, l)
  <2>1. /\ SameLinks
        /\ \A s \in Slot \ {p} : pcb'[s].joinsem > 0 => pcb[s].joinsem > 0
        /\ pcb'[p].joinsem > 0 => l \in Leaving
    BY <1>2, <1>4, <1>5, TableMoves DEF Leaving
  <2> QED
    BY <1>3, <1>4, <2>1 DEF Moves, Creating, Leaving, JoinPC, ExitPC
<1> QED
  BY <1>2, <1>6, <1>7, MoveKeeps

\* The steps of Join that only move the thread; none uses a deleted PCB.
LEMMA JoinMoves ==
  ASSUME Disciplined, DisciplineInv, TypeOK', NEW p \in Slot,
         \/ \E c \in Slot : JoinStart(p, c)
         \/ IncPass(p) \/ Inc(p) \/ JoinP(p) \/ JoinPass(p)
  PROVE  DisciplineInv'
<1> DEFINE l == pc'[p]
<1>1. TypeOK
  BY DEF DisciplineInv
<1>2. l \in PC
  BY DEF TypeOK
<1>3. ASSUME pc[p] \in JoinPC
      PROVE  /\ target[p] \in kids[p] /\ target[p] \in bm
             /\ pcb[target[p]].state = "live" /\ pc[target[p]] # "remove"
             /\ pcb[target[p]].joinsem > 0 => pc[target[p]] \in Leaving
  <2> DEFINE c == target[p]
  <2>1. c \in kids[p] /\ c \in Slot
    BY <1>1, <1>3 DEF DisciplineInv, JoiningMatch, TypeOK
  <2>2. Child(p, c)
    BY <2>1 DEF DisciplineInv, KidsMatch
  <2>3. c \in bm /\ pc[c] # "remove"
    BY <2>2 DEF Child, Collected
  <2> QED
    BY <2>1, <2>3 DEF DisciplineInv, SlotsMatch, ExitingMatch
<1>4. JoinP(p) => ~Fault(target[p])
  BY <1>3 DEF JoinP, At, JoinPC, Fault
<1>5. /\ UNCHANGED <<bm, kids, outcome, orphans>>
      /\ pc' = [pc EXCEPT ![p] = l]
      /\ \A s \in Slot \ {p} : target'[s] = target[s]
  BY <1>1, <1>4 DEF JoinStart, IncPass, Inc, JoinP, JoinPass, PassOrWait, GoTo, TypeOK
<1>6. \/ pc[p] = "user" /\ target'[p] \in kids[p] /\ l \in {"inc", "incWait"}
      \/ pc[p] \in {"incWait", "inc"} /\ target' = target /\ l \in {"inc", "join"}
      \/ /\ pc[p] \in {"join", "joinWait"} /\ target' = target
         /\ \/ l = "joinWait"
            \/ l = "collect" /\ pcb[target[p]].joinsem > 0
  <2>1. ASSUME NEW c \in Slot, JoinStart(p, c)
        PROVE  pc[p] = "user" /\ target'[p] \in kids[p] /\ l \in {"inc", "incWait"}
    BY <1>1, <2>1 DEF JoinStart, PassOrWait, GoTo, At, TypeOK
  <2>2. CASE IncPass(p) \/ Inc(p)
    BY <1>1, <2>2 DEF IncPass, Inc, GoTo, At, TypeOK
  <2>3. CASE JoinP(p)
    BY <1>1, <1>4, <2>3 DEF JoinP, PassOrWait, GoTo, At, TypeOK
  <2>4. CASE JoinPass(p)
    BY <1>1, <2>4 DEF JoinPass, GoTo, At, TypeOK
  <2> QED
    BY <2>1, <2>2, <2>3, <2>4
<1>7. SameTable
  BY <1>1, <1>4, LockSteps, JoinPEffect
<1>8. NoUseAfterDelete'
  BY <1>5 DEF NoUseAfterDelete, DisciplineInv
<1> HIDE DEF l
<1>9. Moves(p, l)
  <2>1. /\ SameLinks
        /\ \A s \in Slot \ {p} : pcb'[s].joinsem > 0 => pcb[s].joinsem > 0
        /\ pcb'[p].joinsem > 0 => l \in Leaving
    BY <1>2, <1>6, <1>7, TableMoves DEF Leaving
  <2>2. l \in JoinPC /\ target'[p] \in kids[p]
    BY <1>3, <1>6 DEF JoinPC
  <2>3. l = "collect" => target'[p] # p /\ pc[target'[p]] \in {"exitP", "exitWait"}
    BY <1>3, <1>6 DEF JoinPC, Leaving
  <2> QED
    BY <1>5, <1>6, <2>1, <2>2, <2>3 DEF Moves, Creating, Leaving, JoinPC, ExitPC
<1> QED
  BY <1>2, <1>8, <1>9, MoveKeeps

\* The steps of Exit that only move the thread; none uses a deleted PCB.
LEMMA ExitMoves ==
  ASSUME Disciplined, DisciplineInv, TypeOK', NEW p \in Slot,
         ExitStart(p) \/ DecPass(p) \/ Dec(p) \/ Release(p)
  PROVE  DisciplineInv'
<1> DEFINE l == pc'[p]
<1>1. TypeOK
  BY DEF DisciplineInv
<1>2. l \in PC
  BY DEF TypeOK
<1>3. ExitStart(p) => ~Fault(pcb[p].parentID)
  <2> SUFFICES ASSUME ExitStart(p) PROVE ~Fault(pcb[p].parentID)
    OBVIOUS
  <2>1. p # 0 /\ pc[p] = "user"
    BY DEF ExitStart, At
  <2>2. p \in bm \ {0}
    BY <2>1 DEF DisciplineInv, SlotsMatch
  <2>3. ~Collected(p)
    BY <2>1, <2>2, FieldTypes DEF DisciplineInv, ExitingMatch, Collected
  <2>4. pcb[p].parentID \in bm
    BY <2>2, <2>3 DEF DisciplineInv, ParentsMatch
  <2>5. pcb[pcb[p].parentID].state = "live"
    BY <1>1, <2>4 DEF DisciplineInv, SlotsMatch, TypeOK
  <2> QED
    BY <2>5 DEF Fault
<1>4. /\ UNCHANGED <<bm, kids, outcome, orphans>>
      /\ pc' = [pc EXCEPT ![p] = l]
      /\ \A s \in Slot \ {p} : target'[s] = target[s]
  <2>1. CASE ExitStart(p)
    <3>1. /\ UNCHANGED <<bm, kids, outcome, orphans>>
          /\ \E k : pc' = [pc EXCEPT ![p] = k]
          /\ \E f : target' = [target EXCEPT ![p] = f]
      BY <1>3, <2>1 DEF ExitStart, PassOrWait, GoTo
    <3> QED
      BY <1>1, <3>1 DEF TypeOK
  <2>2. CASE DecPass(p) \/ Dec(p) \/ Release(p)
    <3>1. UNCHANGED <<bm, kids, outcome, orphans, target>> /\ \E k : pc' = [pc EXCEPT ![p] = k]
      BY <2>2 DEF DecPass, Dec, Release, GoTo
    <3> QED
      BY <1>1, <3>1 DEF TypeOK
  <2> QED
    BY <2>1, <2>2
<1>5. \/ /\ pc[p] = "user" /\ p # 0 /\ kids[p] = {} /\ l \in {"dec", "decWait"}
         /\ target'[p] = pcb[p].parentID
      \/ pc[p] = "decWait" /\ target' = target /\ l = "dec"
      \/ pc[p] \in {"dec", "release"} /\ l = (IF pc[p] = "dec" THEN "release" ELSE "exitP")
  <2>1. CASE ExitStart(p)
    <3>1. pcb[p].parentID \in Slot
      BY <1>1, <2>1 DEF ExitStart, TypeOK
    <3>2. /\ pc[p] = "user" /\ p # 0 /\ kids[p] = {}
          /\ target' = [target EXCEPT ![p] = pcb[p].parentID]
          /\ \/ pc' = [pc EXCEPT ![p] = "dec"]
             \/ pc' = [pc EXCEPT ![p] = "decWait"]
      BY <1>3, <2>1 DEF ExitStart, PassOrWait, GoTo, At
    <3> QED
      BY <1>1, <3>1, <3>2 DEF TypeOK
  <2>2. CASE DecPass(p) \/ Dec(p) \/ Release(p)
    BY <1>1, <2>2 DEF DecPass, Dec, Release, GoTo, At, TypeOK
  <2> QED
    BY <2>1, <2>2
<1>6. /\ SameLinks
      /\ \A s \in Slot \ {p} : pcb'[s].joinsem > 0 => pcb[s].joinsem > 0
      /\ pcb'[p].joinsem > 0 => l \in Leaving
  <2>1. CASE Release(p)
    <3>1. l = "exitP"
      BY <1>1, <2>1 DEF Release, GoTo, TypeOK
    <3> QED
      BY <1>1, <2>1, <3>1, ReleaseEffect DEF Leaving
  <2>2. CASE ExitStart(p) \/ DecPass(p) \/ Dec(p)
    <3>1. SameTable
      BY <1>1, <1>3, <2>2, LockSteps, ExitStartEffect
    <3> QED
      BY <1>2, <1>5, <3>1, TableMoves DEF Leaving
  <2> QED
    BY <2>1, <2>2
<1>7. NoUseAfterDelete'
  BY <1>4 DEF NoUseAfterDelete, DisciplineInv
<1> HIDE DEF l
<1>8. Moves(p, l)
  <2>1. pc[p] \in ExitPC => p # 0 /\ kids[p] = {}
    BY DEF DisciplineInv, ExitingMatch
  <2>2. pc[p] = "decWait" => target[p] = pcb[p].parentID
    BY DEF DisciplineInv, ExitingMatch
  <2> QED
    BY <1>4, <1>5, <1>6, <2>1, <2>2 DEF Moves, Creating, Leaving, JoinPC, ExitPC
<1> QED
  BY <1>2, <1>7, <1>8, MoveKeeps

\* A new slot: nobody's target, child or creator yet.
LEMMA AllocateKeeps ==
  ASSUME DisciplineInv, TypeOK', NEW p \in Slot, ExecAllocate(p)
  PROVE  DisciplineInv'
<1>1. TypeOK
  BY DEF DisciplineInv
<1>2. PICK c \in Slot \ bm :
        /\ bm' = bm \cup {c} /\ orphans' = orphans \ {c}
        /\ \A s \in Slot \ {p} : target'[s] = target[s]
        /\ \A s \in Slot \ {c} : pcb'[s] = pcb[s]
        /\ pcb'[c].state = "live" /\ pcb'[c].parentID = p
        /\ pcb'[c].joinsem = 0 /\ pcb'[c].exitsem = 0
        /\ target'[p] = c
  BY <1>1, AllocateEffect
<1>3. c = target'[p]
  BY <1>2
<1>4. /\ pc[p] = "exec" /\ kids' = kids /\ outcome' = outcome
      /\ \A s \in Slot : pc'[s] = IF s = p THEN "execFork" ELSE pc[s]
  BY <1>1 DEF ExecAllocate, At, GoTo, TypeOK
<1>5. /\ p \in bm /\ c # p /\ c # 0 /\ pc[c] = "none"
      /\ \A s \in Slot : pc[s] # "none" => s \in bm
  BY <1>2, <1>4 DEF DisciplineInv, SlotsMatch
<1>6. \A k \in bm : Collected(k)' <=> Collected(k)
  BY <1>1, <1>2, <1>4 DEF Collected, TypeOK
<1>7. \A q \in Slot, k \in Slot : Child(q, k) => Child(q, k)'
  BY <1>2, <1>6 DEF Child
<1>8. Child(p, c)'
  BY <1>2, <1>4, <1>5 DEF Child, Collected
<1>9. SlotsMatch'
  BY <1>2, <1>4, <1>5 DEF DisciplineInv, SlotsMatch
<1>10. KidsMatch'
  BY <1>1, <1>4, <1>7 DEF DisciplineInv, KidsMatch, TypeOK
<1>11. CreatingMatch'
  <2> SUFFICES ASSUME NEW q \in Slot, pc'[q] \in Creating
               PROVE  /\ Child(q, target[q])'
                      /\ pc'[q] = "execFork" => pc'[target'[q]] = "none"
    BY DEF CreatingMatch, Creating
  <2>1. PICK k \in Slot : k = target'[q]
    BY DEF TypeOK
  <2>2. Child(q, k)' /\ (pc'[q] = "execFork" => pc'[k] = "none")
    <3>1. CASE q = p
      BY <1>3, <1>4, <1>5, <1>8, <2>1, <3>1
    <3>2. CASE q # p
      <4>1. pc[q] \in Creating /\ pc'[q] = pc[q] /\ target[q] = k
        BY <1>2, <1>4, <2>1, <3>2
      <4>2. Child(q, k) /\ (pc[q] = "execFork" => pc[k] = "none")
        BY <4>1 DEF DisciplineInv, CreatingMatch
      <4> QED
        BY <1>4, <1>7, <4>1, <4>2
    <3> QED
      BY <3>1, <3>2
  <2>3. Child(q, target[q])'
    BY <2>1, <2>2 DEF Child, Collected
  <2> QED
    BY <2>1, <2>2, <2>3
<1>12. ParentsMatch'
  <2> SUFFICES ASSUME NEW s \in bm' \ {0}, ~Collected(s)'
               PROVE  LET q == pcb'[s].parentID IN
                      /\ q \in bm'
                      /\ s \notin orphans'
                      /\ s \in kids'[q] \/ (pc'[q] \in Creating /\ target'[q] = s)
    BY DEF ParentsMatch
  <2>1. CASE s = c
    BY <1>2, <1>3, <1>4, <1>5, <2>1 DEF Creating
  <2>2. CASE s # c
    <3> DEFINE q == pcb[s].parentID
    <3>1. s \in bm \ {0} /\ s \in Slot /\ ~Collected(s) /\ pcb'[s] = pcb[s]
      BY <1>1, <1>2, <1>6, <2>2 DEF TypeOK
    <3>2. q \in bm /\ s \notin orphans /\ (s \in kids[q] \/ (pc[q] \in Creating /\ target[q] = s))
      BY <3>1 DEF DisciplineInv, ParentsMatch
    <3>3. q \in Slot /\ (pc[q] \in Creating => q # p)
      BY <1>1, <1>4, <3>2 DEF TypeOK, Creating
    <3> QED
      BY <1>2, <1>4, <3>1, <3>2, <3>3
  <2> QED
    BY <2>1, <2>2
<1>13. JoiningMatch'
  <2> SUFFICES ASSUME NEW q \in Slot, pc'[q] \in JoinPC
               PROVE  /\ target'[q] \in kids'[q]
                      /\ pc'[q] = "collect" => pc'[target'[q]] \in {"exitP", "exitWait"}
    BY DEF JoiningMatch, JoinPC
  <2>1. q # p /\ pc[q] \in JoinPC /\ pc'[q] = pc[q] /\ target'[q] = target[q] /\ target[q] \in Slot
    BY <1>1, <1>2, <1>4 DEF JoinPC, TypeOK
  <2>2. /\ target[q] \in kids[q]
        /\ pc[q] = "collect" => pc[target[q]] \in {"exitP", "exitWait"}
    BY <2>1 DEF DisciplineInv, JoiningMatch
  <2> QED
    BY <1>4, <2>1, <2>2
<1>14. ExitingMatch'
  <2> SUFFICES ASSUME NEW s \in Slot
               PROVE  /\ pc'[s] \in ExitPC => s # 0 /\ kids'[s] = {}
                      /\ pc'[s] \in {"decWait", "dec"} => target'[s] = pcb'[s].parentID
                      /\ s \in bm' /\ pcb'[s].joinsem > 0 => pc'[s] \in Leaving
                      /\ s \in bm' /\ pcb'[s].exitsem > 0 =>
                           pcb'[s].exitsem = 1 /\ pc'[s] \in {"exitP", "exitWait"}
    BY DEF ExitingMatch
  <2>1. CASE s = c
    BY <1>2, <1>4, <1>5, <2>1 DEF ExitPC
  <2>2. CASE s = p
    BY <1>2, <1>4, <1>5, <2>2 DEF DisciplineInv, ExitingMatch, ExitPC, Leaving
  <2>3. CASE s # c /\ s # p
    BY <1>2, <1>4, <2>3 DEF DisciplineInv, ExitingMatch
  <2> QED
    BY <2>1, <2>2, <2>3
<1> QED
  BY <1>4, <1>9, <1>10, <1>11, <1>12, <1>13, <1>14 DEF DisciplineInv, NoUseAfterDelete

\* The child starts while its creator is between Fork and the V of its multex.
LEMMA ForkKeeps ==
  ASSUME DisciplineInv, TypeOK', NEW p \in Slot, ExecFork(p)
  PROVE  DisciplineInv'
<1>1. TypeOK
  BY DEF DisciplineInv
<1>2. PICK c \in Slot : c = target[p]
  BY <1>1 DEF TypeOK
<1>3. pc[p] = "execFork" /\ UNCHANGED <<bm, target, kids, outcome, orphans>>
  BY DEF ExecFork, At
<1>4. Child(p, c) /\ pc[c] = "none"
  BY <1>2, <1>3 DEF DisciplineInv, CreatingMatch, Creating
<1>5. \A s \in Slot : pc'[s] = IF s = p THEN "execUnlock" ELSE IF s = c THEN "load" ELSE pc[s]
  BY <1>1, <1>2, <1>3, <1>4 DEF ExecFork, TypeOK
<1>6. \A s \in Slot : /\ pcb'[s].state = pcb[s].state
                      /\ pcb'[s].parentID = pcb[s].parentID
                      /\ pcb'[s].joinsem = pcb[s].joinsem
                      /\ pcb'[s].exitsem = pcb[s].exitsem
  BY <1>1, <1>2, <1>4, ExecForkEffect DEF Child
<1>7. \A s \in Slot : Collected(s)' <=> Collected(s)
  BY <1>3, <1>4, <1>5, <1>6 DEF Collected
<1>8. \A q, k \in Slot : Child(q, k)' <=> Child(q, k)
  BY <1>3, <1>6, <1>7 DEF Child
<1>9. SlotsMatch'
  BY <1>3, <1>4, <1>5, <1>6 DEF DisciplineInv, SlotsMatch, Child
<1>10. KidsMatch'
  BY <1>1, <1>3, <1>8 DEF DisciplineInv, KidsMatch, TypeOK
<1>11. CreatingMatch'
  <2> SUFFICES ASSUME NEW q \in Slot, pc'[q] \in Creating
               PROVE  /\ Child(q, target[q])'
                      /\ pc'[q] = "execFork" => pc'[target'[q]] = "none"
    BY DEF CreatingMatch, Creating
  <2>1. PICK k \in Slot : k = target[q]
    BY <1>1 DEF TypeOK
  <2>2. pc[q] \in Creating /\ (pc'[q] = "execFork" => pc[q] = "execFork" /\ q # p)
    BY <1>3, <1>4, <1>5 DEF Creating
  <2>3. Child(q, k) /\ (pc[q] = "execFork" => pc[k] = "none")
    BY <2>1, <2>2 DEF DisciplineInv, CreatingMatch
  <2>4. Child(q, k)'
    BY <1>8, <2>3
  <2>5. Child(q, target[q])'
    BY <1>3, <2>1, <2>4 DEF Child, Collected
  <2>6. k = c => q = p
    BY <1>4, <2>3 DEF Child
  <2> QED
    BY <1>3, <1>5, <2>1, <2>2, <2>3, <2>5, <2>6
<1>12. ParentsMatch'
  <2> SUFFICES ASSUME NEW s \in bm \ {0}, ~Collected(s)
               PROVE  LET q == pcb[s].parentID IN
                      /\ q \in bm
                      /\ s \notin orphans
                      /\ s \in kids[q] \/ (pc'[q] \in Creating /\ target[q] = s)
    BY <1>1, <1>3, <1>6, <1>7 DEF ParentsMatch, TypeOK
  <2> DEFINE q == pcb[s].parentID
  <2>1. q \in bm /\ s \notin orphans /\ (s \in kids[q] \/ (pc[q] \in Creating /\ target[q] = s))
    BY DEF DisciplineInv, ParentsMatch
  <2>2. q \in Slot
    BY <1>1, <2>1 DEF TypeOK
  <2>3. pc[q] \in Creating => pc'[q] \in Creating
    BY <1>4, <1>5, <2>2 DEF Creating
  <2> QED
    BY <2>1, <2>3
<1>13. JoiningMatch'
  BY <1>1, <1>3, <1>4, <1>5 DEF DisciplineInv, JoiningMatch, JoinPC, TypeOK
<1>14. ExitingMatch'
  <2> SUFFICES ASSUME NEW s \in Slot
               PROVE  /\ pc'[s] \in ExitPC => s # 0 /\ kids[s] = {}
                      /\ pc'[s] \in {"decWait", "dec"} => target[s] = pcb[s].parentID
                      /\ s \in bm /\ pcb[s].joinsem > 0 => pc'[s] \in Leaving
                      /\ s \in bm /\ pcb[s].exitsem > 0 =>
                           pcb[s].exitsem = 1 /\ pc'[s] \in {"exitP", "exitWait"}
    BY <1>3, <1>6 DEF ExitingMatch
  <2> QED
    BY <1>3, <1>4, <1>5 DEF DisciplineInv, ExitingMatch, ExitPC, Leaving
<1> QED
  BY <1>3, <1>9, <1>10, <1>11, <1>12, <1>13, <1>14 DEF DisciplineInv, NoUseAfterDelete

\* Exec returns the child's id to the program.
LEMMA ReturnKeeps ==
  ASSUME DisciplineInv, TypeOK', NEW p \in Slot, ExecReturn(p)
  PROVE  DisciplineInv'
<1>1. TypeOK
  BY DEF DisciplineInv
<1>2. PICK c \in Slot : c = target[p]
  BY <1>1 DEF TypeOK
<1>3. /\ pc[p] = "execReturn" /\ UNCHANGED <<bm, pcb, target, outcome, orphans>>
      /\ \A s \in Slot : pc'[s] = IF s = p THEN "user" ELSE pc[s]
      /\ \A s \in Slot : kids'[s] = IF s = p THEN kids[p] \cup {c} ELSE kids[s]
  BY <1>1, <1>2 DEF ExecReturn, At, GoTo, TypeOK
<1>4. Child(p, c)
  BY <1>2, <1>3 DEF DisciplineInv, CreatingMatch, Creating
<1>5. \A s \in Slot : Collected(s)' <=> Collected(s)
  BY <1>3 DEF Collected
<1>6. \A q, k \in Slot : Child(q, k)' <=> Child(q, k)
  BY <1>3, <1>5 DEF Child
<1>7. SlotsMatch'
  BY <1>3 DEF DisciplineInv, SlotsMatch
<1>8. KidsMatch'
  BY <1>1, <1>3, <1>4, <1>6 DEF DisciplineInv, KidsMatch, TypeOK
<1>9. CreatingMatch'
  <2> SUFFICES ASSUME NEW q \in Slot, pc'[q] \in Creating
               PROVE  /\ Child(q, target[q])'
                      /\ pc'[q] = "execFork" => pc'[target'[q]] = "none"
    BY DEF CreatingMatch, Creating
  <2>1. PICK k \in Slot : k = target[q]
    BY <1>1 DEF TypeOK
  <2>2. pc[q] \in Creating /\ pc'[q] = pc[q]
    BY <1>3 DEF Creating
  <2>3. Child(q, k) /\ (pc[q] = "execFork" => pc[k] = "none")
    BY <2>1, <2>2 DEF DisciplineInv, CreatingMatch
  <2>4. Child(q, k)'
    BY <1>6, <2>3
  <2>5. Child(q, target[q])'
    BY <1>3, <2>1, <2>4 DEF Child, Collected
  <2> QED
    BY <1>3, <2>1, <2>2, <2>3, <2>5
<1>10. ParentsMatch'
  <2> SUFFICES ASSUME NEW s \in bm \ {0}, ~Collected(s)
               PROVE  LET q == pcb[s].parentID IN
                      /\ q \in bm
                      /\ s \notin orphans
                      /\ s \in kids'[q] \/ (pc'[q] \in Creating /\ target[q] = s)
    BY <1>1, <1>3, <1>5 DEF ParentsMatch, TypeOK
  <2> DEFINE q == pcb[s].parentID
  <2>1. q \in bm /\ s \notin orphans /\ (s \in kids[q] \/ (pc[q] \in Creating /\ target[q] = s))
    BY DEF DisciplineInv, ParentsMatch
  <2>2. q \in Slot
    BY <1>1, <2>1 DEF TypeOK
  <2> QED
    BY <1>2, <1>3, <2>1, <2>2
<1>11. JoiningMatch'
  BY <1>1, <1>3 DEF DisciplineInv, JoiningMatch, JoinPC, TypeOK
<1>12. ExitingMatch'
  <2> SUFFICES ASSUME NEW s \in Slot
               PROVE  /\ pc'[s] \in ExitPC => s # 0 /\ kids'[s] = {}
                      /\ pc'[s] \in {"decWait", "dec"} => target[s] = pcb[s].parentID
                      /\ s \in bm /\ pcb[s].joinsem > 0 => pc'[s] \in Leaving
                      /\ s \in bm /\ pcb[s].exitsem > 0 =>
                           pcb[s].exitsem = 1 /\ pc'[s] \in {"exitP", "exitWait"}
    BY <1>3 DEF ExitingMatch
  <2> QED
    BY <1>3 DEF DisciplineInv, ExitingMatch, ExitPC, Leaving
<1> QED
  BY <1>3, <1>7, <1>8, <1>9, <1>10, <1>11, <1>12 DEF DisciplineInv, NoUseAfterDelete

\* What a thread in the middle of Collect knows of its target.
LEMMA CollectKnows ==
  ASSUME DisciplineInv, NEW p \in Slot, pc[p] = "collect"
  PROVE  /\ target[p] \in Slot /\ target[p] \in kids[p] /\ Child(p, target[p])
         /\ pcb[target[p]].state = "live" /\ pcb[target[p]].exitsem = 0
         /\ pc[target[p]] \in {"exitP", "exitWait"} /\ target[p] # p
<1>1. target[p] \in Slot /\ target[p] \in kids[p] /\ pc[target[p]] \in {"exitP", "exitWait"}
  BY DEF DisciplineInv, JoiningMatch, JoinPC, TypeOK
<1>2. Child(p, target[p])
  BY <1>1 DEF DisciplineInv, KidsMatch
<1>3. target[p] \in bm /\ ~(pcb[target[p]].exitsem > 0)
  BY <1>2 DEF Child, Collected
<1>4. pcb[target[p]].exitsem \in Nat
  BY <1>1, FieldTypes DEF DisciplineInv
<1>5. pcb[target[p]].exitsem = 0
  BY <1>3, <1>4
<1> QED
  BY <1>1, <1>2, <1>3, <1>5 DEF DisciplineInv, SlotsMatch

\* A Join releases its child, which no one else will look for.
LEMMA CollectKeepsInv ==
  ASSUME DisciplineInv, TypeOK', NEW p \in Slot, Collect(p)
  PROVE  DisciplineInv'
<1>1. TypeOK
  BY DEF DisciplineInv
<1>2. pc[p] = "collect"
  BY DEF Collect, At
<1>3. PICK c \in Slot : c = target[p]
  BY <1>1 DEF TypeOK
<1>4. /\ c \in kids[p] /\ Child(p, c) /\ pcb[c].state = "live" /\ pcb[c].exitsem = 0
      /\ pc[c] \in {"exitP", "exitWait"} /\ c # p
  BY <1>2, <1>3, CollectKnows
<1>5. ~Fault(target[p])
  BY <1>3, <1>4 DEF Fault
<1>6. /\ UNCHANGED <<bm, target, outcome, orphans>>
      /\ \A s \in Slot : pc'[s] = IF s = p THEN "user" ELSE pc[s]
      /\ \A s \in Slot : kids'[s] = IF s = p THEN kids[p] \ {c} ELSE kids[s]
  BY <1>1, <1>3, <1>5 DEF Collect, GoTo, TypeOK
<1>7. \A s \in Slot : /\ pcb'[s].state = pcb[s].state
                      /\ pcb'[s].parentID = pcb[s].parentID
                      /\ pcb'[s].joinsem = pcb[s].joinsem
                      /\ pcb'[s].exitsem = IF s = c THEN 1 ELSE pcb[s].exitsem
  BY <1>1, <1>3, <1>4, <1>5, CollectEffect
<1>8. \A s \in Slot \ {c} : Collected(s)' <=> Collected(s)
  BY <1>2, <1>6, <1>7 DEF Collected
<1>9. Collected(c)'
  BY <1>7 DEF Collected
<1>10. \A q \in Slot, k \in Slot \ {c} : Child(q, k)' <=> Child(q, k)
  BY <1>6, <1>7, <1>8 DEF Child
<1>11. \A q \in Slot : Child(q, c) => q = p
  BY <1>4 DEF Child
<1>12. SlotsMatch'
  BY <1>2, <1>6, <1>7 DEF DisciplineInv, SlotsMatch
<1>13. KidsMatch'
  <2> SUFFICES ASSUME NEW q \in Slot, NEW k \in kids'[q]
               PROVE  Child(q, k)'
    BY DEF KidsMatch
  <2>1. k \in kids[q] /\ k \in Slot
    BY <1>1, <1>6 DEF TypeOK
  <2>2. Child(q, k)
    BY <2>1 DEF DisciplineInv, KidsMatch
  <2>3. k # c
    BY <1>6, <1>11, <2>2
  <2> QED
    BY <1>10, <2>1, <2>2, <2>3
<1>14. CreatingMatch'
  <2> SUFFICES ASSUME NEW q \in Slot, pc'[q] \in Creating
               PROVE  /\ Child(q, target[q])'
                      /\ pc'[q] = "execFork" => pc'[target'[q]] = "none"
    BY DEF CreatingMatch, Creating
  <2>1. PICK k \in Slot : k = target[q]
    BY <1>1 DEF TypeOK
  <2>2. pc[q] \in Creating /\ pc'[q] = pc[q] /\ q # p
    BY <1>2, <1>6 DEF Creating
  <2>3. Child(q, k) /\ (pc[q] = "execFork" => pc[k] = "none")
    BY <2>1, <2>2 DEF DisciplineInv, CreatingMatch
  <2>4. Child(q, k)'
    BY <1>10, <1>11, <2>2, <2>3
  <2>5. Child(q, target[q])'
    BY <1>6, <2>1, <2>4 DEF Child, Collected
  <2> QED
    BY <1>2, <1>6, <2>1, <2>2, <2>3, <2>5
<1>15. ParentsMatch'
  <2> SUFFICES ASSUME NEW s \in bm \ {0}, s # c, ~Collected(s)
               PROVE  LET q == pcb[s].parentID IN
                      /\ q \in bm
                      /\ s \notin orphans
                      /\ s \in kids'[q] \/ (pc'[q] \in Creating /\ target[q] = s)
    BY <1>1, <1>6, <1>7, <1>8, <1>9 DEF ParentsMatch, TypeOK
  <2> DEFINE q == pcb[s].parentID
  <2>1. q \in bm /\ s \notin orphans /\ (s \in kids[q] \/ (pc[q] \in Creating /\ target[q] = s))
    BY DEF DisciplineInv, ParentsMatch
  <2>2. q \in Slot
    BY <1>1, <2>1 DEF TypeOK
  <2> QED
    BY <1>2, <1>6, <2>1, <2>2 DEF Creating
<1>16. JoiningMatch'
  <2> SUFFICES ASSUME NEW q \in Slot, pc'[q] \in JoinPC
               PROVE  /\ target'[q] \in kids'[q]
                      /\ pc'[q] = "collect" => pc'[target'[q]] \in {"exitP", "exitWait"}
    BY DEF JoiningMatch, JoinPC
  <2>1. q # p /\ pc[q] \in JoinPC /\ pc'[q] = pc[q] /\ target[q] \in Slot
    BY <1>1, <1>6 DEF JoinPC, TypeOK
  <2>2. /\ target[q] \in kids[q]
        /\ pc[q] = "collect" => pc[target[q]] \in {"exitP", "exitWait"}
    BY <2>1 DEF DisciplineInv, JoiningMatch
  <2> QED
    BY <1>2, <1>6, <2>1, <2>2
<1>17. ExitingMatch'
  <2> SUFFICES ASSUME NEW s \in Slot
               PROVE  /\ pc'[s] \in ExitPC => s # 0 /\ kids'[s] = {}
                      /\ pc'[s] \in {"decWait", "dec"} => target[s] = pcb[s].parentID
                      /\ s \in bm /\ pcb[s].joinsem > 0 => pc'[s] \in Leaving
                      /\ s \in bm /\ pcb'[s].exitsem > 0 =>
                           pcb'[s].exitsem = 1 /\ pc'[s] \in {"exitP", "exitWait"}
    BY <1>6, <1>7 DEF ExitingMatch
  <2>1. /\ pc[s] \in ExitPC => s # 0 /\ kids[s] = {}
        /\ pc[s] \in {"decWait", "dec"} => target[s] = pcb[s].parentID
        /\ s \in bm /\ pcb[s].joinsem > 0 => pc[s] \in Leaving
        /\ s \in bm /\ pcb[s].exitsem > 0 =>
             pcb[s].exitsem = 1 /\ pc[s] \in {"exitP", "exitWait"}
    BY DEF DisciplineInv, ExitingMatch
  <2>2. CASE s = p
    BY <1>2, <1>4, <1>6, <1>7, <2>1, <2>2 DEF ExitPC, Leaving
  <2>3. CASE s # p
    BY <1>4, <1>6, <1>7, <2>1, <2>3
  <2> QED
    BY <2>2, <2>3
<1> QED
  BY <1>6, <1>12, <1>13, <1>14, <1>15, <1>16, <1>17 DEF DisciplineInv, NoUseAfterDelete

\* A process goes to wait for its parent, or its parent already let it go.
LEMMA ExitPKeeps ==
  ASSUME DisciplineInv, TypeOK', NEW p \in Slot, ExitP(p) \/ ExitPass(p)
  PROVE  DisciplineInv'
<1>1. TypeOK
  BY DEF DisciplineInv
<1>2. pc[p] \in {"exitP", "exitWait"} /\ UNCHANGED <<bm, target, kids, outcome, orphans>>
  BY DEF ExitP, ExitPass, At
<1>3. /\ pcb' \in [Slot -> PCB]
      /\ \A s \in Slot : /\ pcb'[s].state = pcb[s].state
                         /\ pcb'[s].parentID = pcb[s].parentID
                         /\ pcb'[s].joinsem = pcb[s].joinsem
                         /\ s # p => pcb'[s].exitsem = pcb[s].exitsem
      /\ pcb[p].exitsem \in 0 .. 1 => pcb'[p].exitsem = 0
  BY <1>1, ExitSemEffect
<1>4. p \in bm
  BY <1>2 DEF DisciplineInv, SlotsMatch
<1>5. p # 0 /\ kids[p] = {}
  BY <1>2 DEF DisciplineInv, ExitingMatch, ExitPC
<1>6. pcb[p].exitsem \in 0 .. 1
  BY <1>1, <1>4, FieldTypes DEF DisciplineInv, ExitingMatch
<1>7. CASE pcb[p].exitsem = 0
  <2>1. pc' = [pc EXCEPT ![p] = "exitWait"]
    BY <1>7 DEF ExitP, ExitPass, PassOrWait, GoTo
  <2>2. SameLinks
    BY <1>3, <1>7 DEF SameLinks
  <2>3. NoUseAfterDelete'
    BY <1>2 DEF NoUseAfterDelete, DisciplineInv
  <2>4. Moves(p, "exitWait")
    BY <1>2, <1>3, <1>5, <2>1, <2>2 DEF Moves, Creating, Leaving, JoinPC, ExitPC
  <2>5. "exitWait" \in PC
    BY DEF PC, ExitPC
  <2> QED
    BY <2>3, <2>4, <2>5, MoveKeeps
<1>8. CASE pcb[p].exitsem = 1
  <2>1. \A s \in Slot : pc'[s] = IF s = p THEN "remove" ELSE pc[s]
    BY <1>1, <1>8 DEF ExitP, ExitPass, PassOrWait, GoTo, TypeOK
  <2>2. \A s \in Slot : Collected(s)' <=> Collected(s)
    BY <1>2, <1>3, <1>8, <2>1 DEF Collected
  <2>3. \A q, k \in Slot : Child(q, k)' <=> Child(q, k)
    BY <1>2, <1>3, <2>2 DEF Child
  <2>4. \A q \in Slot : ~Child(q, p)
    BY <1>8 DEF Child, Collected
  <2>5. SlotsMatch'
    BY <1>2, <1>3, <2>1 DEF DisciplineInv, SlotsMatch
  <2>6. KidsMatch'
    BY <1>1, <1>2, <2>3 DEF DisciplineInv, KidsMatch, TypeOK
  <2>7. CreatingMatch'
    <3> SUFFICES ASSUME NEW q \in Slot, pc'[q] \in Creating
                 PROVE  /\ Child(q, target[q])'
                        /\ pc'[q] = "execFork" => pc'[target'[q]] = "none"
      BY DEF CreatingMatch, Creating
    <3>1. PICK k \in Slot : k = target[q]
      BY <1>1 DEF TypeOK
    <3>2. pc[q] \in Creating /\ pc'[q] = pc[q]
      BY <2>1 DEF Creating
    <3>3. Child(q, k) /\ (pc[q] = "execFork" => pc[k] = "none")
      BY <3>1, <3>2 DEF DisciplineInv, CreatingMatch
    <3>4. Child(q, k)'
      BY <2>3, <3>3
    <3>5. Child(q, target[q])'
      BY <1>2, <3>1, <3>4 DEF Child, Collected
    <3> QED
      BY <1>2, <2>1, <3>1, <3>2, <3>3, <3>5
  <2>8. ParentsMatch'
    <3> SUFFICES ASSUME NEW s \in bm \ {0}, ~Collected(s)
                 PROVE  LET q == pcb[s].parentID IN
                        /\ q \in bm
                        /\ s \notin orphans
                        /\ s \in kids[q] \/ (pc'[q] \in Creating /\ target[q] = s)
      BY <1>1, <1>2, <1>3, <2>2 DEF ParentsMatch, TypeOK
    <3> DEFINE q == pcb[s].parentID
    <3>1. q \in bm /\ s \notin orphans /\ (s \in kids[q] \/ (pc[q] \in Creating /\ target[q] = s))
      BY DEF DisciplineInv, ParentsMatch
    <3>2. q \in Slot
      BY <1>1, <3>1 DEF TypeOK
    <3> QED
      BY <1>2, <2>1, <3>1, <3>2 DEF Creating
  <2>9. JoiningMatch'
    <3> SUFFICES ASSUME NEW q \in Slot, pc'[q] \in JoinPC
                 PROVE  /\ target[q] \in kids[q]
                        /\ pc'[q] = "collect" => pc'[target[q]] \in {"exitP", "exitWait"}
      BY <1>2 DEF JoiningMatch, JoinPC
    <3>1. q # p /\ pc[q] \in JoinPC /\ pc'[q] = pc[q] /\ target[q] \in Slot
      BY <1>1, <2>1 DEF JoinPC, TypeOK
    <3>2. /\ target[q] \in kids[q]
          /\ pc[q] = "collect" => pc[target[q]] \in {"exitP", "exitWait"}
      BY <3>1 DEF DisciplineInv, JoiningMatch
    <3>3. target[q] # p
      BY <2>4, <3>2 DEF DisciplineInv, KidsMatch
    <3> QED
      BY <2>1, <3>1, <3>2, <3>3
  <2>10. ExitingMatch'
    <3> SUFFICES ASSUME NEW s \in Slot
                 PROVE  /\ pc'[s] \in ExitPC => s # 0 /\ kids[s] = {}
                        /\ pc'[s] \in {"decWait", "dec"} => target[s] = pcb[s].parentID
                        /\ s \in bm /\ pcb[s].joinsem > 0 => pc'[s] \in Leaving
                        /\ s \in bm /\ pcb'[s].exitsem > 0 =>
                             pcb'[s].exitsem = 1 /\ pc'[s] \in {"exitP", "exitWait"}
      BY <1>2, <1>3 DEF ExitingMatch
    <3>1. CASE s = p
      BY <1>3, <1>5, <1>6, <2>1, <3>1 DEF Leaving
    <3>2. CASE s # p
      BY <1>3, <2>1, <3>2 DEF DisciplineInv, ExitingMatch
    <3> QED
      BY <3>1, <3>2
  <2> QED
    BY <1>2, <2>5, <2>6, <2>7, <2>8, <2>9, <2>10 DEF DisciplineInv, NoUseAfterDelete
<1> QED
  BY <1>6, <1>7, <1>8

\* The slot, PCB and thread go together, and no one stands on the PCB.
LEMMA RemoveKeeps ==
  ASSUME DisciplineInv, TypeOK', NEW p \in Slot, Remove(p)
  PROVE  DisciplineInv'
<1>1. TypeOK
  BY DEF DisciplineInv
<1>2. pc[p] = "remove" /\ outcome = "running"
  BY DEF Remove, At
<1>3. p # 0 /\ kids[p] = {} /\ p \in bm
  BY <1>2 DEF DisciplineInv, ExitingMatch, ExitPC, SlotsMatch
<1>4. /\ bm' = bm \ {p} /\ target' = target
      /\ orphans' = orphans \cup {s \in bm : pcb[s].parentID = p}
      /\ \A s \in Slot : pc'[s] = IF s = p THEN "none" ELSE pc[s]
      /\ \A s \in Slot : kids'[s] = kids[s]
  BY <1>1, <1>3 DEF Remove, GoTo, TypeOK
<1>5. (\A s \in Slot \ {p} : pcb'[s] = pcb[s]) /\ pcb'[p].state = "deleted"
  BY <1>1, RemoveEffect
<1>6. \A q \in Slot : ~Child(q, p)
  BY <1>2 DEF Child, Collected
<1>7. \A k \in Slot \ {p} : Collected(k)' <=> Collected(k)
  BY <1>4, <1>5 DEF Collected
<1>8. \A q, k \in Slot : Child(q, k) => Child(q, k)'
  BY <1>4, <1>5, <1>6, <1>7 DEF Child
<1>9. \A s \in bm \ {0} : ~Collected(s) => pcb[s].parentID # p
  <2> SUFFICES ASSUME NEW s \in bm \ {0}, ~Collected(s), pcb[s].parentID = p
               PROVE  FALSE
    OBVIOUS
  <2>1. s \in kids[p] \/ pc[p] \in Creating
    BY DEF DisciplineInv, ParentsMatch
  <2> QED
    BY <1>2, <1>3, <2>1 DEF Creating
<1>10. Waiting(p) = {}
  <2> SUFFICES ASSUME NEW r \in Slot \ {p}, pc[r] \in {"joinWait", "decWait"}, target[r] = p
               PROVE  FALSE
    BY DEF Waiting
  <2>1. CASE pc[r] = "joinWait"
    BY <1>6, <2>1 DEF DisciplineInv, JoiningMatch, JoinPC, KidsMatch
  <2>2. CASE pc[r] = "decWait"
    <3>1. r # 0 /\ r \in bm /\ pcb[r].parentID = p /\ ~(pcb[r].exitsem > 0)
      BY <2>2 DEF DisciplineInv, ExitingMatch, ExitPC, SlotsMatch
    <3> QED
      BY <1>9, <2>2, <3>1 DEF Collected
  <2> QED
    BY <2>1, <2>2
<1>11. Holding(p) = {}
  <2> SUFFICES ASSUME NEW r \in Slot \ {p}, pc[r] \in {"dec", "execUnlock"}, target[r] = p
               PROVE  FALSE
    BY DEF Holding
  <2>1. CASE pc[r] = "dec"
    <3>1. r # 0 /\ r \in bm /\ pcb[r].parentID = p /\ ~(pcb[r].exitsem > 0)
      BY <2>1 DEF DisciplineInv, ExitingMatch, ExitPC, SlotsMatch
    <3> QED
      BY <1>9, <2>1, <3>1 DEF Collected
  <2>2. CASE pc[r] = "execUnlock"
    BY <1>6, <2>2 DEF DisciplineInv, CreatingMatch, Creating
  <2> QED
    BY <2>1, <2>2
<1>12. NoUseAfterDelete'
  BY <1>2, <1>10, <1>11 DEF Remove, NoUseAfterDelete
<1>13. SlotsMatch'
  BY <1>3, <1>4, <1>5 DEF DisciplineInv, SlotsMatch
<1>14. KidsMatch'
  BY <1>1, <1>4, <1>8 DEF DisciplineInv, KidsMatch, TypeOK
<1>15. CreatingMatch'
  <2> SUFFICES ASSUME NEW q \in Slot, pc'[q] \in Creating
               PROVE  /\ Child(q, target[q])'
                      /\ pc'[q] = "execFork" => pc'[target'[q]] = "none"
    BY DEF CreatingMatch, Creating
  <2>1. PICK k \in Slot : k = target[q]
    BY <1>1 DEF TypeOK
  <2>2. pc[q] \in Creating /\ pc'[q] = pc[q]
    BY <1>4 DEF Creating
  <2>3. Child(q, k) /\ (pc[q] = "execFork" => pc[k] = "none")
    BY <2>1, <2>2 DEF DisciplineInv, CreatingMatch
  <2>4. Child(q, k)'
    BY <1>8, <2>3
  <2>5. Child(q, target[q])'
    BY <1>4, <2>1, <2>4 DEF Child, Collected
  <2> QED
    BY <1>4, <2>1, <2>2, <2>3, <2>5
<1>16. ParentsMatch'
  <2> SUFFICES ASSUME NEW s \in bm \ {0}, s # p, ~Collected(s)
               PROVE  LET q == pcb[s].parentID IN
                      /\ q \in bm'
                      /\ s \notin orphans'
                      /\ s \in kids'[q] \/ (pc'[q] \in Creating /\ target[q] = s)
    BY <1>1, <1>4, <1>5, <1>7 DEF ParentsMatch, TypeOK
  <2> DEFINE q == pcb[s].parentID
  <2>1. q \in bm /\ s \notin orphans /\ (s \in kids[q] \/ (pc[q] \in Creating /\ target[q] = s))
    BY DEF DisciplineInv, ParentsMatch
  <2>2. q \in Slot /\ q # p
    BY <1>1, <1>9, <2>1 DEF TypeOK
  <2> QED
    BY <1>4, <2>1, <2>2
<1>17. JoiningMatch'
  <2> SUFFICES ASSUME NEW q \in Slot, pc'[q] \in JoinPC
               PROVE  /\ target'[q] \in kids'[q]
                      /\ pc'[q] = "collect" => pc'[target'[q]] \in {"exitP", "exitWait"}
    BY DEF JoiningMatch, JoinPC
  <2>1. pc[q] \in JoinPC /\ pc'[q] = pc[q] /\ target[q] \in Slot
    BY <1>1, <1>4 DEF JoinPC, TypeOK
  <2>2. /\ target[q] \in kids[q]
        /\ pc[q] = "collect" => pc[target[q]] \in {"exitP", "exitWait"}
    BY <2>1 DEF DisciplineInv, JoiningMatch
  <2> QED
    BY <1>2, <1>4, <2>1, <2>2
<1>18. ExitingMatch'
  <2> SUFFICES ASSUME NEW s \in Slot
               PROVE  /\ pc'[s] \in ExitPC => s # 0 /\ kids'[s] = {}
                      /\ pc'[s] \in {"decWait", "dec"} => target'[s] = pcb'[s].parentID
                      /\ s \in bm' /\ pcb'[s].joinsem > 0 => pc'[s] \in Leaving
                      /\ s \in bm' /\ pcb'[s].exitsem > 0 =>
                           pcb'[s].exitsem = 1 /\ pc'[s] \in {"exitP", "exitWait"}
    BY DEF ExitingMatch
  <2>1. CASE s = p
    BY <1>4, <2>1 DEF ExitPC
  <2>2. CASE s # p
    BY <1>4, <1>5, <2>2 DEF DisciplineInv, ExitingMatch
  <2> QED
    BY <2>1, <2>2
<1> QED
  BY <1>12, <1>13, <1>14, <1>15, <1>16, <1>17, <1>18 DEF DisciplineInv

LEMMA DisciplineInit == Init => DisciplineInv
<1> SUFFICES ASSUME Init PROVE DisciplineInv
  OBVIOUS
<1>1. TypeOK
  BY TypeInit
<1>2. 0 \in Slot /\ bm = {0} /\ outcome = "running"
  BY ProcTableAssumption DEF Init, Slot
<1>3. \A s \in Slot : /\ pcb[s].state = (IF s = 0 THEN "live" ELSE "null")
                      /\ pcb[s].joinsem = 0 /\ pcb[s].exitsem = 0
                      /\ pc[s] = (IF s = 0 THEN "user" ELSE "none")
                      /\ kids[s] = {}
  BY DEF Init, NewPCB
<1>4. SlotsMatch /\ KidsMatch /\ ParentsMatch
  BY <1>2, <1>3 DEF SlotsMatch, KidsMatch, ParentsMatch
<1>5. CreatingMatch /\ JoiningMatch
  BY <1>3 DEF CreatingMatch, Creating, JoiningMatch, JoinPC
<1>6. ExitingMatch
  BY <1>3 DEF ExitingMatch, ExitPC
<1> QED
  BY <1>1, <1>2, <1>4, <1>5, <1>6 DEF DisciplineInv, NoUseAfterDelete

LEMMA DisciplineSame == DisciplineInv /\ UNCHANGED vars => DisciplineInv'
<1> SUFFICES ASSUME DisciplineInv, UNCHANGED vars PROVE DisciplineInv'
  OBVIOUS
<1> USE DEF vars, DisciplineInv
<1>1. TypeOK' /\ SlotsMatch' /\ NoUseAfterDelete'
  BY DEF TypeOK, SlotsMatch, NoUseAfterDelete
<1>2. KidsMatch' /\ CreatingMatch'
  BY DEF KidsMatch, CreatingMatch, Child, Collected
<1>3. ParentsMatch' /\ JoiningMatch' /\ ExitingMatch'
  BY DEF ParentsMatch, Collected, JoiningMatch, ExitingMatch
<1> QED
  BY <1>1, <1>2, <1>3

LEMMA DisciplineHalt ==
  ASSUME DisciplineInv, MainExit
  PROVE  DisciplineInv'
<1>1. TypeOK' /\ SlotsMatch' /\ NoUseAfterDelete'
  BY DEF MainExit, DisciplineInv, TypeOK, SlotsMatch, NoUseAfterDelete
<1>2. KidsMatch' /\ CreatingMatch'
  BY DEF MainExit, DisciplineInv, KidsMatch, CreatingMatch, Child, Collected
<1>3. ParentsMatch' /\ JoiningMatch' /\ ExitingMatch'
  BY DEF MainExit, DisciplineInv, ParentsMatch, Collected, JoiningMatch, ExitingMatch
<1> QED
  BY <1>1, <1>2, <1>3 DEF DisciplineInv

LEMMA DisciplineNext ==
  ASSUME Disciplined
  PROVE  DisciplineInv /\ [Next]_vars => DisciplineInv'
<1> SUFFICES ASSUME DisciplineInv, [Next]_vars PROVE DisciplineInv'
  OBVIOUS
<1>1. TypeOK'
  BY TypeNext DEF DisciplineInv
<1>2. CASE UNCHANGED vars
  BY <1>2, DisciplineSame
<1>3. ASSUME NEW p \in Slot, ExecStep(p)
      PROVE  DisciplineInv'
  BY <1>1, <1>3, ExecMoves, AllocateKeeps, ForkKeeps, ReturnKeeps DEF ExecStep
<1>4. ASSUME NEW p \in Slot, JoinStep(p)
      PROVE  DisciplineInv'
  BY <1>1, <1>4, JoinMoves, CollectKeepsInv DEF JoinStep
<1>5. ASSUME NEW p \in Slot, ExitStep(p)
      PROVE  DisciplineInv'
  <2>1. ~UserHalt(p)
    BY DEF UserHalt
  <2> QED
    BY <1>1, <1>5, <2>1, ExitMoves, ExitPKeeps, RemoveKeeps, DisciplineHalt DEF ExitStep
<1> QED
  BY <1>2, <1>3, <1>4, <1>5 DEF Next, Stopped, Step

LEMMA DisciplineCorrect ==
  ASSUME Disciplined
  PROVE  Spec => []DisciplineInv
BY DisciplineInit, DisciplineNext, PTL DEF Spec

(***************************************************************************)
(* When every program Joins each child it created once, and before its own *)
(* Exit, no Join, Exit or DecNumWait touches a PCB that ~PCB went through, *)
(* and no semaphore is deleted under a waiter, whatever the interleaving.  *)
(***************************************************************************)
THEOREM NoUseAfterDeleteCorrect ==
  ASSUME Disciplined
  PROVE  Spec => []NoUseAfterDelete
<1>1. DisciplineInv => NoUseAfterDelete
  BY DEF DisciplineInv
<1> QED
  BY <1>1, DisciplineCorrect, PTL

(***************************************************************************)
(* Under the same discipline the parent a process will notify at its Exit  *)
(* is still in the table, and is the process that created it and no later  *)
(* tenant of the slot.                                                     *)
(***************************************************************************)
THEOREM ParentsLiveCorrect ==
  ASSUME Disciplined
  PROVE  Spec => []ParentsLive
<1>1. DisciplineInv => ParentsLive
  <2> SUFFICES ASSUME DisciplineInv, NEW s \in bm \ {0},
                      pc[s] \notin {"exitP", "exitWait", "remove"}
               PROVE  pcb[s].parentID \in bm /\ s \notin orphans
    BY DEF ParentsLive
  <2>1. s \in Slot
    BY DEF DisciplineInv, TypeOK
  <2>2. ~Collected(s)
    BY <2>1 DEF DisciplineInv, ExitingMatch, Collected
  <2> QED
    BY <2>2 DEF DisciplineInv, ParentsMatch
<1> QED
  BY <1>1, DisciplineCorrect, PTL

(***************************************************************************)
(* Under the same discipline every reference from process to process is    *)
(* live whenever it is used, and a Join stays with the child it checked.   *)
(***************************************************************************)
THEOREM LiveReferencesCorrect ==
  ASSUME Disciplined
  PROVE  Spec => []LiveReferences
<1>1. DisciplineInv => JoinedOwnChild
  <2> SUFFICES ASSUME DisciplineInv, NEW p \in Slot, pc[p] \in JoinPC
               PROVE  LET c == target[p] IN c \in bm /\ pcb[c].parentID = p /\ c \notin orphans
    BY DEF JoinedOwnChild
  <2>1. Child(p, target[p])
    BY DEF DisciplineInv, JoiningMatch, KidsMatch
  <2>2. target[p] \notin orphans
    BY <2>1 DEF Child, DisciplineInv, ParentsMatch
  <2> QED
    BY <2>1, <2>2 DEF Child
<1>2. NoUseAfterDelete /\ ParentsLive /\ JoinedOwnChild => LiveReferences
  BY DEF LiveReferences
<1> QED
  BY <1>1, <1>2, NoUseAfterDeleteCorrect, ParentsLiveCorrect, DisciplineCorrect, PTL

(***************************************************************************)
(* Under the same discipline Remove never frees a slot whose process is    *)
(* still to be joined: an id Exec returned stays the child's until then.   *)
(***************************************************************************)
THEOREM SlotHeldUntilJoinedCorrect ==
  ASSUME Disciplined
  PROVE  Spec => SlotHeldUntilJoined
<1>1. DisciplineInv /\ [Next]_vars => [\A s \in bm \ bm' : s \notin kids[pcb[s].parentID]]_vars
  <2> SUFFICES ASSUME DisciplineInv, Next, NEW s \in bm \ bm', s \in kids[pcb[s].parentID]
               PROVE  FALSE
    OBVIOUS
  <2>1. TypeOK /\ s \in Slot
    BY DEF DisciplineInv, TypeOK
  <2>2. bm' # bm
    OBVIOUS
  <2>3. PICK p \in Slot : Remove(p)
    <3>1. PICK p \in Slot : ExecStep(p) \/ JoinStep(p) \/ ExitStep(p)
      BY <2>2 DEF Next, Stopped, vars, Step
    <3>2. ~ExecStep(p)
      BY <2>1, <3>1 DEF ExecStep, ExecStart, ExecPass, ExecReject, ExecAllocate, ExecFork,
                        ExecUnlock, ExecReturn, Load
    <3>3. ~JoinStep(p)
      BY <2>2 DEF JoinStep, JoinStart, IncPass, Inc, JoinP, JoinPass, Collect, Fault
    <3>4. ExitStep(p) => Remove(p)
      BY <2>2 DEF ExitStep, MainExit, UserHalt, ExitStart, DecPass, Dec, Release, ExitP,
                  ExitPass, Fault
    <3> QED
      BY <3>1, <3>2, <3>3, <3>4
  <2>4. s = p /\ pc[p] = "remove"
    BY <2>3 DEF Remove, At
  <2>5. p # 0
    BY <2>4 DEF DisciplineInv, ExitingMatch, ExitPC
  <2>6. pcb[p].parentID \in Slot
    BY <2>1, <2>5 DEF TypeOK
  <2>7. Child(pcb[p].parentID, p)
    BY <2>4, <2>6 DEF DisciplineInv, KidsMatch
  <2> QED
    BY <2>4, <2>7 DEF Child, Collected
<1> QED
  BY <1>1, DisciplineCorrect, PTL DEF Spec, SlotHeldUntilJoined

-----------------------------------------------------------------------------
(* The inductive invariant of programs of any kind *)

InExec == ExecPC \ {"execWait"}

\* Slot, PCB and thread; a slot without a thread is being filled.
SlotsTied ==
  \A s \in Slot :
    /\ s \in bm <=> pcb[s].state = "live"
    /\ pc[s] # "none" => s \in bm
    /\ s \in bm => pc[s] # "none" \/ \E p \in Slot : pc[p] = "execFork" /\ target[p] = s
    /\ pc[s] = "execFork" => target[s] \in bm /\ pc[target[s]] = "none"

\* bmsem is held by the one thread inside Exec.
TableLock ==
  /\ \A p, q \in Slot : pc[p] \in InExec /\ pc[q] \in InExec => p = q
  /\ bmsem = 0 <=> \E p \in Slot : pc[p] \in InExec

\* p holds the multex of the PCB in slot s.
Locks(p, s) ==
  \/ pc[p] = "inc" /\ p = s
  \/ pc[p] \in {"dec", "execFork", "execUnlock"} /\ target[p] = s

\* Every multex is held by one thread, and none that is held or waited for is
\* deleted.
PCBLocks ==
  outcome \in {"running", "halted"} =>
    /\ \A p \in Slot : pc[p] \in {"dec", "decWait", "joinWait", "execUnlock"} => target[p] \in bm
    /\ \A s \in bm : \A p, q \in Slot : Locks(p, s) /\ Locks(q, s) => p = q
    /\ \A s \in bm : pcb[s].multex = 0 <=> \E p \in Slot : Locks(p, s)

\* joinsem's unit is turned into exitsem's by the one thread that collects the
\* exit code, while the child stands at the end of its Exit.
HandedOver(s) ==
  /\ pc[s] \in ExitPC => pcb[s].exitcode \in ExitCodes
  /\ s \in bm => pcb[s].joinsem + pcb[s].exitsem <= 1
  /\ s \in bm /\ pc[s] \notin {"exitP", "exitWait"} => pcb[s].joinsem = 0 /\ pcb[s].exitsem = 0
  /\ \A p \in Slot : pc[p] = "collect" /\ target[p] = s =>
       /\ s \in bm /\ pc[s] \in {"exitP", "exitWait"}
       /\ pcb[s].joinsem = 0 /\ pcb[s].exitsem = 0
       /\ \A q \in Slot : pc[q] = "collect" /\ target[q] = s => p = q

Handover == outcome = "running" => \A s \in Slot : HandedOver(s)

TableInv == TypeOK /\ SlotsTied /\ TableLock /\ PCBLocks /\ Handover

\* p's thread goes to l, and the others stay.
Goes(p, l) ==
  /\ \A s \in Slot : pc'[s] = IF s = p THEN l ELSE pc[s]
  /\ \A s \in Slot \ {p} : target'[s] = target[s]

LockPC == {"inc", "dec", "execFork", "execUnlock"}

LEMMA SlotsMove ==
  ASSUME TypeOK, SlotsTied, NEW p \in Slot, NEW l, Goes(p, l), bm' = bm,
         \A s \in Slot : pcb'[s].state = pcb[s].state,
         pc[p] \notin {"none", "execFork"}, l \notin {"none", "execFork"}
  PROVE  SlotsTied'
<1> SUFFICES ASSUME NEW s \in Slot
             PROVE  /\ s \in bm <=> pcb[s].state = "live"
                    /\ pc'[s] # "none" => s \in bm
                    /\ s \in bm => \/ pc'[s] # "none"
                                   \/ \E q \in Slot : pc'[q] = "execFork" /\ target'[q] = s
                    /\ pc'[s] = "execFork" => target'[s] \in bm /\ pc'[target'[s]] = "none"
  BY DEF SlotsTied
<1>1. /\ s \in bm <=> pcb[s].state = "live"
      /\ pc[s] # "none" => s \in bm
      /\ s \in bm => pc[s] # "none" \/ \E q \in Slot : pc[q] = "execFork" /\ target[q] = s
      /\ pc[s] = "execFork" => target[s] \in bm /\ pc[target[s]] = "none"
  BY DEF SlotsTied
<1>2. pc'[s] # "none" <=> pc[s] # "none"
  BY DEF Goes
<1>3. \A q \in Slot : pc[q] = "execFork" => pc'[q] = "execFork" /\ target'[q] = target[q]
  BY DEF Goes
<1>4. pc'[s] = "execFork" => pc[s] = "execFork" /\ target'[s] = target[s] /\ target[s] \in Slot
  BY DEF Goes, TypeOK
<1> QED
  BY <1>1, <1>2, <1>3, <1>4 DEF Goes

LEMMA TableMove ==
  ASSUME TableLock, NEW p \in Slot, NEW l, Goes(p, l), bmsem' = bmsem,
         pc[p] \in InExec <=> l \in InExec
  PROVE  TableLock'
<1>1. \A q \in Slot : pc'[q] \in InExec <=> pc[q] \in InExec
  BY DEF Goes
<1> QED
  BY <1>1 DEF TableLock

LEMMA LocksMove ==
  ASSUME PCBLocks, NEW p \in Slot, NEW l, Goes(p, l), bm' = bm,
         \A s \in bm : pcb'[s].multex = pcb[s].multex,
         outcome' = outcome, bm \subseteq Slot,
         pc[p] \notin LockPC, l \notin LockPC,
         l \in {"decWait", "joinWait"} => target'[p] \in bm
  PROVE  PCBLocks'
<1> SUFFICES ASSUME outcome \in {"running", "halted"} PROVE PCBLocks'
  BY DEF PCBLocks
<1>1. \A q, s \in Slot : Locks(q, s)' <=> Locks(q, s)
  BY DEF Goes, Locks, LockPC
<1>2. \A q \in Slot : pc'[q] \in {"dec", "decWait", "joinWait", "execUnlock"} => target'[q] \in bm
  BY DEF Goes, PCBLocks, LockPC
<1> QED
  BY <1>1, <1>2 DEF PCBLocks

LEMMA LockTaken ==
  ASSUME PCBLocks, NEW p \in Slot, NEW c \in bm, NEW l, Goes(p, l), bm' = bm,
         \A s \in Slot : pcb'[s].multex = IF s = c THEN 0 ELSE pcb[s].multex,
         outcome' = outcome, bm \subseteq Slot, pc[p] \notin LockPC,
         pcb[c].multex \in 0 .. 1,
         IF pcb[c].multex > 0
         THEN (l = "inc" /\ p = c) \/ (l = "dec" /\ target'[p] = c)
         ELSE l = "incWait" \/ (l = "decWait" /\ target'[p] = c)
  PROVE  PCBLocks'
<1> SUFFICES ASSUME outcome \in {"running", "halted"} PROVE PCBLocks'
  BY DEF PCBLocks
<1>1. \A q \in Slot : pc'[q] \in {"dec", "decWait", "joinWait", "execUnlock"} => target'[q] \in bm
  BY DEF Goes, PCBLocks
<1>2. \A q, s \in Slot : q # p => (Locks(q, s)' <=> Locks(q, s))
  BY DEF Goes, Locks
<1>3. \A s \in Slot : ~Locks(p, s)
  BY DEF Locks, LockPC
<1>4. CASE pcb[c].multex > 0
  <2>1. \A s \in Slot : Locks(p, s)' <=> s = c
    BY <1>4 DEF Goes, Locks
  <2>2. \A q \in Slot : ~Locks(q, c)
    BY <1>4 DEF PCBLocks
  <2>3. \A s \in bm : \A q, r \in Slot : Locks(q, s)' /\ Locks(r, s)' => q = r
    BY <1>2, <1>3, <2>1, <2>2 DEF PCBLocks
  <2>4. \A s \in bm : pcb'[s].multex = 0 <=> \E q \in Slot : Locks(q, s)'
    <3> SUFFICES ASSUME NEW s \in bm
                 PROVE  pcb'[s].multex = 0 <=> \E q \in Slot : Locks(q, s)'
      OBVIOUS
    <3>1. CASE s = c
      BY <2>1, <3>1
    <3>2. CASE s # c
      BY <1>2, <1>3, <2>1, <3>2 DEF PCBLocks
    <3> QED
      BY <3>1, <3>2
  <2> QED
    BY <1>1, <2>3, <2>4 DEF PCBLocks
<1>5. CASE ~(pcb[c].multex > 0)
  <2>1. \A s \in Slot : ~Locks(p, s)'
    BY <1>5 DEF Goes, Locks
  <2>2. \A q, s \in Slot : Locks(q, s)' <=> Locks(q, s)
    BY <1>2, <1>3, <2>1
  <2>3. \A s \in bm : pcb'[s].multex = pcb[s].multex
    BY <1>5
  <2> QED
    BY <1>1, <2>2, <2>3 DEF PCBLocks
<1> QED
  BY <1>4, <1>5

LEMMA LockGiven ==
  ASSUME PCBLocks, NEW p \in Slot, NEW c \in Slot, NEW l, Goes(p, l), bm' = bm,
         \A s \in Slot : pcb'[s].multex = IF s = c THEN 1 ELSE pcb[s].multex,
         outcome' = outcome, bm \subseteq Slot,
         Locks(p, c), pc[p] # "execFork", l \notin LockPC, l \notin {"decWait", "joinWait"}
  PROVE  PCBLocks'
<1> SUFFICES ASSUME outcome \in {"running", "halted"} PROVE PCBLocks'
  BY DEF PCBLocks
<1>1. \A q \in Slot : pc'[q] \in {"dec", "decWait", "joinWait", "execUnlock"} => target'[q] \in bm
  BY DEF Goes, PCBLocks, LockPC
<1>2. \A q, s \in Slot : q # p => (Locks(q, s)' <=> Locks(q, s))
  BY DEF Goes, Locks
<1>3. \A s \in Slot : Locks(p, s) => s = c
  BY DEF Locks
<1>4. \A s \in Slot : ~Locks(p, s)'
  BY DEF Goes, Locks, LockPC
<1>5. \A s \in bm : \A q, r \in Slot : Locks(q, s)' /\ Locks(r, s)' => q = r
  BY <1>2, <1>4 DEF PCBLocks
<1>6. \A s \in bm : pcb'[s].multex = 0 <=> \E q \in Slot : Locks(q, s)'
  <2> SUFFICES ASSUME NEW s \in bm
               PROVE  pcb'[s].multex = 0 <=> \E q \in Slot : Locks(q, s)'
    OBVIOUS
  <2>1. CASE s = c
    BY <1>2, <1>4, <2>1 DEF PCBLocks
  <2>2. CASE s # c
    BY <1>2, <1>3, <1>4, <2>2 DEF PCBLocks
  <2> QED
    BY <2>1, <2>2
<1> QED
  BY <1>1, <1>5, <1>6 DEF PCBLocks

LEMMA HandMove ==
  ASSUME Handover, NEW p \in Slot, NEW l, Goes(p, l), bm' = bm, outcome = "running",
         \A s \in Slot : /\ pcb'[s].joinsem = pcb[s].joinsem
                         /\ pcb'[s].exitsem = pcb[s].exitsem
                         /\ s # p => pcb'[s].exitcode = pcb[s].exitcode,
         l \in ExitPC => pcb'[p].exitcode \in ExitCodes,
         pc[p] \notin {"exitP", "exitWait", "collect"}, l \notin {"exitP", "exitWait", "collect"}
  PROVE  Handover'
<1> SUFFICES ASSUME NEW s \in Slot PROVE HandedOver(s)'
  BY DEF Handover
<1>1. HandedOver(s)
  BY DEF Handover
<1>2. \A q \in Slot : pc'[q] = "collect" => q # p /\ pc[q] = "collect" /\ target'[q] = target[q]
  BY DEF Goes
<1>3. pc'[s] = IF s = p THEN l ELSE pc[s]
  BY DEF Goes
<1>4. \A q \in Slot : pc[q] = "collect" /\ target[q] = s => s # p
  BY <1>1 DEF HandedOver
<1> QED
  BY <1>1, <1>2, <1>3, <1>4 DEF HandedOver

\* A single step of the thread, from what the step does to pc and target.
LEMMA StepGoes ==
  ASSUME TypeOK, NEW p \in Slot, NEW l, pc' = [pc EXCEPT ![p] = l],
         target' = target \/ \E c : target' = [target EXCEPT ![p] = c]
  PROVE  Goes(p, l)
BY DEF TypeOK, Goes

\* The steps that touch neither bitmap, PCBs nor multex.
LEMMA ExecKeepsTable ==
  ASSUME TableInv, TypeOK', NEW p \in Slot,
         ExecStart(p) \/ ExecPass(p) \/ ExecReject(p) \/ ExecReturn(p) \/ Load(p)
  PROVE  TableInv'
<1> DEFINE l == pc'[p]
<1>1. /\ TypeOK /\ bm \subseteq Slot /\ outcome = "running"
      /\ UNCHANGED <<bm, pcb, target, outcome>>
      /\ pc' = [pc EXCEPT ![p] = l]
  BY DEF TableInv, ExecStart, ExecPass, ExecReject, ExecReturn, Load, At, PassOrWait, GoTo, TypeOK
<1>2. /\ pc[p] \in {"user", "execWait", "exec", "execReturn", "load"}
      /\ l \in {"user", "execWait", "exec", "dead"}
  BY <1>1 DEF ExecStart, ExecPass, ExecReject, ExecReturn, Load, At, PassOrWait, GoTo, TypeOK
<1>3. Goes(p, l)
  BY <1>1, StepGoes
<1>4. SlotsTied' /\ PCBLocks' /\ Handover'
  <2>1. SlotsTied'
    BY <1>1, <1>2, <1>3, SlotsMove DEF TableInv
  <2>2. PCBLocks'
    BY <1>1, <1>2, <1>3, LocksMove DEF TableInv, LockPC
  <2>3. Handover'
    BY <1>1, <1>2, <1>3, HandMove DEF TableInv, ExitPC
  <2> QED
    BY <2>1, <2>2, <2>3
<1>5. TableLock'
  <2>1. bmsem \in 0 .. 1
    BY <1>1 DEF TypeOK
  <2>2. CASE bmsem = 1 /\ bmsem' = 0 /\ l = "exec"
    BY <1>3, <2>2 DEF Goes, TableInv, TableLock, InExec, ExecPC
  <2>3. CASE pc[p] \in InExec /\ bmsem' = 1 /\ l \notin InExec
    BY <1>3, <2>3 DEF Goes, TableInv, TableLock
  <2>4. CASE bmsem' = bmsem /\ (pc[p] \in InExec <=> l \in InExec)
    BY <1>3, <2>4, TableMove DEF TableInv
  <2>5. \/ bmsem = 1 /\ bmsem' = 0 /\ l = "exec"
        \/ pc[p] \in InExec /\ bmsem' = 1 /\ l \notin InExec
        \/ bmsem' = bmsem /\ (pc[p] \in InExec <=> l \in InExec)
    BY <1>1, <2>1 DEF ExecStart, ExecPass, ExecReject, ExecReturn, Load, At, PassOrWait, GoTo,
                      TypeOK, InExec, ExecPC
  <2> QED
    BY <2>2, <2>3, <2>4, <2>5
<1> QED
  BY <1>4, <1>5 DEF TableInv

\* A new process: nobody refers to a slot that is not marked.
LEMMA AllocateKeepsTable ==
  ASSUME TableInv, TypeOK', NEW p \in Slot, ExecAllocate(p)
  PROVE  TableInv'
<1> DEFINE c == target'[p]
<1>1. /\ TypeOK /\ bm \subseteq Slot /\ outcome = "running" /\ outcome' = outcome
      /\ pc[p] = "exec" /\ pc' = [pc EXCEPT ![p] = "execFork"] /\ bmsem' = bmsem
  BY DEF TableInv, ExecAllocate, At, GoTo, TypeOK
<1>2. /\ c \in Slot \ bm /\ bm' = bm \cup {c}
      /\ \A s \in Slot \ {p} : target'[s] = target[s]
      /\ \A s \in Slot \ {c} : pcb'[s] = pcb[s]
      /\ pcb'[c].state = "live" /\ pcb'[c].joinsem = 0 /\ pcb'[c].exitsem = 0
      /\ pcb'[c].multex = 0
  BY <1>1, AllocateEffect
<1> HIDE DEF c
<1>3. /\ \A s \in Slot : pc'[s] = IF s = p THEN "execFork" ELSE pc[s]
      /\ target'[p] = c
  BY <1>1 DEF c, TypeOK
<1>4. pc[c] = "none" /\ c # p
  BY <1>1, <1>2 DEF TableInv, SlotsTied
<1>5. \A q \in Slot : /\ pc[q] \in {"dec", "decWait", "joinWait", "execUnlock", "execFork"}
                           => target[q] \in bm
                      /\ pc[q] = "collect" => target[q] \in bm
  <2>1. \A q \in Slot : pc[q] = "collect" => target[q] \in bm
    BY <1>1 DEF TableInv, Handover, HandedOver, TypeOK
  <2> QED
    BY <1>1, <2>1 DEF TableInv, PCBLocks, SlotsTied
<1>6. SlotsTied'
  <2> SUFFICES ASSUME NEW s \in Slot
               PROVE  /\ s \in bm' <=> pcb'[s].state = "live"
                      /\ pc'[s] # "none" => s \in bm'
                      /\ s \in bm' => \/ pc'[s] # "none"
                                      \/ \E q \in Slot : pc'[q] = "execFork" /\ target'[q] = s
                      /\ pc'[s] = "execFork" => target'[s] \in bm' /\ pc'[target'[s]] = "none"
    BY DEF SlotsTied
  <2>1. /\ s \in bm <=> pcb[s].state = "live"
        /\ pc[s] # "none" => s \in bm
        /\ s \in bm => pc[s] # "none" \/ \E q \in Slot : pc[q] = "execFork" /\ target[q] = s
        /\ pc[s] = "execFork" => target[s] \in bm /\ pc[target[s]] = "none"
    BY DEF TableInv, SlotsTied
  <2>2. CASE s = c
    BY <1>2, <1>3, <1>4, <2>2
  <2>3. CASE s = p
    BY <1>2, <1>3, <1>4, <2>1, <2>3, <1>1
  <2>4. CASE s # c /\ s # p
    <3>1. \A q \in Slot : pc[q] = "execFork" => q # p
      BY <1>1
    <3>2. pc[s] = "execFork" => target[s] \in Slot /\ target[s] # p
      BY <1>1, <2>1 DEF TypeOK
    <3> QED
      BY <1>2, <1>3, <2>1, <2>4, <3>1, <3>2
  <2> QED
    BY <2>2, <2>3, <2>4
<1>7. TableLock'
  <2>1. \A q \in Slot : pc'[q] \in InExec <=> pc[q] \in InExec
    BY <1>1, <1>3 DEF InExec, ExecPC
  <2> QED
    BY <1>1, <2>1 DEF TableInv, TableLock
<1>8. PCBLocks'
  <2>1. \A q \in Slot : pc'[q] \in {"dec", "decWait", "joinWait", "execUnlock"}
                          => target'[q] \in bm'
    BY <1>2, <1>3, <1>5
  <2>2. \A q, s \in Slot : Locks(q, s)' <=> Locks(q, s) \/ (q = p /\ s = c)
    BY <1>1, <1>2, <1>3 DEF Locks
  <2>3. \A q \in Slot : ~Locks(q, c)
    BY <1>2, <1>4, <1>5 DEF Locks
  <2>4. /\ \A s \in bm : \A q, r \in Slot : Locks(q, s) /\ Locks(r, s) => q = r
        /\ \A s \in bm : pcb[s].multex = 0 <=> \E q \in Slot : Locks(q, s)
    BY <1>1 DEF TableInv, PCBLocks
  <2>5. \A s \in bm' : \A q, r \in Slot : Locks(q, s)' /\ Locks(r, s)' => q = r
    BY <1>1, <1>2, <2>2, <2>3, <2>4
  <2>6. \A s \in bm' : pcb'[s].multex = 0 <=> \E q \in Slot : Locks(q, s)'
    BY <1>1, <1>2, <2>2, <2>4
  <2> QED
    BY <2>1, <2>5, <2>6 DEF PCBLocks
<1>9. Handover'
  <2> SUFFICES ASSUME NEW s \in Slot PROVE HandedOver(s)'
    BY DEF Handover
  <2>1. HandedOver(s)
    BY <1>1 DEF TableInv, Handover
  <2>2. \A q \in Slot : pc'[q] = "collect" => q # p /\ pc[q] = "collect" /\ target'[q] = target[q]
    BY <1>2, <1>3
  <2>3. CASE s = c
    <3>1. pc'[s] = "none" /\ \A q \in Slot : ~(pc'[q] = "collect" /\ target'[q] = s)
      BY <1>2, <1>3, <1>4, <1>5, <2>2, <2>3
    <3> QED
      BY <1>2, <2>3, <3>1 DEF HandedOver, ExitPC
  <2>4. CASE s # c
    <3>1. pcb'[s] = pcb[s] /\ (s \in bm' <=> s \in bm)
      BY <1>2, <2>4
    <3>2. CASE s = p
      <4>1. pc'[s] = "execFork" /\ pc[s] = "exec"
        BY <1>1, <1>3, <3>2
      <4> QED
        BY <2>1, <2>2, <3>1, <4>1 DEF HandedOver, ExitPC
    <3>3. CASE s # p
      <4>1. pc'[s] = pc[s]
        BY <1>3, <3>3
      <4> QED
        BY <2>1, <2>2, <3>1, <4>1 DEF HandedOver
    <3> QED
      BY <3>2, <3>3
  <2> QED
    BY <2>3, <2>4
<1> QED
  BY <1>6, <1>7, <1>8, <1>9 DEF TableInv

\* The new thread.
LEMMA ForkKeepsTable ==
  ASSUME TableInv, TypeOK', NEW p \in Slot, ExecFork(p)
  PROVE  TableInv'
<1> DEFINE c == target[p]
<1>1. /\ TypeOK /\ bm \subseteq Slot /\ outcome = "running" /\ outcome' = outcome
      /\ pc[p] = "execFork" /\ UNCHANGED <<bm, bmsem, target>>
  BY DEF TableInv, ExecFork, At, TypeOK
<1>2. /\ c \in Slot /\ c \in bm /\ pc[c] = "none"
  BY <1>1 DEF TableInv, SlotsTied, TypeOK
<1>3. \A s \in Slot : /\ pcb'[s].state = pcb[s].state
                      /\ pcb'[s].joinsem = pcb[s].joinsem
                      /\ pcb'[s].exitsem = pcb[s].exitsem
                      /\ pcb'[s].multex = pcb[s].multex
                      /\ pcb'[s].exitcode = pcb[s].exitcode
  BY <1>1, ExecForkEffect
<1>4. \A s \in Slot : pc'[s] = IF s = c THEN "load" ELSE IF s = p THEN "execUnlock" ELSE pc[s]
  BY <1>1, <1>2 DEF ExecFork, TypeOK
<1>5. c # p /\ c = target[p]
  BY <1>1, <1>2 DEF c
<1> HIDE DEF c
<1>6. \A q \in Slot : pc[q] \in InExec => q = p
  BY <1>1 DEF TableInv, TableLock, InExec, ExecPC
<1>7. SlotsTied'
  <2>1. \A q \in Slot : pc'[q] # "execFork"
    BY <1>4, <1>6 DEF InExec, ExecPC
  <2>2. \A s \in Slot : pc'[s] # "none" => s \in bm
    BY <1>1, <1>2, <1>4 DEF TableInv, SlotsTied
  <2>3. \A s \in bm : pc'[s] # "none"
    <3> SUFFICES ASSUME NEW s \in bm, pc'[s] = "none" PROVE FALSE
      OBVIOUS
    <3>1. s \in Slot /\ s # c /\ pc[s] = "none"
      BY <1>1, <1>4
    <3>2. PICK q \in Slot : pc[q] = "execFork" /\ target[q] = s
      BY <3>1 DEF TableInv, SlotsTied
    <3> QED
      BY <1>5, <1>6, <3>1, <3>2 DEF InExec, ExecPC
  <2> QED
    BY <1>1, <1>3, <2>1, <2>2, <2>3 DEF TableInv, SlotsTied
<1>8. TableLock'
  <2>1. \A q \in Slot : pc'[q] \in InExec <=> pc[q] \in InExec
    BY <1>1, <1>2, <1>4 DEF InExec, ExecPC
  <2> QED
    BY <1>1, <2>1 DEF TableInv, TableLock
<1>9. PCBLocks'
  <2>1. \A q, s \in Slot : Locks(q, s)' <=> Locks(q, s)
    BY <1>1, <1>2, <1>4, <1>5 DEF Locks
  <2>2. \A q \in Slot : pc'[q] \in {"dec", "decWait", "joinWait", "execUnlock"} => target'[q] \in bm'
    BY <1>1, <1>2, <1>4, <1>5 DEF TableInv, PCBLocks
  <2> QED
    BY <1>1, <1>3, <2>1, <2>2 DEF TableInv, PCBLocks
<1>10. Handover'
  <2> SUFFICES ASSUME NEW s \in Slot PROVE HandedOver(s)'
    BY DEF Handover
  <2>1. HandedOver(s)
    BY <1>1 DEF TableInv, Handover
  <2>2. \A q \in Slot : pc'[q] = "collect" => pc[q] = "collect"
    BY <1>4
  <2>3. /\ pc'[s] \in ExitPC => pc[s] \in ExitPC
        /\ pc'[s] \in {"exitP", "exitWait"} <=> pc[s] \in {"exitP", "exitWait"}
    BY <1>1, <1>2, <1>4 DEF ExitPC
  <2> QED
    BY <1>1, <1>3, <2>1, <2>2, <2>3 DEF HandedOver
<1> QED
  BY <1>7, <1>8, <1>9, <1>10 DEF TableInv

LEMMA ClearLock ==
  ASSUME TypeOK, NEW c \in Slot, pcb' = [pcb EXCEPT ![c].multex = 0]
  PROVE  /\ SameTable
         /\ \A s \in Slot : /\ pcb'[s].multex = IF s = c THEN 0 ELSE pcb[s].multex
                            /\ pcb'[s].joinsem = pcb[s].joinsem
                            /\ pcb'[s].exitcode = pcb[s].exitcode
<1>1. 0 \in 0 .. 1
  OBVIOUS
<1> QED
  BY <1>1, AssignLock

LEMMA SetLock ==
  ASSUME TypeOK, NEW c \in Slot, pcb' = [pcb EXCEPT ![c].multex = 1]
  PROVE  /\ SameTable
         /\ \A s \in Slot : /\ pcb'[s].multex = IF s = c THEN 1 ELSE pcb[s].multex
                            /\ pcb'[s].joinsem = pcb[s].joinsem
                            /\ pcb'[s].exitcode = pcb[s].exitcode
<1>1. 1 \in 0 .. 1
  OBVIOUS
<1> QED
  BY <1>1, AssignLock

\* The steps that take a multex, or queue up for it.
LEMMA TakeKeepsTable ==
  ASSUME TableInv, TypeOK', NEW p \in Slot, NEW c \in Slot, NEW l,
         c \in bm, outcome = "running", Goes(p, l), UNCHANGED <<bm, bmsem, outcome>>, SameTable,
         \A s \in Slot : /\ pcb'[s].multex = IF s = c THEN 0 ELSE pcb[s].multex
                         /\ pcb'[s].joinsem = pcb[s].joinsem
                         /\ s # p => pcb'[s].exitcode = pcb[s].exitcode,
         pc[p] \in {"user", "incWait", "decWait"},
         IF pcb[c].multex > 0
         THEN (l = "inc" /\ p = c) \/ (l = "dec" /\ target'[p] = c)
         ELSE l = "incWait" \/ (l = "decWait" /\ target'[p] = c),
         l \in ExitPC => pcb'[p].exitcode \in ExitCodes
  PROVE  TableInv'
<1>1. TypeOK /\ bm \subseteq Slot /\ pcb[c].multex \in 0 .. 1
  BY FieldTypes DEF TableInv, TypeOK
<1>2. l \in {"inc", "dec", "incWait", "decWait"}
  OBVIOUS
<1>3. SlotsTied'
  BY <1>1, <1>2, SlotsMove DEF TableInv, SameTable, SameLinks
<1>4. TableLock'
  BY <1>2, TableMove DEF TableInv, InExec, ExecPC
<1>5. PCBLocks'
  BY <1>1, LockTaken DEF TableInv, LockPC
<1>6. Handover'
  BY <1>2, HandMove DEF TableInv, SameTable, SameLinks
<1> QED
  BY <1>3, <1>4, <1>5, <1>6 DEF TableInv

\* The steps that give one back.
LEMMA GiveKeepsTable ==
  ASSUME TableInv, TypeOK', NEW p \in Slot, NEW c \in Slot, NEW l,
         outcome = "running", Goes(p, l), UNCHANGED <<bm, bmsem, outcome>>, SameTable,
         \A s \in Slot : /\ pcb'[s].multex = IF s = c THEN 1 ELSE pcb[s].multex
                         /\ pcb'[s].joinsem = pcb[s].joinsem
                         /\ pcb'[s].exitcode = pcb[s].exitcode,
         Locks(p, c),
         \/ pc[p] = "inc" /\ l = "join"
         \/ pc[p] = "dec" /\ l = "release"
         \/ pc[p] = "execUnlock" /\ l = "execReturn"
  PROVE  TableInv'
<1>1. TypeOK /\ bm \subseteq Slot
  BY DEF TableInv, TypeOK
<1>2. SlotsTied'
  BY <1>1, SlotsMove DEF TableInv, SameTable, SameLinks
<1>3. TableLock'
  BY TableMove DEF TableInv, InExec, ExecPC
<1>4. PCBLocks'
  BY <1>1, LockGiven DEF TableInv, LockPC
<1>5. Handover'
  <2>1. l \in ExitPC => pcb'[p].exitcode \in ExitCodes
    <3>1. l \in ExitPC => pc[p] \in ExitPC
      BY DEF ExitPC
    <3> QED
      BY <3>1 DEF TableInv, Handover, HandedOver
  <2> QED
    BY <2>1, HandMove DEF TableInv, SameTable, SameLinks
<1> QED
  BY <1>2, <1>3, <1>4, <1>5 DEF TableInv

LEMMA LockStepsKeepTable ==
  ASSUME TableInv, TypeOK', NEW p \in Slot,
         \/ ExecUnlock(p) \/ IncPass(p) \/ Inc(p) \/ DecPass(p) \/ Dec(p)
         \/ \E c \in Slot : JoinStart(p, c)
  PROVE  TableInv'
<1> DEFINE c == target[p]
           l == pc'[p]
<1>1. TypeOK /\ c \in Slot /\ outcome = "running"
  BY DEF TableInv, TypeOK, ExecUnlock, IncPass, Inc, DecPass, Dec, JoinStart, At
<1>2. UNCHANGED <<bm, bmsem, outcome>> /\ pc' = [pc EXCEPT ![p] = l]
  BY <1>1 DEF ExecUnlock, IncPass, Inc, DecPass, Dec, JoinStart, PassOrWait, GoTo, TypeOK
<1>3. Goes(p, l)
  <2>1. target' = target \/ \E k \in Slot : target' = [target EXCEPT ![p] = k]
    BY DEF ExecUnlock, IncPass, Inc, DecPass, Dec, JoinStart
  <2> QED
    BY <1>1, <1>2, <2>1, StepGoes
<1>4. \A s \in Slot : pc[s] # "none" => s \in bm
  BY DEF TableInv, SlotsTied
<1>5. pcb[p].multex \in 0 .. 1 /\ pcb[c].multex \in 0 .. 1
  BY <1>1, FieldTypes
<1>6. CASE \E k \in Slot : JoinStart(p, k)
  <2>1. PICK k \in Slot : JoinStart(p, k)
    BY <1>6
  <2>2. /\ pc[p] = "user" /\ pcb' = [pcb EXCEPT ![p].multex = 0]
        /\ l = IF pcb[p].multex > 0 THEN "inc" ELSE "incWait"
    BY <1>1, <2>1 DEF JoinStart, At, PassOrWait, GoTo, TypeOK
  <2> HIDE DEF l, c
  <2>3. p \in bm /\ l \notin ExitPC
    BY <1>4, <2>2 DEF ExitPC
  <2>4. /\ SameTable
        /\ \A s \in Slot : /\ pcb'[s].multex = IF s = p THEN 0 ELSE pcb[s].multex
                           /\ pcb'[s].joinsem = pcb[s].joinsem
                           /\ pcb'[s].exitcode = pcb[s].exitcode
    BY <1>1, <2>2, ClearLock
  <2> QED
    BY <1>1, <1>2, <1>3, <1>5, <2>2, <2>3, <2>4, TakeKeepsTable
<1>7. CASE IncPass(p)
  <2>1. /\ pc[p] = "incWait" /\ pcb' = [pcb EXCEPT ![p].multex = 0]
        /\ l = "inc" /\ pcb[p].multex > 0
    BY <1>1, <1>7 DEF IncPass, At, GoTo, TypeOK
  <2> HIDE DEF l, c
  <2>2. p \in bm /\ l \notin ExitPC
    BY <1>4, <2>1 DEF ExitPC
  <2>3. /\ SameTable
        /\ \A s \in Slot : /\ pcb'[s].multex = IF s = p THEN 0 ELSE pcb[s].multex
                           /\ pcb'[s].joinsem = pcb[s].joinsem
                           /\ pcb'[s].exitcode = pcb[s].exitcode
    BY <1>1, <2>1, ClearLock
  <2> QED
    BY <1>1, <1>2, <1>3, <1>5, <2>1, <2>2, <2>3, TakeKeepsTable
<1>8. CASE DecPass(p)
  <2>1. /\ pc[p] = "decWait" /\ pcb' = [pcb EXCEPT ![c].multex = 0]
        /\ l = "dec" /\ pcb[c].multex > 0 /\ target' = target
    BY <1>1, <1>8 DEF DecPass, At, GoTo, TypeOK
  <2>2. c \in bm /\ target'[p] = c
    BY <1>1, <2>1 DEF TableInv, PCBLocks
  <2>3. pcb[p].exitcode \in ExitCodes
    BY <1>1, <2>1 DEF TableInv, Handover, HandedOver, ExitPC
  <2> HIDE DEF l, c
  <2>4. /\ SameTable
        /\ \A s \in Slot : /\ pcb'[s].multex = IF s = c THEN 0 ELSE pcb[s].multex
                           /\ pcb'[s].joinsem = pcb[s].joinsem
                           /\ pcb'[s].exitcode = pcb[s].exitcode
    BY <1>1, <2>1, ClearLock
  <2> QED
    BY <1>1, <1>2, <1>3, <1>5, <2>1, <2>2, <2>3, <2>4, TakeKeepsTable
<1>9. CASE Inc(p)
  <2> DEFINE n == IF pcb[p].numwait < MaxWait THEN pcb[p].numwait + 1 ELSE pcb[p].numwait
  <2>1. n \in 0 .. MaxWait
    BY <1>1, FieldTypes, ProcTableAssumption
  <2>2. /\ pc[p] = "inc" /\ l = "join"
        /\ pcb' = [pcb EXCEPT ![p].numwait = n, ![p].multex = 1]
    BY <1>1, <1>9 DEF Inc, At, GoTo, TypeOK
  <2> HIDE DEF l, c, n
  <2>3. /\ SameTable
        /\ \A s \in Slot : /\ pcb'[s].multex = IF s = p THEN 1 ELSE pcb[s].multex
                           /\ pcb'[s].joinsem = pcb[s].joinsem
                           /\ pcb'[s].exitcode = pcb[s].exitcode
    BY <1>1, <2>1, <2>2, AssignCount
  <2> QED
    BY <1>1, <1>2, <1>3, <2>2, <2>3, GiveKeepsTable DEF Locks
<1>10. CASE Dec(p)
  <2> DEFINE n == IF pcb[c].numwait > 0 THEN pcb[c].numwait - 1 ELSE pcb[c].numwait
  <2>1. n \in 0 .. MaxWait
    BY <1>1, FieldTypes, ProcTableAssumption
  <2>2. /\ pc[p] = "dec" /\ l = "release"
        /\ pcb' = [pcb EXCEPT ![c].numwait = n, ![c].multex = 1]
    BY <1>1, <1>10 DEF Dec, At, GoTo, TypeOK
  <2>3. Locks(p, c)
    BY <2>2 DEF Locks
  <2> HIDE DEF l, c, n
  <2>4. /\ SameTable
        /\ \A s \in Slot : /\ pcb'[s].multex = IF s = c THEN 1 ELSE pcb[s].multex
                           /\ pcb'[s].joinsem = pcb[s].joinsem
                           /\ pcb'[s].exitcode = pcb[s].exitcode
    BY <1>1, <2>1, <2>2, AssignCount
  <2> QED
    BY <1>1, <1>2, <1>3, <2>2, <2>3, <2>4, GiveKeepsTable
<1>11. CASE ExecUnlock(p)
  <2>1. /\ pc[p] = "execUnlock" /\ l = "execReturn" /\ pcb' = [pcb EXCEPT ![c].multex = 1]
    BY <1>1, <1>11 DEF ExecUnlock, At, GoTo, TypeOK
  <2>2. Locks(p, c)
    BY <2>1 DEF Locks
  <2> HIDE DEF l, c
  <2>3. /\ SameTable
        /\ \A s \in Slot : /\ pcb'[s].multex = IF s = c THEN 1 ELSE pcb[s].multex
                           /\ pcb'[s].joinsem = pcb[s].joinsem
                           /\ pcb'[s].exitcode = pcb[s].exitcode
    BY <1>1, <2>1, SetLock
  <2> QED
    BY <1>1, <1>2, <1>3, <2>1, <2>2, <2>3, GiveKeepsTable
<1> QED
  BY <1>6, <1>7, <1>8, <1>9, <1>10, <1>11

\* The steps of P and V on joinsem and exitsem leave tables and locks alone.
LEMMA SemaphoreKeepsTable ==
  ASSUME TableInv, TypeOK', Handover', NEW p \in Slot, NEW l,
         Goes(p, l), UNCHANGED <<bm, bmsem, outcome>>,
         \A s \in Slot : pcb'[s].state = pcb[s].state /\ pcb'[s].multex = pcb[s].multex,
         pc[p] \in {"join", "joinWait", "collect", "release", "exitP", "exitWait"},
         l \in {"collect", "user", "exitP", "exitWait", "remove"}
           \/ (l = "joinWait" /\ target'[p] \in bm)
  PROVE  TableInv'
<1>1. TypeOK /\ bm \subseteq Slot
  BY DEF TableInv, TypeOK
<1>2. SlotsTied'
  BY <1>1, SlotsMove DEF TableInv
<1>3. TableLock'
  BY TableMove DEF TableInv, InExec, ExecPC
<1>4. PCBLocks'
  BY <1>1, LocksMove DEF TableInv, LockPC
<1> QED
  BY <1>2, <1>3, <1>4 DEF TableInv

\* The use of deleted memory ends what is modelled.
LEMMA FaultKeepsTable ==
  ASSUME TableInv, TypeOK', NEW s, Fault(s)
  PROVE  TableInv'
<1>1. UNCHANGED <<bm, bmsem, pcb, pc, target>> /\ outcome' = "freed"
  BY DEF Fault
<1> QED
  BY <1>1 DEF TableInv, SlotsTied, TableLock, PCBLocks, Handover

\* A unit of joinsem taken: the thread becomes the one that collects.
LEMMA UnitTaken ==
  ASSUME TableInv, NEW p \in Slot, NEW c \in Slot, c \in bm, outcome = "running",
         Goes(p, "collect"), target'[p] = c, bm' = bm, pc[p] \in {"join", "joinWait"},
         pcb[c].joinsem > 0,
         \A s \in Slot : /\ pcb'[s].joinsem = IF s = c THEN pcb[s].joinsem - 1 ELSE pcb[s].joinsem
                         /\ pcb'[s].exitsem = pcb[s].exitsem
                         /\ pcb'[s].exitcode = pcb[s].exitcode
  PROVE  Handover'
<1> SUFFICES ASSUME NEW s \in Slot PROVE HandedOver(s)'
  BY DEF Handover
<1>1. HandedOver(s) /\ HandedOver(c) /\ TypeOK
  BY DEF TableInv, Handover
<1>2. /\ pcb[s].joinsem \in Nat /\ pcb[s].exitsem \in Nat
      /\ pcb[c].joinsem \in Nat /\ pcb[c].exitsem \in Nat
  BY <1>1, FieldTypes
<1>3. pcb[c].joinsem = 1 /\ pcb[c].exitsem = 0 /\ pc[c] \in {"exitP", "exitWait"} /\ c # p
  BY <1>1, <1>2 DEF HandedOver
<1>4. \A q \in Slot : ~(pc[q] = "collect" /\ target[q] = c)
  BY <1>1, <1>3 DEF HandedOver
<1>5. \A q \in Slot : pc'[q] = "collect" =>
        q = p \/ (q # p /\ pc[q] = "collect" /\ target'[q] = target[q])
  BY DEF Goes
<1>6. pc'[s] = IF s = p THEN "collect" ELSE pc[s]
  BY DEF Goes
<1>7. CASE s = c
  <2>1. \A q \in Slot : pc'[q] = "collect" /\ target'[q] = c => q = p
    BY <1>4, <1>5
  <2> QED
    BY <1>1, <1>3, <1>6, <1>7, <2>1 DEF HandedOver
<1>8. CASE s # c
  <2>1. \A q \in Slot : pc'[q] = "collect" /\ target'[q] = s => pc[q] = "collect" /\ target[q] = s
    BY <1>5, <1>8
  <2>2. CASE s = p
    <3>1. pc'[s] \notin ExitPC /\ pc[s] \notin {"exitP", "exitWait"}
      BY <1>6, <2>2 DEF ExitPC
    <3> QED
      BY <1>1, <1>8, <2>1, <3>1 DEF HandedOver
  <2>3. CASE s # p
    BY <1>1, <1>6, <1>8, <2>1, <2>3 DEF HandedOver
  <2> QED
    BY <2>2, <2>3
<1> QED
  BY <1>7, <1>8

LEMMA JoinKeepsTable ==
  ASSUME TableInv, TypeOK', NEW p \in Slot, JoinP(p) \/ JoinPass(p), ~Fault(target[p])
  PROVE  TableInv'
<1> DEFINE c == target[p]
           v == IF pcb[c].joinsem > 0 THEN pcb[c].joinsem - 1 ELSE pcb[c].joinsem
           l == IF pcb[c].joinsem > 0 THEN "collect" ELSE "joinWait"
<1>1. TypeOK /\ c \in Slot /\ outcome = "running" /\ UNCHANGED <<bm, bmsem, outcome, target>>
  BY DEF TableInv, TypeOK, JoinP, JoinPass, At
<1>2. /\ pc[p] \in {"join", "joinWait"} /\ pc' = [pc EXCEPT ![p] = l]
      /\ pcb' = [pcb EXCEPT ![c].joinsem = v]
  BY DEF JoinP, JoinPass, At, PassOrWait, GoTo
<1>3. c \in bm
  <2>1. CASE JoinP(p)
    BY <1>1, <2>1 DEF JoinP, TableInv, SlotsTied
  <2>2. CASE JoinPass(p)
    BY <1>1, <2>2 DEF JoinPass, At, TableInv, PCBLocks
  <2> QED
    BY <2>1, <2>2
<1>4. v \in Nat
  BY <1>1, FieldTypes
<1>5. Goes(p, l)
  BY <1>1, <1>2, StepGoes
<1>6. /\ l = IF pcb[c].joinsem > 0 THEN "collect" ELSE "joinWait"
      /\ v = IF pcb[c].joinsem > 0 THEN pcb[c].joinsem - 1 ELSE pcb[c].joinsem
      /\ target'[p] = c
  BY <1>1
<1> HIDE DEF c, v, l
<1>7. /\ \A s \in Slot : /\ pcb'[s].joinsem = IF s = c THEN v ELSE pcb[s].joinsem
                         /\ pcb'[s].exitsem = pcb[s].exitsem
                         /\ pcb'[s].exitcode = pcb[s].exitcode
                         /\ pcb'[s].multex = pcb[s].multex
                         /\ pcb'[s].state = pcb[s].state
  <2>1. /\ SameLinks /\ \A s \in Slot \ {c} : pcb'[s].joinsem = pcb[s].joinsem
        /\ pcb'[c].joinsem = v
        /\ \A s \in Slot : pcb'[s].multex = pcb[s].multex /\ pcb'[s].exitcode = pcb[s].exitcode
    BY <1>1, <1>2, <1>4, AssignJoin, Zenon
  <2> QED
    BY <2>1 DEF SameLinks
<1>8. Handover'
  <2>1. CASE pcb[c].joinsem > 0
    BY <1>1, <1>2, <1>3, <1>5, <1>6, <1>7, <2>1, UnitTaken
  <2>2. CASE ~(pcb[c].joinsem > 0)
    <3>1. l = "joinWait" /\ \A s \in Slot : pcb'[s].joinsem = pcb[s].joinsem
      BY <1>6, <1>7, <2>2
    <3> QED
      BY <1>1, <1>2, <1>5, <1>7, <3>1, HandMove DEF TableInv, ExitPC
  <2> QED
    BY <2>1, <2>2
<1>9. l \in {"collect", "user", "exitP", "exitWait", "remove"} \/ (l = "joinWait" /\ target'[p] \in bm)
  BY <1>3, <1>6
<1> QED
  BY <1>1, <1>2, <1>5, <1>7, <1>8, <1>9, SemaphoreKeepsTable

LEMMA CollectKeepsTable ==
  ASSUME TableInv, TypeOK', NEW p \in Slot, Collect(p), ~Fault(target[p])
  PROVE  TableInv'
<1> DEFINE c == target[p]
           v == pcb[c].exitsem + 1
<1>1. TypeOK /\ c \in Slot /\ outcome = "running" /\ UNCHANGED <<bm, bmsem, outcome, target>>
  BY DEF TableInv, TypeOK, Collect, At
<1>2. /\ pc[p] = "collect" /\ pc' = [pc EXCEPT ![p] = "user"]
      /\ pcb' = [pcb EXCEPT ![c].exitsem = v]
  BY DEF Collect, At, GoTo
<1>3. Goes(p, "user")
  BY <1>1, <1>2, StepGoes
<1>4. /\ c \in bm /\ pc[c] \in {"exitP", "exitWait"} /\ c # p
      /\ pcb[c].joinsem = 0 /\ v = 1
      /\ \A q \in Slot : pc[q] = "collect" /\ target[q] = c => q = p
  <2>1. HandedOver(c)
    BY <1>1 DEF TableInv, Handover
  <2> QED
    BY <1>2, <2>1 DEF HandedOver
<1>5. target[p] = c
  OBVIOUS
<1> HIDE DEF c, v
<1>6. \A s \in Slot : /\ pcb'[s].joinsem = pcb[s].joinsem
                      /\ pcb'[s].exitsem = IF s = c THEN 1 ELSE pcb[s].exitsem
                      /\ pcb'[s].exitcode = pcb[s].exitcode
                      /\ pcb'[s].multex = pcb[s].multex
                      /\ pcb'[s].state = pcb[s].state
  <2>1. v \in Nat
    BY <1>4
  <2>2. \A s \in Slot : /\ pcb'[s].joinsem = pcb[s].joinsem
                        /\ pcb'[s].exitsem = IF s = c THEN v ELSE pcb[s].exitsem
                        /\ pcb'[s].exitcode = pcb[s].exitcode
                        /\ pcb'[s].multex = pcb[s].multex
                        /\ pcb'[s].state = pcb[s].state
    <3>1. OnlyExit(c, v)
      BY <1>1, <1>2, <2>1, AssignExit, Zenon
    <3> QED
      BY <3>1 DEF OnlyExit
  <2> QED
    BY <1>4, <2>2
<1>7. Handover'
  <2> SUFFICES ASSUME NEW s \in Slot PROVE HandedOver(s)'
    BY DEF Handover
  <2>1. HandedOver(s)
    BY <1>1 DEF TableInv, Handover
  <2>2. \A q \in Slot : pc'[q] = "collect" => q # p /\ pc[q] = "collect"
    BY <1>3 DEF Goes
  <2>3. CASE s = c
    <3>1. pc'[s] = pc[s] /\ \A q \in Slot : ~(pc'[q] = "collect" /\ target[q] = s)
      BY <1>3, <1>4, <2>2, <2>3 DEF Goes
    <3> QED
      BY <1>1, <1>4, <1>6, <2>1, <2>3, <3>1 DEF HandedOver
  <2>4. CASE s = p
    <3>1. pc'[s] = "user" /\ s # c
      BY <1>3, <1>4, <2>4 DEF Goes
    <3>2. \A q \in Slot : ~(pc[q] = "collect" /\ target[q] = s)
      BY <1>2, <2>1, <2>4 DEF HandedOver
    <3> QED
      BY <1>1, <1>2, <1>6, <2>1, <2>2, <2>4, <3>1, <3>2 DEF HandedOver, ExitPC
  <2>5. CASE s # c /\ s # p
    <3>1. pc'[s] = pc[s]
      BY <1>3, <2>5 DEF Goes
    <3> QED
      BY <1>1, <1>6, <2>1, <2>2, <2>5, <3>1 DEF HandedOver
  <2> QED
    BY <2>3, <2>4, <2>5
<1> QED
  BY <1>1, <1>2, <1>3, <1>6, <1>7, SemaphoreKeepsTable

\* The child's own steps on its two semaphores.
LEMMA ChildKeepsTable ==
  ASSUME TableInv, TypeOK', NEW p \in Slot, Release(p) \/ ExitP(p) \/ ExitPass(p)
  PROVE  TableInv'
<1> DEFINE l == pc'[p]
<1>1. /\ TypeOK /\ outcome = "running" /\ UNCHANGED <<bm, bmsem, outcome, target>>
      /\ pc' = [pc EXCEPT ![p] = l]
  BY DEF TableInv, TypeOK, Release, ExitP, ExitPass, At, PassOrWait, GoTo
<1>2. Goes(p, l)
  BY <1>1, StepGoes
<1>3. pcb[p].joinsem \in Nat /\ pcb[p].exitsem \in Nat
  BY <1>1, FieldTypes
<1>4. pc[p] \in {"release", "exitP", "exitWait"}
  BY DEF Release, ExitP, ExitPass, At
<1>5. p \in bm /\ HandedOver(p)
  BY <1>1, <1>4 DEF TableInv, SlotsTied, Handover
<1>6. /\ \A s \in Slot : /\ s # p => pcb'[s].joinsem = pcb[s].joinsem
                         /\ s # p => pcb'[s].exitsem = pcb[s].exitsem
                         /\ pcb'[s].exitcode = pcb[s].exitcode
                         /\ pcb'[s].multex = pcb[s].multex
                         /\ pcb'[s].state = pcb[s].state
      /\ \/ /\ pc[p] = "release" /\ l = "exitP"
            /\ pcb'[p].joinsem = 1 /\ pcb'[p].exitsem = 0
         \/ /\ pc[p] \in {"exitP", "exitWait"} /\ l = "exitWait"
            /\ pcb'[p].joinsem = pcb[p].joinsem /\ pcb'[p].exitsem = pcb[p].exitsem
         \/ /\ pc[p] \in {"exitP", "exitWait"} /\ l = "remove" /\ pcb[p].exitsem = 1
            /\ pcb'[p].joinsem = 0 /\ pcb'[p].exitsem = 0
  <2>1. CASE Release(p)
    <3> DEFINE v == pcb[p].joinsem + 1
    <3>1. /\ pc[p] = "release" /\ l = "exitP" /\ v = 1 /\ pcb[p].exitsem = 0
          /\ pcb' = [pcb EXCEPT ![p].joinsem = v]
      BY <1>1, <1>5, <2>1 DEF Release, At, GoTo, TypeOK, HandedOver
    <3> HIDE DEF v, l
    <3> QED
      BY <1>1, <3>1, AssignJoin DEF SameLinks
  <2>2. CASE ExitP(p) \/ ExitPass(p)
    <3> DEFINE v == IF pcb[p].exitsem > 0 THEN pcb[p].exitsem - 1 ELSE pcb[p].exitsem
    <3>1. /\ pc[p] \in {"exitP", "exitWait"} /\ pcb' = [pcb EXCEPT ![p].exitsem = v]
          /\ l = IF pcb[p].exitsem > 0 THEN "remove" ELSE "exitWait"
      BY <1>1, <2>2 DEF ExitP, ExitPass, At, PassOrWait, GoTo, TypeOK
    <3>2. v \in Nat /\ pcb[p].joinsem + pcb[p].exitsem <= 1
      BY <1>3, <1>5 DEF HandedOver
    <3>3. IF pcb[p].exitsem > 0 THEN pcb[p].exitsem = 1 /\ v = 0 /\ pcb[p].joinsem = 0
                                ELSE v = pcb[p].exitsem
      BY <1>3, <3>2
    <3> HIDE DEF v, l
    <3>4. \A s \in Slot : /\ pcb'[s].joinsem = pcb[s].joinsem
                          /\ pcb'[s].exitsem = IF s = p THEN v ELSE pcb[s].exitsem
                          /\ pcb'[s].exitcode = pcb[s].exitcode
                          /\ pcb'[s].multex = pcb[s].multex
                          /\ pcb'[s].state = pcb[s].state
      BY <1>1, <3>1, <3>2, AssignExit DEF OnlyExit
    <3> QED
      BY <3>1, <3>3, <3>4
  <2> QED
    BY <2>1, <2>2
<1> HIDE DEF l
<1>7. Handover'
  <2> SUFFICES ASSUME NEW s \in Slot PROVE HandedOver(s)'
    BY DEF Handover
  <2>1. HandedOver(s)
    BY <1>1 DEF TableInv, Handover
  <2>2. /\ l \in {"exitP", "exitWait", "remove"}
        /\ \A q \in Slot : pc'[q] = "collect" => pc[q] = "collect" /\ target'[q] = target[q]
    BY <1>1, <1>2, <1>6 DEF Goes
  <2>3. CASE s # p
    <3>1. pc'[s] = pc[s]
      BY <1>2, <2>3 DEF Goes
    <3> QED
      BY <1>1, <1>6, <2>1, <2>2, <2>3, <3>1 DEF HandedOver
  <2>4. CASE s = p
    <3>1. pc'[p] = l /\ pc[p] \in ExitPC
      BY <1>2, <1>4 DEF Goes, ExitPC
    <3>2. pcb[p].exitcode \in ExitCodes /\ pcb'[p].exitcode = pcb[p].exitcode
      BY <1>5, <1>6, <3>1 DEF HandedOver
    <3>3. CASE pc[p] = "release"
      BY <1>1, <1>5, <1>6, <2>2, <2>4, <3>1, <3>2, <3>3 DEF HandedOver
    <3>4. CASE pc[p] \in {"exitP", "exitWait"} /\ l = "exitWait"
      BY <1>1, <1>5, <1>6, <2>2, <2>4, <3>1, <3>2, <3>4 DEF HandedOver
    <3>5. CASE pc[p] \in {"exitP", "exitWait"} /\ l = "remove"
      BY <1>1, <1>5, <1>6, <2>2, <2>4, <3>1, <3>2, <3>5 DEF HandedOver
    <3> QED
      BY <1>6, <3>3, <3>4, <3>5
  <2> QED
    BY <2>3, <2>4
<1>8. l \in {"collect", "user", "exitP", "exitWait", "remove"}
  BY <1>6
<1> QED
  BY <1>1, <1>2, <1>4, <1>6, <1>7, <1>8, SemaphoreKeepsTable

LEMMA ExitStartKeepsTable ==
  ASSUME TableInv, TypeOK', NEW p \in Slot, ExitStart(p), ~Fault(pcb[p].parentID)
  PROVE  TableInv'
<1> DEFINE f == pcb[p].parentID
           l == IF pcb[f].multex > 0 THEN "dec" ELSE "decWait"
<1>1. /\ TypeOK /\ outcome = "running" /\ pc[p] = "user"
      /\ UNCHANGED <<bm, bmsem, outcome>>
      /\ target' = [target EXCEPT ![p] = f] /\ pc' = [pc EXCEPT ![p] = l]
      /\ pcb[f].state = "live"
  BY DEF TableInv, ExitStart, At, PassOrWait, GoTo
<1>2. /\ f \in Slot /\ SameTable
      /\ pcb'[p].exitcode \in ExitCodes
      /\ \A s \in Slot : /\ pcb'[s].multex = IF s = f THEN 0 ELSE pcb[s].multex
                         /\ pcb'[s].joinsem = pcb[s].joinsem
                         /\ s # p => pcb'[s].exitcode = pcb[s].exitcode
  BY <1>1, ExitStartEffect
<1>3. f \in bm /\ target'[p] = f
  BY <1>1, <1>2 DEF TableInv, SlotsTied, TypeOK
<1>4. Goes(p, l)
  BY <1>1, StepGoes
<1>5. l = IF pcb[f].multex > 0 THEN "dec" ELSE "decWait"
  OBVIOUS
<1> HIDE DEF f, l
<1> QED
  BY <1>1, <1>2, <1>3, <1>4, <1>5, TakeKeepsTable

\* Nobody holds, waits for or collects from what Remove deletes, or nothing is
\* modelled after it.
LEMMA RemoveKeepsTable ==
  ASSUME TableInv, TypeOK', NEW p \in Slot, Remove(p)
  PROVE  TableInv'
<1>1. /\ TypeOK /\ bm \subseteq Slot /\ outcome = "running" /\ pc[p] = "remove"
      /\ bm' = bm \ {p} /\ UNCHANGED <<bmsem, target>>
      /\ pc' = [pc EXCEPT ![p] = "none"]
  BY DEF TableInv, TypeOK, Remove, At, GoTo
<1>2. Goes(p, "none")
  BY <1>1, StepGoes
<1>3. (\A s \in Slot \ {p} : pcb'[s] = pcb[s]) /\ pcb'[p].state = "deleted"
  BY <1>1, RemoveEffect
<1>4. SlotsTied'
  <2> SUFFICES ASSUME NEW s \in Slot
               PROVE  /\ s \in bm' <=> pcb'[s].state = "live"
                      /\ pc'[s] # "none" => s \in bm'
                      /\ s \in bm' => \/ pc'[s] # "none"
                                      \/ \E q \in Slot : pc'[q] = "execFork" /\ target'[q] = s
                      /\ pc'[s] = "execFork" => target'[s] \in bm' /\ pc'[target'[s]] = "none"
    BY DEF SlotsTied
  <2>1. /\ s \in bm <=> pcb[s].state = "live"
        /\ pc[s] # "none" => s \in bm
        /\ s \in bm => pc[s] # "none" \/ \E q \in Slot : pc[q] = "execFork" /\ target[q] = s
        /\ pc[s] = "execFork" => target[s] \in bm /\ pc[target[s]] = "none"
    BY DEF TableInv, SlotsTied
  <2>2. CASE s = p
    BY <1>1, <1>2, <1>3, <2>2 DEF Goes
  <2>3. CASE s # p
    <3>1. \A q \in Slot : pc[q] = "execFork" => pc'[q] = "execFork"
      BY <1>1, <1>2 DEF Goes
    <3>2. pc[s] = "execFork" => target[s] \in Slot
      BY <1>1 DEF TypeOK
    <3> QED
      BY <1>1, <1>2, <1>3, <2>1, <2>3, <3>1, <3>2 DEF Goes
  <2> QED
    BY <2>2, <2>3
<1>5. TableLock'
  BY <1>1, <1>2, TableMove DEF TableInv, InExec, ExecPC
<1>6. PCBLocks'
  <2> SUFFICES ASSUME outcome' \in {"running", "halted"} PROVE PCBLocks'
    BY DEF PCBLocks
  <2>1. Waiting(p) = {} /\ Holding(p) = {}
    BY DEF Remove
  <2>2. \A q \in Slot : pc'[q] \in {"dec", "decWait", "joinWait", "execUnlock"} => target'[q] \in bm'
    <3> SUFFICES ASSUME NEW q \in Slot, pc'[q] \in {"dec", "decWait", "joinWait", "execUnlock"}
                 PROVE  target'[q] \in bm'
      OBVIOUS
    <3>1. q # p /\ pc[q] = pc'[q]
      BY <1>2 DEF Goes
    <3>2. target[q] \in bm
      BY <1>1, <3>1 DEF TableInv, PCBLocks
    <3>3. target[q] # p
      BY <2>1, <3>1 DEF Waiting, Holding
    <3> QED
      BY <1>1, <3>2, <3>3
  <2>3. \A q, s \in Slot : Locks(q, s)' <=> Locks(q, s)
    BY <1>1, <1>2 DEF Goes, Locks
  <2>4. \A s \in bm' : s \in bm /\ pcb'[s] = pcb[s] /\ s \in Slot
    BY <1>1, <1>3
  <2> QED
    BY <1>1, <2>2, <2>3, <2>4 DEF TableInv, PCBLocks
<1>7. Handover'
  <2> SUFFICES ASSUME NEW s \in Slot PROVE HandedOver(s)'
    BY DEF Handover
  <2>1. HandedOver(s)
    BY <1>1 DEF TableInv, Handover
  <2>2. \A q \in Slot : pc'[q] = "collect" => pc[q] = "collect"
    BY <1>2 DEF Goes
  <2>3. CASE s = p
    <3>1. pc'[s] = "none" /\ s \notin bm' /\ \A q \in Slot : ~(pc'[q] = "collect" /\ target[q] = s)
      BY <1>1, <1>2, <2>1, <2>2, <2>3 DEF Goes, HandedOver
    <3> QED
      BY <1>1, <3>1 DEF HandedOver, ExitPC
  <2>4. CASE s # p
    <3>1. pc'[s] = pc[s] /\ pcb'[s] = pcb[s] /\ (s \in bm' <=> s \in bm)
      BY <1>1, <1>2, <1>3, <2>4 DEF Goes
    <3> QED
      BY <1>1, <2>1, <2>2, <3>1 DEF HandedOver
  <2> QED
    BY <2>3, <2>4
<1> QED
  BY <1>4, <1>5, <1>6, <1>7 DEF TableInv

LEMMA TableInit == Init => TableInv
<1> SUFFICES ASSUME Init PROVE TableInv
  OBVIOUS
<1>1. TypeOK
  BY TypeInit
<1>2. 0 \in Slot /\ bm = {0} /\ bmsem = 1
  BY ProcTableAssumption DEF Init, Slot
<1>3. \A s \in Slot : /\ pcb[s].state = (IF s = 0 THEN "live" ELSE "null")
                      /\ pcb[s].joinsem = 0 /\ pcb[s].exitsem = 0 /\ pcb[s].multex = 1
                      /\ pc[s] = (IF s = 0 THEN "user" ELSE "none")
  BY DEF Init, NewPCB
<1>4. SlotsTied /\ TableLock
  BY <1>2, <1>3 DEF SlotsTied, TableLock, InExec, ExecPC
<1>5. PCBLocks
  BY <1>2, <1>3 DEF PCBLocks, Locks
<1>6. Handover
  BY <1>2, <1>3 DEF Handover, HandedOver, ExitPC
<1> QED
  BY <1>1, <1>4, <1>5, <1>6 DEF TableInv

LEMMA TableStopped ==
  ASSUME TableInv, TypeOK', UNCHANGED <<bm, bmsem, pcb, pc, target>>,
         outcome' = outcome \/ (outcome = "running" /\ outcome' = "halted")
  PROVE  TableInv'
<1>1. SlotsTied' /\ TableLock'
  BY DEF TableInv, SlotsTied, TableLock
<1>2. PCBLocks'
  BY DEF TableInv, PCBLocks, Locks
<1>3. Handover'
  BY DEF TableInv, Handover, HandedOver
<1> QED
  BY <1>1, <1>2, <1>3 DEF TableInv

LEMMA TableNext == TableInv /\ [Next]_vars => TableInv'
<1> SUFFICES ASSUME TableInv, [Next]_vars PROVE TableInv'
  OBVIOUS
<1>1. TypeOK'
  BY TypeNext DEF TableInv
<1>2. CASE UNCHANGED vars
  BY <1>1, <1>2, TableStopped DEF vars
<1>3. ASSUME NEW p \in Slot, ExecStep(p)
      PROVE  TableInv'
  BY <1>1, <1>3, ExecKeepsTable, AllocateKeepsTable, ForkKeepsTable, LockStepsKeepTable
     DEF ExecStep
<1>4. ASSUME NEW p \in Slot, JoinStep(p)
      PROVE  TableInv'
  <2>1. CASE Fault(target[p])
    BY <1>1, <2>1, FaultKeepsTable
  <2>2. CASE ~Fault(target[p])
    BY <1>1, <1>4, <2>2, LockStepsKeepTable, JoinKeepsTable, CollectKeepsTable DEF JoinStep
  <2> QED
    BY <2>1, <2>2
<1>5. ASSUME NEW p \in Slot, ExitStep(p)
      PROVE  TableInv'
  <2>1. CASE Fault(pcb[p].parentID)
    BY <1>1, <2>1, FaultKeepsTable
  <2>2. CASE MainExit \/ UserHalt(p)
    BY <1>1, <2>2, TableStopped DEF MainExit, UserHalt, At
  <2>3. CASE ~Fault(pcb[p].parentID) /\ ~MainExit /\ ~UserHalt(p)
    BY <1>1, <1>5, <2>3, ExitStartKeepsTable, LockStepsKeepTable, ChildKeepsTable,
       RemoveKeepsTable DEF ExitStep
  <2> QED
    BY <2>1, <2>2, <2>3
<1> QED
  BY <1>2, <1>3, <1>4, <1>5 DEF Next, Stopped, Step

LEMMA TableInvCorrect == Spec => []TableInv
BY TableInit, TableNext, PTL DEF Spec

\* A set of which any two members are equal has none or one.
LEMMA AtMostOne ==
  ASSUME NEW S, \A x, y \in S : x = y
  PROVE  Cardinality(S) = IF S = {} THEN 0 ELSE 1
<1>1. CASE S = {}
  BY <1>1, FS_EmptySet
<1>2. CASE S # {}
  <2>1. PICK x : S = {x}
    BY <1>2
  <2> QED
    BY <2>1, FS_Singleton
<1> QED
  BY <1>1, <1>2

(***************************************************************************)
(* Whatever programs do with Exec, Join, Exit and Halt, up to the first    *)
(* use of deleted memory: a slot is marked as long as its PCB and thread   *)
(* are there, bmsem and each multex are held by at most one thread and     *)
(* closed only then, so no path through ptable.cc and pcb.cc leaves one    *)
(* locked.                                                                 *)
(***************************************************************************)
THEOREM TableConsistentCorrect == Spec => []TableConsistent
<1>1. TableInv => TableConsistent
  <2> SUFFICES ASSUME TableInv PROVE TableConsistent
    OBVIOUS
  <2>1. TypeOK /\ bmsem \in 0 .. 1 /\ bm \subseteq Slot
    BY DEF TableInv, TypeOK
  <2>2. TableMatchesThreads
    BY <2>1 DEF TableInv, SlotsTied, TableMatchesThreads
  <2>3. bmsem + Cardinality(HoldsTable) = 1
    <3>1. \A x, y \in HoldsTable : x = y
      BY DEF HoldsTable, TableInv, TableLock, InExec
    <3>2. bmsem = 0 <=> HoldsTable # {}
      BY DEF HoldsTable, TableInv, TableLock, InExec
    <3>3. Cardinality(HoldsTable) = IF HoldsTable = {} THEN 0 ELSE 1
      BY <3>1, AtMostOne
    <3> QED
      BY <2>1, <3>2, <3>3
  <2>4. ASSUME outcome \in {"running", "halted"}, NEW s \in bm
        PROVE  pcb[s].multex + Cardinality(HoldsPCB(s)) = 1
    <3>1. HoldsPCB(s) = {p \in Slot : Locks(p, s)}
      BY DEF HoldsPCB, Locks
    <3>2. \A x, y \in HoldsPCB(s) : x = y
      BY <2>4, <3>1 DEF TableInv, PCBLocks
    <3>3. pcb[s].multex = 0 <=> HoldsPCB(s) # {}
      BY <2>4, <3>1 DEF TableInv, PCBLocks
    <3>4. Cardinality(HoldsPCB(s)) = IF HoldsPCB(s) = {} THEN 0 ELSE 1
      BY <3>2, AtMostOne
    <3>5. pcb[s].multex \in 0 .. 1
      BY <2>1, FieldTypes
    <3> QED
      BY <3>3, <3>4, <3>5
  <2> QED
    BY <2>1, <2>2, <2>3, <2>4 DEF TableConsistent, LocksHeldOnce
<1> QED
  BY <1>1, TableInvCorrect, PTL

(***************************************************************************)
(* Whatever programs do, a Join that passes joinsem finds the exit code    *)
(* set and the child at the end of its Exit, waiting to be let go.         *)
(***************************************************************************)
THEOREM ExitCodeReadyCorrect == Spec => []ExitCodeReady
<1>1. TableInv => ExitCodeReady
  <2> SUFFICES ASSUME TableInv, NEW p \in Slot, pc[p] = "collect", outcome = "running"
               PROVE  LET c == target[p] IN
                      pcb[c].exitcode \in ExitCodes /\ pc[c] \in {"exitP", "exitWait"}
    BY DEF ExitCodeReady
  <2>1. target[p] \in Slot /\ HandedOver(target[p])
    BY DEF TableInv, TypeOK, Handover
  <2>2. pc[target[p]] \in {"exitP", "exitWait"}
    BY <2>1 DEF HandedOver
  <2> QED
    BY <2>1, <2>2 DEF HandedOver, ExitPC
<1> QED
  BY <1>1, TableInvCorrect, PTL

-----------------------------------------------------------------------------
(* The end of disciplined programs *)

\* Parents are older than their children: no set of processes that are still to be
\* collected has all its parents in itself.
Rooted ==
  \A C \in SUBSET (bm \ {0}) :
    C # {} /\ (\A c \in C : ~Collected(c)) => \E c \in C : pcb[c].parentID \notin C

HaltedAlone == outcome = "halted" => pc[0] = "user" /\ kids[0] = {}

LEMMA RootedShrinks ==
  ASSUME Rooted, bm' \subseteq bm,
         \A s \in bm' \ {0} : ~Collected(s)' => ~Collected(s) /\ pcb'[s].parentID = pcb[s].parentID
  PROVE  Rooted'
<1> SUFFICES ASSUME NEW C \in SUBSET (bm' \ {0}), C # {}, \A c \in C : ~Collected(c)'
             PROVE  \E c \in C : pcb'[c].parentID \notin C
  BY DEF Rooted
<1>1. C \in SUBSET (bm \ {0}) /\ \A c \in C : ~Collected(c)
  OBVIOUS
<1>2. PICK c \in C : pcb[c].parentID \notin C
  BY <1>1 DEF Rooted
<1> QED
  BY <1>2

LEMMA RootedGrows ==
  ASSUME DisciplineInv, Rooted, NEW p \in Slot, ExecAllocate(p)
  PROVE  Rooted'
<1> DEFINE k == target'[p]
<1>1. TypeOK /\ p \in bm
  BY DEF DisciplineInv, SlotsMatch, ExecAllocate, At
<1>2. /\ k \in Slot \ bm /\ bm' = bm \cup {k}
      /\ \A s \in Slot \ {k} : pcb'[s] = pcb[s]
      /\ pcb'[k].parentID = p
  BY <1>1, AllocateEffect
<1>3. \A s \in Slot : pc'[s] = "remove" <=> pc[s] = "remove"
  BY <1>1 DEF ExecAllocate, At, GoTo, TypeOK
<1> HIDE DEF k
<1> SUFFICES ASSUME NEW C \in SUBSET (bm' \ {0}), C # {}, \A c \in C : ~Collected(c)'
             PROVE  \E c \in C : pcb'[c].parentID \notin C
  BY DEF Rooted
<1> DEFINE D == C \ {k}
<1>4. \A s \in D : s \in Slot /\ s \in bm \ {0} /\ pcb'[s] = pcb[s] /\ ~Collected(s)
  BY <1>1, <1>2, <1>3 DEF Collected, TypeOK
<1>5. CASE D = {}
  BY <1>1, <1>2, <1>5
<1>6. CASE D # {}
  <2>1. D \in SUBSET (bm \ {0})
    BY <1>4
  <2>2. PICK s \in D : pcb[s].parentID \notin D
    BY <1>4, <1>6, <2>1 DEF Rooted
  <2>3. pcb[s].parentID \in bm
    BY <1>4 DEF DisciplineInv, ParentsMatch
  <2> QED
    BY <1>2, <1>4, <2>2, <2>3
<1> QED
  BY <1>5, <1>6

\* A step of one thread that keeps parents, and exitsem as long as it is up.
LEMMA RootedStep ==
  ASSUME TypeOK, Rooted, NEW p \in Slot, NEW l, bm' = bm, pc' = [pc EXCEPT ![p] = l],
         pc[p] # "remove" \/ l = "remove",
         \A s \in Slot : /\ pcb'[s].parentID = pcb[s].parentID
                         /\ pcb[s].exitsem > 0 => pcb'[s].exitsem > 0 \/ (s = p /\ l = "remove")
  PROVE  Rooted'
<1>1. \A s \in bm : ~Collected(s)' => ~Collected(s)
  BY DEF Collected, TypeOK
<1>2. bm \subseteq Slot
  BY DEF TypeOK
<1> QED
  BY <1>1, <1>2, RootedShrinks

LEMMA RootedNext ==
  ASSUME DisciplineInv, Rooted, [Next]_vars
  PROVE  Rooted'
<1>1. TypeOK
  BY DEF DisciplineInv
<1>2. CASE UNCHANGED <<bm, pcb, pc>>
  BY <1>2 DEF Rooted, Collected
<1>3. ASSUME NEW p \in Slot, ExecStep(p)
      PROVE  Rooted'
  <2>1. CASE ExecAllocate(p)
    BY <2>1, RootedGrows
  <2>2. CASE ExecFork(p)
    <3>1. bm' = bm /\ target[p] \in Slot /\ pc[p] = "execFork"
      BY <1>1, <2>2 DEF ExecFork, At, TypeOK
    <3>2. Child(p, target[p])
      BY <3>1 DEF DisciplineInv, CreatingMatch, Creating
    <3>3. \A s \in Slot : pcb'[s].parentID = pcb[s].parentID /\ pcb'[s].exitsem = pcb[s].exitsem
      BY <1>1, <2>2, <3>2, ExecForkEffect DEF Child
    <3>4. \A s \in Slot : pc[s] = "remove" => pc'[s] = "remove"
      BY <1>1, <2>2, <3>1, <3>2 DEF ExecFork, TypeOK, Child, Collected
    <3>5. \A s \in bm : ~Collected(s)' => ~Collected(s)
      BY <1>1, <3>3, <3>4 DEF Collected, TypeOK
    <3> QED
      BY <1>1, <3>1, <3>3, <3>5, RootedShrinks DEF TypeOK
  <2>3. CASE ExecUnlock(p)
    <3>1. bm' = bm /\ pc' = [pc EXCEPT ![p] = "execReturn"] /\ pc[p] # "remove"
      BY <2>3 DEF ExecUnlock, At, GoTo
    <3> QED
      BY <1>1, <2>3, <3>1, LockSteps, RootedStep DEF SameTable, SameLinks
  <2>4. CASE ExecStart(p) \/ ExecPass(p) \/ ExecReject(p) \/ ExecReturn(p) \/ Load(p)
    <3>1. /\ bm' = bm /\ pcb' = pcb /\ pc[p] # "remove" /\ pc' = [pc EXCEPT ![p] = pc'[p]]
      BY <1>1, <2>4 DEF ExecStart, ExecPass, ExecReject, ExecReturn, Load, At, PassOrWait, GoTo,
                        TypeOK
    <3> QED
      BY <1>1, <3>1, RootedStep
  <2> QED
    BY <1>3, <2>1, <2>2, <2>3, <2>4 DEF ExecStep
<1>4. ASSUME NEW p \in Slot, JoinStep(p), ~Fault(target[p])
      PROVE  Rooted'
  <2>1. /\ bm' = bm /\ pc[p] # "remove" /\ pc' = [pc EXCEPT ![p] = pc'[p]]
    BY <1>1, <1>4 DEF JoinStep, JoinStart, IncPass, Inc, JoinP, JoinPass, Collect, At,
                      PassOrWait, GoTo, TypeOK
  <2>2. \A s \in Slot : /\ pcb'[s].parentID = pcb[s].parentID
                        /\ pcb[s].exitsem > 0 => pcb'[s].exitsem > 0
    <3>1. CASE Collect(p)
      BY <1>1, <1>4, <3>1, CollectEffect, FieldTypes
    <3>2. CASE ~Collect(p)
      BY <1>1, <1>4, <3>2, LockSteps, JoinPEffect DEF JoinStep, SameTable, SameLinks
    <3> QED
      BY <3>1, <3>2
  <2>3. PICK l : pc' = [pc EXCEPT ![p] = l]
    BY <2>1
  <2>4. \A s \in bm : ~Collected(s)' => ~Collected(s)
    BY <1>1, <2>1, <2>2, <2>3 DEF Collected, TypeOK
  <2> QED
    BY <1>1, <2>1, <2>2, <2>4, RootedShrinks DEF TypeOK
<1>5. ASSUME NEW p \in Slot, ExitStep(p), ~Fault(pcb[p].parentID)
      PROVE  Rooted'
  <2>1. CASE MainExit \/ UserHalt(p)
    BY <1>2, <2>1 DEF MainExit, UserHalt
  <2>2. CASE Remove(p)
    <3>1. bm' = bm \ {p} /\ \A s \in Slot \ {p} : pc'[s] = pc[s] /\ pcb'[s] = pcb[s]
      BY <1>1, <2>2, RemoveEffect DEF Remove, GoTo, TypeOK
    <3> QED
      BY <1>1, <3>1, RootedShrinks DEF Collected, TypeOK
  <2>3. CASE ExitP(p) \/ ExitPass(p)
    <3>1. /\ bm' = bm /\ pc' = [pc EXCEPT ![p] = pc'[p]]
          /\ pc[p] # "remove"
          /\ pcb[p].exitsem > 0 => pc'[p] = "remove"
      BY <1>1, <2>3 DEF ExitP, ExitPass, At, PassOrWait, GoTo, TypeOK
    <3>2. \A s \in Slot : /\ pcb'[s].parentID = pcb[s].parentID
                          /\ s # p => pcb'[s].exitsem = pcb[s].exitsem
      BY <1>1, <2>3, ExitSemEffect
    <3> QED
      BY <1>1, <3>1, <3>2, RootedStep
  <2>4. CASE ExitStart(p) \/ DecPass(p) \/ Dec(p) \/ Release(p)
    <3>1. bm' = bm /\ pc[p] # "remove" /\ pc' = [pc EXCEPT ![p] = pc'[p]]
      BY <1>1, <1>5, <2>4 DEF ExitStart, DecPass, Dec, Release, At, PassOrWait, GoTo, TypeOK
    <3>2. SameLinks
      BY <1>1, <1>5, <2>4, ExitStartEffect, LockSteps, ReleaseEffect DEF SameTable
    <3> QED
      BY <1>1, <3>1, <3>2, RootedStep DEF SameLinks
  <2> QED
    BY <1>5, <2>1, <2>2, <2>3, <2>4 DEF ExitStep
<1>6. ASSUME NEW s, Fault(s)
      PROVE  Rooted'
  BY <1>2, <1>6 DEF Fault
<1> QED
  BY <1>2, <1>3, <1>4, <1>5, <1>6 DEF Next, Stopped, Step, vars

LEMMA HaltedNext ==
  ASSUME Disciplined, HaltedAlone, [Next]_vars
  PROVE  HaltedAlone'
<1>1. CASE outcome = "halted"
  <2>1. UNCHANGED vars
    BY <1>1 DEF Next, Stopped, Step, ExecStep, ExecStart, ExecPass, ExecReject, ExecAllocate,
      ExecFork, ExecUnlock, ExecReturn, Load, JoinStep, JoinStart, IncPass, Inc, JoinP, JoinPass,
      Collect, ExitStep, MainExit, UserHalt, ExitStart, DecPass, Dec, Release, ExitP, ExitPass,
      Remove, At
  <2> QED
    BY <2>1 DEF HaltedAlone, vars
<1>2. CASE outcome # "halted" /\ outcome' = "halted"
  <2>1. MainExit
    <3>1. \A c : Fault(c) => outcome' = "freed"
      BY DEF Fault
    <3>2. PICK p \in Slot : Step(p)
      BY <1>2 DEF Next, Stopped, vars
    <3>3. CASE ExecStep(p)
      BY <1>2, <3>1, <3>3 DEF ExecStep, ExecStart, ExecPass, ExecReject, ExecAllocate, ExecFork,
        ExecUnlock, ExecReturn, Load
    <3>4. CASE JoinStep(p)
      BY <1>2, <3>1, <3>4 DEF JoinStep, JoinStart, IncPass, Inc, JoinP, JoinPass, Collect
    <3>5. CASE ExitStep(p)
      BY <1>2, <3>1, <3>5 DEF ExitStep, UserHalt, ExitStart, DecPass, Dec, Release, ExitP, ExitPass,
        Remove
    <3> QED
      BY <3>2, <3>3, <3>4, <3>5, Zenon DEF Step
  <2> QED
    BY <2>1 DEF MainExit, At, HaltedAlone
<1> QED
  BY <1>1, <1>2 DEF HaltedAlone

(***************************************************************************)
(* When disciplined programs have come to main's Exit, every other process *)
(* has been joined and let go: main has no children left, a process in its *)
(* Exit has none, and parents are older than children.                     *)
(***************************************************************************)
THEOREM AllReleasedCorrect ==
  ASSUME Disciplined
  PROVE  Spec => []AllReleasedAtHalt
<1>1. Init => Rooted /\ HaltedAlone
  BY DEF Init, Rooted, HaltedAlone
<1>2. DisciplineInv /\ Rooted /\ HaltedAlone /\ [Next]_vars => Rooted' /\ HaltedAlone'
  BY RootedNext, HaltedNext
<1>3. DisciplineInv /\ Rooted /\ HaltedAlone => AllReleasedAtHalt
  <2> SUFFICES ASSUME DisciplineInv, Rooted, HaltedAlone, outcome = "halted"
               PROVE  AllReleasedAtHalt
    BY DEF AllReleasedAtHalt
  <2>1. bm \subseteq Slot
    BY DEF DisciplineInv, TypeOK
  <2> DEFINE C == {s \in bm \ {0} : ~Collected(s)}
  <2>2. C = {}
    <3> SUFFICES ASSUME C # {} PROVE FALSE
      OBVIOUS
    <3>1. C \in SUBSET (bm \ {0}) /\ \A c \in C : ~Collected(c)
      OBVIOUS
    <3>2. PICK c \in C : pcb[c].parentID \notin C
      BY <3>1 DEF Rooted
    <3> DEFINE q == pcb[c].parentID
    <3>3. q \in bm /\ (c \in kids[q] \/ pc[q] \in Creating)
      BY <3>2 DEF DisciplineInv, ParentsMatch
    <3>4. CASE q = 0
      BY <3>3, <3>4 DEF HaltedAlone, Creating
    <3>5. CASE q # 0
      <4>1. Collected(q)
        BY <3>2, <3>3, <3>5
      <4>2. pc[q] \in {"exitP", "exitWait", "remove"}
        BY <2>1, <3>3, <4>1 DEF Collected, DisciplineInv, ExitingMatch
      <4>3. kids[q] = {}
        BY <2>1, <3>3, <4>2 DEF DisciplineInv, ExitingMatch, ExitPC
      <4> QED
        BY <3>3, <4>2, <4>3 DEF Creating
    <3> QED
      BY <3>4, <3>5
  <2> SUFFICES ASSUME NEW s \in bm \ {0}
               PROVE  \/ pc[s] \in {"exitP", "exitWait"} /\ pcb[s].exitsem = 1
                      \/ pc[s] = "remove"
    BY DEF AllReleasedAtHalt
  <2>3. Collected(s)
    BY <2>2
  <2> QED
    BY <2>1, <2>3 DEF Collected, DisciplineInv, ExitingMatch
<1> QED
  BY <1>1, <1>2, <1>3, DisciplineCorrect, PTL DEF Spec
=============================================================================
