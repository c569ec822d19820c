----------------------------- MODULE ProcTable -----------------------------
(***************************************************************************)
(* The process table: threads/ptable.cc and threads/pcb.cc, behind the     *)
(* system calls Exec, Join and Exit.                                       *)
(*                                                                         *)
(* A process is named by its slot; a slot has at most one thread, so the   *)
(* thread's code position is pc[slot].  The kernel is preempted only where *)
(* a P, a V or Fork enables interrupts again (module Threads): an action   *)
(* is the code between two such points.  Semaphores are those of           *)
(* CountingSemaphore, which Threads implements: P passes when the value is *)
(* positive, and otherwise leaves the thread waiting.                      *)
(*                                                                         *)
(* Touching a semaphore after its destructor ran is undefined; outcome     *)
(* records the first time it happens and nothing is modelled after.  The   *)
(* memory of the PCB itself is never freed: ~PCB finishes the thread that  *)
(* runs it and never returns.                                              *)
(*                                                                         *)
(* The main thread's processID is never assigned; it is taken to be the 0  *)
(* that a fresh heap gives it, without which no process could be joined.   *)
(***************************************************************************)
EXTENDS Integers, FiniteSets

CONSTANTS
  MaxProcess,   \* MAX_PROCESS, the size of the table
  ExitCodes,    \* arguments of Exit
  Disciplined,  \* TRUE: programs Join each child once and before they Exit
  LoadMayFail,  \* TRUE: AddrSpace::Load may return FALSE
  MaxExec,      \* bound: calls of Exec in a behaviour
  MaxWait       \* bound: numwait stays there once it got there

ASSUME ProcTableAssumption ==
  /\ MaxProcess \in Nat \ {0}
  /\ 0 \notin ExitCodes
  /\ Disciplined \in BOOLEAN
  /\ LoadMayFail \in BOOLEAN
  /\ MaxExec \in Nat
  /\ MaxWait \in Nat

VARIABLES
  bm,       \* PTable::bm, the set of marked slots
  bmsem,    \* PTable::bmsem
  pcb,      \* PTable::pcb
  pc,       \* where the process's thread stands; "none" without a thread
  target,   \* the slot the call in progress is about
  kids,     \* the program's own record: ids Exec returned, not yet Joined
  execs,    \* number of calls of Exec
  outcome,  \* "running", "halted", or how deleted memory came to be used
  orphans   \* history: the slots whose process's creator was removed

vars == <<bm, bmsem, pcb, pc, target, kids, execs, outcome, orphans>>

-----------------------------------------------------------------------------
Slot   == 0 .. MaxProcess - 1
Parent == -1 .. MaxProcess - 1

\* load: at the start of StartProcess.  dead: StartProcess returned.  A ...Wait
\* position is inside P; the others are just after a P, a V or Fork, or in
\* user code.
ExecPC == {"execWait", "exec", "execFork", "execUnlock", "execReturn"}
JoinPC == {"incWait", "inc", "join", "joinWait", "collect"}
ExitPC == {"decWait", "dec", "release", "exitP", "exitWait", "remove"}
PC     == {"none", "load", "dead", "user"} \cup ExecPC \cup JoinPC \cup ExitPC

PCB == [state : {"null", "live", "deleted"}, parentID : Parent, numwait : 0 .. MaxWait,
        exitcode : ExitCodes \cup {0}, joinsem : Nat, exitsem : Nat, multex : 0 .. 1]

\* Faulty variants: a semaphore created with the value 1.
NewPCBJoinable(parent) ==
  [state |-> "live", parentID |-> parent, numwait |-> 0, exitcode |-> 0,
   joinsem |-> 1, exitsem |-> 0, multex |-> 1]
NewPCBReleased(parent) ==
  [state |-> "live", parentID |-> parent, numwait |-> 0, exitcode |-> 0,
   joinsem |-> 0, exitsem |-> 1, multex |-> 1]

NewPCB(parent) ==
  [state |-> "live", parentID |-> parent, numwait |-> 0, exitcode |-> 0,
   joinsem |-> 0, exitsem |-> 0, multex |-> 1]

TypeOK ==
  /\ bm \subseteq Slot
  /\ bmsem \in 0 .. 1
  /\ pcb \in [Slot -> PCB]
  /\ \A s \in Slot \ {0} : pcb[s].parentID \in Slot
  /\ pc \in [Slot -> PC]
  /\ target \in [Slot -> Slot]
  /\ kids \in [Slot -> SUBSET Slot]
  /\ execs \in 0 .. MaxExec
  /\ outcome \in {"running", "halted", "freed", "waiter"}
  /\ orphans \subseteq Slot

Init ==
  /\ bm = {0}
  /\ bmsem = 1
  /\ pcb = [s \in Slot |-> IF s = 0 THEN NewPCB(-1)
                           ELSE [NewPCB(0) EXCEPT !.state = "null"]]
  /\ pc = [s \in Slot |-> IF s = 0 THEN "user" ELSE "none"]
  /\ target = [s \in Slot |-> 0]
  /\ kids = [s \in Slot |-> {}]
  /\ execs = 0
  /\ outcome = "running"
  /\ orphans = {}

\* The machine runs and p's thread stands at l.
At(p, l) == pc[p] = l /\ outcome = "running"
GoTo(p, l) == pc' = [pc EXCEPT ![p] = l]

\* The P at which p stands passes to l, or leaves p waiting at w.
PassOrWait(p, value, l, w) ==
  GoTo(p, IF value > 0 THEN l ELSE w)

Exists(s) == s \in bm

\* The code uses the PCB in slot s, which the destructor has been through.
Fault(s) ==
  /\ pcb[s].state # "live"
  /\ outcome' = "freed"
  /\ UNCHANGED <<bm, bmsem, pcb, pc, target, kids, execs, orphans>>

-----------------------------------------------------------------------------
(* Exec: PTable::ExecUpdate and PCB::Exec *)

ExecStart(p) ==
  /\ At(p, "user")
  /\ execs < MaxExec
  /\ execs' = execs + 1
  /\ PassOrWait(p, bmsem, "exec", "execWait")
  /\ bmsem' = 0
  /\ UNCHANGED <<bm, pcb, target, kids, outcome, orphans>>

ExecPass(p) ==
  /\ At(p, "execWait")
  /\ bmsem > 0
  /\ bmsem' = 0
  /\ GoTo(p, "exec")
  /\ UNCHANGED <<bm, pcb, target, kids, execs, outcome, orphans>>

\* Faulty variant: an early return without bmsem's V.
ExecRejectLocked(p) ==
  /\ At(p, "exec")
  /\ GoTo(p, "user")
  /\ UNCHANGED <<bm, bmsem, pcb, target, kids, execs, outcome, orphans>>

\* No name, the caller's own name, or no free slot: Exec returns -1.  Names are
\* left out, so any call may end here.
ExecReject(p) ==
  /\ At(p, "exec")
  /\ bmsem' = 1
  /\ GoTo(p, "user")
  /\ UNCHANGED <<bm, pcb, target, kids, execs, outcome, orphans>>

\* GetFreeSlot, new PCB, and the P of the new PCB's own multex.
ExecAllocate(p) ==
  /\ At(p, "exec")
  /\ \E s \in Slot \ bm :
       /\ \A r \in Slot \ bm : s <= r
       /\ bm' = bm \cup {s}
       /\ pcb' = [pcb EXCEPT ![s] = [NewPCB(p) EXCEPT !.multex = 0]]
       /\ orphans' = orphans \ {s}
       /\ target' = [target EXCEPT ![p] = s]
  /\ GoTo(p, "execFork")
  /\ UNCHANGED <<bmsem, kids, execs, outcome>>

ExecFork(p) ==
  /\ At(p, "execFork")
  /\ pcb' = [pcb EXCEPT ![target[p]].parentID = p]
  /\ pc' = [pc EXCEPT ![p] = "execUnlock", ![target[p]] = "load"]
  /\ UNCHANGED <<bm, bmsem, target, kids, execs, outcome, orphans>>

ExecUnlock(p) ==
  /\ At(p, "execUnlock")
  /\ pcb' = [pcb EXCEPT ![target[p]].multex = 1]
  /\ GoTo(p, "execReturn")
  /\ UNCHANGED <<bm, bmsem, target, kids, execs, outcome, orphans>>

ExecReturn(p) ==
  /\ At(p, "execReturn")
  /\ bmsem' = 1
  /\ kids' = [kids EXCEPT ![p] = @ \cup {target[p]}]
  /\ GoTo(p, "user")
  /\ UNCHANGED <<bm, pcb, target, execs, outcome, orphans>>

\* StartProcess.  When Load fails it returns and the thread finishes; the slot
\* and the PCB stay as they are.
Load(p) ==
  /\ At(p, "load")
  /\ \E l \in IF LoadMayFail THEN {"user", "dead"} ELSE {"user"} : GoTo(p, l)
  /\ UNCHANGED <<bm, bmsem, pcb, target, kids, execs, outcome, orphans>>

-----------------------------------------------------------------------------
(* Join: PTable::JoinUpdate *)

\* The checks, and the P of IncNumWait.  A Join that fails them returns -1 and
\* changes nothing.
JoinStart(p, c) ==
  /\ At(p, "user")
  /\ Disciplined => c \in kids[p]
  /\ Exists(c)
  /\ pcb[c].parentID = p
  /\ PassOrWait(p, pcb[p].multex, "inc", "incWait")
  /\ pcb' = [pcb EXCEPT ![p].multex = 0]
  /\ target' = [target EXCEPT ![p] = c]
  /\ UNCHANGED <<bm, bmsem, kids, execs, outcome, orphans>>

IncPass(p) ==
  /\ At(p, "incWait")
  /\ pcb[p].multex > 0
  /\ pcb' = [pcb EXCEPT ![p].multex = 0]
  /\ GoTo(p, "inc")
  /\ UNCHANGED <<bm, bmsem, target, kids, execs, outcome, orphans>>

Inc(p) ==
  /\ At(p, "inc")
  /\ pcb' = [pcb EXCEPT ![p].numwait = IF @ < MaxWait THEN @ + 1 ELSE @,
                         ![p].multex = 1]
  /\ GoTo(p, "join")
  /\ UNCHANGED <<bm, bmsem, target, kids, execs, outcome, orphans>>

\* Faulty variant: Join does not wait.
JoinPUnwaited(p) ==
  /\ At(p, "join")
  /\ GoTo(p, "collect")
  /\ UNCHANGED <<bm, bmsem, pcb, target, kids, execs, outcome, orphans>>

\* joinsem's P, on the PCB that is in the slot now.
JoinP(p) ==
  LET c == target[p] IN
  /\ At(p, "join")
  /\ \/ Fault(c)
     \/ /\ pcb[c].state = "live"
        /\ PassOrWait(p, pcb[c].joinsem, "collect", "joinWait")
        /\ pcb' = [pcb EXCEPT ![c].joinsem = IF @ > 0 THEN @ - 1 ELSE @]
        /\ UNCHANGED <<bm, bmsem, target, kids, execs, outcome, orphans>>

JoinPass(p) ==
  /\ At(p, "joinWait")
  /\ pcb[target[p]].joinsem > 0
  /\ pcb' = [pcb EXCEPT ![target[p]].joinsem = @ - 1]
  /\ GoTo(p, "collect")
  /\ UNCHANGED <<bm, bmsem, target, kids, execs, outcome, orphans>>

\* Faulty variant: the child is not released.
CollectKeeps(p) ==
  /\ At(p, "collect")
  /\ kids' = [kids EXCEPT ![p] = @ \ {target[p]}]
  /\ GoTo(p, "user")
  /\ UNCHANGED <<bm, bmsem, pcb, target, execs, outcome, orphans>>

\* GetExitCode and ExitRelease.
Collect(p) ==
  LET c == target[p] IN
  /\ At(p, "collect")
  /\ \/ Fault(c)
     \/ /\ pcb[c].state = "live"
        /\ pcb' = [pcb EXCEPT ![c].exitsem = @ + 1]
        /\ kids' = [kids EXCEPT ![p] = @ \ {c}]
        /\ GoTo(p, "user")
        /\ UNCHANGED <<bm, bmsem, target, execs, outcome, orphans>>

-----------------------------------------------------------------------------
(* Exit: PTable::ExitUpdate *)

MainExit ==
  /\ At(0, "user")
  /\ Disciplined => kids[0] = {}
  /\ outcome' = "halted"
  /\ UNCHANGED <<bm, bmsem, pcb, pc, target, kids, execs, orphans>>

\* Halt, or an exception that is not a system call.
UserHalt(p) ==
  /\ At(p, "user")
  /\ ~Disciplined
  /\ outcome' = "halted"
  /\ UNCHANGED <<bm, bmsem, pcb, pc, target, kids, execs, orphans>>

\* SetExitCode, and the P of the parent's DecNumWait.
ExitStart(p) ==
  LET f == pcb[p].parentID IN
  /\ p # 0
  /\ At(p, "user")
  /\ Disciplined => kids[p] = {}
  /\ \/ Fault(f)
     \/ /\ pcb[f].state = "live"
        /\ PassOrWait(p, pcb[f].multex, "dec", "decWait")
        /\ \E ec \in ExitCodes :
             pcb' = [pcb EXCEPT ![p].exitcode = ec, ![f].multex = 0]
        /\ target' = [target EXCEPT ![p] = f]
        /\ UNCHANGED <<bm, bmsem, kids, execs, outcome, orphans>>

DecPass(p) ==
  /\ At(p, "decWait")
  /\ pcb[target[p]].multex > 0
  /\ pcb' = [pcb EXCEPT ![target[p]].multex = 0]
  /\ GoTo(p, "dec")
  /\ UNCHANGED <<bm, bmsem, target, kids, execs, outcome, orphans>>

\* Faulty variant: numwait is not tested.
DecUntested(p) ==
  /\ At(p, "dec")
  /\ pcb' = [pcb EXCEPT ![target[p]].numwait = @ - 1, ![target[p]].multex = 1]
  /\ GoTo(p, "release")
  /\ UNCHANGED <<bm, bmsem, target, kids, execs, outcome, orphans>>

Dec(p) ==
  /\ At(p, "dec")
  /\ pcb' = [pcb EXCEPT ![target[p]].numwait = IF @ > 0 THEN @ - 1 ELSE @,
                         ![target[p]].multex = 1]
  /\ GoTo(p, "release")
  /\ UNCHANGED <<bm, bmsem, target, kids, execs, outcome, orphans>>

\* Faulty variant: the parent is not released.
ReleaseForgotten(p) ==
  /\ At(p, "release")
  /\ GoTo(p, "exitP")
  /\ UNCHANGED <<bm, bmsem, pcb, target, kids, execs, outcome, orphans>>

Release(p) ==
  /\ At(p, "release")
  /\ pcb' = [pcb EXCEPT ![p].joinsem = @ + 1]
  /\ GoTo(p, "exitP")
  /\ UNCHANGED <<bm, bmsem, target, kids, execs, outcome, orphans>>

\* Faulty variant: Exit does not wait for the parent.
ExitPUnwaited(p) ==
  /\ At(p, "exitP")
  /\ GoTo(p, "remove")
  /\ UNCHANGED <<bm, bmsem, pcb, target, kids, execs, outcome, orphans>>

ExitP(p) ==
  /\ At(p, "exitP")
  /\ PassOrWait(p, pcb[p].exitsem, "remove", "exitWait")
  /\ pcb' = [pcb EXCEPT ![p].exitsem = IF @ > 0 THEN @ - 1 ELSE @]
  /\ UNCHANGED <<bm, bmsem, target, kids, execs, outcome, orphans>>

ExitPass(p) ==
  /\ At(p, "exitWait")
  /\ pcb[p].exitsem > 0
  /\ pcb' = [pcb EXCEPT ![p].exitsem = @ - 1]
  /\ GoTo(p, "remove")
  /\ UNCHANGED <<bm, bmsem, target, kids, execs, outcome, orphans>>

\* Threads that hold a reference to p's semaphores across a switch.
Waiting(p) == {r \in Slot \ {p} : pc[r] \in {"joinWait", "decWait"} /\ target[r] = p}
Holding(p) == {r \in Slot \ {p} : pc[r] \in {"dec", "execUnlock"} /\ target[r] = p}

\* Faulty variant: the slot stays marked.
RemoveKeepsSlot(p) ==
  /\ At(p, "remove")
  /\ pcb' = [pcb EXCEPT ![p].state = "deleted"]
  /\ GoTo(p, "none")
  /\ kids' = [kids EXCEPT ![p] = {}]
  /\ UNCHANGED <<bm, bmsem, target, execs, outcome, orphans>>

\* PTable::Remove, ~PCB and the thread's Finish.
Remove(p) ==
  /\ At(p, "remove")
  /\ bm' = bm \ {p}
  /\ pcb' = [pcb EXCEPT ![p].state = "deleted"]
  /\ GoTo(p, "none")
  /\ kids' = [kids EXCEPT ![p] = {}]
  /\ orphans' = orphans \cup {s \in bm : pcb[s].parentID = p}
  /\ outcome' = IF Waiting(p) # {} THEN "waiter"
                ELSE IF Holding(p) # {} THEN "freed" ELSE outcome
  /\ UNCHANGED <<bmsem, target, execs>>

-----------------------------------------------------------------------------
ExecStep(p) ==
  \/ ExecStart(p) \/ ExecPass(p) \/ ExecReject(p) \/ ExecAllocate(p)
  \/ ExecFork(p) \/ ExecUnlock(p) \/ ExecReturn(p) \/ Load(p)

JoinStep(p) ==
  \/ \E c \in Slot : JoinStart(p, c)
  \/ IncPass(p) \/ Inc(p) \/ JoinP(p) \/ JoinPass(p) \/ Collect(p)

ExitStep(p) ==
  \/ p = 0 /\ MainExit
  \/ UserHalt(p) \/ ExitStart(p) \/ DecPass(p) \/ Dec(p) \/ Release(p)
  \/ ExitP(p) \/ ExitPass(p) \/ Remove(p)

Step(p) == ExecStep(p) \/ JoinStep(p) \/ ExitStep(p)

\* The machine stopped, or what follows is undefined.
Stopped == outcome # "running" /\ UNCHANGED vars

Next == Stopped \/ \E p \in Slot : Step(p)

Spec == Init /\ [][Next]_vars

\* Every thread that can run is run in the end (Threads!ReadyRuns), and every
\* program comes to its next system call.
FairSpec == Spec /\ \A p \in Slot : WF_vars(Step(p))

-----------------------------------------------------------------------------
(* Properties *)

\* The bitmap, the PCBs and the threads agree: a slot is marked exactly while
\* its PCB is live, and has a thread except in the middle of the Exec that
\* fills it.  (FindAndSet, new PCB, Remove: ptable.cc:63, :143-150.)
TableMatchesThreads ==
  \A s \in Slot :
    /\ s \in bm <=> pcb[s].state = "live"
    /\ s \in bm <=> \/ pc[s] # "none"
                    \/ \E p \in Slot : pc[p] = "execFork" /\ target[p] = s

\* bmsem and every multex are binary locks: free, or held by the one thread
\* between its P and its V, whichever of Exec, IncNumWait or DecNumWait took it.
HoldsTable  == {p \in Slot : pc[p] \in ExecPC \ {"execWait"}}
HoldsPCB(s) == {p \in Slot : \/ pc[p] = "inc" /\ p = s
                             \/ pc[p] \in {"dec", "execFork", "execUnlock"} /\ target[p] = s}

LocksHeldOnce ==
  /\ bmsem + Cardinality(HoldsTable) = 1
  /\ outcome \in {"running", "halted"} =>
       \A s \in bm : pcb[s].multex + Cardinality(HoldsPCB(s)) = 1

\* However programs call Exec, Join, Exit and Halt, table, threads and locks agree
\* until deleted memory is used (ptable.cc:31-150, pcb.cc:24-100).
TableConsistent == TypeOK /\ TableMatchesThreads /\ LocksHeldOnce

\* Join reads an exit code only once the joined process has set it and stands
\* at the end of its Exit (ptable.cc:89-92 against :118-124).
ExitCodeReady ==
  \A p \in Slot : LET c == target[p] IN
    pc[p] = "collect" /\ outcome = "running" /\ c \in bm =>
      pcb[c].exitcode \in ExitCodes /\ pc[c] \in {"exitP", "exitWait"}

\* A process's slot is given back only after a Join by its parent returned its
\* exit code (ptable.cc:124-126): until then the id stays the child's.
SlotHeldUntilJoined ==
  [][\A s \in bm \ bm' : s \notin kids[pcb[s].parentID]]_vars

\* No PCB or semaphore is used after it was deleted.
NoUseAfterDelete == outcome \in {"running", "halted"}

\* The parent of a process that has not finished with its parent's PCB
\* (ptable.cc:116-119) is in the table, and is the process that created it.
ParentsLive ==
  \A s \in bm \ {0} :
    pc[s] \notin {"exitP", "exitWait", "remove"} => pcb[s].parentID \in bm /\ s \notin orphans

\* All through a Join, whose check of parentID is made once, before the waits, the
\* slot holds a process that the caller created (ptable.cc:79-94).
JoinedOwnChild ==
  \A p \in Slot : LET c == target[p] IN
    pc[p] \in JoinPC => c \in bm /\ pcb[c].parentID = p /\ c \notin orphans

\* If programs keep the discipline, references from process to process are live:
\* to the parent, the child and their semaphores (ptable.cc:79-126, pcb.cc:37-100).
LiveReferences == NoUseAfterDelete /\ ParentsLive /\ JoinedOwnChild

\* The system comes to its end: whatever the order of the calls, no Exec, Join
\* or Exit of programs that keep the discipline waits for ever.
Terminates == <>(outcome = "halted")

\* When main halts the machine every other process has been joined and let go:
\* none is left behind that still waits for its parent or for a lock.
AllReleasedAtHalt ==
  outcome = "halted" => \A s \in bm \ {0} :
              \/ pc[s] \in {"exitP", "exitWait"} /\ pcb[s].exitsem = 1
              \/ pc[s] = "remove"
=============================================================================
