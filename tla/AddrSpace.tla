----------------------------- MODULE AddrSpace -----------------------------
(***************************************************************************)
(* Address spaces: userprog/addrspace.cc and the part of Scheduler::Run    *)
(* and Thread::FreeSpace that concerns them.                               *)
(*                                                                         *)
(* Processes load programs into frames taken from one bitmap, run through  *)
(* the one page table register of the machine, and exit.  current is the   *)
(* thread that has the CPU.  It can lose it where it stands in pc: inside  *)
(* and just after addrLock's P and V, and in user code.                    *)
(*                                                                         *)
(* A page table is named by the process whose Load built it, and a byte of *)
(* memory is the record of who put it there: a process, the segment of its *)
(* file it comes from ("store" for user code) and its place in it.         *)
(***************************************************************************)
EXTENDS Integers, Sequences, FiniteSets

CONSTANTS
  Proc,         \* processes
  NumPhysPages, \* frames of the machine
  PageSize,     \* bytes in a page
  StackSize,    \* UserStackSize
  Programs,     \* NOFF headers: the sizes of the segments
  None,         \* no process
  MaxStore      \* bound: stores of user code in a behaviour

ASSUME AddrSpaceAssumption ==
  /\ NumPhysPages \in Nat \ {0} /\ PageSize \in Nat \ {0}
  /\ StackSize \in Nat \ {0} /\ MaxStore \in Nat
  /\ Programs \subseteq [code : Nat \ {0}, ro : Nat, init : Nat, uninit : Nat]
  /\ None \notin Proc

VARIABLES
  marked,       \* Kernel::gPhysPageBitMap, the set of frames in use
  addrLock,     \* Kernel::addrLock
  memory,       \* Machine::mainMemory
  pageTable,    \* the frames of the table each process's Load built
  space,        \* the table each thread's AddrSpace points at; None: no space
  machineTable, \* Machine::pageTable
  current,      \* Kernel::currentThread
  pc,           \* where each process's thread stands
  program,      \* the header of the file each process loads
  stores        \* number of stores

vars == <<marked, addrLock, memory, pageTable, space, machineTable, current, pc, program, stores>>

-----------------------------------------------------------------------------
Frame  == 0 .. NumPhysPages - 1
Offset == 0 .. PageSize - 1
Zero   == <<None, "zero", 0>>
Byte   == {Zero} \cup (Proc \X {"code", "ro", "init", "store"} \X Nat)
PC     == {"start", "lockWait", "locked", "copy", "user", "gone"}

DivRoundUp(n, s) == (n \div s) + IF n % s # 0 THEN 1 ELSE 0

NumPages(h) == DivRoundUp(h.code + h.ro + h.init + h.uninit + StackSize, PageSize)

\* What a segment's n bytes leave in the last of their pages; (0 - 1) % PageSize
\* is -1 in C.
LastPageSizeFull(n) == ((n - 1) % PageSize) + 1    \* faulty variant: as if % were mathematical
LastPageSize(n) == IF n = 0 THEN 0 ELSE ((n - 1) % PageSize) + 1

Least(m, n) == IF m < n THEN m ELSE n

\* The ReadAt calls that put a segment into whole pages from page first on,
\* starting with its byte from.
PageReads(seg, first, n, last, from) ==
  {[seg |-> seg, page |-> first + j, offset |-> 0,
    count |-> IF j < n - 1 THEN PageSize ELSE last, from |-> from + j * PageSize] : j \in 0 .. n - 1}

\* The ReadAt call that fills up the last page of the segment before.
FirstRead(seg, page, offset, count) ==
  {[seg |-> seg, page |-> page, offset |-> offset, count |-> count, from |-> 0]}

\* All the ReadAt calls of a Load.
Reads(h) ==
  LET codePages == DivRoundUp(h.code, PageSize)
      codeLast  == LastPageSize(h.code)
      roFirst   == Least(PageSize - codeLast, h.ro)
      roPages   == DivRoundUp(h.ro - roFirst, PageSize)
      roLast    == LastPageSize(h.ro - roFirst)
      initFirst == Least(PageSize - roLast, h.init)
      initPages == DivRoundUp(h.init - initFirst, PageSize)
      initLast  == LastPageSize(h.init - initFirst)
      roEnd     == codePages + roPages
  IN PageReads("code", 0, codePages, codeLast, 0)
     \cup (IF h.ro > 0 /\ codeLast # PageSize
             THEN FirstRead("ro", codePages - 1, codeLast, roFirst) ELSE {})
     \cup (IF h.ro > 0 THEN PageReads("ro", codePages, roPages, roLast, roFirst) ELSE {})
     \cup (IF h.init > 0 /\ roLast # PageSize /\ roPages > 0
             THEN FirstRead("init", roEnd - 1, roLast, initFirst) ELSE {})
     \cup (IF h.init > 0 THEN PageReads("init", roEnd, initPages, initLast, initFirst) ELSE {})

\* What Load leaves at an offset of a page it zeroed.
Loaded(p, h, page, offset) ==
  LET covers == {r \in Reads(h) : r.page = page /\ offset \in r.offset .. r.offset + r.count - 1}
  IN IF covers = {} THEN Zero
     ELSE LET r == CHOOSE x \in covers : TRUE
          IN <<p, r.seg, r.from + offset - r.offset>>

\* What the program's linker put at a virtual address: the segments follow each
\* other from address 0 on.
Linked(p, h, addr) ==
  CASE addr < h.code                 -> <<p, "code", addr>>
    [] addr \in h.code .. h.code + h.ro - 1 -> <<p, "ro", addr - h.code>>
    [] addr \in h.code + h.ro .. h.code + h.ro + h.init - 1 -> <<p, "init", addr - h.code - h.ro>>
    [] OTHER                         -> Zero

TypeOK ==
  /\ marked \subseteq Frame
  /\ addrLock \in 0 .. 1
  /\ memory \in [Frame -> [Offset -> Byte]]
  /\ pageTable \in [Proc -> Seq(Frame \cup {-1})]
  /\ space \in [Proc -> Proc \cup {None}]
  /\ machineTable \in Proc \cup {None}
  /\ current \in Proc
  /\ pc \in [Proc -> PC]
  /\ program \in [Proc -> Programs]
  /\ stores \in 0 .. MaxStore

Init ==
  /\ marked = {}
  /\ addrLock = 1
  /\ memory = [f \in Frame |-> [o \in Offset |-> Zero]]
  /\ pageTable = [p \in Proc |-> <<>>]
  /\ space = [p \in Proc |-> None]
  /\ machineTable = None
  /\ current \in Proc
  /\ pc = [p \in Proc |-> "start"]
  /\ program \in [Proc -> Programs]
  /\ stores = 0

At(p, l) == current = p /\ pc[p] = l
GoTo(p, l) == pc' = [pc EXCEPT ![p] = l]

-----------------------------------------------------------------------------
(* AddrSpace::Load *)

\* Open finds no file.
OpenFails(p) ==
  /\ At(p, "start")
  /\ GoTo(p, "gone")
  /\ UNCHANGED <<marked, addrLock, memory, pageTable, space, machineTable, current, program, stores>>

\* addrLock's P; it is tried again whenever a waiting thread is resumed.
LockP(p) ==
  /\ At(p, "start") \/ (At(p, "lockWait") /\ addrLock > 0)
  /\ GoTo(p, IF addrLock > 0 THEN "locked" ELSE "lockWait")
  /\ addrLock' = 0
  /\ UNCHANGED <<marked, memory, pageTable, space, machineTable, current, program, stores>>

NumClear == NumPhysPages - Cardinality(marked)

\* Faulty variant: the early return forgets it already gave the lock back.
NoRoomUnlocksTwice(p) ==
  /\ At(p, "locked")
  /\ NumPages(program[p]) > NumClear
  /\ addrLock' = addrLock + 2
  /\ GoTo(p, "gone")
  /\ UNCHANGED <<marked, memory, pageTable, space, machineTable, current, program, stores>>

NoRoom(p) ==
  /\ At(p, "locked")
  /\ NumPages(program[p]) > NumClear
  /\ addrLock' = addrLock + 1
  /\ GoTo(p, "gone")
  /\ UNCHANGED <<marked, memory, pageTable, space, machineTable, current, program, stores>>

\* n calls of FindAndSet: the lowest clear frames, and -1 when there is none.
FindAndSet(n) ==
  LET rank(f) == Cardinality({g \in Frame \ marked : g <= f}) IN
  [i \in 1 .. n |-> IF \E f \in Frame \ marked : rank(f) = i
                    THEN CHOOSE f \in Frame \ marked : rank(f) = i ELSE -1]

Found(table) == {table[i] : i \in DOMAIN table} \ {-1}

\* Faulty variants: Test for Mark; a page too many let in.
AllocateUnmarked(p) ==
  LET n == NumPages(program[p])
      table == FindAndSet(n) IN
  /\ At(p, "locked")
  /\ n <= NumClear
  /\ pageTable' = [pageTable EXCEPT ![p] = table]
  /\ memory' = [f \in Frame |-> IF f \in Found(table) THEN [o \in Offset |-> Zero] ELSE memory[f]]
  /\ addrLock' = addrLock + 1
  /\ GoTo(p, "copy")
  /\ UNCHANGED <<marked, space, machineTable, current, program, stores>>
AllocateOneMore(p) ==
  LET n == NumPages(program[p])
      table == FindAndSet(n) IN
  /\ At(p, "locked")
  /\ n <= NumClear + 1
  /\ marked' = marked \cup Found(table)
  /\ pageTable' = [pageTable EXCEPT ![p] = table]
  /\ memory' = [f \in Frame |-> IF f \in Found(table) THEN [o \in Offset |-> Zero] ELSE memory[f]]
  /\ addrLock' = addrLock + 1
  /\ GoTo(p, "copy")
  /\ UNCHANGED <<space, machineTable, current, program, stores>>

\* The frames are taken and zeroed under the lock; the file is read after it.
Allocate(p) ==
  LET n == NumPages(program[p])
      table == FindAndSet(n) IN
  /\ At(p, "locked")
  /\ n <= NumClear
  /\ marked' = marked \cup Found(table)
  /\ pageTable' = [pageTable EXCEPT ![p] = table]
  /\ memory' = [f \in Frame |-> IF f \in Found(table) THEN [o \in Offset |-> Zero] ELSE memory[f]]
  /\ addrLock' = addrLock + 1
  /\ GoTo(p, "copy")
  /\ UNCHANGED <<space, machineTable, current, program, stores>>

\* The ReadAts, and AddrSpace::Execute up to the first user instruction.
CopyAndExecute(p) ==
  /\ At(p, "copy")
  /\ memory' = [f \in Frame |->
       IF f \in Found(pageTable[p])
       THEN LET i == CHOOSE i \in DOMAIN pageTable[p] : pageTable[p][i] = f
            IN [o \in Offset |-> LET byte == Loaded(p, program[p], i - 1, o)
                                 IN IF byte = Zero THEN memory[f][o] ELSE byte]
       ELSE memory[f]]
  /\ space' = [space EXCEPT ![p] = p]
  /\ machineTable' = p
  /\ GoTo(p, "user")
  /\ UNCHANGED <<marked, addrLock, pageTable, current, program, stores>>

-----------------------------------------------------------------------------
(* User code, the context switch and the end *)

\* A store of user code: Machine::Translate goes through the machine's table.
Store(p) ==
  /\ At(p, "user")
  /\ stores < MaxStore
  /\ stores' = stores + 1
  /\ \E i \in DOMAIN pageTable[machineTable], o \in Offset :
       memory' = [memory EXCEPT ![pageTable[machineTable][i]][o] = <<p, "store", 0>>]
  /\ UNCHANGED <<marked, addrLock, pageTable, space, machineTable, current, pc, program>>

\* Exit, in ~PCB: Thread::FreeSpace deletes the space and ~AddrSpace its table.
Exit(p) ==
  /\ At(p, "user")
  /\ pageTable' = [pageTable EXCEPT ![space[p]] = <<>>]
  /\ space' = [space EXCEPT ![p] = None]
  /\ GoTo(p, "gone")
  /\ UNCHANGED <<marked, addrLock, memory, machineTable, current, program, stores>>

Ready(q) == pc[q] \in PC \ {"lockWait", "gone"} \/ (pc[q] = "lockWait" /\ addrLock > 0)

\* Faulty variant: RestoreState is not called.
SwitchUnrestored(q) ==
  /\ q # current
  /\ Ready(q)
  /\ current' = q
  /\ space' = IF space[current] = None THEN space ELSE [space EXCEPT ![current] = machineTable]
  /\ UNCHANGED <<marked, addrLock, memory, pageTable, machineTable, pc, program, stores>>

\* Scheduler::Run: SaveState of the old thread, RestoreState of the new one.
Switch(q) ==
  /\ q # current
  /\ Ready(q)
  /\ current' = q
  /\ space' = IF space[current] = None THEN space ELSE [space EXCEPT ![current] = machineTable]
  /\ machineTable' = IF space[q] = None THEN machineTable ELSE space[q]
  /\ UNCHANGED <<marked, addrLock, memory, pageTable, pc, program, stores>>

-----------------------------------------------------------------------------
Load(p) == OpenFails(p) \/ LockP(p) \/ NoRoom(p) \/ Allocate(p) \/ CopyAndExecute(p)

Over == (\A p \in Proc : pc[p] = "gone") /\ UNCHANGED vars

Next == Over \/ \E p \in Proc : Load(p) \/ Store(p) \/ Exit(p) \/ Switch(p)

Spec == Init /\ [][Next]_vars

-----------------------------------------------------------------------------
(* Properties *)

Mapped(p) == {pageTable[p][i] : i \in DOMAIN pageTable[p]}

\* The frames of live address spaces are real, marked, and shared by no two
\* pages: NumClear's answer still holds when FindAndSet is called
\* (addrspace.cc:120-132).
FramesOwned ==
  \A p \in Proc :
    /\ Mapped(p) \subseteq marked
    /\ Cardinality(Mapped(p)) = Len(pageTable[p])
    /\ \A q \in Proc \ {p} : Mapped(p) \cap Mapped(q) = {}

\* User code runs through its own, live page table, whatever was loaded,
\* switched or deleted since it last ran (scheduler.cc:114-148,
\* addrspace.cc:318-336).
OwnTable ==
  pc[current] = "user" => machineTable = current /\ pageTable[current] # <<>>

\* A process finds in its pages nothing another process put there: not in
\* frames another Load is filling, nor by a store through a stale table
\* (addrspace.cc:130-152, translate.cc:206-247).
OwnBytes ==
  \A p \in Proc : pc[p] = "user" =>
    \A f \in Mapped(p), o \in Offset : memory[f][o] = Zero \/ memory[f][o][1] = p

\* The memory of processes is theirs: no frame belongs to two, and frames, tables
\* and bytes agree after any loads, switches and exits.
MemoryOwned == TypeOK /\ FramesOwned /\ OwnTable /\ OwnBytes

AddrByte(p, addr) == memory[pageTable[p][addr \div PageSize + 1]][addr % PageSize]

LinkedAt(p, addrs) ==
  pc[p] = "user" =>
    \A v \in addrs : AddrByte(p, v) \in {Linked(p, program[p], v), <<p, "store", 0>>}

\* Every program runs with its code and read-only data at the addresses it was
\* linked for, and with zeroes in its uninitialised data and stack, however the
\* segments' sizes fall on page boundaries; its initialised data too, when the
\* read-only data reaches beyond the last page of the code
\* (addrspace.cc:145-214).
ImageLoaded ==
  \A p \in Proc :
    LET h == program[p]
        data == h.code + h.ro .. h.code + h.ro + h.init - 1
        spills == h.code + h.ro > DivRoundUp(h.code, PageSize) * PageSize
    IN LinkedAt(p, (0 .. NumPages(h) * PageSize - 1) \ IF spills THEN {} ELSE data)

\* Initialised data is where the program was linked to find it; noff.h:13 says of
\* each segment's virtualAddr: "location of segment in virt addr space".
DataLoaded ==
  \A p \in Proc : LET h == program[p] IN
    LinkedAt(p, h.code + h.ro .. h.code + h.ro + h.init - 1)
=============================================================================
