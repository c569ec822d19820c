# NachOS kernel: a verification project

The repository holds two student NachOS kernels. This project is about the later one,
`project2/source/NachOS-4.0/code` (all paths below are relative to it): a small multiprogramming
kernel that runs on a simulated one-CPU MIPS machine. `build.linux/Makefile:194` compiles it with
`FILESYS_STUB`, so that the files of user programs are host files; the Nachos file system and its
disk are in the tree but not in this build, and are modelled as a build without the flag has them.

The TLA+ modules model its threads, interrupts and time, synchronization, processes, memory,
console, files, named semaphores, network, processor, disk and file system, and some of its user
programs; TLC checks them on small instances, and TLAPS proves most of the safety properties of the
concurrent parts, and their refinements, for every value of the constants.

## The system

| Component | State | Operations | Talks to |
|---|---|---|---|
| Threads, scheduler (`threads/thread.cc`, `scheduler.cc`) | status of each thread, ready list, current thread, the carcass to delete | Fork, Yield, Sleep, Finish, Run | interrupts (preemption), semaphores |
| Interrupts, time slicing (`machine/interrupt.cc`, `timer.cc`, `threads/alarm.cc`) | machine status, level, simulated time, sorted list of pending interrupts | OneTick, Idle, CheckIfDue, SetLevel, Schedule, YieldOnReturn | handlers of all devices, Yield |
| Semaphores (`threads/synch.cc`) | value, queue | P, V | Sleep, ReadyToRun |
| Locks, conditions, synchronized lists (`threads/synch.cc`, `synchlist.cc`) | holder, queue of waiters, list | Acquire, Release, Wait, Signal; Append, RemoveFront, Apply | semaphores |
| Process table (`threads/ptable.cc`, `pcb.cc`) | bitmap of slots, PCBs with parent, exit code, join/exit/mutex semaphores | Exec, Join, Exit | threads, semaphores, address spaces |
| Address spaces (`userprog/addrspace.cc`) | frame bitmap, page tables, memory, the machine's page-table register | Load, Execute, Save/RestoreState, destructor | scheduler, Translate, files |
| Console (`machine/console.cc`, `userprog/synchconsole.cc`, `ksyscall.h`) | one buffered character, busy flag, locks, semaphores | GetChar, PutChar, interrupt handlers; Read/PrintNum, -Char, -String | semaphores, locks, interrupts |
| File table, stub file system (`threads/ftable.cc`, `filesys/openfile.cc`) | ten descriptors a process, offsets, host files | Open, Close, Read, Write, Append, CreateFile | console for descriptors 0 and 1 |
| Named semaphores (`threads/stable.cc`, `sem.h`) | ten names with a semaphore each | Create, Wait, Signal | semaphores |
| Network, post office (`machine/network.cc`, `network/post.cc`) | a packet buffer, a send lock, mailboxes | Send, Receive, the postal worker, interrupt handlers | synchronized lists, locks, host sockets |
| MIPS machine (`machine/mipssim.cc`, `machine.cc`, `translate.cc`) | registers, delayed load and branch, memory, page table | one instruction; ReadMem, WriteMem, Translate | exceptions, OneTick |
| Disk, synchronous disk (`machine/disk.cc`, `filesys/synchdisk.cc`) | sectors, head, track buffer; lock, semaphore | ReadRequest, WriteRequest, the interrupt; ReadSector, WriteSector | interrupts, semaphores |
| Nachos file system (`filesys/filesys.cc`, `directory.cc`, `filehdr.cc`, `pbitmap.cc`, `openfile.cc`) | free map, directory, headers, data, all on the disk | format, Create, Open, Remove, Read, Write | synchronous disk |
| System-call dispatch (`userprog/exception.cc`) | registers | one case per call | everything above |
| User programs (`test/`) | | pingpong, ping, pong, project2, sinhvien | system calls |

`PROJECT.json` lists the remaining parts (library, kernel start, context switch, tools, the first
project's tree) with the reason each is left out.

### What makes it hard

* **Where the CPU can be lost.** Kernel code runs with interrupts enabled, but time passes only in
  `Interrupt::OneTick`: when `SetLevel` turns interrupts back on (the end of every P, V, Fork,
  Yield) and after each user instruction. Between two such points a thread runs alone. All modules
  cut the code into actions at exactly these points, so an action is often the tail of one function
  and the beginning of the next.
* **V gives its unit to nobody.** `Semaphore::P` tests in a `while`; a woken thread can be overtaken
  and queues up again. Lock, Condition, SynchList and all drivers are built on this.
* **State across a switch.** `Run` saves nothing but stacks; `toBeDestroyed`, the saved machine
  status in OneTick, the page-table register and `lockHolder` are set on one side of a switch and
  read on the other. OneTicks nest: one that yields is suspended while others fire interrupts.
* **Slots are names.** Process ids are slots, reused as soon as `Remove` clears a bit; PCBs and
  semaphores are deleted by the process that exits, while parents may still hold them.
* **One-place devices.** Keyboard, display, disk and network keep one character, request or packet;
  the interrupt that frees or fills the place races with threads that use it.
* **Page arithmetic.** The three segments of a program share pages; `Load` computes what the first
  and last of them hold, and the `% PageSize` of -1 is negative in C.
* **Shared files.** Descriptors of several processes stand at different offsets of one host file;
  Append seeks to the end at each call. Exec and the child's Load each open the program's file through the host,
  whose descriptors all processes share.
* **Two writes that belong together.** Create and Remove change directory and free map one after the
  other, with a disk access, and so a possible stop of the machine, between them.
* **Whole sectors.** A write of part of a sector reads it, waits for the disk, changes the bytes in its buffer and
  writes the sector back, whatever was written there in between.
* **Delayed loads.** A load lands one instruction late, or when an interrupt is taken before that.

### What correctness means, component by component

* Threads: a live thread is in one place; the finished one is deleted by its successor, not earlier
  and not twice; user code runs in user mode; no wakeup is lost; every ready thread runs; together
  this is a counting semaphore.
* Interrupts: no interrupt is overdue where it could be taken; each fires once, in the order of time
  and then of scheduling; a switch a handler asks for happens in the OneTick it ran in; the clock's
  parts add up to the clock.
* Monitor: mutual exclusion with a truthful `lockHolder`; no signal lost; linearizable calls.
* Processes: table, PCBs and threads agree; Join reads a code that was set; if programs keep the
  discipline "Join each child once, before your own Exit", no deleted PCB is used, ids stay the
  child's until joined, and everybody terminates.
* Memory: frames are owned by one page each; user code runs through its own live table; a program
  finds the image it was linked for and nothing of another process.
* Console: no character lost, doubled or reordered; the devices' ASSERTs hold; calls convert what
  they promise; prints return.
* Files: every host descriptor is accounted for by a slot of a live table, an executable that is being
  loaded, or a leak of a dead process; a failed call changes nothing; appends of several processes are kept whole; a reader finds what was
  appended.
* Named semaphores: one semaphore a name; those who share a name take turns.
* User programs: they end, whichever of their calls the host refuses, but for a Join of a child that could not be loaded.
* Network: the one-packet hand-overs work, every Send returns, delivery is in order and at most once.
* Processor: arithmetic is arithmetic at the boundaries of a word; a trap leaves the instruction
  undone; unaligned words move whole; a program cannot tell where interrupts were taken.
* Disk: one request at a time; each thread goes on after the interrupt of its own; the answer comes
  when the sector has passed the head.
* File system: whatever moment the machine stops at, the free map marks what the files own, except
  in the window between the two writes of a call; files keep every byte that a write was not given.

## Modules

Pattern: a component's module holds state, actions, specification and properties; `MC...` gives
its constants for TLC; `...Proofs` holds its theorems. Operators named after another with a suffix
and a comment "Faulty variant" (`CollectKeeps`, `PollOverwrites`, ...) are plausible bugs. They are
not part of a specification: each is substituted for the operator after it to see that the properties
notice.

| Module | Models | Correspondence |
|---|---|---|
| `Threads` | `thread.cc`, `scheduler.cc`, Semaphore, `alarm.cc`, OneTick/Idle/CheckIfDue | `pc[t]` is where a thread stands; `Dispatch` is Sleep's `Run`, `SwitchIn` the code after SWITCH (CheckToBeDestroyed, back in the caller), `PStart`/`PTest` the parts of P, `Signal` the body of V for threads and device handlers, `TimerTick`/`TickReturn` the two halves of OneTick around the Yield |
| `CountingSemaphore` | what P and V promise | abstract; `Threads` implements it |
| `Interrupts` | `interrupt.cc` with the sorted list, `timer.cc`, `alarm.cc` | the same OneTick with simulated time: `pending` is the list with the number of each Schedule call, `frames[t]` the OneTicks of t that wait in their Yield; devices are delays, and which thread runs next is left open |
| `DiskDevice` | the times of `disk.cc` | extends `Interrupts` by a device whose delay is computed from seek, rotation and track buffer |
| `SynchList` | Lock, Condition::Wait/Signal, SynchList | a semaphore's P is a guard on its value; Wait's own semaphore is named by its thread |
| `SharedList` | a list whose calls are single steps | abstract; `SynchList` implements it |
| `ProcTable` | `ptable.cc`, `pcb.cc`, handlers of Exec/Join/Exit/Halt | one action per stretch between two preemption points, P as "pass or wait"; `kids` is the program's own record of its children, used to state and enforce the discipline; `outcome` tells when deleted memory is used |
| `AddrSpace` | `addrspace.cc`, Run's Save/RestoreState, page-table translation, FreeSpace | a byte is the record of who put it there; `Linked` is the image a linker promises, against which `Load`'s arithmetic is checked |
| `SynchConsole` | `console.cc`, `synchconsole.cc` | keyboard and display, their handlers, the lock and semaphore of each side |
| `ConsoleCalls` | the console calls of `ksyscall.h` | extends `SynchConsole`; loops of GetChar and PutChar by threads that share the console |
| `FileTable` | `ftable.cc`, the stub halves of `openfile.cc` and `filesys.cc`, the handlers of the six file calls, the descriptors of executables | one action a call, as no host call is a preemption point; a call on keyboard or display goes on in `calling[p]` a character at a time |
| `NamedSemaphores` | `stable.cc`, `sem.h`, the handlers of the three calls | the table of names, each with the value and the waiters of a semaphore |
| `UserPrograms` | `test/pingpong.c`, `ping.c`, `pong.c`, `project2.c`, `sinhvien.c` | extends the two above; a program is a sequence of calls, next to processes that make any call on files; `CallExec` is SysExec's Open of the executable, which may be refused, `LoadOpens` and `LoadEnds` the child's Load, which may find no descriptor or no memory, and `CallJoin` returns for a refused Exec's -1 and for a child that has ended |
| `PostOffice` | `network.cc`, `post.cc` | machines with socket, packet buffer, postal worker, mailboxes, senders; composed with `SynchList` by taking a mailbox call as the single step `SharedList` proves it to be |
| `MailService` | the unreliable, ordered mail of `post.h` | abstract; `PostOffice` implements it |
| `MipsSim` | `mipssim.cc`, RaiseException, `translate.cc` | operators from a processor's state to the next one, for words of any width |
| `Processor` | Machine::Run with the exception handler | runs programs on `MipsSim`; `alone` is a second processor that takes no interrupts |
| `SynchDisk` | `synchdisk.cc` over the requests of `disk.cc` | the lock, the semaphore, the request under way, the restart after a crash |
| `NachosFS` | `filesys.cc`, `directory.cc`, `filehdr.cc`, `pbitmap.cc`, `openfile.cc` | extends `SynchDisk`; `pc[p]` is the next sector access of p's call, and what is computed between two accesses belongs to the step that ends the first; `Crash` between any two; `io[p]` are the locals of WriteAt, `fill` its ReadSector of a sector to be written in part |
| `ThreadsProofs`, `MachineProofs`, `SynchListProofs`, `ProcTableProofs`, `AddrSpaceProofs`, `SystemCallProofs`, `PostOfficeProofs`, `FileSystemProofs` | | theorems |

How they compose: `Threads` implements `CountingSemaphore`, and the modules above take P to be what
`CountingSemaphore` promises, a step that is possible whenever the value is positive, by any
waiting thread, barging included. `SynchList` implements `SharedList`, and `PostOffice` uses a
mailbox as such a list. `Interrupts` shows that interrupts come in order and at their time, `Threads`
takes them in any order. `DiskDevice` is the disk as `Interrupts` sees it, `SynchDisk` as threads do,
and `NachosFS` runs on the latter. `UserPrograms` has of Exec, Load and Join what needs the host's descriptors, and
takes them for what `ProcTable` and `AddrSpace` show of them otherwise. `ReadyRuns` of `Threads` justifies the weak fairness of threads everywhere else.

`map` in `PROJECT.json` gives the source lines of every definition.

## Runs

| Run | Instance | What it shows |
|---|---|---|
| `threads` | 3 threads, a mutex, a device semaphore, values up to 2 | `Consistent` (types, placement, one running thread, carcass, mode), no lost wakeup; every ready thread runs; the abstract semaphore with its progress is implemented |
| `interrupts` | 2 threads, timer delays 1 and 3, a polling keyboard, a disk of 4 sectors, 3 a track; 7 ticks | `TimeConsistent`; interrupts fire in order; `SectorPassed`, the disk's answer comes when its sector has gone by |
| `synchlist_monitor` | 3 threads, 2 items, 6 calls | `MonitorSound`, no lost signal, and `SharedList` is implemented with progress |
| `proctable_free` | 3 slots, 5 Execs, any program, failing loads | `TableConsistent`: table, PCBs, threads and locks agree; Join reads a code that was set |
| `proctable_disciplined` | 4 slots, 4 Execs, disciplined programs | `LiveReferences`: no use after deletion, parents live; slots held until joined, everybody released, termination |
| `addrspace` | 2 processes, 6 frames of 3 bytes, 45 programs | `MemoryOwned`: ownership of frames, the right page table, no foreign bytes; the image |
| `addrspace_data` | 1 process, the same programs | **violation**: initialised data is not loaded when the read-only data does not spill over the code's last page |
| `console` | 2 threads, 2 calls, five inputs, 5-bit ints | `DevicesSound`: the devices' ASSERTs; nothing lost, conversions, prints return, readers served |
| `user_programs` | main, two children, one process that makes 3 calls of any kind; 3 descriptors a process, 3 of the host, 4 semaphores, 2 turns, 1 record; Execs refused and Loads that fail | `FilesSound`: descriptors accounted for; appends kept, readers see the log, failures change nothing, turns taken; `ProgramsEnd`: programs end, but for Joins of children that could not be loaded |
| `post_office` | 2 machines, 2 senders of 2 letters each, 2 boxes | `NetworkSound`: hand-overs, no interrupt taken for another's; Sends return, `MailService` is implemented |
| `processor` | words of 8 bits; each instruction on 14 x 14 operands; programs of 3 instructions on 5 pages | arithmetic, traps, unaligned pairs, and that interrupts are unseen |
| `file_system` | 2 processes, 2 names, 9 sectors of 2 bytes, 2 directory entries, 2 creates of 1 or 2 sectors, 2 writes of any bytes, crashes anywhere | `DiskConsistent`, `DataKept`, `RequestsSound` |

Bounds, and why they are enough:

* Three threads are the least with a running thread, a waiter and one that barges between its
  wakeup and its test; a second waiter also exercises queue order. `MaxValue` 2 lets a unit be left
  over while a thread is on its way.
* Seven ticks let a timer's OneTick be suspended in its Yield while another thread's fires the keyboard
  and the disk; `MaxDepth` 2 lets a thread be suspended twice. In the code nothing bounds the nesting:
  a thread that is always resumed just before the timer is due piles up a frame each time
  (`interrupt.cc:147-176`). Tracks of three sectors with the head on either side give every case of seek and
  track buffer.
* Four slots with four Execs give a tree of processes three deep with a sibling, and reuse of a
  slot; five Execs in three slots reuse one twice. `MaxWait` 1 makes numwait saturate, which nothing
  but DecNumWait reads.
* `Shapes` enumerates segments that end before, at and after page boundaries in every combination
  that three-byte pages have; two processes fill memory in the larger cases, so Load's failure path
  is taken.
* Five-bit ints overflow within two digits. The five inputs hold a number, a negative one, a
  malformed one, garbage, and two lines without a last newline.
* Three host descriptors are fewer than the four processes may ask for, so the host refuses, an Open, an Exec or a Load; three a process
  make the table's own limit, one after keyboard and display, reachable. Two turns show whether
  ping and pong keep alternating after the first. Lengths are cut at 3, past the longest write.
* Two letters of each of two senders are enough to be swapped, doubled or put in a wrong box, with
  one packet in the socket, one in the buffer and one with the worker.
* Bytes of two bits let the four bytes of a word differ; the operands are the least and greatest
  words, their neighbours, and words whose products and differences cross the boundary. Three instructions are a load, the
  one in its delay slot, and one that sees the result; or a branch, its slot, and the target. The five
  pages are two swapped ones, a read-only one, an invalid one and one without a frame.
* Five free sectors are filled by two files of one and two sectors with their headers, so two files of two do not fit
  and Create also fails for room; two entries fill the directory; the second create may be of a name, and in sectors, that were
  removed, while the first file's OpenFile is still there. Sectors of two bytes let a write begin, end, or do both inside a
  sector; two writes (`MaxWrites`) are one that overtakes another. Files whose sectors are not next to each other take a third create: the
  theorems cover them, the run does not.
* Where a run says `CHECK_DEADLOCK FALSE` the bound on calls or ticks, a halt, or an orphan that waits for ever,
  really does stop the system.

### Fairness, and what justifies it

* `Threads`: weak fairness of the code between two points (a CPU does not stop) and strong fairness
  of `TimerTick`: the timer is always pending, and a due interrupt is taken at the first OneTick with
  interrupts enabled, though the interrupted code keeps disabling them in between.
* All other modules: weak fairness of each thread's kernel steps, from `ReadyRuns`, and of each
  scheduled interrupt. No user has to make a call, with two exceptions: `ProcTable!FairSpec`, for
  `Terminates`, has every program come to its next system call; and `UserPrograms` has the scripted programs
  as a whole go on as long as one of them can, which is less than `ReadyRuns`.
* A P that competes is fair only while the others' calls are bounded, because V does not hand over
  (`threads/synch.cc:83`): `PrintsReturn`, `SendsReturn`, `Terminates` and `ListProgress` hold under
  the bounds of their runs or speak of some waiter, not of each.

### Finding

`addrspace_data` expects a violation: initialised data is not loaded where the program was linked to find it
when the read-only data ends in the last page of the code (`addrspace.cc:190`, against `noff.h:13`).

### What else the code does

Met while reading, and taken into the models as it is; the properties speak of the rest.

* Processes. A second Join of a child can sleep on a semaphore that `~PCB` deletes (`pcb.cc:37`,
  `synch.cc:55`). The parent check compares slot numbers, so it accepts an orphan of the process that had
  the slot before (`ptable.cc:79`). Exec's last V is on the multex of a child that may already have exited
  and been deleted (`pcb.cc:100`). These are the uses of deleted memory at which `proctable_free` stops
  looking, and `proctable_disciplined` shows that disciplined programs do not meet them. A Join of a
  process whose program could not be loaded never returns (`pcb.cc:18`): when the host is out of descriptors, Exec
  says so if it is its own Open that is refused (`ksyscall.h:86`), and nobody says so if it is Load's (`addrspace.cc:88`). Process 0's Exit halts the machine
  while its children run (`ptable.cc:105`).
* Memory. Frames are never given back (`addrspace.cc:70`).
* Files. Close always returns -1, Write to the display too; a Write of no bytes returns nothing defined;
  an Append of no bytes returns -1 and yet moves the offset to the end (`ftable.cc:138` and following). The id
  N_FILE passes the range check, and Write and Append look at `core[fid]` before they know it is there
  (`ftable.cc:51`). `~FileTable` leaves the host's descriptors open. A Read from the keyboard frees the
  caller's buffer. Copies between user and kernel memory stop at a 0 byte.
* Named semaphores. A full table or an unknown name makes Wait return -1, which the test programs do
  not look at. A negative initial value never blocks.
* Console. PrintNum of the least int prints a lone minus sign. Byte 255 of the keyboard's file is taken for
  its end and stops the polling (`console.cc:104`); after the end of the file every later GetChar waits for
  ever (`console.cc:77`).
* Processor. SRL and SRLV shift arithmetically; JALR, BGEZAL and BLTZAL write the link register before they read
  their operand; the least word divided by -1 stops the host; a system call in the delay slot of a
  branch loses the branch; an instruction that uses a register in its load's delay slot finds the old or
  the new value, depending on an interrupt (`InterruptsUnseen` is about programs that do not).
* File system. Names are compared by their first nine characters. A new file shows what its
  sectors held until they are written. A file of more than NumDirect sectors is written past the header's array.
  A write through an OpenFile whose file was removed reaches whichever file owns the sectors now.
  Two processes that write parts of one sector can lose one of the writes, of other bytes than the other's too, because
  WriteAt puts back all of the sector that it read before it waited for the disk (`openfile.cc:183`, `:195`): its comment,
  "so that we don't overwrite the unmodified portion" (`openfile.cc:118-120`), is true of one writer at a time. `DataKept`
  says that this is how a write is lost, and the only way.

## Proofs

All theorems are of the form `Spec => ...`, for every value of the constants that satisfies the
module's assumption (`ThreadsAssumption` and so on: finiteness of the set of threads, the sentinels
are not elements, bounds are naturals). They hold without the bounds of the runs. Each rests on an
inductive invariant, proved action by action.

* **`ThreadsProofs`.** `Consistent` is the conjunction of `TypeOK`, `Placement`, `OneRunning`,
  `CarcassCollected` and `ModeRestored`; none is inductive alone: that the head of the ready list can
  be resumed needs `OneRunning`, that it is not deleted needs `CarcassCollected`, that it is there
  once needs `Placement`. `NoLostWakeup` is added as
  `WakeupInv`: V removes one waiter and adds one unit, and the waiter becomes one of `Woken`, a
  cardinality argument. `SemaphoreRefinement` maps the start of a P, its successful test and
  each V to the abstract steps, and everything else to a stutter.
* **`MachineProofs`.** Interrupts and disk: `Inv` adds to `TimeConsistent` that the list is `Ordered` by time and number, that
  all in it come after the interrupt fired last (`Numbered`), and that only Idle's handlers see an idle
  machine (`IdleMode`). The core is `InsertEffect`: SortedList's insertion keeps the order, members and length.
  `DiskTimeIsConsistent` and `DiskInterruptsInOrder` say the same of `DiskDevice`, because
  seek, rotation and track buffer give a positive delay for every geometry (`LatencyPositive`). `SectorPassed`
  holds for every geometry and time: rotation brings the head to the next start of a slot (`SlotBegins`), the sector
  passes first after ModuloDiff more of them (`FirstPass`, from the uniqueness of quotient and remainder, `QuotientIs`),
  and what makes it inductive is that the track buffer begins with a slot (`DiskInv`).
  Processor: `ProcessorInv` says, for every program and every width of a byte, that the processor and the one without
  interrupts are alike but for a load that is pending in the second and may have landed in the first
  (`Together`), until a program uses a register in its load's delay slot. The core is `InstructionTogether`: class by class,
  an instruction does the same to two processors that are so, the parts of an unaligned load because they take what is
  pending for their register; what a load to r0 leaves pending may differ, as it never lands.
  `InstructionOutcome` says that each instruction goes on, or traps having changed at most its marks in the page
  table, or stops the host. The conclusions are `InterruptsUnseen` and `TrapsPrecise`.
  `ArithmeticCorrect` holds for every width of a word. What the prover must know of powers of two is that
  `Pow2` doubles, which `IterationExists` gets from well-founded induction over a set, and the same iteration opens the
  recursive functions of Mult, FromBits and ReadMem. `OverflowIs`: signs tell overflow. `MultMultiplies`: the loop keeps
  the sum so far plus what is left of a, times b shifted (`SumSoFar`), the product; it stops before b is shifted out
  (`TurnSums`); complementing both words negates it (`Complement`). `DivisionDivides`, `UnsignedDivides`, `BitwiseIs` (the
  digits of a sum of digits, `FromBitsIs`) do the rest of the operations. `Typed` says that nothing is wider than its
  place: `ReadTyped` needs that an aligned access never leaves its page (`AlignedInPage`, from PageSize being a multiple
  of 4). `ArithmeticInv` adds that an arithmetic instruction leaves no load pending, so that an interrupt before the
  next one cannot change its result.
  `PairsWhole` is an argument about bytes (`Digit`): Down, Low, High and Up move or keep whole ones (`MergedHigh`,
  `MergedLow`), memory is read and written byte by byte (`WordRead`, `WordWritten`), and so each part moves some bytes of the
  word at any address to or from their places and no other (`LoadMoves`, `StoreMoves`), the two parts all four
  (`PartsCover`). The second part does not undo the first because two bytes that are written have two places
  (`PlacesApart`), also when the word lies on two pages. `PairsInv` remembers, for the last two instructions, what the
  first led to where the second began, but for loads an interrupt landed.
  All rest on `ProcessorAssumption`: instructions name registers there are, their immediate values and shift amounts
  fit, system calls return words, and programs begin with r0 zero, a memory of bytes and a page table of entries that
  gives no frame to two pages that are written (Load finds each page a frame of its own).
* **`SynchListProofs`.** `Inv` adds to the checked invariants `CallsPlaced`: which call a thread is in
  where it stands. `SignalInv` adds `NoLostSignal` by cardinality as above. `ListRefinement` maps the
  moment an item is put or taken under the lock to the atomic call.
* **`ProcTableProofs`.** For any programs: `TypeCorrect`, `TableConsistentCorrect` and `ExitCodeReadyCorrect`, from
  `TableInv`: a slot's PCB, its bit and its thread go together (`SlotsTied`); bmsem and each multex are
  closed just while one thread stands in its critical section (`TableLock`, `PCBLocks`); and the two
  semaphores between parent and child have the units that their places in Join and Exit give them (`Handover`).
  For disciplined programs whose loads succeed: `NoUseAfterDelete` is far from inductive. `DisciplineInv`
  relates the program's record to
  the table: every id in `kids[p]` is a live child of p that has not been collected (`KidsMatch`);
  so is the one an Exec in progress is about (`CreatingMatch`); conversely every process that
  still has to notify its parent is known to the parent, which is in the table (`ParentsMatch`);
  a Join in progress is of such a child, which stands at its Exit once joinsem let the parent pass
  (`JoiningMatch`); a process in Exit has no children left, and its semaphores are up only at the end
  of it (`ExitingMatch`). From it: the PCB another process touches is that of a live parent or child.
  `AllReleasedAtHalt` needs an argument about the whole tree: among any set of processes that were not
  collected, one has its parent outside the set (`Rooted`); main has no children left when it halts, so
  the set of all of them is empty.
* **`AddrSpaceProofs`.** `MemInv` says that tables are injective and disjoint and map marked frames
  (`OwnFrames`), when a process has a table and which space (`Placed`), that the machine has the running
  thread's (`Restored`), that one Load at a time is between count and allocation (`OneAllocates`), and whose
  bytes are in frames from the moment they were zeroed (`CleanFrames`). `FindAndSetFinds` is the counting
  argument behind the allocation: the rank of a clear frame among the clear ones is a bijection, so as many calls as
  NumClear counted find a frame each.
  `ImageLoaded` is proved for pages and segments of any size: `PagesOf` says how n bytes fall on pages, `Fills` that a
  set of ReadAt calls covers a range of addresses once and nothing else, `ReadsFill` that the five groups
  of Load's calls fill code and read-only data without a gap, initialised data too when the read-only data spills over, and
  otherwise write at addresses of initialised data only; `AllFilled` carries what Load left in the frames through the
  steps of all processes.
* **`SystemCallProofs`.** Console: `CInv` has one thread of each side between its Acquire and its Release (`OneInside`), and ties
  where it stands to the semaphore's unit, the buffered character and the scheduled interrupt (`Keyboard`,
  `Display`); with `NothingLost` this is inductive, and gives the ASSERTs of both devices; `CallsTypeOK` adds the types
  of what a call keeps. `PrintInv` says that what a thread put since its call began, with what it holds and what is left, is the
  text it was asked to put, whatever others put in between; `DigitsStandFor` that this text is the numeral. `ReadInv` says
  what ReadNum's flags and result tell of the characters heard so far (`Tells`: blanks, signs, digits, and the int they stand
  for), and that ReadString has heard no newline and has room. Both hold for every width of an int: as `Wrap` depends on
  remainders only, wrapping at each digit is wrapping at the end (`WrapLate`). Recursive functions (`Digits`, `Decimal`,
  `Put`) are got hold of by least counterexamples (`DigitsExist`, `IterationExists`, `IterationUnique`). The conclusions are
  `DevicesSound`, `Printed` and `InputRead`.
  Files: `FilesInv` is types, `Accounted` (by cardinality: OpenFiles are where the slots are, executables with the processes
  that load them, finitely many),
  `AppendsKept` and `ReaderSeesLog`, which together are inductive: a write goes where the file ends
  because each OpenFile is at the offset the host has. From it `FilesSound`, `AppendsKept`, `ReaderSeesLog`, and
  `FailureChangesNothing` step by step.
  Turns: `TurnsInv` says that a name has one slot, created with one unit by whoever creates it (`OneUnit`), that the
  main program created what its children need before it started any of them (`Begun`), that who waits called Wait as
  its last call (`WaitsIn`), and, for each pair of calls that take turns, that the first was made as often as the
  second plus the number of processes that stand between the two (`Counted`). The last is inductive because
  each program makes the calls of a pair in alternation (`LoopAlternates`); as a semaphore's value is not
  negative, it gives both the mutual exclusion and the bound on letters printed. It holds for any number
  of children, turns and records, whoever creates the names first.
* **`PostOfficeProofs`.** `Inv` adds to `BufferMatchesWorker` that one sender of a machine at a time
  is between Acquire and Release and that the interrupts scheduled or waiting to be taken are one
  while it waits and none otherwise (`OneSender`), which gives `NetworkFree`; and what senders and the worker hold in hand. In
  `DeliveryRefinement` the letters on their way to a machine are the worker's, the buffered one and
  the socket's, in this order: Poll, the wait and the reception move a letter along without changing
  the sequence, Transmit appends to it and Put takes its head.
* **`FileSystemProofs`.** `RequestsSound` is inductive: lock, active and semaphore have one holder, who is the one
  waiting thread, and a restart after a crash starts over. `FSInv` adds `InOrder`, for a disk that is not spoiled:
  the files in the directory have proper headers and no name or sector in common (`Layout`), the map marks what they
  own but for the file in a window (`MapKept`), they hold what was written (`DataHeld`), and, for each place a
  call can stop at, what it has read is still what is on the disk and what it will write goes with
  what it has written (`Stands`). That Create's sectors are clear in the map on the disk, not only in the copy it read,
  rests on calls coming one at a time (`OneCall`), which is where the comment on Create is needed. A write
  of data reaches one file because sectors are disjoint and the writer is not stale. That it changes only the bytes it was given
  needs `Filling`: a write that is under way has read each sector it writes in part (`Covered`), and what it has read and not
  yet written is on the disk still, but where another write of the same sector came in between (`Fresh`). The conclusions are
  `DiskConsistent` and `DataKept`. `FirstClearFinds` is the counting argument behind `Allocate`; `ProperCount` gives
  the number of sectors of a file. The one assumption on data is that an unused entry is no pair of name and sector.

Only model-checked: every liveness property (fairness and ENABLED are out of the prover's reach), and
the finding. Every safety property that a passing run checks is proved.

## What is not modelled

* In `Threads`, simulated time: a due interrupt is a nondeterministic choice, so every order of interrupts that
  times could produce is covered, and some that they could not; `Interrupts` has the time. Its counters are
  unbounded, while the code's are ints.
* The main thread's `processID` is never assigned (`thread.cc:37`); it is taken to be the 0 a fresh
  heap gives it, without which no process could be joined.
* `Printed` excepts the least int, whose negation C leaves undefined; `InputRead` says what a line that holds a NUL is
  stored as only so far as that it ends with the newline or the buffer; inputs hold no byte 255; reads
  after the end of the keyboard's file wait for ever, as in the code, and are not required to return.
* Copies between user and kernel memory (`User2System`, `System2User`), except that strings end at
  their 0 and at the length given.
* Condition::Broadcast, AddrSpace::Translate, OpenFile's Seek and Remove as system calls, and the hash table:
  nothing calls them but self tests. The post office's deletion, and a letter to a box that does not exist.
* Instruction decoding, which is tables of bit fields; the TLB, which is never built; the debugger;
  programs in byte orders other than little endian.
* In `NachosFS`, files whose length is not a whole number of sectors, seek positions, and calls of Create, Open and
  Remove that overlap, which the comment on Create rules out (`filesys.cc:167`); reads and writes of open files do overlap with
  them and with each other, which is more than that comment allows. A directory and a bitmap fill a sector each, as their
  sizes in the code make them do.
* ReadString of a length of 0 or less, which halts the machine (`ksyscall.h:271-274`): the programs ask for at least one
  character. A poll of the keyboard that finds nothing and is scheduled again (`console.cc:72-74`) is not told from one
  that has not come yet; the end of the keyboard's file is an answer, and is polled for once per GetChar.
* Option parsing, wrappers of host calls, counters and printing (`main.cc`, `kernel.cc`, `sysdep.cc`,
  `debug.cc`, `stats.cc`): the initial states are those Initialize leaves. `switch.S`: `Threads` takes SWITCH for
  what its callers rely on.
* The object-file converter and the vendored cross compiler with its headers, which are most of the repository's lines;
  the first project's tree, an older copy of the same kernel before processes and semaphores.

## Plan

Modelled in this order, the parts everything rests on first: `Threads` and `CountingSemaphore`;
`SynchList`; `ProcTable`; `AddrSpace`; `SynchConsole` and `ConsoleCalls`; `PostOffice`; `FileTable`,
`NamedSemaphores` and `UserPrograms`; `MipsSim` and `Processor`; `Interrupts` and `DiskDevice`; `SynchDisk`
and `NachosFS`. These are done.

What could follow: files whose last sector is used in part, in `NachosFS`; and the hash table of `lib/` against a
function, and Broadcast, when they get a user.
