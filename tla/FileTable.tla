----------------------------- MODULE FileTable -----------------------------
(***************************************************************************)
(* The file table of a process, threads/ftable.cc, over the host's files   *)
(* (the stub halves of filesys/openfile.cc and filesys/filesys.cc), behind *)
(* the system calls CreateFile, Open, Close, Read, Write and Append.       *)
(*                                                                         *)
(* No call on a host file reaches a point where the kernel is preempted,   *)
(* so each is one action.  A call on the keyboard or the display passes    *)
(* one character at a time through the synchronized console, and other     *)
(* processes run in between: calling[p] is what is left of it.  What the   *)
(* keyboard sends and what the display shows are SynchConsole's.           *)
(*                                                                         *)
(* A byte is a member of Bytes or 0, which ends a string: the copies to    *)
(* and from user memory stop at it.                                        *)
(***************************************************************************)
EXTENDS Integers, Sequences, FiniteSets

CONSTANTS
  Procs,      \* slots of the process table
  Names,      \* names of host files
  Bytes,      \* bytes other than 0
  NFile,      \* N_FILE
  Buffers,    \* what programs pass to Write and Append
  Counts,     \* how many bytes programs ask Read for
  HostMax,    \* descriptors the host grants the simulator
  MaxLength   \* bound: programs that make any call write files this long

STDIN  == 0
STDOUT == 1
Byte   == Bytes \cup {0}
Kept   == -1   \* stands for a byte of the program that Read left alone

ASSUME FileTableAssumption ==
  /\ NFile \in Nat /\ NFile > 2
  /\ Bytes \subseteq Nat \ {0}
  /\ Buffers \subseteq Seq(Byte)
  /\ Counts \subseteq Nat \ {0}
  /\ HostMax \in Nat
  /\ MaxLength \in Nat

VARIABLES
  exists,    \* the host files there are
  content,   \* their bytes
  core,      \* FileTable::core from slot 2, a function on the open slots
  hostOpen,  \* number of descriptors the simulator holds
  loading,   \* the processes whose Load has its executable open
  calling,   \* the call of p on the console that is in progress
  result,    \* history: the latest call and what it returned
  outcome,   \* "running", or how the kernel came to fail
  held,      \* history: the ids p got from Open and has not passed to Close
  lost,      \* history: descriptors nobody can close any more
  misused,   \* history: a program passed an id it does not hold to a call
  log,       \* history: what was appended to each file since its creation
  appendOnly \* history: the files only Append has changed since then

fileVars == <<exists, content, core, hostOpen, loading, calling, result, outcome,
              held, lost, misused, log, appendOnly>>

-----------------------------------------------------------------------------
Slot   == 2 .. NFile - 1
FileId == -1 .. NFile

\* class OpenFile; offset is the host's own for the descriptor.  seen and
\* follows are history: what Read gave the program, and that the descriptor
\* has only been read while the file was only appended to.
OpenFile == [name : Names, type : {0, 1}, offset : Nat, currentOffset : Nat,
             seen : Seq(Byte \cup {Kept}), follows : BOOLEAN]

NoCall == [op |-> "none", left |-> 0, count |-> 0]

FileTypeOK ==
  /\ exists \subseteq Names
  /\ content \in [Names -> Seq(Byte)]
  /\ \A p \in Procs : /\ DOMAIN core[p] \subseteq Slot
                      /\ \A i \in DOMAIN core[p] : core[p][i] \in OpenFile
  /\ hostOpen \in 0 .. HostMax
  /\ loading \subseteq Procs
  /\ calling \in [Procs -> [op : {"none", "Read", "Write"}, left : Nat, count : Nat]]
  /\ outcome \in {"running", "null", "outside", "freed"}
  /\ held \in [Procs -> SUBSET Slot]
  /\ lost \in Nat
  /\ misused \in BOOLEAN
  /\ log \in [Names -> Seq(Byte)]
  /\ appendOnly \subseteq Names

FileInit ==
  /\ exists = {}
  /\ content = [n \in Names |-> <<>>]
  /\ core = [p \in Procs |-> <<>>]
  /\ hostOpen = 0
  /\ loading = {}
  /\ calling = [p \in Procs |-> NoCall]
  /\ result = [op |-> "none", value |-> 0]
  /\ outcome = "running"
  /\ held = [p \in Procs |-> {}]
  /\ lost = 0
  /\ misused = FALSE
  /\ log = [n \in Names |-> <<>>]
  /\ appendOnly = Names

-----------------------------------------------------------------------------
(* User memory and host files *)

Lesser(a, b) == IF a < b THEN a ELSE b

\* User2System: the kernel's copy has only zeros after the first 0.
User2System(data) ==
  [i \in 1 .. Len(data) |-> IF \E j \in 1 .. i : data[j] = 0 THEN 0 ELSE data[i]]

\* System2User: the program's buffer, which keeps its own bytes after a 0.
System2User(data) ==
  [i \in 1 .. Len(data) |-> IF \E j \in 1 .. i - 1 : data[j] = 0 THEN Kept ELSE data[i]]

\* read and write of the host at a place of a file: a write beyond the end
\* leaves zeros in between, and one of no bytes leaves the file alone.
Portion(s, at, n) == SubSeq(s, at + 1, Lesser(at + n, Len(s)))

Overlay(s, at, data) ==
  IF data = <<>> THEN s
  ELSE [i \in 1 .. (IF at + Len(data) > Len(s) THEN at + Len(data) ELSE Len(s)) |->
          IF i \in at + 1 .. at + Len(data) THEN data[i - at]
          ELSE IF i <= Len(s) THEN s[i] ELSE 0]

\* The OpenFile after a transfer of n bytes at a place, which it leaves both
\* the host's offset and its own behind.
MovedTo(h, at, n) == [h EXCEPT !.offset = at + n, !.currentOffset = at + n]

\* GetCurrentPos also assigns currentOffset.
GetCurrentPos(h) == [h EXCEPT !.currentOffset = h.offset]

\* OpenFile::Append first asks for the Length.  Faulty: it goes on at the
\* descriptor's own offset.
AppendPlaceStale(h, s) == h.currentOffset

AppendPlace(h, s) == Len(s)

\* What FileTable::Read returns for the bytes it got.  Faulty: it returns
\* what it was asked for.
ReadCountAsked(got, n) == n

ReadCount(got, n) == IF got = <<>> THEN -2 ELSE Len(got)

\* FileTable::FindFreeSlot returns the least slot that is free.
IsFreeSlot(p, i) ==
  /\ i \in Slot \ DOMAIN core[p]
  /\ \A j \in Slot \ DOMAIN core[p] : i <= j

Full(p) == \A i \in 2 .. NFile : ~IsFreeSlot(p, i)

-----------------------------------------------------------------------------
(* The calls on host files *)

Ready(p) == calling[p] = NoCall /\ outcome = "running"

Returns(op, value) == result' = [op |-> op, value |-> value]

\* The program passes fid to Read, Write or Append.
Passes(p, fid) == misused' = (misused \/ fid \notin held[p] \cup {STDIN, STDOUT})

\* History: after a change of n that is not at its end, nobody follows it.
NotFollowed(table, n) ==
  [p \in Procs |-> [i \in DOMAIN table[p] |->
     IF table[p][i].name = n THEN [table[p][i] EXCEPT !.follows = FALSE, !.seen = <<>>]
                             ELSE table[p][i]]]

WithSlot(p, i, h) == [core EXCEPT ![p] = [j \in DOMAIN @ \cup {i} |-> IF j = i THEN h ELSE @[j]]]

WithoutSlot(p, i) == [core EXCEPT ![p] = [j \in DOMAIN @ \ {i} |-> @[j]]]

\* Create opens the host's file, which cuts it, and closes it again.
CreateFile(p, n) ==
  /\ Ready(p)
  /\ IF hostOpen < HostMax
     THEN /\ exists' = exists \cup {n}
          /\ content' = [content EXCEPT ![n] = <<>>]
          /\ log' = [log EXCEPT ![n] = <<>>]
          /\ appendOnly' = appendOnly \cup {n}
          /\ core' = NotFollowed(core, n)
          /\ Returns("CreateFile", 0)
     ELSE /\ Returns("CreateFile", -1)
          /\ UNCHANGED <<exists, content, log, appendOnly, core>>
  /\ UNCHANGED <<hostOpen, calling, outcome, held, lost, misused, loading>>

\* Faulty variant: the host's file is opened before a slot is looked for.
OpenFailsLate(p, n) ==
  /\ Ready(p)
  /\ Full(p) \/ n \notin exists \/ hostOpen = HostMax
  /\ hostOpen' = IF n \in exists /\ hostOpen < HostMax THEN hostOpen + 1 ELSE hostOpen
  /\ Returns("Open", -1)
  /\ UNCHANGED <<exists, content, core, calling, outcome, held, lost, misused,
                 log, appendOnly, loading>>

OpenFails(p, n) ==
  /\ Ready(p)
  /\ Full(p) \/ n \notin exists \/ hostOpen = HostMax
  /\ Returns("Open", -1)
  /\ UNCHANGED <<exists, content, core, hostOpen, calling, outcome, held, lost,
                 misused, log, appendOnly, loading>>

Open(p, n, t) ==
  /\ Ready(p)
  /\ n \in exists /\ hostOpen < HostMax
  /\ \E i \in 2 .. NFile :
       /\ IsFreeSlot(p, i)
       /\ core' = WithSlot(p, i, [name |-> n, type |-> t, offset |-> 0, currentOffset |-> 0,
                                  seen |-> <<>>, follows |-> TRUE])
       /\ held' = [held EXCEPT ![p] = @ \cup {i}]
       /\ Returns("Open", i)
  /\ hostOpen' = hostOpen + 1
  /\ UNCHANGED <<exists, content, calling, outcome, lost, misused, log, appendOnly, loading>>

\* SysOpen with type 2 or 3 answers without the table.
OpenConsole(p, t) ==
  /\ Ready(p)
  /\ Returns("Open", IF t = 2 THEN STDIN ELSE STDOUT)
  /\ UNCHANGED <<exists, content, core, hostOpen, calling, outcome, held, lost,
                 misused, log, appendOnly, loading>>

\* Faulty variant: the OpenFile is forgotten and not deleted.
CloseForgets(p, fid) ==
  /\ Ready(p)
  /\ IF fid \in DOMAIN core[p] THEN core' = WithoutSlot(p, fid) ELSE UNCHANGED core
  /\ held' = [held EXCEPT ![p] = @ \ {fid}]
  /\ Returns("Close", -1)
  /\ UNCHANGED <<exists, content, hostOpen, calling, outcome, lost, misused, log, appendOnly, loading>>

\* Whatever it did, Close returns -1.
Close(p, fid) ==
  /\ Ready(p)
  /\ IF fid \in DOMAIN core[p]
     THEN core' = WithoutSlot(p, fid) /\ hostOpen' = hostOpen - 1
     ELSE UNCHANGED <<core, hostOpen>>
  /\ held' = [held EXCEPT ![p] = @ \ {fid}]
  /\ Returns("Close", -1)
  /\ UNCHANGED <<exists, content, calling, outcome, lost, misused, log, appendOnly, loading>>

ReadFile(p, fid, n) ==
  /\ Ready(p)
  /\ fid \in DOMAIN core[p]
  /\ LET h     == GetCurrentPos(core[p][fid])
         s     == content[h.name]
         got   == Portion(s, h.currentOffset, n)
         value == ReadCount(got, n)
         given == System2User([i \in 1 .. value |-> IF i <= Len(got) THEN got[i] ELSE 0])
         after == MovedTo(h, h.currentOffset, Len(got))
     IN /\ core' = WithSlot(p, fid, [after EXCEPT !.seen = IF @ # <<>> \/ h.follows
                                                           THEN @ \o given ELSE <<>>])
        /\ Returns("Read", value)
  /\ Passes(p, fid)
  /\ UNCHANGED <<exists, content, hostOpen, calling, outcome, held, lost, log, appendOnly, loading>>

WriteFile(p, fid, data) ==
  /\ Ready(p)
  /\ fid \in DOMAIN core[p] /\ core[p][fid].type = 0
  /\ LET h == GetCurrentPos(core[p][fid])
         n == h.name
         moved == WithSlot(p, fid, MovedTo(h, h.currentOffset, Len(data)))
     IN /\ content' = [content EXCEPT ![n] = Overlay(@, h.currentOffset, User2System(data))]
        /\ IF data = <<>>
           THEN core' = moved /\ UNCHANGED <<log, appendOnly>>
           ELSE /\ core' = NotFollowed(moved, n)
                /\ log' = [log EXCEPT ![n] = <<>>]
                /\ appendOnly' = appendOnly \ {n}
  \* A Write of no bytes ends without a return statement.
  /\ \E value \in IF data = <<>> THEN {-1, 0, 1} ELSE {Len(data)} : Returns("Write", value)
  /\ Passes(p, fid)
  /\ UNCHANGED <<exists, hostOpen, calling, outcome, held, lost, loading>>

AppendFile(p, fid, data) ==
  /\ Ready(p)
  /\ fid \in DOMAIN core[p] /\ core[p][fid].type = 0
  /\ LET h  == core[p][fid]
         n  == h.name
         at == AppendPlace(h, content[n])
     IN /\ content' = [content EXCEPT ![n] = Overlay(@, at, User2System(data))]
        /\ core' = WithSlot(p, fid, [MovedTo(h, at, Len(data)) EXCEPT !.follows = FALSE, !.seen = <<>>])
        /\ log' = IF n \in appendOnly THEN [log EXCEPT ![n] = @ \o User2System(data)] ELSE log
  /\ Returns("Append", IF data = <<>> THEN -1 ELSE Len(data))
  /\ Passes(p, fid)
  /\ UNCHANGED <<exists, hostOpen, calling, outcome, held, lost, appendOnly, loading>>

-----------------------------------------------------------------------------
(* The ids for which the three transfers do something else *)

\* Outside the range, or refused for what the id is.  What lies where
\* core[N_FILE] would be is undefined; Read refuses the id if it is null.
Refused(p, op, fid) ==
  /\ Ready(p)
  /\ \/ fid < 0 \/ fid > NFile
     \/ op = "Read" /\ (fid = STDOUT \/ fid \in Slot \ DOMAIN core[p] \/ fid = NFile)
     \/ op # "Read" /\ fid = STDIN
     \/ op # "Read" /\ fid \in DOMAIN core[p] /\ core[p][fid].type = 1
  /\ Returns(op, -1)
  /\ Passes(p, fid)
  /\ UNCHANGED <<exists, content, core, hostOpen, calling, outcome, held, lost, log, appendOnly, loading>>

\* Write and Append look at core[fid]->type before they ask whether it is
\* null; and N_FILE passes everybody's range check.
Fails(p, op, fid) ==
  /\ Ready(p)
  /\ \/ op # "Read" /\ fid \in Slot \ DOMAIN core[p] /\ outcome' = "null"
     \/ fid = NFile /\ fid \notin DOMAIN core[p] /\ outcome' = "outside"
  /\ Passes(p, fid)
  /\ UNCHANGED <<exists, content, core, hostOpen, calling, result, held, lost, log, appendOnly, loading>>

\* What the display is given of a buffer.
ShownOf(data) == Cardinality({i \in 1 .. Len(data) : \A j \in 1 .. i : data[j] # 0})

ConsoleCall(p, fid, op, n, count) ==
  /\ Ready(p)
  /\ fid = IF op = "Read" THEN STDIN ELSE STDOUT
  /\ calling' = [calling EXCEPT ![p] = [op |-> op, left |-> n, count |-> count]]
  /\ UNCHANGED <<exists, content, core, hostOpen, result, outcome, held, lost,
                 misused, log, appendOnly, loading>>

\* One GetChar or PutChar of the synchronized console.
Transfer(p) ==
  /\ calling[p].left > 0 /\ outcome = "running"
  /\ calling' = [calling EXCEPT ![p].left = @ - 1]
  /\ UNCHANGED <<exists, content, core, hostOpen, result, outcome, held, lost,
                 misused, log, appendOnly, loading>>

\* A Write to the display returns -1.  A Read of the keyboard has freed the
\* caller's buffer and filled a new one, which happens to be the same memory
\* or is not.
ConsoleReturn(p) ==
  /\ calling[p].op # "none" /\ calling[p].left = 0 /\ outcome = "running"
  /\ calling' = [calling EXCEPT ![p] = NoCall]
  /\ \/ /\ Returns(calling[p].op, IF calling[p].op = "Read" THEN calling[p].count ELSE -1)
        /\ UNCHANGED outcome
     \/ /\ calling[p].op = "Read"
        /\ outcome' = "freed"
        /\ UNCHANGED result
  /\ UNCHANGED <<exists, content, core, hostOpen, held, lost, misused, log, appendOnly, loading>>

\* The process ends, and the next one in its slot of the process table gets
\* a new FileTable: ~FileTable closes nothing.
ExitFiles(p) ==
  /\ Ready(p)
  /\ core' = [core EXCEPT ![p] = <<>>]
  /\ held' = [held EXCEPT ![p] = {}]
  /\ lost' = lost + Cardinality(DOMAIN core[p])
  /\ Returns("Exit", 0)
  /\ UNCHANGED <<exists, content, hostOpen, calling, outcome, misused, log, appendOnly, loading>>

\* AddrSpace::Load opens the executable, and deletes the OpenFile in the end,
\* whether the program found room or not.
OpenExecutable(p) ==
  /\ hostOpen < HostMax
  /\ p \notin loading
  /\ hostOpen' = hostOpen + 1
  /\ loading' = loading \cup {p}
  /\ UNCHANGED <<exists, content, core, calling, result, outcome, held, lost, misused,
                 log, appendOnly>>

\* Faulty: it is not deleted.
ExecutableForgotten(p) ==
  /\ p \in loading
  /\ loading' = loading \ {p}
  /\ UNCHANGED <<exists, content, core, hostOpen, calling, result, outcome, held, lost,
                 misused, log, appendOnly>>

CloseExecutable(p) ==
  /\ p \in loading
  /\ hostOpen' = hostOpen - 1
  /\ loading' = loading \ {p}
  /\ UNCHANGED <<exists, content, core, calling, result, outcome, held, lost, misused,
                 log, appendOnly>>

\* The three transfers with all that may become of them.
SysRead(p, fid, n) ==
  \/ ReadFile(p, fid, n)
  \/ ConsoleCall(p, fid, "Read", n, n)
  \/ Refused(p, "Read", fid)
  \/ Fails(p, "Read", fid)

SysWrite(p, fid, data) ==
  \/ WriteFile(p, fid, data)
  \/ ConsoleCall(p, fid, "Write", ShownOf(data), 0)
  \/ Refused(p, "Write", fid)
  \/ Fails(p, "Write", fid)

SysAppend(p, fid, data) ==
  \/ AppendFile(p, fid, data)
  \/ ConsoleCall(p, fid, "Write", ShownOf(data), 0)
  \/ Refused(p, "Append", fid)
  \/ Fails(p, "Append", fid)

Room(p, fid, data) ==
  fid \in DOMAIN core[p] =>
    /\ Len(content[core[p][fid].name]) + Len(data) <= MaxLength
    /\ core[p][fid].currentOffset + Len(data) <= MaxLength

\* Any call a program may make.
FileStep(p) ==
  \/ \E n \in Names : CreateFile(p, n) \/ OpenFails(p, n)
  \/ \E n \in Names, t \in {0, 1} : Open(p, n, t)
  \/ \E t \in {2, 3} : OpenConsole(p, t)
  \/ \E fid \in FileId :
       \/ Close(p, fid)
       \/ \E n \in Counts : SysRead(p, fid, n)
       \/ \E data \in Buffers :
            Room(p, fid, data) /\ (SysWrite(p, fid, data) \/ SysAppend(p, fid, data))
  \/ Transfer(p)
  \/ ConsoleReturn(p)
  \/ ExitFiles(p)

-----------------------------------------------------------------------------
(* Safety *)

OpenSlots == {s \in Procs \X (2 .. NFile) : s[2] \in DOMAIN core[s[1]]}

\* The descriptors the host has given are those in the open slots, those of
\* executables that are being loaded, and those a process left behind when it
\* ended; what a program thinks it has open is
\* what its table has, so that a program that passes only such ids never
\* makes the kernel look at memory it must not.  ftable.cc:28, ftable.cc:37
\* (slot and descriptor are taken and given back together, whatever fails),
\* ftable.cc:51 and ftable.cc:107 (an id is used before it is checked).
Accounted ==
  /\ hostOpen = lost + Cardinality(OpenSlots) + Cardinality(loading)
  /\ \A p \in Procs : held[p] = DOMAIN core[p]
  /\ outcome \in {"null", "outside"} => misused

\* The host's offset of a descriptor and the simulator's agree between calls,
\* and as long as a file is only appended to, by however many processes
\* through however many descriptors, it holds what was appended, whole and
\* in order.  openfile.cc:269 (Append at the Length), openfile.cc:282.
AppendsKept ==
  /\ \A p \in Procs : \A i \in DOMAIN core[p] : core[p][i].offset = core[p][i].currentOffset
  /\ \A n \in appendOnly : content[n] = log[n]

\* A program that Reads its way through a file while others append to it
\* gets the file's bytes, each once and in order, except that its buffer
\* keeps its own after a 0.  ftable.cc:83 (the position is taken from the
\* host before and after), ksyscall.h:28.
ReaderSeesLog ==
  \A p \in Procs : \A i \in DOMAIN core[p] :
    LET h == core[p][i]
    IN h.follows => /\ Len(h.seen) = h.currentOffset
                    /\ \A k \in 1 .. Len(h.seen) :
                         k <= Len(content[h.name]) /\ h.seen[k] \in {content[h.name][k], Kept}

\* A call on a file that returns an error, Close aside, has changed no file,
\* no slot and no descriptor.  ftable.cc:28, ksyscall.h:110, ftable.cc:172.
FailureChangesNothing ==
  [][result'.value < 0 /\ result' # result /\ result'.op # "Close" =>
       UNCHANGED <<exists, content, hostOpen, held>>]_fileVars
=============================================================================
