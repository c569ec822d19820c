------------------------------ MODULE NachosFS ------------------------------
(***************************************************************************)
(* The Nachos file system, filesys/filesys.cc without FILESYS_STUB, with   *)
(* directory.cc, filehdr.cc, pbitmap.cc and openfile.cc, on the disk of    *)
(* SynchDisk, and crashes of the machine between any two disk accesses.    *)
(*                                                                         *)
(* pc[p] is the sector access that p makes next, or waits for while it is  *)
(* in waiting.  What a call computes between two accesses is part of the   *)
(* step that ends the first.  A directory and a bitmap fill one sector     *)
(* each, as in the code.  A file's length is a number of sectors; reads    *)
(* and writes begin and end at any byte of it.                             *)
(*                                                                         *)
(* Create, Open and Remove run one at a time, which is what the comment on *)
(* Create asks of the callers; reads and writes of open files go on beside *)
(* them.                                                                   *)
(***************************************************************************)
EXTENDS SynchDisk, Sequences, FiniteSets, FiniteSetsExt, Functions

CONSTANTS
  Name,           \* file names
  NumDirEntries,
  Sizes,          \* sizes, in sectors, that files are created with
  MaxCreates,     \* bounds on the calls of Create and of WriteAt, for model
  MaxWrites,      \*   checking
  SectorSize,     \* in bytes
  Datum,          \* what a byte of a user's file may hold
  NoDatum,        \* what it holds before it is first written
  NoEntry,        \* a directory entry that is not inUse
  NoFile          \* the NULL of Open

ASSUME FSAssumption ==
  /\ NumSectors > 4
  /\ NumDirEntries \in Nat \ {0}
  /\ Sizes \subseteq Nat
  /\ MaxCreates \in Nat
  /\ MaxWrites \in Nat
  /\ SectorSize \in Nat \ {0}
  /\ NoDatum \notin Datum
  /\ NoEntry \notin [name : Name, sector : 0 .. (NumSectors - 1)]

VARIABLES
  pc,       \* pc[p]: the access, or "none" outside of calls
  mem,      \* mem[p]: the locals of p's Create, Open or Remove
  io,       \* io[p]: those of its ReadAt or WriteAt
  file,     \* file[p]: the header that p's OpenFile holds, or NoFile
  written,  \* history: written[n][i]: what sector i of file n should hold
  overtaken,  \* history: the sectors that p's WriteAt read, and another wrote since
  creates,  \* history: the number of files that Create made
  writes,   \* history: the number of calls of WriteAt
  spoiled   \* history: a crash in a window, or a write through a stale OpenFile

fsVars == <<pc, mem, io, file, written, overtaken, creates, writes, spoiled>>
vars   == <<disk, synchVars, fsVars>>

-----------------------------------------------------------------------------
(* What is on the disk *)

\* The bitmap file's header and data, and the directory's.  The four sectors
\* are marked from the format on, and no header of theirs changes.
FreeMapSector   == 0
DirectorySector == 1
MapData         == 2
DirectoryData   == 3
System          == {FreeMapSector, DirectorySector, MapData, DirectoryData}

Entries == 0 .. (NumDirEntries - 1)

\* A sector of a user's file is a record of its bytes.  What a header leaves
\* in a sector that is used again for data counts as bytes never written.
Offset == 0 .. (SectorSize - 1)
Blank  == [bytes |-> [o \in Offset |-> NoDatum]]
ContentOf(sector) == IF "bytes" \in DOMAIN sector THEN sector ELSE Blank

\* FileSystem(TRUE).
Formatted ==
  [s \in Sectors |->
     CASE s = FreeMapSector   -> [sectors |-> <<MapData>>]
       [] s = DirectorySector -> [sectors |-> <<DirectoryData>>]
       [] s = MapData         -> System
       [] s = DirectoryData   -> [e \in Entries |-> NoEntry]
       [] OTHER               -> Blank]

\* Directory::FindIndex.
Holding(table, n) == {e \in Entries : table[e] # NoEntry /\ table[e].name = n}

\* Directory::Add and Remove.
FreeEntries(table) == {e \in Entries : table[e] = NoEntry}
Added(table, n, s) == [table EXCEPT ![Min(FreeEntries(table))] = [name |-> n, sector |-> s]]
Removed(table, n)  == [e \in Entries |-> IF e \in Holding(table, n) THEN NoEntry ELSE table[e]]

SectorOf(table, n) == table[CHOOSE e \in Holding(table, n) : TRUE].sector

\* Bitmap: the clear sectors, and what k calls of FindAndSet find: the first
\* of them, the second, and so on.
Clear(marked) == Sectors \ marked
FirstClear(marked, k) ==
  LET rank(s) == Cardinality({r \in Clear(marked) : r <= s})
  IN [i \in 1 .. k |-> CHOOSE s \in Clear(marked) : rank(s) = i]

\* Faulty: the data sectors are looked for in the bitmap as it was before the
\* header's sector was taken.
AllocateEarly(marked, header, k) == [sectors |-> FirstClear(marked, k)]

\* FileHeader::Allocate, after header was taken for the header itself.
Allocate(marked, header, k) == [sectors |-> FirstClear(marked \cup {header}, k)]

\* FileHeader::ByteToSector, of a byte in the file's i-th sector.
ByteToSector(hdr, i) == hdr.sectors[i]

\* Faulty: the header's own sector stays marked.
FreedButHeader(marked, header, hdr) == marked \ Range(hdr.sectors)

\* FileHeader::Deallocate and the Clear after it.
Freed(marked, header, hdr) == marked \ (Range(hdr.sectors) \cup {header})

-----------------------------------------------------------------------------
NoLocals == [name |-> NoEntry, size |-> 0, table |-> NoEntry, map |-> {}, sector |-> 0,
             hdr |-> [sectors |-> <<>>]]

\* first, last, lo, hi: the bytes asked for, from byte lo of the file's sector
\* first to byte hi of its sector last; at: the sector of the next access;
\* from: what WriteAt puts there; buf: its buf, of the sectors it has read.
NoIO == [first |-> 0, last |-> 0, lo |-> 0, hi |-> 0, at |-> 0, from |-> NoDatum, buf |-> <<>>]

Init ==
  /\ disk = Formatted
  /\ SynchInit
  /\ pc = [p \in Proc |-> "none"]
  /\ mem = [p \in Proc |-> NoLocals]
  /\ io = [p \in Proc |-> NoIO]
  /\ file = [p \in Proc |-> NoFile]
  /\ written = [n \in Name |-> <<>>]
  /\ overtaken = [p \in Proc |-> {}]
  /\ creates = 0
  /\ writes = 0
  /\ spoiled = FALSE

\* The labels of accesses.  w: the access writes; fill: WriteAt reads a sector
\* that it will write in part.
CreateLabels == {"createDir", "createMap", "wCreateHdr", "wCreateDir", "wCreateMap"}
RemoveLabels == {"removeDir", "removeHdr", "removeMap", "wRemoveMap", "wRemoveDir"}
OpenLabels   == {"openDir", "openHdr"}
Labels == {"none", "read", "fill", "write"} \cup CreateLabels \cup RemoveLabels \cup OpenLabels

InFileSystem(p) == pc[p] \in CreateLabels \cup RemoveLabels \cup OpenLabels

TypeOK ==
  /\ SynchTypeOK
  /\ pc \in [Proc -> Labels]
  /\ creates \in Nat
  /\ writes \in 0 .. MaxWrites
  /\ spoiled \in BOOLEAN

-----------------------------------------------------------------------------
(* Calls *)

Enter(p, label, n, k) ==
  /\ pc[p] = "none"
  /\ \A q \in Proc : ~InFileSystem(q)
  /\ pc' = [pc EXCEPT ![p] = label]
  /\ mem' = [mem EXCEPT ![p].name = n, ![p].size = k]
  /\ UNCHANGED <<disk, synchVars, io, file, written, overtaken, creates, writes, spoiled>>

Create(p, n, k) == creates < MaxCreates /\ Enter(p, "createDir", n, k)
Open(p, n)      == file[p] = NoFile /\ Enter(p, "openDir", n, 0)
Remove(p, n)    == Enter(p, "removeDir", n, 0)

\* WriteAt must read the first and the last sector when they are to be written
\* in part.
NeedsFirst(x) == x.lo # 0

\* Faulty: a write within one sector is taken to have had it read.
NeedsLastUnaligned(x) == x.hi # SectorSize - 1 /\ x.first # x.last

NeedsLast(x) == x.hi # SectorSize - 1 /\ (x.first # x.last \/ ~NeedsFirst(x))

\* The first access of p's ReadAt or WriteAt is to sector i.
Use(p, label, x, i) ==
  /\ pc' = [pc EXCEPT ![p] = label]
  /\ io' = [io EXCEPT ![p] = [x EXCEPT !.at = i]]
  /\ UNCHANGED <<disk, synchVars, mem, file, written, overtaken, creates, spoiled>>

Read(p) ==
  /\ pc[p] = "none"
  /\ file[p] # NoFile
  /\ \E first, last \in DOMAIN file[p].hdr.sectors :
       /\ first <= last
       /\ Use(p, "read", [NoIO EXCEPT !.first = first, !.last = last], first)
  /\ UNCHANGED writes

\* The pieces of p's file that a WriteAt may be asked to write.
Pieces(p) ==
  LET indices == DOMAIN file[p].hdr.sectors
  IN {x \in [first : indices, last : indices, lo : Offset, hi : Offset, at : {0}, from : Datum,
             buf : {<<>>}] :
        x.first <= x.last /\ (x.first = x.last => x.lo <= x.hi)}

Write(p) ==
  /\ pc[p] = "none"
  /\ file[p] # NoFile
  /\ writes < MaxWrites
  /\ writes' = writes + 1
  /\ \E x \in Pieces(p) :
       \/ NeedsFirst(x) /\ Use(p, "fill", x, x.first)
       \/ ~NeedsFirst(x) /\ NeedsLast(x) /\ Use(p, "fill", x, x.last)
       \/ ~NeedsFirst(x) /\ ~NeedsLast(x) /\ Use(p, "write", x, x.first)

\* delete openFile.
Close(p) ==
  /\ pc[p] = "none"
  /\ file[p] # NoFile
  /\ file' = [file EXCEPT ![p] = NoFile]
  /\ UNCHANGED <<disk, synchVars, pc, mem, io, written, overtaken, creates, writes, spoiled>>

-----------------------------------------------------------------------------
(* Accesses *)

\* The header p holds is no longer that of the file it opened.
Stale(p) ==
  LET table == disk[DirectoryData]
      n == file[p].name
  IN \/ Holding(table, n) = {}
     \/ disk[SectorOf(table, n)] # file[p].hdr
     \/ SectorOf(table, n) # file[p].sector

\* The sector that p's ReadAt or WriteAt is at.
Here(p) == ByteToSector(file[p].hdr, io[p].at)

\* Sector i, as it is with the bytes of write x in it.
InRange(x, i, o) == (i = x.first => o >= x.lo) /\ (i = x.last => o <= x.hi)
Changed(x, i, sector) ==
  [bytes |-> [o \in Offset |-> IF InRange(x, i, o) THEN x.from ELSE ContentOf(sector).bytes[o]]]

\* buf of sector i, which WriteAt has read or is about to write all of.
Buffer(x, i) == IF i \in DOMAIN x.buf THEN x.buf[i] ELSE Blank

\* The sector that a write changes and what it puts there.
Written(p) ==
  CASE pc[p] = "wCreateHdr" -> <<mem[p].sector, mem[p].hdr>>
    [] pc[p] \in {"wCreateDir", "wRemoveDir"} -> <<DirectoryData, mem[p].table>>
    [] pc[p] \in {"wCreateMap", "wRemoveMap"} -> <<MapData, mem[p].map>>
    [] pc[p] = "write" -> <<Here(p), Changed(io[p], io[p].at, Buffer(io[p], io[p].at))>>

Writes == {"wCreateHdr", "wCreateDir", "wRemoveDir", "wCreateMap", "wRemoveMap", "write"}

WriteAccess(p) ==
  /\ pc[p] \in Writes
  /\ Begin(p)
  /\ disk' = [disk EXCEPT ![Written(p)[1]] = Written(p)[2]]
  /\ IF pc[p] = "write"
     THEN /\ spoiled' = Stale(p)
          /\ written' = IF Stale(p) THEN written
                        ELSE [written EXCEPT ![file[p].name][io[p].at] =
                                IF io[p].at \in overtaken[p] THEN Written(p)[2]
                                ELSE Changed(io[p], io[p].at, @)]
     ELSE UNCHANGED <<spoiled, written>>
  /\ overtaken' = [q \in Proc |-> overtaken[q] \cup
                     {i \in DOMAIN io[q].buf :
                        q # p /\ ByteToSector(file[q].hdr, i) = Written(p)[1]}]
  /\ creates' = creates + (IF pc[p] = "wCreateMap" THEN 1 ELSE 0)
  /\ UNCHANGED <<pc, mem, io, file, writes>>

ReadAccess(p) ==
  /\ \/ /\ \/ /\ pc[p] \in {"createDir", "removeDir", "openDir"}
              /\ mem' = [mem EXCEPT ![p].table = disk[DirectoryData]]
           \/ /\ pc[p] \in {"createMap", "removeMap"}
              /\ mem' = [mem EXCEPT ![p].map = disk[MapData]]
           \/ /\ pc[p] \in {"removeHdr", "openHdr"}
              /\ mem' = [mem EXCEPT ![p].hdr = disk[mem[p].sector]]
        /\ UNCHANGED io
     \/ /\ pc[p] = "fill"
        /\ io' = [io EXCEPT ![p].buf =
                    [i \in DOMAIN @ \cup {io[p].at} |-> IF i = io[p].at THEN disk[Here(p)] ELSE @[i]]]
        /\ UNCHANGED mem
     \/ pc[p] = "read" /\ UNCHANGED <<mem, io>>
  /\ Begin(p)
  /\ UNCHANGED <<disk, pc, file, written, overtaken, creates, writes, spoiled>>

-----------------------------------------------------------------------------
(* What follows an access *)

Goto(p, label, m) ==
  /\ pc' = [pc EXCEPT ![p] = label]
  /\ mem' = [mem EXCEPT ![p] = m]

Return(p) == Goto(p, "none", NoLocals)

\* The file is in the directory already, or is not.
AfterCreateDir(p) ==
  /\ pc[p] = "createDir"
  /\ IF Holding(mem[p].table, mem[p].name) # {} THEN Return(p)
     ELSE Goto(p, "createMap", mem[p])
  /\ UNCHANGED <<file, written>>

\* The file can be created: a sector for the header, an entry, and the data.
Fits(m) ==
  /\ Clear(m.map) # {}
  /\ FreeEntries(m.table) # {}
  /\ m.size <= Cardinality(Clear(m.map)) - 1

AfterCreateMap(p) ==
  /\ pc[p] = "createMap"
  /\ LET m == mem[p] IN
     IF ~Fits(m) THEN Return(p)
     ELSE LET header == Min(Clear(m.map))
              hdr == Allocate(m.map, header, m.size)
          IN Goto(p, "wCreateHdr",
                  [m EXCEPT !.sector = header, !.hdr = hdr,
                            !.map = @ \cup {header} \cup Range(hdr.sectors),
                            !.table = Added(@, m.name, header)])
  /\ UNCHANGED <<file, written>>

\* The header is on the disk, then the directory, then the bitmap.
AfterCreateWrite(p) ==
  /\ \/ /\ pc[p] = "wCreateHdr"
        /\ Goto(p, "wCreateDir", mem[p])
        /\ written' = [written EXCEPT ![mem[p].name] =
                         [i \in DOMAIN mem[p].hdr.sectors |-> disk[mem[p].hdr.sectors[i]]]]
     \/ /\ pc[p] = "wCreateDir"
        /\ Goto(p, "wCreateMap", mem[p])
        /\ UNCHANGED written
     \/ /\ pc[p] = "wCreateMap"
        /\ Return(p)
        /\ UNCHANGED written
  /\ UNCHANGED file

AfterRemoveRead(p) ==
  /\ \/ /\ pc[p] = "removeDir"
        /\ IF Holding(mem[p].table, mem[p].name) = {} THEN Return(p)
           ELSE Goto(p, "removeHdr", [mem[p] EXCEPT !.sector = SectorOf(mem[p].table, mem[p].name)])
     \/ /\ pc[p] = "removeHdr"
        /\ Goto(p, "removeMap", mem[p])
     \/ /\ pc[p] = "removeMap"
        /\ Goto(p, "wRemoveMap",
                [mem[p] EXCEPT !.map = Freed(@, mem[p].sector, mem[p].hdr),
                               !.table = Removed(@, mem[p].name)])
  /\ UNCHANGED <<file, written>>

\* The bitmap is on the disk, then the directory.
AfterRemoveWrite(p) ==
  /\ \/ pc[p] = "wRemoveMap" /\ Goto(p, "wRemoveDir", mem[p])
     \/ pc[p] = "wRemoveDir" /\ Return(p)
  /\ UNCHANGED <<file, written>>

AfterOpen(p) ==
  /\ \/ /\ pc[p] = "openDir"
        /\ IF Holding(mem[p].table, mem[p].name) = {} THEN Return(p)
           ELSE Goto(p, "openHdr", [mem[p] EXCEPT !.sector = SectorOf(mem[p].table, mem[p].name)])
        /\ UNCHANGED file
     \/ /\ pc[p] = "openHdr"
        /\ Return(p)
        /\ file' = [file EXCEPT ![p] = [name |-> mem[p].name, sector |-> mem[p].sector,
                                        hdr |-> mem[p].hdr]]
  /\ UNCHANGED written

\* The next sector of a ReadAt or a WriteAt.
Continue(p, label, i) ==
  /\ pc' = [pc EXCEPT ![p] = label]
  /\ io' = [io EXCEPT ![p].at = i]
  /\ UNCHANGED overtaken

AfterUse(p) ==
  /\ LET x == io[p] IN
     \/ /\ pc[p] = "fill"
        /\ IF x.at # x.last /\ NeedsLast(x) THEN Continue(p, "fill", x.last)
           ELSE Continue(p, "write", x.first)
     \/ /\ pc[p] \in {"read", "write"}
        /\ IF x.at < x.last THEN Continue(p, pc[p], x.at + 1)
           ELSE /\ pc' = [pc EXCEPT ![p] = "none"]
                /\ io' = [io EXCEPT ![p] = NoIO]
                /\ overtaken' = [overtaken EXCEPT ![p] = {}]
  /\ UNCHANGED <<mem, file, written>>

Resume(p) ==
  /\ End(p)
  /\ \/ /\ \/ AfterCreateDir(p) \/ AfterCreateMap(p) \/ AfterCreateWrite(p)
           \/ AfterRemoveRead(p) \/ AfterRemoveWrite(p) \/ AfterOpen(p)
        /\ UNCHANGED <<io, overtaken>>
     \/ AfterUse(p)
  /\ UNCHANGED <<disk, creates, writes, spoiled>>

-----------------------------------------------------------------------------
(* Crashes *)

\* p has made one of two writes that belong together: the directory names a
\* file whose sectors are free.
InWindow(p) ==
  \/ pc[p] = "wCreateDir" /\ p \in waiting
  \/ pc[p] = "wCreateMap" /\ p \notin waiting
  \/ pc[p] = "wRemoveMap" /\ p \in waiting
  \/ pc[p] = "wRemoveDir" /\ p \notin waiting

\* The machine stops and is started again with the same disk: FileSystem(FALSE).
Crash ==
  /\ SynchRestart
  /\ pc' = [p \in Proc |-> "none"]
  /\ mem' = [p \in Proc |-> NoLocals]
  /\ io' = [p \in Proc |-> NoIO]
  /\ overtaken' = [p \in Proc |-> {}]
  /\ file' = [p \in Proc |-> NoFile]
  /\ spoiled' = \E p \in Proc : InWindow(p)
  /\ UNCHANGED <<disk, written, creates, writes>>

-----------------------------------------------------------------------------
\* Nothing is said of a disk after it is spoiled.
Next ==
  /\ ~spoiled
  /\ \/ \E p \in Proc, n \in Name :
          \/ \E k \in Sizes : Create(p, n, k)
          \/ Open(p, n) \/ Remove(p, n)
     \/ \E p \in Proc :
          \/ Read(p) \/ Write(p) \/ Close(p)
          \/ WriteAccess(p) \/ ReadAccess(p) \/ Resume(p)
     \/ DiskInterrupt /\ UNCHANGED <<disk, fsVars>>
     \/ Crash

Spec == Init /\ [][Next]_vars

-----------------------------------------------------------------------------
Files == {disk[DirectoryData][e] : e \in Entries} \ {NoEntry}

SectorsOf(f) == {f.sector} \cup Range(disk[f.sector].sectors)

\* The file that is in the directory but not in the bitmap just now.
HalfDone(f) == \E p \in Proc : InWindow(p) /\ mem[p].sector = f.sector

(***************************************************************************)
(* On the disk, at every moment a crash may come: no two files share a     *)
(* sector, no file has one of the system's, and the bitmap marks exactly   *)
(* what the files own, but for the one file whose Create or Remove is      *)
(* between its two writes.  So a crash anywhere else leaves a disk that is *)
(* in order, and a half-done call never leaks a sector.                    *)
(***************************************************************************)
DiskConsistent ==
  ~spoiled =>
    /\ \A f, g \in Files : f # g => f.name # g.name /\ SectorsOf(f) \cap SectorsOf(g) = {}
    /\ \A f \in Files : /\ SectorsOf(f) \cap System = {}
                        /\ Cardinality(SectorsOf(f)) = 1 + Len(disk[f.sector].sectors)
    /\ disk[MapData] = System \cup UNION {SectorsOf(f) : f \in {g \in Files : ~HalfDone(g)}}

(***************************************************************************)
(* A file holds what was last written to it, byte by byte, whatever is     *)
(* created, removed, opened or written beside it and wherever the machine  *)
(* crashed: a write changes the bytes it was given and no other.  That     *)
(* fails in three cases only.  A crash between the two writes of a call,   *)
(* or a write through an OpenFile whose file was removed, can touch        *)
(* another file's data.  And WriteAt puts back a whole sector: when        *)
(* another write of that very sector came after it had read it             *)
(* (openfile.cc:183, :195), the sector's other bytes become again what     *)
(* they were, and the other write is lost.                                 *)
(***************************************************************************)
DataKept ==
  ~spoiled =>
    \A f \in Files :
      written[f.name] = [i \in DOMAIN disk[f.sector].sectors |->
                           disk[disk[f.sector].sectors[i]]]

(***************************************************************************)
(* The state is well formed, and the requests of all threads reach the     *)
(* disk one at a time (SynchDisk: disk.cc:117, synchdisk.cc:57).           *)
(***************************************************************************)
RequestsSound == TypeOK /\ OneRequest
=============================================================================
