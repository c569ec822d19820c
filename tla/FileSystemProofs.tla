-------------------------- MODULE FileSystemProofs --------------------------
(***************************************************************************)
(* Theorems about NachosFS, for every number of threads, of sectors, of    *)
(* names and of directory entries, and after every crash: the disk serves  *)
(* one request at a time, what is on it is in order wherever the machine   *)
(* may stop, and files keep their data.                                    *)
(***************************************************************************)
EXTENDS NachosFS, FiniteSetTheorems, WellFoundedInduction, TLAPS

\* OneRequest is inductive only with the types of what it counts.
LEMMA RequestsInit == Init => RequestsSound
<1> SUFFICES ASSUME Init PROVE RequestsSound
  OBVIOUS
<1>1. TypeOK
  <2>1. writes \in 0 .. MaxWrites
    BY FSAssumption DEF Init
  <2>2. SynchTypeOK /\ pc \in [Proc -> Labels] /\ creates \in Nat /\ spoiled \in BOOLEAN
    BY DEF Init, SynchInit, SynchTypeOK, Labels
  <2> QED
    BY <2>1, <2>2 DEF TypeOK
<1>2. OneRequest
  BY SynchDiskAssumption DEF Init, SynchInit, OneRequest
<1> QED
  BY <1>1, <1>2 DEF RequestsSound

-----------------------------------------------------------------------------
(* The steps of SynchDisk *)

LEMMA BeginSound ==
  ASSUME SynchTypeOK, OneRequest, NEW p \in Proc, Begin(p)
  PROVE  SynchTypeOK' /\ OneRequest'
<1>1. SynchTypeOK'
  BY DEF Begin, SynchTypeOK
<1>2. waiting = {}
  BY SynchDiskAssumption DEF Begin, OneRequest
<1>3. semaphore = 0 /\ lock' = p /\ p # NoProc /\ waiting' = {p}
  BY <1>2, SynchDiskAssumption DEF Begin, OneRequest, SynchTypeOK
<1>4. waiting' = {q \in Proc : lock' = q}
  BY <1>3
<1>5. semaphore' + (IF active' THEN 1 ELSE 0) = 1
  BY <1>3 DEF Begin
<1> QED
  BY <1>1, <1>3, <1>4, <1>5 DEF OneRequest

LEMMA InterruptSound ==
  ASSUME SynchTypeOK, OneRequest, DiskInterrupt
  PROVE  SynchTypeOK' /\ OneRequest'
<1>1. SynchTypeOK'
  <2>1. active' \in BOOLEAN
    BY Zenon DEF DiskInterrupt
  <2>2. UNCHANGED <<lock, waiting>> /\ semaphore' \in Nat
    BY DEF DiskInterrupt, SynchTypeOK
  <2> QED
    BY <2>1, <2>2 DEF SynchTypeOK
<1>2. waiting' = {p \in Proc : lock' = p}
  BY DEF DiskInterrupt, OneRequest
<1>3. semaphore' + (IF active' THEN 1 ELSE 0) = semaphore + (IF active THEN 1 ELSE 0)
  BY DEF DiskInterrupt, SynchTypeOK
<1> QED
  BY <1>1, <1>2, <1>3 DEF OneRequest, DiskInterrupt

LEMMA EndSound ==
  ASSUME SynchTypeOK, OneRequest, NEW p \in Proc, End(p)
  PROVE  SynchTypeOK' /\ OneRequest'
<1>1. lock = p /\ p # NoProc /\ waiting = {p}
  BY SynchDiskAssumption DEF End, OneRequest
<1>2. semaphore = 1 /\ ~active
  BY <1>1 DEF End, OneRequest, SynchTypeOK
<1>3. lock' = NoProc /\ waiting' = {} /\ semaphore' = 0 /\ active' = active
  BY <1>1, <1>2 DEF End
<1>4. SynchTypeOK'
  BY <1>3 DEF SynchTypeOK
<1>5. OneRequest'
  BY <1>2, <1>3, SynchDiskAssumption DEF OneRequest
<1> QED
  BY <1>4, <1>5

LEMMA RestartSound ==
  ASSUME SynchRestart PROVE SynchTypeOK' /\ OneRequest'
<1>1. active' = FALSE /\ lock' = NoProc /\ semaphore' = 0 /\ waiting' = {}
  BY DEF SynchRestart
<1>2. waiting' = {p \in Proc : lock' = p}
  BY <1>1, SynchDiskAssumption
<1>3. SynchTypeOK'
  BY <1>1 DEF SynchTypeOK
<1>4. semaphore' + (IF active' THEN 1 ELSE 0) = 0
  BY <1>1
<1> QED
  BY <1>1, <1>2, <1>3, <1>4 DEF OneRequest

-----------------------------------------------------------------------------
(* The steps of the file system *)

\* What an access or what follows it does to pc.
LEMMA ResumeLabels ==
  ASSUME NEW p \in Proc, pc \in [Proc -> Labels], Resume(p)
  PROVE  pc' \in [Proc -> Labels]
BY DEF Resume, AfterCreateDir, AfterCreateMap, AfterCreateWrite, AfterRemoveRead,
       AfterRemoveWrite, AfterOpen, AfterUse, Continue, Return, Goto, Labels, CreateLabels,
       RemoveLabels, OpenLabels

\* The first access of a ReadAt or a WriteAt.
LEMMA UseStarts ==
  ASSUME NEW p \in Proc, Read(p) \/ Write(p)
  PROVE  \E l \in {"read", "fill", "write"} : \E x, i : Use(p, l, x, i) /\ pc[p] = "none"
<1>1. CASE Read(p)
  BY <1>1 DEF Read
<1>2. CASE Write(p)
  BY <1>2 DEF Write
<1> QED
  BY <1>1, <1>2

LEMMA RequestsStep == RequestsSound /\ [Next]_vars => RequestsSound'
<1> SUFFICES ASSUME RequestsSound, [Next]_vars PROVE RequestsSound'
  OBVIOUS
<1> USE DEF RequestsSound, TypeOK
<1>1. ASSUME NEW p \in Proc,
             \/ \E n \in Name : (\E k \in Sizes : Create(p, n, k)) \/ Open(p, n) \/ Remove(p, n)
             \/ Read(p) \/ Write(p) \/ Close(p)
      PROVE  RequestsSound'
  <2>1. CASE Read(p) \/ Write(p)
    <3>1. PICK l \in {"read", "fill", "write"} : \E x, i : Use(p, l, x, i)
      BY <2>1, UseStarts
    <3>2. UNCHANGED <<synchVars, creates, spoiled>> /\ pc' \in [Proc -> Labels]
      BY <3>1 DEF Use, Labels
    <3>3. writes' \in 0 .. MaxWrites
      <4>1. writes \in 0 .. MaxWrites /\ MaxWrites \in Nat
        BY FSAssumption
      <4>2. UNCHANGED writes \/ (writes < MaxWrites /\ writes' = writes + 1)
        BY <2>1 DEF Read, Write
      <4> QED
        BY <4>1, <4>2
    <3> QED
      BY <3>2, <3>3 DEF synchVars, SynchTypeOK, OneRequest
  <2>2. CASE ~(Read(p) \/ Write(p))
    <3>1. UNCHANGED <<synchVars, creates, writes, spoiled>>
      BY <1>1, <2>2 DEF Create, Open, Remove, Enter, Close
    <3>2. pc' \in [Proc -> Labels]
      BY <1>1, <2>2 DEF Create, Open, Remove, Enter, Close, Labels, CreateLabels, RemoveLabels, OpenLabels
    <3> QED
      BY <3>1, <3>2 DEF synchVars, SynchTypeOK, OneRequest
  <2> QED
    BY <2>1, <2>2
<1>2. ASSUME NEW p \in Proc, WriteAccess(p)
      PROVE  RequestsSound'
  <2>1. SynchTypeOK' /\ OneRequest'
    BY <1>2, BeginSound DEF WriteAccess
  <2>2. UNCHANGED <<pc, writes>> /\ creates' \in Nat
    BY <1>2 DEF WriteAccess
  <2>3. spoiled' \in BOOLEAN
    <3>1. Stale(p) \in BOOLEAN
      BY Zenon DEF Stale
    <3> QED
      BY <3>1, <1>2 DEF WriteAccess
  <2> QED
    BY <2>1, <2>2, <2>3
<1>3. ASSUME NEW p \in Proc, ReadAccess(p)
      PROVE  RequestsSound'
  <2>1. SynchTypeOK' /\ OneRequest'
    BY <1>3, BeginSound DEF ReadAccess
  <2> QED
    BY <2>1, <1>3 DEF ReadAccess
<1>4. ASSUME NEW p \in Proc, Resume(p)
      PROVE  RequestsSound'
  <2>1. SynchTypeOK' /\ OneRequest'
    BY <1>4, EndSound DEF Resume
  <2> QED
    BY <2>1, <1>4, ResumeLabels DEF Resume
<1>5. CASE DiskInterrupt /\ UNCHANGED <<disk, fsVars>>
  BY <1>5, InterruptSound DEF fsVars
<1>6. CASE Crash
  <2>1. SynchTypeOK' /\ OneRequest'
    BY <1>6, RestartSound DEF Crash
  <2> QED
    BY <2>1, <1>6 DEF Crash, Labels
<1>7. CASE UNCHANGED vars
  BY <1>7 DEF vars, synchVars, fsVars, SynchTypeOK, OneRequest
<1> QED
  BY <1>1, <1>2, <1>3, <1>4, <1>5, <1>6, <1>7 DEF Next

(***************************************************************************)
(* The disk is never asked for a second thing while it is busy (the ASSERT *)
(* of machine/disk.cc:117), and each thread goes on after the interrupt of *)
(* its own request, though all threads wait on one semaphore and the       *)
(* machine may crash at any time (filesys/synchdisk.cc).                   *)
(***************************************************************************)
THEOREM RequestsAreSound == Spec => []RequestsSound
BY RequestsInit, RequestsStep, PTL DEF Spec

-----------------------------------------------------------------------------
(* What the bitmap, the directory and headers compute *)

\* The directory as it is on the disk, its entries in use, and what the file
\* with its header in sector s owns.
Dir    == disk[DirectoryData]
Used   == {e \in Entries : Dir[e] # NoEntry}
Entry  == [name : Name, sector : Sectors]
Tables == [Entries -> Entry \cup {NoEntry}]
Header == [sectors : Seq(Sectors)]
Own(s) == {s} \cup Range(disk[s].sectors)

\* A header that can be in sector s: no sector twice, none of the system's.
Proper(hdr, s) ==
  /\ hdr \in Header
  /\ s \in Sectors \ System
  /\ Range(hdr.sectors) \cap (System \cup {s}) = {}
  /\ \A i, j \in DOMAIN hdr.sectors : hdr.sectors[i] = hdr.sectors[j] => i = j

\* The least element of a set of numbers, as of clear sectors or free entries.
LEMMA MinLeast ==
  ASSUME NEW T, T \subseteq Nat, T # {}
  PROVE  Min(T) \in T /\ \A j \in T : Min(T) <= j
<1>1. \E m \in T : \A j \in T : ~ (<<j, m>> \in OpToRel(<, Nat))
  BY WFMin, NatLessThanWellFounded
<1>2. \A j, m \in Nat : j < m => <<j, m>> \in OpToRel(<, Nat)
  BY DEF OpToRel
<1>3. PICK m \in T : \A j \in T : ~ (<<j, m>> \in OpToRel(<, Nat))
  BY <1>1
<1>4. \A j \in T : m <= j
  <2> SUFFICES ASSUME NEW j \in T PROVE m <= j
    OBVIOUS
  <2>1. j \in Nat /\ m \in Nat /\ ~ (j < m)
    BY <1>2, <1>3
  <2> QED
    BY <2>1
<1>5. \E x \in T : \A y \in T : x <= y
  BY <1>4
<1> QED
  BY <1>5 DEF Min

\* The clear sectors up to and including s; FindAndSet gives s to the call of
\* this number.
UpTo(marked, s) == {r \in Clear(marked) : r <= s}

LEMMA SectorsFinite ==
  ASSUME NEW marked
  PROVE  IsFiniteSet(Clear(marked)) /\ Cardinality(Clear(marked)) \in Nat
<1>1. NumSectors \in Nat
  BY SynchDiskAssumption
<1>2. IsFiniteSet(Sectors)
  BY <1>1, FS_Interval DEF Sectors
<1>3. Clear(marked) \in SUBSET Sectors
  BY DEF Clear
<1>4. IsFiniteSet(Clear(marked))
  BY <1>2, <1>3, FS_Subset
<1> QED
  BY <1>4, FS_CardinalityType

LEMMA UpToCounts ==
  ASSUME NEW marked
  PROVE  /\ \A s \in Clear(marked) : Cardinality(UpTo(marked, s)) \in 1 .. Cardinality(Clear(marked))
         /\ \A s, t \in Clear(marked) :
              Cardinality(UpTo(marked, s)) = Cardinality(UpTo(marked, t)) => s = t
<1> DEFINE S == Clear(marked)
<1>1. IsFiniteSet(S) /\ Cardinality(S) \in Nat
  BY SectorsFinite
<1>2. \A s \in S : /\ IsFiniteSet(UpTo(marked, s))
                   /\ Cardinality(UpTo(marked, s)) <= Cardinality(S)
                   /\ Cardinality(UpTo(marked, s)) \in Nat
  <2> SUFFICES ASSUME NEW s \in S
               PROVE  /\ IsFiniteSet(UpTo(marked, s))
                      /\ Cardinality(UpTo(marked, s)) <= Cardinality(S)
                      /\ Cardinality(UpTo(marked, s)) \in Nat
    OBVIOUS
  <2>1. UpTo(marked, s) \in SUBSET S
    BY DEF UpTo
  <2> HIDE DEF S
  <2>2. IsFiniteSet(UpTo(marked, s)) /\ Cardinality(UpTo(marked, s)) <= Cardinality(S)
    BY <1>1, <2>1, FS_Subset
  <2> QED
    BY <2>2, FS_CardinalityType
<1>3. \A s \in S : Cardinality(UpTo(marked, s)) # 0
  <2> SUFFICES ASSUME NEW s \in S, Cardinality(UpTo(marked, s)) = 0 PROVE FALSE
    OBVIOUS
  <2>1. s \in UpTo(marked, s)
    BY DEF UpTo, Clear, Sectors
  <2>2. UpTo(marked, s) = {}
    BY <1>2, FS_EmptySet
  <2> QED
    BY <2>1, <2>2
<1>4. ASSUME NEW s \in S, NEW t \in S, s < t
      PROVE  Cardinality(UpTo(marked, s)) # Cardinality(UpTo(marked, t))
  <2>1. UpTo(marked, s) \in SUBSET UpTo(marked, t)
    BY <1>4 DEF UpTo, Clear, Sectors
  <2>2. t \in UpTo(marked, t) /\ t \notin UpTo(marked, s)
    BY <1>4 DEF UpTo, Clear, Sectors
  <2> QED
    BY <1>2, <2>1, <2>2, FS_Subset
<1>5. \A s, t \in S : s < t \/ t < s \/ s = t
  BY DEF Clear, Sectors
<1> HIDE DEF S
<1>6. \A s \in S : Cardinality(UpTo(marked, s)) \in 1 .. Cardinality(S)
  BY <1>1, <1>2, <1>3
<1>7. \A s, t \in S : Cardinality(UpTo(marked, s)) = Cardinality(UpTo(marked, t)) => s = t
  BY <1>4, <1>5
<1> QED
  BY <1>6, <1>7 DEF S

\* As many calls of FindAndSet as there are clear sectors find one each, and
\* no two the same (lib/bitmap.cc:110).
THEOREM FirstClearFinds ==
  ASSUME NEW marked, NEW n \in Nat, n <= Cardinality(Clear(marked))
  PROVE  /\ FirstClear(marked, n) \in Seq(Sectors) /\ DOMAIN FirstClear(marked, n) = 1 .. n
         /\ \A i \in 1 .. n : FirstClear(marked, n)[i] \in Clear(marked)
         /\ \A i, j \in 1 .. n : FirstClear(marked, n)[i] = FirstClear(marked, n)[j] => i = j
<1> DEFINE S == Clear(marked)
           N == Cardinality(S)
           r == [s \in S |-> Cardinality(UpTo(marked, s))]
           found == FirstClear(marked, n)
<1>1. IsFiniteSet(S) /\ N \in Nat
  BY SectorsFinite
<1>2. IsFiniteSet(1 .. N) /\ Cardinality(1 .. N) = N
  BY <1>1, FS_Interval
<1>3. r \in Injection(S, 1 .. N)
  BY UpToCounts DEF Injection, IsInjective
<1>4. r \in Surjection(S, 1 .. N)
  <2> HIDE DEF r, S
  <2> QED
    BY <1>1, <1>2, <1>3, FS_Injection
<1>5. \A i \in 1 .. N : \E s \in S : Cardinality(UpTo(marked, s)) = i
  BY <1>4 DEF Surjection
<1>6. \A i \in 1 .. n : \E s \in S : Cardinality(UpTo(marked, s)) = i
  BY <1>1, <1>5
<1>7. found = [i \in 1 .. n |-> CHOOSE s \in S : Cardinality(UpTo(marked, s)) = i]
  BY DEF FirstClear, UpTo
<1>8. \A i \in 1 .. n : found[i] \in S /\ Cardinality(UpTo(marked, found[i])) = i
  <2> HIDE DEF S
  <2> QED
    BY <1>6, <1>7
<1>9. DOMAIN found = 1 .. n
  BY <1>7
<1>10. found \in [1 .. n -> Sectors]
  <2>1. \A i \in 1 .. n : found[i] \in Sectors
    BY <1>8 DEF Clear
  <2>2. found = [i \in 1 .. n |-> found[i]]
    BY <1>7
  <2> HIDE DEF found
  <2> QED
    BY <2>1, <2>2
<1>11. found \in Seq(Sectors)
  BY <1>10
<1> QED
  BY <1>8, <1>9, <1>11

\* A header and its sectors are one more than the sectors.
LEMMA ProperCount ==
  ASSUME NEW hdr, NEW s, Proper(hdr, s)
  PROVE  Cardinality({s} \cup Range(hdr.sectors)) = 1 + Len(hdr.sectors)
<1> DEFINE q == hdr.sectors
           n == Len(q)
<1>1. q \in Seq(Sectors) /\ n \in Nat /\ DOMAIN q = 1 .. n
  BY DEF Proper, Header
<1>2. /\ s \notin Range(q)
      /\ \A i, j \in 1 .. n : q[i] = q[j] => i = j
  BY <1>1 DEF Proper
<1>3. Range(q) = {q[i] : i \in 1 .. n}
  BY <1>1 DEF Range
<1> HIDE DEF q, n
<1> DEFINE f == [i \in 1 .. n |-> q[i]]
<1>4. f \in Bijection(1 .. n, Range(q))
  BY <1>2, <1>3 DEF Bijection, Injection, IsInjective, Surjection
<1>5. IsFiniteSet(1 .. n) /\ Cardinality(1 .. n) = n
  BY <1>1, FS_Interval
<1>6. IsFiniteSet(Range(q)) /\ Cardinality(Range(q)) = n
  BY <1>4, <1>5, FS_Bijection DEF ExistsBijection
<1>7. Cardinality(Range(q) \cup {s}) = n + 1
  BY <1>2, <1>6, FS_AddElement
<1>8. Range(q) \cup {s} = {s} \cup Range(q)
  OBVIOUS
<1>9. Cardinality({s} \cup Range(q)) = Cardinality(Range(q) \cup {s})
  BY <1>8, Zenon
<1>10. Cardinality({s} \cup Range(q)) = 1 + n
  BY <1>1, <1>7, <1>9
<1> QED
  BY <1>10 DEF q, n

-----------------------------------------------------------------------------
(* The invariant *)

Shapes ==
  /\ DOMAIN disk = Sectors
  /\ Dir \in Tables
  /\ disk[MapData] \subseteq Sectors
  /\ DOMAIN mem = Proc
  /\ \A p \in Proc : DOMAIN mem[p] = DOMAIN NoLocals
  /\ DOMAIN file = Proc
  /\ DOMAIN written = Name

\* Create, Open and Remove run one at a time.
OneCall == \A p, q \in Proc : InFileSystem(p) /\ InFileSystem(q) => p = q

\* Files have proper headers, and neither a name nor a sector in common.
Layout ==
  /\ \A e \in Used : Proper(disk[Dir[e].sector], Dir[e].sector)
  /\ \A e, f \in Used : e # f => /\ Dir[e].name # Dir[f].name
                                 /\ Own(Dir[e].sector) \cap Own(Dir[f].sector) = {}

Half(e) == \E p \in Proc : InWindow(p) /\ mem[p].sector = Dir[e].sector

\* The map marks what the files own, but for the file in a window.
MapKept ==
  \A s \in Sectors :
    s \in disk[MapData] <=>
      s \in System \/ \E e \in Used : ~Half(e) /\ s \in Own(Dir[e].sector)

\* What d holds of the file whose header is h.
On(d, h) == [i \in DOMAIN h.sectors |-> d[h.sectors[i]]]

\* DataKept, entry by entry.
DataHeld == \A e \in Used : written[Dir[e].name] = On(disk, disk[Dir[e].sector])

\* The file that m names is in the directory, or is not.
Listed(m)   == \E e \in Used : Dir[e] = [name |-> m.name, sector |-> m.sector]
Unlisted(m) == m.name \in Name /\ \A e \in Used : Dir[e].name # m.name

\* m holds a file yet to be listed, in sectors that are clear on the disk, and
\* the map and the directory with it.
NewFile(m) ==
  /\ Unlisted(m)
  /\ Proper(m.hdr, m.sector)
  /\ disk[MapData] \cap ({m.sector} \cup Range(m.hdr.sectors)) = {}
  /\ m.map = disk[MapData] \cup {m.sector} \cup Range(m.hdr.sectors)
  /\ \E e \in Entries \ Used : m.table = [Dir EXCEPT ![e] = [name |-> m.name, sector |-> m.sector]]

\* Where p stands in its call: what it has read is what is on the disk still,
\* what it will write goes with what it has written.
Stands(p) ==
  LET m == mem[p]
      done == p \in waiting   \* the access is made
  IN /\ pc[p] = "none" => ~done
     /\ pc[p] \in {"createDir", "createMap"} => m.size \in Nat
     /\ pc[p] \in {"createDir", "removeDir", "openDir"} =>
          m.name \in Name /\ (done => m.table = Dir)
     /\ pc[p] = "createMap" =>
          Unlisted(m) /\ m.table = Dir /\ (done => m.map = disk[MapData])
     /\ pc[p] = "wCreateHdr" \/ (pc[p] = "wCreateDir" /\ ~done) => NewFile(m)
     /\ (pc[p] = "wCreateHdr" /\ done) \/ pc[p] \in {"wCreateDir", "wCreateMap"} =>
          disk[m.sector] = m.hdr
     /\ pc[p] = "wCreateDir" =>
          written[m.name] = [i \in DOMAIN m.hdr.sectors |-> disk[m.hdr.sectors[i]]]
     /\ (pc[p] = "wCreateDir" /\ done) \/ (pc[p] = "wCreateMap" /\ ~done) =>
          Listed(m) /\ m.map = disk[MapData] \cup Own(m.sector)
     /\ pc[p] \in {"removeHdr", "removeMap", "wRemoveMap"} \/ (pc[p] = "wRemoveDir" /\ ~done) =>
          Listed(m)
     /\ pc[p] \in {"removeHdr", "removeMap"} => m.table = Dir
     /\ (pc[p] = "removeHdr" /\ done) \/ pc[p] = "removeMap" => m.hdr = disk[m.sector]
     /\ pc[p] = "removeMap" /\ done => m.map = disk[MapData]
     /\ pc[p] = "wRemoveMap" /\ ~done => m.map = disk[MapData] \ Own(m.sector)
     /\ pc[p] = "wRemoveMap" \/ (pc[p] = "wRemoveDir" /\ ~done) =>
          m.table = Removed(Dir, m.name)

Standing == \A p \in Proc : Stands(p)

\* What holds of a disk that is not spoiled and of the calls in progress.
InOrder == Shapes /\ OneCall /\ Layout /\ MapKept /\ DataHeld /\ Standing

\* The sectors that write x is of, in the file of hdr.
Asked(x, hdr) ==
  /\ {x.first, x.last} \subseteq DOMAIN hdr.sectors
  /\ x.first <= x.last /\ x.at \in x.first .. x.last
  /\ DOMAIN x.buf \subseteq {x.first, x.last}

\* p reads what it will write in part, and writes when it has read that.
Covered(p) ==
  LET x == io[p]
  IN /\ pc[p] = "fill" => /\ x.at \in {x.first, x.last}
                          /\ p \in waiting => x.at \in DOMAIN x.buf
                          /\ NeedsFirst(x) => x.at = x.first \/ x.first \in DOMAIN x.buf
     /\ pc[p] = "write" => /\ x.lo # 0 => x.first \in DOMAIN x.buf
                           /\ x.hi # SectorSize - 1 => x.last \in DOMAIN x.buf

\* The sectors that p has read and not yet written: each is on the disk as p
\* has it, unless another has written it since.
ToWrite(p) ==
  {i \in DOMAIN io[p].buf : pc[p] = "fill" \/ i > io[p].at \/ (i = io[p].at /\ p \notin waiting)}

Fresh(p) ==
  \A i \in ToWrite(p) \ overtaken[p] : io[p].buf[i] = disk[ByteToSector(file[p].hdr, i)]

Filled(p) ==
  /\ DOMAIN io[p] = DOMAIN NoIO
  /\ pc[p] \in {"fill", "write"} /\ file[p].hdr \in Header =>
       Asked(io[p], file[p].hdr) /\ Covered(p) /\ Fresh(p)

Filling == DOMAIN io = Proc /\ DOMAIN overtaken = Proc /\ \A p \in Proc : Filled(p)

FSInv == RequestsSound /\ (~spoiled => InOrder /\ Filling)

LEMMA Constants ==
  /\ NumSectors \in Nat \ {0} /\ NumSectors > 4
  /\ System \subseteq Sectors /\ Sectors \subseteq Nat
  /\ FreeMapSector = 0 /\ DirectorySector = 1 /\ MapData = 2 /\ DirectoryData = 3
  /\ \A x \in Entry : x # NoEntry /\ x.name \in Name /\ x.sector \in Sectors
BY SynchDiskAssumption, FSAssumption
   DEF System, Sectors, FreeMapSector, DirectorySector, MapData, DirectoryData, Entry

\* An entry in use is a name and a sector.
LEMMA UsedEntry ==
  ASSUME Dir \in Tables, NEW e \in Used
  PROVE  e \in Entries /\ Dir[e] \in Entry /\ Dir[e].name \in Name /\ Dir[e].sector \in Sectors
BY DEF Tables, Used, Entry

LEMMA OrderInit == Init => InOrder
<1> SUFFICES ASSUME Init PROVE InOrder
  OBVIOUS
<1> USE Constants
<1>1. disk = Formatted
  BY DEF Init
<1>2. DOMAIN disk = Sectors /\ disk[MapData] = System /\ Dir = [e \in Entries |-> NoEntry]
  BY <1>1 DEF Formatted, Dir, System
<1>3. Used = {}
  BY <1>2 DEF Used
<1>4. Shapes
  BY <1>2 DEF Init, Shapes, Tables, NoLocals
<1>5. OneCall /\ Standing
  BY DEF Init, SynchInit, OneCall, InFileSystem, CreateLabels, RemoveLabels, OpenLabels, Standing, Stands
<1>6. Layout /\ DataHeld
  BY <1>3 DEF Layout, DataHeld
<1>7. MapKept
  BY <1>2, <1>3 DEF MapKept
<1> QED
  BY <1>4, <1>5, <1>6, <1>7 DEF InOrder

-----------------------------------------------------------------------------
(* Steps that leave the disk alone *)

LEMMA AtBegin ==
  ASSUME OneRequest, NEW p \in Proc, Begin(p) PROVE waiting = {} /\ waiting' = {p}
BY SynchDiskAssumption DEF OneRequest, Begin

LEMMA AtEnd ==
  ASSUME OneRequest, NEW p \in Proc, End(p) PROVE waiting = {p} /\ waiting' = {}
BY SynchDiskAssumption DEF OneRequest, End

\* A thread stands as it stood when nothing of its own and nothing on the disk
\* has changed.
LEMMA StandsStill ==
  ASSUME NEW q \in Proc, Stands(q), UNCHANGED <<disk, written>>,
         pc'[q] = pc[q], mem'[q] = mem[q], file'[q] = file[q],
         q \in waiting' <=> q \in waiting
  PROVE  Stands(q)'
<1>1. Dir' = Dir /\ Used' = Used /\ Own(mem[q].sector)' = Own(mem[q].sector)
  BY DEF Dir, Used, Own
<1>2. /\ Listed(mem[q])' <=> Listed(mem[q])
      /\ Unlisted(mem[q])' <=> Unlisted(mem[q])
      /\ NewFile(mem[q])' <=> NewFile(mem[q])
  BY <1>1 DEF Listed, Unlisted, NewFile
<1> QED
  BY <1>1, <1>2 DEF Stands

\* So does one outside of Create, Open and Remove, whatever else changes.
LEMMA OutsideStands ==
  ASSUME NEW q \in Proc, Stands(q), pc[q] \in {"none", "read", "fill", "write"},
         pc'[q] = pc[q], mem'[q] = mem[q], file'[q] = file[q],
         q \in waiting' => q \in waiting
  PROVE  Stands(q)'
BY DEF Stands

\* What a step of p that writes nothing has to see to.
LEMMA QuietStep ==
  ASSUME InOrder, UNCHANGED <<disk, written>>, NEW p \in Proc,
         DOMAIN mem' = Proc, DOMAIN mem'[p] = DOMAIN NoLocals, DOMAIN file' = Proc,
         \A q \in Proc \ {p} : /\ pc'[q] = pc[q] /\ mem'[q] = mem[q] /\ file'[q] = file[q]
                               /\ q \in waiting' <=> q \in waiting,
         InWindow(p)' <=> InWindow(p), InWindow(p) => mem'[p].sector = mem[p].sector,
         InFileSystem(p)' => InFileSystem(p) \/ \A q \in Proc : ~InFileSystem(q),
         Stands(p)'
  PROVE  InOrder'
<1>1. Dir' = Dir /\ Used' = Used /\ \A s : Own(s)' = Own(s)
  BY DEF Dir, Used, Own
<1>2. Shapes'
  BY <1>1 DEF InOrder, Shapes
<1>3. OneCall'
  <2>1. \A q \in Proc \ {p} : InFileSystem(q)' = InFileSystem(q)
    BY DEF InFileSystem
  <2> QED
    BY <2>1 DEF InOrder, OneCall
<1>4. Layout'
  BY <1>1 DEF InOrder, Layout
<1>5. MapKept'
  <2>1. \A q \in Proc : (InWindow(q)' <=> InWindow(q)) /\ (InWindow(q) => mem'[q].sector = mem[q].sector)
    BY DEF InWindow
  <2>2. \A e \in Used : Half(e)' <=> Half(e)
    BY <1>1, <2>1 DEF Half
  <2> QED
    BY <1>1, <2>2 DEF InOrder, MapKept
<1>6. DataHeld'
  BY <1>1, Zenon DEF InOrder, DataHeld
<1>7. Standing'
  <2> SUFFICES ASSUME NEW q \in Proc, q # p PROVE Stands(q)'
    BY DEF Standing
  <2> QED
    BY StandsStill DEF InOrder, Standing
<1> QED
  BY <1>2, <1>3, <1>4, <1>5, <1>6, <1>7 DEF InOrder

LEMMA CallOrder ==
  ASSUME InOrder, TypeOK, NEW p \in Proc, NEW n \in Name, NEW k \in Nat, NEW l,
         l \in {"createDir", "openDir", "removeDir"}, Enter(p, l, n, k)
  PROVE  InOrder'
<1>1. DOMAIN mem = Proc /\ DOMAIN mem[p] = DOMAIN NoLocals /\ DOMAIN file = Proc
  BY DEF InOrder, Shapes
<1>2. /\ mem'[p].name = n /\ mem'[p].size = k /\ pc'[p] = l
      /\ DOMAIN mem' = Proc /\ DOMAIN mem'[p] = DOMAIN NoLocals
      /\ UNCHANGED <<disk, written, waiting, file>>
  BY <1>1 DEF Enter, TypeOK, NoLocals, synchVars
<1>3. p \notin waiting'
  BY <1>2 DEF Enter, InOrder, Standing, Stands
<1>4. Stands(p)'
  BY <1>2, <1>3 DEF Stands
<1>5. ~InWindow(p) /\ ~InWindow(p)' /\ \A q \in Proc : ~InFileSystem(q)
  BY <1>2 DEF InWindow, Enter
<1>6. \A q \in Proc \ {p} : pc'[q] = pc[q] /\ mem'[q] = mem[q]
  BY <1>1 DEF Enter, TypeOK
<1> QED
  BY <1>1, <1>2, <1>4, <1>5, <1>6, QuietStep

LEMMA UseOrder ==
  ASSUME InOrder, TypeOK, NEW p \in Proc, pc[p] = "none",
         NEW l \in {"read", "fill", "write"}, NEW x, NEW i, Use(p, l, x, i)
  PROVE  InOrder'
<1>1. /\ DOMAIN mem = Proc /\ DOMAIN file = Proc
      /\ \A q \in Proc : DOMAIN mem[q] = DOMAIN NoLocals
  BY DEF InOrder, Shapes
<1>2. pc'[p] = l /\ UNCHANGED <<disk, written, waiting, mem, file>>
  BY DEF Use, TypeOK, synchVars
<1>3. Stands(p)'
  BY <1>2 DEF Stands
<1>4. ~InWindow(p) /\ ~InWindow(p)' /\ ~InFileSystem(p)'
  BY <1>2 DEF InWindow, InFileSystem, CreateLabels, RemoveLabels, OpenLabels
<1>5. \A q \in Proc \ {p} : pc'[q] = pc[q]
  BY DEF Use, TypeOK
<1> QED
  BY <1>1, <1>2, <1>3, <1>4, <1>5, QuietStep

LEMMA CloseOrder ==
  ASSUME InOrder, NEW p \in Proc, Close(p)
  PROVE  InOrder'
<1>1. DOMAIN mem = Proc /\ DOMAIN mem[p] = DOMAIN NoLocals /\ DOMAIN file = Proc
  BY DEF InOrder, Shapes
<1>2. Stands(p)'
  BY DEF Stands, Close, InOrder, Standing, synchVars
<1>3. ~InWindow(p) /\ ~InWindow(p)' /\ ~InFileSystem(p)'
  BY DEF InWindow, Close, InFileSystem, CreateLabels, RemoveLabels, OpenLabels
<1>4. \A q \in Proc \ {p} : file'[q] = file[q]
  BY <1>1 DEF Close
<1> QED
  BY <1>1, <1>2, <1>3, <1>4, QuietStep DEF Close, synchVars

\* A read of the directory, the map, a header or data.
LEMMA ReadOrder ==
  ASSUME InOrder, OneRequest, NEW p \in Proc, ReadAccess(p)
  PROVE  InOrder'
<1>1. DOMAIN mem = Proc /\ DOMAIN mem[p] = DOMAIN NoLocals /\ DOMAIN file = Proc
  BY DEF InOrder, Shapes
<1>2. waiting = {} /\ waiting' = {p} /\ UNCHANGED <<disk, pc, file, written>>
  BY AtBegin DEF ReadAccess
<1>3. DOMAIN mem' = Proc /\ DOMAIN mem'[p] = DOMAIN NoLocals /\ \A q \in Proc \ {p} : mem'[q] = mem[q]
  BY <1>1 DEF ReadAccess, NoLocals
<1>4. ~InWindow(p) /\ ~InWindow(p)' /\ (InFileSystem(p)' <=> InFileSystem(p))
  BY <1>2 DEF ReadAccess, InWindow, InFileSystem
<1>5. Stands(p)
  BY DEF InOrder, Standing
<1>6. Dir' = Dir /\ Used' = Used
  BY <1>2 DEF Dir, Used
<1>7. Stands(p)'
  <2>1. CASE pc[p] \in {"createDir", "removeDir", "openDir"}
    <3>1. mem'[p].table = Dir /\ mem'[p].name = mem[p].name /\ mem'[p].size = mem[p].size
      BY <1>1, <2>1 DEF ReadAccess, NoLocals, Dir
    <3> QED
      BY <1>2, <1>5, <1>6, <2>1, <3>1 DEF Stands
  <2>2. CASE pc[p] \in {"createMap", "removeMap"}
    <3>1. /\ mem'[p].map = disk[MapData] /\ mem'[p].name = mem[p].name /\ mem'[p].size = mem[p].size
          /\ mem'[p].table = mem[p].table /\ mem'[p].hdr = mem[p].hdr /\ mem'[p].sector = mem[p].sector
      BY <1>1, <2>2 DEF ReadAccess, NoLocals
    <3> QED
      BY <1>2, <1>5, <1>6, <2>2, <3>1 DEF Stands, Unlisted, Listed
  <2>3. CASE pc[p] \in {"removeHdr", "openHdr"}
    <3>1. /\ mem'[p].hdr = disk[mem[p].sector] /\ mem'[p].name = mem[p].name
          /\ mem'[p].table = mem[p].table /\ mem'[p].sector = mem[p].sector
      BY <1>1, <2>3 DEF ReadAccess, NoLocals
    <3> QED
      BY <1>2, <1>5, <1>6, <2>3, <3>1 DEF Stands, Listed
  <2>4. CASE pc[p] \in {"read", "fill"}
    BY <1>2, <2>4 DEF Stands
  <2> QED
    BY <2>1, <2>2, <2>3, <2>4 DEF ReadAccess
<1> QED
  BY <1>1, <1>2, <1>3, <1>4, <1>7, QuietStep

-----------------------------------------------------------------------------
(* What follows an access *)

LEMMA GotoEffect ==
  ASSUME Shapes, TypeOK, NEW p \in Proc, NEW l, NEW m, Goto(p, l, m)
  PROVE  /\ DOMAIN mem' = Proc /\ mem'[p] = m /\ pc'[p] = l
         /\ \A q \in Proc \ {p} : mem'[q] = mem[q] /\ pc'[q] = pc[q]
BY DEF Shapes, TypeOK, Goto

LEMMA ResumeQuiet ==
  ASSUME InOrder, TypeOK, OneRequest, NEW p \in Proc, End(p), UNCHANGED <<disk, written>>,
         NEW l, NEW m, Goto(p, l, m), DOMAIN m = DOMAIN NoLocals,
         DOMAIN file' = Proc, \A q \in Proc \ {p} : file'[q] = file[q],
         InWindow(p) <=> l \in {"wCreateMap", "wRemoveDir"},
         InWindow(p) => m.sector = mem[p].sector,
         l \in CreateLabels \cup RemoveLabels \cup OpenLabels => InFileSystem(p),
         Stands(p)'
  PROVE  InOrder'
<1>1. /\ DOMAIN mem' = Proc /\ mem'[p] = m /\ pc'[p] = l
      /\ \A q \in Proc \ {p} : mem'[q] = mem[q] /\ pc'[q] = pc[q]
  BY GotoEffect DEF InOrder
<1>2. waiting = {p} /\ waiting' = {}
  BY AtEnd
<1>3. InWindow(p)' <=> InWindow(p)
  BY <1>1, <1>2 DEF InWindow
<1>4. InFileSystem(p)' => InFileSystem(p)
  BY <1>1 DEF InFileSystem
<1> QED
  BY <1>1, <1>2, <1>3, <1>4, QuietStep

\* A call that returns leaves nothing behind, unless it is in a window.
LEMMA ReturnOrder ==
  ASSUME InOrder, TypeOK, OneRequest, NEW p \in Proc, End(p), UNCHANGED <<disk, written>>,
         Return(p), DOMAIN file' = Proc, \A q \in Proc \ {p} : file'[q] = file[q],
         pc[p] \notin {"wCreateDir", "wRemoveMap"}
  PROVE  InOrder'
<1>1. waiting = {p} /\ waiting' = {}
  BY AtEnd
<1>2. pc'[p] = "none"
  BY GotoEffect DEF InOrder, Return
<1>3. Stands(p)'
  BY <1>1, <1>2 DEF Stands
<1>4. ~InWindow(p)
  BY <1>1 DEF InWindow
<1> QED
  BY <1>3, <1>4, ResumeQuiet DEF Return, CreateLabels, RemoveLabels, OpenLabels

\* The sectors a Create takes are clear, so they are none of the system's.
LEMMA AllocateProper ==
  ASSUME NEW marked, System \subseteq marked, Clear(marked) # {},
         NEW k \in Nat, k <= Cardinality(Clear(marked)) - 1
  PROVE  LET h   == Min(Clear(marked))
             hdr == Allocate(marked, h, k)
         IN Proper(hdr, h) /\ marked \cap ({h} \cup Range(hdr.sectors)) = {}
<1> DEFINE h   == Min(Clear(marked))
           hdr == Allocate(marked, h, k)
           S   == Clear(marked)
           S2  == Clear(marked \cup {h})
<1>1. h \in S /\ S \subseteq Sectors /\ h \notin marked
  BY Constants, MinLeast DEF Clear
<1>2. S2 = S \ {h}
  BY DEF Clear
<1>3. Cardinality(S2) = Cardinality(S) - 1 /\ Cardinality(S) \in Nat
  <2>1. IsFiniteSet(S) /\ Cardinality(S) \in Nat
    BY SectorsFinite
  <2>2. Cardinality(S \ {h}) = Cardinality(S) - 1
    BY <1>1, <2>1, FS_RemoveElement
  <2>3. Cardinality(S2) = Cardinality(S \ {h})
    BY <1>2, Zenon
  <2> QED
    BY <2>1, <2>2, <2>3
<1>4. k <= Cardinality(S2)
  BY <1>3
<1> DEFINE q == FirstClear(marked \cup {h}, k)
<1>5. /\ q \in Seq(Sectors) /\ DOMAIN q = 1 .. k
      /\ \A i \in 1 .. k : q[i] \in S2
      /\ \A i, j \in 1 .. k : q[i] = q[j] => i = j
  BY <1>4, FirstClearFinds
<1>6. hdr.sectors = q /\ hdr \in Header
  BY <1>5 DEF Allocate, Header
<1>7. Range(q) \subseteq S2
  BY <1>5 DEF Range
<1> HIDE DEF hdr, q, h
<1>8. Proper(hdr, h)
  BY <1>1, <1>2, <1>5, <1>6, <1>7 DEF Proper, Clear
<1>9. marked \cap ({h} \cup Range(hdr.sectors)) = {}
  BY <1>1, <1>2, <1>6, <1>7 DEF Clear
<1> QED
  BY <1>8, <1>9 DEF hdr, h

LEMMA SystemMarked ==
  ASSUME InOrder PROVE System \subseteq disk[MapData]
BY Constants DEF InOrder, MapKept

LEMMA CreateMapOrder ==
  ASSUME InOrder, TypeOK, OneRequest, NEW p \in Proc, End(p), UNCHANGED disk, AfterCreateMap(p)
  PROVE  InOrder'
<1> DEFINE m == mem[p]
<1>1. waiting = {p} /\ waiting' = {} /\ DOMAIN file = Proc /\ DOMAIN m = DOMAIN NoLocals
  BY AtEnd DEF InOrder, Shapes
<1>2. pc[p] = "createMap" /\ UNCHANGED <<disk, written, file>>
  BY DEF AfterCreateMap
<1>3. CASE ~Fits(m)
  BY <1>1, <1>2, <1>3, ReturnOrder DEF AfterCreateMap
<1>4. CASE Fits(m)
  <2> DEFINE h   == Min(Clear(m.map))
             hdr == Allocate(m.map, h, m.size)
             new == [m EXCEPT !.sector = h, !.hdr = hdr,
                              !.map = @ \cup {h} \cup Range(hdr.sectors),
                              !.table = Added(@, m.name, h)]
             e   == Min(FreeEntries(Dir))
  <2>1. Goto(p, "wCreateHdr", new)
    BY <1>4 DEF AfterCreateMap
  <2>2. Unlisted(m) /\ m.table = Dir /\ m.map = disk[MapData] /\ m.size \in Nat
    BY <1>1, <1>2 DEF InOrder, Standing, Stands
  <2>3. Proper(hdr, h) /\ disk[MapData] \cap ({h} \cup Range(hdr.sectors)) = {}
    BY <1>4, <2>2, SystemMarked, AllocateProper DEF Fits
  <2>4. e \in Entries \ Used
    <3>1. FreeEntries(Dir) \subseteq Nat /\ FreeEntries(Dir) # {}
      BY <1>4, <2>2 DEF Fits, FreeEntries, Entries
    <3>2. e \in FreeEntries(Dir)
      BY <3>1, MinLeast
    <3> QED
      BY <3>2 DEF FreeEntries, Used
  <2>5. Added(m.table, m.name, h) = [Dir EXCEPT ![e] = [name |-> m.name, sector |-> h]]
    BY <2>2 DEF Added
  <2> HIDE DEF h, hdr, e
  <2>6. /\ new.name = m.name /\ new.sector = h /\ new.hdr = hdr
        /\ new.map = disk[MapData] \cup {h} \cup Range(hdr.sectors)
        /\ new.table = [Dir EXCEPT ![e] = [name |-> m.name, sector |-> h]]
        /\ DOMAIN new = DOMAIN NoLocals
    BY <1>1, <2>2, <2>5 DEF NoLocals
  <2> HIDE DEF new
  <2>7. NewFile(new)
    BY <2>2, <2>3, <2>4, <2>6 DEF NewFile, Unlisted
  <2>8. Dir' = Dir /\ Used' = Used
    BY <1>2 DEF Dir, Used
  <2>9. pc'[p] = "wCreateHdr" /\ mem'[p] = new
    BY <2>1, GotoEffect DEF InOrder
  <2>10. Stands(p)'
    <3>1. NewFile(mem[p])'
      BY <1>2, <2>7, <2>8, <2>9 DEF NewFile, Unlisted
    <3> QED
      BY <1>1, <2>9, <3>1 DEF Stands
  <2>11. ~InWindow(p) /\ InFileSystem(p)
    BY <1>2 DEF InWindow, InFileSystem, CreateLabels
  <2> QED
    BY <1>1, <1>2, <2>1, <2>6, <2>10, <2>11, ResumeQuiet
<1> QED
  BY <1>3, <1>4

\* What Find says of a name is what the directory has.
LEMMA FindsListed ==
  ASSUME Dir \in Tables, NEW n, Holding(Dir, n) # {}
  PROVE  \E e \in Used : Dir[e] = [name |-> n, sector |-> SectorOf(Dir, n)]
<1> DEFINE e == CHOOSE e \in Holding(Dir, n) : TRUE
<1>1. e \in Holding(Dir, n)
  OBVIOUS
<1>2. e \in Used /\ Dir[e].name = n /\ SectorOf(Dir, n) = Dir[e].sector
  BY <1>1 DEF Holding, Used, SectorOf
<1>3. Dir[e] \in Entry
  BY <1>2, UsedEntry
<1> HIDE DEF e
<1>4. Dir[e] = [name |-> n, sector |-> SectorOf(Dir, n)]
  BY <1>2, <1>3 DEF Entry
<1> QED
  BY <1>2, <1>4

LEMMA CreateDirOrder ==
  ASSUME InOrder, TypeOK, OneRequest, NEW p \in Proc, End(p), UNCHANGED disk, AfterCreateDir(p)
  PROVE  InOrder'
<1> DEFINE m == mem[p]
<1>1. waiting = {p} /\ waiting' = {} /\ DOMAIN file = Proc /\ DOMAIN m = DOMAIN NoLocals
  BY AtEnd DEF InOrder, Shapes
<1>2. pc[p] = "createDir" /\ UNCHANGED <<disk, written, file>>
  BY DEF AfterCreateDir
<1>3. CASE Holding(m.table, m.name) # {}
  BY <1>1, <1>2, <1>3, ReturnOrder DEF AfterCreateDir
<1>4. CASE Holding(m.table, m.name) = {}
  <2>1. Goto(p, "createMap", m)
    BY <1>4 DEF AfterCreateDir
  <2>2. m.table = Dir /\ m.name \in Name /\ m.size \in Nat
    BY <1>1, <1>2 DEF InOrder, Standing, Stands
  <2>3. Unlisted(m)
    BY <1>4, <2>2 DEF Unlisted, Holding, Used
  <2>4. pc'[p] = "createMap" /\ mem'[p] = m /\ Dir' = Dir /\ Used' = Used
    BY <1>2, <2>1, GotoEffect DEF InOrder, Dir, Used
  <2>5. Stands(p)'
    BY <1>1, <2>2, <2>3, <2>4 DEF Stands, Unlisted
  <2>6. ~InWindow(p) /\ InFileSystem(p)
    BY <1>2 DEF InWindow, InFileSystem, CreateLabels
  <2> QED
    BY <1>1, <1>2, <2>1, <2>5, <2>6, ResumeQuiet
<1> QED
  BY <1>3, <1>4

\* The header of a new file is on the disk: from now on it holds what its
\* sectors hold.
LEMMA CreateHeaderOrder ==
  ASSUME InOrder, TypeOK, OneRequest, NEW p \in Proc, End(p), UNCHANGED disk,
         pc[p] = "wCreateHdr", AfterCreateWrite(p)
  PROVE  InOrder'
<1> DEFINE m == mem[p]
<1>1. waiting = {p} /\ waiting' = {}
  BY AtEnd
<1>2. /\ UNCHANGED file /\ Goto(p, "wCreateDir", m)
      /\ written' = [written EXCEPT ![m.name] = [i \in DOMAIN m.hdr.sectors |-> disk[m.hdr.sectors[i]]]]
  BY DEF AfterCreateWrite
<1>3. /\ pc'[p] = "wCreateDir" /\ DOMAIN mem' = Proc /\ mem'[p] = m
      /\ \A q \in Proc \ {p} : mem'[q] = mem[q] /\ pc'[q] = pc[q]
  BY <1>2, GotoEffect DEF InOrder
<1>4. Dir' = Dir /\ Used' = Used /\ \A s : Own(s)' = Own(s)
  BY DEF Dir, Used, Own
<1>5. NewFile(m) /\ disk[m.sector] = m.hdr /\ m.name \in Name
  BY <1>1 DEF InOrder, Standing, Stands, NewFile, Unlisted
<1>6. \A n \in Name : n # m.name => written'[n] = written[n]
  BY <1>2 DEF InOrder, Shapes
<1>7. written'[m.name] = [i \in DOMAIN m.hdr.sectors |-> disk[m.hdr.sectors[i]]]
  BY <1>2, <1>5 DEF InOrder, Shapes
<1>8. Shapes'
  BY <1>2, <1>3, <1>4 DEF InOrder, Shapes
<1>9. OneCall'
  <2>1. \A q \in Proc : InFileSystem(q)' => InFileSystem(q)
    BY <1>3 DEF InFileSystem, CreateLabels
  <2> QED
    BY <2>1 DEF InOrder, OneCall
<1>10. Layout'
  BY <1>4 DEF InOrder, Layout
<1>11. MapKept'
  <2>1. \A q \in Proc : ~InWindow(q)
    BY <1>1 DEF InWindow, InOrder, OneCall, InFileSystem, CreateLabels, RemoveLabels
  <2>2. \A q \in Proc : ~InWindow(q)'
    BY <1>1, <1>3, <2>1 DEF InWindow, InOrder, OneCall, InFileSystem, CreateLabels, RemoveLabels
  <2> QED
    BY <1>4, <2>1, <2>2 DEF InOrder, MapKept, Half
<1>12. DataHeld'
  <2> SUFFICES ASSUME NEW e \in Used
               PROVE  written'[Dir[e].name] = On(disk, disk[Dir[e].sector])
    BY <1>4, Zenon DEF DataHeld
  <2>1. Dir[e].name # m.name /\ Dir[e].name \in Name
    BY <1>5, UsedEntry DEF NewFile, Unlisted, InOrder, Shapes
  <2> QED
    BY <1>6, <2>1 DEF InOrder, DataHeld
<1>13. Standing'
  <2>1. Stands(p)'
    BY <1>1, <1>3, <1>4, <1>5, <1>7 DEF Stands, NewFile, Unlisted
  <2>2. ASSUME NEW q \in Proc, q # p PROVE Stands(q)'
    <3>1. InFileSystem(p)
      BY DEF InFileSystem, CreateLabels
    <3>2. ~InFileSystem(q)
      BY <2>2, <3>1 DEF InOrder, OneCall
    <3>3. pc[q] \in {"none", "read", "fill", "write"}
      BY <3>2 DEF TypeOK, Labels, InFileSystem
    <3> QED
      BY <1>1, <1>2, <1>3, <2>2, <3>3, OutsideStands DEF InOrder, Standing
  <2> QED
    BY <2>1, <2>2 DEF Standing
<1> QED
  BY <1>8, <1>9, <1>10, <1>11, <1>12, <1>13 DEF InOrder

LEMMA CreateWriteOrder ==
  ASSUME InOrder, TypeOK, OneRequest, NEW p \in Proc, End(p), UNCHANGED disk, AfterCreateWrite(p)
  PROVE  InOrder'
<1> DEFINE m == mem[p]
<1>1. waiting = {p} /\ waiting' = {} /\ DOMAIN file = Proc /\ DOMAIN m = DOMAIN NoLocals
  BY AtEnd DEF InOrder, Shapes
<1>2. CASE pc[p] = "wCreateHdr"
  BY <1>2, CreateHeaderOrder
<1>3. CASE pc[p] = "wCreateDir"
  <2>1. Goto(p, "wCreateMap", m) /\ UNCHANGED <<written, file>>
    BY <1>3 DEF AfterCreateWrite
  <2>2. pc'[p] = "wCreateMap" /\ mem'[p] = m /\ Dir' = Dir /\ Used' = Used /\ \A s : Own(s)' = Own(s)
    BY <2>1, GotoEffect DEF InOrder, Dir, Used, Own
  <2>3. Stands(p)
    BY DEF InOrder, Standing
  <2>4. Stands(p)'
    BY <1>1, <1>3, <2>2, <2>3 DEF Stands, Listed
  <2>5. InWindow(p) /\ InFileSystem(p)
    BY <1>1, <1>3 DEF InWindow, InFileSystem, CreateLabels
  <2> QED
    BY <1>1, <2>1, <2>4, <2>5, ResumeQuiet
<1>4. CASE pc[p] = "wCreateMap"
  BY <1>1, <1>4, ReturnOrder DEF AfterCreateWrite
<1> QED
  BY <1>2, <1>3, <1>4 DEF AfterCreateWrite

LEMMA RemoveReadOrder ==
  ASSUME InOrder, TypeOK, OneRequest, NEW p \in Proc, End(p), UNCHANGED disk, AfterRemoveRead(p)
  PROVE  InOrder'
<1> DEFINE m == mem[p]
<1>1. waiting = {p} /\ waiting' = {} /\ DOMAIN file = Proc /\ DOMAIN m = DOMAIN NoLocals
  BY AtEnd DEF InOrder, Shapes
<1>2. UNCHANGED <<disk, written, file>> /\ Dir' = Dir /\ Used' = Used /\ \A s : Own(s)' = Own(s)
  BY DEF AfterRemoveRead, Dir, Used, Own
<1>3. Stands(p)
  BY DEF InOrder, Standing
<1>4. pc[p] \in RemoveLabels => InFileSystem(p)
  BY DEF InFileSystem
<1>5. CASE pc[p] = "removeDir" /\ Holding(m.table, m.name) = {}
  BY <1>1, <1>2, <1>5, ReturnOrder DEF AfterRemoveRead
<1>6. CASE pc[p] = "removeDir" /\ Holding(m.table, m.name) # {}
  <2> DEFINE new == [m EXCEPT !.sector = SectorOf(m.table, m.name)]
  <2>1. Goto(p, "removeHdr", new)
    BY <1>6 DEF AfterRemoveRead
  <2>2. m.table = Dir
    BY <1>1, <1>3, <1>6 DEF Stands
  <2>3. new.name = m.name /\ new.sector = SectorOf(Dir, m.name) /\ new.table = Dir /\ DOMAIN new = DOMAIN NoLocals
    BY <1>1, <2>2 DEF NoLocals
  <2>4. Listed(new)
    BY <1>6, <2>2, <2>3, FindsListed DEF Listed, Used, InOrder, Shapes
  <2> HIDE DEF new
  <2>5. pc'[p] = "removeHdr" /\ mem'[p] = new
    BY <2>1, GotoEffect DEF InOrder
  <2>6. Stands(p)'
    BY <1>1, <1>2, <2>3, <2>4, <2>5 DEF Stands, Listed
  <2> QED
    BY <1>1, <1>2, <1>4, <1>6, <2>1, <2>3, <2>6, ResumeQuiet DEF InWindow, RemoveLabels
<1>7. CASE pc[p] = "removeHdr"
  <2>1. Goto(p, "removeMap", m)
    BY <1>7 DEF AfterRemoveRead
  <2>2. pc'[p] = "removeMap" /\ mem'[p] = m
    BY <2>1, GotoEffect DEF InOrder
  <2>3. Stands(p)'
    BY <1>1, <1>2, <1>3, <1>7, <2>2 DEF Stands, Listed
  <2> QED
    BY <1>1, <1>2, <1>4, <1>7, <2>1, <2>3, ResumeQuiet DEF InWindow, RemoveLabels
<1>8. CASE pc[p] = "removeMap"
  <2> DEFINE new == [m EXCEPT !.map = Freed(@, m.sector, m.hdr), !.table = Removed(@, m.name)]
  <2>1. Goto(p, "wRemoveMap", new)
    BY <1>8 DEF AfterRemoveRead
  <2>2. m.table = Dir /\ m.hdr = disk[m.sector] /\ m.map = disk[MapData] /\ Listed(m)
    BY <1>1, <1>3, <1>8 DEF Stands
  <2>3. /\ new.name = m.name /\ new.sector = m.sector /\ DOMAIN new = DOMAIN NoLocals
        /\ new.table = Removed(m.table, m.name) /\ new.map = Freed(m.map, m.sector, m.hdr)
    BY <1>1 DEF NoLocals
  <2>4. new.table = Removed(Dir, m.name) /\ new.map = disk[MapData] \ Own(m.sector)
    BY <2>2, <2>3 DEF Freed, Own
  <2> HIDE DEF new
  <2>5. pc'[p] = "wRemoveMap" /\ mem'[p] = new
    BY <2>1, GotoEffect DEF InOrder
  <2>6. Stands(p)'
    BY <1>1, <1>2, <2>2, <2>3, <2>4, <2>5 DEF Stands, Listed, Removed, Holding
  <2> QED
    BY <1>1, <1>2, <1>4, <1>8, <2>1, <2>3, <2>6, ResumeQuiet DEF InWindow, RemoveLabels
<1> QED
  BY <1>5, <1>6, <1>7, <1>8 DEF AfterRemoveRead

LEMMA RemoveWriteOrder ==
  ASSUME InOrder, TypeOK, OneRequest, NEW p \in Proc, End(p), UNCHANGED disk, AfterRemoveWrite(p)
  PROVE  InOrder'
<1> DEFINE m == mem[p]
<1>1. waiting = {p} /\ waiting' = {} /\ DOMAIN file = Proc /\ DOMAIN m = DOMAIN NoLocals
  BY AtEnd DEF InOrder, Shapes
<1>2. UNCHANGED <<disk, written, file>> /\ Dir' = Dir /\ Used' = Used
  BY DEF AfterRemoveWrite, Dir, Used
<1>3. CASE pc[p] = "wRemoveMap"
  <2>1. Goto(p, "wRemoveDir", m)
    BY <1>3 DEF AfterRemoveWrite
  <2>2. pc'[p] = "wRemoveDir" /\ mem'[p] = m
    BY <2>1, GotoEffect DEF InOrder
  <2>3. Listed(m) /\ m.table = Removed(Dir, m.name)
    BY <1>1, <1>3 DEF InOrder, Standing, Stands
  <2>4. Stands(p)'
    BY <1>1, <1>2, <2>2, <2>3 DEF Stands, Listed, Removed, Holding
  <2>5. InWindow(p) /\ InFileSystem(p)
    BY <1>1, <1>3 DEF InWindow, InFileSystem, RemoveLabels
  <2> QED
    BY <1>1, <1>2, <2>1, <2>4, <2>5, ResumeQuiet
<1>4. CASE pc[p] = "wRemoveDir"
  BY <1>1, <1>2, <1>4, ReturnOrder DEF AfterRemoveWrite
<1> QED
  BY <1>3, <1>4 DEF AfterRemoveWrite

LEMMA OpenOrder ==
  ASSUME InOrder, TypeOK, OneRequest, NEW p \in Proc, End(p), UNCHANGED disk, AfterOpen(p)
  PROVE  InOrder'
<1> DEFINE m == mem[p]
<1>1. waiting = {p} /\ waiting' = {} /\ DOMAIN file = Proc /\ DOMAIN m = DOMAIN NoLocals
  BY AtEnd DEF InOrder, Shapes
<1>2. UNCHANGED <<disk, written>>
  BY DEF AfterOpen
<1>3. CASE pc[p] = "openDir" /\ Holding(m.table, m.name) = {}
  BY <1>1, <1>2, <1>3, ReturnOrder DEF AfterOpen
<1>4. CASE pc[p] = "openDir" /\ Holding(m.table, m.name) # {}
  <2> DEFINE new == [m EXCEPT !.sector = SectorOf(m.table, m.name)]
  <2>1. Goto(p, "openHdr", new) /\ UNCHANGED file
    BY <1>4 DEF AfterOpen
  <2>2. DOMAIN new = DOMAIN NoLocals
    BY <1>1
  <2> HIDE DEF new
  <2>3. pc'[p] = "openHdr"
    BY <2>1, GotoEffect DEF InOrder
  <2>4. Stands(p)'
    BY <1>1, <2>3 DEF Stands
  <2> QED
    BY <1>1, <1>2, <1>4, <2>1, <2>2, <2>4, ResumeQuiet DEF InWindow, InFileSystem, OpenLabels
<1>5. CASE pc[p] = "openHdr"
  <2>1. Return(p) /\ DOMAIN file' = Proc /\ \A q \in Proc \ {p} : file'[q] = file[q]
    BY <1>1, <1>5 DEF AfterOpen
  <2> QED
    BY <1>2, <1>5, <2>1, ReturnOrder
<1> QED
  BY <1>3, <1>4, <1>5 DEF AfterOpen

\* The next sector of a ReadAt or a WriteAt, or the end of it.
LEMMA UseGoesOn ==
  ASSUME TypeOK, NEW p \in Proc, AfterUse(p)
  PROVE  /\ pc'[p] \in {"none", "read", "fill", "write"} /\ UNCHANGED <<mem, file, written>>
         /\ \A q \in Proc \ {p} : pc'[q] = pc[q]
         /\ pc[p] \in {"read", "fill", "write"}
BY DEF TypeOK, AfterUse, Continue

LEMMA AfterUseOrder ==
  ASSUME InOrder, TypeOK, OneRequest, NEW p \in Proc, End(p), UNCHANGED disk, AfterUse(p)
  PROVE  InOrder'
<1>1. /\ DOMAIN mem = Proc /\ DOMAIN file = Proc
      /\ \A q \in Proc : DOMAIN mem[q] = DOMAIN NoLocals
  BY DEF InOrder, Shapes
<1>2. waiting = {p} /\ waiting' = {}
  BY AtEnd
<1>3. /\ pc'[p] \in {"none", "read", "fill", "write"} /\ UNCHANGED <<mem, file, written>>
      /\ \A q \in Proc \ {p} : pc'[q] = pc[q]
      /\ pc[p] \in {"read", "fill", "write"}
  BY UseGoesOn
<1>4. Stands(p)'
  BY <1>2, <1>3 DEF Stands
<1>5. ~InWindow(p) /\ ~InWindow(p)' /\ ~InFileSystem(p)'
  BY <1>3 DEF InWindow, InFileSystem, CreateLabels, RemoveLabels, OpenLabels
<1> QED
  BY <1>1, <1>2, <1>3, <1>4, <1>5, QuietStep

LEMMA ResumeOrder ==
  ASSUME InOrder, TypeOK, OneRequest, NEW p \in Proc, Resume(p)
  PROVE  InOrder'
<1>1. End(p) /\ UNCHANGED disk
  BY DEF Resume
<1>2. CASE AfterUse(p)
  BY <1>1, <1>2, AfterUseOrder
<1> QED
  BY <1>1, <1>2, CreateDirOrder, CreateMapOrder, CreateWriteOrder, RemoveReadOrder, RemoveWriteOrder,
     OpenOrder DEF Resume

-----------------------------------------------------------------------------
(* Writes *)

\* Only a Create or a Remove is in a window, and there is one of them.
LEMMA OthersOutside ==
  ASSUME InOrder, TypeOK, NEW p \in Proc, InFileSystem(p)
  PROVE  \A q \in Proc \ {p} : pc[q] \in {"none", "read", "fill", "write"} /\ ~InWindow(q)
<1> SUFFICES ASSUME NEW q \in Proc \ {p} PROVE pc[q] \in {"none", "read", "fill", "write"}
  BY DEF InWindow
<1>1. ~InFileSystem(q)
  BY DEF InOrder, OneCall
<1> QED
  BY <1>1 DEF TypeOK, Labels, InFileSystem

\* What a write in a Create or a Remove leaves to show.
LEMMA WriteOrder ==
  ASSUME InOrder, TypeOK, NEW p \in Proc, InFileSystem(p), waiting = {}, waiting' = {p},
         UNCHANGED <<pc, mem, file, written>>,
         DOMAIN disk' = Sectors, Dir' \in Tables, disk'[MapData] \subseteq Sectors,
         Layout', MapKept', DataHeld', Stands(p)'
  PROVE  InOrder'
<1>1. Shapes'
  BY DEF InOrder, Shapes
<1>2. OneCall'
  BY DEF InOrder, OneCall, InFileSystem
<1>3. Standing'
  <2> SUFFICES ASSUME NEW q \in Proc, q # p PROVE Stands(q)'
    BY DEF Standing
  <2> QED
    BY OthersOutside, OutsideStands DEF InOrder, Standing
<1> QED
  BY <1>1, <1>2, <1>3 DEF InOrder

\* What a file has when nobody is in a window is marked.
LEMMA OwnMarked ==
  ASSUME InOrder, NEW e \in Used, ~Half(e)
  PROVE  Own(Dir[e].sector) \subseteq disk[MapData] /\ Own(Dir[e].sector) \subseteq Sectors \ System
<1>1. Proper(disk[Dir[e].sector], Dir[e].sector)
  BY DEF InOrder, Layout
<1>2. Own(Dir[e].sector) \subseteq Sectors \ System
  BY <1>1 DEF Proper, Header, Own, Range
<1> QED
  BY <1>2 DEF InOrder, MapKept

\* No file has a sector of the system's.
LEMMA FilesSectors ==
  ASSUME InOrder
  PROVE  \A e \in Used : /\ Dir[e].sector \in Sectors \ System
                         /\ Range(disk[Dir[e].sector].sectors) \subseteq Sectors \ System
<1> SUFFICES ASSUME NEW e \in Used
             PROVE  /\ Dir[e].sector \in Sectors \ System
                    /\ Range(disk[Dir[e].sector].sectors) \subseteq Sectors \ System
  OBVIOUS
<1>1. Proper(disk[Dir[e].sector], Dir[e].sector)
  BY DEF InOrder, Layout
<1>2. Range(disk[Dir[e].sector].sectors) \subseteq Sectors
  BY <1>1 DEF Proper, Header, Range
<1> QED
  BY <1>1, <1>2 DEF Proper

\* A write to a sector that is neither the system's nor a file's header.
LEMMA Elsewhere ==
  ASSUME InOrder, NEW s \in Sectors \ System, NEW x, disk' = [disk EXCEPT ![s] = x],
         \A e \in Used : Dir[e].sector # s
  PROVE  /\ DOMAIN disk' = Sectors /\ Dir' = Dir /\ Used' = Used /\ disk'[MapData] = disk[MapData]
         /\ \A e \in Used : disk'[Dir[e].sector] = disk[Dir[e].sector]
         /\ \A e \in Used : Own(Dir[e].sector)' = Own(Dir[e].sector)
         /\ Layout'
<1>1. DOMAIN disk = Sectors /\ disk'[s] = x /\ DOMAIN disk' = Sectors
      /\ \A r \in Sectors : r # s => disk'[r] = disk[r]
  BY DEF InOrder, Shapes
<1>2. MapData \in System /\ DirectoryData \in System /\ System \subseteq Sectors
  BY Constants DEF System
<1>3. Dir' = Dir /\ disk'[MapData] = disk[MapData]
  BY <1>1, <1>2 DEF Dir
<1>4. Used' = Used
  BY <1>3 DEF Used
<1>5. \A e \in Used : Dir[e].sector \in Sectors
  BY UsedEntry DEF InOrder, Shapes
<1>6. \A e \in Used : disk'[Dir[e].sector] = disk[Dir[e].sector]
  BY <1>1, <1>5
<1>7. \A e \in Used : Own(Dir[e].sector)' = Own(Dir[e].sector)
  BY <1>3, <1>6 DEF Own
<1>8. Layout'
  BY <1>3, <1>4, <1>6, <1>7 DEF InOrder, Layout
<1> QED
  BY <1>1, <1>3, <1>4, <1>6, <1>7, <1>8

\* A write of the map or of the directory.
LEMMA SystemWrite ==
  ASSUME InOrder, NEW z \in {MapData, DirectoryData}, NEW x, disk' = [disk EXCEPT ![z] = x]
  PROVE  /\ DOMAIN disk' = Sectors /\ disk'[z] = x
         /\ \A s \in Sectors : s # z => disk'[s] = disk[s]
         /\ \A s \in Sectors \ System : disk'[s] = disk[s] /\ Own(s)' = Own(s)
         /\ MapData # DirectoryData /\ MapData \in Sectors /\ DirectoryData \in Sectors
<1>1. MapData \in System /\ DirectoryData \in System /\ System \subseteq Sectors /\ MapData # DirectoryData
  BY Constants DEF System
<1>2. DOMAIN disk = Sectors
  BY DEF InOrder, Shapes
<1>3. \A s \in Sectors \ System : disk'[s] = disk[s]
  BY <1>1, <1>2
<1>4. \A s \in Sectors \ System : Own(s)' = Own(s)
  BY <1>3 DEF Own
<1> QED
  BY <1>1, <1>2, <1>3, <1>4

LEMMA HeaderWritten ==
  ASSUME InOrder, TypeOK, OneRequest, NEW p \in Proc, WriteAccess(p), pc[p] = "wCreateHdr"
  PROVE  InOrder'
<1> DEFINE m == mem[p]
<1>1. waiting = {} /\ waiting' = {p} /\ UNCHANGED <<pc, mem, file, written>>
  BY AtBegin DEF WriteAccess
<1>2. disk' = [disk EXCEPT ![m.sector] = m.hdr]
  BY DEF WriteAccess, Written
<1>3. NewFile(m)
  BY DEF InOrder, Standing, Stands
<1>4. InFileSystem(p)
  BY DEF InFileSystem, CreateLabels
<1>5. \A q \in Proc : ~InWindow(q) /\ ~InWindow(q)'
  BY <1>1, <1>4, OthersOutside DEF InWindow
<1>6. \A e \in Used : ~Half(e) /\ ~Half(e)'
  BY <1>5 DEF Half
<1>7. m.sector \in Sectors \ System /\ m.sector \notin disk[MapData]
  BY <1>3 DEF NewFile, Proper
<1>8. \A e \in Used : m.sector \notin Own(Dir[e].sector)
  BY <1>6, <1>7, OwnMarked
<1>9. \A e \in Used : Dir[e].sector # m.sector
  BY <1>8 DEF Own
<1>10. /\ DOMAIN disk' = Sectors /\ Dir' = Dir /\ Used' = Used /\ disk'[MapData] = disk[MapData]
       /\ \A e \in Used : disk'[Dir[e].sector] = disk[Dir[e].sector]
       /\ \A e \in Used : Own(Dir[e].sector)' = Own(Dir[e].sector)
       /\ Layout'
  BY <1>2, <1>7, <1>9, Elsewhere
<1>11. MapKept'
  BY <1>6, <1>10 DEF InOrder, MapKept
<1>12. DOMAIN disk = Sectors /\ disk'[m.sector] = m.hdr
  BY <1>2, <1>7 DEF InOrder, Shapes
<1>13. DataHeld'
  <2> SUFFICES ASSUME NEW e \in Used
               PROVE  written[Dir[e].name] = On(disk', disk[Dir[e].sector])
    BY <1>1, <1>10, Zenon DEF DataHeld
  <2>1. \A i \in DOMAIN disk[Dir[e].sector].sectors :
          disk[Dir[e].sector].sectors[i] \in Own(Dir[e].sector)
    BY DEF Own, Range
  <2>2. \A i \in DOMAIN disk[Dir[e].sector].sectors :
          disk'[disk[Dir[e].sector].sectors[i]] = disk[disk[Dir[e].sector].sectors[i]]
    BY <1>2, <1>8, <1>12, <2>1
  <2>3. On(disk', disk[Dir[e].sector]) = On(disk, disk[Dir[e].sector])
    BY <2>2 DEF On
  <2> QED
    BY <2>3, Zenon DEF InOrder, DataHeld
<1>14. Stands(p)'
  BY <1>1, <1>3, <1>10, <1>12 DEF Stands, NewFile, Unlisted
<1>15. Dir' \in Tables /\ disk'[MapData] \subseteq Sectors
  BY <1>10 DEF InOrder, Shapes
<1> QED
  BY <1>1, <1>4, <1>10, <1>11, <1>13, <1>14, <1>15, WriteOrder

LEMMA NewEntryWritten ==
  ASSUME InOrder, TypeOK, OneRequest, NEW p \in Proc, WriteAccess(p), pc[p] = "wCreateDir"
  PROVE  InOrder'
<1> DEFINE m == mem[p]
<1>1. waiting = {} /\ waiting' = {p} /\ UNCHANGED <<pc, mem, file, written>>
  BY AtBegin DEF WriteAccess
<1>2. disk' = [disk EXCEPT ![DirectoryData] = m.table]
  BY DEF WriteAccess, Written
<1>3. /\ NewFile(m) /\ disk[m.sector] = m.hdr
      /\ written[m.name] = [i \in DOMAIN m.hdr.sectors |-> disk[m.hdr.sectors[i]]]
  BY <1>1 DEF InOrder, Standing, Stands
<1>4. InFileSystem(p)
  BY DEF InFileSystem, CreateLabels
<1>5. \A q \in Proc : ~InWindow(q) /\ (InWindow(q)' <=> q = p)
  BY <1>1, <1>4, OthersOutside DEF InWindow
<1>6. \A e \in Used : ~Half(e)
  BY <1>5 DEF Half
<1>7. PICK e0 \in Entries \ Used : m.table = [Dir EXCEPT ![e0] = [name |-> m.name, sector |-> m.sector]]
  BY <1>3 DEF NewFile
<1>8. /\ DOMAIN disk' = Sectors /\ Dir' = m.table /\ disk'[MapData] = disk[MapData]
      /\ \A s \in Sectors \ System : disk'[s] = disk[s] /\ Own(s)' = Own(s)
  BY <1>2, SystemWrite DEF Dir
<1>9. /\ Dir \in Tables /\ m.name \in Name /\ m.sector \in Sectors \ System /\ Proper(m.hdr, m.sector)
      /\ Own(m.sector) \cap disk[MapData] = {} /\ m.map = disk[MapData] \cup Own(m.sector)
      /\ Own(m.sector) \subseteq Sectors \ System
  <2>1. Dir \in Tables
    BY DEF InOrder, Shapes
  <2>2. Own(m.sector) = {m.sector} \cup Range(m.hdr.sectors)
    BY <1>3, Zenon DEF Own
  <2>3. /\ m.name \in Name /\ Proper(m.hdr, m.sector)
        /\ Own(m.sector) \cap disk[MapData] = {} /\ m.map = disk[MapData] \cup Own(m.sector)
    BY <1>3, <2>2 DEF NewFile, Unlisted
  <2>4. m.sector \in Sectors \ System /\ Range(m.hdr.sectors) \subseteq Sectors \ System
    BY <2>3 DEF Proper, Header, Range
  <2> QED
    BY <2>1, <2>2, <2>3, <2>4
<1>10. /\ Dir' \in Tables /\ Dir'[e0] = [name |-> m.name, sector |-> m.sector]
       /\ \A e \in Entries : e # e0 => Dir'[e] = Dir[e]
  BY <1>7, <1>8, <1>9 DEF Tables, Entry
<1>11. Used' = Used \cup {e0}
  <2>1. Dir'[e0] # NoEntry
    BY <1>9, <1>10, Constants DEF Entry
  <2> QED
    BY <1>7, <1>10, <2>1 DEF Used
<1>12. \A e \in Used : /\ e # e0 /\ Dir'[e] = Dir[e] /\ Dir[e].sector \in Sectors \ System
                       /\ Own(Dir[e].sector) \subseteq disk[MapData]
                       /\ Own(Dir[e].sector) \subseteq Sectors \ System
                       /\ Dir[e].name # m.name
  <2> SUFFICES ASSUME NEW e \in Used
               PROVE  /\ e # e0 /\ Dir'[e] = Dir[e] /\ Dir[e].sector \in Sectors \ System
                      /\ Own(Dir[e].sector) \subseteq disk[MapData]
                      /\ Own(Dir[e].sector) \subseteq Sectors \ System
                      /\ Dir[e].name # m.name
    OBVIOUS
  <2>1. e \in Entries /\ e # e0
    BY <1>7 DEF Used
  <2>2. Own(Dir[e].sector) \subseteq disk[MapData] /\ Own(Dir[e].sector) \subseteq Sectors \ System
    BY <1>6, OwnMarked
  <2>3. Dir[e].sector \in Own(Dir[e].sector)
    BY DEF Own
  <2> QED
    BY <1>3, <1>10, <2>1, <2>2, <2>3 DEF NewFile, Unlisted
<1>13. /\ \A e \in Used : disk'[Dir[e].sector] = disk[Dir[e].sector] /\ Own(Dir[e].sector)' = Own(Dir[e].sector)
       /\ Own(m.sector)' = Own(m.sector) /\ disk'[m.sector] = m.hdr
  <2>1. \A s \in Sectors \ System : {s} \cup Range(disk'[s].sectors) = Own(s)
    BY <1>8 DEF Own
  <2> QED
    BY <1>1, <1>3, <1>8, <1>9, <1>12, <2>1 DEF Own
<1>14. Layout'
  <2>1. \A e \in Used' : Proper(disk'[Dir'[e].sector], Dir'[e].sector)
    BY <1>9, <1>10, <1>11, <1>12, <1>13 DEF InOrder, Layout
  <2>2. ASSUME NEW e \in Used', NEW f \in Used', e # f
        PROVE  /\ Dir'[e].name # Dir'[f].name
               /\ Own(Dir[e].sector)' \cap Own(Dir[f].sector)' = {}
    <3>1. CASE e = e0
      BY <1>1, <1>9, <1>10, <1>11, <1>12, <1>13, <2>2, <3>1 DEF Own
    <3>2. CASE f = e0
      BY <1>1, <1>9, <1>10, <1>11, <1>12, <1>13, <2>2, <3>2 DEF Own
    <3>3. CASE e # e0 /\ f # e0
      BY <1>11, <1>12, <1>13, <2>2, <3>3 DEF InOrder, Layout
    <3> QED
      BY <3>1, <3>2, <3>3
  <2> QED
    BY <2>1, <2>2 DEF Layout
<1>15. \A e \in Used' : Half(e)' <=> e = e0
  <2>1. \A e \in Used' : Half(e)' <=> Dir'[e].sector = m.sector
    BY <1>1, <1>5 DEF Half
  <2>2. \A e \in Used : Dir'[e].sector # m.sector
    BY <1>9, <1>12 DEF Own
  <2> QED
    BY <1>10, <1>11, <2>1, <2>2
<1>16. MapKept'
  <2> SUFFICES ASSUME NEW s \in Sectors
               PROVE  s \in disk'[MapData] <=>
                        s \in System \/ \E e \in Used' : ~Half(e)' /\ s \in Own(Dir[e].sector)'
    BY DEF MapKept
  <2>1. (\E e \in Used' : ~Half(e)' /\ s \in Own(Dir[e].sector)') <=> \E e \in Used : s \in Own(Dir[e].sector)
    BY <1>11, <1>12, <1>13, <1>15
  <2> QED
    BY <1>6, <1>8, <2>1 DEF InOrder, MapKept
<1>17. DataHeld'
  <2> SUFFICES ASSUME NEW e \in Used'
               PROVE  written[Dir'[e].name] = On(disk', disk'[Dir'[e].sector])
    BY <1>1, Zenon DEF DataHeld
  <2>1. CASE e = e0
    <3>1. \A i \in DOMAIN m.hdr.sectors : disk'[m.hdr.sectors[i]] = disk[m.hdr.sectors[i]]
      BY <1>3, <1>8, <1>9 DEF Own, Range
    <3>2. On(disk', m.hdr) = On(disk, m.hdr)
      BY <3>1 DEF On
    <3>3. Dir'[e].name = m.name /\ disk'[Dir'[e].sector] = m.hdr
      BY <1>10, <1>13, <2>1
    <3>4. written[m.name] = On(disk, m.hdr)
      BY <1>3, Zenon DEF On
    <3> QED
      BY <3>2, <3>3, <3>4, Zenon
  <2>2. CASE e # e0
    <3>1. e \in Used /\ Dir'[e] = Dir[e] /\ disk'[Dir[e].sector] = disk[Dir[e].sector]
      BY <1>11, <1>12, <1>13, <2>2
    <3>2. \A i \in DOMAIN disk[Dir[e].sector].sectors :
            disk'[disk[Dir[e].sector].sectors[i]] = disk[disk[Dir[e].sector].sectors[i]]
      BY <1>8, <1>12, <3>1 DEF Own, Range
    <3>3. On(disk', disk[Dir[e].sector]) = On(disk, disk[Dir[e].sector])
      BY <3>2 DEF On
    <3> QED
      BY <3>1, <3>3, Zenon DEF InOrder, DataHeld
  <2> QED
    BY <2>1, <2>2
<1>18. Stands(p)'
  <2>1. Listed(m)'
    BY <1>1, <1>10, <1>11 DEF Listed
  <2>2. m.map = disk'[MapData] \cup Own(m.sector)'
    BY <1>8, <1>9, <1>13
  <2>3. \A i \in DOMAIN m.hdr.sectors : disk'[m.hdr.sectors[i]] = disk[m.hdr.sectors[i]]
    BY <1>3, <1>8, <1>9 DEF Own, Range
  <2> QED
    BY <1>1, <1>3, <1>13, <2>1, <2>2, <2>3 DEF Stands
<1> QED
  BY <1>1, <1>4, <1>8, <1>9, <1>10, <1>14, <1>16, <1>17, <1>18, WriteOrder DEF InOrder, Shapes

\* The file in a window is the one that the call in it is about.
LEMMA HalfOf ==
  ASSUME InOrder, NEW p \in Proc, Listed(mem[p]), \A q \in Proc : InWindow(q) <=> q = p
  PROVE  \E e0 \in Used : /\ Dir[e0] = [name |-> mem[p].name, sector |-> mem[p].sector]
                          /\ \A e \in Used : Half(e) <=> e = e0
<1>1. PICK e0 \in Used : Dir[e0] = [name |-> mem[p].name, sector |-> mem[p].sector]
  BY DEF Listed
<1>2. \A e \in Used : Half(e) <=> Dir[e].sector = mem[p].sector
  BY DEF Half
<1>3. \A e \in Used : Dir[e].sector \in Own(Dir[e].sector)
  BY DEF Own
<1>4. \A e \in Used : Dir[e].sector = Dir[e0].sector => e = e0
  BY <1>3 DEF InOrder, Layout
<1> QED
  BY <1>1, <1>2, <1>4

\* The map is written: nothing else on the disk has changed.
LEMMA MapWritten ==
  ASSUME InOrder, NEW x, x \subseteq Sectors, disk' = [disk EXCEPT ![MapData] = x], UNCHANGED written
  PROVE  /\ DOMAIN disk' = Sectors /\ disk'[MapData] = x /\ Dir' = Dir /\ Used' = Used
         /\ Dir' \in Tables /\ disk'[MapData] \subseteq Sectors
         /\ \A e \in Used : Own(Dir[e].sector)' = Own(Dir[e].sector)
         /\ Layout' /\ DataHeld'
<1>1. /\ DOMAIN disk' = Sectors /\ disk'[MapData] = x
      /\ \A s \in Sectors \ System : disk'[s] = disk[s] /\ Own(s)' = Own(s)
  BY SystemWrite
<1>2. Dir' = Dir
  BY SystemWrite DEF Dir
<1>3. Used' = Used
  BY <1>2 DEF Used
<1>4. \A e \in Used : Dir[e].sector \in Sectors \ System /\ Range(disk[Dir[e].sector].sectors) \subseteq Sectors \ System
  BY FilesSectors
<1>5. \A e \in Used : disk'[Dir[e].sector] = disk[Dir[e].sector]
  BY <1>1, <1>4
<1>6. \A e \in Used : Own(Dir[e].sector)' = Own(Dir[e].sector)
  BY <1>2, <1>5 DEF Own
<1>7. Layout'
  BY <1>2, <1>3, <1>5, <1>6 DEF InOrder, Layout
<1>8. DataHeld'
  <2> SUFFICES ASSUME NEW e \in Used
               PROVE  written[Dir[e].name] = On(disk', disk[Dir[e].sector])
    <3>1. written' = written
      OBVIOUS
    <3> QED
      BY <1>2, <1>3, <1>5, <3>1, Zenon DEF DataHeld
  <2>1. \A i \in DOMAIN disk[Dir[e].sector].sectors :
          disk'[disk[Dir[e].sector].sectors[i]] = disk[disk[Dir[e].sector].sectors[i]]
    BY <1>1, <1>4 DEF Range
  <2>2. On(disk', disk[Dir[e].sector]) = On(disk, disk[Dir[e].sector])
    BY <2>1 DEF On
  <2> QED
    BY <2>2, Zenon DEF InOrder, DataHeld
<1>9. Dir' \in Tables
  BY <1>2 DEF InOrder, Shapes
<1> QED
  BY <1>1, <1>2, <1>3, <1>6, <1>7, <1>8, <1>9

LEMMA NewMapWritten ==
  ASSUME InOrder, TypeOK, OneRequest, NEW p \in Proc, WriteAccess(p), pc[p] = "wCreateMap"
  PROVE  InOrder'
<1> DEFINE m == mem[p]
<1>1. waiting = {} /\ waiting' = {p} /\ UNCHANGED <<pc, mem, file, written>>
  BY AtBegin DEF WriteAccess
<1>2. disk' = [disk EXCEPT ![MapData] = m.map]
  BY DEF WriteAccess, Written
<1>3. Listed(m) /\ m.map = disk[MapData] \cup Own(m.sector) /\ disk[m.sector] = m.hdr
  BY <1>1 DEF InOrder, Standing, Stands
<1>4. InFileSystem(p)
  BY DEF InFileSystem, CreateLabels
<1>5. \A q \in Proc : (InWindow(q) <=> q = p) /\ ~InWindow(q)'
  BY <1>1, <1>4, OthersOutside DEF InWindow
<1>6. PICK e0 \in Used : /\ Dir[e0] = [name |-> m.name, sector |-> m.sector]
                         /\ \A e \in Used : Half(e) <=> e = e0
  BY <1>3, <1>5, HalfOf
<1>7. \A e \in Used : Own(Dir[e].sector) \subseteq Sectors
  BY FilesSectors DEF Own
<1>8. m.map \subseteq Sectors
  BY <1>3, <1>6, <1>7 DEF InOrder, Shapes
<1>9. /\ DOMAIN disk' = Sectors /\ disk'[MapData] = m.map /\ Dir' = Dir /\ Used' = Used
      /\ Dir' \in Tables /\ disk'[MapData] \subseteq Sectors
      /\ \A e \in Used : Own(Dir[e].sector)' = Own(Dir[e].sector)
      /\ Layout' /\ DataHeld'
  BY <1>1, <1>2, <1>8, MapWritten
<1>10. \A e \in Used : ~Half(e)'
  BY <1>5 DEF Half
<1>11. MapKept'
  <2> SUFFICES ASSUME NEW s \in Sectors
               PROVE  s \in m.map <=> s \in System \/ \E e \in Used : s \in Own(Dir[e].sector)
    BY <1>9, <1>10 DEF MapKept
  <2>1. s \in disk[MapData] <=> s \in System \/ \E e \in Used : e # e0 /\ s \in Own(Dir[e].sector)
    BY <1>6 DEF InOrder, MapKept
  <2>2. Own(m.sector) = Own(Dir[e0].sector)
    BY <1>6
  <2> QED
    BY <1>3, <1>6, <2>1, <2>2
<1>12. disk'[m.sector] = m.hdr
  <2>1. m.sector \in Sectors \ System
    BY <1>6 DEF InOrder, Layout, Proper
  <2> QED
    BY <1>2, <1>3, <2>1, SystemWrite
<1>13. Stands(p)'
  BY <1>1, <1>12 DEF Stands
<1> QED
  BY <1>1, <1>4, <1>9, <1>11, <1>13, WriteOrder

LEMMA FreedMapWritten ==
  ASSUME InOrder, TypeOK, OneRequest, NEW p \in Proc, WriteAccess(p), pc[p] = "wRemoveMap"
  PROVE  InOrder'
<1> DEFINE m == mem[p]
<1>1. waiting = {} /\ waiting' = {p} /\ UNCHANGED <<pc, mem, file, written>>
  BY AtBegin DEF WriteAccess
<1>2. disk' = [disk EXCEPT ![MapData] = m.map]
  BY DEF WriteAccess, Written
<1>3. Listed(m) /\ m.map = disk[MapData] \ Own(m.sector) /\ m.table = Removed(Dir, m.name)
  BY <1>1 DEF InOrder, Standing, Stands
<1>4. InFileSystem(p)
  BY DEF InFileSystem, RemoveLabels
<1>5. \A q \in Proc : ~InWindow(q) /\ (InWindow(q)' <=> q = p)
  BY <1>1, <1>4, OthersOutside DEF InWindow
<1>6. PICK e0 \in Used : Dir[e0] = [name |-> m.name, sector |-> m.sector]
  BY <1>3 DEF Listed
<1>7. m.map \subseteq Sectors
  BY <1>3 DEF InOrder, Shapes
<1>8. /\ DOMAIN disk' = Sectors /\ disk'[MapData] = m.map /\ Dir' = Dir /\ Used' = Used
      /\ Dir' \in Tables /\ disk'[MapData] \subseteq Sectors
      /\ \A e \in Used : Own(Dir[e].sector)' = Own(Dir[e].sector)
      /\ Layout' /\ DataHeld'
  BY <1>1, <1>2, <1>7, MapWritten
<1>9. \A e \in Used : ~Half(e) /\ (Half(e)' <=> e = e0)
  <2>1. \A e \in Used : ~Half(e) /\ (Half(e)' <=> Dir[e].sector = m.sector)
    BY <1>1, <1>5, <1>8 DEF Half
  <2>2. \A e \in Used : Dir[e].sector \in Own(Dir[e].sector)
    BY DEF Own
  <2>3. \A e \in Used : Dir[e].sector = Dir[e0].sector => e = e0
    BY <2>2 DEF InOrder, Layout
  <2> QED
    BY <1>6, <2>1, <2>3
<1>10. MapKept'
  <2> SUFFICES ASSUME NEW s \in Sectors
               PROVE  s \in m.map <=> s \in System \/ \E e \in Used : e # e0 /\ s \in Own(Dir[e].sector)
    BY <1>8, <1>9 DEF MapKept
  <2>1. s \in disk[MapData] <=> s \in System \/ \E e \in Used : s \in Own(Dir[e].sector)
    BY <1>9 DEF InOrder, MapKept
  <2>2. Own(m.sector) = Own(Dir[e0].sector)
    BY <1>6
  <2>3. Own(Dir[e0].sector) \cap System = {}
    BY <1>9, OwnMarked
  <2>4. \A e \in Used : e # e0 => Own(Dir[e].sector) \cap Own(Dir[e0].sector) = {}
    BY DEF InOrder, Layout
  <2> QED
    BY <1>3, <2>1, <2>2, <2>3, <2>4
<1>11. Stands(p)'
  <2>1. Listed(m)' /\ m.table = Removed(Dir, m.name)'
    BY <1>1, <1>3, <1>6, <1>8 DEF Listed, Removed, Holding
  <2> QED
    BY <1>1, <2>1 DEF Stands
<1> QED
  BY <1>1, <1>4, <1>8, <1>10, <1>11, WriteOrder

LEMMA EntryRemoved ==
  ASSUME InOrder, TypeOK, OneRequest, NEW p \in Proc, WriteAccess(p), pc[p] = "wRemoveDir"
  PROVE  InOrder'
<1> DEFINE m == mem[p]
<1>1. waiting = {} /\ waiting' = {p} /\ UNCHANGED <<pc, mem, file, written>>
  BY AtBegin DEF WriteAccess
<1>2. disk' = [disk EXCEPT ![DirectoryData] = m.table]
  BY DEF WriteAccess, Written
<1>3. Listed(m) /\ m.table = Removed(Dir, m.name)
  BY <1>1 DEF InOrder, Standing, Stands
<1>4. InFileSystem(p)
  BY DEF InFileSystem, RemoveLabels
<1>5. \A q \in Proc : (InWindow(q) <=> q = p) /\ ~InWindow(q)'
  BY <1>1, <1>4, OthersOutside DEF InWindow
<1>6. PICK e0 \in Used : /\ Dir[e0] = [name |-> m.name, sector |-> m.sector]
                         /\ \A e \in Used : Half(e) <=> e = e0
  BY <1>3, <1>5, HalfOf
<1>7. /\ DOMAIN disk' = Sectors /\ Dir' = Removed(Dir, m.name) /\ disk'[MapData] = disk[MapData]
      /\ \A s \in Sectors \ System : disk'[s] = disk[s] /\ Own(s)' = Own(s)
  BY <1>2, <1>3, SystemWrite DEF Dir
<1>8. Holding(Dir, m.name) = {e0}
  <2>1. \A e \in Used : Dir[e].name = m.name <=> e = e0
    BY <1>6 DEF InOrder, Layout
  <2>2. \A e \in Entries : e \in Used <=> Dir[e] # NoEntry
    BY DEF Used
  <2>3. e0 \in Entries
    BY DEF Used
  <2> QED
    BY <2>1, <2>2, <2>3 DEF Holding
<1>9. Dir' = [e \in Entries |-> IF e = e0 THEN NoEntry ELSE Dir[e]]
  BY <1>7, <1>8 DEF Removed
<1>10. Dir' \in Tables /\ Used' = Used \ {e0}
  BY <1>9 DEF InOrder, Shapes, Tables, Used
<1>11. \A e \in Used' : /\ e \in Used /\ e # e0 /\ Dir'[e] = Dir[e] /\ Dir[e].sector \in Sectors \ System
                        /\ Range(disk[Dir[e].sector].sectors) \subseteq Sectors \ System
  <2>1. \A e \in Used : Dir[e].sector \in Sectors \ System /\ Range(disk[Dir[e].sector].sectors) \subseteq Sectors \ System
    BY FilesSectors
  <2>2. \A e \in Used' : e \in Used /\ e # e0 /\ Dir'[e] = Dir[e]
    BY <1>9, <1>10 DEF Used
  <2> QED
    BY <2>1, <2>2
<1>12. \A e \in Used' : disk'[Dir[e].sector] = disk[Dir[e].sector] /\ Own(Dir[e].sector)' = Own(Dir[e].sector)
  BY <1>7, <1>11 DEF Own
<1>13. Layout'
  BY <1>11, <1>12 DEF InOrder, Layout
<1>14. \A e \in Used' : ~Half(e)'
  BY <1>5 DEF Half
<1>15. MapKept'
  <2> SUFFICES ASSUME NEW s \in Sectors
               PROVE  s \in disk[MapData] <=>
                        s \in System \/ \E e \in Used' : s \in Own(Dir[e].sector)
    BY <1>7, <1>12, <1>14 DEF MapKept
  <2>1. s \in disk[MapData] <=> s \in System \/ \E e \in Used : e # e0 /\ s \in Own(Dir[e].sector)
    BY <1>6 DEF InOrder, MapKept
  <2> QED
    BY <1>10, <2>1
<1>16. DataHeld'
  <2> SUFFICES ASSUME NEW e \in Used'
               PROVE  written[Dir[e].name] = On(disk', disk[Dir[e].sector])
    BY <1>1, <1>11, <1>12, Zenon DEF DataHeld
  <2>1. \A i \in DOMAIN disk[Dir[e].sector].sectors :
          disk'[disk[Dir[e].sector].sectors[i]] = disk[disk[Dir[e].sector].sectors[i]]
    BY <1>7, <1>11 DEF Range
  <2>2. On(disk', disk[Dir[e].sector]) = On(disk, disk[Dir[e].sector])
    BY <2>1 DEF On
  <2> QED
    BY <1>11, <2>2, Zenon DEF InOrder, DataHeld
<1>17. Stands(p)'
  BY <1>1 DEF Stands
<1> QED
  BY <1>1, <1>4, <1>7, <1>10, <1>13, <1>15, <1>16, <1>17, WriteOrder DEF InOrder, Shapes

\* A call that is about to write, or to read, stands as it stood when another
\* thread writes to a sector of a file that is not spoiled.
LEMMA StandsBeside ==
  ASSUME InOrder, NEW q \in Proc, q \notin waiting, q \notin waiting', InFileSystem(q),
         UNCHANGED <<pc, mem>>, NEW s \in Sectors \ System, NEW n, NEW x, disk' = [disk EXCEPT ![s] = x],
         \A e \in Used : Dir[e].sector # s,
         NEW e0 \in Used, s \in Own(Dir[e0].sector), Dir[e0].name = n,
         \A l \in Name : l # n => written'[l] = written[l],
         (\A r \in Proc : ~InWindow(r)) \/ pc[q] # "wCreateDir"
  PROVE  Stands(q)'
<1> DEFINE m == mem[q]
<1>1. /\ Dir' = Dir /\ Used' = Used /\ disk'[MapData] = disk[MapData]
      /\ \A e \in Used : disk'[Dir[e].sector] = disk[Dir[e].sector]
      /\ \A e \in Used : Own(Dir[e].sector)' = Own(Dir[e].sector)
  BY Elsewhere
<1>2. Stands(q)
  BY DEF InOrder, Standing
<1>3. /\ Unlisted(m)' <=> Unlisted(m)
      /\ Listed(m)' <=> Listed(m)
      /\ NewFile(m)' <=> NewFile(m)
  BY <1>1 DEF Unlisted, Listed, NewFile
<1>4. Listed(m) => disk'[m.sector] = disk[m.sector] /\ Own(m.sector)' = Own(m.sector)
  <2> SUFFICES ASSUME NEW e \in Used, Dir[e] = [name |-> m.name, sector |-> m.sector]
               PROVE  disk'[m.sector] = disk[m.sector] /\ Own(m.sector)' = Own(m.sector)
    BY DEF Listed
  <2>1. disk'[m.sector] = disk[m.sector]
    BY <1>1
  <2> QED
    BY <2>1 DEF Own
<1>5. CASE pc[q] = "wCreateDir"
  <2>1. /\ NewFile(m) /\ disk[m.sector] = m.hdr
        /\ written[m.name] = [i \in DOMAIN m.hdr.sectors |-> disk[m.hdr.sectors[i]]]
    BY <1>2, <1>5 DEF Stands
  <2>2. ~Half(e0)
    BY <1>5 DEF Half
  <2>3. s \in disk[MapData]
    BY <2>2, OwnMarked
  <2>4. s \notin {m.sector} \cup Range(m.hdr.sectors) /\ m.name \in Name /\ m.name # n
    BY <2>1, <2>3 DEF NewFile, Unlisted
  <2>5. disk'[m.sector] = disk[m.sector]
    BY <2>1, <2>4 DEF NewFile, Proper, InOrder, Shapes
  <2>6. \A i \in DOMAIN m.hdr.sectors : disk'[m.hdr.sectors[i]] = disk[m.hdr.sectors[i]]
    <3> SUFFICES ASSUME NEW i \in DOMAIN m.hdr.sectors PROVE disk'[m.hdr.sectors[i]] = disk[m.hdr.sectors[i]]
      OBVIOUS
    <3>1. m.hdr.sectors[i] # s
      BY <2>4 DEF Range
    <3> QED
      BY <3>1
  <2>7. written'[m.name] = [i \in DOMAIN m.hdr.sectors |-> disk'[m.hdr.sectors[i]]]
    BY <2>1, <2>4, <2>6
  <2> QED
    BY <1>3, <1>5, <2>1, <2>5, <2>7 DEF Stands
<1>6. CASE pc[q] = "wCreateMap"
  BY <1>1, <1>2, <1>3, <1>4, <1>6 DEF Stands
<1>7. CASE pc[q] \in {"createDir", "createMap", "wCreateHdr"} \cup OpenLabels
  BY <1>1, <1>2, <1>3, <1>7 DEF Stands, OpenLabels
<1>8. CASE pc[q] \in RemoveLabels
  <2>1. Removed(Dir, m.name)' = Removed(Dir, m.name)
    BY <1>1 DEF Removed, Holding
  <2> QED
    BY <1>1, <1>2, <1>3, <1>4, <1>8, <2>1 DEF Stands, RemoveLabels
<1> QED
  BY <1>5, <1>6, <1>7, <1>8 DEF InFileSystem, CreateLabels

\* The header of an OpenFile that is not stale is a file's on the disk.
LEMMA NotStale ==
  ASSUME InOrder, NEW p \in Proc, ~Stale(p)
  PROVE  \E e0 \in Used : /\ Dir[e0].name = file[p].name /\ disk[Dir[e0].sector] = file[p].hdr
                          /\ Proper(file[p].hdr, Dir[e0].sector)
<1> DEFINE n == file[p].name
<1>1. Holding(Dir, n) # {} /\ disk[SectorOf(Dir, n)] = file[p].hdr
  BY DEF Stale, Dir
<1>2. PICK e \in Used : Dir[e] = [name |-> n, sector |-> SectorOf(Dir, n)]
  BY <1>1, FindsListed DEF InOrder, Shapes
<1> QED
  BY <1>1, <1>2 DEF InOrder, Layout

\* A write is at a sector of its file.
LEMMA AskedAt ==
  ASSUME NEW hdr \in Header, NEW x, Asked(x, hdr)
  PROVE  x.at \in DOMAIN hdr.sectors
<1>1. DOMAIN hdr.sectors = 1 .. Len(hdr.sectors) /\ Len(hdr.sectors) \in Nat
  BY DEF Header
<1> QED
  BY <1>1 DEF Asked

\* buf gives the bytes of its sector that the write leaves alone.
LEMMA SectorChanged ==
  ASSUME NEW p \in Proc, pc[p] = "write", p \notin waiting, Covered(p), Fresh(p),
         io[p].at \notin overtaken[p]
  PROVE  Changed(io[p], io[p].at, disk[ByteToSector(file[p].hdr, io[p].at)])
           = Changed(io[p], io[p].at, Buffer(io[p], io[p].at))
<1> DEFINE x == io[p]
           i == io[p].at
<1>1. CASE i \in DOMAIN x.buf
  <2>1. i \in ToWrite(p)
    BY <1>1 DEF ToWrite
  <2>2. Buffer(x, i) = disk[ByteToSector(file[p].hdr, i)]
    BY <1>1, <2>1 DEF Buffer, Fresh
  <2> QED
    BY <2>2, Zenon
<1>2. CASE i \notin DOMAIN x.buf
  <2>1. (i = x.first => x.lo = 0) /\ (i = x.last => x.hi = SectorSize - 1)
    BY <1>2 DEF Covered
  <2>2. \A o \in Offset : InRange(x, i, o)
    BY <2>1, FSAssumption DEF InRange, Offset
  <2> HIDE DEF x, i
  <2> QED
    BY <2>2 DEF Changed, x, i
<1> QED
  BY <1>1, <1>2

\* A write to a file that is not removed changes that file, and no other.
LEMMA DataWritten ==
  ASSUME InOrder, TypeOK, OneRequest, NEW p \in Proc, WriteAccess(p), pc[p] = "write", ~Stale(p),
         Filled(p)
  PROVE  InOrder'
<1> DEFINE hdr == file[p].hdr
           n   == file[p].name
           i   == io[p].at
           x   == Changed(io[p], i, Buffer(io[p], i))
           s   == hdr.sectors[i]
<1>1. waiting = {} /\ waiting' = {p} /\ UNCHANGED <<pc, mem, file>>
  BY AtBegin DEF WriteAccess
<1>2. /\ disk' = [disk EXCEPT ![s] = x]
      /\ written' = [written EXCEPT ![n][i] = IF i \in overtaken[p] THEN x ELSE Changed(io[p], i, @)]
  BY DEF WriteAccess, Written, Here, ByteToSector
<1>3. PICK e0 \in Used : Dir[e0].name = n /\ disk[Dir[e0].sector] = hdr /\ Proper(hdr, Dir[e0].sector)
  BY NotStale
<1>4. i \in DOMAIN hdr.sectors /\ Covered(p) /\ Fresh(p)
  BY <1>3, AskedAt DEF Filled, Proper
<1>5. /\ Proper(hdr, Dir[e0].sector) /\ s \in Own(Dir[e0].sector) /\ s \in Sectors \ System
      /\ s # Dir[e0].sector
  <2>1. s \in Range(hdr.sectors)
    BY <1>4 DEF Range
  <2>2. Range(hdr.sectors) \subseteq Sectors
    BY <1>3 DEF Proper, Header, Range
  <2> HIDE DEF s
  <2> QED
    BY <1>3, <2>1, <2>2 DEF Proper, Own
<1>6. i \notin overtaken[p] => Changed(io[p], i, disk[s]) = x
  BY <1>1, <1>4, SectorChanged DEF ByteToSector
<1> HIDE DEF s, x, hdr, n, i
<1>7. \A e \in Used : e # e0 => s \notin Own(Dir[e].sector) /\ Dir[e].name # n
  BY <1>3, <1>5 DEF InOrder, Layout
<1>8. \A e \in Used : Dir[e].sector # s
  BY <1>5, <1>7 DEF Own
<1>9. /\ DOMAIN disk' = Sectors /\ Dir' = Dir /\ Used' = Used /\ disk'[MapData] = disk[MapData]
      /\ \A e \in Used : disk'[Dir[e].sector] = disk[Dir[e].sector]
      /\ \A e \in Used : Own(Dir[e].sector)' = Own(Dir[e].sector)
      /\ Layout'
  BY <1>2, <1>5, <1>8, Elsewhere
<1>10. \A l \in Name : l # n => written'[l] = written[l]
  BY <1>2 DEF InOrder, Shapes
<1>11. \A q \in Proc : InWindow(q)' <=> InWindow(q)
  <2>1. ~InWindow(p)' /\ ~InWindow(p)
    BY <1>1 DEF InWindow
  <2> QED
    BY <1>1, <2>1 DEF InWindow
<1>12. Shapes'
  BY <1>1, <1>2, <1>9 DEF InOrder, Shapes
<1>13. OneCall'
  BY <1>1 DEF InOrder, OneCall, InFileSystem
<1>14. MapKept'
  <2>1. \A e \in Used : Half(e)' <=> Half(e)
    BY <1>1, <1>9, <1>11 DEF Half
  <2> QED
    BY <1>9, <2>1 DEF InOrder, MapKept
<1>15. DataHeld'
  <2>1. DOMAIN disk = Sectors /\ disk'[s] = x
    BY <1>2, <1>5 DEF InOrder, Shapes
  <2>2. ASSUME NEW e \in Used, e # e0
        PROVE  written'[Dir[e].name] = On(disk', disk[Dir[e].sector])
    <3>1. \A j \in DOMAIN disk[Dir[e].sector].sectors :
            disk'[disk[Dir[e].sector].sectors[j]] = disk[disk[Dir[e].sector].sectors[j]]
      <4> SUFFICES ASSUME NEW j \in DOMAIN disk[Dir[e].sector].sectors
                   PROVE  disk[Dir[e].sector].sectors[j] # s
        BY <1>2
      <4> QED
        BY <1>7, <2>2 DEF Own, Range
    <3>2. written'[Dir[e].name] = written[Dir[e].name]
      BY <1>7, <1>10, <2>2, UsedEntry DEF InOrder, Shapes
    <3>3. On(disk', disk[Dir[e].sector]) = On(disk, disk[Dir[e].sector])
      BY <3>1 DEF On
    <3> QED
      BY <3>2, <3>3, Zenon DEF InOrder, DataHeld
  <2>3. written'[n] = On(disk', hdr)
    <3>1. n \in Name
      BY <1>3, UsedEntry DEF InOrder, Shapes
    <3>2. written[n] = [j \in DOMAIN hdr.sectors |-> disk[hdr.sectors[j]]]
      <4>1. written[n] = On(disk, hdr)
        BY <1>3, Zenon DEF InOrder, DataHeld
      <4> QED
        BY <4>1, Zenon DEF On
    <3>3. written[n][i] = disk[s]
      BY <1>4, <3>2 DEF s
    <3>4. written'[n] = [written[n] EXCEPT ![i] = x]
      <4>1. written'[n] = [written[n] EXCEPT ![i] = IF i \in overtaken[p] THEN x
                                                   ELSE Changed(io[p], i, written[n][i])]
        BY <1>2, <3>1 DEF InOrder, Shapes
      <4> QED
        BY <1>6, <3>3, <4>1
    <3>5. \A j \in DOMAIN hdr.sectors : disk'[hdr.sectors[j]] = IF j = i THEN x ELSE disk[hdr.sectors[j]]
      <4> SUFFICES ASSUME NEW j \in DOMAIN hdr.sectors, j # i PROVE hdr.sectors[j] # s
        BY <1>2, <2>1 DEF s
      <4> QED
        BY <1>4, <1>5 DEF Proper, s, hdr, i
    <3> QED
      BY <3>2, <3>4, <3>5 DEF On
  <2>4. \A e \in Used : disk'[Dir[e].sector] = disk[Dir[e].sector]
    BY <1>9
  <2>5. \A e \in Used : written'[Dir[e].name] = On(disk', disk'[Dir[e].sector])
    <3>1. written'[Dir[e0].name] = On(disk', disk[Dir[e0].sector])
      BY <1>3, <2>3, Zenon
    <3> QED
      BY <2>2, <2>4, <3>1, Zenon
  <2> QED
    BY <1>9, <2>5, Zenon DEF DataHeld
<1>16. Standing'
  <2> SUFFICES ASSUME NEW q \in Proc PROVE Stands(q)'
    BY DEF Standing
  <2>1. Stands(q)
    BY DEF InOrder, Standing
  <2>2. CASE pc[q] \in {"none", "read", "fill", "write"}
    BY <1>1, <2>1, <2>2 DEF Stands
  <2>3. CASE InFileSystem(q)
    <3>1. q \notin waiting /\ q \notin waiting'
      BY <1>1, <2>3 DEF InFileSystem, CreateLabels, RemoveLabels, OpenLabels
    <3>2. (\A r \in Proc : ~InWindow(r)) \/ pc[q] # "wCreateDir"
      BY <1>1, <2>3, OthersOutside DEF InWindow
    <3> QED
      BY <1>1, <1>2, <1>3, <1>5, <1>8, <1>10, <2>3, <3>1, <3>2, StandsBeside
  <2> QED
    BY <2>2, <2>3 DEF TypeOK, Labels, InFileSystem
<1> QED
  BY <1>9, <1>12, <1>13, <1>14, <1>15, <1>16 DEF InOrder

LEMMA WriteAccessOrder ==
  ASSUME InOrder, Filling, TypeOK, OneRequest, NEW p \in Proc, WriteAccess(p), ~spoiled'
  PROVE  InOrder'
<1>1. CASE pc[p] = "write"
  <2>1. ~Stale(p)
    BY <1>1 DEF WriteAccess
  <2> QED
    BY <1>1, <2>1, DataWritten DEF Filling
<1>2. CASE pc[p] # "write"
  BY <1>2, HeaderWritten, NewEntryWritten, NewMapWritten, FreedMapWritten, EntryRemoved DEF WriteAccess, Writes
<1> QED
  BY <1>1, <1>2

-----------------------------------------------------------------------------
(* What a WriteAt has read is on the disk still, or another has written it *)

\* Whatever is done elsewhere, a write keeps what it has read.
LEMMA FilledStill ==
  ASSUME NEW q \in Proc, Filled(q), UNCHANGED disk,
         pc'[q] = pc[q], io'[q] = io[q], file'[q] = file[q], overtaken'[q] = overtaken[q],
         q \in waiting' <=> q \in waiting
  PROVE  Filled(q)'
BY DEF Filled, Covered, Fresh, ToWrite

\* Nothing is asked of a thread that does not write.
LEMMA FilledOutside ==
  ASSUME NEW q \in Proc, DOMAIN io'[q] = DOMAIN NoIO, pc'[q] \notin {"fill", "write"}
  PROVE  Filled(q)'
BY DEF Filled

\* A step of p alone that changes nothing on the disk.
LEMMA FillingStep ==
  ASSUME Filling, UNCHANGED disk, NEW p \in Proc, DOMAIN io' = Proc, DOMAIN overtaken' = Proc,
         \A q \in Proc \ {p} : /\ pc'[q] = pc[q] /\ io'[q] = io[q] /\ file'[q] = file[q]
                               /\ overtaken'[q] = overtaken[q] /\ (q \in waiting' <=> q \in waiting),
         Filled(p)'
  PROVE  Filling'
<1> SUFFICES ASSUME NEW q \in Proc, q # p PROVE Filled(q)'
  BY DEF Filling
<1> QED
  BY FilledStill DEF Filling

LEMMA CallFilling ==
  ASSUME Filling, TypeOK, NEW p \in Proc, NEW n, NEW k, NEW l,
         l \in {"createDir", "openDir", "removeDir"}, Enter(p, l, n, k)
  PROVE  Filling'
<1>1. /\ pc'[p] = l /\ UNCHANGED <<disk, waiting, io, overtaken, file>>
      /\ \A q \in Proc \ {p} : pc'[q] = pc[q]
  BY DEF Enter, TypeOK, synchVars
<1>2. Filled(p)'
  BY <1>1, FilledOutside DEF Filling, Filled
<1> QED
  BY <1>1, <1>2, FillingStep DEF Filling

LEMMA CloseFilling ==
  ASSUME Filling, InOrder, NEW p \in Proc, Close(p)
  PROVE  Filling'
<1>1. /\ pc'[p] = "none" /\ UNCHANGED <<disk, waiting, pc, io, overtaken>>
      /\ \A q \in Proc \ {p} : file'[q] = file[q]
  BY DEF Close, synchVars, InOrder, Shapes
<1>2. Filled(p)'
  BY <1>1, FilledOutside DEF Filling, Filled
<1> QED
  BY <1>1, <1>2, FillingStep DEF Filling

LEMMA UseEffect ==
  ASSUME Filling, TypeOK, NEW p \in Proc, NEW l, NEW x, NEW i, Use(p, l, x, i)
  PROVE  /\ pc'[p] = l /\ io'[p] = [x EXCEPT !.at = i] /\ DOMAIN io' = Proc
         /\ UNCHANGED <<disk, waiting, overtaken, file>>
         /\ \A q \in Proc \ {p} : pc'[q] = pc[q] /\ io'[q] = io[q]
BY DEF Use, TypeOK, Filling, synchVars

LEMMA ReadFilling ==
  ASSUME Filling, TypeOK, NEW p \in Proc, Read(p)
  PROVE  Filling'
<1>1. PICK first, last \in DOMAIN file[p].hdr.sectors :
             Use(p, "read", [NoIO EXCEPT !.first = first, !.last = last], first)
  BY DEF Read
<1> DEFINE x == [NoIO EXCEPT !.first = first, !.last = last]
<1>2. DOMAIN [x EXCEPT !.at = first] = DOMAIN NoIO
  BY DEF NoIO
<1> HIDE DEF x
<1>3. /\ pc'[p] = "read" /\ io'[p] = [x EXCEPT !.at = first] /\ DOMAIN io' = Proc
      /\ UNCHANGED <<disk, waiting, overtaken, file>>
      /\ \A q \in Proc \ {p} : pc'[q] = pc[q] /\ io'[q] = io[q]
  BY <1>1, UseEffect DEF x
<1>4. Filled(p)'
  BY <1>2, <1>3, FilledOutside
<1> QED
  BY <1>3, <1>4, FillingStep DEF Filling

\* A write begins with nothing read, at the first sector it must read if there
\* is one.
LEMMA WriteFilling ==
  ASSUME Filling, InOrder, TypeOK, NEW p \in Proc, Write(p)
  PROVE  Filling'
<1>1. PICK x \in Pieces(p) :
        \/ NeedsFirst(x) /\ Use(p, "fill", x, x.first)
        \/ ~NeedsFirst(x) /\ NeedsLast(x) /\ Use(p, "fill", x, x.last)
        \/ ~NeedsFirst(x) /\ ~NeedsLast(x) /\ Use(p, "write", x, x.first)
  BY DEF Write
<1>2. p \notin waiting
  BY DEF Write, InOrder, Standing, Stands
<1>3. PICK l \in {"fill", "write"}, i \in {x.first, x.last} :
        /\ Use(p, l, x, i)
        /\ l = "fill" => (NeedsFirst(x) => i = x.first)
        /\ l = "write" => ~NeedsFirst(x) /\ ~NeedsLast(x)
  BY <1>1
<1> DEFINE y == [x EXCEPT !.at = i]
           hdr == file[p].hdr
<1>4. /\ pc'[p] = l /\ io'[p] = y /\ DOMAIN io' = Proc
      /\ UNCHANGED <<disk, waiting, overtaken, file>>
      /\ \A q \in Proc \ {p} : pc'[q] = pc[q] /\ io'[q] = io[q]
  BY <1>3, UseEffect
<1>5. /\ DOMAIN y = DOMAIN NoIO /\ y.first = x.first /\ y.last = x.last /\ y.lo = x.lo /\ y.hi = x.hi
      /\ y.at = i /\ DOMAIN y.buf = {}
      /\ x.first \in DOMAIN hdr.sectors /\ x.last \in DOMAIN hdr.sectors /\ x.first <= x.last
  BY DEF Pieces, NoIO
<1> HIDE DEF y
<1>6. Filled(p)'
  <2>1. ASSUME hdr \in Header PROVE Asked(y, hdr)
    <3>1. x.first \in Nat /\ x.last \in Nat
      BY <1>5, <2>1 DEF Header
    <3> QED
      BY <1>5, <3>1 DEF Asked
  <2>2. Covered(p)'
    <3>1. CASE l = "fill"
      BY <1>2, <1>3, <1>4, <1>5, <3>1 DEF Covered, NeedsFirst
    <3>2. CASE l = "write"
      <4>1. x.lo = 0 /\ x.hi = SectorSize - 1
        BY <1>3, <3>2 DEF NeedsFirst, NeedsLast
      <4> QED
        BY <1>4, <1>5, <3>2, <4>1 DEF Covered
    <3> QED
      BY <3>1, <3>2
  <2>3. Fresh(p)'
    BY <1>4, <1>5 DEF Fresh, ToWrite
  <2> QED
    BY <1>4, <1>5, <2>1, <2>2, <2>3 DEF Filled
<1> QED
  BY <1>4, <1>6, FillingStep DEF Filling

\* What is read into buf is what is on the disk.
LEMMA ReadAccessFilling ==
  ASSUME Filling, OneRequest, NEW p \in Proc, ReadAccess(p)
  PROVE  Filling'
<1>1. waiting = {} /\ waiting' = {p} /\ UNCHANGED <<disk, pc, file, overtaken>>
  BY AtBegin DEF ReadAccess
<1>2. CASE pc[p] # "fill"
  <2>1. UNCHANGED io /\ pc[p] \notin {"fill", "write"}
    BY <1>2 DEF ReadAccess
  <2>2. Filled(p)'
    BY <1>1, <2>1, FilledOutside DEF Filling, Filled
  <2> QED
    BY <1>1, <2>1, <2>2, FillingStep DEF Filling
<1>3. CASE pc[p] = "fill"
  <2> DEFINE x == io[p]
             y == io'[p]
  <2>1. io' = [io EXCEPT ![p].buf = [i \in DOMAIN @ \cup {io[p].at} |->
                                       IF i = io[p].at THEN disk[Here(p)] ELSE @[i]]]
    BY <1>3 DEF ReadAccess
  <2>2. DOMAIN io = Proc /\ DOMAIN x = DOMAIN NoIO
    BY DEF Filling, Filled
  <2>3. /\ DOMAIN io' = Proc /\ DOMAIN y = DOMAIN NoIO
        /\ y.first = x.first /\ y.last = x.last /\ y.lo = x.lo /\ y.hi = x.hi /\ y.at = x.at
        /\ y.buf = [i \in DOMAIN x.buf \cup {x.at} |-> IF i = x.at THEN disk[Here(p)] ELSE x.buf[i]]
        /\ \A q \in Proc \ {p} : io'[q] = io[q]
    BY <2>1, <2>2 DEF NoIO
  <2> HIDE DEF x, y
  <2>4. ASSUME file[p].hdr \in Header
        PROVE  Asked(y, file[p].hdr) /\ Covered(p)' /\ Fresh(p)'
    <3>1. Asked(x, file[p].hdr) /\ Covered(p) /\ Fresh(p)
      BY <1>3, <2>4 DEF Filling, Filled, x
    <3>2. x.at \in {x.first, x.last}
      BY <1>3, <3>1 DEF Covered, x
    <3>3. Asked(y, file[p].hdr)
      BY <2>3, <3>1, <3>2 DEF Asked
    <3>4. Covered(p)'
      BY <1>1, <1>3, <2>3, <3>1 DEF Covered, NeedsFirst, x, y
    <3>5. Fresh(p)'
      BY <1>1, <1>3, <2>3, <3>1 DEF Fresh, ToWrite, Here, x, y
    <3> QED
      BY <3>3, <3>4, <3>5
  <2>5. Filled(p)'
    BY <1>1, <2>3, <2>4 DEF Filled, y
  <2> QED
    BY <1>1, <2>3, <2>5, FillingStep DEF Filling
<1> QED
  BY <1>2, <1>3

\* Another's write leaves p's sectors alone, or overtakes p.
LEMMA FilledBeside ==
  ASSUME InOrder, OneRequest, NEW p \in Proc, WriteAccess(p), NEW q \in Proc, q # p, Filled(q)
  PROVE  Filled(q)'
<1>1. waiting = {} /\ waiting' = {p} /\ UNCHANGED <<pc, io, file>>
  BY AtBegin DEF WriteAccess
<1> DEFINE w == Written(p)[1]
           v == Written(p)[2]
<1>2. /\ disk' = [disk EXCEPT ![w] = v]
      /\ overtaken'[q] = overtaken[q] \cup {i \in DOMAIN io[q].buf : ByteToSector(file[q].hdr, i) = w}
  BY DEF WriteAccess
<1> HIDE DEF w, v
<1>3. ASSUME pc[q] \in {"fill", "write"}, file[q].hdr \in Header
      PROVE  Asked(io[q], file[q].hdr) /\ Covered(q)' /\ Fresh(q)'
  <2>1. Asked(io[q], file[q].hdr) /\ Covered(q) /\ Fresh(q)
    BY <1>3 DEF Filled
  <2>2. Covered(q)'
    BY <1>1, <2>1 DEF Covered
  <2>3. ToWrite(q)' = ToWrite(q)
    BY <1>1 DEF ToWrite
  <2>4. ASSUME NEW i \in ToWrite(q) \ overtaken'[q]
        PROVE  io[q].buf[i] = disk'[ByteToSector(file[q].hdr, i)]
    <3>1. i \in DOMAIN io[q].buf /\ i \notin overtaken[q] /\ ByteToSector(file[q].hdr, i) # w
      BY <1>2, <2>4 DEF ToWrite
    <3>2. ByteToSector(file[q].hdr, i) \in Sectors
      BY <1>3, <2>1, <3>1 DEF Asked, Header, ByteToSector
    <3>3. disk'[ByteToSector(file[q].hdr, i)] = disk[ByteToSector(file[q].hdr, i)]
      BY <1>2, <3>1, <3>2 DEF InOrder, Shapes
    <3> QED
      BY <2>1, <2>4, <3>1, <3>3 DEF Fresh
  <2> QED
    BY <1>1, <2>1, <2>2, <2>3, <2>4 DEF Fresh
<1> QED
  BY <1>1, <1>3 DEF Filled

\* p's own write is to one sector of its file: the other is as it was.
LEMMA WriteAccessFilling ==
  ASSUME Filling, InOrder, OneRequest, NEW p \in Proc, WriteAccess(p), ~spoiled'
  PROVE  Filling'
<1>1. waiting = {} /\ waiting' = {p} /\ UNCHANGED <<pc, io, file>> /\ DOMAIN overtaken' = Proc
  BY AtBegin DEF WriteAccess
<1>2. Filled(p)'
  <2>1. CASE pc[p] # "write"
    <3>1. pc[p] \notin {"fill", "write"}
      BY <2>1 DEF WriteAccess, Writes
    <3> QED
      BY <1>1, <3>1, FilledOutside DEF Filling, Filled
  <2>2. CASE pc[p] = "write"
    <3> DEFINE hdr == file[p].hdr
               at  == io[p].at
    <3>1. ~Stale(p)
      BY <2>2 DEF WriteAccess
    <3>2. hdr \in Header /\ \A i, j \in DOMAIN hdr.sectors : hdr.sectors[i] = hdr.sectors[j] => i = j
      BY <3>1, NotStale DEF Proper
    <3>3. Asked(io[p], hdr) /\ Covered(p) /\ Fresh(p)
      BY <2>2, <3>2 DEF Filling, Filled
    <3>4. at \in DOMAIN hdr.sectors
      BY <3>2, <3>3, AskedAt
    <3>5. \A s : s # hdr.sectors[at] => disk'[s] = disk[s] \/ s \notin Sectors
      BY <2>2 DEF WriteAccess, Written, Here, ByteToSector, InOrder, Shapes
    <3>6. overtaken'[p] = overtaken[p]
      BY DEF WriteAccess
    <3>7. Covered(p)'
      BY <1>1, <2>2, <3>3 DEF Covered
    <3>8. ASSUME NEW i \in ToWrite(p)', i \notin overtaken[p]
          PROVE  io[p].buf[i] = disk'[hdr.sectors[i]]
      <4>1. i \in DOMAIN io[p].buf /\ i > at
        BY <1>1, <2>2, <3>8 DEF ToWrite
      <4>2. i \in DOMAIN hdr.sectors /\ hdr.sectors[i] \in Sectors
        BY <3>2, <3>3, <4>1 DEF Asked, Header
      <4>3. i # at
        BY <3>2, <3>4, <4>1, <4>2 DEF Header
      <4>4. hdr.sectors[i] # hdr.sectors[at]
        BY <3>2, <3>4, <4>2, <4>3
      <4>5. i \in ToWrite(p)
        BY <4>1 DEF ToWrite
      <4>6. io[p].buf[i] = disk[hdr.sectors[i]]
        BY <3>3, <3>8, <4>5 DEF Fresh, ByteToSector
      <4> QED
        BY <3>5, <4>2, <4>4, <4>6
    <3>9. Fresh(p)'
      BY <1>1, <3>6, <3>8 DEF Fresh, ByteToSector
    <3> QED
      BY <1>1, <3>3, <3>7, <3>9 DEF Filling, Filled
  <2> QED
    BY <2>1, <2>2
<1>3. \A q \in Proc \ {p} : Filled(q)'
  BY FilledBeside DEF Filling
<1> QED
  BY <1>1, <1>2, <1>3 DEF Filling

\* A step of Create, Open or Remove.
LEMMA OtherResumed ==
  ASSUME InOrder, TypeOK, NEW p \in Proc,
         \/ AfterCreateDir(p) \/ AfterCreateMap(p) \/ AfterCreateWrite(p)
         \/ AfterRemoveRead(p) \/ AfterRemoveWrite(p) \/ AfterOpen(p)
  PROVE  /\ pc'[p] \notin {"fill", "write"}
         /\ \A q \in Proc \ {p} : pc'[q] = pc[q] /\ file'[q] = file[q]
<1>1. \E l, m : Goto(p, l, m) /\ l \notin {"fill", "write"}
  BY DEF AfterCreateDir, AfterCreateMap, AfterCreateWrite, AfterRemoveRead, AfterRemoveWrite, AfterOpen, Return
<1>2. UNCHANGED file \/ \E f : file' = [file EXCEPT ![p] = f]
  BY DEF AfterCreateDir, AfterCreateMap, AfterCreateWrite, AfterRemoveRead, AfterRemoveWrite, AfterOpen
<1>3. \A q \in Proc \ {p} : file'[q] = file[q]
  BY <1>2 DEF InOrder, Shapes
<1> QED
  BY <1>1, <1>3, GotoEffect DEF InOrder

\* When what has to be read has been, the write begins; then it is of one
\* sector after the other.
LEMMA AfterUseFilling ==
  ASSUME Filling, TypeOK, OneRequest, NEW p \in Proc, End(p), UNCHANGED disk, AfterUse(p)
  PROVE  Filling'
<1> DEFINE x   == io[p]
           y   == io'[p]
           hdr == file[p].hdr
<1>1. waiting = {p} /\ waiting' = {}
  BY AtEnd
<1>2. /\ pc'[p] \in {"none", "read", "fill", "write"} /\ UNCHANGED file
      /\ \A q \in Proc \ {p} : pc'[q] = pc[q]
  BY UseGoesOn
<1>3. DOMAIN io = Proc /\ DOMAIN overtaken = Proc /\ DOMAIN x = DOMAIN NoIO
  BY DEF Filling, Filled
<1>4. /\ DOMAIN io' = Proc /\ DOMAIN overtaken' = Proc
      /\ \A q \in Proc \ {p} : io'[q] = io[q] /\ overtaken'[q] = overtaken[q]
  BY <1>3 DEF AfterUse, Continue
<1>5. ASSUME NEW l, NEW i, Continue(p, l, i)
      PROVE  /\ pc'[p] = l /\ UNCHANGED overtaken /\ DOMAIN y = DOMAIN NoIO /\ y.at = i
             /\ y.first = x.first /\ y.last = x.last /\ y.lo = x.lo /\ y.hi = x.hi /\ y.buf = x.buf
  BY <1>3, <1>5 DEF Continue, TypeOK, NoIO
<1>6. ASSUME hdr \in Header, Asked(x, hdr)
      PROVE  /\ x.first \in Nat /\ x.last \in Nat /\ x.at \in Nat /\ x.first <= x.last
             /\ x.first <= x.at /\ x.at <= x.last
             /\ x.first \in DOMAIN hdr.sectors /\ x.last \in DOMAIN hdr.sectors
             /\ \A i \in DOMAIN x.buf : i = x.first \/ i = x.last
  BY <1>6 DEF Asked, Header
<1> HIDE DEF x, y
<1>7. CASE pc'[p] \notin {"fill", "write"}
  <2>1. DOMAIN io'[p] = DOMAIN NoIO
    <3>1. (\E l, i : Continue(p, l, i)) \/ io' = [io EXCEPT ![p] = NoIO]
      BY DEF AfterUse
    <3> QED
      BY <1>3, <1>5, <3>1 DEF y
  <2>2. Filled(p)'
    BY <1>7, <2>1, FilledOutside
  <2> QED
    BY <1>1, <1>2, <1>4, <2>2, FillingStep
<1>8. CASE pc'[p] \in {"fill", "write"}
  <2>1. pc[p] \in {"fill", "write"}
    BY <1>8 DEF AfterUse, Continue, TypeOK
  <2>2. PICK l, i : /\ Continue(p, l, i)
                    /\ \/ l = "fill" /\ pc[p] = "fill" /\ x.at # x.last /\ i = x.last
                       \/ l = "write" /\ pc[p] = "fill" /\ i = x.first /\ (x.at = x.last \/ ~NeedsLast(x))
                       \/ l = "write" /\ pc[p] = "write" /\ i = x.at + 1 /\ x.at < x.last
    BY <1>8, <2>1 DEF AfterUse, TypeOK, x
  <2>3. /\ pc'[p] = l /\ UNCHANGED overtaken /\ DOMAIN y = DOMAIN NoIO /\ y.at = i
        /\ y.first = x.first /\ y.last = x.last /\ y.lo = x.lo /\ y.hi = x.hi /\ y.buf = x.buf
    BY <1>5, <2>2
  <2>4. ASSUME hdr \in Header
        PROVE  Asked(y, hdr) /\ Covered(p)' /\ Fresh(p)'
    <3>1. Asked(x, hdr) /\ Covered(p) /\ Fresh(p)
      BY <2>1, <2>4 DEF Filling, Filled, x
    <3>2. /\ x.first \in Nat /\ x.last \in Nat /\ x.at \in Nat /\ x.first <= x.last
          /\ x.first <= x.at /\ x.at <= x.last
          /\ x.first \in DOMAIN hdr.sectors /\ x.last \in DOMAIN hdr.sectors
          /\ \A j \in DOMAIN x.buf : j = x.first \/ j = x.last
      BY <1>6, <2>4, <3>1
    <3> HIDE DEF hdr
    <3>3. Asked(y, hdr)
      <4>1. i \in x.first .. x.last
        BY <2>2, <3>2
      <4> QED
        BY <2>3, <3>2, <4>1 DEF Asked
    <3>4. Covered(p)'
      <4>1. CASE pc[p] = "fill"
        <5>1. x.at \in DOMAIN x.buf /\ x.at \in {x.first, x.last} /\ (NeedsFirst(x) => x.first \in DOMAIN x.buf)
          BY <1>1, <3>1, <4>1 DEF Covered, x
        <5>2. CASE l = "fill"
          BY <1>1, <2>2, <2>3, <5>1, <5>2 DEF Covered, NeedsFirst, y
        <5>3. CASE l = "write"
          <6>1. x.lo # 0 => x.first \in DOMAIN x.buf
            BY <5>1 DEF NeedsFirst
          <6>2. x.hi # SectorSize - 1 => x.last \in DOMAIN x.buf
            BY <2>2, <4>1, <5>1, <5>3 DEF NeedsFirst, NeedsLast
          <6> QED
            BY <2>3, <5>3, <6>1, <6>2 DEF Covered, y
        <5> QED
          BY <2>2, <5>2, <5>3
      <4>2. CASE pc[p] = "write"
        BY <2>2, <2>3, <3>1, <4>2 DEF Covered, x, y
      <4> QED
        BY <2>1, <4>1, <4>2
    <3>5. Fresh(p)'
      <4>1. ToWrite(p)' \subseteq ToWrite(p)
        <5> SUFFICES ASSUME NEW j \in DOMAIN x.buf, l = "fill" \/ j >= i
                     PROVE  j \in ToWrite(p)
          BY <2>2, <2>3, <3>2 DEF ToWrite, y
        <5> QED
          BY <2>2, <3>2 DEF ToWrite, x
      <4>2. file' = file
        BY <1>2
      <4> QED
        BY <2>3, <3>1, <4>1, <4>2 DEF Fresh, x, y
    <3> QED
      BY <3>3, <3>4, <3>5 DEF hdr
  <2>5. Filled(p)'
    BY <1>2, <2>3, <2>4 DEF Filled, y
  <2> QED
    BY <1>1, <1>2, <1>4, <2>5, FillingStep
<1> QED
  BY <1>7, <1>8

LEMMA ResumeFilling ==
  ASSUME Filling, InOrder, TypeOK, OneRequest, NEW p \in Proc, Resume(p)
  PROVE  Filling'
<1>1. End(p) /\ UNCHANGED disk /\ waiting = {p} /\ waiting' = {}
  BY AtEnd DEF Resume
<1>2. CASE AfterUse(p)
  BY <1>1, <1>2, AfterUseFilling
<1>3. CASE ~AfterUse(p)
  <2>1. UNCHANGED <<io, overtaken>>
    BY <1>3 DEF Resume
  <2>2. pc'[p] \notin {"fill", "write"} /\ \A q \in Proc \ {p} : pc'[q] = pc[q] /\ file'[q] = file[q]
    BY <1>3, OtherResumed DEF Resume
  <2>3. Filled(p)'
    BY <2>1, <2>2, FilledOutside DEF Filling, Filled
  <2> QED
    BY <1>1, <2>1, <2>2, <2>3, FillingStep DEF Filling
<1> QED
  BY <1>2, <1>3

LEMMA CrashFilling ==
  ASSUME Crash PROVE Filling'
<1>1. /\ DOMAIN io' = Proc /\ DOMAIN overtaken' = Proc
      /\ \A p \in Proc : io'[p] = NoIO /\ pc'[p] = "none"
  BY DEF Crash
<1>2. \A p \in Proc : Filled(p)'
  BY <1>1, FilledOutside
<1> QED
  BY <1>1, <1>2 DEF Filling

LEMMA DeviceFilling ==
  ASSUME Filling, UNCHANGED <<disk, fsVars, waiting>> PROVE Filling'
<1>1. UNCHANGED <<disk, pc, io, file, overtaken, waiting>>
  BY DEF fsVars
<1> QED
  BY <1>1, FilledStill DEF Filling

LEMMA FillingInit == Init => Filling
<1> SUFFICES ASSUME Init PROVE Filling
  OBVIOUS
<1>1. /\ DOMAIN io = Proc /\ DOMAIN overtaken = Proc
      /\ \A p \in Proc : io[p] = NoIO /\ pc[p] = "none"
  BY DEF Init
<1> QED
  BY <1>1 DEF Filling, Filled

-----------------------------------------------------------------------------
(* The invariant holds *)

\* A crash outside the windows leaves the disk as it should be, and no calls.
LEMMA CrashOrder ==
  ASSUME InOrder, Crash, ~spoiled' PROVE InOrder'
<1>1. /\ UNCHANGED <<disk, written>> /\ waiting' = {}
      /\ \A p \in Proc : pc'[p] = "none" /\ mem'[p] = NoLocals
      /\ DOMAIN mem' = Proc /\ DOMAIN file' = Proc
  BY DEF Crash, SynchRestart
<1>2. Dir' = Dir /\ Used' = Used /\ \A s : Own(s)' = Own(s)
  BY <1>1 DEF Dir, Used, Own
<1>3. \A p \in Proc : ~InWindow(p) /\ ~InWindow(p)'
  BY <1>1 DEF Crash, InWindow
<1>4. Shapes'
  BY <1>1, <1>2 DEF InOrder, Shapes
<1>5. OneCall' /\ Standing'
  BY <1>1 DEF OneCall, InFileSystem, CreateLabels, RemoveLabels, OpenLabels, Standing, Stands
<1>6. Layout' /\ DataHeld'
  BY <1>1, <1>2 DEF InOrder, Layout, DataHeld
<1>7. MapKept'
  BY <1>1, <1>2, <1>3 DEF InOrder, MapKept, Half
<1> QED
  BY <1>4, <1>5, <1>6, <1>7 DEF InOrder

\* So does a step of the device alone.
LEMMA DeviceOrder ==
  ASSUME InOrder, UNCHANGED <<disk, fsVars, waiting>> PROVE InOrder'
<1>1. Dir' = Dir /\ Used' = Used /\ \A s : Own(s)' = Own(s)
  BY DEF Dir, Used, Own
<1>2. UNCHANGED <<disk, pc, mem, file, written, waiting>>
  BY DEF fsVars
<1>3. Shapes' /\ OneCall' /\ Layout' /\ DataHeld'
  BY <1>1, <1>2 DEF InOrder, Shapes, OneCall, InFileSystem, Layout, DataHeld
<1>4. MapKept'
  BY <1>1, <1>2 DEF InOrder, MapKept, Half, InWindow
<1>5. Standing'
  BY <1>2, StandsStill DEF InOrder, Standing
<1> QED
  BY <1>3, <1>4, <1>5 DEF InOrder

LEMMA FSInvStep == FSInv /\ [Next]_vars => FSInv'
<1> SUFFICES ASSUME FSInv, [Next]_vars, ~spoiled' PROVE InOrder' /\ Filling'
  BY RequestsStep DEF FSInv
<1>1. RequestsSound /\ TypeOK /\ OneRequest
  BY DEF FSInv, RequestsSound
<1>2. CASE UNCHANGED vars
  <2>1. UNCHANGED <<disk, fsVars, waiting, spoiled>>
    BY <1>2 DEF vars, fsVars, synchVars
  <2> QED
    BY <2>1, DeviceOrder, DeviceFilling DEF FSInv
<1>3. CASE Next
  <2>1. InOrder /\ Filling
    BY <1>3 DEF FSInv, Next
  <2>2. ASSUME NEW p \in Proc, NEW n \in Name, (\E k \in Sizes : Create(p, n, k)) \/ Open(p, n) \/ Remove(p, n)
        PROVE  InOrder' /\ Filling'
    BY <1>1, <2>1, <2>2, CallOrder, CallFilling, FSAssumption DEF Create, Open, Remove
  <2>3. ASSUME NEW p \in Proc, Read(p) \/ Write(p)
        PROVE  InOrder' /\ Filling'
    <3>1. InOrder'
      BY <1>1, <2>1, <2>3, UseStarts, UseOrder
    <3>2. Filling'
      BY <1>1, <2>1, <2>3, ReadFilling, WriteFilling
    <3> QED
      BY <3>1, <3>2
  <2>4. ASSUME NEW p \in Proc, Close(p)
        PROVE  InOrder' /\ Filling'
    BY <2>1, <2>4, CloseOrder, CloseFilling
  <2>5. ASSUME NEW p \in Proc, WriteAccess(p) \/ ReadAccess(p) \/ Resume(p)
        PROVE  InOrder' /\ Filling'
    <3>1. InOrder'
      BY <1>1, <2>1, <2>5, WriteAccessOrder, ReadOrder, ResumeOrder
    <3>2. Filling'
      BY <1>1, <2>1, <2>5, WriteAccessFilling, ReadAccessFilling, ResumeFilling
    <3> QED
      BY <3>1, <3>2
  <2>6. CASE DiskInterrupt /\ UNCHANGED <<disk, fsVars>>
    BY <2>1, <2>6, DeviceOrder, DeviceFilling DEF DiskInterrupt
  <2>7. CASE Crash
    BY <2>1, <2>7, CrashOrder, CrashFilling
  <2> QED
    BY <1>3, <2>2, <2>3, <2>4, <2>5, <2>6, <2>7 DEF Next
<1> QED
  BY <1>2, <1>3

LEMMA FSInvInit == Init => FSInv
BY RequestsInit, OrderInit, FillingInit DEF FSInv

LEMMA FilesAreUsed ==
  ASSUME InOrder
  PROVE  /\ \A f \in Files : \E e \in Used : f = Dir[e]
         /\ \A e \in Used : Dir[e] \in Files
         /\ \A e \in Used : SectorsOf(Dir[e]) = Own(Dir[e].sector) /\ (HalfDone(Dir[e]) <=> Half(e))
BY DEF Files, Used, Dir, SectorsOf, Own, HalfDone, Half

LEMMA OrderConsistent == FSInv => DiskConsistent /\ DataKept
<1> SUFFICES ASSUME InOrder, ~spoiled PROVE DiskConsistent /\ DataKept
  BY DEF FSInv, DiskConsistent, DataKept
<1>1. ASSUME NEW f \in Files, NEW g \in Files, f # g
      PROVE  f.name # g.name /\ SectorsOf(f) \cap SectorsOf(g) = {}
  <2>1. PICK e \in Used, d \in Used : f = Dir[e] /\ g = Dir[d]
    BY FilesAreUsed
  <2> QED
    BY <1>1, <2>1, FilesAreUsed DEF InOrder, Layout
<1>2. ASSUME NEW f \in Files
      PROVE  /\ SectorsOf(f) \cap System = {}
             /\ Cardinality(SectorsOf(f)) = 1 + Len(disk[f.sector].sectors)
  <2>1. PICK e \in Used : f = Dir[e]
    BY FilesAreUsed
  <2>2. Proper(disk[f.sector], f.sector)
    BY <2>1 DEF InOrder, Layout
  <2>3. SectorsOf(f) \cap System = {}
    BY <2>2 DEF Proper, SectorsOf
  <2> QED
    BY <2>2, <2>3, ProperCount DEF SectorsOf
<1>3. disk[MapData] = System \cup UNION {SectorsOf(f) : f \in {g \in Files : ~HalfDone(g)}}
  <2>1. \A s \in Sectors : s \in disk[MapData] <=>
                             s \in System \/ \E e \in Used : ~Half(e) /\ s \in Own(Dir[e].sector)
    BY DEF InOrder, MapKept
  <2>2. \A s : (\E e \in Used : ~Half(e) /\ s \in Own(Dir[e].sector))
                 <=> \E f \in Files : ~HalfDone(f) /\ s \in SectorsOf(f)
    BY FilesAreUsed
  <2>3. \A f \in Files : SectorsOf(f) \subseteq Sectors
    <3> SUFFICES ASSUME NEW e \in Used PROVE Own(Dir[e].sector) \subseteq Sectors
      BY FilesAreUsed
    <3> QED
      BY FilesSectors DEF Own
  <2>4. disk[MapData] \subseteq Sectors /\ System \subseteq Sectors
    BY Constants DEF InOrder, Shapes
  <2> QED
    BY <2>1, <2>2, <2>3, <2>4
<1>4. ASSUME NEW f \in Files
      PROVE  written[f.name] = [i \in DOMAIN disk[f.sector].sectors |->
                                  disk[disk[f.sector].sectors[i]]]
  <2>1. PICK e \in Used : f = Dir[e]
    BY FilesAreUsed
  <2>2. written[f.name] = On(disk, disk[f.sector])
    BY <2>1, Zenon DEF InOrder, DataHeld
  <2> QED
    BY <2>2, Zenon DEF On
<1> QED
  BY <1>1, <1>2, <1>3, <1>4 DEF DiskConsistent, DataKept

(***************************************************************************)
(* At every moment the machine may stop, no two files share a sector and   *)
(* the bitmap on the disk marks exactly what the files own, but for the    *)
(* one file whose Create or Remove is between its two writes               *)
(* (filesys/filesys.cc:186-206, 265-281).                                  *)
(***************************************************************************)
THEOREM DiskConsistentCorrect == Spec => []DiskConsistent
BY FSInvInit, FSInvStep, OrderConsistent, PTL DEF Spec

(***************************************************************************)
(* A file holds what was last written to it, byte by byte, whatever is     *)
(* created, removed, opened or written beside it and wherever the machine  *)
(* crashed, while no crash fell between the two writes of a call and no    *)
(* write went through an OpenFile whose file was removed.  A write that    *)
(* another write of the same sector overtook, between its ReadSector and   *)
(* its WriteSector, leaves there what it had read: the other is lost       *)
(* (filesys/openfile.cc:160-198, filehdr.cc:44).                           *)
(***************************************************************************)
THEOREM DataKeptCorrect == Spec => []DataKept
BY FSInvInit, FSInvStep, OrderConsistent, PTL DEF Spec
=============================================================================
