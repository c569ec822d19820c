-------------------------- MODULE AddrSpaceProofs --------------------------
(***************************************************************************)
(* Theorems about AddrSpace, for every set of processes and programs and   *)
(* for a memory of any number of frames of any size.                       *)
(***************************************************************************)
EXTENDS AddrSpace, FiniteSetTheorems, SequenceTheorems, TLAPS

-----------------------------------------------------------------------------
(* Taking frames *)

\* The frames below and including f that are clear; FindAndSet gives f to the
\* call of this number.
Below(f) == {g \in Frame \ marked : g <= f}

LEMMA FramesFinite ==
  ASSUME marked \subseteq Frame
  PROVE  /\ IsFiniteSet(Frame) /\ IsFiniteSet(Frame \ marked)
         /\ Cardinality(Frame \ marked) = NumClear
         /\ NumClear \in Nat
<1>1. NumPhysPages \in Nat \ {0}
  BY AddrSpaceAssumption
<1>2. IsFiniteSet(Frame) /\ Cardinality(Frame) = NumPhysPages
  BY <1>1, FS_Interval DEF Frame
<1>3. Frame \cap marked = marked
  OBVIOUS
<1>4. /\ IsFiniteSet(Frame \ marked)
      /\ Cardinality(Frame \ marked) = Cardinality(Frame) - Cardinality(Frame \cap marked)
  BY <1>2, FS_Difference
<1>5. Cardinality(Frame \ marked) \in Nat
  BY <1>4, FS_CardinalityType
<1> QED
  BY <1>2, <1>3, <1>4, <1>5 DEF NumClear

LEMMA BelowCounts ==
  ASSUME marked \subseteq Frame
  PROVE  /\ \A f \in Frame \ marked : Cardinality(Below(f)) \in 1 .. NumClear
         /\ \A f, h \in Frame \ marked : Cardinality(Below(f)) = Cardinality(Below(h)) => f = h
<1> DEFINE S == Frame \ marked
<1>1. IsFiniteSet(S) /\ Cardinality(S) = NumClear /\ NumClear \in Nat
  BY FramesFinite
<1>2. \A f \in S : IsFiniteSet(Below(f)) /\ Cardinality(Below(f)) <= NumClear
  <2> SUFFICES ASSUME NEW f \in S
               PROVE  IsFiniteSet(Below(f)) /\ Cardinality(Below(f)) <= NumClear
    OBVIOUS
  <2>1. Below(f) \in SUBSET S
    BY DEF Below
  <2> HIDE DEF S
  <2> QED
    BY <1>1, <2>1, FS_Subset
<1>3. \A f \in S : Cardinality(Below(f)) \in Nat
  BY <1>2, FS_CardinalityType
<1>4. \A f \in S : Cardinality(Below(f)) # 0
  <2> SUFFICES ASSUME NEW f \in S, Cardinality(Below(f)) = 0 PROVE FALSE
    OBVIOUS
  <2>1. f \in Below(f)
    BY DEF Below, Frame
  <2>2. Below(f) = {}
    BY <1>2, FS_EmptySet
  <2> QED
    BY <2>1, <2>2
<1>5. ASSUME NEW f \in S, NEW h \in S, f < h
      PROVE  Cardinality(Below(f)) # Cardinality(Below(h))
  <2>1. Below(f) \in SUBSET Below(h)
    BY <1>5 DEF Below, Frame
  <2>2. h \in Below(h) /\ h \notin Below(f)
    BY <1>5 DEF Below, Frame
  <2> QED
    BY <1>2, <2>1, <2>2, FS_Subset
<1>6. \A f, h \in S : f < h \/ h < f \/ f = h
  BY DEF Frame
<1> QED
  <2> HIDE DEF S
  <2>1. \A f \in S : Cardinality(Below(f)) \in 1 .. NumClear
    BY <1>1, <1>2, <1>3, <1>4
  <2>2. \A f, h \in S : Cardinality(Below(f)) = Cardinality(Below(h)) => f = h
    BY <1>5, <1>6
  <2> QED
    BY <2>1, <2>2 DEF S

\* As many calls of FindAndSet as there are clear frames find one each, and no
\* two the same: NumClear's answer keeps -1 out of the page tables.
THEOREM FindAndSetFinds ==
  ASSUME marked \subseteq Frame, NEW n \in Nat, n <= NumClear
  PROVE  /\ FindAndSet(n) \in Seq(Frame \cup {-1}) /\ DOMAIN FindAndSet(n) = 1 .. n
         /\ \A i \in 1 .. n : FindAndSet(n)[i] \in Frame \ marked
         /\ \A i, j \in 1 .. n : FindAndSet(n)[i] = FindAndSet(n)[j] => i = j
<1> DEFINE S == Frame \ marked
           r == [f \in S |-> Cardinality(Below(f))]
           table == FindAndSet(n)
<1>1. IsFiniteSet(S) /\ Cardinality(S) = NumClear /\ NumClear \in Nat
  BY FramesFinite
<1>2. IsFiniteSet(1 .. NumClear) /\ Cardinality(1 .. NumClear) = NumClear
  BY <1>1, FS_Interval
<1>3. r \in Injection(S, 1 .. NumClear)
  BY BelowCounts DEF Injection, IsInjective
<1>4. r \in Surjection(S, 1 .. NumClear)
  <2> HIDE DEF r, S
  <2> QED
    BY <1>1, <1>2, <1>3, FS_Injection
<1>5. \A i \in 1 .. NumClear : \E f \in S : Cardinality(Below(f)) = i
  BY <1>4 DEF Surjection
<1>6. \A i \in 1 .. n : \E f \in S : Cardinality(Below(f)) = i
  BY <1>1, <1>5
<1>7. table = [i \in 1 .. n |-> IF \E f \in S : Cardinality(Below(f)) = i
                                THEN CHOOSE f \in S : Cardinality(Below(f)) = i ELSE -1]
  BY DEF FindAndSet, Below
<1>8. \A i \in 1 .. n : table[i] \in S /\ Cardinality(Below(table[i])) = i
  <2> HIDE DEF S
  <2> QED
    BY <1>6, <1>7
<1>9. DOMAIN table = 1 .. n /\ table \in [1 .. n -> Frame \cup {-1}]
  <2>1. DOMAIN table = 1 .. n
    BY <1>7
  <2>2. \A i \in 1 .. n : table[i] \in Frame \cup {-1}
    BY <1>8
  <2>3. table = [i \in 1 .. n |-> table[i]]
    BY <1>7
  <2> HIDE DEF table
  <2> QED
    BY <2>1, <2>2, <2>3
<1>10. table \in Seq(Frame \cup {-1})
  BY <1>9, SeqDef
<1> QED
  BY <1>8, <1>9, <1>10

-----------------------------------------------------------------------------
(* The sizes and the contents of an image *)

LEMMA DivRoundUpType ==
  ASSUME NEW n \in Nat, NEW s \in Nat \ {0}
  PROVE  DivRoundUp(n, s) \in Nat /\ (n # 0 => DivRoundUp(n, s) # 0)
<1>1. n \div s \in Nat
  OBVIOUS
<1>2. n % s \in 0 .. s - 1
  OBVIOUS
<1>3. n % s = 0 /\ n \div s = 0 => n = 0
  OBVIOUS
<1>4. DivRoundUp(n, s) = (n \div s) + IF n % s # 0 THEN 1 ELSE 0
  BY DEF DivRoundUp
<1> QED
  BY <1>1, <1>2, <1>3, <1>4

LEMMA LastPageSizeType ==
  ASSUME NEW n \in Nat
  PROVE  LastPageSize(n) \in 0 .. PageSize
<1>1. PageSize \in Nat \ {0}
  BY AddrSpaceAssumption
<1>2. (n - 1) % PageSize \in 0 .. PageSize - 1
  BY <1>1
<1> QED
  BY <1>1, <1>2 DEF LastPageSize

\* A program needs a page at least: its stack's.
LEMMA NumPagesType ==
  ASSUME NEW h \in Programs
  PROVE  NumPages(h) \in Nat \ {0}
<1>1. /\ h.code \in Nat /\ h.ro \in Nat /\ h.init \in Nat /\ h.uninit \in Nat
      /\ StackSize \in Nat \ {0} /\ PageSize \in Nat \ {0}
  BY AddrSpaceAssumption
<1>2. h.code + h.ro + h.init + h.uninit + StackSize \in Nat \ {0}
  BY <1>1
<1> QED
  BY <1>1, <1>2, DivRoundUpType DEF NumPages

\* What one ReadAt call is.
ReadCall ==
  [seg : {"code", "ro", "init"}, page : Int, offset : Int, count : Int, from : Nat]

LEMMA PageReadsType ==
  ASSUME NEW seg \in {"code", "ro", "init"}, NEW first \in Int, NEW n \in Nat,
         NEW last \in Int, NEW from \in Nat
  PROVE  PageReads(seg, first, n, last, from) \subseteq ReadCall
<1>1. PageSize \in Nat
  BY AddrSpaceAssumption
<1>2. \A j \in 0 .. n - 1 : j \in Nat /\ from + j * PageSize \in Nat
  BY <1>1
<1> QED
  BY <1>1, <1>2 DEF PageReads, ReadCall

LEMMA ReadsType ==
  ASSUME NEW h \in Programs
  PROVE  Reads(h) \subseteq ReadCall
<1> DEFINE codePages == DivRoundUp(h.code, PageSize)
           codeLast  == LastPageSize(h.code)
           roFirst   == Least(PageSize - codeLast, h.ro)
           roPages   == DivRoundUp(h.ro - roFirst, PageSize)
           roLast    == LastPageSize(h.ro - roFirst)
           initFirst == Least(PageSize - roLast, h.init)
           initPages == DivRoundUp(h.init - initFirst, PageSize)
           initLast  == LastPageSize(h.init - initFirst)
           roEnd     == codePages + roPages
<1>1. /\ h.code \in Nat /\ h.ro \in Nat /\ h.init \in Nat /\ PageSize \in Nat \ {0}
  BY AddrSpaceAssumption
<1>2. codePages \in Nat /\ codeLast \in 0 .. PageSize
  BY <1>1, DivRoundUpType, LastPageSizeType
<1>3. roFirst \in Nat /\ h.ro - roFirst \in Nat
  <2> HIDE DEF codeLast
  <2> QED
    BY <1>1, <1>2 DEF Least
<1>4. roPages \in Nat /\ roLast \in 0 .. PageSize
  <2> HIDE DEF roFirst
  <2> QED
    BY <1>1, <1>3, DivRoundUpType, LastPageSizeType
<1>5. initFirst \in Nat /\ h.init - initFirst \in Nat
  <2> HIDE DEF roLast
  <2> QED
    BY <1>1, <1>4 DEF Least
<1>6. initPages \in Nat /\ initLast \in 0 .. PageSize
  <2> HIDE DEF initFirst
  <2> QED
    BY <1>1, <1>5, DivRoundUpType, LastPageSizeType
<1> HIDE DEF codePages, codeLast, roFirst, roPages, roLast, initFirst, initPages, initLast
<1>7. /\ PageReads("code", 0, codePages, codeLast, 0) \subseteq ReadCall
      /\ PageReads("ro", codePages, roPages, roLast, roFirst) \subseteq ReadCall
      /\ PageReads("init", roEnd, initPages, initLast, initFirst) \subseteq ReadCall
  <2>1. codePages \in Int /\ codeLast \in Int /\ roLast \in Int /\ initLast \in Int /\ roEnd \in Int
    BY <1>1, <1>2, <1>4, <1>6
  <2>2. PageReads("code", 0, codePages, codeLast, 0) \subseteq ReadCall
    <3>1. \A zero \in Nat : PageReads("code", zero, codePages, codeLast, zero) \subseteq ReadCall
      BY <1>2, <2>1, PageReadsType
    <3> QED
      BY <3>1
  <2>3. PageReads("ro", codePages, roPages, roLast, roFirst) \subseteq ReadCall
    BY <1>3, <1>4, <2>1, PageReadsType
  <2>4. PageReads("init", roEnd, initPages, initLast, initFirst) \subseteq ReadCall
    BY <1>5, <1>6, <2>1, PageReadsType
  <2> QED
    BY <2>2, <2>3, <2>4
<1>8. /\ FirstRead("ro", codePages - 1, codeLast, roFirst) \subseteq ReadCall
      /\ FirstRead("init", roEnd - 1, roLast, initFirst) \subseteq ReadCall
  BY <1>2, <1>3, <1>4, <1>5 DEF FirstRead, ReadCall
<1>9. Reads(h) =
        PageReads("code", 0, codePages, codeLast, 0)
        \cup (IF h.ro > 0 /\ codeLast # PageSize
                THEN FirstRead("ro", codePages - 1, codeLast, roFirst) ELSE {})
        \cup (IF h.ro > 0 THEN PageReads("ro", codePages, roPages, roLast, roFirst) ELSE {})
        \cup (IF h.init > 0 /\ roLast # PageSize /\ roPages > 0
                THEN FirstRead("init", roEnd - 1, roLast, initFirst) ELSE {})
        \cup (IF h.init > 0 THEN PageReads("init", roEnd, initPages, initLast, initFirst) ELSE {})
  BY DEF Reads, codePages, codeLast, roFirst, roPages, roLast, initFirst, initPages, initLast
<1> HIDE DEF roEnd
<1> QED
  BY <1>7, <1>8, <1>9

\* A byte that Load puts in a page is nought or one of the process's own file.
LEMMA LoadedType ==
  ASSUME NEW p \in Proc, NEW h \in Programs, NEW page \in Int, NEW o \in Offset
  PROVE  \/ Loaded(p, h, page, o) = Zero
         \/ /\ Loaded(p, h, page, o) \in Byte
            /\ Loaded(p, h, page, o)[1] = p
<1> DEFINE covers == {r \in Reads(h) : r.page = page /\ o \in r.offset .. r.offset + r.count - 1}
           r == CHOOSE x \in covers : TRUE
<1>1. CASE covers = {}
  BY <1>1 DEF Loaded
<1>2. CASE covers # {}
  <2>1. Loaded(p, h, page, o) = <<p, r.seg, r.from + o - r.offset>>
    BY <1>2 DEF Loaded
  <2>2. r \in covers
    BY <1>2
  <2>3. r \in ReadCall /\ o \in r.offset .. r.offset + r.count - 1
    BY <2>2, ReadsType
  <2> HIDE DEF r, covers
  <2>4. r.seg \in {"code", "ro", "init"} /\ r.offset \in Int /\ r.from \in Nat /\ r.count \in Int
    BY <2>3 DEF ReadCall
  <2>5. o \in Int
    BY AddrSpaceAssumption DEF Offset
  <2>6. r.from + o - r.offset \in Nat
    BY <2>3, <2>4, <2>5
  <2> QED
    BY <2>1, <2>4, <2>6 DEF Byte
<1> QED
  BY <1>1, <1>2

-----------------------------------------------------------------------------
(* The inductive invariant *)

\* The tables' frames are marked, and no frame is in two places of them.
OwnFrames ==
  /\ \A p \in Proc : \A i \in DOMAIN pageTable[p] : pageTable[p][i] \in marked
  /\ \A p \in Proc : \A i, j \in DOMAIN pageTable[p] : pageTable[p][i] = pageTable[p][j] => i = j
  /\ \A p, q \in Proc : p # q =>
       \A i \in DOMAIN pageTable[p], j \in DOMAIN pageTable[q] : pageTable[p][i] # pageTable[q][j]

\* A process has a table from Load's allocation to its end, and a space from
\* Execute on, which stays the one its Load built.
Placed ==
  \A p \in Proc :
    /\ pageTable[p] # <<>> <=> pc[p] \in {"copy", "user"}
    /\ space[p] = IF pc[p] = "user" THEN p ELSE None

\* The machine runs user code through the running thread's table.
Restored == pc[current] = "user" => machineTable = current

\* addrLock admits one Load to the count and the allocation of frames.
OneAllocates ==
  \A p \in Proc : pc[p] = "locked" =>
    addrLock = 0 /\ \A q \in Proc : pc[q] = "locked" => q = p

\* What is in a process's frames from the moment they were zeroed.
CleanFrames ==
  \A p \in Proc : \A i \in DOMAIN pageTable[p], o \in Offset :
    memory[pageTable[p][i]][o] = Zero \/ memory[pageTable[p][i]][o][1] = p

MemInv == TypeOK /\ OwnFrames /\ Placed /\ Restored /\ OneAllocates /\ CleanFrames

LEMMA MemInvInit == Init => MemInv
<1> SUFFICES ASSUME Init PROVE MemInv
  OBVIOUS
<1>1. TypeOK
  BY AddrSpaceAssumption DEF Init, TypeOK, PC, Byte
<1>2. \A p \in Proc : pageTable[p] = <<>> /\ DOMAIN pageTable[p] = {}
  BY DEF Init
<1>3. OwnFrames /\ CleanFrames
  BY <1>2 DEF OwnFrames, CleanFrames
<1>4. Placed /\ Restored /\ OneAllocates
  BY <1>2 DEF Init, Placed, Restored, OneAllocates
<1> QED
  BY <1>1, <1>3, <1>4 DEF MemInv

\* Steps that leave tables and memory alone keep what is said of them.
LEMMA SameMemory ==
  ASSUME OwnFrames, CleanFrames, UNCHANGED <<marked, memory, pageTable>>
  PROVE  OwnFrames' /\ CleanFrames'
BY DEF OwnFrames, CleanFrames

LEMMA OpenFailsInv ==
  ASSUME MemInv, NEW p \in Proc, OpenFails(p)
  PROVE  MemInv'
<1> USE DEF MemInv, OpenFails, At, GoTo
<1>1. TypeOK'
  BY DEF TypeOK, PC
<1>2. Placed' /\ Restored' /\ OneAllocates'
  BY DEF TypeOK, Placed, Restored, OneAllocates
<1> QED
  BY <1>1, <1>2, SameMemory

LEMMA LockPInv ==
  ASSUME MemInv, NEW p \in Proc, LockP(p)
  PROVE  MemInv'
<1> USE DEF MemInv, LockP, At, GoTo
<1>1. TypeOK'
  BY DEF TypeOK, PC
<1>2. Placed' /\ Restored' /\ OneAllocates'
  BY DEF TypeOK, Placed, Restored, OneAllocates
<1> QED
  BY <1>1, <1>2, SameMemory

LEMMA NoRoomInv ==
  ASSUME MemInv, NEW p \in Proc, NoRoom(p)
  PROVE  MemInv'
<1> USE DEF MemInv, NoRoom, At, GoTo
<1>1. TypeOK'
  BY DEF TypeOK, PC, OneAllocates
<1>2. Placed' /\ Restored' /\ OneAllocates'
  BY DEF TypeOK, Placed, Restored, OneAllocates
<1> QED
  BY <1>1, <1>2, SameMemory

LEMMA AllocateInv ==
  ASSUME MemInv, NEW p \in Proc, Allocate(p)
  PROVE  MemInv'
<1> DEFINE n == NumPages(program[p])
           table == FindAndSet(n)
<1>1. n \in Nat \ {0}
  BY NumPagesType DEF MemInv, TypeOK
<1>2. /\ marked \subseteq Frame /\ n <= NumClear
      /\ marked' = marked \cup Found(table)
      /\ pageTable' = [pageTable EXCEPT ![p] = table]
      /\ memory' = [f \in Frame |-> IF f \in Found(table) THEN [o \in Offset |-> Zero] ELSE memory[f]]
      /\ addrLock' = addrLock + 1
      /\ pc[p] = "locked" /\ pc' = [pc EXCEPT ![p] = "copy"]
      /\ UNCHANGED <<space, machineTable, current, program, stores>>
  BY DEF Allocate, At, GoTo, MemInv, TypeOK
<1> HIDE DEF n
<1>3. /\ table \in Seq(Frame \cup {-1}) /\ DOMAIN table = 1 .. n
      /\ \A i \in 1 .. n : table[i] \in Frame \ marked
      /\ \A i, j \in 1 .. n : table[i] = table[j] => i = j
  BY <1>1, <1>2, FindAndSetFinds
<1> HIDE DEF table
<1>4. /\ table # <<>>
      /\ Found(table) \subseteq Frame
      /\ \A i \in 1 .. n : table[i] \in Found(table)
      /\ \A f \in Found(table) : f \notin marked
  <2>1. 1 \in DOMAIN table
    BY <1>1, <1>3
  <2>2. table # <<>>
    BY <2>1
  <2>3. \A i \in 1 .. n : table[i] # -1
    BY <1>3, AddrSpaceAssumption DEF Frame
  <2> QED
    BY <1>3, <2>2, <2>3 DEF Found
<1>5. /\ DOMAIN pageTable' = Proc
      /\ pageTable'[p] = table
      /\ \A q \in Proc : q # p => pageTable'[q] = pageTable[q]
  BY <1>2 DEF MemInv, TypeOK
<1>6. TypeOK'
  <2>1. pageTable' \in [Proc -> Seq(Frame \cup {-1})]
    BY <1>2, <1>3 DEF MemInv, TypeOK
  <2>2. memory' \in [Frame -> [Offset -> Byte]]
    BY <1>2 DEF MemInv, TypeOK, Byte
  <2>3. addrLock' \in 0 .. 1
    BY <1>2 DEF MemInv, TypeOK, OneAllocates
  <2>4. marked' \subseteq Frame /\ pc' \in [Proc -> PC]
    BY <1>2, <1>4 DEF MemInv, TypeOK, PC
  <2> QED
    BY <1>2, <2>1, <2>2, <2>3, <2>4 DEF MemInv, TypeOK
<1>7. OwnFrames'
  <2>1. \A q \in Proc : \A i \in DOMAIN pageTable'[q] : pageTable'[q][i] \in marked'
    BY <1>2, <1>3, <1>4, <1>5 DEF MemInv, OwnFrames
  <2>2. \A q \in Proc : \A i, j \in DOMAIN pageTable'[q] : pageTable'[q][i] = pageTable'[q][j] => i = j
    <3> SUFFICES ASSUME NEW q \in Proc, NEW i \in DOMAIN pageTable'[q], NEW j \in DOMAIN pageTable'[q],
                        pageTable'[q][i] = pageTable'[q][j]
                 PROVE  i = j
      OBVIOUS
    <3>1. CASE q = p
      BY <1>3, <1>5, <3>1
    <3>2. CASE q # p
      BY <1>5, <3>2 DEF MemInv, OwnFrames
    <3> QED
      BY <3>1, <3>2
  <2>3. ASSUME NEW q \in Proc, NEW r \in Proc, q # r,
               NEW i \in DOMAIN pageTable'[q], NEW j \in DOMAIN pageTable'[r]
        PROVE  pageTable'[q][i] # pageTable'[r][j]
    <3>1. CASE q = p
      BY <1>3, <1>5, <2>3, <3>1 DEF MemInv, OwnFrames
    <3>2. CASE r = p
      BY <1>3, <1>5, <2>3, <3>2 DEF MemInv, OwnFrames
    <3>3. CASE q # p /\ r # p
      BY <1>5, <2>3, <3>3 DEF MemInv, OwnFrames
    <3> QED
      BY <3>1, <3>2, <3>3
  <2> QED
    BY <2>1, <2>2, <2>3 DEF OwnFrames
<1>8. Placed'
  BY <1>2, <1>4, <1>5 DEF MemInv, TypeOK, Placed
<1>9. Restored'
  BY <1>2 DEF MemInv, TypeOK, Restored
<1>10. OneAllocates'
  BY <1>2 DEF MemInv, TypeOK, OneAllocates
<1>11. CleanFrames'
  <2> SUFFICES ASSUME NEW q \in Proc, NEW i \in DOMAIN pageTable'[q], NEW o \in Offset
               PROVE  \/ memory'[pageTable'[q][i]][o] = Zero
                      \/ memory'[pageTable'[q][i]][o][1] = q
    BY DEF CleanFrames
  <2>1. CASE q = p
    BY <1>2, <1>3, <1>4, <1>5, <2>1
  <2>2. CASE q # p
    <3>1. pageTable'[q][i] = pageTable[q][i] /\ i \in DOMAIN pageTable[q]
      BY <1>5, <2>2
    <3>2. pageTable[q][i] \in Frame /\ pageTable[q][i] \notin Found(table)
      BY <1>4, <3>1 DEF MemInv, TypeOK, OwnFrames
    <3>3. memory'[pageTable[q][i]] = memory[pageTable[q][i]]
      BY <1>2, <3>2
    <3> QED
      BY <3>1, <3>3 DEF MemInv, CleanFrames
  <2> QED
    BY <2>1, <2>2
<1> QED
  BY <1>6, <1>7, <1>8, <1>9, <1>10, <1>11 DEF MemInv

LEMMA CopyAndExecuteInv ==
  ASSUME MemInv, NEW p \in Proc, CopyAndExecute(p)
  PROVE  MemInv'
<1> DEFINE frames == Found(pageTable[p])
           place(f) == CHOOSE i \in DOMAIN pageTable[p] : pageTable[p][i] = f
           byte(f, o) == Loaded(p, program[p], place(f) - 1, o)
<1>1. /\ pc[p] = "copy" /\ pc' = [pc EXCEPT ![p] = "user"] /\ current = p
      /\ memory' = [f \in Frame |-> IF f \in frames
                                    THEN [o \in Offset |-> IF byte(f, o) = Zero THEN memory[f][o] ELSE byte(f, o)]
                                    ELSE memory[f]]
      /\ space' = [space EXCEPT ![p] = p] /\ machineTable' = p
      /\ UNCHANGED <<marked, addrLock, pageTable, current, program, stores>>
  BY DEF CopyAndExecute, At, GoTo
<1>2. \A f \in frames : place(f) \in DOMAIN pageTable[p]
  BY DEF Found
<1>3. \A i \in DOMAIN pageTable[p] : i \in Nat
  BY DEF MemInv, TypeOK
<1>4. program[p] \in Programs
  BY DEF MemInv, TypeOK
<1>5. \A f \in frames, o \in Offset :
        byte(f, o) # Zero => byte(f, o) \in Byte /\ byte(f, o)[1] = p
  <2> SUFFICES ASSUME NEW f \in frames, NEW o \in Offset
               PROVE  byte(f, o) # Zero => byte(f, o) \in Byte /\ byte(f, o)[1] = p
    OBVIOUS
  <2>1. place(f) - 1 \in Int
    BY <1>2, <1>3
  <2> HIDE DEF place
  <2> QED
    BY <1>4, <2>1, LoadedType
<1> HIDE DEF byte, place
<1>6. TypeOK'
  <2>1. memory' \in [Frame -> [Offset -> Byte]]
    BY <1>1, <1>5 DEF MemInv, TypeOK
  <2> QED
    BY <1>1, <2>1 DEF MemInv, TypeOK, PC
<1>7. OwnFrames'
  BY <1>1 DEF MemInv, OwnFrames
<1>8. Placed' /\ Restored' /\ OneAllocates'
  BY <1>1 DEF MemInv, TypeOK, Placed, Restored, OneAllocates
<1>9. CleanFrames'
  <2> SUFFICES ASSUME NEW q \in Proc, NEW i \in DOMAIN pageTable[q], NEW o \in Offset
               PROVE  \/ memory'[pageTable[q][i]][o] = Zero
                      \/ memory'[pageTable[q][i]][o][1] = q
    BY <1>1 DEF CleanFrames
  <2> DEFINE f == pageTable[q][i]
  <2>1. f \in Frame /\ f # -1
    <3>1. f \in Frame
      BY DEF MemInv, TypeOK, OwnFrames
    <3> HIDE DEF f
    <3> QED
      BY <3>1, AddrSpaceAssumption DEF Frame
  <2>2. memory[f][o] = Zero \/ memory[f][o][1] = q
    BY DEF MemInv, CleanFrames
  <2>3. CASE q = p
    <3>1. f \in frames
      BY <2>1, <2>3 DEF Found
    <3>2. memory'[f][o] = IF byte(f, o) = Zero THEN memory[f][o] ELSE byte(f, o)
      BY <1>1, <2>1, <3>1
    <3> HIDE DEF f
    <3> QED
      BY <1>5, <2>2, <2>3, <3>1, <3>2 DEF f
  <2>4. CASE q # p
    <3>1. f \notin frames
      BY <2>4 DEF MemInv, OwnFrames, Found
    <3>2. memory'[f] = memory[f]
      BY <1>1, <2>1, <3>1
    <3> QED
      BY <2>2, <3>2
  <2> QED
    BY <2>3, <2>4
<1> QED
  BY <1>6, <1>7, <1>8, <1>9 DEF MemInv

LEMMA StoreInv ==
  ASSUME MemInv, NEW p \in Proc, Store(p)
  PROVE  MemInv'
<1>1. current = p /\ pc[p] = "user" /\ machineTable = p
  BY DEF Store, At, MemInv, Restored
<1>2. PICK i \in DOMAIN pageTable[p], o \in Offset :
        memory' = [memory EXCEPT ![pageTable[p][i]][o] = <<p, "store", 0>>]
  BY <1>1 DEF Store
<1> DEFINE f == pageTable[p][i]
<1>3. f \in Frame
  BY DEF MemInv, TypeOK, OwnFrames
<1>4. stores < MaxStore /\ stores' = stores + 1
      /\ UNCHANGED <<marked, addrLock, pageTable, space, machineTable, current, pc, program>>
  BY DEF Store
<1>5. \A g \in Frame, a \in Offset :
        memory'[g][a] = IF g = f /\ a = o THEN <<p, "store", 0>> ELSE memory[g][a]
  BY <1>2, <1>3 DEF MemInv, TypeOK
<1>6. TypeOK'
  <2>1. <<p, "store", 0>> \in Byte
    BY DEF Byte
  <2>2. memory' \in [Frame -> [Offset -> Byte]]
    BY <1>2, <1>3, <2>1 DEF MemInv, TypeOK
  <2> QED
    BY <1>4, <2>2, AddrSpaceAssumption DEF MemInv, TypeOK
<1>7. OwnFrames' /\ Placed' /\ Restored' /\ OneAllocates'
  BY <1>4 DEF MemInv, OwnFrames, Placed, Restored, OneAllocates
<1>8. CleanFrames'
  <2> SUFFICES ASSUME NEW q \in Proc, NEW j \in DOMAIN pageTable[q], NEW a \in Offset
               PROVE  \/ memory'[pageTable[q][j]][a] = Zero
                      \/ memory'[pageTable[q][j]][a][1] = q
    BY <1>4 DEF CleanFrames
  <2>1. pageTable[q][j] \in Frame
    BY DEF MemInv, TypeOK, OwnFrames
  <2>2. memory[pageTable[q][j]][a] = Zero \/ memory[pageTable[q][j]][a][1] = q
    BY DEF MemInv, CleanFrames
  <2>3. q # p => pageTable[q][j] # f
    BY DEF MemInv, OwnFrames
  <2> HIDE DEF f
  <2>4. CASE pageTable[q][j] = f /\ a = o
    BY <1>5, <2>1, <2>3, <2>4
  <2>5. CASE ~(pageTable[q][j] = f /\ a = o)
    BY <1>5, <2>1, <2>2, <2>5
  <2> QED
    BY <2>4, <2>5
<1> QED
  BY <1>6, <1>7, <1>8 DEF MemInv

LEMMA ExitInv ==
  ASSUME MemInv, NEW p \in Proc, Exit(p)
  PROVE  MemInv'
<1>1. /\ pc[p] = "user" /\ space[p] = p
      /\ pageTable' = [pageTable EXCEPT ![p] = <<>>]
      /\ space' = [space EXCEPT ![p] = None]
      /\ pc' = [pc EXCEPT ![p] = "gone"]
      /\ current = p
      /\ UNCHANGED <<marked, addrLock, memory, machineTable, current, program, stores>>
  BY DEF Exit, At, GoTo, MemInv, Placed
<1>2. /\ DOMAIN pageTable'[p] = {} /\ pageTable'[p] = <<>>
      /\ \A q \in Proc : q # p => pageTable'[q] = pageTable[q]
  BY <1>1 DEF MemInv, TypeOK
<1>3. TypeOK'
  BY <1>1 DEF MemInv, TypeOK, PC
<1>4. \A q \in Proc : \A i \in DOMAIN pageTable'[q] :
        q # p /\ i \in DOMAIN pageTable[q] /\ pageTable'[q][i] = pageTable[q][i]
  BY <1>2
<1>5. OwnFrames' /\ CleanFrames'
  BY <1>1, <1>4 DEF MemInv, OwnFrames, CleanFrames
<1>6. Placed' /\ Restored' /\ OneAllocates'
  BY <1>1, <1>2 DEF MemInv, TypeOK, Placed, Restored, OneAllocates
<1> QED
  BY <1>3, <1>5, <1>6 DEF MemInv

LEMMA SwitchInv ==
  ASSUME MemInv, NEW q \in Proc, Switch(q)
  PROVE  MemInv'
<1>1. /\ space' = IF space[current] = None THEN space ELSE [space EXCEPT ![current] = machineTable]
      /\ machineTable' = IF space[q] = None THEN machineTable ELSE space[q]
      /\ current' = q
      /\ UNCHANGED <<marked, addrLock, memory, pageTable, pc, program, stores>>
  BY DEF Switch
<1>2. space' = space
  BY <1>1, AddrSpaceAssumption DEF MemInv, TypeOK, Placed, Restored
<1>3. pc[q] = "user" => machineTable' = q
  BY <1>1, AddrSpaceAssumption DEF MemInv, Placed
<1>4. TypeOK' /\ Placed' /\ Restored' /\ OneAllocates'
  BY <1>1, <1>2, <1>3 DEF MemInv, TypeOK, Placed, Restored, OneAllocates
<1> QED
  BY <1>1, <1>4, SameMemory DEF MemInv

LEMMA MemInvNext == MemInv /\ [Next]_vars => MemInv'
<1> SUFFICES ASSUME MemInv, [Next]_vars PROVE MemInv'
  OBVIOUS
<1>1. CASE UNCHANGED vars
  BY <1>1 DEF vars, MemInv, TypeOK, OwnFrames, Placed, Restored, OneAllocates, CleanFrames
<1>2. ASSUME NEW p \in Proc, Load(p) \/ Store(p) \/ Exit(p) \/ Switch(p)
      PROVE  MemInv'
  BY <1>2, OpenFailsInv, LockPInv, NoRoomInv, AllocateInv, CopyAndExecuteInv, StoreInv,
     ExitInv, SwitchInv DEF Load
<1> QED
  BY <1>1, <1>2 DEF Next, Over

-----------------------------------------------------------------------------
(* The theorems *)

LEMMA MemInvHolds == Spec => []MemInv
BY MemInvInit, MemInvNext, PTL DEF Spec

\* Every variable keeps its type: addrLock, which three branches of Load give
\* back (addrspace.cc:95-143), stays a lock, and only frames are marked.
THEOREM TypeCorrect == Spec => []TypeOK
<1>1. MemInv => TypeOK
  BY DEF MemInv
<1> QED
  BY <1>1, MemInvHolds, PTL

\* A table without repetitions maps as many frames as it has entries.
LEMMA MappedCounts ==
  ASSUME TypeOK, OwnFrames, NEW p \in Proc
  PROVE  Cardinality(Mapped(p)) = Len(pageTable[p])
<1> DEFINE table == pageTable[p]
<1>1. DOMAIN table = 1 .. Len(table) /\ Len(table) \in Nat /\ table \in Seq(Frame \cup {-1})
  BY DEF TypeOK
<1>2. IsFiniteSet(DOMAIN table) /\ Cardinality(DOMAIN table) = Len(table)
  <2> HIDE DEF table
  <2>1. IsFiniteSet(1 .. Len(table)) /\ Cardinality(1 .. Len(table)) = Len(table)
    BY <1>1, FS_Interval
  <2> QED
    BY <1>1, <2>1
<1>3. table \in Bijection(DOMAIN table, Mapped(p))
  <2>1. table \in [DOMAIN table -> Mapped(p)]
    BY <1>1, LenProperties DEF Mapped
  <2>2. \A i, j \in DOMAIN table : table[i] = table[j] => i = j
    BY DEF OwnFrames
  <2>3. \A f \in Mapped(p) : \E i \in DOMAIN table : table[i] = f
    BY DEF Mapped
  <2> HIDE DEF table
  <2> QED
    BY <2>1, <2>2, <2>3 DEF Bijection, Injection, Surjection, IsInjective
<1> HIDE DEF table
<1>4. ExistsBijection(DOMAIN table, Mapped(p))
  BY <1>3 DEF ExistsBijection
<1>5. Cardinality(Mapped(p)) = Cardinality(DOMAIN table)
  BY <1>2, <1>4, FS_Bijection
<1> QED
  BY <1>2, <1>5 DEF table

\* The memory of processes is theirs, for any number of processes loading any
\* programs into a memory of any size: no frame is given out twice though the
\* lock is given back before the segments are read (addrspace.cc:143), user code
\* runs through its own table after any switches and deletions
\* (scheduler.cc:114-148), and nothing of another process is in its pages.
THEOREM MemoryOwnedCorrect == Spec => []MemoryOwned
<1>1. ASSUME MemInv PROVE MemoryOwned
  <2>1. TypeOK
    BY <1>1 DEF MemInv
  <2>2. FramesOwned
    <3>1. \A p \in Proc : Cardinality(Mapped(p)) = Len(pageTable[p])
      BY <1>1, MappedCounts DEF MemInv
    <3>2. \A p \in Proc : Mapped(p) \subseteq marked
      BY <1>1 DEF MemInv, OwnFrames, Mapped
    <3>3. \A p, q \in Proc : p # q => Mapped(p) \cap Mapped(q) = {}
      BY <1>1 DEF MemInv, OwnFrames, Mapped
    <3> QED
      BY <3>1, <3>2, <3>3 DEF FramesOwned
  <2>3. OwnTable
    BY <1>1 DEF MemInv, TypeOK, Placed, Restored, OwnTable
  <2>4. OwnBytes
    BY <1>1 DEF MemInv, CleanFrames, OwnBytes, Mapped
  <2> QED
    BY <2>1, <2>2, <2>3, <2>4 DEF MemoryOwned
<1> QED
  BY <1>1, MemInvHolds, PTL

-----------------------------------------------------------------------------
(* The arithmetic of Load *)

LEMMA Divides ==
  ASSUME NEW n \in Int, NEW b \in Nat \ {0}
  PROVE  n \div b \in Int /\ n % b \in 0 .. (b - 1) /\ n = (n \div b) * b + (n % b)
OBVIOUS

LEMMA Product ==
  ASSUME NEW b \in Nat \ {0}, NEW x \in Int
  PROVE  /\ x * b \in Int /\ (x + 1) * b = x * b + b /\ (x - 1) * b = x * b - b
         /\ x >= 0 => x * b >= 0
         /\ x >= 1 => x * b >= b
         /\ x <= -1 => x * b <= -b
OBVIOUS

LEMMA Order ==
  ASSUME NEW b \in Nat \ {0}, NEW x \in Int, NEW y \in Int
  PROVE  /\ x <= y => x * b <= y * b
         /\ (x * b < y * b + b) => x <= y
         /\ (x + y) * b = x * b + y * b
         /\ (x - y) * b = x * b - y * b
<1>1. /\ (x - y) * b = x * b - y * b /\ (x + y) * b = x * b + y * b
      /\ x * b \in Int /\ y * b \in Int
  OBVIOUS
<1>2. /\ x - y >= 1 => (x - y) * b >= b
      /\ x - y <= -1 => (x - y) * b <= -b
  <2>1. x - y \in Int
    OBVIOUS
  <2> QED
    BY <2>1, Product
<1> DEFINE bx == x * b
           by == y * b
           bd == (x - y) * b
<1>3. /\ bd = bx - by /\ bx \in Int /\ by \in Int
      /\ x - y >= 1 => bd >= b
      /\ x - y <= -1 => bd <= -b
      /\ x - y = 0 => bx = by
  BY <1>1, <1>2
<1> HIDE DEF bx, by, bd
<1>4. (x <= y => bx <= by) /\ ((bx < by + b) => x <= y)
  BY <1>3
<1> QED
  BY <1>1, <1>4 DEF bx, by

LEMMA Quotient ==
  ASSUME NEW b \in Nat \ {0}, NEW q \in Int, NEW r \in 0 .. (b - 1), NEW n, n = q * b + r
  PROVE  n \div b = q /\ n % b = r
<1> DEFINE d == n \div b
           m == n % b
           x == q * b
           y == d * b
<1>1. x \in Int /\ n \in Int
  BY Product
<1>2. d \in Int /\ m \in 0 .. (b - 1) /\ n = y + m
  BY <1>1, Divides
<1> HIDE DEF d, m
<1>3. y \in Int
  BY <1>2, Product
<1>4. n = x + r
  OBVIOUS
<1> HIDE DEF x, y
<1>5. x < y + b /\ y < x + b
  BY <1>1, <1>2, <1>3, <1>4
<1>6. q <= d /\ d <= q
  BY <1>2, <1>5, Order DEF x, y
<1>7. q = d
  BY <1>2, <1>6
<1>8. x = y
  BY <1>7 DEF x, y
<1>9. r = m
  BY <1>1, <1>2, <1>4, <1>8
<1> QED
  BY <1>7, <1>9 DEF d, m

LEMMA PageSizeType == PageSize \in Nat \ {0}
BY AddrSpaceAssumption

\* m bytes fill all their pages but the last, and leave LastPageSize there.
LEMMA PagesOf ==
  ASSUME NEW m \in Nat, NEW n, n = DivRoundUp(m, PageSize), NEW last, last = LastPageSize(m)
  PROVE  /\ n \in Nat /\ last \in 0 .. PageSize
         /\ m = 0 => n = 0 /\ last = 0
         /\ m # 0 => n # 0 /\ last # 0 /\ m = (n - 1) * PageSize + last
<1> DEFINE b == PageSize
           q == m \div b
           e == m % b
           before == (m - 1) % b
<1>1. b \in Nat \ {0}
  BY PageSizeType
<1>2. n \in Nat /\ last \in 0 .. b /\ (m # 0 => n # 0)
  BY <1>1, DivRoundUpType, LastPageSizeType
<1>3. n = q + (IF e # 0 THEN 1 ELSE 0)
  BY DEF DivRoundUp
<1>4. last = IF m = 0 THEN 0 ELSE before + 1
  BY DEF LastPageSize
<1> HIDE DEF b
<1>5. q \in Int /\ e \in 0 .. (b - 1) /\ m = q * b + e /\ q * b \in Int /\ (q - 1) * b = q * b - b
  BY <1>1, Divides, Product
<1>6. m = 0 => q = 0 /\ e = 0
  BY <1>1
<1> HIDE DEF q, e, before
<1>7. CASE m = 0
  BY <1>2, <1>3, <1>4, <1>6, <1>7 DEF b
<1>8. CASE m # 0 /\ e = 0
  <2> DEFINE k == m - 1
             x == q - 1
             r == b - 1
  <2>1. n = q /\ k = x * b + r /\ r \in 0 .. (b - 1) /\ x \in Int
    BY <1>1, <1>3, <1>5, <1>8
  <2>2. before = b - 1
    <3> HIDE DEF k, x, r
    <3>1. k % b = r
      BY <1>1, <2>1, Quotient
    <3> QED
      BY <3>1 DEF k, r, before
  <2> HIDE DEF k, x, r
  <2>3. last = b
    BY <1>1, <1>4, <1>8, <2>2
  <2>4. m = (n - 1) * b + last
    <3>1. (n - 1) * b = q * b - b
      BY <1>5, <2>1
    <3> QED
      BY <1>1, <1>5, <1>8, <2>3, <3>1
  <2> QED
    BY <1>1, <1>2, <1>8, <2>3, <2>4 DEF b
<1>9. CASE m # 0 /\ e # 0
  <2> DEFINE k == m - 1
             r == e - 1
  <2>1. n - 1 = q /\ k = q * b + r /\ r \in 0 .. (b - 1)
    BY <1>1, <1>3, <1>5, <1>9
  <2>2. before = e - 1
    <3> HIDE DEF k, r
    <3>1. k % b = r
      BY <1>1, <1>5, <2>1, Quotient
    <3> QED
      BY <3>1 DEF k, r, before
  <2>3. last = e
    BY <1>4, <1>5, <1>9, <2>2
  <2>4. m = (n - 1) * b + last
    BY <1>5, <2>1, <2>3
  <2> QED
    BY <1>2, <1>9, <2>3, <2>4, <1>5 DEF b
<1> QED
  BY <1>7, <1>8, <1>9

\* r puts a byte at offset o of the page.
Covers(r, page, o) == r.page = page /\ o \in r.offset .. r.offset + r.count - 1

\* The reads R put the bytes of seg, beginning with byte from, at the n
\* addresses from low on, and nothing elsewhere.
Fills(R, seg, low, n, from) ==
  \A page \in Nat, o \in Offset :
    /\ \A r \in R : Covers(r, page, o) =>
         /\ page * PageSize + o \in low .. low + n - 1
         /\ r.seg = seg /\ r.from + o - r.offset = from + (page * PageSize + o) - low
    /\ page * PageSize + o \in low .. low + n - 1 => \E r \in R : Covers(r, page, o)

LEMMA PageReadsFill ==
  ASSUME NEW m \in Nat, NEW first \in Nat, NEW from \in Nat, NEW seg
  PROVE  Fills(PageReads(seg, first, DivRoundUp(m, PageSize), LastPageSize(m), from), seg, first * PageSize, m, from)
<1> DEFINE b == PageSize
           n == DivRoundUp(m, b)
           last == LastPageSize(m)
           read(j) == [seg |-> seg, page |-> first + j, offset |-> 0,
                       count |-> IF j < n - 1 THEN b ELSE last, from |-> from + j * b]
           R == {read(j) : j \in 0 .. n - 1}
<1>1. R = PageReads(seg, first, n, last, from)
  BY DEF PageReads
<1>2. b \in Nat \ {0}
  BY PageSizeType
<1>3. /\ n \in Nat /\ last \in 0 .. b /\ (m = 0 => n = 0)
      /\ m # 0 => n # 0 /\ m = (n - 1) * b + last
  BY PagesOf
<1> HIDE DEF n, last
<1>4. ASSUME NEW page \in Nat, NEW o \in Offset
      PROVE  /\ \A r \in R : Covers(r, page, o) =>
                  /\ page * b + o \in first * b .. (first * b) + m - 1
                  /\ r.seg = seg /\ r.from + o - r.offset = from + (page * b + o) - (first * b)
             /\ page * b + o \in first * b .. (first * b) + m - 1 => \E r \in R : Covers(r, page, o)
  <2>1. o \in 0 .. (b - 1)
    BY DEF Offset
  <2> HIDE DEF b
  <2>2. page * b \in Int /\ first * b \in Int /\ (n - 1) * b \in Int
    BY <1>2, <1>3, Product
  <2> DEFINE pb == page * b
             fb == first * b
             nb == (n - 1) * b
  <2>3. ASSUME NEW j \in 0 .. n - 1, Covers(read(j), page, o)
        PROVE  /\ pb + o \in fb .. fb + m - 1
               /\ from + (j * b) + o = from + (pb + o) - fb
    <3> DEFINE jb == j * b
               count == IF j < n - 1 THEN b ELSE last
    <3>1. page = first + j /\ o < count /\ j \in Int
      <4>1. read(j).page = first + j /\ read(j).offset = 0 /\ read(j).count = count
        OBVIOUS
      <4>2. read(j).page = page /\ o \in read(j).offset .. read(j).offset + read(j).count - 1
        BY <2>3 DEF Covers
      <4>3. count \in Int
        BY <1>2, <1>3
      <4> HIDE DEF read, count
      <4>4. o \in 0 .. 0 + count - 1
        BY <4>1, <4>2
      <4> QED
        BY <1>3, <2>1, <4>1, <4>2, <4>3, <4>4
    <3>2. jb \in Int /\ jb >= 0 /\ pb = fb + jb
      BY <1>2, <3>1, Product, Order
    <3>3. jb + o < m
      <4>1. m = nb + last /\ n # 0
        BY <1>3
      <4>2. ASSUME j < n - 1 PROVE jb + b <= nb
        <5>1. j + 1 <= n - 1 /\ j + 1 \in Int /\ n - 1 \in Int
          BY <1>3, <3>1, <4>2
        <5> DEFINE k == n - 1
                   i == j + 1
        <5>2. i * b = jb + b
          BY <1>2, <3>1, Product
        <5>3. i <= k /\ i \in Int /\ k \in Int
          BY <5>1
        <5> HIDE DEF k, i
        <5>4. i * b <= k * b
          BY <1>2, <5>3, Order
        <5> QED
          BY <5>2, <5>4 DEF k
      <4>3. ASSUME j = n - 1 PROVE jb = nb
        BY <4>3
      <4>4. j < n - 1 \/ j = n - 1
        BY <1>3, <3>1
      <4>5. nb \in Int
        BY <2>2
      <4> HIDE DEF jb, nb
      <4> QED
        BY <1>2, <1>3, <2>1, <3>1, <3>2, <4>1, <4>2, <4>3, <4>4, <4>5
    <3>4. pb + o \in fb .. fb + m - 1 /\ from + jb + o = from + (pb + o) - fb
      <4>1. pb \in Int /\ fb \in Int
        BY <2>2
      <4> HIDE DEF jb, pb, fb
      <4> QED
        BY <2>1, <3>2, <3>3, <4>1
    <3> QED
      BY <3>4
  <2>4. ASSUME pb + o \in fb .. fb + m - 1
        PROVE  \E j \in 0 .. n - 1 : Covers(read(j), page, o)
    <3> DEFINE j == page - first
               jb == j * b
    <3>1. pb \in Int /\ fb \in Int /\ nb \in Int /\ fb < pb + b
      BY <1>2, <2>1, <2>2, <2>4
    <3>2. first <= page /\ j \in Nat
      <4>1. first <= page
        BY <1>2, <3>1, Order
      <4> QED
        BY <4>1
    <3>3. jb = pb - fb /\ jb \in Int
      BY <1>2, <3>2, Order, Product
    <3>4. m # 0
      BY <2>1, <2>4, <3>1
    <3>5. m = nb + last /\ n # 0
      BY <1>3, <3>4
    <3>6. jb + o < nb + last
      <4> HIDE DEF jb, nb, pb, fb
      <4> QED
        BY <1>3, <2>1, <2>4, <3>1, <3>3, <3>5
    <3>7. jb < nb + b
      <4> HIDE DEF jb, nb, pb, fb
      <4> QED
        BY <1>2, <1>3, <2>1, <3>1, <3>3, <3>6
    <3>8. j <= n - 1
      <4>1. n - 1 \in Int /\ j \in Int
        BY <1>3, <3>2
      <4> HIDE DEF j
      <4> QED
        BY <1>2, <3>7, <4>1, Order
    <3>9. o < IF j < n - 1 THEN b ELSE last
      <4>1. j = n - 1 => jb = nb
        OBVIOUS
      <4>2. j \in Int
        BY <3>2
      <4>3. o < b
        BY <1>2, <2>1
      <4> HIDE DEF jb, nb, j
      <4>4. j = n - 1 => o < last
        BY <1>3, <2>1, <3>1, <3>3, <3>6, <4>1
      <4>5. j < n - 1 \/ j = n - 1
        BY <1>3, <3>8, <4>2
      <4> QED
        BY <4>3, <4>4, <4>5
    <3>10. Covers(read(j), page, o)
      <4>1. first + j = page /\ 0 <= o /\ o <= 0 + (IF j < n - 1 THEN b ELSE last) - 1
        BY <1>2, <1>3, <2>1, <3>9
      <4> HIDE DEF j
      <4> QED
        BY <1>2, <1>3, <2>1, <4>1 DEF Covers
    <3> QED
      BY <1>3, <3>2, <3>8, <3>10
  <2>5. \A r \in R : Covers(r, page, o) =>
          /\ page * b + o \in first * b .. (first * b) + m - 1
          /\ r.seg = seg /\ r.from + o - r.offset = from + (page * b + o) - (first * b)
    <3> SUFFICES ASSUME NEW j \in 0 .. n - 1, Covers(read(j), page, o)
                 PROVE  /\ pb + o \in fb .. fb + m - 1
                        /\ read(j).seg = seg /\ read(j).from + o - read(j).offset = from + (pb + o) - fb
      OBVIOUS
    <3>1. pb + o \in fb .. fb + m - 1 /\ from + (j * b) + o = from + (pb + o) - fb
      BY <2>3
    <3>2. read(j).seg = seg /\ read(j).from = from + j * b /\ read(j).offset = 0
      OBVIOUS
    <3>3. j * b \in Int
      BY <1>2, <1>3, Product
    <3> HIDE DEF pb, fb, read
    <3> QED
      BY <2>1, <3>1, <3>2, <3>3
  <2> QED
    BY <2>4, <2>5
<1> QED
  BY <1>1, <1>4 DEF Fills, n, last

LEMMA FirstReadFills ==
  ASSUME NEW seg, NEW page0 \in Int, NEW offset \in Nat, NEW count \in Nat, offset + count <= PageSize
  PROVE  Fills(FirstRead(seg, page0, offset, count), seg, page0 * PageSize + offset, count, 0)
<1> DEFINE b == PageSize
           r == [seg |-> seg, page |-> page0, offset |-> offset, count |-> count, from |-> 0]
<1>1. b \in Nat \ {0}
  BY PageSizeType
<1>2. ASSUME NEW page \in Nat, NEW o \in Offset
      PROVE  /\ Covers(r, page, o) =>
                  /\ page * b + o \in page0 * b + offset .. (page0 * b + offset) + count - 1
                  /\ r.seg = seg /\ r.from + o - r.offset = 0 + (page * b + o) - (page0 * b + offset)
             /\ page * b + o \in page0 * b + offset .. (page0 * b + offset) + count - 1 => Covers(r, page, o)
  <2>1. o \in 0 .. (b - 1)
    BY DEF Offset
  <2>2. offset + count <= b
    OBVIOUS
  <2> HIDE DEF b
  <2> DEFINE pb == page * b
             qb == page0 * b
  <2>3. pb \in Int /\ qb \in Int
    BY <1>1, Product
  <2>4. Covers(r, page, o) <=> page0 = page /\ o \in offset .. offset + count - 1
    BY DEF Covers
  <2>5. ASSUME page0 = page, o \in offset .. offset + count - 1
        PROVE  pb + o \in qb + offset .. (qb + offset) + count - 1 /\ 0 + o - offset = 0 + (pb + o) - (qb + offset)
    <3>1. pb = qb
      BY <2>5
    <3> HIDE DEF pb, qb
    <3> QED
      BY <2>1, <2>3, <2>5, <3>1
  <2>6. ASSUME pb + o \in qb + offset .. (qb + offset) + count - 1
        PROVE  page0 = page /\ o \in offset .. offset + count - 1
    <3>1. pb < qb + b /\ qb < pb + b
      <4> HIDE DEF pb, qb
      <4> QED
        BY <1>1, <2>1, <2>2, <2>3, <2>6
    <3>2. page <= page0 /\ page0 <= page
      BY <1>1, <3>1, Order
    <3>3. page0 = page
      BY <3>2
    <3>4. pb = qb
      BY <3>3
    <3> HIDE DEF pb, qb
    <3> QED
      BY <2>1, <2>3, <2>6, <3>3, <3>4
  <2>7. r.seg = seg /\ r.from = 0 /\ r.offset = offset
    OBVIOUS
  <2> HIDE DEF r, pb, qb
  <2>8. ASSUME Covers(r, page, o)
        PROVE  /\ pb + o \in qb + offset .. (qb + offset) + count - 1
               /\ r.seg = seg /\ r.from + o - r.offset = 0 + (pb + o) - (qb + offset)
    BY <2>4, <2>5, <2>7, <2>8
  <2>9. pb + o \in qb + offset .. (qb + offset) + count - 1 => Covers(r, page, o)
    BY <2>4, <2>6
  <2> QED
    BY <2>8, <2>9 DEF pb, qb
<1>3. FirstRead(seg, page0, offset, count) = {r}
  BY DEF FirstRead
<1> HIDE DEF r
<1> QED
  BY <1>2, <1>3 DEF Fills

LEMMA FillsNothing ==
  ASSUME NEW seg, NEW low \in Nat, NEW from
  PROVE  Fills({}, seg, low, 0, from)
BY DEF Fills

\* Where nothing is put does not matter.
LEMMA FillsThere ==
  ASSUME NEW R, NEW seg, NEW low \in Int, NEW n \in Nat, NEW from, Fills(R, seg, low, n, from),
         NEW here \in Int, n # 0 => here = low, NEW place, n # 0 => place = from
  PROVE  Fills(R, seg, here, n, place)
<1>1. CASE n # 0
  BY <1>1
<1>2. CASE n = 0
  <2>1. low .. low + n - 1 = {} /\ here .. here + n - 1 = {}
    BY <1>2
  <2> QED
    BY <2>1 DEF Fills
<1> QED
  BY <1>1, <1>2

LEMMA FillsTogether ==
  ASSUME NEW R, NEW S, NEW seg, NEW low \in Nat, NEW m \in Nat, NEW n \in Nat, NEW from \in Nat,
         Fills(R, seg, low, m, from), Fills(S, seg, low + m, n, from + m)
  PROVE  Fills(R \cup S, seg, low, m + n, from)
<1> SUFFICES ASSUME NEW page \in Nat, NEW o \in Offset
             PROVE  /\ \A r \in R \cup S : Covers(r, page, o) =>
                         /\ page * PageSize + o \in low .. low + (m + n) - 1
                         /\ r.seg = seg /\ r.from + o - r.offset = from + (page * PageSize + o) - low
                    /\ page * PageSize + o \in low .. low + (m + n) - 1 => \E r \in R \cup S : Covers(r, page, o)
  BY DEF Fills
<1> DEFINE v == page * PageSize + o
<1>1. v \in Int
  BY PageSizeType, Product DEF Offset
<1>2. /\ \A r \in R : Covers(r, page, o) =>
           v \in low .. low + m - 1 /\ r.seg = seg /\ r.from + o - r.offset = from + v - low
      /\ v \in low .. low + m - 1 => \E r \in R : Covers(r, page, o)
  BY DEF Fills
<1>3. /\ \A r \in S : Covers(r, page, o) =>
           v \in low + m .. (low + m) + n - 1 /\ r.seg = seg /\ r.from + o - r.offset = (from + m) + v - (low + m)
      /\ v \in low + m .. (low + m) + n - 1 => \E r \in S : Covers(r, page, o)
  BY DEF Fills
<1> HIDE DEF v
<1>4. (from + m) + v - (low + m) = from + v - low
  BY <1>1
<1>5. v \in low .. low + (m + n) - 1 <=> v \in low .. low + m - 1 \/ v \in low + m .. (low + m) + n - 1
  BY <1>1
<1>6. ASSUME NEW r \in R \cup S, Covers(r, page, o)
      PROVE  v \in low .. low + (m + n) - 1 /\ r.seg = seg /\ r.from + o - r.offset = from + v - low
  <2>1. CASE r \in R
    BY <1>2, <1>5, <1>6, <2>1, Zenon
  <2>2. CASE r \in S
    <3>1. v \in low .. low + (m + n) - 1 /\ r.seg = seg /\ r.from + o - r.offset = (from + m) + v - (low + m)
      BY <1>3, <1>5, <1>6, <2>2, Zenon
    <3> QED
      BY <1>4, <3>1, Zenon
  <2> QED
    BY <2>1, <2>2
<1>7. ASSUME v \in low .. low + (m + n) - 1 PROVE \E r \in R \cup S : Covers(r, page, o)
  BY <1>2, <1>3, <1>5, <1>7, Zenon
<1> QED
  BY <1>6, <1>7, Zenon DEF v

Spills(h) == h.code + h.ro > DivRoundUp(h.code, PageSize) * PageSize

Data(h) == h.code + h.ro .. h.code + h.ro + h.init - 1

\* Load puts the code and the read-only data where they were linked, and its
\* initialised data, if not there, at addresses that were meant for it.
LEMMA ReadsFill ==
  ASSUME NEW h \in Programs
  PROVE  \E C, R, I :
           /\ Reads(h) = C \cup R \cup I
           /\ Fills(C, "code", 0, h.code, 0)
           /\ Fills(R, "ro", h.code, h.ro, 0)
           /\ Spills(h) => Fills(I, "init", h.code + h.ro, h.init, 0)
           /\ ~Spills(h) => \E low, n \in Nat, from \in Nat :
                              Fills(I, "init", low, n, from) /\ low .. low + n - 1 \subseteq Data(h)
<1> DEFINE b         == PageSize
           codePages == DivRoundUp(h.code, b)
           codeLast  == LastPageSize(h.code)
           roFirst   == Least(b - codeLast, h.ro)
           roRest    == h.ro - roFirst
           roPages   == DivRoundUp(roRest, b)
           roLast    == LastPageSize(roRest)
           initFirst == Least(b - roLast, h.init)
           initRest  == h.init - initFirst
           initPages == DivRoundUp(initRest, b)
           initLast  == LastPageSize(initRest)
           roEnd     == codePages + roPages
           C  == PageReads("code", 0, codePages, codeLast, 0)
           R1 == IF h.ro > 0 /\ codeLast # b THEN FirstRead("ro", codePages - 1, codeLast, roFirst) ELSE {}
           R2 == IF h.ro > 0 THEN PageReads("ro", codePages, roPages, roLast, roFirst) ELSE {}
           I1 == IF h.init > 0 /\ roLast # b /\ roPages > 0
                 THEN FirstRead("init", roEnd - 1, roLast, initFirst) ELSE {}
           I2 == IF h.init > 0 THEN PageReads("init", roEnd, initPages, initLast, initFirst) ELSE {}
<1>1. /\ h.code \in Nat \ {0} /\ h.ro \in Nat /\ h.init \in Nat /\ b \in Nat \ {0}
  BY AddrSpaceAssumption
<1>2. Reads(h) = C \cup R1 \cup R2 \cup I1 \cup I2
  BY DEF Reads
<1>3. /\ codePages \in Nat \ {0} /\ codeLast \in 1 .. b /\ h.code = (codePages - 1) * b + codeLast
  <2> HIDE DEF codePages, codeLast
  <2> QED
    BY <1>1, PagesOf DEF codePages, codeLast
<1>4. roFirst \in Nat /\ roRest \in Nat /\ codeLast + roFirst <= b
      /\ (roRest # 0 => roFirst = b - codeLast) /\ (codeLast = b => roFirst = 0) /\ roFirst + roRest = h.ro
  <2> HIDE DEF codeLast, codePages
  <2> QED
    BY <1>1, <1>3 DEF Least
<1>5. /\ roPages \in Nat /\ roLast \in 0 .. b /\ (roRest = 0 => roPages = 0 /\ roLast = 0)
      /\ (roRest # 0 => roPages # 0 /\ roLast # 0 /\ roRest = (roPages - 1) * b + roLast)
  <2> HIDE DEF roRest
  <2> QED
    BY <1>4, PagesOf
<1>6. initFirst \in Nat /\ initRest \in Nat /\ roLast + initFirst <= b
      /\ (initRest # 0 => initFirst = b - roLast) /\ (roLast = b => initFirst = 0) /\ initFirst + initRest = h.init
  <2>1. roLast \in 0 .. b
    BY <1>5
  <2> HIDE DEF roLast
  <2> QED
    BY <1>1, <2>1 DEF Least
<1>7. initPages \in Nat /\ initLast \in 0 .. b
  <2> HIDE DEF initRest
  <2> QED
    BY <1>6, PagesOf
<1>8. Fills(C, "code", 0, h.code, 0)
  <2>1. \A zero \in Nat : Fills(PageReads("code", zero, codePages, codeLast, zero), "code", zero * b, h.code, zero)
    BY <1>1, PageReadsFill
  <2>2. 0 * b = 0
    BY <1>1
  <2> HIDE DEF codePages, codeLast, b
  <2> QED
    BY <2>1, <2>2
<1>9. Fills(PageReads("ro", codePages, roPages, roLast, roFirst), "ro", codePages * b, roRest, roFirst)
  <2> HIDE DEF codePages, roRest, roFirst
  <2> QED
    BY <1>3, <1>4, PageReadsFill
<1>10. Fills(PageReads("init", roEnd, initPages, initLast, initFirst), "init", roEnd * b, initRest, initFirst)
  <2>1. roEnd \in Nat
    BY <1>3, <1>5
  <2> HIDE DEF roEnd, initRest, initFirst
  <2> QED
    BY <1>6, <2>1, PageReadsFill
<1>11. Fills(FirstRead("ro", codePages - 1, codeLast, roFirst), "ro", h.code, roFirst, 0)
  <2> HIDE DEF codePages, roFirst, codeLast, b
  <2>1. codePages - 1 \in Int /\ codeLast \in Nat /\ codeLast + roFirst <= PageSize
    BY <1>1, <1>3, <1>4 DEF b
  <2> DEFINE page0 == codePages - 1
  <2> HIDE DEF page0
  <2>2. Fills(FirstRead("ro", page0, codeLast, roFirst), "ro", page0 * b + codeLast, roFirst, 0)
    BY <1>4, <2>1, FirstReadFills DEF b, page0
  <2>3. page0 * b + codeLast = h.code
    BY <1>3 DEF page0
  <2> QED
    BY <2>2, <2>3 DEF page0
<1>12. ASSUME roRest # 0
       PROVE  Fills(FirstRead("init", roEnd - 1, roLast, initFirst), "init", (roEnd - 1) * b + roLast, initFirst, 0)
  <2>1. roEnd - 1 \in Int
    BY <1>3, <1>5
  <2> HIDE DEF roEnd, roLast, initFirst
  <2> DEFINE page0 == roEnd - 1
  <2> HIDE DEF page0
  <2>2. page0 \in Int /\ roLast \in Nat /\ roLast + initFirst <= PageSize
    BY <1>1, <1>5, <1>6, <2>1 DEF page0
  <2> QED
    BY <1>6, <2>2, FirstReadFills DEF page0
<1> HIDE DEF codePages, codeLast, roFirst, roRest, roPages, roLast, initFirst, initRest, initPages, initLast
<1> DEFINE cb == codePages * b
           eb == roEnd * b
<1>13. /\ cb \in Int /\ cb - b + codeLast = h.code
       /\ roRest # 0 => cb = h.code + roFirst
       /\ roRest = 0 => h.code + h.ro <= cb
  <2>1. (codePages - 1) * b = cb - b /\ cb \in Int
    BY <1>1, <1>3, Product
  <2> HIDE DEF cb, b
  <2>2. cb - b + codeLast = h.code
    BY <1>3, <2>1
  <2> QED
    BY <1>1, <1>3, <1>4, <2>1, <2>2
<1>14. Spills(h) <=> roRest # 0
  <2>1. Spills(h) <=> h.code + h.ro > cb
    BY DEF Spills, codePages
  <2> HIDE DEF cb
  <2> QED
    BY <1>1, <1>4, <1>13, <2>1
\* The second part of each segment begins where the first one ends.
<1>15. Fills(R1 \cup R2, "ro", h.code, h.ro, 0)
  <2>1. Fills(R1, "ro", h.code, roFirst, 0)
    <3>1. CASE h.ro > 0 /\ codeLast # b
      BY <1>11, <3>1
    <3>2. CASE ~(h.ro > 0 /\ codeLast # b)
      <4>1. roFirst = 0 /\ R1 = {}
        BY <1>1, <1>4, <3>2
      <4> HIDE DEF R1
      <4> QED
        BY <1>1, <4>1, FillsNothing
    <3> QED
      BY <3>1, <3>2
  <2>2. Fills(R2, "ro", h.code + roFirst, roRest, 0 + roFirst)
    <3>1. CASE h.ro > 0
      <4>1. Fills(R2, "ro", cb, roRest, roFirst)
        BY <1>9, <3>1
      <4>2. h.code + roFirst \in Int /\ (roRest # 0 => h.code + roFirst = cb) /\ roRest \in Nat /\ cb \in Int
            /\ 0 + roFirst = roFirst
        BY <1>1, <1>4, <1>13
      <4> HIDE DEF R2, cb
      <4> QED
        BY <4>1, <4>2, FillsThere
    <3>2. CASE ~(h.ro > 0)
      <4>1. roRest = 0 /\ R2 = {} /\ h.code + roFirst \in Nat
        BY <1>1, <1>4, <3>2
      <4> HIDE DEF R2
      <4> QED
        BY <4>1, FillsNothing
    <3> QED
      BY <3>1, <3>2
  <2> HIDE DEF R1, R2
  <2>3. \A zero \in Nat : Fills(R1, "ro", h.code, roFirst, zero) /\ Fills(R2, "ro", h.code + roFirst, roRest, zero + roFirst)
                            => Fills(R1 \cup R2, "ro", h.code, roFirst + roRest, zero)
    BY <1>1, <1>4, FillsTogether
  <2> QED
    BY <1>4, <2>1, <2>2, <2>3
<1>16. ASSUME Spills(h) PROVE Fills(I1 \cup I2, "init", h.code + h.ro, h.init, 0)
  <2>1. roRest # 0 /\ roPages > 0
    BY <1>5, <1>14, <1>16
  <2>2. eb \in Int /\ (roEnd - 1) * b = eb - b /\ eb - b + roLast = h.code + h.ro
    <3> DEFINE rb == roPages * b
    <3>1. eb = cb + rb /\ rb \in Int
      BY <1>1, <1>3, <1>5, Order, Product
    <3>2. (roPages - 1) * b = rb - b
      BY <1>1, <1>5, Product
    <3>3. roEnd \in Int
      BY <1>3, <1>5
    <3>4. (roEnd - 1) * b = eb - b
      <4> HIDE DEF roEnd
      <4> QED
        BY <1>1, <3>3, Product
    <3> HIDE DEF rb, cb, eb, b
    <3> QED
      BY <1>1, <1>4, <1>5, <1>13, <2>1, <3>1, <3>2, <3>4
  <2>3. Fills(I1, "init", h.code + h.ro, initFirst, 0)
    <3>1. CASE h.init > 0 /\ roLast # b
      BY <1>12, <2>1, <2>2, <3>1
    <3>2. CASE ~(h.init > 0 /\ roLast # b)
      <4>1. initFirst = 0 /\ I1 = {} /\ h.code + h.ro \in Nat
        BY <1>1, <1>6, <3>2
      <4> HIDE DEF I1
      <4> QED
        BY <4>1, FillsNothing
    <3> QED
      BY <3>1, <3>2
  <2>4. Fills(I2, "init", h.code + h.ro + initFirst, initRest, 0 + initFirst)
    <3>1. CASE h.init > 0
      <4>1. Fills(I2, "init", eb, initRest, initFirst)
        BY <1>10, <3>1
      <4>2. h.code + h.ro + initFirst \in Int /\ (initRest # 0 => h.code + h.ro + initFirst = eb)
            /\ initRest \in Nat /\ eb \in Int /\ 0 + initFirst = initFirst
        <5> HIDE DEF eb, b
        <5> QED
          BY <1>1, <1>5, <1>6, <2>2
      <4> HIDE DEF I2, eb
      <4> QED
        BY <4>1, <4>2, FillsThere
    <3>2. CASE ~(h.init > 0)
      <4>1. initRest = 0 /\ I2 = {} /\ h.code + h.ro + initFirst \in Nat
        BY <1>1, <1>6, <3>2
      <4> HIDE DEF I2
      <4> QED
        BY <4>1, FillsNothing
    <3> QED
      BY <3>1, <3>2
  <2> HIDE DEF I1, I2
  <2> DEFINE low == h.code + h.ro
  <2>5. low \in Nat
    BY <1>1
  <2> HIDE DEF low
  <2>6. \A zero \in Nat : Fills(I1, "init", low, initFirst, zero) /\ Fills(I2, "init", low + initFirst, initRest, zero + initFirst)
                            => Fills(I1 \cup I2, "init", low, initFirst + initRest, zero)
    BY <1>6, <2>5, FillsTogether
  <2> QED
    BY <1>6, <2>3, <2>4, <2>6 DEF low
<1>17. ASSUME ~Spills(h)
       PROVE  \E low, n \in Nat, from \in Nat :
                Fills(I1 \cup I2, "init", low, n, from) /\ low .. low + n - 1 \subseteq Data(h)
  <2>1. roRest = 0 /\ roPages = 0 /\ roLast = 0
    BY <1>5, <1>14, <1>17
  <2>2. I1 = {} /\ I1 \cup I2 = I2
    BY <2>1
  <2>3. CASE h.init > 0
    <3>1. eb = cb
      <4>1. roEnd = codePages
        BY <1>3, <2>1
      <4> QED
        BY <4>1
    <3>2. Fills(I2, "init", cb, initRest, initFirst)
      BY <1>10, <2>3, <3>1
    <3>3. cb \in Nat /\ cb .. cb + initRest - 1 \subseteq Data(h)
      <4> HIDE DEF cb, b
      <4>1. cb \in Nat /\ h.code + h.ro <= cb
        BY <1>1, <1>13, <2>1
      <4>2. initRest # 0 => cb + initRest <= h.code + h.ro + h.init
        BY <1>1, <1>3, <1>6, <1>13, <2>1
      <4> QED
        BY <1>1, <1>6, <4>1, <4>2 DEF Data
    <3> HIDE DEF I2, cb
    <3> QED
      BY <1>6, <2>2, <3>2, <3>3
  <2>4. CASE ~(h.init > 0)
    <3>1. I2 = {} /\ h.code \in Nat
      BY <1>1, <2>4
    <3>2. Fills({}, "init", h.code, 0, 0)
      BY <3>1, FillsNothing
    <3>3. h.code .. h.code + 0 - 1 \subseteq Data(h)
      BY <3>1
    <3>4. Fills(I1 \cup I2, "init", h.code, 0, 0)
      BY <2>2, <3>1, <3>2, Zenon
    <3>5. 0 \in Nat
      OBVIOUS
    <3> QED
      BY <3>1, <3>3, <3>4, <3>5, Zenon
  <2> QED
    BY <2>3, <2>4
<1>18. Reads(h) = C \cup (R1 \cup R2) \cup (I1 \cup I2)
  <2> HIDE DEF C, R1, R2, I1, I2
  <2> QED
    BY <1>2
<1> HIDE DEF C, R1, R2, I1, I2
<1> QED
  BY <1>8, <1>15, <1>16, <1>17, <1>18

\* Load leaves in a page it zeroed what the program was linked to find there;
\* initialised data excepted, unless the read-only data spills over.
LEMMA LoadedIsLinked ==
  ASSUME NEW p \in Proc, NEW h \in Programs, NEW page \in Nat, NEW o \in Offset,
         Spills(h) \/ page * PageSize + o \notin Data(h)
  PROVE  Loaded(p, h, page, o) = Linked(p, h, page * PageSize + o)
<1> DEFINE v == page * PageSize + o
           covers == {r \in Reads(h) : Covers(r, page, o)}
<1>1. /\ h.code \in Nat /\ h.ro \in Nat /\ h.init \in Nat
  BY AddrSpaceAssumption
<1>2. v \in Nat
  <2>1. o \in Nat
    BY PageSizeType DEF Offset
  <2>2. page * PageSize \in Int /\ page * PageSize >= 0
    BY PageSizeType, Product
  <2> QED
    BY <2>1, <2>2
<1>3. PICK C, R, I :
        /\ Reads(h) = C \cup R \cup I
        /\ Fills(C, "code", 0, h.code, 0)
        /\ Fills(R, "ro", h.code, h.ro, 0)
        /\ Spills(h) => Fills(I, "init", h.code + h.ro, h.init, 0)
        /\ ~Spills(h) => \E low, n \in Nat, from \in Nat :
                           Fills(I, "init", low, n, from) /\ low .. low + n - 1 \subseteq Data(h)
  BY ReadsFill
<1>4. /\ \A r \in C : Covers(r, page, o) => v \in 0 .. 0 + h.code - 1 /\ r.seg = "code" /\ r.from + o - r.offset = 0 + v - 0
      /\ v \in 0 .. 0 + h.code - 1 => \E r \in C : Covers(r, page, o)
  BY <1>3 DEF Fills
<1>5. /\ \A r \in R : Covers(r, page, o) =>
           v \in h.code .. h.code + h.ro - 1 /\ r.seg = "ro" /\ r.from + o - r.offset = 0 + v - h.code
      /\ v \in h.code .. h.code + h.ro - 1 => \E r \in R : Covers(r, page, o)
  BY <1>3 DEF Fills
<1>6. /\ \A r \in I : Covers(r, page, o) =>
           v \in Data(h) /\ r.seg = "init" /\ r.from + o - r.offset = 0 + v - (h.code + h.ro)
      /\ v \in Data(h) => \E r \in I : Covers(r, page, o)
  <2>1. CASE Spills(h)
    <3>1. Fills(I, "init", h.code + h.ro, h.init, 0)
      BY <1>3, <2>1
    <3> QED
      BY <3>1 DEF Fills, Data
  <2>2. CASE ~Spills(h)
    <3>1. PICK low \in Nat, n \in Nat, from \in Nat :
            Fills(I, "init", low, n, from) /\ low .. low + n - 1 \subseteq Data(h)
      BY <1>3, <2>2
    <3>2. v \notin Data(h)
      BY <2>2
    <3>3. \A r \in I : Covers(r, page, o) => v \in low .. low + n - 1
      BY <3>1, Zenon DEF Fills
    <3> QED
      BY <3>1, <3>2, <3>3, Zenon
  <2> QED
    BY <2>1, <2>2
<1> HIDE DEF v
<1>7. /\ v \in 0 .. 0 + h.code - 1 <=> v < h.code
      /\ v \in Data(h) <=> v \in h.code + h.ro .. h.code + h.ro + h.init - 1
  BY <1>1, <1>2 DEF Data
<1>8. ASSUME NEW r \in covers
      PROVE  <<p, r.seg, r.from + o - r.offset>> = Linked(p, h, v)
  <2> DEFINE place == r.from + o - r.offset
  <2>1. Covers(r, page, o) /\ (r \in C \/ r \in R \/ r \in I)
    BY <1>3
  <2>2. ASSUME r \in C PROVE <<p, r.seg, place>> = Linked(p, h, v)
    <3>1. v < h.code /\ r.seg = "code" /\ place = v
      BY <1>2, <1>4, <1>7, <2>1, <2>2
    <3>2. v \notin h.code .. h.code + h.ro - 1 /\ v \notin h.code + h.ro .. h.code + h.ro + h.init - 1
      BY <1>1, <1>2, <3>1
    <3>3. Linked(p, h, v) = <<p, "code", v>>
      BY <3>1, <3>2 DEF Linked
    <3> HIDE DEF place
    <3> QED
      BY <3>1, <3>3
  <2>3. ASSUME r \in R PROVE <<p, r.seg, place>> = Linked(p, h, v)
    <3>1. v \in h.code .. h.code + h.ro - 1 /\ r.seg = "ro" /\ place = v - h.code
      BY <1>1, <1>2, <1>5, <2>1, <2>3
    <3>2. ~(v < h.code) /\ v \notin h.code + h.ro .. h.code + h.ro + h.init - 1
      BY <1>1, <1>2, <3>1
    <3>3. Linked(p, h, v) = <<p, "ro", v - h.code>>
      BY <3>1, <3>2 DEF Linked
    <3> HIDE DEF place
    <3> QED
      BY <3>1, <3>3
  <2>4. ASSUME r \in I PROVE <<p, r.seg, place>> = Linked(p, h, v)
    <3>1. v \in h.code + h.ro .. h.code + h.ro + h.init - 1 /\ r.seg = "init"
          /\ place = v - h.code - h.ro
      <4>1. 0 + v - (h.code + h.ro) = v - h.code - h.ro
        BY <1>1, <1>2
      <4> QED
        BY <1>6, <1>7, <2>1, <2>4, <4>1
    <3>2. ~(v < h.code) /\ v \notin h.code .. h.code + h.ro - 1
      BY <1>1, <1>2, <3>1
    <3>3. Linked(p, h, v) = <<p, "init", v - h.code - h.ro>>
      BY <3>1, <3>2 DEF Linked
    <3> HIDE DEF place
    <3> QED
      BY <3>1, <3>3
  <2> QED
    BY <2>1, <2>2, <2>3, <2>4
<1>9. covers = {} => Linked(p, h, v) = Zero
  BY <1>3, <1>4, <1>5, <1>6, <1>7 DEF Linked
<1>10. Loaded(p, h, page, o) = IF covers = {} THEN Zero
                               ELSE LET r == CHOOSE x \in covers : TRUE
                                    IN <<p, r.seg, r.from + o - r.offset>>
  BY DEF Loaded, Covers
<1> HIDE DEF covers
<1>11. covers # {} => (CHOOSE x \in covers : TRUE) \in covers
  OBVIOUS
<1> QED
  BY <1>8, <1>9, <1>10, <1>11 DEF v

-----------------------------------------------------------------------------
(* What Load leaves in memory *)

\* A process's pages, from Load's allocation on: as many as NumPages, zeroed and
\* then with what Load read into them, but for what the process stored.
Filled(p) ==
  LET table == pageTable[p]
      h == program[p]
  IN /\ pc[p] \in {"copy", "user"} => Len(table) = NumPages(h)
     /\ pc[p] = "copy" => \A i \in DOMAIN table, o \in Offset : memory[table[i]][o] = Zero
     /\ pc[p] = "user" => \A i \in DOMAIN table, o \in Offset :
                            memory[table[i]][o] \in {Loaded(p, h, i - 1, o), <<p, "store", 0>>}

AllFilled == \A p \in Proc : Filled(p)

\* Steps that leave p and its frames alone.
LEMMA FilledStays ==
  ASSUME NEW p \in Proc, Filled(p), pc'[p] = pc[p], program'[p] = program[p], pageTable'[p] = pageTable[p],
         \A i \in DOMAIN pageTable[p] : memory'[pageTable[p][i]] = memory[pageTable[p][i]]
  PROVE  Filled(p)'
BY DEF Filled

LEMMA AllocateFills ==
  ASSUME MemInv, AllFilled, NEW p \in Proc, Allocate(p)
  PROVE  AllFilled'
<1> DEFINE n == NumPages(program[p])
           table == FindAndSet(n)
<1>1. n \in Nat
  BY NumPagesType DEF MemInv, TypeOK
<1>2. /\ marked \subseteq Frame /\ n <= NumClear
      /\ pageTable' = [pageTable EXCEPT ![p] = table]
      /\ memory' = [f \in Frame |-> IF f \in Found(table) THEN [o \in Offset |-> Zero] ELSE memory[f]]
      /\ pc' = [pc EXCEPT ![p] = "copy"] /\ program' = program
  BY DEF Allocate, At, GoTo, MemInv, TypeOK
<1>3. DOMAIN pageTable = Proc /\ DOMAIN pc = Proc
  BY DEF MemInv, TypeOK
<1> HIDE DEF n
<1>4. table \in Seq(Frame \cup {-1}) /\ DOMAIN table = 1 .. n /\ \A i \in 1 .. n : table[i] \in Frame \ marked
  BY <1>1, <1>2, FindAndSetFinds
<1> HIDE DEF table
<1>5. /\ Found(table) \cap marked = {}
      /\ \A i \in 1 .. n : table[i] \in Found(table)
  <2>1. \A i \in 1 .. n : table[i] # -1
    BY <1>4, AddrSpaceAssumption DEF Frame
  <2> QED
    BY <1>4, <2>1 DEF Found
<1>6. ASSUME NEW q \in Proc, q # p PROVE Filled(q)'
  <2>1. \A i \in DOMAIN pageTable[q] : pageTable[q][i] \in Frame /\ pageTable[q][i] \notin Found(table)
    BY <1>2, <1>5 DEF MemInv, OwnFrames
  <2>2. \A i \in DOMAIN pageTable[q] : memory'[pageTable[q][i]] = memory[pageTable[q][i]]
    BY <1>2, <2>1
  <2>3. pc'[q] = pc[q] /\ pageTable'[q] = pageTable[q]
    BY <1>2, <1>3, <1>6
  <2> QED
    BY <1>2, <2>2, <2>3, FilledStays DEF AllFilled
<1>7. Filled(p)'
  <2>1. pageTable'[p] = table /\ pc'[p] = "copy"
    BY <1>2, <1>3
  <2>2. Len(table) = n
    BY <1>1, <1>4
  <2>3. \A i \in DOMAIN table, o \in Offset : memory'[table[i]][o] = Zero
    BY <1>2, <1>4, <1>5
  <2>4. n = NumPages(program'[p])
    BY <1>2 DEF n
  <2> QED
    BY <2>1, <2>2, <2>3, <2>4 DEF Filled
<1> QED
  BY <1>6, <1>7 DEF AllFilled

LEMMA CopyFills ==
  ASSUME MemInv, AllFilled, NEW p \in Proc, CopyAndExecute(p)
  PROVE  AllFilled'
<1> DEFINE table == pageTable[p]
           place(f) == CHOOSE i \in DOMAIN table : table[i] = f
<1>1. /\ pc[p] = "copy" /\ pc' = [pc EXCEPT ![p] = "user"]
      /\ memory' = [f \in Frame |->
           IF f \in Found(table)
           THEN [o \in Offset |-> LET byte == Loaded(p, program[p], place(f) - 1, o)
                                  IN IF byte = Zero THEN memory[f][o] ELSE byte]
           ELSE memory[f]]
      /\ pageTable' = pageTable /\ program' = program
  BY DEF CopyAndExecute, At, GoTo
<1>2. DOMAIN pc = Proc
  BY DEF MemInv, TypeOK
<1>3. \A q \in Proc : \A i \in DOMAIN pageTable[q] : pageTable[q][i] \in Frame /\ pageTable[q][i] # -1
  <2>1. \A q \in Proc : \A i \in DOMAIN pageTable[q] : pageTable[q][i] \in Frame
    BY DEF MemInv, TypeOK, OwnFrames
  <2> QED
    BY <2>1, AddrSpaceAssumption DEF Frame
<1>4. ASSUME NEW q \in Proc, q # p PROVE Filled(q)'
  <2>1. \A i \in DOMAIN pageTable[q] : pageTable[q][i] \notin Found(table)
    BY <1>4 DEF MemInv, OwnFrames, Found
  <2>2. \A i \in DOMAIN pageTable[q] : memory'[pageTable[q][i]] = memory[pageTable[q][i]]
    BY <1>1, <1>3, <2>1
  <2>3. pc'[q] = pc[q]
    BY <1>1, <1>2, <1>4
  <2> QED
    BY <1>1, <2>2, <2>3, FilledStays DEF AllFilled
<1>5. Filled(p)'
  <2>1. pc'[p] = "user" /\ Len(table) = NumPages(program[p])
        /\ \A i \in DOMAIN table, o \in Offset : memory[table[i]][o] = Zero
    BY <1>1, <1>2 DEF AllFilled, Filled
  <2>2. ASSUME NEW i \in DOMAIN table, NEW o \in Offset
        PROVE  memory'[table[i]][o] = Loaded(p, program[p], i - 1, o)
    <3>1. place(table[i]) = i
      <4>1. \A j \in DOMAIN table : table[j] = table[i] => j = i
        BY DEF MemInv, OwnFrames
      <4> HIDE DEF table
      <4> QED
        BY <4>1
    <3>2. table[i] \in Frame /\ table[i] \in Found(table)
      BY <1>3 DEF Found
    <3> DEFINE f == table[i]
    <3>3. memory'[f][o] = LET byte == Loaded(p, program[p], place(f) - 1, o)
                          IN IF byte = Zero THEN memory[f][o] ELSE byte
      <4> HIDE DEF table, place
      <4> QED
        BY <1>1, <3>2
    <3>4. memory[f][o] = Zero
      BY <2>1
    <3> HIDE DEF table, place
    <3> QED
      BY <3>1, <3>3, <3>4
  <2> QED
    BY <1>1, <2>1, <2>2 DEF Filled
<1> QED
  BY <1>4, <1>5 DEF AllFilled

LEMMA StoreFills ==
  ASSUME MemInv, AllFilled, NEW p \in Proc, Store(p)
  PROVE  AllFilled'
<1>1. current = p /\ pc[p] = "user" /\ machineTable = p
  BY DEF Store, At, MemInv, Restored
<1>2. PICK i \in DOMAIN pageTable[p], o \in Offset :
        memory' = [memory EXCEPT ![pageTable[p][i]][o] = <<p, "store", 0>>]
  BY <1>1 DEF Store
<1>3. UNCHANGED <<pageTable, pc, program>>
  BY DEF Store
<1>4. \A q \in Proc : \A j \in DOMAIN pageTable[q] : pageTable[q][j] \in Frame
  BY DEF MemInv, TypeOK, OwnFrames
<1>5. \A f \in Frame : /\ f # pageTable[p][i] => memory'[f] = memory[f]
                       /\ \A a \in Offset : memory'[f][a] \in {memory[f][a], <<p, "store", 0>>}
  BY <1>2, <1>4 DEF MemInv, TypeOK
<1>6. ASSUME NEW q \in Proc, q # p PROVE Filled(q)'
  <2>1. \A j \in DOMAIN pageTable[q] : pageTable[q][j] # pageTable[p][i]
    BY <1>6 DEF MemInv, OwnFrames
  <2> QED
    BY <1>3, <1>4, <1>5, <2>1, FilledStays DEF AllFilled
<1>7. Filled(p)'
  <2>1. ASSUME NEW j \in DOMAIN pageTable[p], NEW a \in Offset
        PROVE  memory'[pageTable[p][j]][a] \in {Loaded(p, program[p], j - 1, a), <<p, "store", 0>>}
    <3>1. memory[pageTable[p][j]][a] \in {Loaded(p, program[p], j - 1, a), <<p, "store", 0>>}
      BY <1>1 DEF AllFilled, Filled
    <3>2. memory'[pageTable[p][j]][a] \in {memory[pageTable[p][j]][a], <<p, "store", 0>>}
      BY <1>4, <1>5
    <3> QED
      BY <3>1, <3>2
  <2>2. Len(pageTable[p]) = NumPages(program[p])
    BY <1>1 DEF AllFilled, Filled
  <2> QED
    BY <1>1, <1>3, <2>1, <2>2 DEF Filled
<1> QED
  BY <1>6, <1>7 DEF AllFilled

\* Steps that change no page: p comes to none of the two places, or has left.
LEMMA OthersFill ==
  ASSUME MemInv, AllFilled, memory' = memory, program' = program,
         \A p \in Proc : \/ pc'[p] \notin {"copy", "user"}
                         \/ pc'[p] = pc[p] /\ pageTable'[p] = pageTable[p]
  PROVE  AllFilled'
<1> SUFFICES ASSUME NEW p \in Proc PROVE Filled(p)'
  BY DEF AllFilled
<1>1. CASE pc'[p] \notin {"copy", "user"}
  BY <1>1 DEF Filled
<1>2. CASE pc'[p] = pc[p] /\ pageTable'[p] = pageTable[p]
  BY <1>2, FilledStays DEF AllFilled
<1> QED
  BY <1>1, <1>2

LEMMA AllFilledNext == MemInv /\ AllFilled /\ [Next]_vars => AllFilled'
<1> SUFFICES ASSUME MemInv, AllFilled, [Next]_vars PROVE AllFilled'
  OBVIOUS
<1>1. DOMAIN pc = Proc /\ DOMAIN pageTable = Proc
  BY DEF MemInv, TypeOK
<1>2. CASE UNCHANGED vars
  BY <1>2, OthersFill DEF vars
<1>3. ASSUME NEW p \in Proc, OpenFails(p) \/ NoRoom(p) PROVE AllFilled'
  <2>1. memory' = memory /\ program' = program /\ pageTable' = pageTable /\ pc' = [pc EXCEPT ![p] = "gone"]
    BY <1>3 DEF OpenFails, NoRoom, GoTo
  <2> QED
    BY <1>1, <2>1, OthersFill
<1>4. ASSUME NEW p \in Proc, LockP(p) PROVE AllFilled'
  <2>1. /\ memory' = memory /\ program' = program /\ pageTable' = pageTable
        /\ pc' = [pc EXCEPT ![p] = IF addrLock > 0 THEN "locked" ELSE "lockWait"]
    BY <1>4 DEF LockP, GoTo
  <2> QED
    BY <1>1, <2>1, OthersFill
<1>5. ASSUME NEW p \in Proc, Exit(p) PROVE AllFilled'
  <2>1. /\ memory' = memory /\ program' = program /\ pageTable' = [pageTable EXCEPT ![p] = <<>>]
        /\ pc' = [pc EXCEPT ![p] = "gone"]
    BY <1>5 DEF Exit, At, GoTo, MemInv, Placed
  <2> QED
    BY <1>1, <2>1, OthersFill
<1>6. ASSUME NEW p \in Proc, Switch(p) PROVE AllFilled'
  BY <1>6, OthersFill DEF Switch
<1>7. ASSUME NEW p \in Proc, Load(p) \/ Store(p) \/ Exit(p) \/ Switch(p) PROVE AllFilled'
  BY <1>3, <1>4, <1>5, <1>6, <1>7, AllocateFills, CopyFills, StoreFills DEF Load
<1> QED
  BY <1>2, <1>7 DEF Next, Over

\* For pages, segments and a memory of any size, and however many processes are
\* loaded, run and end meanwhile, a program finds its code and read-only data
\* where it was linked, zeroes in its uninitialised data and stack, and its
\* initialised data too when the read-only data reaches beyond the last page of
\* the code: addrspace.cc:145-214.
THEOREM ImageLoadedCorrect == Spec => []ImageLoaded
<1>1. Init => AllFilled
  BY DEF Init, AllFilled, Filled
<1>2. ASSUME MemInv, AllFilled PROVE ImageLoaded
  <2> SUFFICES ASSUME NEW p \in Proc, pc[p] = "user", NEW v \in 0 .. NumPages(program[p]) * PageSize - 1,
                      Spills(program[p]) \/ v \notin Data(program[p])
               PROVE  AddrByte(p, v) \in {Linked(p, program[p], v), <<p, "store", 0>>}
    BY DEF ImageLoaded, LinkedAt, Spills, Data
  <2> DEFINE h == program[p]
             n == NumPages(h)
             page == v \div PageSize
             o == v % PageSize
  <2>1. h \in Programs /\ n \in Nat \ {0} /\ PageSize \in Nat \ {0}
    BY <1>2, NumPagesType, PageSizeType DEF MemInv, TypeOK
  <2> HIDE DEF n
  <2>2. v \in Nat /\ v < n * PageSize
    BY <2>1, Product DEF n
  <2>3. page \in Nat /\ o \in 0 .. (PageSize - 1) /\ v = page * PageSize + o
    <3>1. page \in Int /\ o \in 0 .. (PageSize - 1) /\ v = page * PageSize + o
      <4>1. \A m \in Int : m \div PageSize \in Int /\ m % PageSize \in 0 .. (PageSize - 1)
                           /\ m = (m \div PageSize) * PageSize + (m % PageSize)
        BY <2>1, Divides
      <4>2. v \in Int
        BY <2>2
      <4> QED
        BY <4>1, <4>2, Zenon
    <3>2. page \in Nat
      BY <2>1, <2>2
    <3> QED
      BY <3>1, <3>2
  <2> HIDE DEF page, o
  <2>4. page <= n - 1
    <3> DEFINE k == n - 1
    <3>1. k \in Int /\ k * PageSize = n * PageSize - PageSize
      BY <2>1, Product
    <3> DEFINE x == page * PageSize
               y == n * PageSize
    <3>2. x \in Int /\ y \in Int
      BY <2>1, <2>3, Product
    <3>3. x < (y - PageSize) + PageSize
      <4>1. v = x + o /\ v < y
        BY <2>2, <2>3
      <4> HIDE DEF x, y
      <4> QED
        BY <2>1, <2>3, <3>2, <4>1
    <3> HIDE DEF k
    <3>4. page <= k
      BY <2>1, <2>3, <3>1, <3>3, Order
    <3> QED
      BY <3>4 DEF k
  <2>5. page + 1 \in DOMAIN pageTable[p]
    <3>1. Len(pageTable[p]) = n /\ DOMAIN pageTable[p] = 1 .. Len(pageTable[p])
      BY <1>2 DEF AllFilled, Filled, MemInv, TypeOK, n
    <3> QED
      BY <2>1, <2>3, <2>4, <3>1
  <2>6. o \in Offset
    BY <2>3 DEF Offset
  <2>7. memory[pageTable[p][page + 1]][o] \in {Loaded(p, h, (page + 1) - 1, o), <<p, "store", 0>>}
    BY <1>2, <2>5, <2>6 DEF AllFilled, Filled
  <2>8. Loaded(p, h, page, o) = Linked(p, h, v)
    <3>1. Spills(h) \/ page * PageSize + o \notin Data(h)
      BY <2>3
    <3> HIDE DEF h
    <3> QED
      BY <2>1, <2>3, <2>6, <3>1, LoadedIsLinked
  <2>9. (page + 1) - 1 = page
    BY <2>3
  <2>10. AddrByte(p, v) = memory[pageTable[p][page + 1]][o]
    BY DEF AddrByte, page, o
  <2> QED
    BY <2>7, <2>8, <2>9, <2>10
<1> QED
  BY <1>1, <1>2, MemInvInit, MemInvNext, AllFilledNext, PTL DEF Spec
=============================================================================
