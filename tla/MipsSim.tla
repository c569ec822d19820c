------------------------------ MODULE MipsSim ------------------------------
(***************************************************************************)
(* The MIPS processor that runs user programs: Machine::OneInstruction,    *)
(* DelayedLoad and Mult of machine/mipssim.cc, RaiseException of           *)
(* machine/machine.cc, and the memory accesses of machine/translate.cc.    *)
(*                                                                         *)
(* A word has four bytes of ByteBits bits each (8 in the code); the masks  *)
(* and shifts of the code are those of that width.  An instruction is a    *)
(* record of its decoded fields, extra after its sign extension.  Bytes    *)
(* are numbered from the least significant one (the build of the code is   *)
(* little endian, with SIM_FIX).                                           *)
(*                                                                         *)
(* The processor's state is one record, so that the same operators can run *)
(* a second processor beside it that no interrupt disturbs.                *)
(***************************************************************************)
EXTENDS Integers, Sequences, FiniteSets

CONSTANTS
  ByteBits,      \* bits of a byte
  GPR,           \* the general registers, r0 and r31 among them
  PageSize,      \* bytes of a page
  NumPhysPages   \* pages of the main memory

ASSUME MipsSimAssumption ==
  /\ ByteBits \in Nat \ {0}
  /\ {"r0", "r31"} \subseteq GPR
  /\ PageSize \in Nat /\ PageSize > 0 /\ PageSize % 4 = 0
  /\ NumPhysPages \in Nat

-----------------------------------------------------------------------------
(* Words *)

\* Powers of two.
Pow2[n \in Nat] == IF n = 0 THEN 1 ELSE 2 * Pow2[n - 1]

Width == 4 * ByteBits
Full  == Pow2[Width]
Word  == -Pow2[Width - 1] .. Pow2[Width - 1] - 1
Byte  == 0 .. Pow2[ByteBits] - 1

U(w)    == w % Full
Wrap(x) == LET u == x % Full IN IF u >= Full \div 2 THEN u - Full ELSE u

Low(w, bytes)  == U(w) % Pow2[ByteBits * bytes]             \* w & 0xff, 0xffff, 0xffffff
High(w, bytes) == U(w) - Low(w, bytes)    \* w & 0xffffff00, ...
Up(w, bytes)   == Wrap(w * Pow2[ByteBits * bytes])        \* w << 8, 16, 24
Down(w, bytes) == U(w) \div Pow2[ByteBits * bytes]        \* (w >> 8) & 0xffffff, ...

Bit(w, i) == (U(w) \div Pow2[i]) % 2

FromBits(f) ==
  LET sum[i \in 0 .. Width] == IF i = 0 THEN 0 ELSE sum[i - 1] + f[i - 1] * Pow2[i - 1]
  IN Wrap(sum[Width])

BitAnd(a, b) == FromBits([i \in 0 .. Width - 1 |-> Bit(a, i) * Bit(b, i)])
BitXor(a, b) == FromBits([i \in 0 .. Width - 1 |-> (Bit(a, i) + Bit(b, i)) % 2])
BitNot(a)    == -a - 1
BitOr(a, b)  == BitNot(BitAnd(BitNot(a), BitNot(b)))

Flag(b)     == IF b THEN 1 ELSE 0
Negative(w) == w < 0     \* w & SIGN_BIT

\* The value of n bytes with its sign.
Extended(value, n) ==
  IF value >= Pow2[ByteBits * n - 1] THEN value - Pow2[ByteBits * n] ELSE value

-----------------------------------------------------------------------------
(* Arithmetic *)

\* The sum of a and b overflows: they agree in sign, and it does not.
SumOverflows(a, b) ==
  LET sum == Wrap(a + b)
  IN Negative(a) = Negative(b) /\ Negative(a) # Negative(sum)

DifferenceOverflows(a, b) ==
  LET diff == Wrap(a - b)
  IN Negative(a) # Negative(b) /\ Negative(a) # Negative(diff)

\* Division of C: towards 0.
Quotient(a, b) ==
  LET q == (IF a < 0 THEN -a ELSE a) \div (IF b < 0 THEN -b ELSE b)
  IN IF (a < 0) = (b < 0) THEN q ELSE -q

Remainder(a, b) == a - b * Quotient(a, b)

\* The loop of Mult: it looks at a's bits one at a time and adds in b, shifted.
MultLoop(a, b) ==
  LET step(v) ==
        LET add   == v.a % 2 = 1
            sum   == (v.lo + v.bLo) % Full
            carry == Flag(sum < v.bLo)
        IN [a   |-> v.a \div 2,
            bLo |-> (v.bLo * 2) % Full,
            bHi |-> (v.bHi * 2 + Flag(v.bLo >= Full \div 2)) % Full,
            lo  |-> IF add THEN sum ELSE v.lo,
            hi  |-> IF add THEN (v.hi + carry + v.bHi) % Full ELSE v.hi,
            over |-> add /\ v.a = 1]
      loop[i \in 0 .. Width] ==
        IF i = 0 THEN [a |-> a, bLo |-> U(b), bHi |-> 0, lo |-> 0, hi |-> 0, over |-> FALSE]
        ELSE LET v == loop[i - 1] IN IF v.over THEN v ELSE step(v)
      last == loop[Width]
  IN [hi |-> last.hi, lo |-> last.lo]

\* Faulty variant: the complement does not carry into the high word.
MultNoCarry(a, b, signedArith) ==
  LET negative == signedArith /\ (a < 0) # (b < 0)
      positive(x) == IF signedArith /\ x < 0 THEN Wrap(-x) ELSE x
      p  == MultLoop(positive(a), positive(b))
  IN IF a = 0 \/ b = 0 THEN [hi |-> 0, lo |-> 0]
     ELSE IF negative THEN [hi |-> Wrap(BitNot(p.hi)), lo |-> Wrap(-p.lo)]
     ELSE [hi |-> Wrap(p.hi), lo |-> Wrap(p.lo)]

Mult(a, b, signedArith) ==
  LET negative == signedArith /\ (a < 0) # (b < 0)
      positive(x) == IF signedArith /\ x < 0 THEN Wrap(-x) ELSE x
      p  == MultLoop(positive(a), positive(b))
  IN IF a = 0 \/ b = 0 THEN [hi |-> 0, lo |-> 0]
     ELSE IF negative
     THEN [hi |-> Wrap(BitNot(p.hi) + Flag(p.lo = 0)), lo |-> Wrap(-p.lo)]
     ELSE [hi |-> Wrap(p.hi), lo |-> Wrap(p.lo)]

\* The instructions whose whole effect is to give rd (or rt) a value; a and b
\* are the contents of rs and rt.  SRL and SRLV shift an int, as SRA does.
RegisterOps == {"ADDU", "SUBU", "AND", "OR", "XOR", "NOR", "SLT", "SLTU", "SLL", "SLLV",
                "SRA", "SRAV", "SRL", "SRLV"}
ImmediateOps == {"ADDIU", "ANDI", "ORI", "XORI", "SLTI", "SLTIU", "LUI"}

ShiftRight(w, n) == w \div Pow2[n]

Computed(op, a, b, extra) ==
  CASE op = "ADDU"  -> Wrap(a + b)
    [] op = "SUBU"  -> Wrap(a - b)
    [] op = "AND"   -> BitAnd(a, b)
    [] op = "OR"    -> BitOr(a, b)
    [] op = "XOR"   -> BitXor(a, b)
    [] op = "NOR"   -> BitNot(BitOr(a, b))
    [] op = "SLT"   -> Flag(a < b)
    [] op = "SLTU"  -> Flag(U(a) < U(b))
    [] op = "SLL"   -> Wrap(b * Pow2[extra])
    [] op = "SLLV"  -> Wrap(b * Pow2[a % Width])
    [] op \in {"SRA", "SRL"}   -> ShiftRight(b, extra)
    [] op \in {"SRAV", "SRLV"} -> ShiftRight(b, a % Width)
    [] op = "ADDIU" -> Wrap(a + extra)
    [] op = "ANDI"  -> BitAnd(a, Low(extra, 2))
    [] op = "ORI"   -> BitOr(a, Low(extra, 2))
    [] op = "XORI"  -> BitXor(a, Low(extra, 2))
    [] op = "SLTI"  -> Flag(a < extra)
    [] op = "SLTIU" -> Flag(U(a) < U(extra))
    [] op = "LUI"   -> Up(extra, 2)

-----------------------------------------------------------------------------
(* Memory.  A processor is [r, m, p]: registers, main memory, page table.   *)

\* Machine::Translate with a page table (the TLB is never built): the trap,
\* or "none", the physical address, and the table with its use and dirty bits.
Translate(p, addr, size, writing) ==
  LET vpn    == U(addr) \div PageSize
      entry  == p[vpn]
      fails(which) == [trap |-> which, phys |-> 0, p |-> p]
  IN IF addr % size # 0                     THEN fails("AddressError")
     ELSE IF vpn \notin DOMAIN p            THEN fails("AddressError")
     ELSE IF ~entry.valid                   THEN fails("PageFault")
     ELSE IF entry.readOnly /\ writing      THEN fails("ReadOnly")
     ELSE IF entry.frame >= NumPhysPages    THEN fails("BusError")
     ELSE [trap |-> "none",
           phys |-> entry.frame * PageSize + (U(addr) % PageSize),
           p    |-> [p EXCEPT ![vpn].use = TRUE, ![vpn].dirty = @ \/ writing]]

\* The value of the size bytes from phys on.
BytesAt(m, phys, size) ==
  LET sum[i \in 0 .. size] ==
        IF i = 0 THEN 0 ELSE sum[i - 1] + m[phys + i - 1] * Pow2[ByteBits * (i - 1)]
  IN sum[size]

\* ReadMem: the trap, or the value read and the processor.
ReadMem(s, addr, size) ==
  LET t == Translate(s.p, addr, size, FALSE)
  IN [trap |-> t.trap, s |-> [s EXCEPT !.p = t.p],
      value |-> IF t.trap = "none" THEN BytesAt(s.m, t.phys, size) ELSE 0]

WriteMem(s, addr, size, value) ==
  LET t == Translate(s.p, addr, size, TRUE)
  IN [trap |-> t.trap,
      s |-> IF t.trap # "none" THEN s
            ELSE [s EXCEPT !.p = t.p,
                    !.m = [a \in DOMAIN s.m |->
                             IF a \in t.phys .. t.phys + size - 1
                             THEN (Low(value, size) \div Pow2[ByteBits * (a - t.phys)]) % Pow2[ByteBits]
                             ELSE s.m[a]]]]

-----------------------------------------------------------------------------
(* Registers and the delayed load *)

Reg(s, n) == s.r.gen[n]

\* A pending load reaches its register, and another one becomes pending; r0
\* stays zero.
DelayedLoad(s, reg, value) ==
  [s EXCEPT !.r.gen = [@ EXCEPT ![s.r.LoadReg] = s.r.LoadValue, !["r0"] = 0],
            !.r.LoadReg = reg, !.r.LoadValue = value]

\* RaiseException up to the handler.  Faulty: the pending load stays pending.
RaisedPending(s, which, addr) == [s |-> [s EXCEPT !.r.BadVAddr = addr], trap |-> which]

Raised(s, which, addr) ==
  [s |-> DelayedLoad([s EXCEPT !.r.BadVAddr = addr], "r0", 0), trap |-> which]

\* The end of OneInstruction: the pending load of the instruction before
\* lands, this one's becomes pending, the program counters advance.
Finished(s, reg, value, pcAfter) ==
  LET t == DelayedLoad(s, reg, value)
  IN [s |-> [t EXCEPT !.r.PrevPC = t.r.PC, !.r.PC = t.r.NextPC, !.r.NextPC = pcAfter],
      trap |-> "none"]

Sequential(s) == Wrap(s.r.NextPC + 4)
Sets(s, n, value) == [s EXCEPT !.r.gen[n] = value]

\* An instruction that gives a register a value and goes on.
Gives(s, n, value) == Finished(Sets(s, n, value), "r0", 0, Sequential(s))

-----------------------------------------------------------------------------
(* The instructions, for a processor s that has fetched ins *)

Compute(s, ins) ==
  Gives(s, IF ins.op \in RegisterOps THEN ins.rd ELSE ins.rt,
        Computed(ins.op, Reg(s, ins.rs), Reg(s, ins.rt), ins.extra))

CheckedOps == {"ADD", "ADDI", "SUB"}

CheckedArithmetic(s, ins) ==
  LET a == Reg(s, ins.rs)
      b == IF ins.op = "ADDI" THEN ins.extra ELSE Reg(s, ins.rt)
  IN IF (IF ins.op = "SUB" THEN DifferenceOverflows(a, b) ELSE SumOverflows(a, b))
     THEN Raised(s, "Overflow", 0)
     ELSE Gives(s, IF ins.op = "ADDI" THEN ins.rt ELSE ins.rd,
                Wrap(IF ins.op = "SUB" THEN a - b ELSE a + b))

HiLoOps == {"MULT", "MULTU", "DIV", "DIVU", "MFHI", "MFLO", "MTHI", "MTLO"}

\* The host's division traps for the least number by -1, which stops it all.
HiLo(s, ins) ==
  LET a == Reg(s, ins.rs)
      b == Reg(s, ins.rt)
      both(hi, lo) == Finished([s EXCEPT !.r.Hi = hi, !.r.Lo = lo], "r0", 0, Sequential(s))
      product == Mult(a, b, ins.op = "MULT")
  IN CASE ins.op \in {"MULT", "MULTU"} -> both(product.hi, product.lo)
       [] ins.op \in {"DIV", "DIVU"} /\ b = 0 -> both(0, 0)
       [] ins.op = "DIV" /\ b # 0 -> IF Quotient(a, b) \in Word
                                     THEN both(Remainder(a, b), Quotient(a, b))
                                     ELSE [s |-> s, trap |-> "HostFault"]
       [] ins.op = "DIVU" /\ b # 0 -> both(Wrap(U(a) % U(b)), Wrap(U(a) \div U(b)))
       [] ins.op = "MFHI" -> Gives(s, ins.rd, s.r.Hi)
       [] ins.op = "MFLO" -> Gives(s, ins.rd, s.r.Lo)
       [] ins.op = "MTHI" -> both(a, s.r.Lo)
       [] ins.op = "MTLO" -> both(s.r.Hi, a)

BranchOps == {"BEQ", "BNE", "BGEZ", "BGTZ", "BLEZ", "BLTZ", "BGEZAL", "BLTZAL"}
LinkOps   == {"BGEZAL", "BLTZAL", "JAL", "JALR"}

\* The register that gets the return address gets it first, whether the
\* branch is then taken or not.
Linked(s, ins) ==
  IF ins.op \in LinkOps
  THEN Sets(s, IF ins.op = "JALR" THEN ins.rd ELSE "r31", Wrap(s.r.NextPC + 4))
  ELSE s

Taken(op, a, b) ==
  CASE op = "BEQ"  -> a = b
    [] op = "BNE"  -> a # b
    [] op \in {"BGEZ", "BGEZAL"} -> ~Negative(a)
    [] op \in {"BLTZ", "BLTZAL"} -> Negative(a)
    [] op = "BGTZ" -> a > 0
    [] op = "BLEZ" -> a <= 0

Branch(s, ins) ==
  LET t == Linked(s, ins)
  IN Finished(t, "r0", 0, IF Taken(ins.op, Reg(t, ins.rs), Reg(t, ins.rt))
                          THEN Wrap(s.r.NextPC + 4 * ins.extra) ELSE Sequential(s))

JumpOps == {"J", "JAL", "JR", "JALR"}

\* J and JAL keep the top bits of the address, 4 of 32.
Jump(s, ins) ==
  LET t      == Linked(s, ins)
      region == Pow2[Width - Width \div 8]
      top    == U(Sequential(s)) - (U(Sequential(s)) % region)
  IN Finished(t, "r0", 0, IF ins.op \in {"JR", "JALR"} THEN Reg(t, ins.rs)
                          ELSE Wrap(top + ((4 * ins.extra) % region)))

LoadOps == {"LB", "LBU", "LH", "LHU", "LW"}
SizeOf(op) == IF op \in {"LB", "LBU", "SB"} THEN 1 ELSE IF op \in {"LH", "LHU", "SH"} THEN 2 ELSE 4

Load(s, ins) ==
  LET addr == Wrap(Reg(s, ins.rs) + ins.extra)
      n    == SizeOf(ins.op)
      got  == ReadMem(s, addr, n)
  IN IF n > 1 /\ addr % n # 0 THEN Raised(s, "AddressError", addr)
     ELSE IF got.trap # "none" THEN Raised(s, got.trap, addr)
     ELSE Finished(got.s, ins.rt, IF ins.op \in {"LBU", "LHU"} THEN got.value
                                  ELSE Extended(got.value, n), Sequential(s))

PartOps == {"LWL", "LWR", "SWL", "SWR"}

\* What rt holds for LWL and LWR: a load of it that is pending counts.
\* Faulty: it does not.
OldValueSettled(s, rt) == Reg(s, rt)

OldValue(s, rt) == IF s.r.LoadReg = rt THEN s.r.LoadValue ELSE Reg(s, rt)

\* LWL takes the bytes of the aligned word up to the address to the left end
\* of the register, LWR those from the address on to its right end.
LoadPart(s, ins) ==
  LET addr == Wrap(Reg(s, ins.rs) + ins.extra)
      byte == addr % 4
      got  == ReadMem(s, addr - byte, 4)
      old  == OldValue(s, ins.rt)
      new  == IF ins.op = "LWL"
              THEN Wrap(Low(old, 3 - byte) + Up(got.value, 3 - byte))
              ELSE Wrap(High(old, 4 - byte) + Down(got.value, byte))
  IN IF got.trap # "none" THEN Raised(s, got.trap, addr - byte)
     ELSE Finished(got.s, ins.rt, new, Sequential(s))

\* SWL and SWR read the word, change their part of it and write it back.
StorePart(s, ins) ==
  LET addr == Wrap(Reg(s, ins.rs) + ins.extra)
      byte == addr % 4
      w    == Reg(s, ins.rt)
      got  == ReadMem(s, addr - byte, 4)
      new  == IF ins.op = "SWL" THEN Wrap(High(got.value, byte + 1) + Down(w, 3 - byte))
              ELSE Wrap(Low(got.value, byte) + Up(w, byte))
      put  == WriteMem(got.s, addr - byte, 4, new)
  IN IF got.trap # "none" THEN Raised(s, got.trap, addr - byte)
     ELSE IF put.trap # "none" THEN Raised(got.s, put.trap, addr - byte)
     ELSE Finished(put.s, "r0", 0, Sequential(s))

StoreOps == {"SB", "SH", "SW"}

Store(s, ins) ==
  LET addr == Wrap(Reg(s, ins.rs) + ins.extra)
      put  == WriteMem(s, addr, SizeOf(ins.op), Reg(s, ins.rt))
  IN IF put.trap # "none" THEN Raised(s, put.trap, addr)
     ELSE Finished(put.s, "r0", 0, Sequential(s))

Execute(s, ins) ==
  CASE ins.op \in RegisterOps \cup ImmediateOps -> Compute(s, ins)
    [] ins.op \in CheckedOps     -> CheckedArithmetic(s, ins)
    [] ins.op \in HiLoOps        -> HiLo(s, ins)
    [] ins.op \in BranchOps      -> Branch(s, ins)
    [] ins.op \in JumpOps        -> Jump(s, ins)
    [] ins.op \in LoadOps        -> Load(s, ins)
    [] ins.op \in {"LWL", "LWR"} -> LoadPart(s, ins)
    [] ins.op \in {"SWL", "SWR"} -> StorePart(s, ins)
    [] ins.op \in StoreOps       -> Store(s, ins)
    [] ins.op = "SYSCALL"        -> Raised(s, "Syscall", 0)
    [] OTHER                     -> Raised(s, "IllegalInstr", 0)

\* OneInstruction: fetch and execute.
OneInstruction(s, ins) ==
  LET fetched == ReadMem(s, s.r.PC, 4)
  IN IF fetched.trap # "none" THEN Raised(s, fetched.trap, s.r.PC)
     ELSE Execute(fetched.s, ins)
=============================================================================
