----------------------------- MODULE Processor -----------------------------
(***************************************************************************)
(* A user program on the processor of MipsSim, as Machine::Run drives it:  *)
(* an instruction, then the moment at which interrupts are taken, which    *)
(* lands a pending load whether or not another thread then runs.  The      *)
(* handler of a trap is ExceptionHandler: a system call gives r2 a value   *)
(* or not and steps over the instruction, every other trap halts.          *)
(*                                                                         *)
(* alone is a second processor that runs the same instructions and takes   *)
(* no interrupt.                                                           *)
(***************************************************************************)
EXTENDS MipsSim

CONSTANTS
  Repertoires,  \* kinds of programs
  Starts,       \* the processors a program of each kind begins with
  Programs,     \* the instructions of each kind
  Steps,        \* bound: how many instructions of each kind are run
  Results       \* what system calls return

Registers ==
  [gen : [GPR -> Word], Hi : Word, Lo : Word, PC : Word, NextPC : Word, PrevPC : Word,
   BadVAddr : Word, LoadReg : GPR, LoadValue : Word]

PageEntry ==
  [valid : BOOLEAN, frame : Nat, readOnly : BOOLEAN, use : BOOLEAN, dirty : BOOLEAN]

\* No frame is written through two pages.
PagesApart(p) ==
  \A v, w \in DOMAIN p :
    (\A x \in {v, w} : p[x].valid /\ ~p[x].readOnly) /\ p[v].frame = p[w].frame => v = w

\* A program begins with what a processor has, a frame for each page that it
\* writes, and r0 zero; its instructions name registers there are, and so do
\* the handlers of system calls; what is immediate in them fits a word, and a
\* shift amount its field.
ASSUME ProcessorAssumption ==
  /\ "r2" \in GPR /\ Results \subseteq Word
  /\ \A k \in Repertoires :
       /\ \A s \in Starts[k] :
            /\ s = [r |-> s.r, m |-> s.m, p |-> s.p] /\ s.r \in Registers /\ s.r.gen["r0"] = 0
            /\ s.m \in [0 .. NumPhysPages * PageSize - 1 -> Byte]
            /\ s.p \in [DOMAIN s.p -> PageEntry] /\ PagesApart(s.p)
       /\ \A ins \in Programs[k] :
            /\ {ins.rs, ins.rt, ins.rd} \subseteq GPR
            /\ ins.extra \in Word
            /\ ins.op \in {"SLL", "SRA", "SRL"} => ins.extra \in 0 .. Width - 1

VARIABLES
  repertoire,   \* which of the repertoires this is
  cpu,          \* the processor
  mode,         \* "user", or how the machine stopped
  alone,        \* history: the processor without interrupts
  clean,        \* history: no instruction has used a register whose load it
                \* came too early for
  trace         \* history: the instructions so far, the state each found, its trap

processorVars == <<repertoire, cpu, mode, alone, clean, trace>>

-----------------------------------------------------------------------------
Stops == {"PageFault", "ReadOnly", "BusError", "AddressError", "Overflow", "IllegalInstr",
          "HostFault", "BadCall"}

ProcessorInit ==
  /\ repertoire \in Repertoires
  /\ cpu \in Starts[repertoire]
  /\ alone = cpu
  /\ mode = "user"
  /\ clean = TRUE
  /\ trace = <<>>

\* InitRegisters.
StartRegisters(stack) ==
  [gen |-> [n \in GPR |-> IF n = "r29" THEN stack ELSE 0], Hi |-> 0, Lo |-> 0,
   PC |-> 0, NextPC |-> 4, PrevPC |-> 0, BadVAddr |-> 0, LoadReg |-> "r0", LoadValue |-> 0]

\* IncreasePC: to the next instruction in memory, whatever NextPC was.
IncreasePC(s) ==
  [s EXCEPT !.r.PrevPC = s.r.PC, !.r.PC = Wrap(s.r.PC + 4), !.r.NextPC = Wrap(s.r.PC + 8)]

\* The handlers of the system calls: "return" with a value in r2, "proceed"
\* without one, "bad" for a number that is none of theirs.
Handled(s, answer) ==
  IF answer.how = "return" THEN IncreasePC(Sets(s, "r2", answer.value)) ELSE IncreasePC(s)

Answers == [how : {"return"}, value : Results] \cup {[how |-> "proceed"]}

\* The registers an instruction reads or writes at once.
Uses(ins) ==
  IF ins.op \in LoadOps \cup {"LWL", "LWR"} THEN {ins.rs}
  ELSE {ins.rs, ins.rt, ins.rd} \cup (IF ins.op \in LinkOps THEN {"r31"} ELSE {})

MayGoOn == mode = "user" /\ Len(trace) < Steps[repertoire]

Recorded(ins, trap) ==
  /\ trace' = Append(trace, [ins |-> ins, before |-> cpu, trap |-> trap])
  /\ clean' = (clean /\ (alone.r.LoadReg = "r0" \/ alone.r.LoadReg \notin Uses(ins)))
  /\ UNCHANGED repertoire

RunInstruction(ins) ==
  LET after == OneInstruction(cpu, ins)
  IN /\ MayGoOn
     /\ after.trap # "Syscall"
     /\ cpu' = after.s
     /\ alone' = OneInstruction(alone, ins).s
     /\ mode' = IF after.trap = "none" THEN "user" ELSE after.trap
     /\ Recorded(ins, after.trap)

Syscall(ins) ==
  LET after == OneInstruction(cpu, ins)
  IN /\ MayGoOn
     /\ after.trap = "Syscall"
     /\ \/ \E answer \in Answers :
             /\ cpu' = Handled(after.s, answer)
             /\ alone' = Handled(OneInstruction(alone, ins).s, answer)
             /\ UNCHANGED mode
        \/ /\ cpu' = after.s
           /\ alone' = OneInstruction(alone, ins).s
           /\ mode' = "BadCall"
     /\ Recorded(ins, after.trap)

\* Faulty variant: the pending load is cancelled.
InterruptDrops ==
  /\ mode = "user"
  /\ cpu' = [cpu EXCEPT !.r.LoadReg = "r0", !.r.LoadValue = 0]
  /\ cpu' # cpu
  /\ UNCHANGED <<repertoire, mode, alone, clean, trace>>

\* OneTick finds an interrupt due.
Interrupt ==
  /\ mode = "user"
  /\ cpu' = DelayedLoad(cpu, "r0", 0)
  /\ cpu' # cpu
  /\ UNCHANGED <<repertoire, mode, alone, clean, trace>>

ProcessorNext ==
  \/ Interrupt
  \/ MayGoOn /\ \E ins \in Programs[repertoire] : RunInstruction(ins) \/ Syscall(ins)

ProcessorSpec == ProcessorInit /\ [][ProcessorNext]_processorVars

-----------------------------------------------------------------------------
ProcessorTypeOK ==
  /\ cpu.r \in Registers
  /\ \A a \in DOMAIN cpu.m : cpu.m[a] \in Byte
  /\ mode \in Stops \cup {"user"}

\* Once nothing is pending, the processor is where the same instructions take
\* one that is never interrupted: a load in progress is neither lost nor done
\* twice, and what a part of an unaligned load needs of it is there.  Except
\* for programs that use a register in the instruction after its load.
\* interrupt.cc:280 (CheckIfDue lands it), mipssim.cc:336.
InterruptsUnseen ==
  clean => DelayedLoad(cpu, "r0", 0) = DelayedLoad(alone, "r0", 0)

Latest == trace[Len(trace)]
Settled(s) == DelayedLoad(s, "r0", 0)

\* A trap finds the processor as it was before the instruction, with the
\* load before it done: no register, no byte of memory and no program counter
\* has changed, so that the instruction can be done again or stepped over.
\* mipssim.cc:137 (the pc after is not installed), machine.cc:100.
Precise ==
  trace # <<>> /\ Latest.trap \notin {"none", "HostFault"} =>
    LET was == Settled(Latest.before)
    IN /\ cpu.m = was.m
       /\ cpu.r.LoadReg = "r0"
       /\ \A n \in GPR : Reg(cpu, n) # Reg(was, n) => Latest.trap = "Syscall" /\ n = "r2"
       /\ cpu.r.Hi = was.r.Hi /\ cpu.r.Lo = was.r.Lo
       /\ cpu.r.PC = IF mode = "user" THEN Wrap(was.r.PC + 4) ELSE was.r.PC
       /\ cpu.r.NextPC = IF mode = "user" THEN Wrap(was.r.PC + 8) ELSE was.r.NextPC

\* A trap is precise, and r0 is zero then and at any other time, whatever the
\* instructions write there (mipssim.cc:137, mipssim.cc:718).
TrapsPrecise == Precise /\ Reg(cpu, "r0") = 0

Address(i) == Wrap(Reg(trace[i].before, trace[i].ins.rs) + trace[i].ins.extra)

\* The byte of the program's memory at an address.
VirtualByte(s, a) == s.m[Translate(s.p, a, 1, FALSE).phys]

\* The last two instructions are the two parts, in either order, of a
\* transfer of rt and the word that begins at an address.
IsPair(left, right, a) ==
  LET n == Len(trace)
  IN /\ n > 1 /\ \A i \in {n - 1, n} : trace[i].trap = "none"
     /\ trace[n - 1].ins.rt = trace[n].ins.rt
     /\ \E l, k \in {n - 1, n} : /\ trace[l].ins.op = left  /\ Address(l) = Wrap(a + 3)
                               /\ trace[k].ins.op = right /\ Address(k) = a

\* LWL and LWR, or SWL and SWR, together move the word at any address, in
\* either order, and touch nothing else.  mipssim.cc:315 (the parts of Kane's
\* book, done with aligned accesses), mipssim.cc:625.
PairsWhole ==
  trace # <<>> /\ mode = "user" =>
    LET n  == Len(trace)
        rt == Latest.ins.rt
        a0 == Address(n)
    IN \A a \in {a0, Wrap(a0 - 3)} :
         LET word(w) == [i \in 0 .. 3 |-> Low(Down(w, i), 1)]
         IN /\ IsPair("LWL", "LWR", a) /\ rt # "r0" =>
                 /\ word(Reg(Settled(cpu), rt)) = [i \in 0 .. 3 |-> VirtualByte(cpu, Wrap(a + i))]
                 /\ cpu.m = trace[n - 1].before.m
            /\ IsPair("SWL", "SWR", a) /\ trace[n - 1].before.r.LoadReg # rt =>
                 /\ word(Reg(cpu, rt)) = [i \in 0 .. 3 |-> VirtualByte(cpu, Wrap(a + i))]
                 /\ \A b \in DOMAIN cpu.m \ {Translate(cpu.p, Wrap(a + i), 1, FALSE).phys : i \in 0 .. 3} :
                      cpu.m[b] = trace[n - 1].before.m[b]

\* What arithmetic says of the processor s that has done e, an entry of the
\* trace, when no load was pending before it.
ArithmeticRight(e, s) ==
  LET ins   == e.ins
      done  == e.trap = "none"
      a     == Reg(e.before, ins.rs)
      b     == Reg(e.before, ins.rt)
      to    == IF ins.op = "ADDI" THEN ins.rt ELSE ins.rd
      exact == CASE ins.op = "ADD" -> a + b [] ins.op = "ADDI" -> a + ins.extra [] OTHER -> a - b
      hi    == s.r.Hi
      lo    == s.r.Lo
  IN /\ ins.op \in CheckedOps /\ e.trap \in {"none", "Overflow"} =>
          /\ done <=> exact \in Word
          /\ done /\ to # "r0" => Reg(s, to) = exact
     /\ done /\ ins.op = "MULT"  => hi * Full + U(lo) = a * b
     /\ done /\ ins.op = "MULTU" => U(hi) * Full + U(lo) = U(a) * U(b)
     /\ done /\ ins.op = "DIV" /\ b # 0 => lo * b + hi = a /\ hi * hi < b * b /\ hi * a >= 0
     /\ done /\ ins.op = "DIVU" /\ b # 0 => U(lo) * U(b) + U(hi) = U(a) /\ U(hi) < U(b)
     /\ done /\ ins.op \in {"AND", "OR", "XOR", "NOR"} /\ ins.rd # "r0" =>
          \A i \in 0 .. Width - 1 :
            LET p == Bit(a, i) = 1
                q == Bit(b, i) = 1
            IN Bit(Reg(s, ins.rd), i) = Flag(CASE ins.op = "AND" -> p /\ q
                                               [] ins.op = "OR"  -> p \/ q
                                               [] ins.op = "XOR" -> p # q
                                               [] ins.op = "NOR" -> ~(p \/ q))

\* What the arithmetic instructions compute is what arithmetic says: the sum
\* or the trap, the product over both words, quotient and remainder, bits; and
\* nothing they or the others leave is wider than its register or its byte.
\* mipssim.cc:158 and mipssim.cc:550 (overflow is told from the signs),
\* mipssim.cc:773 (multiplication bit by bit), mipssim.cc:237.
ArithmeticCorrect ==
  /\ ProcessorTypeOK
  /\ trace # <<>> /\ Latest.before.r.LoadReg = "r0" => ArithmeticRight(Latest, cpu)
=============================================================================
