---------------------------- MODULE MCProcessor ----------------------------
(* Bytes of two bits, so that the four bytes of a word can all differ.  The  *)
(* first repertoire does arithmetic on pairs of words at the boundaries, one *)
(* instruction at a time; the second runs short programs over memory.        *)
EXTENDS Processor

MCGPR == {"r0", "r1", "r2", "r31", "r29"}

I(op, rs, rt, rd, extra) == [op |-> op, rs |-> rs, rt |-> rt, rd |-> rd, extra |-> extra]

Page(valid, frame, readOnly) ==
  [valid |-> valid, frame |-> frame, readOnly |-> readOnly, use |-> FALSE, dirty |-> FALSE]

\* Two pages of memory, swapped; one read-only, one invalid, one without a frame.
Table == [v \in 0 .. 4 |-> CASE v = 0 -> Page(TRUE, 1, FALSE)
                             [] v = 1 -> Page(TRUE, 0, FALSE)
                             [] v = 2 -> Page(TRUE, 1, TRUE)
                             [] v = 3 -> Page(FALSE, 0, FALSE)
                             [] v = 4 -> Page(TRUE, 9, FALSE)]

Memory == [a \in 0 .. 7 |-> << 1, 2, 3, 0, 3, 1, 0, 2 >>[a + 1]]

Start(values) ==
  [r |-> [StartRegisters(12) EXCEPT !.gen = [n \in GPR |-> IF n \in DOMAIN values THEN values[n] ELSE @[n]]],
   m |-> Memory, p |-> Table]

Operands == {-128, -127, -86, -16, -2, -1, 0, 1, 2, 5, 16, 85, 126, 127}

Arithmetic ==
  { I(op, "r1", "r2", "r31", x) :
      op \in RegisterOps \cup {"ADD", "SUB", "MULT", "MULTU", "DIV", "DIVU"}, x \in {3} }
  \cup { I(op, "r1", "r31", "r0", x) : op \in ImmediateOps \cup {"ADDI"}, x \in {-8, -1, 1, 7} }

Transfers ==
  { I(op, "r0", "r1", "r0", x) : op \in {"LWR", "SWR"}, x \in 0 .. 3 }
  \cup { I(op, "r0", "r1", "r0", x) : op \in {"LWL", "SWL"}, x \in 3 .. 6 }
  \cup { I(op, "r0", "r1", "r0", x) : op \in {"LW", "LH", "LBU"}, x \in {1, 4} }
  \cup { I(op, "r0", "r1", "r0", 6) : op \in {"LHU", "LB", "SH", "SB"} }

Others ==
  { I("SW", "r0", "r1", "r0", 4), I("SW", "r0", "r1", "r0", 8), I("LW", "r0", "r1", "r0", 12),
    I("SWL", "r0", "r1", "r0", 9), I("LWR", "r0", "r1", "r0", 17),
    I("ADDU", "r1", "r0", "r2", 0), I("ADDI", "r1", "r1", "r0", 7), I("LUI", "r0", "r2", "r0", 1),
    I("MTHI", "r1", "r0", "r0", 0), I("MTLO", "r1", "r0", "r0", 0),
    I("MFHI", "r0", "r0", "r2", 0), I("MFLO", "r0", "r0", "r2", 0),
    I("BEQ", "r0", "r1", "r0", 1), I("BNE", "r0", "r1", "r0", 1), I("BGTZ", "r1", "r0", "r0", 1),
    I("BLEZ", "r1", "r0", "r0", -1), I("BGEZAL", "r1", "r0", "r0", 1), I("BLTZ", "r1", "r0", "r0", 1),
    I("J", "r0", "r0", "r0", 1), I("JAL", "r0", "r0", "r0", 1), I("JALR", "r1", "r0", "r31", 0),
    I("JR", "r31", "r0", "r0", 0), I("SYSCALL", "r0", "r0", "r0", 0), I("RES", "r0", "r0", "r0", 0) }

MCStarts ==
  [arithmetic |-> {Start([r1 |-> a, r2 |-> b]) : a \in Operands, b \in Operands},
   memory     |-> {Start([r1 |-> 27, r31 |-> 8])}]
MCPrograms == [arithmetic |-> Arithmetic, memory |-> Transfers \cup Others]
MCSteps    == [arithmetic |-> 1, memory |-> 3]
=============================================================================
