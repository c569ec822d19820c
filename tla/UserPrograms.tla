---------------------------- MODULE UserPrograms ----------------------------
(***************************************************************************)
(* Programs of the test directory that share files and semaphores:         *)
(* pingpong.c with ping.c and pong.c, and project2.c with sinhvien.c; and  *)
(* next to them programs that make any call on files.  A program is a      *)
(* sequence of system calls.  Of Exec, Load and Join the part is modelled  *)
(* that needs the host's descriptors; for the rest they are taken for what *)
(* ProcTable and AddrSpace show of them: there is a slot, memory may be    *)
(* short, and a child is waited for until it exits.                        *)
(***************************************************************************)
EXTENDS FileTable, NamedSemaphores

CONSTANTS
  Main,      \* the process that runs pingpong.c or project2.c
  Children,  \* <<c, d>>: the processes it starts
  Free,      \* the processes that make any call on files
  Output,    \* the name output.txt
  Turns,     \* the loops of ping.c and pong.c (5)
  Records,   \* the loop of sinhvien.c (10)
  MaxFreeCalls   \* bound: the calls of the processes in Free

ASSUME UserProgramsAssumption ==
  /\ Turns \in Nat \ {0}
  /\ Records \in Nat \ {0}
  /\ MaxFreeCalls \in Nat
  /\ Output \in Names
  /\ {Main} \cup Free \subseteq Procs
  /\ Main \in Callers
  /\ Children \in Seq(Procs \cap Callers)
  /\ \A i, j \in DOMAIN Children : Children[i] = Children[j] => i = j
  /\ \A i \in DOMAIN Children : Children[i] \notin {Main} \cup Free
  /\ Main \notin Free
  /\ 1 .. Len(Children) + 1 \subseteq Bytes    \* the students' digits and the blank
  /\ {"ping", "pong", "print", "tape"} = SemNames
  /\ MaxSemaphore >= 4    \* it is 10

VARIABLES
  story,     \* which of the two main programs runs
  at,        \* the place in a process's program, 0 before its Exec
  image,     \* how far the Exec of a process and the Load of its program came
  out_file,  \* sinhvien.c's variable
  printed,   \* history: what ping and pong have printed
  freeCalls  \* the calls of Free so far

programVars == <<fileVars, semVars, story, at, image, out_file, printed, freeCalls>>

-----------------------------------------------------------------------------
(* The programs *)

Call(op, arg) == [op |-> op, arg |-> arg]

\* body, n times.
Loop(n, body) ==
  [i \in 1 .. n * Len(body) |-> body[((i - 1) % Len(body)) + 1]]

PongBody == << Call("Wait", "pong"), Call("Wait", "print"), Call("PrintChar", "B"),
               Call("Signal", "print"), Call("Signal", "ping") >>

PingBody == << Call("Wait", "ping"), Call("Wait", "print"), Call("PrintChar", "A"),
               Call("Signal", "pong"), Call("Signal", "print") >>

StudentBody == << Call("Wait", "tape"), Call("Append", "record"), Call("Signal", "tape") >>

Student == << Call("Open", 0), Call("OpenElse", 3) >> \o Loop(Records, StudentBody)
             \o << Call("Close", 0), Call("Exit", 0) >>

StartAll == [i \in 1 .. Len(Children) |-> Call("Exec", Children[i])]
JoinAll  == [i \in 1 .. Len(Children) |-> Call("Join", Children[i])]

PingPong == << Call("CreateSemaphore", "print"), Call("CreateSemaphore", "ping"),
               Call("CreateSemaphore", "pong") >> \o StartAll \o JoinAll

Project2 == << Call("CreateFile", 0), Call("CreateSemaphore", "tape") >> \o StartAll \o JoinAll

Ping == Loop(Turns, PingBody) \o << Call("Exit", 0) >>
Pong == Loop(Turns, PongBody) \o << Call("Exit", 0) >>

Program(p) ==
  IF story = "pingpong"
  THEN IF p = Main THEN PingPong ELSE IF p = Children[1] THEN Pong ELSE Ping
  ELSE IF p = Main THEN Project2 ELSE Student

Scripted == {Main} \cup {Children[i] : i \in DOMAIN Children}

Ended(p) == at[p] > Len(Program(p))

ProgramsInit ==
  /\ FileInit
  /\ SemInit
  /\ story \in {"pingpong", "tape"}
  /\ at = [p \in Scripted |-> IF p = Main THEN 1 ELSE 0]
  /\ image = [p \in Scripted |-> IF p = Main THEN "loaded" ELSE "none"]
  /\ out_file = [p \in Scripted |-> -1]
  /\ printed = [c \in {"A", "B"} |-> 0]
  /\ freeCalls = 0

-----------------------------------------------------------------------------
(* One system call of a program *)

\* The next call of p is op, and nothing of p's is in progress.
Calls(p, op) ==
  /\ Ready(p) /\ image[p] = "loaded" /\ at[p] > 0 /\ ~Ended(p) /\ waitsOn[p] = 0
  /\ Program(p)[at[p]].op = op

Arg(p)  == Program(p)[at[p]].arg
Advance(p) == at' = [at EXCEPT ![p] = @ + 1]

CallCreateSemaphore(p) ==
  /\ Calls(p, "CreateSemaphore")
  /\ CreateSemaphore(Arg(p), 1) \/ CreateFails(Arg(p))
  /\ Advance(p)
  /\ UNCHANGED <<fileVars, story, image, out_file, printed, freeCalls>>

CallWait(p) ==
  /\ Calls(p, "Wait")
  /\ Wait(p, Arg(p)) \/ UnknownName(Arg(p))
  /\ Advance(p)
  /\ UNCHANGED <<fileVars, story, image, out_file, printed, freeCalls>>

WaitReturns(p) ==
  /\ outcome = "running"
  /\ WaitPass(p)
  /\ UNCHANGED <<fileVars, story, at, image, out_file, printed, freeCalls>>

CallSignal(p) ==
  /\ Calls(p, "Signal")
  /\ Signal(Arg(p)) \/ UnknownName(Arg(p))
  /\ Advance(p)
  /\ UNCHANGED <<fileVars, story, image, out_file, printed, freeCalls>>

CallPrintChar(p) ==
  /\ Calls(p, "PrintChar")
  /\ printed' = [printed EXCEPT ![Arg(p)] = @ + 1]
  /\ Advance(p)
  /\ UNCHANGED <<fileVars, semVars, story, image, out_file, freeCalls>>

\* SysExec opens the executable and closes it again; it returns -1 when the
\* host refuses.
CallExec(p) ==
  /\ Calls(p, "Exec")
  /\ IF hostOpen < HostMax
     THEN /\ at' = [at EXCEPT ![p] = @ + 1, ![Arg(p)] = 1]
          /\ image' = [image EXCEPT ![Arg(p)] = "forked"]
     ELSE /\ Advance(p)
          /\ image' = [image EXCEPT ![Arg(p)] = "refused"]
  /\ UNCHANGED <<fileVars, semVars, story, out_file, printed, freeCalls>>

\* StartProcess in the child: Load opens the executable again.
LoadOpens(p) ==
  /\ outcome = "running" /\ image[p] = "forked"
  /\ \/ OpenExecutable(p) /\ UNCHANGED image
     \/ /\ p \notin loading /\ hostOpen = HostMax
        /\ image' = [image EXCEPT ![p] = "failed"]
        /\ UNCHANGED fileVars
  /\ UNCHANGED <<semVars, story, at, out_file, printed, freeCalls>>

\* Load has copied the program, or finds that memory is short (AddrSpace).  A
\* thread whose Load fails ends without a word to its parent.
LoadEnds(p) ==
  /\ outcome = "running" /\ image[p] = "forked"
  /\ CloseExecutable(p)
  /\ \E end \in {"loaded", "failed"} : image' = [image EXCEPT ![p] = end]
  /\ UNCHANGED <<semVars, story, at, out_file, printed, freeCalls>>

\* Faulty: Join does not ask whether there is a process of that id.
JoinUnchecked(p) ==
  /\ Calls(p, "Join")
  /\ Ended(Arg(p))
  /\ Advance(p)
  /\ UNCHANGED <<fileVars, semVars, story, image, out_file, printed, freeCalls>>

\* Join of the -1 of an Exec that was refused returns at once; of a child that
\* could not be loaded it never does.
CallJoin(p) ==
  /\ Calls(p, "Join")
  /\ Ended(Arg(p)) \/ image[Arg(p)] = "refused"
  /\ Advance(p)
  /\ UNCHANGED <<fileVars, semVars, story, image, out_file, printed, freeCalls>>

CallCreateFile(p) ==
  /\ Calls(p, "CreateFile")
  /\ CreateFile(p, Output)
  /\ Advance(p)
  /\ UNCHANGED <<semVars, story, image, out_file, printed, freeCalls>>

CallOpen(p) ==
  /\ Calls(p, "Open")
  /\ OpenFails(p, Output) \/ Open(p, Output, Arg(p))
  /\ out_file' = [out_file EXCEPT ![p] = result'.value]
  /\ Advance(p)
  /\ UNCHANGED <<semVars, story, image, printed, freeCalls>>

\* if (out_file == -1) out_file = Open("output.txt", 3);
CallOpenElse(p) ==
  /\ Calls(p, "OpenElse")
  /\ IF out_file[p] = -1
     THEN /\ OpenConsole(p, Arg(p))
          /\ out_file' = [out_file EXCEPT ![p] = result'.value]
     ELSE UNCHANGED <<fileVars, out_file>>
  /\ Advance(p)
  /\ UNCHANGED <<semVars, story, image, printed, freeCalls>>

\* A student writes its own digit and a blank.
Record(p) == << CHOOSE i \in DOMAIN Children : Children[i] = p, Len(Children) + 1 >>

CallAppend(p) ==
  /\ Calls(p, "Append")
  /\ SysAppend(p, out_file[p], Record(p))
  /\ Advance(p)
  /\ UNCHANGED <<semVars, story, image, out_file, printed, freeCalls>>

CallClose(p) ==
  /\ Calls(p, "Close")
  /\ Close(p, out_file[p])
  /\ Advance(p)
  /\ UNCHANGED <<semVars, story, image, out_file, printed, freeCalls>>

CallExit(p) ==
  /\ Calls(p, "Exit")
  /\ ExitFiles(p)
  /\ Advance(p)
  /\ UNCHANGED <<semVars, story, image, out_file, printed, freeCalls>>

\* A character of a call on the console, or its return.
Console(p) ==
  /\ Transfer(p) \/ ConsoleReturn(p)
  /\ UNCHANGED <<semVars, story, at, image, out_file, printed, freeCalls>>

Step(p) ==
  \/ CallCreateSemaphore(p) \/ CallWait(p) \/ CallSignal(p)
  \/ CallPrintChar(p) \/ CallExec(p) \/ LoadOpens(p) \/ LoadEnds(p) \/ CallJoin(p)
  \/ CallCreateFile(p) \/ CallOpen(p) \/ CallOpenElse(p)
  \/ CallAppend(p) \/ CallClose(p) \/ CallExit(p) \/ Console(p)

\* A program of which nothing is known makes calls on files while project2
\* runs, and may create the semaphores before their users do.
FreeCall(p) ==
  /\ \/ /\ story = "tape"
        /\ freeCalls < MaxFreeCalls \/ calling[p] # NoCall
        /\ FileStep(p)
        /\ freeCalls' = IF calling[p] = NoCall THEN freeCalls + 1 ELSE freeCalls
        /\ UNCHANGED semVars
     \/ /\ outcome = "running" /\ freeCalls < MaxFreeCalls
        /\ \E n \in SemNames : CreateSemaphore(n, 1)
        /\ freeCalls' = freeCalls + 1
        /\ UNCHANGED fileVars
  /\ UNCHANGED <<story, at, image, out_file, printed>>

ProgramsNext ==
  \/ \E p \in Scripted : Step(p) \/ WaitReturns(p)
  \/ \E p \in Free : FreeCall(p)

\* The machine does not stop while one of the programs can go on: less than
\* Threads shows of its scheduler and its semaphores.
Fairness == WF_programVars(\E p \in Scripted : Step(p) \/ WaitReturns(p))

ProgramsSpec == ProgramsInit /\ [][ProgramsNext]_programVars /\ Fairness

-----------------------------------------------------------------------------
\* p has made the first call, and not the second one since.
Since(p, first, second) ==
  \E i \in 1 .. at[p] - 1 :
    /\ Program(p)[i] = first
    /\ \A j \in i + 1 .. at[p] - 1 : Program(p)[j] # second

\* p has been let through a Wait on n and has not Signalled.
Holds(p, n) ==
  /\ Since(p, Call("Wait", n), Call("Signal", n))
  /\ waitsOn[p] = 0 \/ semTab[waitsOn[p]].name # n

\* The semaphores keep their units; one process at a time prints or has the
\* tape, and neither of ping and pong gets ahead of the other by more than
\* the one turn both begin with.  stable.cc:46, ping.c:8, sinhvien.c:18.
TurnsTaken ==
  /\ UnitsKept
  /\ \A n \in {"print", "tape"} : Cardinality({p \in Scripted : Holds(p, n)}) <= 1
  /\ printed["A"] - printed["B"] \in -1 .. 1

\* The children that never run: their Exec was refused, or their Load failed.
Absent == {p \in Scripted : image[p] \in {"refused", "failed"}}

\* Join waits for ever for a child whose Load failed; ping without pong, and
\* pong without ping, for a turn that nobody gives.
LeftWaiting(p) ==
  \/ p = Main /\ \E c \in Absent : image[c] = "failed"
  \/ story = "pingpong" /\ Absent # {}

\* The programs that run come to their end, unless another one brings the
\* kernel down: also when the host has no descriptor for a student's file or
\* executable, and then Main too when it is Exec that is told, since its Join
\* of -1 returns.  Only a Load that fails, of which nobody is told, leaves
\* Main waiting.  stable.cc:58 (a Signal reaches the semaphore its waiters
\* are on), ksyscall.h:86, pcb.cc:13.
ProgramsEnd ==
  <>(\/ outcome # "running"
     \/ \A p \in Scripted \ Absent : Ended(p) \/ LeftWaiting(p))

ProgramsTypeOK ==
  /\ FileTypeOK
  /\ SemTypeOK
  /\ story \in {"pingpong", "tape"}
  /\ at \in [Scripted -> Nat]
  /\ image \in [Scripted -> {"none", "forked", "loaded", "refused", "failed"}]
  /\ out_file \in [Scripted -> -1 .. NFile]
  /\ freeCalls \in 0 .. MaxFreeCalls

\* The state is well formed and the files of all processes are accounted for
\* (FileTable: ftable.cc:51, :138).
FilesSound == ProgramsTypeOK /\ Accounted
=============================================================================
