---------------------------- MODULE SynchConsole ----------------------------
(***************************************************************************)
(* The console: the simulated keyboard and display of machine/console.cc   *)
(* and the synchronized access to them of userprog/synchconsole.cc.        *)
(*                                                                         *)
(* A step of a thread is the code between two points at which interrupts   *)
(* are enabled, so a thread is preempted, and a device interrupts, between *)
(* any two steps.  A semaphore's P is a guard on its value: Threads shows  *)
(* that the semaphores do as much.  A character is its code, a C char; EOF *)
(* is one of them.                                                         *)
(***************************************************************************)
EXTENDS Integers, Sequences, FiniteSets

CONSTANTS
  Thread,
  Inputs    \* what the keyboard's file may hold

EOF  == -1
Char == (-128 .. 127) \ {EOF}   \* a file that holds byte 255 is not modelled

ASSUME ConsoleAssumption == Inputs \subseteq Seq(Char)

VARIABLES
  typed,     \* the keyboard's file
  numRead,   \* how much of it the keyboard has read
  incoming,  \* ConsoleInput::incoming
  readInt,   \* a ConsoleReadInt is scheduled
  screen,    \* the display's file
  putBusy,   \* ConsoleOutput::putBusy
  writeInt,  \* a ConsoleWriteInt is scheduled
  lock,      \* values of the semaphores of the two locks
  waitFor,   \* values of the two semaphores waitFor
  side,      \* the console each thread's call is for: "in" or "out"
  ch,        \* the character put, or got
  taken,     \* history: the characters GetChar returned
  pc         \* where each thread stands in GetChar or PutChar

deviceVars  == <<typed, numRead, incoming, readInt, screen, putBusy, writeInt>>
consoleVars == <<typed, numRead, incoming, readInt, screen, putBusy, writeInt, lock, waitFor, side, ch, taken, pc>>

Side == {"in", "out"}
PC   == {"user", "acquire", "locked", "ready", "sending", "sent", "back"}

ConsoleTypeOK ==
  /\ typed \in Inputs
  /\ numRead \in 0 .. Len(typed)
  /\ incoming \in Char \cup {EOF}
  /\ readInt \in BOOLEAN /\ putBusy \in BOOLEAN /\ writeInt \in BOOLEAN
  /\ lock \in [Side -> 0 .. 1]
  /\ waitFor \in [Side -> 0 .. 1]
  /\ side \in [Thread -> Side]
  /\ ch \in [Thread -> Char \cup {EOF}]
  /\ pc \in [Thread -> PC]

\* The keyboard is polled from the start.
ConsoleInit ==
  /\ typed \in Inputs
  /\ numRead = 0
  /\ incoming = EOF
  /\ readInt = TRUE
  /\ screen = <<>>
  /\ putBusy = FALSE
  /\ writeInt = FALSE
  /\ lock = [s \in Side |-> 1]
  /\ waitFor = [s \in Side |-> 0]
  /\ side = [t \in Thread |-> "in"]
  /\ ch = [t \in Thread |-> EOF]
  /\ taken = <<>>
  /\ pc = [t \in Thread |-> "user"]

GoTo(t, l) == pc' = [pc EXCEPT ![t] = l]

-----------------------------------------------------------------------------
(* The devices' interrupts *)

\* Faulty variant: the next poll is scheduled at once.
CharArrivesPolls ==
  /\ readInt
  /\ numRead < Len(typed)
  /\ numRead' = numRead + 1
  /\ incoming' = typed[numRead + 1]
  /\ waitFor' = [waitFor EXCEPT !["in"] = @ + 1]
  /\ UNCHANGED <<typed, readInt, screen, putBusy, writeInt, lock, side, ch, taken, pc>>

\* ConsoleInput::CallBack finds a character.
CharArrives ==
  /\ readInt
  /\ numRead < Len(typed)
  /\ numRead' = numRead + 1
  /\ incoming' = typed[numRead + 1]
  /\ readInt' = FALSE
  /\ waitFor' = [waitFor EXCEPT !["in"] = @ + 1]
  /\ UNCHANGED <<typed, screen, putBusy, writeInt, lock, side, ch, taken, pc>>

\* ConsoleInput::CallBack finds the end of a file that is not a terminal; with a
\* terminal it polls again for ever, which changes nothing.
EndOfFile ==
  /\ readInt
  /\ numRead = Len(typed)
  /\ readInt' = FALSE
  /\ waitFor' = [waitFor EXCEPT !["in"] = @ + 1]
  /\ UNCHANGED <<typed, numRead, incoming, screen, putBusy, writeInt, lock, side, ch, taken, pc>>

\* Faulty variant: nobody is told that the display is free.
CharPutSilent ==
  /\ writeInt
  /\ writeInt' = FALSE
  /\ putBusy' = FALSE
  /\ UNCHANGED <<typed, numRead, incoming, readInt, screen, lock, waitFor, side, ch, taken, pc>>

\* ConsoleOutput::CallBack.
CharPut ==
  /\ writeInt
  /\ writeInt' = FALSE
  /\ putBusy' = FALSE
  /\ waitFor' = [waitFor EXCEPT !["out"] = @ + 1]
  /\ UNCHANGED <<typed, numRead, incoming, readInt, screen, lock, side, ch, taken, pc>>

-----------------------------------------------------------------------------
(* SynchConsoleInput::GetChar and SynchConsoleOutput::PutChar *)

GetChar(t) ==
  /\ GoTo(t, "acquire")
  /\ side' = [side EXCEPT ![t] = "in"]
  /\ UNCHANGED <<ch, taken>>

PutChar(t, c) ==
  /\ GoTo(t, "acquire")
  /\ side' = [side EXCEPT ![t] = "out"]
  /\ ch' = [ch EXCEPT ![t] = c]
  /\ UNCHANGED taken

Acquire(t) ==
  /\ pc[t] = "acquire"
  /\ lock[side[t]] > 0
  /\ lock' = [lock EXCEPT ![side[t]] = @ - 1]
  /\ GoTo(t, "locked")
  /\ UNCHANGED <<deviceVars, waitFor, side, ch, taken>>

\* Faulty variant: GetChar does not wait.
WaitCharUnwaited(t) ==
  /\ pc[t] = "locked" /\ side[t] = "in"
  /\ GoTo(t, "ready")
  /\ UNCHANGED <<deviceVars, lock, waitFor, side, ch, taken>>

WaitChar(t) ==
  /\ pc[t] = "locked" /\ side[t] = "in"
  /\ waitFor["in"] > 0
  /\ waitFor' = [waitFor EXCEPT !["in"] = @ - 1]
  /\ GoTo(t, "ready")
  /\ UNCHANGED <<deviceVars, lock, side, ch, taken>>

\* Faulty variant: the next poll is not scheduled.
TakeCharUnscheduled(t) ==
  /\ pc[t] = "ready"
  /\ ch' = [ch EXCEPT ![t] = incoming]
  /\ incoming' = EOF
  /\ taken' = IF incoming = EOF THEN taken ELSE Append(taken, incoming)
  /\ lock' = [lock EXCEPT !["in"] = @ + 1]
  /\ GoTo(t, "back")
  /\ UNCHANGED <<typed, numRead, readInt, screen, putBusy, writeInt, waitFor, side>>

\* ConsoleInput::GetChar and the lock's Release.
TakeChar(t) ==
  /\ pc[t] = "ready"
  /\ ch' = [ch EXCEPT ![t] = incoming]
  /\ readInt' = (readInt \/ incoming # EOF)
  /\ incoming' = EOF
  /\ taken' = IF incoming = EOF THEN taken ELSE Append(taken, incoming)
  /\ lock' = [lock EXCEPT !["in"] = @ + 1]
  /\ GoTo(t, "back")
  /\ UNCHANGED <<typed, numRead, screen, putBusy, writeInt, waitFor, side>>

\* Faulty variant: PutChar gives the lock back before it waits.
SendCharUnlocked(t) ==
  /\ pc[t] = "locked" /\ side[t] = "out"
  /\ screen' = Append(screen, <<t, ch[t]>>)
  /\ putBusy' = TRUE
  /\ writeInt' = TRUE
  /\ lock' = [lock EXCEPT !["out"] = 1]
  /\ GoTo(t, "sending")
  /\ UNCHANGED <<typed, numRead, incoming, readInt, waitFor, side, ch, taken>>

\* ConsoleOutput::PutChar; the screen remembers who put each character.
SendChar(t) ==
  /\ pc[t] = "locked" /\ side[t] = "out"
  /\ screen' = Append(screen, <<t, ch[t]>>)
  /\ putBusy' = TRUE
  /\ writeInt' = TRUE
  /\ GoTo(t, "sending")
  /\ UNCHANGED <<typed, numRead, incoming, readInt, lock, waitFor, side, ch, taken>>

WaitSent(t) ==
  /\ pc[t] = "sending"
  /\ waitFor["out"] > 0
  /\ waitFor' = [waitFor EXCEPT !["out"] = @ - 1]
  /\ GoTo(t, "sent")
  /\ UNCHANGED <<deviceVars, lock, side, ch, taken>>

ReleaseOut(t) ==
  /\ pc[t] = "sent"
  /\ lock' = [lock EXCEPT !["out"] = @ + 1]
  /\ GoTo(t, "back")
  /\ UNCHANGED <<deviceVars, waitFor, side, ch, taken>>

Device == CharArrives \/ EndOfFile \/ CharPut

Monitor(t) ==
  \/ Acquire(t) \/ WaitChar(t) \/ TakeChar(t)
  \/ SendChar(t) \/ WaitSent(t) \/ ReleaseOut(t)

-----------------------------------------------------------------------------
(* Properties *)

\* A thread that GetChar's wait let pass finds a character, or the file is at its
\* end; no interrupt comes while a character is still there
\* (synchconsole.cc:49-52; the ASSERT of console.cc:70).
CharWhenAvailable ==
  /\ \A t \in Thread : pc[t] = "ready" => incoming # EOF \/ numRead = Len(typed)
  /\ readInt => incoming = EOF
  /\ waitFor["in"] = 1 => ~readInt

\* Every character typed is got once, in the order of typing, whoever gets it
\* (console.cc:88, :104-109).
NothingLost ==
  taken \o (IF incoming = EOF THEN <<>> ELSE <<incoming>>) = SubSeq(typed, 1, numRead)

\* The display takes one character at a time: when a thread is about to put one
\* the one before has departed, its interrupt included
\* (synchconsole.cc:103-106; the ASSERT of console.cc:169).
DisplayFree ==
  \A t \in Thread : pc[t] = "locked" /\ side[t] = "out" =>
    ~putBusy /\ ~writeInt /\ waitFor["out"] = 0
=============================================================================
