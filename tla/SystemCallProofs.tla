-------------------------- MODULE SystemCallProofs --------------------------
(***************************************************************************)
(* Theorems about what system calls do: of SynchConsole under the calls of *)
(* ConsoleCalls, for every number of threads, every input, every width of  *)
(* an int and every sequence of calls; and of UserPrograms, so of          *)
(* FileTable and NamedSemaphores under it, for every number of programs,   *)
(* of turns and of records, and whatever other processes do with the       *)
(* files.                                                                  *)
(***************************************************************************)
EXTENDS ConsoleCalls, UserPrograms, SequenceTheorems, FiniteSetTheorems, WellFoundedInduction, TLAPS

-----------------------------------------------------------------------------
(* The console: the inductive invariant *)

Inside == {"locked", "ready", "sending", "sent"}

\* The types the argument needs; those of the calls' variables are not among them.
DeviceTypeOK ==
  /\ typed \in Inputs
  /\ numRead \in 0 .. Len(typed)
  /\ incoming \in Char \cup {EOF}
  /\ readInt \in BOOLEAN /\ putBusy \in BOOLEAN /\ writeInt \in BOOLEAN
  /\ lock \in [Side -> 0 .. 1]
  /\ waitFor \in [Side -> 0 .. 1]
  /\ side \in [Thread -> Side]
  /\ pc \in [Thread -> PC]
  /\ taken \in Seq(Char)

\* One thread at a time is in each console's monitor.
OneInside ==
  /\ \A t \in Thread : pc[t] = "ready" => side[t] = "in"
  /\ \A t \in Thread : pc[t] \in {"sending", "sent"} => side[t] = "out"
  /\ \A t \in Thread : pc[t] \in Inside => lock[side[t]] = 0
  /\ \A t, u \in Thread : pc[t] \in Inside /\ pc[u] \in Inside /\ side[t] = side[u] => t = u

\* A character that came is with the keyboard, announced by the semaphore, or
\* expected by the thread that got past the semaphore; never two of these.
Keyboard ==
  /\ readInt => incoming = EOF /\ waitFor["in"] = 0
  /\ waitFor["in"] = 1 => incoming # EOF \/ numRead = Len(typed)
  /\ \A t \in Thread : pc[t] = "ready" =>
       ~readInt /\ waitFor["in"] = 0 /\ (incoming # EOF \/ numRead = Len(typed))

\* The display is busy, or has said that it is done, only while a thread waits.
Display ==
  /\ putBusy <=> writeInt
  /\ writeInt => waitFor["out"] = 0
  /\ writeInt \/ waitFor["out"] = 1 => \E t \in Thread : pc[t] = "sending"

CInv == DeviceTypeOK /\ OneInside /\ Keyboard /\ Display /\ NothingLost

LEMMA CInvInit == Init => CInv
<1> SUFFICES ASSUME Init PROVE CInv
  OBVIOUS
<1> USE DEF Init, ConsoleInit
<1>1. Len(typed) \in Nat
  BY ConsoleAssumption, LenProperties
<1>2. \A t \in Thread : pc[t] = "user"
  OBVIOUS
<1>3. DeviceTypeOK
  <2>1. numRead \in 0 .. Len(typed) /\ incoming \in Char \cup {EOF} /\ typed \in Inputs
    BY <1>1
  <2>2. lock \in [Side -> 0 .. 1] /\ waitFor \in [Side -> 0 .. 1]
    OBVIOUS
  <2>3. side \in [Thread -> Side] /\ pc \in [Thread -> PC]
    BY DEF Side, PC
  <2>4. taken \in Seq(Char)
    BY EmptySeq
  <2> QED
    BY <2>1, <2>2, <2>3, <2>4 DEF DeviceTypeOK
<1>4. OneInside /\ Keyboard /\ Display
  BY <1>2 DEF OneInside, Keyboard, Display, Inside, Side
<1>5. NothingLost
  <2>1. SubSeq(typed, 1, 0) = <<>>
    BY SubSeqEmpty
  <2>2. <<>> \o <<>> = <<>>
    BY ConcatEmptySeq, EmptySeq
  <2> QED
    BY <2>1, <2>2 DEF NothingLost
<1> QED
  BY <1>3, <1>4, <1>5 DEF CInv

\* What the properties say follows.
LEMMA CInvImplies == CInv => CharWhenAvailable /\ DisplayFree /\ NothingLost
<1> SUFFICES ASSUME CInv PROVE CharWhenAvailable /\ DisplayFree
  BY DEF CInv
<1>1. CharWhenAvailable
  BY DEF CInv, Keyboard, CharWhenAvailable
<1>2. ASSUME NEW t \in Thread, pc[t] = "locked", side[t] = "out"
      PROVE  ~putBusy /\ ~writeInt /\ waitFor["out"] = 0
  <2>1. ~ \E u \in Thread : pc[u] = "sending"
    BY <1>2 DEF CInv, OneInside, Inside
  <2>2. waitFor["out"] \in 0 .. 1
    BY DEF CInv, DeviceTypeOK, Side
  <2> QED
    BY <2>1, <2>2 DEF CInv, Display
<1> QED
  BY <1>1, <1>2 DEF DisplayFree

-----------------------------------------------------------------------------
(* Steps outside the monitors, and the devices *)

\* A thread that is in no monitor begins, goes on with or ends a call.
LEMMA OutsideSound ==
  ASSUME CInv, NEW t \in Thread,
         pc[t] \in {"user", "back"}, NEW l \in {"user", "acquire"},
         pc' = [pc EXCEPT ![t] = l],
         side' \in [Thread -> Side], \A u \in Thread \ {t} : side'[u] = side[u],
         UNCHANGED <<deviceVars, lock, waitFor, taken>>
  PROVE  CInv'
<1>1. /\ pc' \in [Thread -> PC] /\ pc'[t] = l
      /\ \A u \in Thread \ {t} : pc'[u] = pc[u]
  BY DEF CInv, DeviceTypeOK, PC
<1>2. DeviceTypeOK'
  BY <1>1 DEF CInv, DeviceTypeOK, deviceVars
<1>3. \A u \in Thread : pc'[u] \in Inside => pc[u] = pc'[u] /\ side'[u] = side[u]
  BY <1>1 DEF Inside
<1>4. OneInside'
  BY <1>3 DEF CInv, OneInside, Inside
<1>5. Keyboard'
  BY <1>3 DEF CInv, Keyboard, Inside, deviceVars
<1>6. Display'
  BY <1>1 DEF CInv, Display, deviceVars
<1>7. NothingLost'
  BY DEF CInv, NothingLost, deviceVars
<1> QED
  BY <1>2, <1>4, <1>5, <1>6, <1>7 DEF CInv

LEMMA OneMore ==
  ASSUME NEW S, NEW s \in Seq(S), NEW n \in Nat, n + 1 <= Len(s)
  PROVE  SubSeq(s, 1, n + 1) = SubSeq(s, 1, n) \o <<s[n + 1]>>
<1> DEFINE a == SubSeq(s, 1, n)
           b == SubSeq(s, 1, n + 1)
           e == <<s[n + 1]>>
<1>1. /\ Len(s) \in Nat /\ \A i \in 1 .. Len(s) : s[i] \in S
  BY LenProperties, ElementOfSeq
<1>2. a \in Seq(S) /\ Len(a) = n /\ \A i \in 1 .. n : a[i] = s[i]
  <2>1. \A i \in 1 .. n : s[i] \in S
    BY <1>1
  <2>2. /\ a \in Seq(S)
        /\ Len(a) = IF 1 <= n THEN n - 1 + 1 ELSE 0
        /\ \A i \in 1 .. n - 1 + 1 : a[i] = s[1 + i - 1]
    BY <2>1, SubSeqProperties
  <2> HIDE DEF a
  <2>3. \A i \in 1 .. n : i \in 1 .. n - 1 + 1 /\ 1 + i - 1 = i
    OBVIOUS
  <2> QED
    BY <2>2, <2>3
<1>3. b \in Seq(S) /\ Len(b) = n + 1 /\ \A i \in 1 .. n + 1 : b[i] = s[i]
  <2>0. PICK m \in Int : m = n + 1
    OBVIOUS
  <2>1. \A i \in 1 .. m : s[i] \in S
    BY <1>1, <2>0
  <2>2. /\ SubSeq(s, 1, m) \in Seq(S)
        /\ Len(SubSeq(s, 1, m)) = IF 1 <= m THEN m - 1 + 1 ELSE 0
        /\ \A i \in 1 .. m - 1 + 1 : SubSeq(s, 1, m)[i] = s[1 + i - 1]
    BY <2>1, SubSeqProperties
  <2>3. \A i \in 1 .. m : i \in 1 .. m - 1 + 1 /\ 1 + i - 1 = i
    OBVIOUS
  <2> QED
    BY <2>0, <2>2, <2>3
<1>4. e \in Seq(S) /\ Len(e) = 1 /\ e[1] = s[n + 1]
  BY <1>1
<1> HIDE DEF a, b, e
<1>5. /\ a \o e \in Seq(S) /\ Len(a \o e) = n + 1
      /\ \A i \in 1 .. n + 1 : (a \o e)[i] = IF i <= n THEN a[i] ELSE e[i - n]
  <2>1. a \in Seq(S) /\ e \in Seq(S)
    BY <1>2, <1>4
  <2>2. /\ a \o e \in Seq(S)
        /\ Len(a \o e) = Len(a) + Len(e)
        /\ \A i \in 1 .. Len(a) + Len(e) : (a \o e)[i] =
             IF i <= Len(a) THEN a[i] ELSE e[i - Len(a)]
    BY <2>1, ConcatProperties
  <2> QED
    BY <2>2, <1>2, <1>4
<1>6. \A i \in 1 .. n + 1 : (a \o e)[i] = b[i]
  <2> SUFFICES ASSUME NEW i \in 1 .. n + 1 PROVE (a \o e)[i] = b[i]
    OBVIOUS
  <2>1. CASE i <= n
    <3>1. i \in 1 .. n /\ (a \o e)[i] = a[i]
      BY <2>1, <1>5
    <3>2. a[i] = s[i]
      BY <3>1, <1>2
    <3>3. b[i] = s[i]
      BY <1>3
    <3> QED
      BY <3>1, <3>2, <3>3
  <2>2. CASE ~ (i <= n)
    <3>1. i = n + 1 /\ i - n = 1
      BY <2>2
    <3> QED
      BY <3>1, <1>3, <1>4, <1>5
  <2> QED
    BY <2>1, <2>2
<1>7. a \o e = b
  BY <1>3, <1>5, <1>6, SeqEqual
<1> QED
  BY <1>7 DEF a, b, e

LEMMA CharArrivesSound == ASSUME CInv, CharArrives PROVE CInv'
<1> USE DEF CInv
<1>1. /\ UNCHANGED <<typed, screen, putBusy, writeInt, lock, side, ch, taken, pc>>
      /\ readInt /\ readInt' = FALSE /\ numRead < Len(typed) /\ numRead' = numRead + 1
      /\ incoming' = typed[numRead + 1]
  BY DEF CharArrives
<1>2. typed \in Seq(Char) /\ Len(typed) \in Nat /\ numRead \in Nat
  BY ConsoleAssumption, LenProperties DEF DeviceTypeOK
<1>3. incoming' \in Char /\ incoming' # EOF
  <2>1. numRead + 1 \in 1 .. Len(typed)
    BY <1>1, <1>2
  <2>2. incoming' \in Char
    BY <2>1, <1>1, <1>2, ElementOfSeq
  <2> QED
    BY <2>2 DEF Char
<1>4. incoming = EOF /\ waitFor["in"] = 0
  BY <1>1 DEF Keyboard
<1>5. /\ waitFor' \in [Side -> 0 .. 1] /\ waitFor'["in"] = 1
      /\ waitFor'["out"] = waitFor["out"]
  BY <1>4 DEF CharArrives, DeviceTypeOK, Side
<1>6. DeviceTypeOK'
  <2>1. numRead' \in 0 .. Len(typed')
    BY <1>1, <1>2
  <2> QED
    BY <2>1, <1>1, <1>3, <1>5 DEF DeviceTypeOK
<1>7. OneInside' /\ Display'
  BY <1>1, <1>5 DEF OneInside, Display
<1>8. Keyboard'
  BY <1>1, <1>3, <1>5 DEF Keyboard
<1>9. NothingLost'
  <2>1. taken = SubSeq(typed, 1, numRead)
    <3>1. taken \o <<>> = SubSeq(typed, 1, numRead)
      BY <1>4 DEF NothingLost
    <3>2. taken \o <<>> = taken
      BY ConcatEmptySeq DEF DeviceTypeOK
    <3> QED
      BY <3>1, <3>2
  <2>2. SubSeq(typed, 1, numRead + 1) = SubSeq(typed, 1, numRead) \o <<typed[numRead + 1]>>
    BY <1>1, <1>2, OneMore
  <2> QED
    BY <2>1, <2>2, <1>1, <1>3 DEF NothingLost
<1> QED
  BY <1>6, <1>7, <1>8, <1>9

LEMMA EndOfFileSound == ASSUME CInv, EndOfFile PROVE CInv'
<1> USE DEF CInv
<1>1. /\ UNCHANGED <<typed, numRead, incoming, screen, putBusy, writeInt, lock, side, ch,
                     taken, pc>>
      /\ readInt /\ readInt' = FALSE /\ numRead = Len(typed)
  BY DEF EndOfFile
<1>2. waitFor["in"] = 0
  BY <1>1 DEF Keyboard
<1>3. /\ waitFor' \in [Side -> 0 .. 1] /\ waitFor'["in"] = 1
      /\ waitFor'["out"] = waitFor["out"]
  BY <1>2 DEF EndOfFile, DeviceTypeOK, Side
<1>4. DeviceTypeOK'
  BY <1>1, <1>3 DEF DeviceTypeOK
<1>5. OneInside' /\ Display' /\ NothingLost'
  BY <1>1, <1>3 DEF OneInside, Display, NothingLost
<1>6. Keyboard'
  BY <1>1, <1>3 DEF Keyboard
<1> QED
  BY <1>4, <1>5, <1>6

LEMMA CharPutSound == ASSUME CInv, CharPut PROVE CInv'
<1> USE DEF CInv
<1>1. /\ UNCHANGED <<typed, numRead, incoming, readInt, screen, lock, side, ch, taken, pc>>
      /\ writeInt /\ writeInt' = FALSE /\ putBusy' = FALSE
  BY DEF CharPut
<1>2. waitFor["out"] = 0 /\ \E t \in Thread : pc[t] = "sending"
  BY <1>1 DEF Display
<1>3. /\ waitFor' \in [Side -> 0 .. 1] /\ waitFor'["out"] = 1
      /\ waitFor'["in"] = waitFor["in"]
  BY <1>2 DEF CharPut, DeviceTypeOK, Side
<1>4. DeviceTypeOK'
  BY <1>1, <1>3 DEF DeviceTypeOK
<1>5. OneInside' /\ Keyboard' /\ NothingLost'
  BY <1>1, <1>3 DEF OneInside, Keyboard, NothingLost
<1>6. Display'
  BY <1>1, <1>2 DEF Display
<1> QED
  BY <1>4, <1>5, <1>6

-----------------------------------------------------------------------------
(* Steps in the monitors *)

\* The thread that moves is inside; where the others stand does not change.
LEMMA Moved ==
  ASSUME DeviceTypeOK, NEW t \in Thread, NEW l \in PC, pc' = [pc EXCEPT ![t] = l]
  PROVE  /\ pc' \in [Thread -> PC] /\ pc'[t] = l
         /\ \A u \in Thread \ {t} : pc'[u] = pc[u]
BY DEF DeviceTypeOK

LEMMA AcquireSound == ASSUME CInv, NEW t \in Thread, Acquire(t) PROVE CInv'
<1> USE DEF CInv
<1>1. /\ UNCHANGED <<deviceVars, waitFor, side, ch, taken>>
      /\ pc[t] = "acquire" /\ lock[side[t]] > 0 /\ side[t] \in Side
  BY DEF Acquire, DeviceTypeOK
<1>2. /\ pc' \in [Thread -> PC] /\ pc'[t] = "locked"
      /\ \A u \in Thread \ {t} : pc'[u] = pc[u]
  BY Moved DEF Acquire, GoTo, PC
<1>3. lock[side[t]] = 1 /\ \A s \in Side : lock[s] \in 0 .. 1
  BY <1>1 DEF DeviceTypeOK
<1>4. /\ lock' \in [Side -> 0 .. 1] /\ lock'[side[t]] = 0
      /\ \A s \in Side \ {side[t]} : lock'[s] = lock[s]
  BY <1>1, <1>3 DEF Acquire, DeviceTypeOK
<1>5. DeviceTypeOK'
  BY <1>1, <1>2, <1>4 DEF DeviceTypeOK, deviceVars
<1>6. OneInside'
  <2>1. \A u \in Thread \ {t} : pc[u] \in Inside => side[u] # side[t]
    BY <1>3 DEF OneInside
  <2>2. \A u \in Thread : side'[u] = side[u] /\ side[u] \in Side
    BY <1>1 DEF DeviceTypeOK
  <2>3. \A u \in Thread : pc'[u] = "ready" => side'[u] = "in"
    BY <1>2, <2>2 DEF OneInside
  <2>4. \A u \in Thread : pc'[u] \in {"sending", "sent"} => side'[u] = "out"
    BY <1>2, <2>2 DEF OneInside
  <2>5. \A u \in Thread : pc'[u] \in Inside => lock'[side'[u]] = 0
    BY <1>2, <1>4, <2>1, <2>2 DEF OneInside
  <2>6. \A u, v \in Thread :
          pc'[u] \in Inside /\ pc'[v] \in Inside /\ side'[u] = side'[v] => u = v
    BY <1>2, <2>1, <2>2 DEF OneInside
  <2> QED
    BY <2>3, <2>4, <2>5, <2>6 DEF OneInside
<1>7. Keyboard' /\ Display' /\ NothingLost'
  BY <1>1, <1>2 DEF Keyboard, Display, NothingLost, deviceVars
<1> QED
  BY <1>5, <1>6, <1>7

\* A step inside a monitor that keeps its lock keeps OneInside.
LEMMA StaysInside ==
  ASSUME CInv, NEW t \in Thread, NEW l \in Inside, pc' = [pc EXCEPT ![t] = l],
         pc[t] \in Inside, UNCHANGED <<lock, side>>,
         l = "ready" => side[t] = "in", l \in {"sending", "sent"} => side[t] = "out"
  PROVE  OneInside'
<1>1. /\ pc'[t] = l /\ \A u \in Thread \ {t} : pc'[u] = pc[u]
  BY DEF CInv, DeviceTypeOK
<1>2. \A u \in Thread : pc'[u] \in Inside => pc[u] \in Inside
  BY <1>1
<1> QED
  BY <1>1, <1>2 DEF CInv, OneInside

LEMMA WaitCharSound == ASSUME CInv, NEW t \in Thread, WaitChar(t) PROVE CInv'
<1> USE DEF CInv
<1>1. /\ UNCHANGED <<deviceVars, lock, side, ch, taken>>
      /\ pc[t] = "locked" /\ side[t] = "in"
      /\ waitFor["in"] > 0 /\ pc' = [pc EXCEPT ![t] = "ready"]
  BY DEF WaitChar, GoTo
<1>2. /\ pc' \in [Thread -> PC] /\ pc'[t] = "ready"
      /\ \A u \in Thread \ {t} : pc'[u] = pc[u]
  BY <1>1, Moved DEF PC
<1>3. waitFor["in"] = 1
  BY <1>1 DEF DeviceTypeOK, Side
<1>4. /\ waitFor' \in [Side -> 0 .. 1] /\ waitFor'["in"] = 0
      /\ waitFor'["out"] = waitFor["out"]
  BY <1>3 DEF WaitChar, DeviceTypeOK, Side
<1>5. ~readInt /\ (incoming # EOF \/ numRead = Len(typed))
  BY <1>3 DEF Keyboard
<1>6. DeviceTypeOK'
  BY <1>1, <1>2, <1>4 DEF DeviceTypeOK, deviceVars
<1>7. OneInside'
  BY <1>1, StaysInside DEF Inside
<1>8. Keyboard'
  BY <1>1, <1>2, <1>4, <1>5 DEF Keyboard, deviceVars
<1>9. Display' /\ NothingLost'
  BY <1>1, <1>2, <1>4 DEF Display, NothingLost, deviceVars
<1> QED
  BY <1>6, <1>7, <1>8, <1>9

\* A thread that gives a lock back leaves its monitor.
LEMMA LeavesMonitor ==
  ASSUME CInv, NEW t \in Thread, pc[t] \in Inside, UNCHANGED side,
         pc' = [pc EXCEPT ![t] = "back"],
         lock' = [lock EXCEPT ![side[t]] = @ + 1]
  PROVE  OneInside' /\ lock' \in [Side -> 0 .. 1]
<1> USE DEF CInv
<1>1. /\ pc'[t] = "back" /\ \A u \in Thread \ {t} : pc'[u] = pc[u]
      /\ \A u \in Thread : side[u] \in Side
  BY DEF DeviceTypeOK
<1>2. lock[side[t]] = 0
  BY DEF OneInside
<1>3. /\ lock' \in [Side -> 0 .. 1]
      /\ \A s \in Side \ {side[t]} : lock'[s] = lock[s]
  BY <1>1, <1>2 DEF DeviceTypeOK
<1>4. \A u \in Thread : pc'[u] \in Inside => u # t /\ pc[u] = pc'[u] /\ side[u] # side[t]
  BY <1>1 DEF Inside, OneInside
<1>5. \A u \in Thread : pc'[u] \in Inside => lock'[side'[u]] = 0
  BY <1>1, <1>3, <1>4 DEF OneInside
<1>6. /\ \A u \in Thread : pc'[u] = "ready" => side'[u] = "in"
      /\ \A u \in Thread : pc'[u] \in {"sending", "sent"} => side'[u] = "out"
      /\ \A u, v \in Thread :
           pc'[u] \in Inside /\ pc'[v] \in Inside /\ side'[u] = side'[v] => u = v
  BY <1>1, <1>4 DEF OneInside
<1> QED
  BY <1>3, <1>5, <1>6 DEF OneInside

LEMMA TakeCharSound == ASSUME CInv, NEW t \in Thread, TakeChar(t) PROVE CInv'
<1> USE DEF CInv
<1>1. /\ UNCHANGED <<typed, numRead, screen, putBusy, writeInt, waitFor, side>>
      /\ pc[t] = "ready" /\ pc' = [pc EXCEPT ![t] = "back"]
      /\ incoming' = EOF
      /\ taken' = IF incoming = EOF THEN taken ELSE Append(taken, incoming)
      /\ lock' = [lock EXCEPT !["in"] = @ + 1]
  BY DEF TakeChar, GoTo
<1>2. /\ pc' \in [Thread -> PC] /\ pc'[t] = "back"
      /\ \A u \in Thread \ {t} : pc'[u] = pc[u]
  BY <1>1, Moved DEF PC
<1>3. side[t] = "in" /\ ~readInt /\ waitFor["in"] = 0
  BY <1>1 DEF OneInside, Keyboard
<1>4. OneInside' /\ lock' \in [Side -> 0 .. 1]
  BY <1>1, <1>3, LeavesMonitor DEF Inside
<1>5. readInt' \in BOOLEAN
  BY Zenon DEF TakeChar
<1>6. incoming # EOF => incoming \in Char
  BY DEF DeviceTypeOK
<1>7. taken' \in Seq(Char)
  BY <1>1, <1>6, AppendProperties DEF DeviceTypeOK
<1>8. DeviceTypeOK'
  BY <1>1, <1>2, <1>4, <1>5, <1>7 DEF DeviceTypeOK
<1>9. \A u \in Thread : pc'[u] # "ready"
  BY <1>1, <1>2, <1>3 DEF OneInside, Inside
<1>10. Keyboard'
  BY <1>1, <1>3, <1>9 DEF Keyboard
<1>11. Display'
  BY <1>1, <1>2 DEF Display
<1>12. NothingLost'
  <2>1. CASE incoming = EOF
    BY <2>1, <1>1 DEF NothingLost
  <2>2. CASE incoming # EOF
    <3>1. taken' = taken \o <<incoming>>
      BY <2>2, <1>1, <1>6, AppendIsConcat DEF DeviceTypeOK
    <3>2. taken' \o <<>> = taken'
      BY <1>7, ConcatEmptySeq
    <3> QED
      BY <3>1, <3>2, <2>2, <1>1 DEF NothingLost
  <2> QED
    BY <2>1, <2>2
<1> QED
  BY <1>4, <1>8, <1>10, <1>11, <1>12

LEMMA SendCharSound == ASSUME CInv, NEW t \in Thread, SendChar(t) PROVE CInv'
<1> USE DEF CInv
<1>1. /\ UNCHANGED <<typed, numRead, incoming, readInt, lock, waitFor, side, ch, taken>>
      /\ pc[t] = "locked" /\ side[t] = "out" /\ pc' = [pc EXCEPT ![t] = "sending"]
      /\ putBusy' = TRUE /\ writeInt' = TRUE
  BY DEF SendChar, GoTo
<1>2. /\ pc' \in [Thread -> PC] /\ pc'[t] = "sending"
      /\ \A u \in Thread \ {t} : pc'[u] = pc[u]
  BY <1>1, Moved DEF PC
<1>3. waitFor["out"] = 0
  BY <1>1, CInvImplies DEF DisplayFree
<1>4. DeviceTypeOK'
  BY <1>1, <1>2 DEF DeviceTypeOK
<1>5. OneInside'
  BY <1>1, StaysInside DEF Inside
<1>6. Keyboard' /\ NothingLost'
  BY <1>1, <1>2 DEF Keyboard, NothingLost
<1>7. Display'
  BY <1>1, <1>2, <1>3 DEF Display
<1> QED
  BY <1>4, <1>5, <1>6, <1>7

LEMMA WaitSentSound == ASSUME CInv, NEW t \in Thread, WaitSent(t) PROVE CInv'
<1> USE DEF CInv
<1>1. /\ UNCHANGED <<deviceVars, lock, side, ch, taken>>
      /\ pc[t] = "sending" /\ waitFor["out"] > 0 /\ pc' = [pc EXCEPT ![t] = "sent"]
  BY DEF WaitSent, GoTo
<1>2. /\ pc' \in [Thread -> PC] /\ pc'[t] = "sent"
      /\ \A u \in Thread \ {t} : pc'[u] = pc[u]
  BY <1>1, Moved DEF PC
<1>3. waitFor["out"] = 1 /\ ~writeInt
  BY <1>1 DEF DeviceTypeOK, Side, Display
<1>4. /\ waitFor' \in [Side -> 0 .. 1] /\ waitFor'["out"] = 0
      /\ waitFor'["in"] = waitFor["in"]
  BY <1>3 DEF WaitSent, DeviceTypeOK, Side
<1>5. DeviceTypeOK'
  BY <1>1, <1>2, <1>4 DEF DeviceTypeOK, deviceVars
<1>6. OneInside'
  BY <1>1, StaysInside DEF Inside, OneInside
<1>7. Keyboard' /\ NothingLost'
  BY <1>1, <1>2, <1>4 DEF Keyboard, NothingLost, deviceVars
<1>8. Display'
  BY <1>1, <1>3, <1>4 DEF Display, deviceVars
<1> QED
  BY <1>5, <1>6, <1>7, <1>8

LEMMA ReleaseOutSound == ASSUME CInv, NEW t \in Thread, ReleaseOut(t) PROVE CInv'
<1> USE DEF CInv
<1>1. /\ UNCHANGED <<deviceVars, waitFor, side, ch, taken>>
      /\ pc[t] = "sent" /\ pc' = [pc EXCEPT ![t] = "back"]
      /\ lock' = [lock EXCEPT !["out"] = @ + 1]
  BY DEF ReleaseOut, GoTo
<1>2. /\ pc' \in [Thread -> PC] /\ pc'[t] = "back"
      /\ \A u \in Thread \ {t} : pc'[u] = pc[u]
  BY <1>1, Moved DEF PC
<1>3. side[t] = "out"
  BY <1>1 DEF OneInside
<1>4. OneInside' /\ lock' \in [Side -> 0 .. 1]
  BY <1>1, <1>3, LeavesMonitor DEF Inside
<1>5. DeviceTypeOK'
  BY <1>1, <1>2, <1>4 DEF DeviceTypeOK, deviceVars
<1>6. Keyboard' /\ Display' /\ NothingLost'
  BY <1>1, <1>2 DEF Keyboard, Display, NothingLost, deviceVars
<1> QED
  BY <1>4, <1>5, <1>6

-----------------------------------------------------------------------------
(* The theorems *)

\* What the system calls do to the console outside its monitors.
LEMMA CallIsOutside ==
  ASSUME CInv, NEW t \in Thread,
         \/ SystemCall(t)
         \/ HeardNum(t) \/ HeardChar(t) \/ HeardString(t) \/ PrintNext(t) \/ PrintReturn(t)
  PROVE  CInv'
<1>1. \E l \in {"user", "acquire"} : pc' = [pc EXCEPT ![t] = l]
  BY DEF SystemCall, SysReadNum, SysReadChar, SysReadString, SysPrintNum, SysPrintChar,
         SysPrintString, BeginRead, BeginPrint, GetChar, PutChar, HeardNum, HeardChar,
         HeardString, PrintNext, PrintReturn, Return, GoTo
<1>2. pc[t] \in {"user", "back"} /\ UNCHANGED <<deviceVars, lock, waitFor, taken>>
  BY DEF SystemCall, SysReadNum, SysReadChar, SysReadString, SysPrintNum, SysPrintChar,
         SysPrintString, BeginRead, BeginPrint, Begin, GetChar, PutChar, HeardNum, HeardChar,
         HeardString, PrintNext, PrintReturn, Return
<1>3. \E s \in Side : side' = side \/ side' = [side EXCEPT ![t] = s]
  BY DEF SystemCall, SysReadNum, SysReadChar, SysReadString, SysPrintNum, SysPrintChar,
         SysPrintString, BeginRead, BeginPrint, GetChar, PutChar, HeardNum, HeardChar,
         HeardString, PrintNext, PrintReturn, Return, Side
<1>4. side' \in [Thread -> Side] /\ \A u \in Thread \ {t} : side'[u] = side[u]
  BY <1>3 DEF CInv, DeviceTypeOK
<1> QED
  BY <1>1, <1>2, <1>4, OutsideSound

LEMMA CInvStep == CInv /\ [Next]_vars => CInv'
<1> SUFFICES ASSUME CInv, [Next]_vars PROVE CInv'
  OBVIOUS
<1>1. CASE Interrupt
  BY <1>1, CharArrivesSound, EndOfFileSound, CharPutSound DEF Interrupt, Device
<1>2. ASSUME NEW t \in Thread, Monitor(t)
      PROVE  CInv'
  BY <1>2, AcquireSound, WaitCharSound, TakeCharSound, SendCharSound, WaitSentSound,
     ReleaseOutSound DEF Monitor
<1>3. ASSUME NEW t \in Thread,
             \/ SystemCall(t)
             \/ HeardNum(t) \/ HeardChar(t) \/ HeardString(t) \/ PrintNext(t) \/ PrintReturn(t)
      PROVE  CInv'
  BY <1>3, CallIsOutside
<1>4. CASE UNCHANGED vars
  BY <1>4 DEF vars, consoleVars, CInv, DeviceTypeOK, OneInside, Keyboard, Display, NothingLost
<1> QED
  BY <1>1, <1>2, <1>3, <1>4 DEF Next, Kernel

(***************************************************************************)
(* However many threads read, and whatever they read, each character typed *)
(* is got once and in the order of typing (machine/console.cc:88, :104).   *)
(***************************************************************************)
THEOREM NothingIsLost == Spec => []NothingLost
BY CInvInit, CInvStep, CInvImplies, PTL DEF Spec

(***************************************************************************)
(* The monitors make the ASSERTs of the devices true: no interrupt finds a *)
(* character that was not taken, and the display is free when the next     *)
(* character is put (machine/console.cc:70, :169).                         *)
(***************************************************************************)
THEOREM DevicesAreSound == Spec => [](CharWhenAvailable /\ DisplayFree)
BY CInvInit, CInvStep, CInvImplies, PTL DEF Spec

-----------------------------------------------------------------------------
(* The types of the calls *)

LEMMA WrapIsInt == ASSUME NEW n \in Int PROVE Wrap(n) \in MinInt .. MaxInt
BY CallsAssumption, SMT DEF Wrap, MinInt

LEMMA LeastExists ==
  ASSUME NEW T, T \subseteq Nat, T # {}
  PROVE  \E m \in T : \A j \in T : m <= j
<1>1. \E m \in T : \A j \in T : ~ (<<j, m>> \in OpToRel(<, Nat))
  BY WFMin, NatLessThanWellFounded
<1>2. \A j, m \in Nat : j < m => <<j, m>> \in OpToRel(<, Nat)
  BY DEF OpToRel
<1>3. PICK m \in T : \A j \in T : ~ (<<j, m>> \in OpToRel(<, Nat))
  BY <1>1
<1>4. ASSUME NEW j \in T PROVE m <= j
  <2>1. j \in Nat /\ m \in Nat /\ ~ (j < m)
    BY <1>2, <1>3
  <2> QED
    BY <2>1
<1> QED
  BY <1>4

\* What the loop of SysPrintNum leaves of a number is smaller.
LEMMA TenthIsLess ==
  ASSUME NEW n \in MinInt .. MaxInt, n > 0
  PROVE  n \div 10 \in 0 .. MaxInt /\ n \div 10 < n /\ 48 + (n % 10) \in Digit
BY CallsAssumption, SMT DEF MinInt, Digit

\* f satisfies the recursion of Digits for the numbers up to m.
DigitsUpTo(f, m) ==
  \A n \in MinInt .. m : f[n] = IF n <= 0 THEN <<>> ELSE Append(f[n \div 10], 48 + (n % 10))

LEMMA DigitsExist ==
  \E f : f = [n \in MinInt .. MaxInt |-> IF n <= 0 THEN <<>> ELSE Append(f[n \div 10], 48 + (n % 10))]
<1> DEFINE Lacking == {m \in 0 .. MaxInt : ~ \E f : DigitsUpTo(f, m)}
<1>0. MaxInt \in Nat /\ MinInt \in Int /\ MinInt <= 0
  BY CallsAssumption DEF MinInt
<1>1. Lacking = {}
  <2> SUFFICES ASSUME Lacking # {} PROVE FALSE
    OBVIOUS
  <2>1. PICK m \in Lacking : \A j \in Lacking : m <= j
    <3>1. Lacking \subseteq Nat
      BY <1>0
    <3> HIDE DEF Lacking
    <3> QED
      BY <3>1, LeastExists
  <2>2. m \in 0 .. MaxInt /\ ~ \E f : DigitsUpTo(f, m)
    BY <2>1
  <2>3. m # 0
    <3> DEFINE g == [n \in MinInt .. 0 |-> <<>>]
    <3>1. DigitsUpTo(g, 0)
      BY <1>0 DEF DigitsUpTo
    <3> QED
      BY <2>2, <3>1
  <2>4. m - 1 \in 0 .. MaxInt /\ ~ (m <= m - 1)
    BY <1>0, <2>2, <2>3
  <2>5. PICK f : DigitsUpTo(f, m - 1)
    BY <2>1, <2>4
  <2> DEFINE g == [n \in MinInt .. m |-> IF n = m THEN Append(f[m \div 10], 48 + (m % 10)) ELSE f[n]]
  <2>6. ASSUME NEW n \in MinInt .. m
        PROVE  g[n] = IF n <= 0 THEN <<>> ELSE Append(g[n \div 10], 48 + (n % 10))
    <3>1. n > 0 => n \div 10 \in MinInt .. m /\ n \div 10 # m
      BY <1>0, <2>2, SMT
    <3>2. n > 0 => g[n \div 10] = f[n \div 10]
      BY <3>1
    <3>3. CASE n = m
      <4>1. n > 0
        BY <2>2, <2>3, <3>3
      <4>2. ~ (n <= 0)
        BY <1>0, <4>1
      <4>3. g[n] = Append(f[n \div 10], 48 + (n % 10))
        BY <3>3, Zenon
      <4>4. g[n \div 10] = f[n \div 10]
        BY <3>2, <4>1
      <4> HIDE DEF g
      <4> QED
        BY <4>2, <4>3, <4>4, Zenon
    <3>4. CASE n # m
      <4>1. n \in MinInt .. (m - 1)
        BY <1>0, <2>2, <3>4
      <4>2. f[n] = IF n <= 0 THEN <<>> ELSE Append(f[n \div 10], 48 + (n % 10))
        BY <2>5, <4>1 DEF DigitsUpTo
      <4> QED
        BY <1>0, <2>2, <3>2, <3>4, <4>2
    <3> QED
      BY <3>3, <3>4
  <2>7. DigitsUpTo(g, m)
    BY <2>6, Zenon DEF DigitsUpTo
  <2> QED
    BY <2>2, <2>7
<1>2. PICK f : DigitsUpTo(f, MaxInt)
  BY <1>0, <1>1
<1> DEFINE g == [n \in MinInt .. MaxInt |-> f[n]]
<1>3. ASSUME NEW n \in MinInt .. MaxInt
      PROVE  g[n] = IF n <= 0 THEN <<>> ELSE Append(g[n \div 10], 48 + (n % 10))
  <2>1. n > 0 => g[n \div 10] = f[n \div 10]
    BY <1>0, TenthIsLess
  <2>2. f[n] = IF n <= 0 THEN <<>> ELSE Append(f[n \div 10], 48 + (n % 10))
    BY <1>2 DEF DigitsUpTo
  <2> QED
    BY <1>0, <2>1, <2>2
<1>4. g = [n \in MinInt .. MaxInt |-> IF n <= 0 THEN <<>> ELSE Append(g[n \div 10], 48 + (n % 10))]
  BY <1>3
<1> QED
  BY <1>4, Zenon

LEMMA DigitsRecursion ==
  ASSUME NEW n \in MinInt .. MaxInt
  PROVE  /\ n <= 0 => Digits[n] = <<>>
         /\ n > 0 => Digits[n] = Append(Digits[n \div 10], 48 + (n % 10))
<1>1. Digits = [m \in MinInt .. MaxInt |-> IF m <= 0 THEN <<>> ELSE Append(Digits[m \div 10], 48 + (m % 10))]
  BY DigitsExist, Zenon DEF Digits
<1>2. Digits[n] = IF n <= 0 THEN <<>> ELSE Append(Digits[n \div 10], 48 + (n % 10))
  BY <1>1, Zenon
<1>3. n > 0 => ~ (n <= 0)
  BY CallsAssumption DEF MinInt
<1> QED
  BY <1>2, <1>3, Zenon

LEMMA AppendOne ==
  ASSUME NEW S, NEW s \in Seq(S), NEW e \in S
  PROVE  Append(s, e) \in Seq(S) /\ Append(s, e) # <<>>
BY AppendProperties

\* SysPrintNum puts digits, and one at least for a number above zero.
LEMMA DigitsAreDigits ==
  ASSUME NEW n \in MinInt .. MaxInt
  PROVE  Digits[n] \in Seq(Digit) /\ (n > 0 => Digits[n] # <<>>)
<1> DEFINE Bad == {m \in 0 .. MaxInt : Digits[m] \notin Seq(Digit)}
<1>0. MaxInt \in Nat /\ MinInt \in Int /\ MinInt <= 0
  BY CallsAssumption DEF MinInt
<1>1. Bad = {}
  <2> SUFFICES ASSUME Bad # {} PROVE FALSE
    OBVIOUS
  <2>1. PICK m \in Bad : \A j \in Bad : m <= j
    <3>1. Bad \subseteq Nat
      BY <1>0
    <3> HIDE DEF Bad
    <3> QED
      BY <3>1, LeastExists
  <2>2. m \in MinInt .. MaxInt /\ m >= 0
    BY <1>0, <2>1
  <2>3. CASE m = 0
    <3>1. Digits[m] = <<>>
      BY <2>2, <2>3, DigitsRecursion
    <3>2. <<>> \in Seq(Digit)
      OBVIOUS
    <3> QED
      BY <2>1, <3>1, <3>2, Zenon
  <2>4. CASE m > 0
    <3>1. m \div 10 \in 0 .. MaxInt /\ ~ (m <= m \div 10) /\ 48 + (m % 10) \in Digit
      BY <2>2, <2>4, TenthIsLess
    <3>2. Digits[m \div 10] \in Seq(Digit)
      BY <2>1, <3>1
    <3>3. Digits[m] = Append(Digits[m \div 10], 48 + (m % 10))
      BY <2>2, <2>4, DigitsRecursion, Zenon
    <3> QED
      BY <2>1, <3>1, <3>2, <3>3, AppendOne, Zenon
  <2> QED
    BY <2>2, <2>3, <2>4
<1>2. CASE n <= 0
  <2>1. Digits[n] = <<>> /\ ~ (n > 0)
    BY <1>0, <1>2, DigitsRecursion
  <2> QED
    BY <2>1
<1>3. CASE n > 0
  <2>1. n \in 0 .. MaxInt /\ n \div 10 \in 0 .. MaxInt /\ 48 + (n % 10) \in Digit
    BY <1>0, <1>3, TenthIsLess
  <2>2. Digits[n] \in Seq(Digit) /\ Digits[n \div 10] \in Seq(Digit)
    BY <1>1, <2>1
  <2>3. Digits[n] = Append(Digits[n \div 10], 48 + (n % 10))
    BY <1>3, DigitsRecursion, Zenon
  <2>4. Digits[n] # <<>>
    BY <2>1, <2>2, <2>3, AppendOne, Zenon
  <2> QED
    BY <2>2, <2>4
<1> QED
  BY <1>2, <1>3

\* What the print calls make of their arguments is characters.
LEMMA PrintsChars ==
  /\ \A n \in Numbers : NumChars(n) \in Seq(Char)
  /\ \A c \in Letters : CharChars(c) \in Seq(Char)
  /\ \A s \in Strings : StringChars(s) \in Seq(Char)
<1>1. Digit \subseteq Char /\ Minus \in Char /\ 48 \in Char
  BY DEF Digit, Char, EOF, Minus
<1>2. \A s \in Seq(Digit) : s \in Seq(Char)
  <2> SUFFICES ASSUME NEW s \in Seq(Digit) PROVE s \in Seq(Char)
    OBVIOUS
  <2>1. Len(s) \in Nat /\ s \in [1 .. Len(s) -> Digit]
    BY LenProperties
  <2>2. s \in [1 .. Len(s) -> Char]
    BY <1>1, <2>1
  <2> QED
    BY <2>1, <2>2
<1>3. ASSUME NEW n \in Numbers PROVE NumChars(n) \in Seq(Char)
  <2>1. MinInt \in Int /\ MaxInt \in Int /\ n \in Int /\ n \in MinInt .. MaxInt
    BY CallsAssumption DEF MinInt
  <2>2. Digits[n] \in Seq(Char)
    BY <1>2, <2>1, DigitsAreDigits
  <2>3. Digits[Wrap(-n)] \in Seq(Char)
    BY <1>2, <2>1, WrapIsInt, DigitsAreDigits
  <2>4. <<48>> \in Seq(Char) /\ <<Minus>> \in Seq(Char)
    BY <1>1
  <2>5. <<Minus>> \o Digits[Wrap(-n)] \in Seq(Char)
    BY <2>3, <2>4, ConcatProperties
  <2> QED
    BY <2>2, <2>4, <2>5 DEF NumChars
<1>4. ASSUME NEW c \in Letters PROVE CharChars(c) \in Seq(Char)
  BY CallsAssumption DEF CharChars
<1>5. ASSUME NEW s \in Strings PROVE StringChars(s) \in Seq(Char)
  <2>1. s \in Seq(Char \ {0}) /\ MaxPrintLength \in Nat
    BY CallsAssumption
  <2>2. s \in Seq(Char) /\ Len(s) \in Nat
    <3>1. Len(s) \in Nat /\ s \in [1 .. Len(s) -> Char \ {0}]
      BY <2>1, LenProperties
    <3>2. s \in [1 .. Len(s) -> Char]
      BY <3>1
    <3> QED
      BY <3>1, <3>2
  <2> DEFINE m == IF Len(s) < MaxPrintLength THEN Len(s) ELSE MaxPrintLength
  <2>3. m \in Nat /\ m <= Len(s)
    BY <2>1, <2>2
  <2>4. \A i \in 1 .. m : s[i] \in Char
    BY <2>2, <2>3, ElementOfSeq
  <2> HIDE DEF m
  <2>5. SubSeq(s, 1, m) \in Seq(Char)
    BY <2>2, <2>3, <2>4, SubSeqProperties
  <2> QED
    BY <2>5 DEF StringChars, m
<1> QED
  BY <1>3, <1>4, <1>5

NumState == [result : MinInt .. MaxInt, legal : BOOLEAN, isNeg : BOOLEAN, hasNum : BOOLEAN]

LEMMA HearTypes ==
  ASSUME NEW r \in NumState, NEW c \in Char \cup {EOF}
  PROVE  Hear(r, c) \in NumState /\ NumValue(r) \in MinInt .. MaxInt
<1>1. MinInt \in Int /\ MaxInt \in Nat /\ MinInt <= 0
  BY CallsAssumption DEF MinInt
<1>2. c \in Int /\ r.result \in Int
  BY <1>1 DEF Char, EOF, NumState
<1>3. Wrap(r.result * 10 + (c - 48)) \in MinInt .. MaxInt
  BY <1>2, WrapIsInt
<1>4. Wrap(-r.result) \in MinInt .. MaxInt
  BY <1>2, WrapIsInt
<1>5. Hear(r, c) \in NumState
  BY <1>3 DEF Hear, NumState
<1> QED
  BY <1>1, <1>4, <1>5 DEF NumValue, NumState

\* The types of what a call keeps; a thread that goes to the display has a
\* character to put.
CallsTypeOK ==
  /\ screen \in Seq(Thread \X Char)
  /\ ch \in [Thread -> Char \cup {EOF}]
  /\ \A t \in Thread : pc[t] \in {"acquire", "locked"} /\ side[t] = "out" => ch[t] \in Char
  /\ call \in [Thread -> ReadCall \cup PrintCall \cup {"none"}]
  /\ todo \in [Thread -> Seq(Char)]
  /\ heard \in [Thread -> Seq(Char \cup {EOF})]
  /\ num \in [Thread -> NumState]
  /\ value \in [Thread -> MinInt .. MaxInt \cup Char]
  /\ from \in [Thread -> 0 .. Len(screen)]
  /\ calls \in 0 .. MaxCalls

LEMMA CallsTypeInit == Init => CallsTypeOK
<1> SUFFICES ASSUME Init PROVE CallsTypeOK
  OBVIOUS
<1>1. 0 \in MinInt .. MaxInt /\ 0 \in 0 .. MaxCalls
  BY CallsAssumption DEF MinInt
<1>2. Fresh \in NumState
  BY <1>1 DEF Fresh, NumState
<1>3. screen = <<>> /\ screen \in Seq(Thread \X Char) /\ 0 \in 0 .. Len(screen)
  BY DEF Init, ConsoleInit
<1>4. <<>> \in Seq(Char) /\ <<>> \in Seq(Char \cup {EOF})
  OBVIOUS
<1>5. \A t \in Thread : pc[t] = "user"
  BY DEF Init, ConsoleInit
<1> QED
  BY <1>1, <1>2, <1>3, <1>4, <1>5 DEF CallsTypeOK, Init, ConsoleInit

\* A step inside the monitors: only SendChar and TakeChar have to do with characters.
LEMMA MonitorKeepsTypes ==
  ASSUME CInv, CallsTypeOK, NEW t \in Thread, Monitor(t), UNCHANGED callVars
  PROVE  CallsTypeOK'
<1> USE DEF CallsTypeOK, callVars
<1>1. pc \in [Thread -> PC] /\ side \in [Thread -> Side] /\ incoming \in Char \cup {EOF}
  BY DEF CInv, DeviceTypeOK
<1>2. CASE SendChar(t)
  <2>1. /\ screen' = Append(screen, <<t, ch[t]>>) /\ UNCHANGED <<ch, side>>
        /\ pc' = [pc EXCEPT ![t] = "sending"] /\ pc[t] = "locked" /\ side[t] = "out"
    BY <1>2 DEF SendChar, GoTo
  <2>2. <<t, ch[t]>> \in Thread \X Char
    BY <2>1
  <2>3. /\ screen' \in Seq(Thread \X Char) /\ Len(screen') = Len(screen) + 1
        /\ Len(screen) \in Nat
    BY <2>1, <2>2, AppendProperties, LenProperties
  <2>4. from' \in [Thread -> 0 .. Len(screen')]
    BY <2>3
  <2>5. \A u \in Thread : pc'[u] \in {"acquire", "locked"} => pc'[u] = pc[u]
    BY <1>1, <2>1
  <2> QED
    BY <2>1, <2>3, <2>4, <2>5
<1>3. CASE TakeChar(t)
  <2>1. /\ UNCHANGED <<screen, side>> /\ ch' = [ch EXCEPT ![t] = incoming]
        /\ pc' = [pc EXCEPT ![t] = "back"]
    BY <1>3 DEF TakeChar, GoTo
  <2>2. \A u \in Thread : pc'[u] \in {"acquire", "locked"} => pc'[u] = pc[u] /\ ch'[u] = ch[u]
    BY <1>1, <2>1
  <2>3. ch' \in [Thread -> Char \cup {EOF}]
    BY <1>1, <2>1
  <2> QED
    BY <2>1, <2>2, <2>3
<1>4. CASE Acquire(t)
  <2>1. /\ UNCHANGED <<screen, side, ch>>
        /\ pc' = [pc EXCEPT ![t] = "locked"] /\ pc[t] = "acquire"
    BY <1>4 DEF Acquire, GoTo, deviceVars
  <2>2. \A u \in Thread : pc'[u] \in {"acquire", "locked"} => pc[u] \in {"acquire", "locked"}
    BY <1>1, <2>1
  <2> QED
    BY <2>1, <2>2
<1>5. CASE WaitChar(t) \/ WaitSent(t) \/ ReleaseOut(t)
  <2>1. /\ UNCHANGED <<screen, side, ch>>
        /\ \E l \in {"ready", "sent", "back"} : pc' = [pc EXCEPT ![t] = l]
    BY <1>5 DEF WaitChar, WaitSent, ReleaseOut, GoTo, deviceVars
  <2>2. \A u \in Thread : pc'[u] \in {"acquire", "locked"} => pc[u] \in {"acquire", "locked"}
    BY <1>1, <2>1
  <2> QED
    BY <2>1, <2>2
<1> QED
  BY <1>2, <1>3, <1>4, <1>5 DEF Monitor

\* A call that begins, goes on with a character or returns, its own variables apart.
LEMMA CallKeepsTypes ==
  ASSUME CInv, CallsTypeOK, NEW t \in Thread, UNCHANGED screen,
         \/ GetChar(t)
         \/ \E c \in Char : PutChar(t, c)
         \/ (GoTo(t, "user") /\ UNCHANGED <<side, ch, taken>>)
  PROVE  /\ ch' \in [Thread -> Char \cup {EOF}]
         /\ \A u \in Thread : pc'[u] \in {"acquire", "locked"} /\ side'[u] = "out" => ch'[u] \in Char
<1> USE DEF CallsTypeOK
<1>1. pc \in [Thread -> PC] /\ side \in [Thread -> Side]
  BY DEF CInv, DeviceTypeOK
<1>2. CASE GetChar(t)
  <2>1. ch' = ch /\ side' = [side EXCEPT ![t] = "in"] /\ pc' = [pc EXCEPT ![t] = "acquire"]
    BY <1>2 DEF GetChar, GoTo
  <2> QED
    BY <1>1, <2>1
<1>3. ASSUME NEW c \in Char, PutChar(t, c)
      PROVE  /\ ch' \in [Thread -> Char \cup {EOF}]
             /\ \A u \in Thread : pc'[u] \in {"acquire", "locked"} /\ side'[u] = "out" => ch'[u] \in Char
  <2>1. /\ ch' = [ch EXCEPT ![t] = c] /\ side' = [side EXCEPT ![t] = "out"]
        /\ pc' = [pc EXCEPT ![t] = "acquire"]
    BY <1>3 DEF PutChar, GoTo
  <2> QED
    BY <1>1, <2>1
<1>4. CASE GoTo(t, "user") /\ UNCHANGED <<side, ch, taken>>
  BY <1>1, <1>4 DEF GoTo
<1> QED
  BY <1>2, <1>3, <1>4

LEMMA BeginKeepsTypes ==
  ASSUME CInv, CallsTypeOK, NEW t \in Thread, NEW name \in ReadCall \cup PrintCall, NEW a,
         Begin(t, name, a), UNCHANGED screen
  PROVE  /\ call' \in [Thread -> ReadCall \cup PrintCall \cup {"none"}]
         /\ from' \in [Thread -> 0 .. Len(screen')]
         /\ calls' \in 0 .. MaxCalls
<1> USE DEF CallsTypeOK
<1>1. /\ call' = [call EXCEPT ![t] = name] /\ from' = [from EXCEPT ![t] = Len(screen)]
      /\ calls' = calls + 1 /\ calls < MaxCalls
  BY DEF Begin
<1>2. Len(screen) \in Nat
  BY LenProperties
<1> QED
  BY <1>1, <1>2, CallsAssumption

LEMMA ReadBegins ==
  ASSUME CInv, CallsTypeOK, NEW t \in Thread, NEW name \in ReadCall, NEW a, BeginRead(t, name, a)
  PROVE  CallsTypeOK'
<1>1. /\ Begin(t, name, a) /\ GetChar(t) /\ UNCHANGED <<screen, todo, value>>
      /\ heard' = [heard EXCEPT ![t] = <<>>] /\ num' = [num EXCEPT ![t] = Fresh]
  BY DEF BeginRead, deviceVars
<1>2. /\ call' \in [Thread -> ReadCall \cup PrintCall \cup {"none"}]
      /\ from' \in [Thread -> 0 .. Len(screen')] /\ calls' \in 0 .. MaxCalls
  BY <1>1, BeginKeepsTypes
<1>3. Fresh \in NumState /\ <<>> \in Seq(Char \cup {EOF})
  BY CallsAssumption DEF Fresh, NumState, MinInt
<1>4. heard' \in [Thread -> Seq(Char \cup {EOF})] /\ num' \in [Thread -> NumState]
  BY <1>1, <1>3 DEF CallsTypeOK
<1> QED
  BY <1>1, <1>2, <1>4, CallKeepsTypes DEF CallsTypeOK

LEMMA PrintBegins ==
  ASSUME CInv, CallsTypeOK, NEW t \in Thread, NEW name \in PrintCall, NEW a,
         NEW chars \in Seq(Char), BeginPrint(t, name, a, chars)
  PROVE  CallsTypeOK'
<1>1. /\ Begin(t, name, a) /\ PutChar(t, Head(chars)) /\ UNCHANGED <<screen, heard, num, value>>
      /\ todo' = [todo EXCEPT ![t] = Tail(chars)] /\ chars # <<>>
  BY DEF BeginPrint, deviceVars
<1>2. /\ call' \in [Thread -> ReadCall \cup PrintCall \cup {"none"}]
      /\ from' \in [Thread -> 0 .. Len(screen')] /\ calls' \in 0 .. MaxCalls
  BY <1>1, BeginKeepsTypes
<1>3. Head(chars) \in Char /\ Tail(chars) \in Seq(Char)
  BY <1>1, HeadTailProperties
<1>4. todo' \in [Thread -> Seq(Char)]
  BY <1>1, <1>3 DEF CallsTypeOK
<1> QED
  BY <1>1, <1>2, <1>3, <1>4, CallKeepsTypes DEF CallsTypeOK

LEMMA CallsKeepTypes ==
  ASSUME CInv, CallsTypeOK, NEW t \in Thread, SystemCall(t)
  PROVE  CallsTypeOK'
<1>1. CASE SysReadNum(t) \/ SysReadChar(t) \/ SysReadString(t)
  BY <1>1, ReadBegins DEF SysReadNum, SysReadChar, SysReadString, ReadCall
<1>2. CASE SysPrintNum(t) \/ SysPrintChar(t) \/ SysPrintString(t)
  BY <1>2, PrintBegins, PrintsChars DEF SysPrintNum, SysPrintChar, SysPrintString, PrintCall
<1> QED
  BY <1>1, <1>2 DEF SystemCall

LEMMA LoopsKeepTypes ==
  ASSUME CInv, CallsTypeOK, NEW t \in Thread,
         HeardNum(t) \/ HeardChar(t) \/ HeardString(t) \/ PrintNext(t) \/ PrintReturn(t)
  PROVE  CallsTypeOK'
<1> DEFINE Back == /\ call' \in [Thread -> ReadCall \cup PrintCall \cup {"none"}]
                   /\ GetChar(t) \/ (GoTo(t, "user") /\ UNCHANGED <<side, ch, taken>>)
<1>1. ASSUME HeardNum(t) \/ HeardChar(t) \/ HeardString(t)
      PROVE  /\ heard' \in [Thread -> Seq(Char \cup {EOF})]
             /\ UNCHANGED <<screen, todo, from, calls>> /\ Back
  <2>1. heard' = [heard EXCEPT ![t] = Append(@, ch[t])]
    BY <1>1 DEF HeardNum, HeardChar, HeardString
  <2>2. heard[t] \in Seq(Char \cup {EOF}) /\ ch[t] \in Char \cup {EOF}
    BY DEF CallsTypeOK
  <2>3. Append(heard[t], ch[t]) \in Seq(Char \cup {EOF})
    BY <2>2, AppendOne
  <2>4. heard' \in [Thread -> Seq(Char \cup {EOF})]
    BY <2>1, <2>3 DEF CallsTypeOK
  <2>5. UNCHANGED <<screen, todo, from, calls>>
    BY <1>1 DEF HeardNum, HeardChar, HeardString, deviceVars
  <2>6. (GetChar(t) /\ call' = call) \/ Return(t)
    BY <1>1 DEF HeardNum, HeardChar, HeardString
  <2>7. call' \in [Thread -> ReadCall \cup PrintCall \cup {"none"}]
    BY <2>6 DEF Return, CallsTypeOK
  <2>8. GetChar(t) \/ (GoTo(t, "user") /\ UNCHANGED <<side, ch, taken>>)
    BY <2>6 DEF Return
  <2> QED
    BY <2>4, <2>5, <2>7, <2>8
<1>2. CASE HeardNum(t)
  <2>1. num[t] \in NumState /\ ch[t] \in Char \cup {EOF}
    BY DEF CallsTypeOK
  <2>2. Hear(num[t], ch[t]) \in NumState
    BY <2>1, HearTypes
  <2>3. NumValue(Hear(num[t], ch[t])) \in MinInt .. MaxInt
    BY <2>1, <2>2, HearTypes
  <2>4. num' = [num EXCEPT ![t] = Hear(num[t], ch[t])]
    BY <1>2 DEF HeardNum
  <2>5. value' = value \/ value' = [value EXCEPT ![t] = NumValue(Hear(num[t], ch[t]))]
    BY <1>2 DEF HeardNum
  <2>6. num' \in [Thread -> NumState] /\ value' \in [Thread -> MinInt .. MaxInt \cup Char]
    BY <2>2, <2>3, <2>4, <2>5 DEF CallsTypeOK
  <2> QED
    BY <1>1, <1>2, <2>6, CallKeepsTypes DEF CallsTypeOK
<1>3. CASE HeardChar(t)
  <2>1. ch[t] \in Char \cup {EOF} /\ 0 \in Char /\ ~ Printable(EOF)
    <3>1. ch[t] \in Char \cup {EOF}
      BY Zenon DEF CallsTypeOK
    <3>2. 0 \in Char /\ ~ Printable(EOF)
      BY DEF Printable, Char, EOF
    <3> QED
      BY <3>1, <3>2, Zenon
  <2>2. value' = [value EXCEPT ![t] = IF Printable(ch[t]) THEN ch[t] ELSE 0] /\ num' = num
    BY <1>3 DEF HeardChar
  <2>3. value' \in [Thread -> MinInt .. MaxInt \cup Char] /\ num' \in [Thread -> NumState]
    BY <2>1, <2>2 DEF CallsTypeOK
  <2> QED
    BY <1>1, <1>3, <2>3, CallKeepsTypes DEF CallsTypeOK
<1>4. CASE HeardString(t)
  <2>1. num' = num /\ value' = value
    BY <1>4 DEF HeardString
  <2> QED
    BY <1>1, <1>4, <2>1, CallKeepsTypes DEF CallsTypeOK
<1>5. CASE PrintNext(t)
  <2>1. /\ todo[t] # <<>> /\ PutChar(t, Head(todo[t])) /\ todo' = [todo EXCEPT ![t] = Tail(@)]
        /\ UNCHANGED <<screen, call, heard, num, value, from, calls>>
    BY <1>5 DEF PrintNext, deviceVars
  <2>2. todo[t] \in Seq(Char)
    BY DEF CallsTypeOK
  <2>3. Head(todo[t]) \in Char /\ Tail(todo[t]) \in Seq(Char)
    BY <2>1, <2>2, HeadTailProperties
  <2>4. todo' \in [Thread -> Seq(Char)]
    BY <2>1, <2>3 DEF CallsTypeOK
  <2> QED
    BY <2>1, <2>3, <2>4, CallKeepsTypes DEF CallsTypeOK
<1>6. CASE PrintReturn(t)
  <2>1. Return(t) /\ UNCHANGED <<screen, todo, heard, num, value, from, calls>>
    BY <1>6 DEF PrintReturn, deviceVars
  <2>2. call' \in [Thread -> ReadCall \cup PrintCall \cup {"none"}]
    BY <2>1 DEF Return, CallsTypeOK
  <2> QED
    BY <2>1, <2>2, CallKeepsTypes DEF CallsTypeOK, Return
<1> QED
  BY <1>2, <1>3, <1>4, <1>5, <1>6

LEMMA CallsTypeStep == CInv /\ CallsTypeOK /\ [Next]_vars => CallsTypeOK'
<1> SUFFICES ASSUME CInv, CallsTypeOK, [Next]_vars PROVE CallsTypeOK'
  OBVIOUS
<1>1. CASE Interrupt
  <2>1. UNCHANGED <<screen, ch, pc, side>> /\ UNCHANGED callVars
    BY <1>1 DEF Interrupt, Device, CharArrives, EndOfFile, CharPut
  <2> QED
    BY <2>1 DEF CallsTypeOK, callVars
<1>2. ASSUME NEW t \in Thread, Monitor(t) /\ UNCHANGED callVars PROVE CallsTypeOK'
  BY <1>2, MonitorKeepsTypes
<1>3. ASSUME NEW t \in Thread, SystemCall(t) PROVE CallsTypeOK'
  BY <1>3, CallsKeepTypes
<1>4. ASSUME NEW t \in Thread,
             HeardNum(t) \/ HeardChar(t) \/ HeardString(t) \/ PrintNext(t) \/ PrintReturn(t)
      PROVE  CallsTypeOK'
  BY <1>4, LoopsKeepTypes
<1>5. CASE UNCHANGED vars
  BY <1>5 DEF vars, consoleVars, callVars, CallsTypeOK
<1> QED
  BY <1>1, <1>2, <1>3, <1>4, <1>5 DEF Next, Kernel

(***************************************************************************)
(* The devices are sound under the system calls, and whatever a call is    *)
(* given it keeps to the widths of the code: only characters reach the     *)
(* display, and ReadNum computes ints (machine/console.cc:70, :169;        *)
(* ksyscall.h:170-233).                                                    *)
(***************************************************************************)
THEOREM DevicesSoundCorrect == Spec => []DevicesSound
<1>1. CInv /\ CallsTypeOK => DevicesSound
  <2> SUFFICES ASSUME CInv, CallsTypeOK PROVE TypeOK
    BY CInvImplies DEF DevicesSound
  <2>1. ConsoleTypeOK
    BY DEF CInv, DeviceTypeOK, CallsTypeOK, ConsoleTypeOK
  <2>2. \A i \in DOMAIN screen : screen[i] \in Thread \X Char
    BY ElementOfSeq, LenProperties DEF CallsTypeOK
  <2> QED
    BY <2>1, <2>2 DEF CallsTypeOK, TypeOK, NumState
<1> QED
  BY <1>1, CInvInit, CInvStep, CallsTypeInit, CallsTypeStep, PTL DEF Spec

-----------------------------------------------------------------------------
(* Recursion along a sequence *)

\* Induction, with a set for the predicate.
LEMMA AllAlong ==
  ASSUME NEW b \in Nat, NEW T, 0 \in T, \A n \in 1 .. b : n - 1 \in T => n \in T
  PROVE  \A n \in 0 .. b : n \in T
<1> DEFINE Out == {k \in Nat : k <= b /\ k \notin T}
<1>1. Out = {}
  <2> SUFFICES ASSUME Out # {} PROVE FALSE
    OBVIOUS
  <2>1. PICK k \in Out : \A j \in Out : k <= j
    <3>1. Out \subseteq Nat
      OBVIOUS
    <3> HIDE DEF Out
    <3> QED
      BY <3>1, LeastExists
  <2>2. k \in 1 .. b /\ k - 1 \in Nat /\ k - 1 <= b /\ ~ (k <= k - 1)
    BY <2>1
  <2> QED
    BY <2>1, <2>2
<1> QED
  BY <1>1

\* One step after another from a first value.
Iterates(f, b, base, step) == f[0] = base /\ \A n \in 1 .. b : f[n] = step[<<n, f[n - 1]>>]

LEMMA IterationExists ==
  ASSUME NEW b \in Nat, NEW S, NEW base \in S, NEW step \in [(1 .. b) \X S -> S]
  PROVE  \E f \in [0 .. b -> S] : Iterates(f, b, base, step)
<1> DEFINE T == {m \in 0 .. b : \E f \in [0 .. m -> S] : Iterates(f, m, base, step)}
<1>1. 0 \in T
  <2> DEFINE f == [n \in 0 .. 0 |-> base]
  <2>1. f \in [0 .. 0 -> S] /\ Iterates(f, 0, base, step)
    BY DEF Iterates
  <2> QED
    BY <2>1
<1>2. ASSUME NEW m \in 1 .. b, m - 1 \in T PROVE m \in T
  <2>1. PICK f \in [0 .. m - 1 -> S] : Iterates(f, m - 1, base, step)
    BY <1>2
  <2> DEFINE last == step[<<m, f[m - 1]>>]
             g == [n \in 0 .. m |-> IF n = m THEN last ELSE f[n]]
  <2>2. f[m - 1] \in S
    BY <2>1
  <2>3. last \in S
    BY <2>2
  <2> HIDE DEF last
  <2>4. g \in [0 .. m -> S]
    BY <2>1, <2>3
  <2>5. /\ \A n \in 0 .. m - 1 : g[n] = f[n]
        /\ g[m] = last
    OBVIOUS
  <2> HIDE DEF g
  <2>6. ASSUME NEW n \in 1 .. m PROVE g[n] = step[<<n, g[n - 1]>>]
    <3>1. g[n - 1] = f[n - 1]
      BY <2>5
    <3>2. CASE n = m
      BY <2>5, <3>1, <3>2 DEF last
    <3>3. CASE n # m
      <4>1. n \in 1 .. m - 1 /\ n \in 0 .. m - 1
        BY <3>3
      <4> QED
        BY <2>1, <2>5, <3>1, <4>1 DEF Iterates
    <3> QED
      BY <3>2, <3>3
  <2>7. g[0] = base
    BY <2>1, <2>5 DEF Iterates
  <2>8. Iterates(g, m, base, step)
    BY <2>6, <2>7 DEF Iterates
  <2> QED
    BY <2>4, <2>8
<1>3. \A m \in 0 .. b : m \in T
  <2> HIDE DEF T
  <2> QED
    BY <1>1, <1>2, AllAlong
<1>4. b \in T
  BY <1>3
<1> QED
  BY <1>4

\* Two that begin alike and go on alike are the same.
Alike(f, g, b) == f[0] = g[0] /\ \A n \in 1 .. b : f[n - 1] = g[n - 1] => f[n] = g[n]

LEMMA IterationUnique ==
  ASSUME NEW b \in Nat, NEW f, NEW g, Alike(f, g, b)
  PROVE  \A n \in 0 .. b : f[n] = g[n]
<1> DEFINE T == {n \in Int : f[n] = g[n]}
<1>1. 0 \in T /\ \A n \in 1 .. b : n - 1 \in T => n \in T
  BY DEF Alike
<1> HIDE DEF T
<1>2. \A n \in 0 .. b : n \in T
  BY <1>1, AllAlong
<1> QED
  BY <1>2 DEF T

-----------------------------------------------------------------------------
(* What ReadNum and PrintNum make of digits *)

\* The values of the beginnings of d, as Decimal computes them.
Beginnings(d) ==
  CHOOSE v : v = [n \in 0 .. Len(d) |->
    IF n = 0 THEN 0 ELSE IF d[n] \in Digit THEN v[n - 1] * 10 + (d[n] - 48) ELSE v[n - 1]]

LEMMA BeginningsRecursion ==
  ASSUME NEW d \in Seq(Int)
  PROVE  /\ Beginnings(d) \in [0 .. Len(d) -> Int]
         /\ Beginnings(d)[0] = 0
         /\ \A n \in 1 .. Len(d) :
              Beginnings(d)[n] = IF d[n] \in Digit THEN Beginnings(d)[n - 1] * 10 + (d[n] - 48)
                                 ELSE Beginnings(d)[n - 1]
         /\ Decimal(d) = Beginnings(d)[Len(d)]
<1> DEFINE Turn(n, x) == IF d[n] \in Digit THEN x * 10 + (d[n] - 48) ELSE x
           step == [p \in (1 .. Len(d)) \X Int |-> Turn(p[1], p[2])]
<1>1. Len(d) \in Nat /\ \A n \in 1 .. Len(d) : d[n] \in Int
  BY LenProperties, ElementOfSeq
<1>2. step \in [(1 .. Len(d)) \X Int -> Int]
  BY <1>1
<1>3. \A n \in 1 .. Len(d), x \in Int : step[<<n, x>>] = Turn(n, x)
  BY <1>1
<1> HIDE DEF step
<1>4. PICK f \in [0 .. Len(d) -> Int] : Iterates(f, Len(d), 0, step)
  <2>1. 0 \in Int /\ Len(d) \in Nat
    BY <1>1
  <2> QED
    BY <1>2, <2>1, IterationExists, Zenon
<1>5. \A n \in 1 .. Len(d) : f[n] = Turn(n, f[n - 1])
  <2> SUFFICES ASSUME NEW n \in 1 .. Len(d) PROVE f[n] = Turn(n, f[n - 1])
    OBVIOUS
  <2>1. n \in 1 .. Len(d) /\ f[n - 1] \in Int
    BY <1>1, <1>4
  <2> HIDE DEF Turn
  <2> QED
    BY <1>3, <1>4, <2>1 DEF Iterates
<1> HIDE DEF Turn
<1>6. f = [n \in 0 .. Len(d) |-> IF n = 0 THEN 0 ELSE Turn(n, f[n - 1])]
  BY <1>1, <1>4, <1>5 DEF Iterates
<1>7. Beginnings(d) = [n \in 0 .. Len(d) |-> IF n = 0 THEN 0 ELSE Turn(n, Beginnings(d)[n - 1])]
  BY <1>6, Zenon DEF Beginnings, Turn
<1> DEFINE v == Beginnings(d)
<1>8. v[0] = 0 /\ \A n \in 1 .. Len(d) : v[n] = Turn(n, v[n - 1])
  BY <1>1, <1>7
<1>9. \A n \in 0 .. Len(d) : v[n] = f[n]
  <2> HIDE DEF v
  <2>1. Alike(v, f, Len(d))
    BY <1>4, <1>5, <1>8 DEF Iterates, Alike
  <2> QED
    BY <1>1, <2>1, IterationUnique
<1>10. v = f
  <2>1. v = [n \in 0 .. Len(d) |-> v[n]] /\ f = [n \in 0 .. Len(d) |-> f[n]]
    BY <1>4, <1>7
  <2> HIDE DEF v
  <2> QED
    BY <1>9, <2>1, Zenon
<1>11. Decimal(d) = v[Len(d)]
  BY Zenon DEF Decimal, Beginnings
<1> QED
  BY <1>4, <1>8, <1>10, <1>11 DEF Turn

LEMMA DecimalEmpty == Decimal(<<>>) = 0
<1>1. <<>> \in Seq(Int) /\ Len(<<>>) = 0
  OBVIOUS
<1> QED
  BY <1>1, BeginningsRecursion

LEMMA DecimalAppend ==
  ASSUME NEW d \in Seq(Int), NEW c \in Int
  PROVE  /\ Decimal(d) \in Int
         /\ Decimal(Append(d, c)) = IF c \in Digit THEN Decimal(d) * 10 + (c - 48) ELSE Decimal(d)
<1> DEFINE e == Append(d, c)
           n == Len(d)
<1>1. /\ n \in Nat /\ e \in Seq(Int) /\ Len(e) = n + 1 /\ e[n + 1] = c
      /\ \A i \in 1 .. n : e[i] = d[i]
  BY AppendProperties, LenProperties
<1>2. Decimal(d) = Beginnings(d)[n] /\ Decimal(e) = Beginnings(e)[n + 1] /\ Decimal(d) \in Int
  <2>1. Decimal(d) = Beginnings(d)[n] /\ Beginnings(d) \in [0 .. n -> Int]
    BY BeginningsRecursion
  <2>2. Decimal(e) = Beginnings(e)[Len(e)]
    BY <1>1, BeginningsRecursion
  <2>3. Beginnings(d)[n] \in Int
    BY <1>1, <2>1
  <2> HIDE DEF e, n
  <2> QED
    BY <1>1, <2>1, <2>2, <2>3
<1>3. \A i \in 0 .. n : Beginnings(d)[i] = Beginnings(e)[i]
  <2> DEFINE v == Beginnings(d)
             w == Beginnings(e)
  <2>1. v[0] = 0 /\ w[0] = 0
    BY <1>1, BeginningsRecursion
  <2>2. ASSUME NEW i \in 1 .. n PROVE v[i - 1] = w[i - 1] => v[i] = w[i]
    <3>1. v[i] = IF d[i] \in Digit THEN v[i - 1] * 10 + (d[i] - 48) ELSE v[i - 1]
      BY <1>1, BeginningsRecursion
    <3>2. i \in 1 .. Len(e)
      BY <1>1
    <3>3. w[i] = IF e[i] \in Digit THEN w[i - 1] * 10 + (e[i] - 48) ELSE w[i - 1]
      BY <1>1, <3>2, BeginningsRecursion
    <3>4. e[i] = d[i]
      BY <1>1
    <3> HIDE DEF v, w, e
    <3> QED
      BY <3>1, <3>3, <3>4
  <2> HIDE DEF v, w
  <2>3. Alike(v, w, n)
    BY <2>1, <2>2 DEF Alike
  <2>4. \A i \in 0 .. n : v[i] = w[i]
    BY <1>1, <2>3, IterationUnique
  <2> QED
    BY <2>4 DEF v, w
<1>4. Beginnings(e)[n + 1] = IF c \in Digit THEN Beginnings(e)[n] * 10 + (c - 48) ELSE Beginnings(e)[n]
  <2>1. n + 1 \in 1 .. Len(e) /\ (n + 1) - 1 = n
    BY <1>1
  <2> HIDE DEF e
  <2>2. Beginnings(e)[n + 1] = IF e[n + 1] \in Digit THEN Beginnings(e)[(n + 1) - 1] * 10 + (e[n + 1] - 48)
                               ELSE Beginnings(e)[(n + 1) - 1]
    BY <1>1, <2>1, BeginningsRecursion
  <2> QED
    BY <1>1, <2>1, <2>2
<1>5. Beginnings(e)[n] = Beginnings(d)[n]
  BY <1>1, <1>3
<1> HIDE DEF e, n
<1> QED
  BY <1>2, <1>4, <1>5 DEF e

\* The digits of a number stand for the number, and do not begin with a zero.
LEMMA DigitsStandFor ==
  ASSUME NEW n \in 0 .. MaxInt
  PROVE  Decimal(Digits[n]) = n /\ (n > 0 => Digits[n][1] # 48)
<1> DEFINE Good(m) == Decimal(Digits[m]) = m /\ (m > 0 => Digits[m][1] # 48)
           Bad == {m \in 0 .. MaxInt : ~ Good(m)}
<1>0. MaxInt \in Nat /\ MinInt \in Int /\ MinInt <= 0 /\ 0 .. MaxInt \subseteq MinInt .. MaxInt
  BY CallsAssumption DEF MinInt
<1>1. Bad = {}
  <2> SUFFICES ASSUME Bad # {} PROVE FALSE
    OBVIOUS
  <2>1. PICK m \in Bad : \A j \in Bad : m <= j
    <3>1. Bad \subseteq Nat
      BY <1>0
    <3> HIDE DEF Bad
    <3> QED
      BY <3>1, LeastExists
  <2>2. m \in MinInt .. MaxInt /\ m \in Nat /\ ~ Good(m)
    BY <1>0, <2>1
  <2>3. CASE m = 0
    <3>1. Digits[0] = <<>>
      BY <2>2, <2>3, DigitsRecursion
    <3> QED
      BY <2>2, <2>3, <3>1, DecimalEmpty
  <2>4. CASE m > 0
    <3> DEFINE q == m \div 10
               c == 48 + (m % 10)
               d == Digits[q]
    <3>1. q \in 0 .. MaxInt /\ ~ (m <= q) /\ c \in Digit
      BY <2>2, <2>4, TenthIsLess
    <3>2. Good(q)
      BY <2>1, <3>1
    <3>3. d \in Seq(Digit) /\ (q > 0 => d # <<>>) /\ (q <= 0 => d = <<>>)
      <4>1. q \in MinInt .. MaxInt
        BY <1>0, <3>1
      <4> HIDE DEF q
      <4> QED
        BY <4>1, DigitsAreDigits, DigitsRecursion
    <3>4. Digits[m] = Append(d, c)
      BY <2>2, <2>4, DigitsRecursion, Zenon
    <3>5. d \in Seq(Int) /\ c \in Int
      <4>1. Len(d) \in Nat /\ d \in [1 .. Len(d) -> Digit]
        BY <3>3, LenProperties
      <4>2. Digit \subseteq Int
        BY DEF Digit
      <4>3. c \in Int
        BY <3>1, <4>2, Zenon
      <4> HIDE DEF c, d, q
      <4>4. d \in [1 .. Len(d) -> Int]
        BY <4>1, <4>2
      <4> QED
        BY <4>1, <4>3, <4>4
    <3>6. m = q * 10 + (c - 48) /\ (q = 0 => c # 48) /\ q \in Int
      BY <2>2, <2>4
    <3> HIDE DEF q, c, d
    <3>7. Decimal(Digits[m]) = Decimal(d) * 10 + (c - 48)
      BY <3>1, <3>4, <3>5, DecimalAppend
    <3>8. Decimal(d) = q
      BY <3>2 DEF d
    <3>9. Decimal(Digits[m]) = m
      BY <3>6, <3>7, <3>8
    <3>10. Digits[m][1] # 48
      <4>1. CASE q = 0
        <5>1. d = <<>>
          BY <3>3, <4>1
        <5> QED
          BY <3>4, <3>6, <4>1, <5>1
      <4>2. CASE q > 0
        <5>1. Len(d) \in Nat /\ Len(d) > 0
          BY <3>3, <4>2, LenProperties, EmptySeq
        <5>2. Append(d, c)[1] = d[1]
          BY <3>5, <5>1, AppendProperties
        <5>3. d[1] # 48
          BY <3>2, <4>2 DEF d
        <5> QED
          BY <3>4, <5>2, <5>3
      <4> QED
        BY <3>1, <4>1, <4>2
    <3> QED
      BY <2>2, <3>9, <3>10
  <2> QED
    BY <2>2, <2>3, <2>4
<1> QED
  BY <1>1

-----------------------------------------------------------------------------
(* What a thread put on the screen *)

\* Put(t) for a call that began with k characters on the screen s, and what the
\* beginnings of s give.
PutOf(t, k, s) ==
  LET upTo[n \in 0 .. Len(s)] ==
        IF n <= k THEN <<>>
        ELSE IF s[n][1] = t THEN Append(upTo[n - 1], s[n][2]) ELSE upTo[n - 1]
  IN upTo[Len(s)]

PutUpTo(t, k, s) ==
  CHOOSE v : v = [n \in 0 .. Len(s) |->
    IF n <= k THEN <<>> ELSE IF s[n][1] = t THEN Append(v[n - 1], s[n][2]) ELSE v[n - 1]]

LEMMA PutRecursion ==
  ASSUME NEW t \in Thread, NEW k \in Nat, NEW s \in Seq(Thread \X Char)
  PROVE  /\ PutUpTo(t, k, s) \in [0 .. Len(s) -> Seq(Char)]
         /\ PutUpTo(t, k, s)[0] = <<>>
         /\ \A n \in 1 .. Len(s) :
              PutUpTo(t, k, s)[n] = IF n <= k THEN <<>>
                                    ELSE IF s[n][1] = t THEN Append(PutUpTo(t, k, s)[n - 1], s[n][2])
                                    ELSE PutUpTo(t, k, s)[n - 1]
         /\ PutOf(t, k, s) = PutUpTo(t, k, s)[Len(s)]
<1> DEFINE Turn(n, x) == IF n <= k THEN <<>> ELSE IF s[n][1] = t THEN Append(x, s[n][2]) ELSE x
           step == [p \in (1 .. Len(s)) \X Seq(Char) |-> Turn(p[1], p[2])]
<1>1. Len(s) \in Nat /\ \A n \in 1 .. Len(s) : s[n] \in Thread \X Char
  BY LenProperties, ElementOfSeq
<1>2. ASSUME NEW n \in 1 .. Len(s), NEW x \in Seq(Char) PROVE Turn(n, x) \in Seq(Char)
  <2>1. s[n][2] \in Char
    BY <1>1
  <2>2. Append(x, s[n][2]) \in Seq(Char)
    BY <2>1, AppendOne
  <2>3. <<>> \in Seq(Char)
    OBVIOUS
  <2> QED
    BY <2>2, <2>3, Zenon
<1> HIDE DEF Turn
<1>3. step \in [(1 .. Len(s)) \X Seq(Char) -> Seq(Char)]
  BY <1>2
<1>4. \A n \in 1 .. Len(s), x \in Seq(Char) : step[<<n, x>>] = Turn(n, x)
  BY <1>1
<1> HIDE DEF step
<1>5. PICK f \in [0 .. Len(s) -> Seq(Char)] : Iterates(f, Len(s), <<>>, step)
  <2>1. <<>> \in Seq(Char) /\ Len(s) \in Nat
    BY <1>1
  <2> QED
    BY <1>3, <2>1, IterationExists, Zenon
<1>6. \A n \in 1 .. Len(s) : f[n] = Turn(n, f[n - 1])
  <2> SUFFICES ASSUME NEW n \in 1 .. Len(s) PROVE f[n] = Turn(n, f[n - 1])
    OBVIOUS
  <2>1. n - 1 \in 0 .. Len(s)
    BY <1>1
  <2>2. f[n - 1] \in Seq(Char)
    BY <1>5, <2>1
  <2> QED
    BY <1>4, <1>5, <2>2 DEF Iterates
<1>7. f = [n \in 0 .. Len(s) |-> IF n <= k THEN <<>> ELSE Turn(n, f[n - 1])]
  <2>1. ASSUME NEW n \in 0 .. Len(s) PROVE f[n] = IF n <= k THEN <<>> ELSE Turn(n, f[n - 1])
    <3>1. CASE n = 0
      BY <1>5, <3>1 DEF Iterates
    <3>2. CASE n # 0
      <4>1. n \in 1 .. Len(s)
        BY <1>1, <3>2
      <4> QED
        BY <1>6, <4>1 DEF Turn
    <3> QED
      BY <3>1, <3>2
  <2>2. f = [n \in 0 .. Len(s) |-> f[n]]
    BY <1>5
  <2> QED
    BY <2>1, <2>2
<1>8. f = [n \in 0 .. Len(s) |->
             IF n <= k THEN <<>> ELSE IF s[n][1] = t THEN Append(f[n - 1], s[n][2]) ELSE f[n - 1]]
  BY <1>7, Zenon DEF Turn
<1> DEFINE v == PutUpTo(t, k, s)
<1>9. v = [n \in 0 .. Len(s) |->
             IF n <= k THEN <<>> ELSE IF s[n][1] = t THEN Append(v[n - 1], s[n][2]) ELSE v[n - 1]]
  BY <1>8, Zenon DEF PutUpTo
<1>10. PutOf(t, k, s) = v[Len(s)]
  BY Zenon DEF PutOf, PutUpTo
<1> HIDE DEF v
<1>11. v[0] = <<>> /\ \A n \in 1 .. Len(s) : v[n] = Turn(n, v[n - 1])
  <2>1. 0 \in 0 .. Len(s) /\ 0 <= k
    BY <1>1
  <2>2. v[0] = <<>>
    BY <1>9, <2>1
  <2>3. \A n \in 1 .. Len(s) : n \in 0 .. Len(s)
    BY <1>1
  <2>4. ASSUME NEW n \in 1 .. Len(s) PROVE v[n] = Turn(n, v[n - 1])
    BY <1>9, <2>3, Zenon DEF Turn
  <2> QED
    BY <2>2, <2>4
<1>12. \A n \in 0 .. Len(s) : v[n] = f[n]
  <2>1. Alike(v, f, Len(s))
    BY <1>5, <1>6, <1>11 DEF Iterates, Alike
  <2> QED
    BY <1>1, <2>1, IterationUnique
<1>13. \A n \in 0 .. Len(s) : v[n] \in Seq(Char)
  BY <1>5, <1>12
<1>14. v \in [0 .. Len(s) -> Seq(Char)]
  <2>1. v = [n \in 0 .. Len(s) |-> v[n]]
    BY <1>9
  <2> QED
    BY <1>13, <2>1
<1> QED
  BY <1>10, <1>11, <1>14 DEF v, Turn

\* Nothing, when its call begins.
LEMMA PutNothing ==
  ASSUME NEW t \in Thread, NEW s \in Seq(Thread \X Char)
  PROVE  PutOf(t, Len(s), s) = <<>>
<1>1. Len(s) \in Nat
  BY LenProperties
<1>2. PutOf(t, Len(s), s) = PutUpTo(t, Len(s), s)[Len(s)]
  BY <1>1, PutRecursion
<1>3. CASE Len(s) = 0
  <2>1. PutUpTo(t, Len(s), s)[0] = <<>>
    BY <1>1, PutRecursion
  <2> QED
    BY <1>2, <1>3, <2>1
<1>4. CASE Len(s) # 0
  <2>1. Len(s) \in 1 .. Len(s) /\ Len(s) <= Len(s)
    BY <1>1, <1>4
  <2>2. PutUpTo(t, Len(s), s)[Len(s)] = <<>>
    BY <1>1, <2>1, PutRecursion
  <2> QED
    BY <1>2, <2>2
<1> QED
  BY <1>3, <1>4

\* One character more, when it is its own.
LEMMA PutMore ==
  ASSUME NEW t \in Thread, NEW u \in Thread, NEW c \in Char,
         NEW s \in Seq(Thread \X Char), NEW k \in 0 .. Len(s)
  PROVE  /\ PutOf(t, k, s) \in Seq(Char)
         /\ PutOf(t, k, Append(s, <<u, c>>)) = IF u = t THEN Append(PutOf(t, k, s), c) ELSE PutOf(t, k, s)
<1> DEFINE e == Append(s, <<u, c>>)
           n == Len(s)
           v == PutUpTo(t, k, s)
           w == PutUpTo(t, k, e)
<1>1. /\ n \in Nat /\ e \in Seq(Thread \X Char) /\ Len(e) = n + 1 /\ e[n + 1] = <<u, c>>
      /\ \A i \in 1 .. n : e[i] = s[i]
  BY AppendProperties, LenProperties
<1>2. k \in Nat /\ k <= n
  BY <1>1
<1> HIDE DEF e, n
<1>3. /\ v[0] = <<>> /\ v[n] \in Seq(Char) /\ PutOf(t, k, s) = v[n]
      /\ \A i \in 1 .. n : v[i] = IF i <= k THEN <<>> ELSE IF s[i][1] = t THEN Append(v[i - 1], s[i][2])
                                  ELSE v[i - 1]
  <2>1. v \in [0 .. n -> Seq(Char)]
    BY <1>2, PutRecursion DEF n
  <2>2. v[n] \in Seq(Char)
    BY <1>1, <2>1
  <2> QED
    BY <1>2, <2>2, PutRecursion DEF n
<1>4. /\ w[0] = <<>> /\ PutOf(t, k, e) = w[n + 1]
      /\ \A i \in 1 .. n + 1 : w[i] = IF i <= k THEN <<>> ELSE IF e[i][1] = t THEN Append(w[i - 1], e[i][2])
                                      ELSE w[i - 1]
  <2>1. 1 .. n + 1 = 1 .. Len(e)
    BY <1>1
  <2>2. e \in Seq(Thread \X Char) /\ k \in Nat
    BY <1>1, <1>2
  <2> HIDE DEF v, w
  <2>3. /\ PutUpTo(t, k, e)[0] = <<>> /\ PutOf(t, k, e) = PutUpTo(t, k, e)[Len(e)]
        /\ \A i \in 1 .. Len(e) :
             PutUpTo(t, k, e)[i] = IF i <= k THEN <<>>
                                   ELSE IF e[i][1] = t THEN Append(PutUpTo(t, k, e)[i - 1], e[i][2])
                                   ELSE PutUpTo(t, k, e)[i - 1]
    BY <2>2, PutRecursion
  <2>4. /\ w[0] = <<>> /\ PutOf(t, k, e) = w[Len(e)]
        /\ \A i \in 1 .. Len(e) :
             w[i] = IF i <= k THEN <<>> ELSE IF e[i][1] = t THEN Append(w[i - 1], e[i][2]) ELSE w[i - 1]
    BY <2>3, Zenon DEF w
  <2>5. PutOf(t, k, e) = w[n + 1]
    BY <1>1, <2>4
  <2>6. \A i \in 1 .. n + 1 : i \in 1 .. Len(e)
    BY <1>1
  <2> QED
    BY <2>4, <2>5, <2>6, Zenon
<1> HIDE DEF v, w
<1>5. v[n] = w[n]
  <2>1. ASSUME NEW i \in 1 .. n PROVE v[i - 1] = w[i - 1] => v[i] = w[i]
    <3>1. i \in 1 .. n + 1
      BY <1>1
    <3>2. e[i] = s[i]
      BY <1>1, Zenon
    <3> QED
      BY <1>3, <1>4, <3>1, <3>2
  <2>2. Alike(v, w, n)
    BY <1>3, <1>4, <2>1 DEF Alike
  <2>3. \A i \in 0 .. n : v[i] = w[i]
    BY <1>1, <2>2, IterationUnique
  <2> QED
    BY <1>1, <2>3
<1>6. w[n + 1] = IF u = t THEN Append(w[n], c) ELSE w[n]
  <2>1. n + 1 \in 1 .. n + 1 /\ (n + 1) - 1 = n /\ ~ (n + 1 <= k)
    BY <1>1, <1>2
  <2>2. w[n + 1] = IF e[n + 1][1] = t THEN Append(w[(n + 1) - 1], e[n + 1][2]) ELSE w[(n + 1) - 1]
    BY <1>4, <2>1
  <2> QED
    BY <1>1, <2>1, <2>2
<1> QED
  BY <1>3, <1>4, <1>5, <1>6 DEF e

LEMMA PutIsPutOf == \A t \in Thread : Put(t) = PutOf(t, from[t], screen)
BY Zenon DEF Put, PutOf

-----------------------------------------------------------------------------
(* The print calls: what is on the screen and what is still to come *)

\* What a print call has to put.
Text(c, a) ==
  CASE c = "printNum"    -> NumChars(a)
    [] c = "printChar"   -> CharChars(a)
    [] c = "printString" -> StringChars(a)

Asked(c, a) ==
  \/ c = "printNum" /\ a \in Numbers
  \/ c = "printChar" /\ a \in Letters
  \/ c = "printString" /\ a \in Strings

\* The characters a call has not put: from PutChar to ConsoleOutput::PutChar one
\* of them is the thread's.
Pending(t) == IF pc[t] \in {"acquire", "locked"} THEN <<ch[t]>> \o todo[t] ELSE todo[t]

Printing(t) ==
  call[t] \in PrintCall =>
    /\ side[t] = "out"
    /\ Asked(call[t], arg[t]) /\ Text(call[t], arg[t]) # <<>>
    /\ PutOf(t, from[t], screen) \o Pending(t) = Text(call[t], arg[t])

PrintInv == DOMAIN arg = Thread /\ \A t \in Thread : Printing(t)

LEMMA PrintInit == Init => PrintInv
BY DEF Init, PrintInv, Printing, PrintCall

LEMMA FirstAndRest ==
  ASSUME NEW S, NEW s \in Seq(S), s # <<>>
  PROVE  <<Head(s)>> \o Tail(s) = s
<1>1. Head(s) \in S /\ Tail(s) \in Seq(S) /\ Len(Tail(s)) = Len(s) - 1 /\ Len(s) \in Nat
      /\ \A i \in 1 .. Len(Tail(s)) : Tail(s)[i] = s[i + 1]
  BY HeadTailProperties, LenProperties
<1>2. <<Head(s)>> \in Seq(S) /\ Len(<<Head(s)>>) = 1
  BY <1>1
<1> DEFINE r == <<Head(s)>> \o Tail(s)
<1>3. /\ r \in Seq(S) /\ Len(r) = Len(s)
      /\ \A i \in 1 .. Len(s) : r[i] = IF i <= 1 THEN <<Head(s)>>[i] ELSE Tail(s)[i - 1]
  BY <1>1, <1>2, ConcatProperties
<1>4. ASSUME NEW i \in 1 .. Len(s) PROVE r[i] = s[i]
  <2>1. CASE i = 1
    BY <1>3, <2>1
  <2>2. CASE i # 1
    <3>1. i - 1 \in 1 .. Len(Tail(s)) /\ (i - 1) + 1 = i /\ ~ (i <= 1)
      BY <1>1, <2>2
    <3> HIDE DEF r
    <3> QED
      BY <1>1, <1>3, <3>1
  <2> QED
    BY <2>1, <2>2
<1> HIDE DEF r
<1>5. r = s
  BY <1>3, <1>4, SeqEqual
<1> QED
  BY <1>5 DEF r

LEMMA OneFurther ==
  ASSUME NEW S, NEW s \in Seq(S), NEW e \in S, NEW r \in Seq(S)
  PROVE  Append(s, e) \o r = s \o (<<e>> \o r)
<1>1. <<e>> \in Seq(S)
  OBVIOUS
<1>2. Append(s, e) = s \o <<e>>
  BY AppendIsConcat
<1> QED
  BY <1>1, <1>2, ConcatAssociative

LEMMA OneBefore ==
  ASSUME NEW S, NEW e \in S, NEW r \in Seq(S)
  PROVE  Tail(<<e>> \o r) = r /\ (<<e>> \o r)[1] = e
<1> DEFINE s == <<e>> \o r
<1>1. <<e>> \in Seq(S) /\ Len(<<e>>) = 1 /\ Len(r) \in Nat
  BY LenProperties
<1>2. /\ s \in Seq(S) /\ Len(s) = Len(r) + 1
      /\ \A i \in 1 .. Len(r) + 1 : s[i] = IF i <= 1 THEN <<e>>[i] ELSE r[i - 1]
  BY <1>1, ConcatProperties
<1> HIDE DEF s
<1>3. s # <<>> /\ s[1] = e
  BY <1>1, <1>2
<1>4. /\ Tail(s) \in Seq(S) /\ Len(Tail(s)) = Len(r)
      /\ \A i \in 1 .. Len(r) : Tail(s)[i] = s[i + 1]
  BY <1>1, <1>2, <1>3, HeadTailProperties
<1>5. ASSUME NEW i \in 1 .. Len(r) PROVE Tail(s)[i] = r[i]
  <2>1. i + 1 \in 1 .. Len(r) + 1 /\ (i + 1) - 1 = i /\ ~ (i + 1 <= 1)
    BY <1>1
  <2> QED
    BY <1>2, <1>4, <2>1
<1>6. Tail(s) = r
  BY <1>4, <1>5, SeqEqual
<1> QED
  BY <1>3, <1>6 DEF s

\* A step that does not touch t's call.
LEMMA OtherCall ==
  ASSUME CInv, CallsTypeOK, NEW t \in Thread, Printing(t),
         call'[t] = call[t], arg'[t] = arg[t], todo'[t] = todo[t], from'[t] = from[t],
         side'[t] = side[t], ch'[t] = ch[t],
         pc'[t] \in {"acquire", "locked"} <=> pc[t] \in {"acquire", "locked"},
         PutOf(t, from[t], screen') = PutOf(t, from[t], screen)
  PROVE  Printing(t)'
<1>1. Pending(t)' = Pending(t)
  BY DEF Pending
<1> QED
  BY <1>1 DEF Printing

LEMMA PrintThroughMonitor ==
  ASSUME CInv, CallsTypeOK, PrintInv, NEW u \in Thread, Monitor(u), UNCHANGED callVars
  PROVE  PrintInv'
<1> SUFFICES ASSUME NEW t \in Thread PROVE Printing(t)'
  BY DEF PrintInv, callVars
<1>0. /\ pc \in [Thread -> PC] /\ side \in [Thread -> Side] /\ side' = side
      /\ ch \in [Thread -> Char \cup {EOF}] /\ Printing(t) /\ UNCHANGED <<call, arg, todo, from>>
      /\ screen \in Seq(Thread \X Char) /\ from[t] \in 0 .. Len(screen)
  BY DEF CInv, DeviceTypeOK, CallsTypeOK, PrintInv, callVars, Monitor, Acquire, WaitChar, TakeChar,
         SendChar, WaitSent, ReleaseOut
<1>1. CASE t # u
  <2>1. /\ \E l \in PC : pc' = [pc EXCEPT ![u] = l]
        /\ ch' = ch \/ ch' = [ch EXCEPT ![u] = incoming]
        /\ screen' = screen \/ (SendChar(u) /\ screen' = Append(screen, <<u, ch[u]>>))
    BY DEF Monitor, Acquire, WaitChar, TakeChar, SendChar, WaitSent, ReleaseOut, GoTo, PC, deviceVars
  <2>2. pc'[t] = pc[t] /\ ch'[t] = ch[t]
    BY <1>0, <1>1, <2>1
  <2>3. PutOf(t, from[t], screen') = PutOf(t, from[t], screen)
    <3>1. CASE screen' = screen
      BY <3>1
    <3>2. CASE SendChar(u) /\ screen' = Append(screen, <<u, ch[u]>>)
      <4>1. ch[u] \in Char
        BY <3>2 DEF SendChar, CallsTypeOK
      <4> QED
        BY <1>0, <1>1, <3>2, <4>1, PutMore
    <3> QED
      BY <2>1, <3>1, <3>2
  <2> QED
    BY <1>0, <2>2, <2>3, OtherCall
<1>2. CASE t = u /\ call[t] \notin PrintCall
  BY <1>0, <1>2 DEF Printing
<1>3. CASE t = u /\ call[t] \in PrintCall
  <2>0. side[t] = "out" /\ pc[t] # "ready"
    BY <1>0, <1>3 DEF Printing, CInv, OneInside
  <2>1. CASE Acquire(t) \/ WaitSent(t) \/ ReleaseOut(t)
    <3>1. /\ UNCHANGED <<screen, ch>>
          /\ pc'[t] \in {"acquire", "locked"} <=> pc[t] \in {"acquire", "locked"}
      BY <1>0, <2>1 DEF Acquire, WaitSent, ReleaseOut, GoTo, deviceVars
    <3> QED
      BY <1>0, <3>1, OtherCall
  <2>2. CASE SendChar(t)
    <3>1. /\ pc[t] = "locked" /\ screen' = Append(screen, <<t, ch[t]>>) /\ ch' = ch
          /\ pc' = [pc EXCEPT ![t] = "sending"]
      BY <2>2 DEF SendChar, GoTo
    <3>2. ch[t] \in Char /\ todo[t] \in Seq(Char)
      BY <2>0, <3>1 DEF CallsTypeOK
    <3> DEFINE put == PutOf(t, from[t], screen)
    <3>3. put \in Seq(Char) /\ PutOf(t, from[t], screen') = Append(put, ch[t])
      BY <1>0, <3>1, <3>2, PutMore
    <3>4. Pending(t) = <<ch[t]>> \o todo[t] /\ Pending(t)' = todo[t]
      BY <1>0, <3>1 DEF Pending
    <3> HIDE DEF put
    <3>5. Append(put, ch[t]) \o todo[t] = put \o (<<ch[t]>> \o todo[t])
      <4> DEFINE c == ch[t]
                 r == todo[t]
      <4>1. c \in Char /\ r \in Seq(Char) /\ put \in Seq(Char)
        BY <3>2, <3>3
      <4> HIDE DEF c, r
      <4>2. Append(put, c) \o r = put \o (<<c>> \o r)
        BY <4>1, OneFurther
      <4> QED
        BY <4>2 DEF c, r
    <3> QED
      BY <1>0, <3>3, <3>4, <3>5 DEF Printing, put
  <2> QED
    BY <1>3, <2>0, <2>1, <2>2 DEF Monitor, WaitChar, TakeChar
<1> QED
  BY <1>1, <1>2, <1>3

\* A call of u is none of t's.
LEMMA OthersPrint ==
  ASSUME CInv, CallsTypeOK, PrintInv, NEW u \in Thread, NEW t \in Thread, t # u,
         \/ SystemCall(u)
         \/ HeardNum(u) \/ HeardChar(u) \/ HeardString(u) \/ PrintNext(u) \/ PrintReturn(u)
  PROVE  Printing(t)'
<1>0. /\ pc \in [Thread -> PC] /\ side \in [Thread -> Side]
      /\ ch \in [Thread -> Char \cup {EOF}] /\ Printing(t) /\ DOMAIN arg = Thread
      /\ DOMAIN call = Thread /\ DOMAIN todo = Thread /\ DOMAIN from = Thread
  BY DEF CInv, DeviceTypeOK, CallsTypeOK, PrintInv
<1>1. /\ UNCHANGED screen
      /\ \E l \in PC : pc' = [pc EXCEPT ![u] = l]
      /\ \/ GetChar(u) \/ (\E c : PutChar(u, c)) \/ UNCHANGED <<side, ch>>
      /\ \/ \E name, a : Begin(u, name, a)
         \/ call' = [call EXCEPT ![u] = "none"] /\ UNCHANGED <<arg, from>>
         \/ UNCHANGED <<call, arg, from>>
      /\ todo' = todo \/ \E r : todo' = [todo EXCEPT ![u] = r]
  <2>1. CASE SystemCall(u)
    BY <2>1 DEF SystemCall, SysReadNum, SysReadChar, SysReadString, SysPrintNum, SysPrintChar,
                SysPrintString, BeginRead, BeginPrint, GetChar, PutChar, GoTo, PC, deviceVars
  <2>2. CASE HeardNum(u) \/ HeardChar(u) \/ HeardString(u) \/ PrintReturn(u)
    BY <2>2 DEF HeardNum, HeardChar, HeardString, PrintReturn, Return, GetChar, GoTo, PC, deviceVars
  <2>3. CASE PrintNext(u)
    BY <2>3 DEF PrintNext, PutChar, GoTo, PC, deviceVars
  <2> QED
    BY <2>1, <2>2, <2>3
<1>2. pc'[t] = pc[t] /\ side'[t] = side[t] /\ ch'[t] = ch[t]
  BY <1>0, <1>1 DEF GetChar, PutChar
<1>3. call'[t] = call[t] /\ arg'[t] = arg[t] /\ from'[t] = from[t] /\ todo'[t] = todo[t]
  BY <1>0, <1>1 DEF Begin
<1> QED
  BY <1>0, <1>1, <1>2, <1>3, OtherCall

LEMMA PrintThroughBegin ==
  ASSUME CInv, CallsTypeOK, PrintInv, NEW t \in Thread, NEW name \in PrintCall, NEW a,
         Asked(name, a), BeginPrint(t, name, a, Text(name, a))
  PROVE  Printing(t)'
<1> DEFINE chars == Text(name, a)
<1>1. chars \in Seq(Char)
  BY PrintsChars DEF Asked, Text
<1>2. chars # <<>> /\ Begin(t, name, a) /\ PutChar(t, Head(chars)) /\ screen' = screen
      /\ todo' = [todo EXCEPT ![t] = Tail(chars)]
  BY DEF BeginPrint, deviceVars
<1> HIDE DEF chars
<1>3. /\ call'[t] = name /\ arg'[t] = a /\ from'[t] = Len(screen)
      /\ side'[t] = "out" /\ pc'[t] = "acquire" /\ ch'[t] = Head(chars) /\ todo'[t] = Tail(chars)
  BY <1>2 DEF PrintInv, CInv, DeviceTypeOK, CallsTypeOK, Begin, PutChar, GoTo
<1>4. PutOf(t, from'[t], screen') = <<>>
  BY <1>2, <1>3, PutNothing DEF CallsTypeOK
<1>5. Pending(t)' = chars
  BY <1>1, <1>2, <1>3, FirstAndRest DEF Pending
<1>6. <<>> \o chars = chars
  BY <1>1, ConcatEmptySeq
<1>7. Text(call'[t], arg'[t]) = chars
  BY <1>3 DEF chars
<1> QED
  BY <1>2, <1>3, <1>4, <1>5, <1>6, <1>7 DEF Printing

LEMMA PrintThroughNext ==
  ASSUME CInv, CallsTypeOK, PrintInv, NEW t \in Thread, PrintNext(t)
  PROVE  Printing(t)'
<1>1. /\ pc[t] = "back" /\ call[t] \in PrintCall /\ todo[t] # <<>> /\ PutChar(t, Head(todo[t]))
      /\ todo' = [todo EXCEPT ![t] = Tail(@)] /\ UNCHANGED <<screen, call, arg, from>>
  BY DEF PrintNext, deviceVars
<1>2. todo[t] \in Seq(Char) /\ Printing(t)
  BY DEF CallsTypeOK, PrintInv
<1>3. /\ side'[t] = "out" /\ pc'[t] = "acquire" /\ ch'[t] = Head(todo[t]) /\ todo'[t] = Tail(todo[t])
  BY <1>1 DEF CInv, DeviceTypeOK, CallsTypeOK, PutChar, GoTo
<1>4. Pending(t)' = todo[t] /\ Pending(t) = todo[t]
  BY <1>1, <1>2, <1>3, FirstAndRest DEF Pending
<1> QED
  BY <1>1, <1>2, <1>3, <1>4 DEF Printing

LEMMA PrintStep == CInv /\ CallsTypeOK /\ PrintInv /\ [Next]_vars => PrintInv'
<1> SUFFICES ASSUME CInv, CallsTypeOK, PrintInv, [Next]_vars PROVE PrintInv'
  OBVIOUS
<1>1. CASE Interrupt
  <2>1. UNCHANGED <<screen, ch, pc, side>> /\ UNCHANGED callVars
    BY <1>1 DEF Interrupt, Device, CharArrives, EndOfFile, CharPut
  <2> QED
    BY <2>1 DEF PrintInv, Printing, Pending, callVars
<1>2. ASSUME NEW t \in Thread, Monitor(t) /\ UNCHANGED callVars PROVE PrintInv'
  BY <1>2, PrintThroughMonitor
<1>3. ASSUME NEW u \in Thread,
             \/ SystemCall(u)
             \/ HeardNum(u) \/ HeardChar(u) \/ HeardString(u) \/ PrintNext(u) \/ PrintReturn(u)
      PROVE  PrintInv'
  <2>1. DOMAIN arg' = Thread
    <3>1. (\E name, a : Begin(u, name, a)) \/ arg' = arg
      BY <1>3 DEF SystemCall, SysReadNum, SysReadChar, SysReadString, SysPrintNum, SysPrintChar,
                  SysPrintString, BeginRead, BeginPrint, HeardNum, HeardChar, HeardString,
                  PrintNext, PrintReturn
    <3> QED
      BY <3>1 DEF PrintInv, Begin
  <2>2. Printing(u)'
    <3>1. CASE SysReadNum(u) \/ SysReadChar(u) \/ SysReadString(u)
      <4>1. \E name \in ReadCall : \E a : Begin(u, name, a)
        BY <3>1 DEF SysReadNum, SysReadChar, SysReadString, BeginRead, ReadCall
      <4>2. call'[u] \in ReadCall
        BY <4>1 DEF Begin, CallsTypeOK
      <4> QED
        BY <4>2 DEF Printing, ReadCall, PrintCall
    <3>2. CASE SysPrintNum(u)
      <4>1. PICK n \in Numbers : BeginPrint(u, "printNum", n, NumChars(n))
        BY <3>2 DEF SysPrintNum
      <4>2. Asked("printNum", n) /\ Text("printNum", n) = NumChars(n) /\ "printNum" \in PrintCall
        BY DEF Asked, Text, PrintCall
      <4> QED
        BY <4>1, <4>2, PrintThroughBegin
    <3>3. CASE SysPrintChar(u)
      <4>1. PICK c \in Letters : BeginPrint(u, "printChar", c, CharChars(c))
        BY <3>3 DEF SysPrintChar
      <4>2. Asked("printChar", c) /\ Text("printChar", c) = CharChars(c) /\ "printChar" \in PrintCall
        BY DEF Asked, Text, PrintCall
      <4> QED
        BY <4>1, <4>2, PrintThroughBegin
    <3>4. CASE SysPrintString(u)
      <4>1. PICK s \in Strings : BeginPrint(u, "printString", s, StringChars(s))
        BY <3>4 DEF SysPrintString
      <4>2. Asked("printString", s) /\ Text("printString", s) = StringChars(s)
            /\ "printString" \in PrintCall
        BY DEF Asked, Text, PrintCall
      <4> QED
        BY <4>1, <4>2, PrintThroughBegin
    <3>5. CASE HeardNum(u) \/ HeardChar(u) \/ HeardString(u) \/ PrintReturn(u)
      <4>1. call'[u] \in ReadCall \cup {"none"}
        BY <3>5 DEF HeardNum, HeardChar, HeardString, PrintReturn, Return, CallsTypeOK, ReadCall
      <4> QED
        BY <4>1 DEF Printing, ReadCall, PrintCall
    <3> QED
      BY <1>3, <3>1, <3>2, <3>3, <3>4, <3>5, PrintThroughNext DEF SystemCall
  <2>3. \A t \in Thread \ {u} : Printing(t)'
    BY <1>3, OthersPrint
  <2> QED
    BY <2>1, <2>2, <2>3 DEF PrintInv
<1>4. CASE UNCHANGED vars
  BY <1>4 DEF vars, consoleVars, callVars, PrintInv, Printing, Pending
<1> QED
  BY <1>1, <1>2, <1>3, <1>4 DEF Next, Kernel

LEMMA WrapKeeps == ASSUME NEW n \in MinInt .. MaxInt PROVE Wrap(n) = n
BY CallsAssumption, SMT DEF Wrap, MinInt

\* What SysPrintNum puts is the shortest numeral of its argument.
LEMMA NumCharsIsNumeral ==
  ASSUME NEW n \in Numbers, n # MinInt PROVE NumeralOf(NumChars(n), n)
<1>1. MinInt \in Int /\ MaxInt \in Nat /\ MinInt = -MaxInt - 1 /\ n \in MinInt .. MaxInt
  BY CallsAssumption DEF MinInt
<1>2. ASSUME NEW m \in 1 .. MaxInt
      PROVE  /\ Digits[m] \in Seq(Digit) /\ Digits[m] # <<>> /\ Range(Digits[m]) \subseteq Digit
             /\ Digits[m][1] # 48 /\ Decimal(Digits[m]) = m
  <2>1. m \in 0 .. MaxInt /\ m \in MinInt .. MaxInt /\ m > 0
    BY <1>1
  <2>2. Digits[m] \in Seq(Digit) /\ Digits[m] # <<>>
    BY <2>1, DigitsAreDigits
  <2>3. Range(Digits[m]) \subseteq Digit
    BY <2>2, LenProperties DEF Range
  <2> QED
    BY <2>1, <2>2, <2>3, DigitsStandFor
<1>3. CASE n = 0
  <2>1. NumChars(n) = <<48>>
    BY <1>3 DEF NumChars
  <2>2. Range(<<48>>) \subseteq Digit
    BY DEF Range, Digit
  <2>3. Decimal(<<48>>) = 0
    <3>1. <<>> \in Seq(Int) /\ Append(<<>>, 48) = <<48>> /\ 48 \in Digit /\ 48 \in Int
      BY DEF Digit
    <3>2. Decimal(Append(<<>>, 48)) = Decimal(<<>>) * 10 + (48 - 48)
      BY <3>1, DecimalAppend
    <3> QED
      BY <3>1, <3>2, DecimalEmpty
  <2> QED
    BY <1>3, <2>1, <2>2, <2>3 DEF NumeralOf
<1>4. CASE n > 0
  <2>1. n \in 1 .. MaxInt /\ ~ (n < 0) /\ n # 0
    BY <1>1, <1>4
  <2>2. NumChars(n) = Digits[n]
    BY <2>1 DEF NumChars
  <2> QED
    BY <1>2, <2>1, <2>2 DEF NumeralOf
<1>5. CASE n < 0
  <2> DEFINE m == -n
             d == Digits[m]
             s == <<Minus>> \o d
  <2>1. m \in 1 .. MaxInt /\ m \in MinInt .. MaxInt /\ n # 0
    BY <1>1, <1>5
  <2>2. NumChars(n) = s
    BY <1>5, <2>1, WrapKeeps DEF NumChars
  <2>3. /\ d \in Seq(Digit) /\ d # <<>> /\ Range(d) \subseteq Digit
        /\ d[1] # 48 /\ Decimal(d) = m
    BY <1>2, <2>1
  <2>4. Tail(s) = d /\ s[1] = Minus
    <3> HIDE DEF d
    <3>1. d \in Seq(Int) /\ <<Minus>> \in Seq(Int) /\ Len(<<Minus>>) = 1
      BY <2>3, SeqMonotonic DEF Digit, Minus
    <3> QED
      BY <3>1, OneBefore
  <2> HIDE DEF s, d
  <2> QED
    BY <1>5, <2>2, <2>3, <2>4 DEF NumeralOf
<1> QED
  BY <1>1, <1>3, <1>4, <1>5

\* A print call that returns has put what it was asked to.
LEMMA PrintsText ==
  ASSUME CInv, CallsTypeOK, PrintInv, [Next]_vars, NEW t \in Thread,
         call[t] \in PrintCall, call'[t] = "none"
  PROVE  Put(t) = Text(call[t], arg[t]) /\ Asked(call[t], arg[t]) /\ Text(call[t], arg[t]) # <<>>
<1>0. call \in [Thread -> ReadCall \cup PrintCall \cup {"none"}]
  BY DEF CallsTypeOK
<1>1. PrintReturn(t)
  <2>1. call'[t] # call[t]
    BY DEF PrintCall
  <2>2. ~ UNCHANGED call
    BY <2>1
  <2>3. ASSUME NEW u \in Thread, SystemCall(u) PROVE FALSE
    <3>1. \E name \in ReadCall \cup PrintCall : \E a : Begin(u, name, a)
      BY <2>3 DEF SystemCall, SysReadNum, SysReadChar, SysReadString, SysPrintNum, SysPrintChar,
                  SysPrintString, BeginRead, BeginPrint, ReadCall, PrintCall
    <3> QED
      BY <1>0, <2>1, <3>1 DEF Begin, ReadCall, PrintCall
  <2>4. ASSUME NEW u \in Thread, HeardNum(u) \/ HeardChar(u) \/ HeardString(u) PROVE FALSE
    <3>1. call[u] \in ReadCall /\ (call' = call \/ call' = [call EXCEPT ![u] = "none"])
      BY <2>4 DEF HeardNum, HeardChar, HeardString, Return, ReadCall
    <3> QED
      BY <1>0, <2>1, <3>1 DEF ReadCall, PrintCall
  <2>5. ASSUME NEW u \in Thread, PrintNext(u) PROVE FALSE
    BY <2>2, <2>5 DEF PrintNext
  <2>6. ASSUME NEW u \in Thread, PrintReturn(u) PROVE PrintReturn(t)
    BY <1>0, <2>1, <2>6 DEF PrintReturn, Return
  <2>7. ASSUME Interrupt \/ UNCHANGED vars \/ UNCHANGED callVars PROVE FALSE
    BY <2>2, <2>7 DEF Interrupt, vars, callVars
  <2> QED
    BY <2>3, <2>4, <2>5, <2>6, <2>7 DEF Next, Kernel
<1>2. pc[t] = "back" /\ todo[t] = <<>> /\ Printing(t)
  BY <1>1 DEF PrintReturn, PrintInv
<1>3. Pending(t) = <<>>
  BY <1>2 DEF Pending
<1>4. PutOf(t, from[t], screen) \in Seq(Char)
  <2>1. \E c : c \in Char
    BY DEF Char, EOF
  <2> QED
    BY <2>1, PutMore DEF CallsTypeOK
<1> QED
  BY <1>2, <1>3, <1>4, ConcatEmptySeq, PutIsPutOf DEF Printing

(***************************************************************************)
(* A print call returns when its characters are on the screen, once each   *)
(* and in their order, whatever other threads put among them; PrintNum's   *)
(* are the shortest numeral of its argument (ksyscall.h:203-233, :257-265, *)
(* :311-324).                                                              *)
(***************************************************************************)
THEOREM PrintedCorrect == Spec => Printed
<1>1. CInv /\ CallsTypeOK /\ PrintInv /\ [Next]_vars => [TextPrinted]_vars
  <2> SUFFICES ASSUME CInv, CallsTypeOK, PrintInv, [Next]_vars PROVE TextPrinted
    OBVIOUS
  <2> SUFFICES ASSUME NEW t \in Thread, call[t] \in PrintCall, call'[t] = "none"
               PROVE  /\ call[t] = "printNum" /\ arg[t] # MinInt => NumeralOf(Put(t), arg[t])
                      /\ call[t] = "printChar" => Put(t) = <<arg[t]>>
                      /\ call[t] = "printString" =>
                           /\ Put(t) = SubSeq(arg[t], 1, Len(Put(t)))
                           /\ Len(Put(t)) \in {Len(arg[t]), MaxPrintLength}
    BY DEF TextPrinted
  <2>1. Put(t) = Text(call[t], arg[t]) /\ Asked(call[t], arg[t]) /\ Put(t) # <<>>
    BY PrintsText
  <2>2. CASE call[t] = "printNum"
    <3>1. arg[t] \in Numbers /\ Put(t) = NumChars(arg[t])
      BY <2>1, <2>2 DEF Asked, Text
    <3> QED
      BY <2>2, <3>1, NumCharsIsNumeral
  <2>3. CASE call[t] = "printChar"
    <3>1. Put(t) = CharChars(arg[t])
      BY <2>1, <2>3 DEF Text
    <3> QED
      BY <2>1, <2>3, <3>1 DEF CharChars
  <2>4. CASE call[t] = "printString"
    <3> DEFINE a == arg[t]
               m == IF Len(a) < MaxPrintLength THEN Len(a) ELSE MaxPrintLength
    <3>1. a \in Strings /\ Put(t) = SubSeq(a, 1, m)
      BY <2>1, <2>4 DEF Asked, Text, StringChars
    <3>2. a \in Seq(Char \ {0}) /\ MaxPrintLength \in Nat /\ Len(a) \in Nat
      BY <3>1, CallsAssumption, LenProperties
    <3>3. m \in Nat /\ m <= Len(a) /\ m \in {Len(a), MaxPrintLength}
      BY <3>2
    <3> HIDE DEF m
    <3>4. Len(SubSeq(a, 1, m)) = m
      BY <3>2, <3>3, SMT
    <3> QED
      BY <2>4, <3>1, <3>3, <3>4
  <2> QED
    BY <2>1, <2>2, <2>3, <2>4 DEF PrintCall
<1> QED
  BY <1>1, CInvInit, CInvStep, CallsTypeInit, CallsTypeStep, PrintInit, PrintStep, PTL DEF Spec, Printed

-----------------------------------------------------------------------------
(* Two's complement *)

LEMMA Divides ==
  ASSUME NEW n \in Int, NEW b \in Nat \ {0}
  PROVE  n \div b \in Int /\ n % b \in 0 .. (b - 1) /\ n = b * (n \div b) + (n % b)
OBVIOUS

LEMMA Product ==
  ASSUME NEW b \in Nat \ {0}, NEW x \in Int, NEW y \in Int
  PROVE  /\ b * x \in Int /\ x * b = b * x /\ b * (x + y) = b * x + b * y /\ b * (x - y) = b * x - b * y
         /\ x >= 1 => b * x >= b
         /\ x <= -1 => b * x <= -b
OBVIOUS

LEMMA RemainderIs ==
  ASSUME NEW b \in Nat \ {0}, NEW q \in Int, NEW r \in 0 .. (b - 1)
  PROVE  (b * q + r) % b = r
<1> DEFINE n == b * q + r
           d == n \div b
           m == n % b
<1>1. b * q \in Int /\ n \in Int
  BY Product
<1>2. d \in Int /\ m \in 0 .. (b - 1) /\ n = b * d + m
  BY <1>1, Divides
<1> HIDE DEF d, m
<1>3. b * d \in Int /\ b * (q - d) = b * q - b * d /\ q - d \in Int
  BY <1>2, Product
<1>4. b * q + r = b * d + m
  BY <1>2
<1> HIDE DEF n
<1>5. b * (q - d) = m - r
  <2> DEFINE x == b * q
             y == b * d
             z == b * (q - d)
  <2>1. x \in Int /\ y \in Int /\ x + r = y + m /\ z = x - y
    BY <1>1, <1>3, <1>4
  <2> HIDE DEF x, y, z
  <2>2. z = m - r
    BY <1>2, <2>1
  <2> QED
    BY <2>2 DEF z
<1>6. m - r < b /\ m - r > -b
  BY <1>2
<1>7. q - d = 0
  BY <1>3, <1>5, <1>6, Product
<1>8. m = r
  BY <1>2, <1>5, <1>7
<1> QED
  BY <1>8 DEF m, n

\* The number of ints.
Width == MaxInt - MinInt + 1

LEMMA WidthIsPositive == Width \in Nat \ {0} /\ MinInt \in Int
BY CallsAssumption DEF Width, MinInt

LEMMA WrapCongruent ==
  ASSUME NEW n \in Int, NEW q \in Int
  PROVE  Wrap(n + Width * q) = Wrap(n)
<1> DEFINE a == n - MinInt
           d == a \div Width
           r == a % Width
<1>1. a \in Int /\ Width * q \in Int
  BY WidthIsPositive, Product
<1>2. d \in Int /\ r \in 0 .. (Width - 1) /\ a = Width * d + r
  BY <1>1, WidthIsPositive, Divides
<1>3. (n + Width * q) - MinInt = a + Width * q
  BY <1>1, WidthIsPositive
<1> HIDE DEF a, d, r
<1>4. a + Width * q = Width * (d + q) + r
  <2>1. Width * (d + q) = Width * d + Width * q /\ Width * d \in Int
    BY <1>2, WidthIsPositive, Product
  <2> QED
    BY <1>1, <1>2, <2>1
<1>5. (a + Width * q) % Width = r
  <2>1. d + q \in Int
    BY <1>2
  <2> QED
    BY <1>2, <1>4, <2>1, WidthIsPositive, RemainderIs
<1>6. Wrap(n + Width * q) = r + MinInt
  BY <1>3, <1>5 DEF Wrap, Width
<1>7. Wrap(n) = r + MinInt
  BY DEF Wrap, Width, r, a
<1> QED
  BY <1>6, <1>7

LEMMA WrapDiffers == ASSUME NEW n \in Int PROVE \E q \in Int : Wrap(n) = n + Width * q
<1> DEFINE a == n - MinInt
           d == a \div Width
           r == a % Width
<1>1. a \in Int
  BY WidthIsPositive
<1>2. d \in Int /\ r \in 0 .. (Width - 1) /\ a = Width * d + r
  BY <1>1, WidthIsPositive, Divides
<1>3. Wrap(n) = r + MinInt
  BY DEF Wrap, Width
<1> HIDE DEF d, r
<1>4. -d \in Int /\ Width * d \in Int /\ Width * (-d) = -(Width * d)
  <2>1. Width * (0 - d) = Width * 0 - Width * d /\ Width * 0 = 0
    BY <1>2, WidthIsPositive, Product
  <2>2. Width * d \in Int /\ 0 - d = -d
    BY <1>2, WidthIsPositive, Product
  <2> QED
    BY <1>2, <2>1, <2>2
<1>5. Wrap(n) = n + Width * (-d)
  BY <1>2, <1>3, <1>4, WidthIsPositive
<1> QED
  BY <1>4, <1>5

\* Arithmetic on wrapped numbers is that on the numbers, wrapped.
LEMMA WrapLate ==
  ASSUME NEW n \in Int, NEW c \in Int
  PROVE  Wrap(Wrap(n) * 10 + c) = Wrap(n * 10 + c) /\ Wrap(-Wrap(n)) = Wrap(-n)
<1>1. PICK q \in Int : Wrap(n) = n + Width * q
  BY WrapDiffers
<1>2. Width * q \in Int /\ Width * (q * 10) = (Width * q) * 10 /\ Width * (-q) = -(Width * q)
  BY WidthIsPositive
<1> DEFINE wq == Width * q
<1>3. Wrap(n) * 10 + c = (n * 10 + c) + Width * (q * 10)
  <2>1. wq \in Int /\ Width * (q * 10) = wq * 10 /\ Wrap(n) = n + wq
    BY <1>1, <1>2
  <2> HIDE DEF wq
  <2> QED
    BY <2>1
<1>4. -Wrap(n) = (-n) + Width * (-q)
  <2>1. wq \in Int /\ Width * (-q) = -wq /\ Wrap(n) = n + wq
    BY <1>1, <1>2
  <2> HIDE DEF wq
  <2> QED
    BY <2>1
<1>5. Wrap((n * 10 + c) + Width * (q * 10)) = Wrap(n * 10 + c)
  BY WrapCongruent
<1>6. Wrap((-n) + Width * (-q)) = Wrap(-n)
  BY WrapCongruent
<1> QED
  BY <1>3, <1>4, <1>5, <1>6

-----------------------------------------------------------------------------
(* The read calls: what was heard and what it comes to *)

AllIn(s, a, b, T) == \A i \in a .. b : s[i] \in T

LEMMA RangeOfPart ==
  ASSUME NEW S, NEW s \in Seq(S), NEW a \in Nat \ {0}, NEW b \in 0 .. Len(s), NEW T
  PROVE  Range(SubSeq(s, a, b)) \subseteq T <=> AllIn(s, a, b, T)
<1> DEFINE r == SubSeq(s, a, b)
           n == IF a <= b THEN b - a + 1 ELSE 0
<1>1. Len(s) \in Nat /\ \A i \in a .. b : s[i] \in S
  BY LenProperties, ElementOfSeq
<1>2. /\ r \in Seq(S) /\ Len(r) = n
      /\ \A i \in 1 .. b - a + 1 : r[i] = s[a + i - 1]
  BY <1>1, SubSeqProperties
<1>3. n \in Nat /\ \A i \in 1 .. n : i \in 1 .. b - a + 1 /\ a + i - 1 \in a .. b
  BY <1>1
<1>4. \A i \in a .. b : i - a + 1 \in 1 .. n /\ a + (i - a + 1) - 1 = i
  BY <1>1
<1> HIDE DEF r, n
<1>5. DOMAIN r = 1 .. n
  BY <1>2, LenProperties
<1>6. ASSUME \A i \in a .. b : s[i] \in T, NEW i \in 1 .. n PROVE r[i] \in T
  BY <1>2, <1>3, <1>6
<1>7. ASSUME \A i \in 1 .. n : r[i] \in T, NEW i \in a .. b PROVE s[i] \in T
  <2>1. i - a + 1 \in 1 .. n
    BY <1>4
  <2>2. r[i - a + 1] = s[a + (i - a + 1) - 1]
    BY <1>2, <1>3, <2>1
  <2> QED
    BY <1>4, <1>7, <2>1, <2>2
<1>8. Range(r) \subseteq T <=> \A i \in 1 .. n : r[i] \in T
  BY <1>5 DEF Range
<1> QED
  BY <1>6, <1>7, <1>8 DEF r, AllIn

Heard == Char \cup {EOF}

\* The first i characters of h are blanks, then there are minus signs up to the
\* j-th, then digits.
Shape(h, i, j) ==
  /\ \A m \in 1 .. i : h[m] \in Blank
  /\ \A m \in i + 1 .. j : h[m] = Minus
  /\ \A m \in j + 1 .. Len(h) : h[m] \in Digit

\* The m-th character of h can be in no word that is a numeral.
Breaks(h, m) ==
  \/ h[m] \notin Blank \cup {Minus} \cup Digit
  \/ h[m] = Minus /\ \E l \in 1 .. m - 1 : h[l] \in Digit

\* What SysReadNum's variables say of the characters it heard.
Tells(h, r) ==
  /\ r.result = Wrap(Decimal(h))
  /\ \A i \in 2 .. Len(h) : h[i] \in Blank => h[i - 1] \in Blank
  /\ r.legal =>
       \E i, j \in 0 .. Len(h) :
         i <= j /\ Shape(h, i, j) /\ (r.isNeg <=> i < j) /\ (r.hasNum <=> j < Len(h))
  /\ ~ r.legal => \E m \in 1 .. Len(h) : Breaks(h, m)

LEMMA KindsDiffer ==
  /\ Blank \cap Digit = {} /\ Minus \notin Blank /\ Minus \notin Digit
  /\ Heard \subseteq Int
BY DEF Blank, Digit, Minus, Newline, Heard, Char, EOF

LEMMA AppendOf ==
  ASSUME NEW S, NEW h \in Seq(S), NEW c \in S
  PROVE  /\ Len(h) \in Nat /\ Append(h, c) \in Seq(S) /\ Len(Append(h, c)) = Len(h) + 1
         /\ Append(h, c)[Len(h) + 1] = c
         /\ \A i \in 1 .. Len(h) : Append(h, c)[i] = h[i]
BY AppendProperties, LenProperties

\* It still tells when the loop goes on.
LEMMA HearTells ==
  ASSUME NEW h \in Seq(Heard), NEW c \in Heard, NEW r \in NumState, Tells(h, r),
         ~ NumEnds(Hear(r, c), c)
  PROVE  Tells(Append(h, c), Hear(r, c))
<1> DEFINE e == Append(h, c)
           n == Len(h)
           q == Hear(r, c)
<1>1. /\ n \in Nat /\ e \in Seq(Heard) /\ Len(e) = n + 1 /\ e[n + 1] = c
      /\ \A i \in 1 .. n : e[i] = h[i]
  BY AppendOf
<1>2. Decimal(h) \in Int /\ Decimal(e) = IF c \in Digit THEN Decimal(h) * 10 + (c - 48) ELSE Decimal(h)
  BY KindsDiffer, SeqMonotonic, DecimalAppend
<1>3. q.result = Wrap(Decimal(e))
  <2>1. CASE c \in Digit
    <3>1. q.result = Wrap(r.result * 10 + (c - 48))
      BY <2>1 DEF Hear, NumState
    <3>2. c - 48 \in Int
      BY KindsDiffer
    <3> QED
      BY <1>2, <2>1, <3>1, <3>2, WrapLate DEF Tells
  <2>2. CASE c \notin Digit
    <3>1. q.result = r.result
      BY <2>2 DEF Hear, NumState
    <3> QED
      BY <1>2, <2>2, <3>1 DEF Tells
  <2> QED
    BY <2>1, <2>2
<1> HIDE DEF e, n, q
<1>4. CASE ~ q.legal
  <2>1. \E m \in 1 .. n + 1 : Breaks(e, m)
    <3>1. CASE ~ r.legal
      <4>1. PICK m \in 1 .. n : Breaks(h, m)
        BY <3>1 DEF Tells, n
      <4>2. m \in 1 .. n + 1 /\ e[m] = h[m] /\ \A l \in 1 .. m - 1 : e[l] = h[l]
        BY <1>1
      <4> QED
        BY <4>1, <4>2 DEF Breaks
    <3>2. CASE r.legal
      <4>1. (c \notin Blank \cup {Minus} \cup Digit) \/ (c = Minus /\ r.hasNum)
        BY <1>4, <3>2 DEF q, Hear, NumState
      <4>2. CASE c \notin Blank \cup {Minus} \cup Digit
        BY <1>1, <4>2 DEF Breaks
      <4>3. CASE c = Minus /\ r.hasNum
        <5>1. PICK j \in 0 .. n : j < n /\ \A m \in j + 1 .. n : h[m] \in Digit
          BY <3>2, <4>3 DEF Tells, Shape, n
        <5>2. n \in 1 .. (n + 1) - 1 /\ n \in 1 .. n /\ n \in j + 1 .. n /\ n + 1 \in 1 .. n + 1
          BY <1>1, <5>1
        <5>3. e[n] \in Digit /\ e[n + 1] = Minus
          BY <1>1, <4>3, <5>1, <5>2
        <5> QED
          BY <5>2, <5>3 DEF Breaks
      <4> QED
        BY <4>1, <4>2, <4>3
    <3> QED
      BY <3>1, <3>2
  <2>2. ASSUME NEW i \in 2 .. n + 1, e[i] \in Blank PROVE e[i - 1] \in Blank
    <3>1. CASE i <= n
      <4>1. i \in 2 .. n /\ i \in 1 .. n /\ i - 1 \in 1 .. n
        BY <1>1, <3>1
      <4> QED
        BY <1>1, <2>2, <4>1 DEF Tells, n
    <3>2. CASE i = n + 1
      BY <1>1, <1>4, <2>2, <3>2 DEF NumEnds, q
    <3> QED
      BY <1>1, <3>1, <3>2
  <2>3. /\ \A i \in 2 .. Len(e) : e[i] \in Blank => e[i - 1] \in Blank
        /\ \E m \in 1 .. Len(e) : Breaks(e, m)
    BY <1>1, <2>1, <2>2
  <2> QED
    BY <1>3, <1>4, <2>3 DEF Tells, e, q
<1>5. CASE q.legal
  <2>1. r.legal /\ (c = Minus => ~ r.hasNum) /\ c \in Blank \cup {Minus} \cup Digit
    <3>1. CASE c \in Digit
      <4>1. q.legal = r.legal
        BY <3>1 DEF q, Hear, NumState
      <4> QED
        BY <1>5, <3>1, <4>1, KindsDiffer
    <3>2. CASE c = Minus
      <4>1. ~ r.hasNum
        BY <1>5, <3>2, KindsDiffer DEF q, Hear, NumState
      <4>2. q.legal = r.legal
        BY <3>2, <4>1, KindsDiffer DEF q, Hear, NumState
      <4> QED
        BY <1>5, <3>2, <4>1, <4>2
    <3>3. CASE c \in Blank
      <4>1. q = r
        BY <3>3, KindsDiffer DEF q, Hear
      <4> QED
        BY <1>5, <3>3, <4>1, KindsDiffer
    <3>4. CASE c \notin Blank \cup {Minus} \cup Digit
      BY <1>5, <3>4 DEF q, Hear, NumState
    <3> QED
      BY <3>1, <3>2, <3>3, <3>4
  <2>2. PICK i \in 0 .. n, j \in 0 .. n :
          i <= j /\ Shape(h, i, j) /\ (r.isNeg <=> i < j) /\ (r.hasNum <=> j < n)
    BY <2>1 DEF Tells, n
  <2>3. CASE c \in Blank
    <3>1. q = r /\ ~ r.hasNum /\ ~ r.isNeg
      BY <1>5, <2>3, KindsDiffer DEF q, Hear, NumEnds
    <3>2. i = n /\ j = n
      BY <1>1, <2>2, <3>1
    <3>3. \A m \in 1 .. n : h[m] \in Blank
      BY <2>2, <3>2 DEF Shape
    <3>4. \A m \in 1 .. n + 1 : e[m] \in Blank
      <4> SUFFICES ASSUME NEW m \in 1 .. n + 1 PROVE e[m] \in Blank
        OBVIOUS
      <4>1. m \in 1 .. n \/ m = n + 1
        BY <1>1
      <4> QED
        BY <1>1, <2>3, <3>3, <4>1
    <3>5. Shape(e, n + 1, n + 1)
      BY <1>1, <3>4 DEF Shape
    <3>6. \A m \in 2 .. n + 1 : e[m - 1] \in Blank
      BY <1>1, <3>4
    <3>7. n + 1 \in 0 .. Len(e) /\ n + 1 <= n + 1 /\ ~ (n + 1 < n + 1) /\ ~ (n + 1 < Len(e))
      BY <1>1
    <3>8. \A m \in 2 .. Len(e) : e[m - 1] \in Blank
      BY <1>1, <3>6
    <3>9. \E k, l \in 0 .. Len(e) :
            k <= l /\ Shape(e, k, l) /\ (q.isNeg <=> k < l) /\ (q.hasNum <=> l < Len(e))
      BY <3>1, <3>5, <3>7
    <3> QED
      BY <1>3, <1>5, <3>8, <3>9 DEF Tells, e, q
  <2>4. CASE c \notin Blank
    <3>1. \A m \in 2 .. Len(e) : e[m] \in Blank => e[m - 1] \in Blank
      <4> SUFFICES ASSUME NEW m \in 2 .. n + 1, e[m] \in Blank PROVE e[m - 1] \in Blank
        BY <1>1
      <4>1. m # n + 1
        BY <1>1, <2>4
      <4>2. m \in 2 .. n /\ m \in 1 .. n /\ m - 1 \in 1 .. n
        BY <1>1, <4>1
      <4> QED
        BY <1>1, <4>2 DEF Tells, n
    <3>2. \E k, l \in 0 .. n + 1 :
            k <= l /\ Shape(e, k, l) /\ (q.isNeg <=> k < l) /\ (q.hasNum <=> l < n + 1)
      <4>1. CASE c = Minus
        <5>1. j = n
          BY <1>1, <2>1, <2>2, <4>1
        <5>2. Shape(e, i, n + 1)
          <6>1. \A m \in 1 .. i : e[m] \in Blank
            BY <1>1, <2>2 DEF Shape
          <6>2. ASSUME NEW m \in i + 1 .. n + 1 PROVE e[m] = Minus
            <7>1. m = n + 1 \/ (m \in i + 1 .. n /\ m \in 1 .. n)
              BY <1>1, <2>2
            <7> QED
              BY <1>1, <2>2, <4>1, <5>1, <7>1 DEF Shape
          <6>3. (n + 1) + 1 .. n + 1 = {}
            BY <1>1
          <6> QED
            BY <1>1, <6>1, <6>2, <6>3 DEF Shape
        <5>3. q.isNeg /\ ~ q.hasNum
          BY <2>1, <4>1, KindsDiffer DEF q, Hear, NumState
        <5>4. i \in 0 .. n + 1 /\ n + 1 \in 0 .. n + 1 /\ i <= n + 1 /\ i < n + 1 /\ ~ (n + 1 < n + 1)
          BY <1>1, <2>2
        <5> QED
          BY <5>2, <5>3, <5>4
      <4>2. CASE c \in Digit
        <5>1. Shape(e, i, j)
          <6>1. \A m \in 1 .. i : e[m] \in Blank
            BY <1>1, <2>2 DEF Shape
          <6>2. ASSUME NEW m \in i + 1 .. j PROVE e[m] = Minus
            <7>1. m \in 1 .. n
              BY <1>1
            <7> QED
              BY <1>1, <2>2, <7>1 DEF Shape
          <6>3. ASSUME NEW m \in j + 1 .. n + 1 PROVE e[m] \in Digit
            <7>1. m = n + 1 \/ (m \in j + 1 .. n /\ m \in 1 .. n)
              BY <1>1
            <7> QED
              BY <1>1, <2>2, <4>2, <7>1 DEF Shape, n
          <6> QED
            BY <1>1, <6>1, <6>2, <6>3 DEF Shape
        <5>2. q.isNeg = r.isNeg /\ q.hasNum
          BY <2>1, <4>2 DEF q, Hear, NumState
        <5>3. i \in 0 .. n + 1 /\ j \in 0 .. n + 1 /\ j < n + 1
          BY <1>1
        <5> QED
          BY <2>2, <5>1, <5>2, <5>3
      <4> QED
        BY <2>1, <2>4, <4>1, <4>2
    <3> QED
      BY <1>1, <1>3, <1>5, <3>1, <3>2 DEF Tells, e, q
  <2> QED
    BY <2>3, <2>4
<1>6. q.legal \in BOOLEAN
  BY HearTypes DEF q, NumState, Heard
<1> QED
  BY <1>4, <1>5, <1>6

\* v is the answer to what ReadNum has heard, e.
Answers(e, v) ==
  /\ \A i \in 2 .. Len(e) - 1 : e[i] \in Blank => e[i - 1] \in Blank
  /\ v = IF ~Numeral(e) THEN 0 ELSE Wrap(IF Minus \in Range(e) THEN -Decimal(e) ELSE Decimal(e))

\* What it comes to when the loop ends.
LEMMA HearEnds ==
  ASSUME NEW h \in Seq(Heard), NEW c \in Heard, NEW r \in NumState, Tells(h, r),
         NumEnds(Hear(r, c), c), NEW e, e = Append(h, c)
  PROVE  Answers(e, NumValue(Hear(r, c)))
<1> DEFINE n == Len(h)
<1>1. /\ n \in Nat /\ e \in Seq(Heard) /\ Len(e) = n + 1 /\ e[n + 1] = c
      /\ \A i \in 1 .. n : e[i] = h[i]
  BY AppendOf
<1>2. c \in Blank /\ c \notin Digit /\ c # Minus
  BY KindsDiffer DEF NumEnds
<1>3. Hear(r, c) = r /\ (~ r.legal \/ r.hasNum \/ r.isNeg)
  BY <1>2 DEF Hear, NumEnds
<1>4. Decimal(h) \in Int /\ Decimal(e) = Decimal(h)
  BY <1>2, KindsDiffer, SeqMonotonic, DecimalAppend
<1>5. DOMAIN e = 1 .. n + 1 /\ Last(e) = c
  BY <1>1, LenProperties DEF Last
<1> HIDE DEF n
<1>6. ASSUME NEW i \in 2 .. Len(e) - 1, e[i] \in Blank PROVE e[i - 1] \in Blank
  <2>1. i \in 2 .. n /\ i \in 1 .. n /\ i - 1 \in 1 .. n
    BY <1>1
  <2> QED
    BY <1>1, <1>6, <2>1 DEF Tells, n
<1>7. CASE r.legal
  <2>1. PICK i \in 0 .. n, j \in 0 .. n :
          i <= j /\ Shape(h, i, j) /\ (r.isNeg <=> i < j) /\ (r.hasNum <=> j < n)
    BY <1>7 DEF Tells, n
  <2>2. i < n
    BY <1>1, <1>3, <1>7, <2>1
  <2>3. AllIn(e, 1, i, Blank) /\ AllIn(e, i + 1, j, {Minus}) /\ AllIn(e, j + 1, n, Digit)
    <3>1. \A m \in (1 .. i) \cup (i + 1 .. j) \cup (j + 1 .. n) : m \in 1 .. n
      BY <1>1
    <3>2. AllIn(e, 1, i, Blank)
      BY <1>1, <2>1, <3>1 DEF Shape, AllIn
    <3>3. AllIn(e, i + 1, j, {Minus})
      BY <1>1, <2>1, <3>1 DEF Shape, AllIn
    <3>4. AllIn(e, j + 1, n, Digit)
      BY <1>1, <2>1, <3>1 DEF Shape, AllIn, n
    <3> QED
      BY <3>2, <3>3, <3>4
  <2>4. Numeral(e)
    <3>1. /\ 1 \in Nat \ {0} /\ i + 1 \in Nat \ {0} /\ j + 1 \in Nat \ {0}
          /\ i \in 0 .. Len(e) /\ j \in 0 .. Len(e) /\ n \in 0 .. Len(e) /\ n = Len(e) - 1
      BY <1>1
    <3>2. Range(SubSeq(e, 1, i)) \subseteq Blank
      BY <1>1, <2>3, <3>1, RangeOfPart, Zenon
    <3>3. Range(SubSeq(e, i + 1, j)) \subseteq {Minus}
      BY <1>1, <2>3, <3>1, RangeOfPart, Zenon
    <3>4. Range(SubSeq(e, j + 1, n)) \subseteq Digit
      BY <1>1, <2>3, <3>1, RangeOfPart, Zenon
    <3>5. Range(SubSeq(e, 1, i)) \cup {Last(e)} \subseteq Blank
      BY <1>2, <1>5, <3>2
    <3> QED
      BY <1>1, <2>1, <2>2, <3>1, <3>3, <3>4, <3>5 DEF Numeral
  <2>5. Minus \in Range(e) <=> r.isNeg
    <3>1. Minus \in Range(e) <=> \E m \in 1 .. n + 1 : e[m] = Minus
      BY <1>5 DEF Range
    <3>2. ASSUME i < j PROVE i + 1 \in 1 .. n + 1 /\ e[i + 1] = Minus
      <4>1. i + 1 \in i + 1 .. j /\ i + 1 \in 1 .. n + 1
        BY <1>1, <2>1, <3>2
      <4> QED
        BY <2>3, <4>1 DEF AllIn
    <3>3. ASSUME NEW m \in 1 .. n + 1, e[m] = Minus PROVE i < j
      <4>1. m # n + 1
        BY <1>1, <1>2, <3>3
      <4>2. m \notin 1 .. i
        BY <2>3, <3>3, KindsDiffer DEF AllIn
      <4>3. m \notin j + 1 .. n
        BY <2>3, <3>3, KindsDiffer DEF AllIn
      <4> QED
        BY <1>1, <2>1, <4>1, <4>2, <4>3
    <3> QED
      BY <2>1, <3>1, <3>2, <3>3
  <2>6. NumValue(r) = IF r.isNeg THEN Wrap(-r.result) ELSE r.result
    BY <1>7 DEF NumValue
  <2>7. r.result = Wrap(Decimal(e))
    BY <1>4 DEF Tells
  <2>8. Wrap(-Wrap(Decimal(e))) = Wrap(-Decimal(e))
    <3>1. 0 \in Int
      OBVIOUS
    <3> QED
      BY <1>4, <3>1, WrapLate
  <2>9. NumValue(r) = Wrap(IF Minus \in Range(e) THEN -Decimal(e) ELSE Decimal(e))
    BY <2>5, <2>6, <2>7, <2>8
  <2>10. NumValue(Hear(r, c)) = Wrap(IF Minus \in Range(e) THEN -Decimal(e) ELSE Decimal(e))
    BY <1>3, <2>9, Zenon
  <2> QED
    BY <1>6, <2>4, <2>10, Zenon DEF Answers
<1>8. CASE ~ r.legal
  <2>1. NumValue(r) = 0
    BY <1>8 DEF NumValue
  <2>2. PICK m \in 1 .. n : Breaks(h, m)
    BY <1>8 DEF Tells, n
  <2>3. ~ Numeral(e)
    <3> SUFFICES ASSUME Numeral(e) PROVE FALSE
      OBVIOUS
    <3>1. PICK i \in 0 .. n + 1, j \in 0 .. n + 1, k \in 0 .. n + 1 :
            /\ i <= j /\ j <= k /\ k = n /\ i < k
            /\ Range(SubSeq(e, 1, i)) \cup {Last(e)} \subseteq Blank
            /\ Range(SubSeq(e, i + 1, j)) \subseteq {Minus}
            /\ Range(SubSeq(e, j + 1, k)) \subseteq Digit
      <4>1. 0 .. n + 1 = 0 .. Len(e) /\ Len(e) - 1 = n
        BY <1>1
      <4> QED
        <5> PICK i \in 0 .. Len(e), j \in 0 .. Len(e), k \in 0 .. Len(e) :
                   /\ i <= j /\ j <= k /\ k = Len(e) - 1 /\ i < k
                   /\ Range(SubSeq(e, 1, i)) \cup {Last(e)} \subseteq Blank
                   /\ Range(SubSeq(e, i + 1, j)) \subseteq {Minus}
                   /\ Range(SubSeq(e, j + 1, k)) \subseteq Digit
          BY Zenon DEF Numeral
        <5> WITNESS i \in 0 .. n + 1, j \in 0 .. n + 1, k \in 0 .. n + 1
        <5> QED
          BY <4>1
    <3>2. /\ 1 \in Nat \ {0} /\ i + 1 \in Nat \ {0} /\ j + 1 \in Nat \ {0}
          /\ i \in 0 .. Len(e) /\ j \in 0 .. Len(e) /\ k \in 0 .. Len(e)
      BY <1>1
    <3>3. \A l \in 1 .. i : e[l] \in Blank
      <4>1. Range(SubSeq(e, 1, i)) \subseteq Blank
        BY <3>1
      <4>2. AllIn(e, 1, i, Blank)
        BY <1>1, <3>2, <4>1, RangeOfPart, Zenon
      <4> QED
        BY <4>2 DEF AllIn
    <3>4. \A l \in i + 1 .. j : e[l] \in {Minus}
      <4>1. Range(SubSeq(e, i + 1, j)) \subseteq {Minus}
        BY <3>1
      <4>2. AllIn(e, i + 1, j, {Minus})
        BY <1>1, <3>2, <4>1, RangeOfPart, Zenon
      <4> QED
        BY <4>2 DEF AllIn
    <3>5. \A l \in j + 1 .. k : e[l] \in Digit
      <4>1. Range(SubSeq(e, j + 1, k)) \subseteq Digit
        BY <3>1
      <4>2. AllIn(e, j + 1, k, Digit)
        BY <1>1, <3>2, <4>1, RangeOfPart, Zenon
      <4> QED
        BY <4>2 DEF AllIn
    <3>6. \A l \in 1 .. n : l \in 1 .. i \/ l \in i + 1 .. j \/ l \in j + 1 .. k
      BY <1>1, <3>1
    <3>7. e[m] = h[m] /\ \A l \in 1 .. m - 1 : e[l] = h[l] /\ l \in 1 .. n
      BY <1>1
    <3>8. e[m] \in Blank \cup {Minus} \cup Digit
      BY <3>3, <3>4, <3>5, <3>6
    <3>9. PICK l \in 1 .. m - 1 : e[m] = Minus /\ e[l] \in Digit
      BY <2>2, <3>7, <3>8 DEF Breaks
    <3>10. m \in i + 1 .. j
      BY <3>3, <3>5, <3>6, <3>9, KindsDiffer
    <3>11. l \in j + 1 .. k
      BY <3>3, <3>4, <3>6, <3>7, <3>9, KindsDiffer
    <3> QED
      BY <3>1, <3>10, <3>11
  <2>4. NumValue(Hear(r, c)) = 0
    BY <1>3, <2>1, Zenon
  <2> QED
    BY <1>6, <2>3, <2>4, Zenon DEF Answers
<1>9. r.legal \in BOOLEAN
  BY DEF NumState
<1> QED
  BY <1>7, <1>8, <1>9, Zenon DEF Answers

\* A character is in what was heard once it is appended, and so is what was there.
LEMMA RangeOfAppend ==
  ASSUME NEW h \in Seq(Heard), NEW c \in Heard
  PROVE  Range(Append(h, c)) = Range(h) \cup {c}
<1> DEFINE e == Append(h, c)
           n == Len(h)
<1>1. n \in Nat /\ Len(e) = n + 1 /\ e[n + 1] = c /\ \A i \in 1 .. n : e[i] = h[i]
  BY AppendOf
<1>2. DOMAIN e = 1 .. n + 1 /\ DOMAIN h = 1 .. n
  BY <1>1, AppendOf, LenProperties
<1> HIDE DEF e, n
<1>3. \A i \in 1 .. n + 1 : i \in 1 .. n \/ i = n + 1
  BY <1>1
<1>4. \A i \in 1 .. n : i \in 1 .. n + 1
  BY <1>1
<1>5. n + 1 \in 1 .. n + 1
  BY <1>1
<1>6. \A x : x \in Range(e) <=> \E i \in 1 .. n + 1 : e[i] = x
  BY <1>2 DEF Range
<1>7. \A x : x \in Range(h) <=> \E i \in 1 .. n : h[i] = x
  BY <1>2 DEF Range
<1> QED
  BY <1>1, <1>3, <1>4, <1>5, <1>6, <1>7 DEF e

\* A line with its last character taken off, and one that holds no NUL.
LEMMA FrontOfAppend ==
  ASSUME NEW h \in Seq(Heard), NEW c \in Heard
  PROVE  Front(Append(h, c)) = h /\ Last(Append(h, c)) = c
<1> DEFINE e == Append(h, c)
           f == SubSeq(e, 1, Len(h))
<1>1. Len(h) \in Nat /\ e \in Seq(Heard) /\ Len(e) = Len(h) + 1 /\ e[Len(h) + 1] = c
      /\ \A i \in 1 .. Len(h) : e[i] = h[i]
  BY AppendOf
<1>2. \A i \in 1 .. Len(h) : e[i] \in Heard
  BY <1>1, ElementOfSeq
<1>3. f \in Seq(Heard) /\ Len(f) = Len(h) /\ \A i \in 1 .. Len(h) : f[i] = e[i]
  BY <1>1, <1>2, SubSeqProperties
<1>4. f = h
  BY <1>1, <1>3, SeqEqual
<1>5. Front(e) = f
  BY <1>1 DEF Front
<1> QED
  BY <1>1, <1>4, <1>5 DEF Last

LEMMA NoNul ==
  ASSUME NEW h \in Seq(Heard), 0 \notin Range(h)
  PROVE  UpToNul(h) = h
<1>1. \A i \in 1 .. Len(h) : h[i] # 0
  BY LenProperties DEF Range
<1>2. {i \in 1 .. Len(h) : h[i] = 0} = {}
  BY <1>1
<1> QED
  BY <1>2 DEF UpToNul, SelectInSeq

\* What ReadString stores when its loop ends.
LEMMA LineEnds ==
  ASSUME NEW h \in Seq(Heard), NEW c \in Heard, NEW n \in Nat, Newline \notin Range(h), Len(h) < n,
         NEW e, e = Append(h, c)
  PROVE  /\ Len(e) <= n
         /\ Newline \notin Range(Front(e))
         /\ 0 \notin Range(e) => Stored(e) = IF Last(e) = Newline THEN Front(e) ELSE <<>>
<1>1. Len(h) \in Nat /\ Len(e) = Len(h) + 1
  BY AppendOf
<1>2. Front(e) = h /\ Last(e) = c /\ Range(e) = Range(h) \cup {c}
  BY FrontOfAppend, RangeOfAppend
<1>3. 0 \notin Range(e) => Stored(e) = IF c = Newline THEN h ELSE <<>>
  BY <1>2, NoNul DEF Stored
<1> QED
  BY <1>1, <1>2, <1>3

-----------------------------------------------------------------------------
(* The read calls: the invariant *)

Reading(t) ==
  /\ call[t] = "readNum" => Tells(heard[t], num[t])
  /\ call[t] = "readString" =>
       arg[t] \in Lengths /\ Newline \notin Range(heard[t]) /\ Len(heard[t]) < arg[t]

ReadInv == DOMAIN arg = Thread /\ DOMAIN line = Thread /\ \A t \in Thread : Reading(t)

LEMMA ReadInit == Init => ReadInv
BY DEF Init, ReadInv, Reading

\* Nothing was heard yet.
LEMMA NothingHeard ==
  /\ <<>> \in Seq(Heard) /\ Range(<<>>) = {} /\ Len(<<>>) = 0
  /\ Tells(<<>>, Fresh)
<1>1. <<>> \in Seq(Heard) /\ Len(<<>>) = 0 /\ DOMAIN <<>> = {}
  OBVIOUS
<1>2. Range(<<>>) = {}
  BY <1>1 DEF Range
<1>3. Wrap(0) = 0
  <2>1. 0 \in MinInt .. MaxInt
    BY CallsAssumption DEF MinInt
  <2> QED
    BY <2>1, WrapKeeps
<1>4. Fresh.result = Wrap(Decimal(<<>>)) /\ Fresh.legal /\ ~ Fresh.isNeg /\ ~ Fresh.hasNum
  BY <1>3, DecimalEmpty DEF Fresh
<1>5. 0 \in 0 .. Len(<<>>) /\ Shape(<<>>, 0, 0) /\ 2 .. Len(<<>>) = {}
  BY <1>1 DEF Shape
<1>6. \E i, j \in 0 .. Len(<<>>) :
        i <= j /\ Shape(<<>>, i, j) /\ (Fresh.isNeg <=> i < j) /\ (Fresh.hasNum <=> j < Len(<<>>))
  BY <1>1, <1>4, <1>5
<1> QED
  BY <1>1, <1>2, <1>4, <1>5, <1>6 DEF Tells

LEMMA ReadingBegins ==
  ASSUME CInv, CallsTypeOK, ReadInv, NEW t \in Thread, NEW name \in ReadCall, NEW a,
         name = "readString" => a \in Lengths, BeginRead(t, name, a)
  PROVE  Reading(t)'
<1>1. call'[t] = name /\ arg'[t] = a /\ heard'[t] = <<>> /\ num'[t] = Fresh
  BY DEF BeginRead, Begin, CallsTypeOK, ReadInv
<1>2. name = "readString" => 0 < a
  <2> SUFFICES ASSUME name = "readString" PROVE 0 < a
    OBVIOUS
  <2>1. a \in Lengths
    OBVIOUS
  <2>2. a \in Nat \ {0}
    BY <2>1, CallsAssumption
  <2> QED
    BY <2>2
<1>3. Tells(heard'[t], num'[t]) /\ Newline \notin Range(heard'[t]) /\ Len(heard'[t]) = 0
  BY <1>1, NothingHeard
<1> QED
  BY <1>1, <1>2, <1>3, Zenon DEF Reading

LEMMA ReadingGoesOn ==
  ASSUME CInv, CallsTypeOK, ReadInv, NEW t \in Thread, HeardNum(t) \/ HeardString(t)
  PROVE  Reading(t)'
<1>0. /\ heard[t] \in Seq(Heard) /\ ch[t] \in Heard /\ num[t] \in NumState /\ Reading(t)
      /\ DOMAIN call = Thread /\ DOMAIN heard = Thread /\ DOMAIN num = Thread
  BY DEF CallsTypeOK, ReadInv, Heard
<1>1. CASE call'[t] = "none"
  BY <1>1 DEF Reading
<1>2. CASE HeardNum(t) /\ call'[t] # "none"
  <2>1. /\ heard'[t] = Append(heard[t], ch[t]) /\ num'[t] = Hear(num[t], ch[t])
        /\ call[t] = "readNum" /\ call' = call
        /\ ~ NumEnds(Hear(num[t], ch[t]), ch[t])
    BY <1>0, <1>2 DEF HeardNum, Return
  <2>2. Tells(heard[t], num[t])
    BY <1>0, <2>1 DEF Reading
  <2>3. Tells(heard'[t], num'[t])
    BY <1>0, <2>1, <2>2, HearTells
  <2> QED
    BY <2>1, <2>3 DEF Reading
<1>3. CASE HeardString(t) /\ call'[t] # "none"
  <2>1. /\ heard'[t] = Append(heard[t], ch[t]) /\ arg' = arg
        /\ call[t] = "readString" /\ call' = call
        /\ ch[t] # Newline /\ Len(Append(heard[t], ch[t])) # arg[t]
    BY <1>0, <1>3 DEF HeardString, Return
  <2>2. arg[t] \in Lengths /\ Newline \notin Range(heard[t]) /\ Len(heard[t]) < arg[t]
    BY <1>0, <2>1 DEF Reading
  <2>3. Len(heard[t]) \in Nat /\ Len(Append(heard[t], ch[t])) = Len(heard[t]) + 1 /\ arg[t] \in Nat
    <3>1. arg[t] \in Nat
      BY <2>2, CallsAssumption
    <3> QED
      BY <1>0, <3>1, AppendOf
  <2>4. Newline \notin Range(heard'[t])
    BY <1>0, <2>1, <2>2, RangeOfAppend
  <2>5. Len(heard'[t]) < arg[t]
    BY <2>1, <2>2, <2>3
  <2> QED
    BY <2>1, <2>2, <2>4, <2>5 DEF Reading
<1> QED
  BY <1>1, <1>2, <1>3

\* A call of u is none of t's.
LEMMA OthersRead ==
  ASSUME CallsTypeOK, ReadInv, NEW u \in Thread, NEW t \in Thread, t # u,
         \/ SystemCall(u)
         \/ HeardNum(u) \/ HeardChar(u) \/ HeardString(u) \/ PrintNext(u) \/ PrintReturn(u)
  PROVE  Reading(t)'
<1>0. /\ DOMAIN call = Thread /\ DOMAIN arg = Thread /\ DOMAIN heard = Thread /\ DOMAIN num = Thread
      /\ Reading(t)
  BY DEF CallsTypeOK, ReadInv
<1>1. /\ \/ \E name, a : Begin(u, name, a)
         \/ call' = [call EXCEPT ![u] = "none"] /\ arg' = arg
         \/ UNCHANGED <<call, arg>>
      /\ heard' = heard \/ \E h : heard' = [heard EXCEPT ![u] = h]
      /\ num' = num \/ \E r : num' = [num EXCEPT ![u] = r]
  <2>1. CASE SystemCall(u)
    BY <2>1 DEF SystemCall, SysReadNum, SysReadChar, SysReadString, SysPrintNum, SysPrintChar,
                SysPrintString, BeginRead, BeginPrint
  <2>2. CASE HeardNum(u) \/ HeardChar(u) \/ HeardString(u) \/ PrintReturn(u)
    BY <2>2 DEF HeardNum, HeardChar, HeardString, PrintReturn, Return
  <2>3. CASE PrintNext(u)
    BY <2>3 DEF PrintNext
  <2> QED
    BY <2>1, <2>2, <2>3
<1>2. call'[t] = call[t] /\ arg'[t] = arg[t]
  BY <1>0, <1>1 DEF Begin
<1>3. heard'[t] = heard[t] /\ num'[t] = num[t]
  BY <1>0, <1>1
<1> QED
  BY <1>0, <1>2, <1>3 DEF Reading

LEMMA ReadStep == CInv /\ CallsTypeOK /\ ReadInv /\ [Next]_vars => ReadInv'
<1> SUFFICES ASSUME CInv, CallsTypeOK, ReadInv, [Next]_vars PROVE ReadInv'
  OBVIOUS
<1>1. CASE Interrupt \/ UNCHANGED vars \/ UNCHANGED callVars
  <2>1. UNCHANGED callVars
    BY <1>1 DEF Interrupt, vars
  <2> QED
    BY <2>1 DEF ReadInv, Reading, callVars
<1>2. ASSUME NEW u \in Thread,
             \/ SystemCall(u)
             \/ HeardNum(u) \/ HeardChar(u) \/ HeardString(u) \/ PrintNext(u) \/ PrintReturn(u)
      PROVE  ReadInv'
  <2>1. DOMAIN arg' = Thread
    <3>1. (\E name, a : Begin(u, name, a)) \/ arg' = arg
      BY <1>2 DEF SystemCall, SysReadNum, SysReadChar, SysReadString, SysPrintNum, SysPrintChar,
                  SysPrintString, BeginRead, BeginPrint, HeardNum, HeardChar, HeardString,
                  PrintNext, PrintReturn
    <3> QED
      BY <3>1 DEF ReadInv, Begin
  <2>2. DOMAIN line' = Thread
    <3>1. line' = line \/ \E l : line' = [line EXCEPT ![u] = l]
      BY <1>2 DEF SystemCall, SysReadNum, SysReadChar, SysReadString, SysPrintNum, SysPrintChar,
                  SysPrintString, BeginRead, BeginPrint, HeardNum, HeardChar, HeardString,
                  PrintNext, PrintReturn
    <3> QED
      BY <3>1 DEF ReadInv
  <2>3. Reading(u)'
    <3>1. CASE SysReadNum(u) \/ SysReadChar(u) \/ SysReadString(u)
      BY <3>1, ReadingBegins DEF SysReadNum, SysReadChar, SysReadString, ReadCall
    <3>2. CASE SysPrintNum(u) \/ SysPrintChar(u) \/ SysPrintString(u)
      <4>1. \E name \in PrintCall : \E a : Begin(u, name, a)
        BY <3>2 DEF SysPrintNum, SysPrintChar, SysPrintString, BeginPrint, PrintCall
      <4>2. call'[u] \in PrintCall
        BY <4>1 DEF Begin, CallsTypeOK
      <4> QED
        BY <4>2 DEF Reading, PrintCall
    <3>3. CASE HeardChar(u) \/ PrintReturn(u)
      <4>1. call'[u] = "none"
        BY <3>3 DEF HeardChar, PrintReturn, Return, CallsTypeOK
      <4> QED
        BY <4>1 DEF Reading
    <3>4. CASE PrintNext(u)
      <4>1. call'[u] \in PrintCall
        BY <3>4 DEF PrintNext
      <4> QED
        BY <4>1 DEF Reading, PrintCall
    <3> QED
      BY <1>2, <3>1, <3>2, <3>3, <3>4, ReadingGoesOn DEF SystemCall
  <2>4. \A t \in Thread \ {u} : Reading(t)'
    BY <1>2, OthersRead
  <2> QED
    BY <2>1, <2>2, <2>3, <2>4 DEF ReadInv
<1> QED
  BY <1>1, <1>2 DEF Next, Kernel

\* Only the loop of a read call makes it return.
LEMMA ReadReturns ==
  ASSUME CallsTypeOK, [Next]_vars, NEW t \in Thread, call[t] \in ReadCall, call'[t] = "none"
  PROVE  HeardNum(t) \/ HeardChar(t) \/ HeardString(t)
<1>0. call \in [Thread -> ReadCall \cup PrintCall \cup {"none"}]
  BY DEF CallsTypeOK
<1>1. call'[t] # call[t]
  BY DEF ReadCall
<1>2. ASSUME NEW u \in Thread, SystemCall(u) PROVE FALSE
  <2>1. \E name \in ReadCall \cup PrintCall : \E a : Begin(u, name, a)
    BY <1>2 DEF SystemCall, SysReadNum, SysReadChar, SysReadString, SysPrintNum, SysPrintChar,
                SysPrintString, BeginRead, BeginPrint, ReadCall, PrintCall
  <2> QED
    BY <1>0, <1>1, <2>1 DEF Begin, ReadCall, PrintCall
<1>3. ASSUME NEW u \in Thread, PrintReturn(u) PROVE FALSE
  <2>1. call[u] \in PrintCall /\ call' = [call EXCEPT ![u] = "none"]
    BY <1>3 DEF PrintReturn, Return
  <2> QED
    BY <1>0, <1>1, <2>1 DEF ReadCall, PrintCall
<1>4. ASSUME NEW u \in Thread, HeardNum(u) \/ HeardChar(u) \/ HeardString(u) PROVE u = t
  <2>1. call' = call \/ call' = [call EXCEPT ![u] = "none"]
    BY <1>4 DEF HeardNum, HeardChar, HeardString, Return
  <2> QED
    BY <1>0, <1>1, <2>1
<1>5. ASSUME NEW u \in Thread, PrintNext(u) PROVE FALSE
  BY <1>1, <1>5 DEF PrintNext
<1>6. ASSUME Interrupt \/ UNCHANGED vars \/ UNCHANGED callVars PROVE FALSE
  BY <1>1, <1>6 DEF Interrupt, vars, callVars
<1> QED
  BY <1>2, <1>3, <1>4, <1>5, <1>6 DEF Next, Kernel

(***************************************************************************)
(* What the two calls that read a line return, whichever characters other  *)
(* threads took: ReadNum the number it was given, to the width of an int,  *)
(* and 0 for anything that is not one number; ReadString the line, or      *)
(* nothing when it did not fit (ksyscall.h:170-200, :269-305).             *)
(***************************************************************************)
THEOREM InputReadCorrect == Spec => InputRead
<1>1. CInv /\ CallsTypeOK /\ ReadInv /\ [Next]_vars => [NumberRead /\ LineRead]_vars
  <2> SUFFICES ASSUME CInv, CallsTypeOK, ReadInv, [Next]_vars PROVE NumberRead /\ LineRead
    OBVIOUS
  <2>0. \A t \in Thread : /\ heard[t] \in Seq(Heard) /\ ch[t] \in Heard /\ num[t] \in NumState
                          /\ Reading(t) /\ DOMAIN call = Thread /\ DOMAIN heard = Thread
    BY DEF CallsTypeOK, ReadInv, Heard
  <2>1. NumberRead
    <3> SUFFICES ASSUME NEW t \in Thread, call[t] = "readNum", call'[t] = "none",
                        NEW e, e = heard'[t]
                 PROVE  Answers(e, value'[t])
      BY Zenon DEF NumberRead, Answers
    <3>1. HeardNum(t)
      BY ReadReturns DEF ReadCall, HeardChar, HeardString
    <3>2. /\ e = Append(heard[t], ch[t])
          /\ NumEnds(Hear(num[t], ch[t]), ch[t])
          /\ value' = [value EXCEPT ![t] = NumValue(Hear(num[t], ch[t]))]
      BY <2>0, <3>1 DEF HeardNum
    <3>3. Tells(heard[t], num[t])
      BY <2>0 DEF Reading
    <3>4. value'[t] = NumValue(Hear(num[t], ch[t]))
      BY <3>2 DEF CallsTypeOK
    <3> QED
      <4>1. heard[t] \in Seq(Heard) /\ ch[t] \in Heard /\ num[t] \in NumState
        BY <2>0
      <4>2. Answers(e, NumValue(Hear(num[t], ch[t])))
        BY <3>2, <3>3, <4>1, HearEnds, Zenon
      <4> QED
        BY <3>4, <4>2, Zenon
  <2>2. LineRead
    <3> SUFFICES ASSUME NEW t \in Thread, call[t] = "readString", call'[t] = "none",
                        NEW e, e = heard'[t]
                 PROVE  /\ Len(e) <= arg[t]
                        /\ Newline \notin Range(Front(e))
                        /\ 0 \notin Range(e) => line'[t] = IF Last(e) = Newline THEN Front(e) ELSE <<>>
      BY Zenon DEF LineRead
    <3>1. HeardString(t)
      BY ReadReturns DEF ReadCall, HeardChar, HeardNum
    <3>2. /\ e = Append(heard[t], ch[t])
          /\ line' = [line EXCEPT ![t] = Stored(Append(heard[t], ch[t]))]
      BY <2>0, <3>1 DEF HeardString
    <3>3. arg[t] \in Nat /\ Newline \notin Range(heard[t]) /\ Len(heard[t]) < arg[t]
      BY <2>0, CallsAssumption DEF Reading
    <3>4. line'[t] = Stored(e)
      BY <3>2 DEF ReadInv
    <3> QED
      BY <2>0, <3>2, <3>3, <3>4, LineEnds, Zenon
  <2> QED
    BY <2>1, <2>2
<1> QED
  BY <1>1, CInvInit, CInvStep, CallsTypeInit, CallsTypeStep, ReadInit, ReadStep, PTL DEF Spec, InputRead

-----------------------------------------------------------------------------
(* What the copies and the host's files do with bytes *)

LEMMA FunctionIsSeq ==
  ASSUME NEW S, NEW n \in Nat, NEW v \in [1 .. n -> S]
  PROVE  v \in Seq(S) /\ Len(v) = n
OBVIOUS

\* What the kernel gets of a buffer that is written.
LEMMA CopyIn ==
  ASSUME NEW data \in Seq(Byte)
  PROVE  User2System(data) \in Seq(Byte) /\ Len(User2System(data)) = Len(data)
<1> DEFINE copy == User2System(data)
<1>1. \A i \in 1 .. Len(data) : data[i] \in Byte /\ 0 \in Byte
  BY DEF Byte
<1>2. copy \in [1 .. Len(data) -> Byte]
  BY <1>1 DEF User2System
<1> QED
  BY <1>2

LEMMA OverlayWrites ==
  ASSUME NEW s \in Seq(Byte), NEW data \in Seq(Byte), NEW k \in Nat
  PROVE  Overlay(s, k, data) \in Seq(Byte) /\ Len(Overlay(s, k, data)) >= Len(s)
<1>1. CASE data = <<>>
  BY <1>1 DEF Overlay
<1>2. CASE data # <<>>
  <2> DEFINE n == IF k + Len(data) > Len(s) THEN k + Len(data) ELSE Len(s)
             v == [i \in 1 .. n |-> IF i \in k + 1 .. k + Len(data) THEN data[i - k]
                                    ELSE IF i <= Len(s) THEN s[i] ELSE 0]
  <2>1. Overlay(s, k, data) = v /\ n \in Nat /\ n >= Len(s)
    BY <1>2 DEF Overlay
  <2>2. \A i \in 1 .. n : v[i] \in Byte
    <3> SUFFICES ASSUME NEW i \in 1 .. n PROVE v[i] \in Byte
      OBVIOUS
    <3>1. CASE i \in k + 1 .. k + Len(data)
      BY <3>1
    <3>2. CASE i \notin k + 1 .. k + Len(data) /\ i <= Len(s)
      BY <2>1, <3>2
    <3>3. CASE i \notin k + 1 .. k + Len(data) /\ ~ (i <= Len(s))
      BY <3>3 DEF Byte
    <3> QED
      BY <3>1, <3>2, <3>3
  <2>3. v \in [1 .. n -> Byte]
    BY <2>2
  <2> HIDE DEF n, v
  <2>4. v \in Seq(Byte) /\ Len(v) = n
    BY <2>1, <2>3, FunctionIsSeq
  <2> QED
    BY <2>1, <2>4
<1> QED
  BY <1>1, <1>2

\* At the file's length a Write appends.
LEMMA OverlayAppends ==
  ASSUME NEW s \in Seq(Byte), NEW data \in Seq(Byte)
  PROVE  Overlay(s, Len(s), data) = s \o data
<1>1. CASE data = <<>>
  BY <1>1 DEF Overlay
<1>2. CASE data # <<>>
  <2>1. Len(data) > 0 /\ Len(data) \in Nat /\ Len(s) \in Nat
    BY <1>2, EmptySeq
  <2>2. Overlay(s, Len(s), data) = [i \in 1 .. Len(s) + Len(data) |->
                                      IF i \in Len(s) + 1 .. Len(s) + Len(data) THEN data[i - Len(s)]
                                      ELSE IF i <= Len(s) THEN s[i] ELSE 0]
    BY <1>2, <2>1 DEF Overlay
  <2> DEFINE v == Overlay(s, Len(s), data)
  <2>3. \A i \in 1 .. Len(s) + Len(data) : v[i] = IF i <= Len(s) THEN s[i] ELSE data[i - Len(s)]
    BY <2>1, <2>2
  <2>4. v \in Seq(Byte)
    BY OverlayWrites, LenProperties
  <2>5. Len(v) = Len(s) + Len(data)
    <3>1. DOMAIN v = 1 .. Len(s) + Len(data)
      BY <2>2
    <3>2. DOMAIN v = 1 .. Len(v) /\ Len(v) \in Nat
      BY <2>4, LenProperties
    <3> HIDE DEF v
    <3> QED
      BY <2>1, <3>1, <3>2
  <2> HIDE DEF v
  <2>6. /\ s \o data \in Seq(Byte) /\ Len(s \o data) = Len(s) + Len(data)
        /\ \A i \in 1 .. Len(s) + Len(data) : (s \o data)[i] = IF i <= Len(s) THEN s[i] ELSE data[i - Len(s)]
    BY ConcatProperties
  <2>7. v = s \o data
    BY <2>3, <2>4, <2>5, <2>6, SeqEqual
  <2> QED
    BY <2>7 DEF v
<1> QED
  BY <1>1, <1>2

\* The bytes of a Read, as the program finds them in its buffer.
Given(s, k, n) ==
  LET got   == Portion(s, k, n)
      answer == ReadCount(got, n)
  IN System2User([i \in 1 .. answer |-> IF i <= Len(got) THEN got[i] ELSE 0])

LEMMA ReadGives ==
  ASSUME NEW s \in Seq(Byte), NEW k \in Nat, NEW n \in Nat \ {0}
  PROVE  /\ Given(s, k, n) \in Seq(Byte \cup {Kept}) /\ Len(Given(s, k, n)) = Len(Portion(s, k, n))
         /\ Portion(s, k, n) \in Seq(Byte)
         /\ \A i \in 1 .. Len(Given(s, k, n)) : k + i <= Len(s) /\ Given(s, k, n)[i] \in {s[k + i], Kept}
<1> DEFINE got   == Portion(s, k, n)
           m     == Lesser(k + n, Len(s))
           answer == ReadCount(got, n)
           raw   == [i \in 1 .. answer |-> IF i <= Len(got) THEN got[i] ELSE 0]
<1>1. m \in Nat /\ m <= Len(s)
  BY DEF Lesser
<1>2. got = SubSeq(s, k + 1, m)
  BY DEF Portion
<1>3. /\ got \in Seq(Byte)
      /\ Len(got) = IF k + 1 <= m THEN m - k ELSE 0
      /\ \A i \in 1 .. Len(got) : got[i] = s[k + i] /\ k + i <= Len(s) /\ got[i] \in Byte
  <2>1. CASE k + 1 <= m
    <3>1. \A i \in k + 1 .. m : s[i] \in Byte
      BY <1>1
    <3>2. got = [i \in 1 .. m - k |-> s[i + (k + 1) - 1]]
      BY <1>1, <1>2, <2>1
    <3>3. \A i \in 1 .. m - k : got[i] = s[k + i] /\ k + i \in k + 1 .. m
      BY <1>1, <3>2
    <3>4. got \in [1 .. m - k -> Byte]
      BY <3>1, <3>2, <3>3
    <3>5. m - k \in Nat
      BY <1>1, <2>1
    <3>6. got \in Seq(Byte) /\ Len(got) = m - k
      BY <3>4, <3>5
    <3> QED
      BY <1>1, <2>1, <3>1, <3>3, <3>6
  <2>2. CASE ~ (k + 1 <= m)
    <3>1. got = <<>>
      BY <1>1, <1>2, <2>2
    <3> QED
      BY <2>2, <3>1
  <2> QED
    BY <2>1, <2>2
<1> HIDE DEF got, m
<1>4. Len(raw) = Len(got) /\ raw \in Seq(Byte) /\ \A i \in 1 .. Len(got) : raw[i] = got[i]
  <2>1. CASE got = <<>>
    <3>1. answer = -2
      BY <2>1 DEF ReadCount
    <3>2. raw = <<>>
      BY <3>1
    <3> HIDE DEF raw
    <3> QED
      BY <2>1, <3>2
  <2>2. CASE got # <<>>
    <3>1. answer = Len(got) /\ Len(got) \in Nat
      BY <1>3, <2>2 DEF ReadCount
    <3>2. raw = [i \in 1 .. Len(got) |-> got[i]]
      BY <3>1
    <3>3. \A i \in 1 .. Len(got) : raw[i] = got[i]
      BY <3>2
    <3> HIDE DEF raw
    <3>4. raw \in [1 .. Len(got) -> Byte]
      BY <1>3, <3>2
    <3> QED
      BY <3>1, <3>3, <3>4, FunctionIsSeq
  <2> QED
    BY <2>1, <2>2
<1>5. Given(s, k, n) = System2User(raw)
  BY DEF Given, got
<1> HIDE DEF raw
<1> DEFINE to == System2User(raw)
<1>6. \A i \in 1 .. Len(raw) : to[i] \in {raw[i], Kept} /\ to[i] \in Byte \cup {Kept}
  BY <1>4 DEF System2User
<1>7. to \in [1 .. Len(raw) -> Byte \cup {Kept}]
  BY <1>6 DEF System2User
<1>8. to \in Seq(Byte \cup {Kept}) /\ Len(to) = Len(raw)
  BY <1>4, <1>7
<1> QED
  BY <1>3, <1>4, <1>5, <1>6, <1>8 DEF got

-----------------------------------------------------------------------------
(* The files of all processes *)

\* What holds of an open file whose host file has the bytes s.
Tracks(h, s) ==
  h.follows => /\ Len(h.seen) = h.currentOffset
               /\ \A k \in 1 .. Len(h.seen) : k <= Len(s) /\ h.seen[k] \in {s[k], Kept}
Sound(h, s) == h \in OpenFile /\ h.offset = h.currentOffset /\ Tracks(h, s)

\* The OpenFiles are where the slots are, finitely many, and every one of them
\* is at the host's offset.
FilesInv ==
  /\ FileTypeOK
  /\ DOMAIN core = Procs
  /\ IsFiniteSet(OpenSlots) /\ IsFiniteSet(loading)
  /\ Accounted
  /\ AppendsKept
  /\ ReaderSeesLog

LEMMA FilesAreSound ==
  ASSUME FilesInv, NEW p \in Procs, NEW i \in DOMAIN core[p]
  PROVE  Sound(core[p][i], content[core[p][i].name])
BY DEF FilesInv, FileTypeOK, AppendsKept, ReaderSeesLog, Sound, Tracks

LEMMA FilesInit == FileInit => FilesInv
<1> SUFFICES ASSUME FileInit PROVE FilesInv
  OBVIOUS
<1>1. FileTypeOK
  <2>1. \A p \in Procs : DOMAIN core[p] = {}
    BY DEF FileInit
  <2>2. hostOpen \in 0 .. HostMax
    BY FileTableAssumption DEF FileInit
  <2>3. <<>> \in Seq(Byte)
    OBVIOUS
  <2> QED
    BY <2>1, <2>2, <2>3 DEF FileInit, FileTypeOK, NoCall
<1>2. OpenSlots = {}
  BY DEF FileInit, OpenSlots
<1>3. /\ IsFiniteSet(OpenSlots) /\ Cardinality(OpenSlots) = 0
      /\ IsFiniteSet(loading) /\ Cardinality(loading) = 0
  BY <1>2, FS_EmptySet DEF FileInit
<1>4. Accounted
  BY <1>3 DEF FileInit, Accounted
<1>5. AppendsKept /\ ReaderSeesLog
  BY DEF FileInit, AppendsKept, ReaderSeesLog
<1> QED
  BY <1>1, <1>3, <1>4, <1>5 DEF FilesInv, FileInit

\* A step that leaves slots and descriptors as they are.
LEMMA KeepsSlots ==
  ASSUME FilesInv, UNCHANGED <<hostOpen, loading, held, lost>>, DOMAIN core' = Procs,
         \A p \in Procs : DOMAIN core'[p] = DOMAIN core[p],
         \A p \in Procs : \A i \in DOMAIN core[p] : Sound(core'[p][i], content'[core'[p][i].name]),
         exists' \subseteq Names, content' \in [Names -> Seq(Byte)], log' \in [Names -> Seq(Byte)],
         appendOnly' \subseteq Names, \A n \in appendOnly' : content'[n] = log'[n],
         calling' \in [Procs -> [op : {"none", "Read", "Write"}, left : Nat, count : Nat]],
         outcome' \in {"running", "null", "outside", "freed"},
         misused' \in BOOLEAN, outcome' \in {"null", "outside"} => misused'
  PROVE  FilesInv'
<1>1. OpenSlots' = OpenSlots
  BY DEF OpenSlots
<1>2. FileTypeOK'
  BY DEF FileTypeOK, FilesInv, Sound
<1>3. Accounted'
  BY <1>1 DEF FilesInv, Accounted
<1>4. AppendsKept' /\ ReaderSeesLog'
  BY DEF AppendsKept, ReaderSeesLog, Sound, Tracks
<1> QED
  BY <1>1, <1>2, <1>3, <1>4 DEF FilesInv

\* One that only answers, or hands over to the console.
LEMMA FilesQuiet ==
  ASSUME FilesInv, UNCHANGED <<exists, content, core, hostOpen, loading, held, lost, log, appendOnly>>,
         calling' \in [Procs -> [op : {"none", "Read", "Write"}, left : Nat, count : Nat]],
         outcome' \in {"running", "null", "outside", "freed"},
         misused' \in BOOLEAN, outcome' \in {"null", "outside"} => misused'
  PROVE  FilesInv'
<1>1. \A p \in Procs : \A i \in DOMAIN core[p] : Sound(core'[p][i], content'[core'[p][i].name])
  BY FilesAreSound
<1>2. DOMAIN core' = Procs /\ \A p \in Procs : DOMAIN core'[p] = DOMAIN core[p]
  BY DEF FilesInv
<1>3. /\ exists' \subseteq Names /\ content' \in [Names -> Seq(Byte)] /\ log' \in [Names -> Seq(Byte)]
      /\ appendOnly' \subseteq Names /\ \A n \in appendOnly' : content'[n] = log'[n]
  BY DEF FilesInv, FileTypeOK, AppendsKept
<1> QED
  BY <1>1, <1>2, <1>3, KeepsSlots

LEMMA ShownIsNat ==
  ASSUME NEW data \in Seq(Byte) PROVE ShownOf(data) \in Nat
<1> DEFINE shown == {i \in 1 .. Len(data) : \A j \in 1 .. i : data[j] # 0}
<1>1. IsFiniteSet(1 .. Len(data))
  BY FS_Interval
<1>2. IsFiniteSet(shown)
  BY <1>1, FS_Subset
<1> QED
  BY <1>2, FS_CardinalityType DEF ShownOf

\* The answers and hand-overs.
Quiet(p) ==
  \/ \E n \in Names : OpenFails(p, n)
  \/ \E t \in {2, 3} : OpenConsole(p, t)
  \/ \E fid \in FileId, op \in {"Read", "Write", "Append"} : Refused(p, op, fid) \/ Fails(p, op, fid)
  \/ \E fid \in FileId, op \in {"Read", "Write"}, n \in Nat, c \in Nat : ConsoleCall(p, fid, op, n, c)
  \/ Transfer(p) \/ ConsoleReturn(p)

LEMMA QuietKeepsFiles ==
  ASSUME FilesInv, NEW p \in Procs, Quiet(p) PROVE FilesInv'
<1> USE DEF FilesInv, FileTypeOK
<1>1. misused \in BOOLEAN /\ (outcome \in {"null", "outside"} => misused)
  BY DEF Accounted
<1>2. CASE (\E n \in Names : OpenFails(p, n)) \/ \E t \in {2, 3} : OpenConsole(p, t)
  <2>1. UNCHANGED <<exists, content, core, hostOpen, loading, held, lost, log, appendOnly, calling, outcome, misused>>
    BY <1>2 DEF OpenFails, OpenConsole
  <2> QED
    BY <1>1, <2>1, FilesQuiet
<1>3. ASSUME NEW fid \in FileId, NEW op \in {"Read", "Write", "Append"}, Refused(p, op, fid)
      PROVE  FilesInv'
  <2>1. UNCHANGED <<exists, content, core, hostOpen, loading, held, lost, log, appendOnly, calling, outcome>>
    BY <1>3 DEF Refused
  <2>2. outcome = "running"
    BY <1>3 DEF Refused, Ready
  <2>3. misused' \in BOOLEAN
    BY <1>3, Zenon DEF Refused, Passes
  <2> QED
    BY <2>1, <2>2, <2>3, FilesQuiet
<1>4. ASSUME NEW fid \in FileId, NEW op \in {"Read", "Write", "Append"}, Fails(p, op, fid)
      PROVE  FilesInv'
  <2>1. /\ UNCHANGED <<exists, content, core, hostOpen, loading, held, lost, log, appendOnly, calling>>
        /\ outcome' \in {"null", "outside"} /\ misused' = (misused \/ fid \notin held[p] \cup {STDIN, STDOUT})
    BY <1>4 DEF Fails, Passes
  <2>2. fid \in 2 .. NFile /\ fid \notin DOMAIN core[p]
    BY <1>4, FileTableAssumption DEF Fails, Slot
  <2>3. fid \notin held[p] \cup {STDIN, STDOUT}
    BY <2>2, FileTableAssumption DEF Accounted, STDIN, STDOUT
  <2> QED
    BY <2>1, <2>3, FilesQuiet
<1>5. ASSUME NEW fid \in FileId, NEW op \in {"Read", "Write"}, NEW n \in Nat, NEW c \in Nat,
             ConsoleCall(p, fid, op, n, c)
      PROVE  FilesInv'
  <2>1. /\ UNCHANGED <<exists, content, core, hostOpen, loading, held, lost, log, appendOnly, outcome, misused>>
        /\ calling' \in [Procs -> [op : {"none", "Read", "Write"}, left : Nat, count : Nat]]
    BY <1>5 DEF ConsoleCall
  <2> QED
    BY <1>1, <2>1, FilesQuiet
<1>6. CASE Transfer(p)
  <2>1. /\ UNCHANGED <<exists, content, core, hostOpen, loading, held, lost, log, appendOnly, outcome, misused>>
        /\ calling' \in [Procs -> [op : {"none", "Read", "Write"}, left : Nat, count : Nat]]
    <3>1. UNCHANGED <<exists, content, core, hostOpen, loading, held, lost, log, appendOnly, outcome, misused>>
      BY <1>6 DEF Transfer
    <3>2. calling[p].left \in Nat /\ calling[p].left - 1 \in Nat
      BY <1>6 DEF Transfer
    <3>3. calling' = [calling EXCEPT ![p] = [calling[p] EXCEPT !.left = calling[p].left - 1]]
      BY <1>6 DEF Transfer
    <3>4. [calling[p] EXCEPT !.left = calling[p].left - 1] \in [op : {"none", "Read", "Write"}, left : Nat, count : Nat]
      BY <3>2
    <3> QED
      BY <3>1, <3>3, <3>4
  <2> QED
    BY <1>1, <2>1, FilesQuiet
<1>7. CASE ConsoleReturn(p)
  <2>1. /\ UNCHANGED <<exists, content, core, hostOpen, loading, held, lost, log, appendOnly, misused>>
        /\ calling' \in [Procs -> [op : {"none", "Read", "Write"}, left : Nat, count : Nat]]
        /\ outcome' \in {"running", "freed"}
    <3>1. UNCHANGED <<exists, content, core, hostOpen, loading, held, lost, log, appendOnly, misused>>
      BY <1>7 DEF ConsoleReturn
    <3>2. calling' \in [Procs -> [op : {"none", "Read", "Write"}, left : Nat, count : Nat]]
      BY <1>7 DEF ConsoleReturn, NoCall
    <3>3. outcome' \in {"running", "freed"}
      BY <1>7 DEF ConsoleReturn
    <3> QED
      BY <3>1, <3>2, <3>3
  <2> QED
    BY <1>1, <2>1, FilesQuiet
<1> QED
  BY <1>2, <1>3, <1>4, <1>5, <1>6, <1>7 DEF Quiet

\* An OpenFile nobody follows has nothing to track.
LEMMA Unfollowed ==
  ASSUME NEW h \in OpenFile, h.offset = h.currentOffset, NEW s
  PROVE  Sound([h EXCEPT !.follows = FALSE, !.seen = <<>>], s)
<1>1. <<>> \in Seq(Byte \cup {Kept})
  OBVIOUS
<1> QED
  BY <1>1 DEF Sound, Tracks, OpenFile

LEMMA CreateFileKeeps ==
  ASSUME FilesInv, NEW p \in Procs, NEW n \in Names, CreateFile(p, n) PROVE FilesInv'
<1> USE DEF FilesInv, FileTypeOK
<1>1. UNCHANGED <<hostOpen, loading, calling, outcome, held, lost, misused>>
  BY DEF CreateFile
<1>2. misused \in BOOLEAN /\ (outcome \in {"null", "outside"} => misused)
  BY DEF Accounted
<1>3. CASE ~ (hostOpen < HostMax)
  <2>1. UNCHANGED <<exists, content, log, appendOnly, core>>
    BY <1>3 DEF CreateFile
  <2> QED
    BY <1>1, <1>2, <2>1, FilesQuiet
<1>4. CASE hostOpen < HostMax
  <2>1. /\ exists' = exists \cup {n} /\ content' = [content EXCEPT ![n] = <<>>]
        /\ log' = [log EXCEPT ![n] = <<>>] /\ appendOnly' = appendOnly \cup {n} /\ core' = NotFollowed(core, n)
    BY <1>4 DEF CreateFile
  <2>2. <<>> \in Seq(Byte)
    OBVIOUS
  <2>3. /\ exists' \subseteq Names /\ content' \in [Names -> Seq(Byte)] /\ log' \in [Names -> Seq(Byte)]
        /\ appendOnly' \subseteq Names
    BY <2>1, <2>2
  <2>4. \A l \in appendOnly' : content'[l] = log'[l]
    BY <2>1 DEF AppendsKept
  <2>5. DOMAIN core' = Procs /\ \A q \in Procs : DOMAIN core'[q] = DOMAIN core[q]
    BY <2>1 DEF NotFollowed
  <2>6. ASSUME NEW q \in Procs, NEW i \in DOMAIN core[q]
        PROVE  Sound(core'[q][i], content'[core'[q][i].name])
    <3>1. Sound(core[q][i], content[core[q][i].name]) /\ core[q][i] \in OpenFile
      BY FilesAreSound
    <3>2. CASE core[q][i].name = n
      BY <2>1, <3>1, <3>2, Unfollowed DEF NotFollowed, Sound
    <3>3. CASE core[q][i].name # n
      <4>1. core'[q][i] = core[q][i]
        BY <2>1, <3>3 DEF NotFollowed
      <4>2. content'[core[q][i].name] = content[core[q][i].name]
        BY <2>1, <3>1, <3>3 DEF OpenFile
      <4> QED
        BY <3>1, <4>1, <4>2
    <3> QED
      BY <3>2, <3>3
  <2> QED
    BY <1>1, <1>2, <2>3, <2>4, <2>5, <2>6, KeepsSlots
<1> QED
  BY <1>3, <1>4

\* One OpenFile is exchanged for another.
LEMMA SlotExchanged ==
  ASSUME FilesInv, NEW p \in Procs, NEW i \in DOMAIN core[p], NEW h, NEW table, table = WithSlot(p, i, h)
  PROVE  /\ DOMAIN table = Procs /\ \A q \in Procs : DOMAIN table[q] = DOMAIN core[q]
         /\ table[p][i] = h
         /\ \A q \in Procs : \A j \in DOMAIN core[q] : <<q, j>> # <<p, i>> => table[q][j] = core[q][j]
BY DEF FilesInv, WithSlot

\* What a sequence is made of when one is put behind another.
LEMMA PutBehind ==
  ASSUME NEW S, NEW a \in Seq(S), NEW b \in Seq(S)
  PROVE  /\ a \o b \in Seq(S) /\ Len(a \o b) = Len(a) + Len(b)
         /\ \A i \in 1 .. Len(a) + Len(b) : (a \o b)[i] = IF i <= Len(a) THEN a[i] ELSE b[i - Len(a)]
BY ConcatProperties

LEMMA ReadFileKeeps ==
  ASSUME FilesInv, NEW p \in Procs, NEW fid, NEW n \in Nat \ {0}, ReadFile(p, fid, n) PROVE FilesInv'
<1> USE DEF FilesInv, FileTypeOK
<1>1. UNCHANGED <<exists, content, hostOpen, loading, calling, outcome, held, lost, log, appendOnly>> /\ fid \in DOMAIN core[p]
  BY DEF ReadFile
<1> DEFINE h == core[p][fid]
           s == content[h.name]
           gives == Given(s, h.offset, n)
           got   == Portion(s, h.offset, n)
           new == [h EXCEPT !.offset = h.offset + Len(got), !.currentOffset = h.offset + Len(got),
                            !.seen = IF h.seen # <<>> \/ h.follows THEN h.seen \o gives ELSE <<>>]
<1>2. Sound(h, s) /\ h \in OpenFile /\ h.name \in Names /\ s \in Seq(Byte) /\ h.offset \in Nat
  BY <1>1, FilesAreSound DEF OpenFile
<1>3. core' = WithSlot(p, fid, new)
  <2>1. GetCurrentPos(h) = h
    BY <1>2 DEF GetCurrentPos, Sound, OpenFile
  <2>2. h.currentOffset = h.offset
    BY <1>2 DEF Sound
  <2> DEFINE after == MovedTo(h, h.offset, Len(got))
  <2>3. core' = WithSlot(p, fid, [after EXCEPT !.seen = IF after.seen # <<>> \/ h.follows
                                                        THEN after.seen \o gives ELSE <<>>])
    BY <2>1, <2>2 DEF ReadFile, Given
  <2> HIDE DEF h, gives, got
  <2>4. [after EXCEPT !.seen = IF after.seen # <<>> \/ h.follows THEN after.seen \o gives ELSE <<>>] = new
    BY <1>2 DEF MovedTo, OpenFile
  <2> HIDE DEF after, new
  <2> QED
    BY <2>3, <2>4
<1>4. /\ gives \in Seq(Byte \cup {Kept}) /\ Len(gives) = Len(got) /\ got \in Seq(Byte)
      /\ \A i \in 1 .. Len(gives) : h.offset + i <= Len(s) /\ gives[i] \in {s[h.offset + i], Kept}
  BY <1>2, ReadGives
<1> HIDE DEF h, s, gives, got
<1>5. h.seen \in Seq(Byte \cup {Kept})
  BY <1>2 DEF OpenFile
<1>6. /\ h.seen \o gives \in Seq(Byte \cup {Kept}) /\ Len(h.seen \o gives) = Len(h.seen) + Len(gives)
      /\ \A i \in 1 .. Len(h.seen) + Len(gives) :
           (h.seen \o gives)[i] = IF i <= Len(h.seen) THEN h.seen[i] ELSE gives[i - Len(h.seen)]
  <2> DEFINE Some == Byte \cup {Kept}
  <2>1. gives \in Seq(Some) /\ h.seen \in Seq(Some)
    BY <1>4, <1>5
  <2> HIDE DEF Some
  <2>2. /\ h.seen \o gives \in Seq(Some) /\ Len(h.seen \o gives) = Len(h.seen) + Len(gives)
        /\ \A i \in 1 .. Len(h.seen) + Len(gives) :
             (h.seen \o gives)[i] = IF i <= Len(h.seen) THEN h.seen[i] ELSE gives[i - Len(h.seen)]
    BY <2>1, PutBehind
  <2> QED
    BY <2>2 DEF Some
<1>7. /\ Len(got) \in Nat /\ h.offset + Len(got) \in Nat
  BY <1>2, <1>4
<1>8. new \in OpenFile /\ new.offset = new.currentOffset /\ new.name = h.name /\ new.follows = h.follows
      /\ new.currentOffset = h.offset + Len(got)
      /\ (h.follows => new.seen = h.seen \o gives)
  BY <1>2, <1>6, <1>7 DEF OpenFile
<1> HIDE DEF new
<1>9. Sound(new, s)
  <2> SUFFICES ASSUME h.follows
               PROVE  /\ Len(new.seen) = new.currentOffset
                      /\ \A k \in 1 .. Len(new.seen) : k <= Len(s) /\ new.seen[k] \in {s[k], Kept}
    BY <1>8 DEF Sound, Tracks
  <2>1. /\ Len(h.seen) = h.offset
        /\ \A k \in 1 .. Len(h.seen) : k <= Len(s) /\ h.seen[k] \in {s[k], Kept}
    BY <1>2 DEF Sound, Tracks
  <2>2. Len(new.seen) = new.currentOffset /\ new.seen = h.seen \o gives
    BY <1>4, <1>6, <1>8, <2>1
  <2>3. ASSUME NEW k \in 1 .. Len(h.seen) + Len(gives)
        PROVE  k <= Len(s) /\ new.seen[k] \in {s[k], Kept}
    <3>1. CASE k <= Len(h.seen)
      BY <1>2, <1>6, <2>1, <2>2, <3>1
    <3>2. CASE ~ (k <= Len(h.seen))
      <4>1. k - Len(h.seen) \in 1 .. Len(gives)
        <5>1. Len(h.seen) \in Nat /\ Len(gives) \in Nat
          BY <1>4, <1>5, LenProperties, Zenon
        <5> DEFINE a == Len(h.seen)
                   c == Len(gives)
        <5>2. k \in 1 .. a + c /\ ~ (k <= a)
          BY <3>2
        <5> HIDE DEF a, c
        <5>3. a \in Nat /\ c \in Nat
          BY <5>1, Zenon DEF a, c
        <5>4. k - a \in 1 .. c
          BY <5>2, <5>3
        <5> QED
          BY <5>4, Zenon DEF a, c
      <4>2. h.offset + (k - Len(h.seen)) = k
        BY <1>2, <2>1
      <4> QED
        BY <1>4, <1>6, <2>2, <3>2, <4>1, <4>2
    <3> QED
      BY <3>1, <3>2
  <2> QED
    BY <1>6, <2>2, <2>3
<1>10. misused' \in BOOLEAN
  BY Zenon DEF ReadFile, Passes
<1>11. outcome \in {"null", "outside"} => misused'
  BY DEF ReadFile, Ready
<1>12. ASSUME NEW q \in Procs, NEW i \in DOMAIN core[q]
       PROVE  Sound(core'[q][i], content'[core'[q][i].name])
  <2>1. CASE <<q, i>> = <<p, fid>>
    BY <1>1, <1>3, <1>8, <1>9, <2>1, SlotExchanged DEF s, h
  <2>2. CASE <<q, i>> # <<p, fid>>
    BY <1>1, <1>3, <2>2, SlotExchanged, FilesAreSound
  <2> QED
    BY <2>1, <2>2
<1>13. DOMAIN core' = Procs /\ \A q \in Procs : DOMAIN core'[q] = DOMAIN core[q]
  BY <1>1, <1>3, SlotExchanged
<1>14. \A l \in appendOnly : content[l] = log[l]
  BY DEF AppendsKept
<1> QED
  BY <1>1, <1>10, <1>11, <1>12, <1>13, <1>14, KeepsSlots

LEMMA MovedIsOpenFile ==
  ASSUME NEW h \in OpenFile, NEW k \in Nat, NEW m \in Nat
  PROVE  /\ MovedTo(h, k, m) \in OpenFile /\ MovedTo(h, k, m).name = h.name
         /\ MovedTo(h, k, m).offset = MovedTo(h, k, m).currentOffset
         /\ h.offset = h.currentOffset => MovedTo(h, h.offset, 0) = h
<1> DEFINE end == k + m
           g == [h EXCEPT !.offset = end, !.currentOffset = end]
<1>1. end \in Nat
  OBVIOUS
<1> HIDE DEF end
<1>2. g \in OpenFile /\ g.name = h.name /\ g.offset = g.currentOffset
  BY <1>1 DEF OpenFile
<1>3. ASSUME h.offset = h.currentOffset PROVE MovedTo(h, h.offset, 0) = h
  <2>1. h.offset + 0 = h.offset
    BY DEF OpenFile
  <2>2. MovedTo(h, h.offset, 0) = [h EXCEPT !.offset = h.offset, !.currentOffset = h.offset]
    BY <2>1 DEF MovedTo
  <2> QED
    BY <1>3, <2>2 DEF OpenFile
<1> QED
  BY <1>2, <1>3 DEF MovedTo, end

LEMMA WriteFileKeeps ==
  ASSUME FilesInv, NEW p \in Procs, NEW fid, NEW data \in Seq(Byte), WriteFile(p, fid, data) PROVE FilesInv'
<1> USE DEF FilesInv, FileTypeOK
<1>1. UNCHANGED <<exists, hostOpen, loading, calling, outcome, held, lost>> /\ fid \in DOMAIN core[p]
  BY DEF WriteFile
<1> DEFINE h == core[p][fid]
           n == h.name
           s == content[n]
           copy == User2System(data)
           new == MovedTo(h, h.offset, Len(data))
           moved == WithSlot(p, fid, new)
<1>2. Sound(h, s) /\ h \in OpenFile /\ n \in Names /\ s \in Seq(Byte) /\ h.offset \in Nat
  BY <1>1, FilesAreSound DEF OpenFile
<1>3. copy \in Seq(Byte) /\ Len(copy) = Len(data) /\ Len(data) \in Nat
  BY CopyIn, LenProperties
<1>4. GetCurrentPos(h) = h /\ h.currentOffset = h.offset
  BY <1>2 DEF GetCurrentPos, Sound, OpenFile
<1>5. /\ content' = [content EXCEPT ![n] = Overlay(s, h.offset, copy)]
      /\ IF data = <<>> THEN core' = moved /\ UNCHANGED <<log, appendOnly>>
         ELSE core' = NotFollowed(moved, n) /\ log' = [log EXCEPT ![n] = <<>>] /\ appendOnly' = appendOnly \ {n}
  BY <1>4 DEF WriteFile
<1>6. misused' \in BOOLEAN
  BY Zenon DEF WriteFile, Passes
<1>7. outcome \notin {"null", "outside"}
  BY DEF WriteFile, Ready
<1>8. /\ DOMAIN moved = Procs /\ \A q \in Procs : DOMAIN moved[q] = DOMAIN core[q]
      /\ moved[p][fid] = new
      /\ \A q \in Procs : \A j \in DOMAIN core[q] : <<q, j>> # <<p, fid>> => moved[q][j] = core[q][j]
  BY <1>1, SlotExchanged
<1>9. new \in OpenFile /\ new.offset = new.currentOffset /\ new.name = n
  BY <1>2, <1>3, MovedIsOpenFile
<1> HIDE DEF moved
<1>10. CASE data = <<>>
  <2>1. copy = <<>>
    BY <1>3, <1>10, EmptySeq
  <2>2. content' = content
    BY <1>2, <1>5, <2>1 DEF Overlay
  <2>3. new = h
    <3>1. Len(data) = 0
      BY <1>10
    <3> QED
      BY <1>2, <1>4, <3>1, MovedIsOpenFile
  <2>4. core' = moved /\ UNCHANGED <<log, appendOnly>>
    BY <1>5, <1>10
  <2>5. ASSUME NEW q \in Procs, NEW i \in DOMAIN core[q]
        PROVE  Sound(core'[q][i], content'[core'[q][i].name])
    <3>1. core'[q][i] = core[q][i]
      <4>1. CASE <<q, i>> = <<p, fid>>
        BY <1>8, <2>3, <2>4, <4>1
      <4>2. CASE <<q, i>> # <<p, fid>>
        BY <1>8, <2>4, <4>2
      <4> QED
        BY <4>1, <4>2
    <3> QED
      BY <2>2, <3>1, FilesAreSound
  <2>6. DOMAIN core' = Procs /\ \A q \in Procs : DOMAIN core'[q] = DOMAIN core[q]
    BY <1>8, <2>4
  <2>7. \A l \in appendOnly' : content'[l] = log'[l]
    BY <2>2, <2>4 DEF AppendsKept
  <2>8. exists' \subseteq Names /\ content' \in [Names -> Seq(Byte)] /\ log' \in [Names -> Seq(Byte)] /\ appendOnly' \subseteq Names
    BY <1>1, <2>2, <2>4
  <2> QED
    BY <1>1, <1>6, <1>7, <2>5, <2>6, <2>7, <2>8, KeepsSlots
<1>11. CASE data # <<>>
  <2>1. core' = NotFollowed(moved, n) /\ log' = [log EXCEPT ![n] = <<>>] /\ appendOnly' = appendOnly \ {n}
    BY <1>5, <1>11
  <2>2. Overlay(s, h.offset, copy) \in Seq(Byte) /\ <<>> \in Seq(Byte)
    BY <1>2, <1>3, OverlayWrites
  <2>3. exists' \subseteq Names /\ content' \in [Names -> Seq(Byte)] /\ log' \in [Names -> Seq(Byte)] /\ appendOnly' \subseteq Names
    BY <1>1, <1>5, <2>1, <2>2
  <2>4. \A l \in appendOnly' : content'[l] = log'[l]
    BY <1>5, <2>1 DEF AppendsKept
  <2>5. DOMAIN core' = Procs /\ \A q \in Procs : DOMAIN core'[q] = DOMAIN core[q]
    BY <1>8, <2>1 DEF NotFollowed
  <2>6. ASSUME NEW q \in Procs, NEW i \in DOMAIN core[q]
        PROVE  Sound(core'[q][i], content'[core'[q][i].name])
    <3> HIDE DEF FilesInv, FileTypeOK, h, n, s, copy, new
    <3>0. Sound(core[q][i], content[core[q][i].name])
      BY FilesAreSound
    <3>1. moved[q][i] \in OpenFile /\ moved[q][i].offset = moved[q][i].currentOffset
      <4>1. CASE <<q, i>> = <<p, fid>>
        BY <1>8, <1>9, <4>1
      <4>2. CASE <<q, i>> # <<p, fid>>
        BY <1>8, <3>0, <4>2 DEF Sound
      <4> QED
        BY <4>1, <4>2
    <3>2. core'[q][i] = IF moved[q][i].name = n THEN [moved[q][i] EXCEPT !.follows = FALSE, !.seen = <<>>]
                                                ELSE moved[q][i]
      BY <1>8, <2>1 DEF NotFollowed
    <3>3. CASE moved[q][i].name = n
      BY <3>1, <3>2, <3>3, Unfollowed
    <3>4. CASE moved[q][i].name # n
      <4>1. <<q, i>> # <<p, fid>>
        BY <1>8, <1>9, <3>4
      <4>2. moved[q][i] = core[q][i]
        BY <1>8, <4>1
      <4>3. core'[q][i] = core[q][i] /\ core[q][i].name # n
        BY <3>2, <3>4, <4>2
      <4>4. content'[core[q][i].name] = content[core[q][i].name]
        <5>1. core[q][i].name \in Names /\ content \in [Names -> Seq(Byte)]
          BY <3>0 DEF Sound, OpenFile, FilesInv, FileTypeOK
        <5> QED
          BY <1>5, <4>3, <5>1
      <4> QED
        BY <3>0, <4>3, <4>4
    <3> QED
      BY <3>3, <3>4
  <2> QED
    BY <1>1, <1>6, <1>7, <2>3, <2>4, <2>5, <2>6, KeepsSlots
<1> QED
  BY <1>10, <1>11

LEMMA AppendFileKeeps ==
  ASSUME FilesInv, NEW p \in Procs, NEW fid, NEW data \in Seq(Byte), AppendFile(p, fid, data) PROVE FilesInv'
<1> USE DEF FilesInv, FileTypeOK
<1>1. UNCHANGED <<exists, hostOpen, loading, calling, outcome, held, lost, appendOnly>> /\ fid \in DOMAIN core[p]
  BY DEF AppendFile
<1> DEFINE h == core[p][fid]
           n == h.name
           s == content[n]
           copy == User2System(data)
           new == MovedTo(h, Len(s), Len(data))
<1>2. Sound(h, s) /\ h \in OpenFile /\ n \in Names /\ s \in Seq(Byte)
  BY <1>1, FilesAreSound DEF OpenFile
<1>3. copy \in Seq(Byte) /\ Len(copy) = Len(data) /\ Len(data) \in Nat /\ Len(s) \in Nat
  BY <1>2, CopyIn, LenProperties
<1>4. /\ content' = [content EXCEPT ![n] = Overlay(s, Len(s), copy)]
      /\ core' = WithSlot(p, fid, [new EXCEPT !.follows = FALSE, !.seen = <<>>])
      /\ log' = IF n \in appendOnly THEN [log EXCEPT ![n] = log[n] \o copy] ELSE log
  BY DEF AppendFile, AppendPlace
<1>5. Overlay(s, Len(s), copy) = s \o copy
  BY <1>2, <1>3, OverlayAppends
<1>6. /\ s \o copy \in Seq(Byte) /\ Len(s \o copy) = Len(s) + Len(copy)
      /\ \A i \in 1 .. Len(s) : (s \o copy)[i] = s[i]
  <2> HIDE DEF h, n, s, copy, FilesInv, FileTypeOK
  <2>1. /\ s \o copy \in Seq(Byte) /\ Len(s \o copy) = Len(s) + Len(copy)
        /\ \A i \in 1 .. Len(s) + Len(copy) : (s \o copy)[i] = IF i <= Len(s) THEN s[i] ELSE copy[i - Len(s)]
    BY <1>2, <1>3, PutBehind
  <2> QED
    BY <1>3, <2>1
<1>7. new \in OpenFile /\ new.offset = new.currentOffset /\ new.name = n
  BY <1>2, <1>3, MovedIsOpenFile
<1> HIDE DEF new, copy
<1>8. [new EXCEPT !.follows = FALSE, !.seen = <<>>].name = new.name
  <2> HIDE DEF h, n
  <2> QED
    BY <1>7 DEF OpenFile
<1>9. \A t : Sound([new EXCEPT !.follows = FALSE, !.seen = <<>>], t)
  BY <1>7, Unfollowed
<1>10. misused' \in BOOLEAN
  BY Zenon DEF AppendFile, Passes
<1>11. outcome \notin {"null", "outside"}
  BY DEF AppendFile, Ready
<1>12. content' = [content EXCEPT ![n] = s \o copy]
  BY <1>4, <1>5
<1>13. log[n] \in Seq(Byte) /\ log[n] \o copy \in Seq(Byte)
  BY <1>2, <1>3, PutBehind
<1>14. exists' \subseteq Names /\ content' \in [Names -> Seq(Byte)] /\ log' \in [Names -> Seq(Byte)] /\ appendOnly' \subseteq Names
  <2>1. content \in [Names -> Seq(Byte)] /\ log \in [Names -> Seq(Byte)] /\ exists \subseteq Names /\ appendOnly \subseteq Names
    OBVIOUS
  <2> HIDE DEF h, n, s, FilesInv, FileTypeOK
  <2>2. content' \in [Names -> Seq(Byte)]
    BY <1>6, <1>12, <2>1
  <2>3. log' \in [Names -> Seq(Byte)]
    BY <1>4, <1>13, <2>1
  <2>4. exists' \subseteq Names /\ appendOnly' \subseteq Names
    BY <1>1, <2>1
  <2> QED
    BY <2>2, <2>3, <2>4, Zenon
<1>15. \A l \in appendOnly' : content'[l] = log'[l]
  BY <1>1, <1>2, <1>4, <1>12 DEF AppendsKept
<1>16. DOMAIN core' = Procs /\ \A q \in Procs : DOMAIN core'[q] = DOMAIN core[q]
  BY <1>1, <1>4, SlotExchanged
<1>17. ASSUME NEW q \in Procs, NEW i \in DOMAIN core[q]
       PROVE  Sound(core'[q][i], content'[core'[q][i].name])
  <2>1. CASE <<q, i>> = <<p, fid>>
    BY <1>1, <1>4, <1>7, <1>8, <1>9, <2>1, SlotExchanged
  <2>2. CASE <<q, i>> # <<p, fid>>
    <3> DEFINE g == core[q][i]
    <3>1. core'[q][i] = g
      BY <1>1, <1>4, <2>2, SlotExchanged
    <3>2. Sound(g, content[g.name]) /\ g.name \in Names
      BY FilesAreSound DEF Sound, OpenFile
    <3>3. CASE g.name # n
      BY <1>12, <3>1, <3>2, <3>3
    <3>4. CASE g.name = n
      <4>1. content'[g.name] = s \o copy /\ Sound(g, s)
        BY <1>2, <1>12, <3>2, <3>4
      <4> HIDE DEF g
      <4>2. Tracks(g, s \o copy)
        <5> SUFFICES ASSUME g.follows
                     PROVE  /\ Len(g.seen) = g.currentOffset
                            /\ \A k \in 1 .. Len(g.seen) : k <= Len(s \o copy) /\ g.seen[k] \in {(s \o copy)[k], Kept}
          BY DEF Tracks
        <5>1. /\ Len(g.seen) = g.currentOffset /\ Len(g.seen) \in Nat
              /\ \A k \in 1 .. Len(g.seen) : k <= Len(s) /\ g.seen[k] \in {s[k], Kept}
          BY <4>1 DEF Sound, Tracks, OpenFile
        <5> HIDE DEF h, n, s
        <5> QED
          BY <1>3, <1>6, <5>1
      <4> QED
        BY <3>1, <4>1, <4>2 DEF Sound
    <3> QED
      BY <3>3, <3>4
  <2> QED
    BY <2>1, <2>2
<1> QED
  BY <1>1, <1>10, <1>11, <1>14, <1>15, <1>16, <1>17, KeepsSlots

\* Slots are taken or given back by one process.
LEMMA SlotsChange ==
  ASSUME FilesInv, NEW p \in Procs, UNCHANGED <<exists, content, loading, calling, outcome, misused, log, appendOnly>>,
         DOMAIN core' = Procs, \A q \in Procs : q # p => core'[q] = core[q],
         DOMAIN core'[p] \subseteq Slot,
         \A i \in DOMAIN core'[p] : Sound(core'[p][i], content[core'[p][i].name]),
         held' = [held EXCEPT ![p] = DOMAIN core'[p]], hostOpen' \in 0 .. HostMax, lost' \in Nat,
         IsFiniteSet(OpenSlots'), hostOpen' = lost' + Cardinality(OpenSlots') + Cardinality(loading)
  PROVE  FilesInv'
<1>1. \A q \in Procs : /\ DOMAIN core'[q] \subseteq Slot
                       /\ \A i \in DOMAIN core'[q] : Sound(core'[q][i], content'[core'[q][i].name])
  <2> SUFFICES ASSUME NEW q \in Procs
               PROVE  /\ DOMAIN core'[q] \subseteq Slot
                      /\ \A i \in DOMAIN core'[q] : Sound(core'[q][i], content'[core'[q][i].name])
    OBVIOUS
  <2>1. CASE q = p
    BY <2>1
  <2>2. CASE q # p
    BY <2>2, FilesAreSound DEF FilesInv, FileTypeOK
  <2> QED
    BY <2>1, <2>2
<1>2. FileTypeOK'
  <2>1. held' \in [Procs -> SUBSET Slot]
    BY DEF FilesInv, FileTypeOK
  <2>2. \A q \in Procs : /\ DOMAIN core'[q] \subseteq Slot
                         /\ \A i \in DOMAIN core'[q] : core'[q][i] \in OpenFile
    BY <1>1 DEF Sound
  <2> QED
    BY <2>1, <2>2 DEF FilesInv, FileTypeOK
<1>3. Accounted'
  <2>1. \A q \in Procs : held'[q] = DOMAIN core'[q]
    BY DEF FilesInv, FileTypeOK, Accounted
  <2>2. Cardinality(loading') = Cardinality(loading)
    OBVIOUS
  <2> QED
    BY <2>1, <2>2 DEF FilesInv, Accounted
<1>4. AppendsKept' /\ ReaderSeesLog'
  BY <1>1 DEF FilesInv, AppendsKept, ReaderSeesLog, Sound, Tracks
<1> QED
  BY <1>2, <1>3, <1>4 DEF FilesInv

LEMMA OpenKeeps ==
  ASSUME FilesInv, NEW p \in Procs, NEW n \in Names, NEW t \in {0, 1}, Open(p, n, t) PROVE FilesInv'
<1> USE DEF FilesInv, FileTypeOK
<1> DEFINE new == [name |-> n, type |-> t, offset |-> 0, currentOffset |-> 0, seen |-> <<>>, follows |-> TRUE]
<1>1. /\ UNCHANGED <<exists, content, loading, calling, outcome, lost, misused, log, appendOnly>>
      /\ hostOpen' = hostOpen + 1 /\ hostOpen < HostMax
  BY DEF Open
<1>2. PICK i \in 2 .. NFile : /\ IsFreeSlot(p, i) /\ core' = WithSlot(p, i, new)
                              /\ held' = [held EXCEPT ![p] = @ \cup {i}]
  BY DEF Open
<1>3. i \in Slot /\ i \notin DOMAIN core[p]
  BY <1>2 DEF IsFreeSlot
<1>4. \A s : Sound(new, s)
  <2>1. <<>> \in Seq(Byte \cup {Kept}) /\ Len(<<>>) = 0
    OBVIOUS
  <2>2. new \in OpenFile
    BY <2>1 DEF OpenFile
  <2> QED
    BY <2>1, <2>2 DEF Sound, Tracks
<1> HIDE DEF new
<1>5. /\ DOMAIN core' = Procs /\ \A q \in Procs : q # p => core'[q] = core[q]
      /\ DOMAIN core'[p] = DOMAIN core[p] \cup {i}
      /\ core'[p][i] = new /\ \A j \in DOMAIN core[p] : core'[p][j] = core[p][j]
  BY <1>2, <1>3 DEF WithSlot
<1>6. OpenSlots' = OpenSlots \cup {<<p, i>>} /\ <<p, i>> \notin OpenSlots
  BY <1>3, <1>5 DEF OpenSlots
<1>7. IsFiniteSet(OpenSlots') /\ Cardinality(OpenSlots') = Cardinality(OpenSlots) + 1
  BY <1>6, FS_AddElement
<1>8. held' = [held EXCEPT ![p] = DOMAIN core'[p]]
  BY <1>2, <1>5 DEF Accounted
<1>9. \A j \in DOMAIN core'[p] : Sound(core'[p][j], content[core'[p][j].name])
  BY <1>4, <1>5, FilesAreSound
<1>10. hostOpen' \in 0 .. HostMax /\ lost' \in Nat
  BY <1>1, FileTableAssumption
<1>11. hostOpen' = lost' + Cardinality(OpenSlots') + Cardinality(loading)
  <2>1. Cardinality(OpenSlots) \in Nat /\ Cardinality(loading) \in Nat
    BY FS_CardinalityType
  <2>2. hostOpen = lost + Cardinality(OpenSlots) + Cardinality(loading)
    BY DEF Accounted
  <2> QED
    BY <1>1, <1>7, <2>1, <2>2
<1>12. DOMAIN core'[p] \subseteq Slot
  BY <1>3, <1>5
<1> QED
  BY <1>1, <1>5, <1>7, <1>8, <1>9, <1>10, <1>11, <1>12, SlotsChange

LEMMA CloseKeeps ==
  ASSUME FilesInv, NEW p \in Procs, NEW fid, Close(p, fid) PROVE FilesInv'
<1> USE DEF FilesInv, FileTypeOK
<1>1. /\ UNCHANGED <<exists, content, loading, calling, outcome, lost, misused, log, appendOnly>>
      /\ held' = [held EXCEPT ![p] = @ \ {fid}] /\ held[p] = DOMAIN core[p]
  BY DEF Close, Accounted
<1>2. CASE fid \notin DOMAIN core[p]
  <2>1. UNCHANGED <<core, hostOpen, loading, held>>
    BY <1>1, <1>2 DEF Close
  <2>2. misused \in BOOLEAN /\ (outcome \in {"null", "outside"} => misused)
    BY DEF Accounted
  <2> QED
    BY <1>1, <2>1, <2>2, FilesQuiet
<1>3. CASE fid \in DOMAIN core[p]
  <2>1. core' = WithoutSlot(p, fid) /\ hostOpen' = hostOpen - 1 /\ fid \in 2 .. NFile
    BY <1>3, FileTableAssumption DEF Close, Slot
  <2>2. /\ DOMAIN core' = Procs /\ \A q \in Procs : q # p => core'[q] = core[q]
        /\ DOMAIN core'[p] = DOMAIN core[p] \ {fid}
        /\ \A j \in DOMAIN core'[p] : core'[p][j] = core[p][j]
    BY <2>1 DEF WithoutSlot
  <2>3. OpenSlots' = OpenSlots \ {<<p, fid>>} /\ <<p, fid>> \in OpenSlots
    BY <1>3, <2>1, <2>2 DEF OpenSlots
  <2>4. IsFiniteSet(OpenSlots') /\ Cardinality(OpenSlots') = Cardinality(OpenSlots) - 1
    <3> DEFINE slot == <<p, fid>>
    <3>1. IsFiniteSet(OpenSlots) /\ slot \in OpenSlots /\ OpenSlots' = OpenSlots \ {slot}
      BY <2>3
    <3> HIDE DEF slot
    <3>2. IsFiniteSet(OpenSlots \ {slot}) /\ Cardinality(OpenSlots \ {slot}) = Cardinality(OpenSlots) - 1
      BY <3>1, FS_RemoveElement, Zenon
    <3> QED
      BY <3>1, <3>2, Zenon
  <2>5. held' = [held EXCEPT ![p] = DOMAIN core'[p]]
    BY <1>1, <2>2
  <2>6. \A j \in DOMAIN core'[p] : Sound(core'[p][j], content[core'[p][j].name])
    BY <2>2, FilesAreSound
  <2>7. /\ hostOpen' = lost' + Cardinality(OpenSlots') + Cardinality(loading)
        /\ Cardinality(OpenSlots') \in Nat /\ Cardinality(loading) \in Nat
    <3>1. /\ Cardinality(OpenSlots) \in Nat /\ Cardinality(OpenSlots') \in Nat
          /\ Cardinality(loading) \in Nat
      BY <2>4, FS_CardinalityType
    <3>2. hostOpen = lost + Cardinality(OpenSlots) + Cardinality(loading)
      BY DEF Accounted
    <3> QED
      BY <1>1, <2>1, <2>4, <3>1, <3>2
  <2>8. hostOpen' \in 0 .. HostMax /\ lost' \in Nat
    BY <1>1, <2>1, <2>7, FileTableAssumption
  <2>9. DOMAIN core'[p] \subseteq Slot
    BY <2>2
  <2> QED
    BY <1>1, <2>2, <2>4, <2>5, <2>6, <2>7, <2>8, <2>9, SlotsChange
<1> QED
  BY <1>2, <1>3

LEMMA ExitFilesKeeps ==
  ASSUME FilesInv, NEW p \in Procs, ExitFiles(p) PROVE FilesInv'
<1> USE DEF FilesInv, FileTypeOK
<1> DEFINE D == DOMAIN core[p]
           own == {s \in OpenSlots : s[1] = p}
<1>1. /\ UNCHANGED <<exists, content, loading, calling, outcome, misused, log, appendOnly, hostOpen>>
      /\ core' = [core EXCEPT ![p] = <<>>] /\ held' = [held EXCEPT ![p] = {}] /\ lost' = lost + Cardinality(D)
  BY DEF ExitFiles
<1>2. /\ DOMAIN core' = Procs /\ \A q \in Procs : q # p => core'[q] = core[q]
      /\ DOMAIN core'[p] = {}
  BY <1>1
<1>3. OpenSlots' = OpenSlots \ own /\ own \subseteq OpenSlots /\ OpenSlots \cap own = own
  BY <1>2 DEF OpenSlots
<1>4. D \subseteq 2 .. NFile
  BY FileTableAssumption DEF Slot
<1>5. IsFiniteSet(D)
  <2>1. IsFiniteSet(2 .. NFile)
    BY FileTableAssumption, FS_Interval
  <2> QED
    BY <1>4, <2>1, FS_Subset
<1>6. ExistsBijection(D, own)
  <2> DEFINE f == [i \in D |-> <<p, i>>]
  <2>1. f \in Injection(D, own)
    BY <1>4, Zenon DEF Injection, IsInjective, OpenSlots
  <2>2. \A s \in own : \E i \in D : f[i] = s
    BY DEF OpenSlots
  <2>3. f \in Surjection(D, own)
    BY <2>1, <2>2 DEF Surjection, Injection
  <2> QED
    BY <2>1, <2>3 DEF ExistsBijection, Bijection
<1> HIDE DEF D, own
<1>7. Cardinality(own) = Cardinality(D) /\ Cardinality(D) \in Nat
  BY <1>5, <1>6, FS_Bijection, FS_CardinalityType
<1>8. IsFiniteSet(OpenSlots') /\ Cardinality(OpenSlots') = Cardinality(OpenSlots) - Cardinality(D)
  <2>1. /\ IsFiniteSet(OpenSlots \ own)
        /\ Cardinality(OpenSlots \ own) = Cardinality(OpenSlots) - Cardinality(OpenSlots \cap own)
    BY FS_Difference
  <2> QED
    BY <1>3, <1>7, <2>1, Zenon
<1>9. hostOpen' = lost' + Cardinality(OpenSlots') + Cardinality(loading)
  <2>1. Cardinality(OpenSlots) \in Nat /\ Cardinality(loading) \in Nat
    BY FS_CardinalityType
  <2>2. hostOpen = lost + Cardinality(OpenSlots) + Cardinality(loading)
    BY DEF Accounted
  <2> QED
    BY <1>1, <1>7, <1>8, <2>1, <2>2
<1>10. hostOpen' \in 0 .. HostMax /\ lost' \in Nat
  BY <1>1, <1>7
<1>11. held' = [held EXCEPT ![p] = DOMAIN core'[p]] /\ DOMAIN core'[p] \subseteq Slot
  BY <1>1, <1>2
<1>12. \A j \in DOMAIN core'[p] : Sound(core'[p][j], content[core'[p][j].name])
  BY <1>2
<1> QED
  BY <1>1, <1>2, <1>8, <1>9, <1>10, <1>11, <1>12, SlotsChange

\* Load opens an executable beside the slots, and gives its descriptor back.
LEMMA ExecutableKeeps ==
  ASSUME FilesInv, NEW p \in Procs, OpenExecutable(p) \/ CloseExecutable(p) PROVE FilesInv'
<1> USE DEF FilesInv, FileTypeOK
<1>1. /\ UNCHANGED <<exists, content, core, calling, outcome, held, lost, misused, log, appendOnly>>
      /\ loading' \subseteq Procs
  BY DEF OpenExecutable, CloseExecutable
<1>2. OpenSlots' = OpenSlots /\ Cardinality(OpenSlots') = Cardinality(OpenSlots)
  BY <1>1 DEF OpenSlots
<1>3. Cardinality(OpenSlots) \in Nat /\ Cardinality(loading) \in Nat
  BY FS_CardinalityType
<1>4. hostOpen = lost + Cardinality(OpenSlots) + Cardinality(loading)
  BY DEF Accounted
<1>5. /\ IsFiniteSet(loading') /\ hostOpen' \in 0 .. HostMax
      /\ hostOpen' = lost + Cardinality(OpenSlots) + Cardinality(loading')
  <2>1. CASE OpenExecutable(p)
    <3>1. /\ p \notin loading /\ loading' = loading \cup {p}
          /\ hostOpen < HostMax /\ hostOpen' = hostOpen + 1
      BY <2>1 DEF OpenExecutable
    <3>2. IsFiniteSet(loading') /\ Cardinality(loading') = Cardinality(loading) + 1
      BY <3>1, FS_AddElement
    <3> QED
      BY <1>3, <1>4, <3>1, <3>2, FileTableAssumption
  <2>2. CASE CloseExecutable(p)
    <3>1. p \in loading /\ loading' = loading \ {p} /\ hostOpen' = hostOpen - 1
      BY <2>2 DEF CloseExecutable
    <3>2. IsFiniteSet(loading \ {p}) /\ Cardinality(loading \ {p}) = Cardinality(loading) - 1
      BY <3>1, FS_RemoveElement
    <3>3. Cardinality(loading') \in Nat
      BY <3>1, <3>2, FS_CardinalityType
    <3> QED
      BY <1>3, <1>4, <3>1, <3>2, <3>3, FileTableAssumption
  <2> QED
    BY <2>1, <2>2
<1>6. FileTypeOK'
  BY <1>1, <1>5
<1>7. Accounted'
  BY <1>1, <1>2, <1>5 DEF Accounted
<1>8. DOMAIN core' = Procs /\ IsFiniteSet(OpenSlots')
  BY <1>1, <1>2
<1>9. AppendsKept /\ ReaderSeesLog
  OBVIOUS
<1> HIDE DEF FileTypeOK, FilesInv
<1>10. AppendsKept'
  BY <1>1, <1>9 DEF AppendsKept
<1>11. ReaderSeesLog'
  BY <1>1, <1>9 DEF ReaderSeesLog
<1> QED
  BY <1>5, <1>6, <1>7, <1>8, <1>10, <1>11 DEF FilesInv

LEMMA BuffersAreBytes ==
  /\ \A data \in Buffers : data \in Seq(Byte)
  /\ \A n \in Counts : n \in Nat \ {0}
BY FileTableAssumption

LEMMA SysReadKeeps ==
  ASSUME FilesInv, NEW p \in Procs, NEW fid \in FileId, NEW n \in Nat \ {0}, SysRead(p, fid, n) PROVE FilesInv'
<1>1. CASE ReadFile(p, fid, n)
  BY <1>1, ReadFileKeeps
<1>2. CASE ~ ReadFile(p, fid, n)
  <2>1. Quiet(p)
    BY <1>2 DEF SysRead, Quiet
  <2> QED
    BY <2>1, QuietKeepsFiles
<1> QED
  BY <1>1, <1>2

LEMMA SysWriteKeeps ==
  ASSUME FilesInv, NEW p \in Procs, NEW fid \in FileId, NEW data \in Seq(Byte), SysWrite(p, fid, data) PROVE FilesInv'
<1>1. CASE WriteFile(p, fid, data)
  BY <1>1, WriteFileKeeps
<1>2. CASE ~ WriteFile(p, fid, data)
  <2>1. ShownOf(data) \in Nat /\ 0 \in Nat
    BY ShownIsNat
  <2>2. Quiet(p)
    BY <1>2, <2>1 DEF SysWrite, Quiet
  <2> QED
    BY <2>2, QuietKeepsFiles
<1> QED
  BY <1>1, <1>2

LEMMA SysAppendKeeps ==
  ASSUME FilesInv, NEW p \in Procs, NEW fid \in FileId, NEW data \in Seq(Byte), SysAppend(p, fid, data) PROVE FilesInv'
<1>1. CASE AppendFile(p, fid, data)
  BY <1>1, AppendFileKeeps
<1>2. CASE ~ AppendFile(p, fid, data)
  <2>1. ShownOf(data) \in Nat /\ 0 \in Nat
    BY ShownIsNat
  <2>2. Quiet(p)
    BY <1>2, <2>1 DEF SysAppend, Quiet
  <2> QED
    BY <2>2, QuietKeepsFiles
<1> QED
  BY <1>1, <1>2

\* Any call of a program of which nothing is known.
LEMMA FileStepKeeps ==
  ASSUME FilesInv, NEW p \in Procs, FileStep(p) PROVE FilesInv'
<1>1. ASSUME NEW n \in Names, CreateFile(p, n) \/ OpenFails(p, n) PROVE FilesInv'
  BY <1>1, CreateFileKeeps, QuietKeepsFiles DEF Quiet
<1>2. ASSUME NEW n \in Names, NEW t \in {0, 1}, Open(p, n, t) PROVE FilesInv'
  BY <1>2, OpenKeeps
<1>3. ASSUME NEW t \in {2, 3}, OpenConsole(p, t) PROVE FilesInv'
  BY <1>3, QuietKeepsFiles DEF Quiet
<1>4. ASSUME NEW fid \in FileId, Close(p, fid) PROVE FilesInv'
  BY <1>4, CloseKeeps
<1>5. ASSUME NEW fid \in FileId, NEW n \in Counts, SysRead(p, fid, n) PROVE FilesInv'
  BY <1>5, BuffersAreBytes, SysReadKeeps
<1>6. ASSUME NEW fid \in FileId, NEW data \in Buffers, SysWrite(p, fid, data) \/ SysAppend(p, fid, data) PROVE FilesInv'
  BY <1>6, BuffersAreBytes, SysWriteKeeps, SysAppendKeeps
<1>7. CASE Transfer(p) \/ ConsoleReturn(p)
  BY <1>7, QuietKeepsFiles DEF Quiet
<1>8. CASE ExitFiles(p)
  BY <1>8, ExitFilesKeeps
<1> QED
  BY <1>1, <1>2, <1>3, <1>4, <1>5, <1>6, <1>7, <1>8 DEF FileStep

-----------------------------------------------------------------------------
(* The calls of the programs *)

Started == {Children[i] : i \in DOMAIN Children}

MainCalls ==
  [op : {"CreateSemaphore"}, arg : SemNames] \cup [op : {"CreateFile"}, arg : {0}]
    \cup [op : {"Exec", "Join"}, arg : Started]

TurnCalls ==
  [op : {"Wait", "Signal"}, arg : {"print", "ping", "pong"}] \cup [op : {"PrintChar"}, arg : {"A", "B"}]
    \cup [op : {"Exit"}, arg : {0}]

StudentCalls ==
  [op : {"Wait", "Signal"}, arg : {"tape"}] \cup [op : {"Open", "Close", "Exit"}, arg : {0}]
    \cup [op : {"OpenElse"}, arg : {3}] \cup [op : {"Append"}, arg : {"record"}]

LEMMA LoopIsSeq ==
  ASSUME NEW S, NEW body \in Seq(S), NEW n \in Nat, body # <<>>
  PROVE  Loop(n, body) \in Seq(S) /\ Len(Loop(n, body)) = n * Len(body)
<1>1. Len(body) \in Nat \ {0}
  BY EmptySeq
<1>2. n * Len(body) \in Nat
  BY <1>1
<1>3. \A i \in 1 .. n * Len(body) : ((i - 1) % Len(body)) + 1 \in 1 .. Len(body)
  BY <1>1, <1>2
<1>4. Loop(n, body) \in [1 .. n * Len(body) -> S]
  BY <1>3 DEF Loop
<1> HIDE DEF Loop
<1> QED
  BY <1>2, <1>4, FunctionIsSeq

LEMMA ProgramsAreSeqs ==
  /\ PingPong \in Seq(MainCalls) /\ Project2 \in Seq(MainCalls)
  /\ Ping \in Seq(TurnCalls) /\ Pong \in Seq(TurnCalls) /\ Student \in Seq(StudentCalls)
<1> USE UserProgramsAssumption
<1>1. Len(Children) \in Nat /\ DOMAIN Children = 1 .. Len(Children)
  OBVIOUS
<1>2. StartAll \in Seq(MainCalls) /\ JoinAll \in Seq(MainCalls)
  <2>1. /\ StartAll \in [1 .. Len(Children) -> MainCalls]
        /\ JoinAll \in [1 .. Len(Children) -> MainCalls]
    BY <1>1 DEF StartAll, JoinAll, MainCalls, Call, Started
  <2> HIDE DEF StartAll, JoinAll, MainCalls
  <2> QED
    BY <1>1, <2>1, FunctionIsSeq
<1>3. PingPong \in Seq(MainCalls)
  <2> DEFINE first == << Call("CreateSemaphore", "print"), Call("CreateSemaphore", "ping"),
                         Call("CreateSemaphore", "pong") >>
  <2>1. /\ Call("CreateSemaphore", "print") \in MainCalls /\ Call("CreateSemaphore", "ping") \in MainCalls
        /\ Call("CreateSemaphore", "pong") \in MainCalls
    BY DEF Call, MainCalls
  <2>2. first \in Seq(MainCalls)
    BY <2>1
  <2>3. PingPong = first \o StartAll \o JoinAll
    BY DEF PingPong
  <2> HIDE DEF first, MainCalls, StartAll, JoinAll
  <2> QED
    BY <1>2, <2>2, <2>3, PutBehind
<1>4. Project2 \in Seq(MainCalls)
  <2> DEFINE first == << Call("CreateFile", 0), Call("CreateSemaphore", "tape") >>
  <2>1. Call("CreateFile", 0) \in MainCalls /\ Call("CreateSemaphore", "tape") \in MainCalls
    BY DEF Call, MainCalls
  <2>2. first \in Seq(MainCalls)
    BY <2>1
  <2>3. Project2 = first \o StartAll \o JoinAll
    BY DEF Project2
  <2> HIDE DEF first, MainCalls, StartAll, JoinAll
  <2> QED
    BY <1>2, <2>2, <2>3, PutBehind
<1>5. Ping \in Seq(TurnCalls)
  <2>1. /\ Call("Wait", "ping") \in TurnCalls /\ Call("Wait", "print") \in TurnCalls
        /\ Call("PrintChar", "A") \in TurnCalls /\ Call("Signal", "pong") \in TurnCalls
        /\ Call("Signal", "print") \in TurnCalls /\ Call("Exit", 0) \in TurnCalls
    BY DEF Call, TurnCalls
  <2>2. PingBody \in Seq(TurnCalls) /\ << Call("Exit", 0) >> \in Seq(TurnCalls) /\ PingBody # <<>>
    BY <2>1 DEF PingBody
  <2> HIDE DEF TurnCalls, PingBody
  <2>3. Loop(Turns, PingBody) \in Seq(TurnCalls)
    BY <2>2, LoopIsSeq
  <2> HIDE DEF Loop
  <2> QED
    BY <2>2, <2>3, PutBehind DEF Ping
<1>6. Pong \in Seq(TurnCalls)
  <2>1. /\ Call("Wait", "pong") \in TurnCalls /\ Call("Wait", "print") \in TurnCalls
        /\ Call("PrintChar", "B") \in TurnCalls /\ Call("Signal", "ping") \in TurnCalls
        /\ Call("Signal", "print") \in TurnCalls /\ Call("Exit", 0) \in TurnCalls
    BY DEF Call, TurnCalls
  <2>2. PongBody \in Seq(TurnCalls) /\ << Call("Exit", 0) >> \in Seq(TurnCalls) /\ PongBody # <<>>
    BY <2>1 DEF PongBody
  <2> HIDE DEF TurnCalls, PongBody
  <2>3. Loop(Turns, PongBody) \in Seq(TurnCalls)
    BY <2>2, LoopIsSeq
  <2> HIDE DEF Loop
  <2> QED
    BY <2>2, <2>3, PutBehind DEF Pong
<1>7. Student \in Seq(StudentCalls)
  <2>1. /\ Call("Open", 0) \in StudentCalls /\ Call("OpenElse", 3) \in StudentCalls
        /\ Call("Wait", "tape") \in StudentCalls /\ Call("Append", "record") \in StudentCalls
        /\ Call("Signal", "tape") \in StudentCalls /\ Call("Close", 0) \in StudentCalls
        /\ Call("Exit", 0) \in StudentCalls
    BY DEF Call, StudentCalls
  <2> DEFINE first == << Call("Open", 0), Call("OpenElse", 3) >>
             last  == << Call("Close", 0), Call("Exit", 0) >>
  <2>2. /\ StudentBody \in Seq(StudentCalls) /\ StudentBody # <<>>
        /\ first \in Seq(StudentCalls) /\ last \in Seq(StudentCalls)
    BY <2>1 DEF StudentBody
  <2>3. Student = first \o Loop(Records, StudentBody) \o last
    BY DEF Student
  <2> HIDE DEF StudentCalls, StudentBody, first, last
  <2>4. Loop(Records, StudentBody) \in Seq(StudentCalls)
    BY <2>2, LoopIsSeq
  <2> HIDE DEF Loop
  <2> QED
    BY <2>2, <2>3, <2>4, PutBehind
<1> QED
  BY <1>3, <1>4, <1>5, <1>6, <1>7

\* What the next call of a process is.
LEMMA NextCall ==
  ASSUME NEW p \in Scripted, story \in {"pingpong", "tape"}, at[p] \in Nat, at[p] > 0, ~ Ended(p)
  PROVE  /\ p = Main => Program(p)[at[p]] \in MainCalls
         /\ p # Main /\ story = "pingpong" => Program(p)[at[p]] \in TurnCalls
         /\ p # Main /\ story = "tape" => Program(p)[at[p]] \in StudentCalls
<1>1. at[p] <= Len(Program(p))
  <2>1. Program(p) \in {PingPong, Pong, Ping, Project2, Student}
    BY DEF Program
  <2>2. Len(Program(p)) \in Nat
    <3> HIDE DEF PingPong, Pong, Ping, Project2, Student, MainCalls, TurnCalls, StudentCalls
    <3> QED
      BY <2>1, ProgramsAreSeqs, LenProperties
  <2> QED
    BY <2>2 DEF Ended
<1>2. \A S : \A s \in Seq(S) : at[p] <= Len(s) => s[at[p]] \in S
  OBVIOUS
<1>3. CASE p = Main /\ story = "pingpong"
  <2>1. Program(p) = PingPong
    BY <1>3 DEF Program
  <2> QED
    BY <1>1, <1>2, <1>3, <2>1, ProgramsAreSeqs, Zenon
<1>4. CASE p = Main /\ story = "tape"
  <2>1. Program(p) = Project2
    BY <1>4 DEF Program
  <2> QED
    BY <1>1, <1>2, <1>4, <2>1, ProgramsAreSeqs, Zenon
<1>5. CASE p # Main /\ story = "pingpong"
  <2>1. Program(p) = Ping \/ Program(p) = Pong
    BY <1>5 DEF Program
  <2> QED
    BY <1>1, <1>2, <1>5, <2>1, ProgramsAreSeqs, Zenon
<1>6. CASE p # Main /\ story = "tape"
  <2>1. Program(p) = Student
    BY <1>6 DEF Program
  <2> QED
    BY <1>1, <1>2, <1>6, <2>1, ProgramsAreSeqs, Zenon
<1> QED
  BY <1>3, <1>4, <1>5, <1>6

\* Arguments are what the calls need.
LEMMA Arguments ==
  ASSUME NEW p \in Scripted, story \in {"pingpong", "tape"}, at \in [Scripted -> Nat], NEW op, Calls(p, op)
  PROVE  /\ op \in {"CreateSemaphore", "Wait", "Signal"} => Arg(p) \in SemNames
         /\ op \in {"Exec", "Join"} => Arg(p) \in Started
         /\ op = "Open" => Arg(p) = 0
         /\ op = "OpenElse" => Arg(p) = 3
         /\ op = "PrintChar" => Arg(p) \in {"A", "B"}
         /\ op \in {"Append", "Wait", "Signal", "PrintChar"} => p # Main
<1>1. at[p] > 0 /\ ~ Ended(p) /\ Program(p)[at[p]].op = op /\ at[p] \in Nat
  BY DEF Calls
<1>2. \/ p = Main /\ Program(p)[at[p]] \in MainCalls
      \/ p # Main /\ Program(p)[at[p]] \in TurnCalls
      \/ p # Main /\ Program(p)[at[p]] \in StudentCalls
  BY <1>1, NextCall, Zenon
<1> DEFINE c == Program(p)[at[p]]
<1>3. Arg(p) = c.arg /\ c.op = op
  BY <1>1 DEF Arg
<1>4. c \in MainCalls \/ c \in TurnCalls \/ c \in StudentCalls
  BY <1>2
<1>5. c \in MainCalls => op \notin {"Append", "Wait", "Signal", "PrintChar"}
  BY <1>3 DEF MainCalls
<1> HIDE DEF c
<1>6. /\ op \in {"CreateSemaphore", "Wait", "Signal"} => c.arg \in SemNames
      /\ op \in {"Exec", "Join"} => c.arg \in Started
      /\ op = "Open" => c.arg = 0
      /\ op = "OpenElse" => c.arg = 3
      /\ op = "PrintChar" => c.arg \in {"A", "B"}
  BY <1>3, <1>4, UserProgramsAssumption DEF MainCalls, TurnCalls, StudentCalls
<1> QED
  BY <1>2, <1>3, <1>5, <1>6 DEF c

LEMMA ScriptedAreCallers ==
  /\ Scripted = {Main} \cup Started /\ Started \subseteq Procs \cap Callers /\ Main \in Procs \cap Callers
  /\ Main \notin Started /\ Free \subseteq Procs
BY UserProgramsAssumption DEF Scripted, Started

LEMMA RecordIsBytes ==
  ASSUME NEW p \in Started PROVE Record(p) \in Seq(Byte)
<1> DEFINE digit == CHOOSE i \in DOMAIN Children : Children[i] = p
<1>1. \E i \in DOMAIN Children : Children[i] = p
  BY DEF Started
<1>2. digit \in DOMAIN Children
  BY <1>1
<1> HIDE DEF digit
<1>3. Len(Children) \in Nat /\ DOMAIN Children = 1 .. Len(Children) /\ 1 .. Len(Children) + 1 \subseteq Bytes
  BY UserProgramsAssumption
<1>4. digit \in Byte /\ Len(Children) + 1 \in Byte
  BY <1>2, <1>3 DEF Byte
<1>5. Record(p) = << digit, Len(Children) + 1 >>
  BY DEF Record, digit
<1> QED
  BY <1>4, <1>5

-----------------------------------------------------------------------------
(* The invariant of the files, for all programs *)

\* The files as above, and every variable of the programs well formed.
FilesIInv == FilesInv /\ ProgramsTypeOK

Images == {"none", "forked", "loaded", "refused", "failed"}

LEMMA ProgramsStart == ProgramsInit => FilesIInv
<1> SUFFICES ASSUME ProgramsInit PROVE FilesIInv
  OBVIOUS
<1>1. FilesInv
  BY FilesInit DEF ProgramsInit
<1>2. SemTypeOK
  <2>1. semTab = <<>> /\ <<>> \in Seq([name : SemNames, value : Int]) /\ Len(<<>>) = 0
    BY DEF ProgramsInit, SemInit
  <2> QED
    BY <2>1 DEF ProgramsInit, SemInit, SemTypeOK
<1>3. /\ story \in {"pingpong", "tape"} /\ at \in [Scripted -> Nat] /\ image \in [Scripted -> Images]
      /\ out_file \in [Scripted -> -1 .. NFile] /\ freeCalls \in 0 .. MaxFreeCalls
  BY FileTableAssumption, UserProgramsAssumption DEF ProgramsInit, Images
<1> QED
  BY <1>1, <1>2, <1>3 DEF FilesIInv, ProgramsTypeOK, FilesInv, Images

LEMMA SemSlot ==
  ASSUME SemTypeOK, NEW i \in DOMAIN semTab
  PROVE  /\ i \in 1 .. Len(semTab) /\ Len(semTab) \in Nat
         /\ semTab[i].name \in SemNames /\ semTab[i].value \in Int
         /\ \A v \in Int : LET t == [semTab EXCEPT ![i].value = v]
                          IN  /\ t \in Seq([name : SemNames, value : Int]) /\ Len(t) = Len(semTab)
                              /\ t[i].value = v
                              /\ \A j \in DOMAIN semTab : t[j].name = semTab[j].name
                              /\ \A j \in DOMAIN semTab : j # i => t[j] = semTab[j]
<1> DEFINE E == [name : SemNames, value : Int]
<1>1. semTab \in Seq(E)
  BY DEF SemTypeOK
<1> HIDE DEF E
<1>2. i \in 1 .. Len(semTab) /\ Len(semTab) \in Nat /\ semTab[i] \in E /\ DOMAIN semTab = 1 .. Len(semTab)
  BY <1>1
<1>3. semTab[i].name \in SemNames /\ semTab[i].value \in Int
  BY <1>2 DEF E
<1>4. ASSUME NEW v \in Int
      PROVE  LET t == [semTab EXCEPT ![i].value = v]
             IN  /\ t \in Seq(E) /\ Len(t) = Len(semTab) /\ t[i].value = v
                 /\ \A j \in DOMAIN semTab : t[j].name = semTab[j].name
                 /\ \A j \in DOMAIN semTab : j # i => t[j] = semTab[j]
  <2> DEFINE e == [semTab[i] EXCEPT !.value = v]
             t == [semTab EXCEPT ![i] = e]
  <2>1. e \in E /\ e.value = v /\ e.name = semTab[i].name
    BY <1>2 DEF E
  <2> HIDE DEF e
  <2>2. t \in Seq(E) /\ Len(t) = Len(semTab) /\ \A j \in 1 .. Len(semTab) : t[j] = IF j = i THEN e ELSE semTab[j]
    BY <1>1, <1>2, <2>1, ExceptSeq
  <2>3. [semTab EXCEPT ![i].value = v] = t
    BY DEF e
  <2> HIDE DEF t
  <2> QED
    BY <1>2, <2>1, <2>2, <2>3
<1> QED
  BY <1>2, <1>3, <1>4 DEF E

LEMMA SemaphoreTypes ==
  ASSUME SemTypeOK, NEW n \in SemNames, NEW c \in Callers,
         CreateSemaphore(n, 1) \/ CreateFails(n) \/ Wait(c, n) \/ UnknownName(n) \/ Signal(n) \/ WaitPass(c)
  PROVE  SemTypeOK'
<1> DEFINE E == [name : SemNames, value : Int]
<1>1. CASE CreateFails(n) \/ UnknownName(n)
  BY <1>1 DEF CreateFails, UnknownName, semVars, SemTypeOK
<1>2. CASE CreateSemaphore(n, 1)
  <2>1. semTab' = Append(semTab, [name |-> n, value |-> 1]) /\ [name |-> n, value |-> 1] \in E
    BY <1>2 DEF CreateSemaphore
  <2> HIDE DEF E
  <2>2. semTab' \in Seq(E) /\ Len(semTab') = Len(semTab) + 1 /\ Len(semTab) \in Nat
    BY <2>1, AppendProperties DEF E, SemTypeOK
  <2>3. waitsOn' \in [Callers -> 0 .. Len(semTab')]
    BY <1>2, <2>2 DEF CreateSemaphore, SemTypeOK
  <2> QED
    BY <1>2, <2>2, <2>3 DEF CreateSemaphore, E, SemTypeOK
<1>3. ASSUME NEW i \in DOMAIN semTab, Pass(c, i) PROVE SemTypeOK'
  <2>1. semTab[i].name \in SemNames /\ semTab[i].value - 1 \in Int
    BY SemSlot
  <2>2. semTab' = [semTab EXCEPT ![i].value = semTab[i].value - 1]
    BY <1>3 DEF Pass
  <2> HIDE DEF E
  <2>4. semTab' \in Seq(E) /\ Len(semTab') = Len(semTab)
    BY <2>1, <2>2, SemSlot DEF E
  <2>5. passed' \in [SemNames -> Nat]
    <3> DEFINE m == semTab[i].name
    <3>1. passed \in [SemNames -> Nat] /\ passed' = [passed EXCEPT ![m] = passed[m] + 1] /\ m \in SemNames
      BY <1>3, <2>1 DEF Pass, SemTypeOK
    <3> HIDE DEF m
    <3> QED
      BY <3>1
  <2>6. waitsOn' \in [Callers -> 0 .. Len(semTab')]
    BY <1>3, <2>4 DEF Pass, SemTypeOK
  <2> QED
    BY <1>3, <2>4, <2>5, <2>6 DEF Pass, E, SemTypeOK
<1>4. CASE Wait(c, n)
  <2>1. PICK i \in DOMAIN semTab : \/ Pass(c, i)
                                   \/ /\ waitsOn' = [waitsOn EXCEPT ![c] = i]
                                      /\ UNCHANGED <<semTab, initial, passed, given>>
    BY <1>4 DEF Wait
  <2>2. CASE waitsOn' = [waitsOn EXCEPT ![c] = i] /\ UNCHANGED <<semTab, initial, passed, given>>
    <3>1. i \in 0 .. Len(semTab)
      BY SemSlot
    <3> QED
      BY <2>2, <3>1 DEF SemTypeOK
  <2> QED
    BY <1>3, <2>1, <2>2
<1>5. CASE WaitPass(c)
  <2>1. waitsOn[c] \in DOMAIN semTab /\ Pass(c, waitsOn[c])
    BY <1>5 DEF WaitPass, SemTypeOK
  <2> QED
    BY <1>3, <2>1
<1>6. CASE Signal(n)
  <2>1. PICK i \in DOMAIN semTab : semTab' = [semTab EXCEPT ![i].value = @ + 1]
    BY <1>6 DEF Signal
  <2>2. semTab' = [semTab EXCEPT ![i].value = semTab[i].value + 1] /\ semTab[i].value + 1 \in Int
    BY <2>1, SemSlot
  <2> HIDE DEF E
  <2>4. semTab' \in Seq(E) /\ Len(semTab') = Len(semTab)
    BY <2>2, SemSlot DEF E
  <2>5. given' \in [SemNames -> Nat]
    <3>1. given \in [SemNames -> Nat] /\ given' = [given EXCEPT ![n] = given[n] + 1]
      BY <1>6 DEF Signal, SemTypeOK
    <3> QED
      BY <3>1
  <2> QED
    BY <1>6, <2>4, <2>5 DEF Signal, E, SemTypeOK
<1> QED
  BY <1>1, <1>2, <1>4, <1>5, <1>6

\* The calls on the files leave the semaphores alone, and the other calls
\* the files.
LEMMA SemsUntouched == ASSUME SemTypeOK, UNCHANGED semVars PROVE SemTypeOK'
BY DEF SemTypeOK, semVars

LEMMA FilesUntouched == ASSUME FilesInv, UNCHANGED fileVars PROVE FilesInv'
<1>1. UNCHANGED <<exists, content, core, hostOpen, loading, held, lost, log, appendOnly, calling, outcome, misused>>
  BY DEF fileVars
<1>2. /\ calling' \in [Procs -> [op : {"none", "Read", "Write"}, left : Nat, count : Nat]]
      /\ outcome' \in {"running", "null", "outside", "freed"}
      /\ misused' \in BOOLEAN /\ (outcome' \in {"null", "outside"} => misused')
  BY <1>1 DEF FilesInv, FileTypeOK, Accounted
<1> QED
  BY <1>1, <1>2, FilesQuiet

LEMMA AdvanceTypes ==
  ASSUME NEW p \in Scripted, at \in [Scripted -> Nat], Advance(p) PROVE at' \in [Scripted -> Nat]
BY DEF Advance

LEMMA ImageTypes ==
  ASSUME NEW p \in Scripted, image \in [Scripted -> Images], Step(p) PROVE image' \in [Scripted -> Images]
<1>1. CASE UNCHANGED image
  BY <1>1
<1>2. ASSUME NEW c, NEW x \in Images, image' = [image EXCEPT ![c] = x] PROVE image' \in [Scripted -> Images]
  BY <1>2
<1>3. CASE CallExec(p)
  <2>1. \E x \in Images : image' = [image EXCEPT ![Arg(p)] = x]
    BY <1>3 DEF CallExec, Images
  <2> QED
    BY <1>2, <2>1
<1>4. CASE LoadOpens(p) \/ LoadEnds(p)
  <2>1. UNCHANGED image \/ \E x \in Images : image' = [image EXCEPT ![p] = x]
    BY <1>4 DEF LoadOpens, LoadEnds, Images
  <2> QED
    BY <1>1, <1>2, <2>1
<1>5. CASE ~ (CallExec(p) \/ LoadOpens(p) \/ LoadEnds(p))
  <2>1. UNCHANGED image
    BY <1>5 DEF Step, CallCreateSemaphore, CallWait, CallSignal, CallPrintChar, CallJoin, CallCreateFile,
                CallOpen, CallOpenElse, CallAppend, CallClose, CallExit, Console
  <2> QED
    BY <1>1, <2>1
<1> QED
  BY <1>3, <1>4, <1>5

LEMMA StepKeepsFiles ==
  ASSUME FilesIInv, NEW p \in Scripted, Step(p) PROVE FilesIInv'
<1>1. /\ FilesInv /\ SemTypeOK /\ story \in {"pingpong", "tape"} /\ at \in [Scripted -> Nat]
      /\ out_file \in [Scripted -> -1 .. NFile] /\ freeCalls \in 0 .. MaxFreeCalls
      /\ image \in [Scripted -> Images]
  BY DEF FilesIInv, ProgramsTypeOK, Images
<1>2. p \in Procs /\ p \in Callers
  BY ScriptedAreCallers
<1>3. UNCHANGED <<story, freeCalls>>
  BY DEF Step, CallCreateSemaphore, CallWait, CallSignal, CallPrintChar, CallExec, CallJoin, CallCreateFile,
         CallOpen, CallOpenElse, CallAppend, CallClose, CallExit, Console, LoadOpens, LoadEnds
<1>16. image' \in [Scripted -> Images]
  BY <1>1, ImageTypes
<1> SUFFICES FilesInv' /\ SemTypeOK' /\ at' \in [Scripted -> Nat] /\ out_file' \in [Scripted -> -1 .. NFile]
  BY <1>1, <1>3, <1>16, Zenon DEF FilesIInv, ProgramsTypeOK, FilesInv, Images
<1>4. CASE CallCreateSemaphore(p)
  <2>1. /\ Calls(p, "CreateSemaphore") /\ (CreateSemaphore(Arg(p), 1) \/ CreateFails(Arg(p))) /\ Advance(p)
        /\ UNCHANGED <<fileVars, out_file>>
    BY <1>4 DEF CallCreateSemaphore
  <2>2. Arg(p) \in SemNames
    BY <1>1, <2>1, Arguments
  <2> QED
    BY <1>1, <1>2, <2>1, <2>2, SemaphoreTypes, FilesUntouched, AdvanceTypes
<1>5. CASE CallWait(p)
  <2>1. Calls(p, "Wait") /\ (Wait(p, Arg(p)) \/ UnknownName(Arg(p))) /\ Advance(p) /\ UNCHANGED <<fileVars, out_file>>
    BY <1>5 DEF CallWait
  <2>2. Arg(p) \in SemNames
    BY <1>1, <2>1, Arguments
  <2> QED
    BY <1>1, <1>2, <2>1, <2>2, SemaphoreTypes, FilesUntouched, AdvanceTypes
<1>6. CASE CallSignal(p)
  <2>1. Calls(p, "Signal") /\ (Signal(Arg(p)) \/ UnknownName(Arg(p))) /\ Advance(p) /\ UNCHANGED <<fileVars, out_file>>
    BY <1>6 DEF CallSignal
  <2>2. Arg(p) \in SemNames
    BY <1>1, <2>1, Arguments
  <2> QED
    BY <1>1, <1>2, <2>1, <2>2, SemaphoreTypes, FilesUntouched, AdvanceTypes
<1>7. CASE CallPrintChar(p) \/ CallJoin(p)
  <2>1. Advance(p) /\ UNCHANGED <<fileVars, semVars, out_file>>
    BY <1>7 DEF CallPrintChar, CallJoin
  <2> QED
    BY <1>1, <2>1, SemsUntouched, FilesUntouched, AdvanceTypes
<1>8. CASE CallExec(p)
  <2>1. /\ at' = [at EXCEPT ![p] = @ + 1, ![Arg(p)] = 1] \/ Advance(p)
        /\ UNCHANGED <<fileVars, semVars, out_file>>
    BY <1>8 DEF CallExec
  <2> DEFINE one == [at EXCEPT ![p] = at[p] + 1]
             c   == Arg(p)
  <2>2. one \in [Scripted -> Nat]
    BY <1>1
  <2>3. at' = [one EXCEPT ![c] = 1] \/ at' = one
    BY <2>1 DEF Advance
  <2> HIDE DEF one, c
  <2>4. at' \in [Scripted -> Nat]
    BY <2>2, <2>3
  <2> QED
    BY <1>1, <2>1, <2>4, SemsUntouched, FilesUntouched
<1>9. CASE CallCreateFile(p)
  <2>1. CreateFile(p, Output) /\ Advance(p) /\ UNCHANGED <<semVars, out_file>>
    BY <1>9 DEF CallCreateFile
  <2>2. Output \in Names
    BY UserProgramsAssumption
  <2> QED
    BY <1>1, <1>2, <2>1, <2>2, SemsUntouched, CreateFileKeeps, AdvanceTypes
<1>10. CASE CallOpen(p)
  <2>1. /\ Calls(p, "Open") /\ (OpenFails(p, Output) \/ Open(p, Output, Arg(p))) /\ Advance(p) /\ UNCHANGED semVars
        /\ out_file' = [out_file EXCEPT ![p] = result'.value]
    BY <1>10 DEF CallOpen
  <2>2. Output \in Names /\ Arg(p) \in {0, 1}
    BY <1>1, <2>1, Arguments, UserProgramsAssumption
  <2>3. FilesInv'
    BY <1>1, <1>2, <2>1, <2>2, OpenKeeps, QuietKeepsFiles DEF Quiet
  <2>4. result'.value \in -1 .. NFile
    <3>1. CASE OpenFails(p, Output)
      BY <3>1, FileTableAssumption DEF OpenFails, Returns
    <3>2. CASE Open(p, Output, Arg(p))
      BY <3>2, FileTableAssumption DEF Open, Returns
    <3> QED
      BY <2>1, <3>1, <3>2
  <2>5. out_file' \in [Scripted -> -1 .. NFile]
    BY <1>1, <2>1, <2>4
  <2> QED
    BY <1>1, <2>1, <2>3, <2>5, SemsUntouched, AdvanceTypes
<1>11. CASE CallOpenElse(p)
  <2>1. /\ Calls(p, "OpenElse") /\ Advance(p) /\ UNCHANGED semVars
        /\ IF out_file[p] = -1 THEN OpenConsole(p, Arg(p)) /\ out_file' = [out_file EXCEPT ![p] = result'.value]
           ELSE UNCHANGED <<fileVars, out_file>>
    BY <1>11 DEF CallOpenElse
  <2>2. Arg(p) \in {2, 3}
    BY <1>1, <2>1, Arguments
  <2>3. CASE out_file[p] = -1
    <3>1. OpenConsole(p, Arg(p)) /\ out_file' = [out_file EXCEPT ![p] = result'.value]
      BY <2>1, <2>3
    <3>2. FilesInv'
      BY <1>1, <1>2, <2>2, <3>1, QuietKeepsFiles DEF Quiet
    <3>3. result'.value \in -1 .. NFile
      BY <3>1, FileTableAssumption DEF OpenConsole, Returns, STDIN, STDOUT
    <3>4. out_file' \in [Scripted -> -1 .. NFile]
      BY <1>1, <3>1, <3>3
    <3> QED
      BY <1>1, <2>1, <3>2, <3>4, SemsUntouched, AdvanceTypes
  <2>4. CASE out_file[p] # -1
    BY <1>1, <2>1, <2>4, SemsUntouched, FilesUntouched, AdvanceTypes
  <2> QED
    BY <2>3, <2>4
<1>12. CASE CallAppend(p)
  <2>1. /\ Calls(p, "Append") /\ SysAppend(p, out_file[p], Record(p)) /\ Advance(p) /\ UNCHANGED <<semVars, out_file>>
    BY <1>12 DEF CallAppend
  <2>2. p \in Started /\ out_file[p] \in FileId
    BY <1>1, <2>1, Arguments, ScriptedAreCallers DEF FileId
  <2> QED
    BY <1>1, <1>2, <2>1, <2>2, RecordIsBytes, SysAppendKeeps, SemsUntouched, AdvanceTypes
<1>13. CASE CallClose(p)
  <2>1. Close(p, out_file[p]) /\ Advance(p) /\ UNCHANGED <<semVars, out_file>>
    BY <1>13 DEF CallClose
  <2> QED
    BY <1>1, <1>2, <2>1, CloseKeeps, SemsUntouched, AdvanceTypes
<1>14. CASE CallExit(p)
  <2>1. ExitFiles(p) /\ Advance(p) /\ UNCHANGED <<semVars, out_file>>
    BY <1>14 DEF CallExit
  <2> QED
    BY <1>1, <1>2, <2>1, ExitFilesKeeps, SemsUntouched, AdvanceTypes
<1>15. CASE Console(p)
  <2>1. (Transfer(p) \/ ConsoleReturn(p)) /\ UNCHANGED <<semVars, out_file, at>>
    BY <1>15 DEF Console
  <2> QED
    BY <1>1, <1>2, <2>1, QuietKeepsFiles, SemsUntouched DEF Quiet
<1>17. CASE LoadOpens(p) \/ LoadEnds(p)
  <2>1. /\ OpenExecutable(p) \/ CloseExecutable(p) \/ UNCHANGED fileVars
        /\ UNCHANGED <<semVars, at, out_file>>
    BY <1>17 DEF LoadOpens, LoadEnds
  <2> QED
    BY <1>1, <1>2, <2>1, ExecutableKeeps, FilesUntouched, SemsUntouched
<1> QED
  BY <1>4, <1>5, <1>6, <1>7, <1>8, <1>9, <1>10, <1>11, <1>12, <1>13, <1>14, <1>15, <1>17 DEF Step

LEMMA NextKeepsFiles ==
  ASSUME FilesIInv, [ProgramsNext]_programVars PROVE FilesIInv'
<1>1. /\ FilesInv /\ SemTypeOK /\ story \in {"pingpong", "tape"} /\ at \in [Scripted -> Nat]
      /\ out_file \in [Scripted -> -1 .. NFile] /\ freeCalls \in 0 .. MaxFreeCalls
      /\ image \in [Scripted -> Images]
  BY DEF FilesIInv, ProgramsTypeOK, Images
<1>2. ASSUME FilesInv', SemTypeOK', UNCHANGED <<story, at, image, out_file>>, freeCalls' \in 0 .. MaxFreeCalls
      PROVE  FilesIInv'
  BY <1>1, <1>2, Zenon DEF FilesIInv, ProgramsTypeOK, FilesInv, Images
<1>3. ASSUME NEW p \in Scripted, WaitReturns(p) PROVE FilesIInv'
  <2>1. WaitPass(p) /\ UNCHANGED <<fileVars, story, at, image, out_file, freeCalls>>
    BY <1>3 DEF WaitReturns
  <2>2. "tape" \in SemNames /\ p \in Callers
    BY UserProgramsAssumption, ScriptedAreCallers
  <2>3. SemTypeOK'
    BY <1>1, <2>1, <2>2, SemaphoreTypes
  <2> QED
    BY <1>1, <1>2, <2>1, <2>3, FilesUntouched
<1>4. ASSUME NEW p \in Free, FreeCall(p) PROVE FilesIInv'
  <2>1. p \in Procs /\ UNCHANGED <<story, at, image, out_file>>
    BY <1>4, ScriptedAreCallers DEF FreeCall
  <2>2. MaxFreeCalls \in Nat
    BY UserProgramsAssumption
  <2>3. CASE /\ freeCalls < MaxFreeCalls \/ calling[p] # NoCall
             /\ FileStep(p)
             /\ freeCalls' = IF calling[p] = NoCall THEN freeCalls + 1 ELSE freeCalls
             /\ UNCHANGED semVars
    <3>1. freeCalls' \in 0 .. MaxFreeCalls
      BY <1>1, <2>2, <2>3
    <3>2. FilesInv' /\ SemTypeOK'
      BY <1>1, <2>1, <2>3, FileStepKeeps, SemsUntouched
    <3> QED
      BY <1>2, <2>1, <3>1, <3>2
  <2>4. CASE /\ freeCalls < MaxFreeCalls
             /\ \E n \in SemNames : CreateSemaphore(n, 1)
             /\ freeCalls' = freeCalls + 1
             /\ UNCHANGED fileVars
    <3>1. freeCalls' \in 0 .. MaxFreeCalls
      BY <1>1, <2>2, <2>4
    <3>2. Main \in Callers
      BY ScriptedAreCallers
    <3>3. FilesInv' /\ SemTypeOK'
      BY <1>1, <2>4, <3>2, SemaphoreTypes, FilesUntouched
    <3> QED
      BY <1>2, <2>1, <3>1, <3>3
  <2> QED
    BY <1>4, <2>3, <2>4 DEF FreeCall
<1>5. CASE UNCHANGED programVars
  BY <1>1, <1>2, <1>5, SemsUntouched, FilesUntouched DEF programVars
<1> QED
  BY <1>3, <1>4, <1>5, StepKeepsFiles DEF ProgramsNext

LEMMA FilesInvariant == ProgramsSpec => []FilesIInv
<1>1. ProgramsInit => FilesIInv
  BY ProgramsStart
<1>2. FilesIInv /\ [ProgramsNext]_programVars => FilesIInv'
  BY NextKeepsFiles
<1> QED
  BY <1>1, <1>2, PTL DEF ProgramsSpec

\* Every open slot of every process has one of the host's descriptors, and
\* those that are lost are the ones processes left behind; no id a process
\* holds makes the kernel look outside its table: ftable.cc:28, :51, :107.
THEOREM FilesSoundCorrect == ProgramsSpec => []FilesSound
<1>1. FilesIInv => FilesSound
  BY DEF FilesIInv, FilesInv, FilesSound
<1> QED
  BY <1>1, FilesInvariant, PTL

\* A file that is only appended to, by whatever processes, holds what they
\* appended, whole and in order: openfile.cc:269, :282.
THEOREM AppendsKeptCorrect == ProgramsSpec => []AppendsKept
<1>1. FilesIInv => AppendsKept
  BY DEF FilesIInv, FilesInv
<1> QED
  BY <1>1, FilesInvariant, PTL

\* A program that Reads through a file that grows meanwhile gets its bytes,
\* each once and in order: ftable.cc:83.
THEOREM ReaderSeesLogCorrect == ProgramsSpec => []ReaderSeesLog
<1>1. FilesIInv => ReaderSeesLog
  BY DEF FilesIInv, FilesInv
<1> QED
  BY <1>1, FilesInvariant, PTL

-----------------------------------------------------------------------------
(* A call that fails *)

Unharmed == UNCHANGED <<exists, content, hostOpen, held>>

\* What FailureChangesNothing asks of one step.
FailsClean == result'.value < 0 /\ result' # result /\ result'.op # "Close" => Unharmed

LEMMA QuietFailsClean == ASSUME NEW p \in Procs, Quiet(p) PROVE FailsClean
BY DEF Quiet, OpenFails, OpenConsole, Refused, Fails, ConsoleCall, Transfer, ConsoleReturn, FailsClean, Unharmed

\* A Write or an Append of no bytes leaves the file as it was.
LEMMA NothingWritten ==
  ASSUME NEW n \in Names, content \in [Names -> Seq(Byte)], NEW data \in Seq(Byte), data = <<>>, NEW k
  PROVE  [content EXCEPT ![n] = Overlay(@, k, User2System(data))] = content
<1>1. User2System(data) = <<>>
  <2>1. Len(User2System(data)) = 0 /\ User2System(data) \in Seq(Byte)
    BY CopyIn
  <2> QED
    BY <2>1, EmptySeq
<1> QED
  BY <1>1 DEF Overlay

LEMMA TransferFailsClean ==
  ASSUME FilesInv, NEW p \in Procs, NEW fid, NEW data \in Seq(Byte), WriteFile(p, fid, data) \/ AppendFile(p, fid, data)
  PROVE  FailsClean
<1>1. UNCHANGED <<exists, hostOpen, held>> /\ fid \in DOMAIN core[p]
  BY DEF WriteFile, AppendFile
<1>2. core[p][fid].name \in Names /\ content \in [Names -> Seq(Byte)]
  BY <1>1, FilesAreSound DEF Sound, OpenFile, FilesInv, FileTypeOK
<1>3. CASE data = <<>>
  <2>1. \E k : content' = [content EXCEPT ![core[p][fid].name] = Overlay(@, k, User2System(data))]
    <3>1. CASE WriteFile(p, fid, data)
      <4>1. content' = [content EXCEPT ![GetCurrentPos(core[p][fid]).name] =
                                       Overlay(@, GetCurrentPos(core[p][fid]).currentOffset, User2System(data))]
        BY <3>1 DEF WriteFile
      <4>2. GetCurrentPos(core[p][fid]).name = core[p][fid].name
        BY <1>1, FilesAreSound DEF Sound, OpenFile, GetCurrentPos
      <4> QED
        BY <4>1, <4>2
    <3>2. CASE AppendFile(p, fid, data)
      BY <3>2 DEF AppendFile
    <3> QED
      BY <3>1, <3>2
  <2>2. content' = content
    <3> DEFINE n == core[p][fid].name
    <3>1. n \in Names /\ \E k : content' = [content EXCEPT ![n] = Overlay(content[n], k, User2System(data))]
      BY <1>2, <2>1
    <3> HIDE DEF n
    <3> QED
      BY <1>2, <1>3, <3>1, NothingWritten
  <2> QED
    BY <1>1, <2>2 DEF FailsClean, Unharmed
<1>4. CASE data # <<>>
  <2>1. result'.value = Len(data) /\ Len(data) \in Nat
    <3>1. \A v : Returns("Write", v) => result'.value = v
      BY DEF Returns
    <3>2. WriteFile(p, fid, data) => Returns("Write", Len(data))
      BY <1>4, Zenon DEF WriteFile
    <3>3. AppendFile(p, fid, data) => result'.value = Len(data)
      <4>1. AppendFile(p, fid, data) => Returns("Append", IF data = <<>> THEN -1 ELSE Len(data))
        BY Zenon DEF AppendFile
      <4> QED
        BY <1>4, <4>1 DEF Returns
    <3> QED
      BY <3>1, <3>2, <3>3, LenProperties
  <2> QED
    BY <2>1 DEF FailsClean
<1> QED
  BY <1>3, <1>4

LEMMA OtherCallsFailClean ==
  ASSUME FilesInv, NEW p \in Procs,
         \/ \E n \in Names : CreateFile(p, n)
         \/ \E n \in Names, t \in {0, 1} : Open(p, n, t)
         \/ \E fid : Close(p, fid)
         \/ \E fid, n : ReadFile(p, fid, n)
         \/ ExitFiles(p)
  PROVE  FailsClean
<1>1. ASSUME NEW n \in Names, CreateFile(p, n) PROVE FailsClean
  <2>1. CASE hostOpen < HostMax
    BY <1>1, <2>1 DEF CreateFile, Returns, FailsClean
  <2>2. CASE ~ (hostOpen < HostMax)
    BY <1>1, <2>2 DEF CreateFile, FailsClean, Unharmed
  <2> QED
    BY <2>1, <2>2
<1>2. ASSUME NEW n \in Names, NEW t \in {0, 1}, Open(p, n, t) PROVE FailsClean
  <2>1. \E i \in 2 .. NFile : result' = [op |-> "Open", value |-> i]
    BY <1>2 DEF Open, Returns
  <2>2. ~ (result'.value < 0)
    BY <2>1, FileTableAssumption
  <2> QED
    BY <2>2 DEF FailsClean
<1>3. ASSUME NEW fid, Close(p, fid) PROVE FailsClean
  <2>1. result'.op = "Close"
    BY <1>3 DEF Close, Returns
  <2> QED
    BY <2>1 DEF FailsClean
<1>4. ASSUME NEW fid, NEW n, ReadFile(p, fid, n) PROVE FailsClean
  BY <1>4 DEF ReadFile, FailsClean, Unharmed
<1>5. CASE ExitFiles(p)
  <2>1. result'.value = 0
    BY <1>5 DEF ExitFiles, Returns
  <2> QED
    BY <2>1 DEF FailsClean
<1> QED
  BY <1>1, <1>2, <1>3, <1>4, <1>5

LEMMA FileStepFailsClean ==
  ASSUME FilesInv, NEW p \in Procs, FileStep(p) PROVE FailsClean
<1>1. CASE Quiet(p)
  BY <1>1, QuietFailsClean
<1>2. CASE \/ \E n \in Names : CreateFile(p, n)
           \/ \E n \in Names, t \in {0, 1} : Open(p, n, t)
           \/ \E fid : Close(p, fid)
           \/ \E fid, n : ReadFile(p, fid, n)
           \/ ExitFiles(p)
  BY <1>2, OtherCallsFailClean
<1>3. ASSUME NEW fid \in FileId, NEW data \in Buffers, WriteFile(p, fid, data) \/ AppendFile(p, fid, data)
      PROVE  FailsClean
  BY <1>3, BuffersAreBytes, TransferFailsClean
<1>4. ASSUME NEW fid \in FileId, NEW data \in Buffers, SysWrite(p, fid, data) \/ SysAppend(p, fid, data) PROVE FailsClean
  <2>1. ShownOf(data) \in Nat /\ 0 \in Nat
    BY BuffersAreBytes, ShownIsNat
  <2>2. Quiet(p) \/ WriteFile(p, fid, data) \/ AppendFile(p, fid, data)
    BY <1>4, <2>1 DEF SysWrite, SysAppend, Quiet
  <2> QED
    BY <1>1, <1>3, <2>2
<1>5. ASSUME NEW fid \in FileId, NEW n \in Counts, SysRead(p, fid, n) PROVE FailsClean
  <2>1. Quiet(p) \/ ReadFile(p, fid, n)
    BY <1>5, BuffersAreBytes DEF SysRead, Quiet
  <2> QED
    BY <1>1, <1>2, <2>1
<1>6. ASSUME NEW n \in Names, OpenFails(p, n) PROVE FailsClean
  BY <1>1, <1>6 DEF Quiet
<1>7. ASSUME NEW t \in {2, 3}, OpenConsole(p, t) PROVE FailsClean
  BY <1>1, <1>7 DEF Quiet
<1>8. CASE Transfer(p) \/ ConsoleReturn(p)
  BY <1>1, <1>8 DEF Quiet
<1> QED
  BY <1>2, <1>4, <1>5, <1>6, <1>7, <1>8 DEF FileStep

\* An error of a call, Close aside, has changed no file, no slot and no
\* descriptor: ftable.cc:28, ksyscall.h:110, ftable.cc:172.
THEOREM FailureChangesNothingCorrect == ProgramsSpec => FailureChangesNothing
<1>1. ASSUME FilesIInv, [ProgramsNext]_programVars PROVE [FailsClean]_fileVars
  <2>1. /\ FilesInv /\ story \in {"pingpong", "tape"} /\ at \in [Scripted -> Nat]
        /\ out_file \in [Scripted -> -1 .. NFile]
    BY <1>1 DEF FilesIInv, ProgramsTypeOK
  <2>2. ASSUME NEW p \in Scripted, Step(p) PROVE [FailsClean]_fileVars
    <3>1. p \in Procs /\ Output \in Names
      BY ScriptedAreCallers, UserProgramsAssumption
    <3>2. CASE \/ CallCreateSemaphore(p) \/ CallWait(p) \/ CallSignal(p) \/ CallPrintChar(p) \/ CallExec(p)
               \/ CallJoin(p)
      BY <3>2 DEF CallCreateSemaphore, CallWait, CallSignal, CallPrintChar, CallExec, CallJoin
    <3>3. CASE CallCreateFile(p) \/ CallClose(p) \/ CallExit(p)
      BY <2>1, <3>1, <3>3, OtherCallsFailClean DEF CallCreateFile, CallClose, CallExit
    <3>4. CASE CallOpen(p)
      <4>1. Calls(p, "Open") /\ (OpenFails(p, Output) \/ Open(p, Output, Arg(p)))
        BY <3>4 DEF CallOpen
      <4>2. Arg(p) \in {0, 1}
        BY <2>1, <4>1, Arguments
      <4> QED
        BY <2>1, <3>1, <4>1, <4>2, OtherCallsFailClean, QuietFailsClean DEF Quiet
    <3>5. CASE CallOpenElse(p)
      <4>1. Calls(p, "OpenElse") /\ (OpenConsole(p, Arg(p)) \/ UNCHANGED fileVars)
        BY <3>5 DEF CallOpenElse
      <4>2. Arg(p) \in {2, 3}
        BY <2>1, <4>1, Arguments
      <4> QED
        BY <3>1, <4>1, <4>2, QuietFailsClean DEF Quiet
    <3>6. CASE CallAppend(p)
      <4>1. Calls(p, "Append") /\ SysAppend(p, out_file[p], Record(p))
        BY <3>6 DEF CallAppend
      <4>2. p \in Started /\ out_file[p] \in FileId
        BY <2>1, <4>1, Arguments, ScriptedAreCallers DEF FileId
      <4>3. Record(p) \in Seq(Byte) /\ ShownOf(Record(p)) \in Nat /\ 0 \in Nat
        BY <4>2, RecordIsBytes, ShownIsNat
      <4>4. Quiet(p) \/ AppendFile(p, out_file[p], Record(p))
        BY <4>1, <4>2, <4>3 DEF SysAppend, Quiet
      <4> QED
        BY <2>1, <3>1, <4>3, <4>4, QuietFailsClean, TransferFailsClean
    <3>7. CASE Console(p)
      BY <3>1, <3>7, QuietFailsClean DEF Console, Quiet
    <3>8. CASE LoadOpens(p) \/ LoadEnds(p)
      <4>1. UNCHANGED fileVars \/ UNCHANGED result
        BY <3>8 DEF LoadOpens, LoadEnds, OpenExecutable, CloseExecutable
      <4> QED
        BY <4>1 DEF FailsClean
    <3> QED
      BY <2>2, <3>2, <3>3, <3>4, <3>5, <3>6, <3>7, <3>8 DEF Step
  <2>3. ASSUME NEW p \in Scripted, WaitReturns(p) PROVE [FailsClean]_fileVars
    BY <2>3 DEF WaitReturns
  <2>4. ASSUME NEW p \in Free, FreeCall(p) PROVE [FailsClean]_fileVars
    <3>1. p \in Procs /\ (FileStep(p) \/ UNCHANGED fileVars)
      BY <2>4, ScriptedAreCallers DEF FreeCall
    <3> QED
      BY <2>1, <3>1, FileStepFailsClean
  <2>5. CASE UNCHANGED programVars
    BY <2>5 DEF programVars
  <2> QED
    BY <1>1, <2>2, <2>3, <2>4, <2>5 DEF ProgramsNext
<1>2. [FailsClean]_fileVars =>
        [result'.value < 0 /\ result' # result /\ result'.op # "Close" =>
           UNCHANGED <<exists, content, hostOpen, held>>]_fileVars
  BY DEF FailsClean, Unharmed
<1> QED
  BY <1>1, <1>2, FilesInvariant, PTL DEF ProgramsSpec, FailureChangesNothing

-----------------------------------------------------------------------------
(* Turns: what the programs call, and in which order *)

\* Among the calls before place k of a program, a, and since then no b.
SinceIn(program, k, a, b) ==
  \E i \in 1 .. k - 1 : program[i] = a /\ \A j \in i + 1 .. k - 1 : program[j] # b

\* The program calls a only when that is not so, and b only when it is.
Alternates(program, a, b) ==
  \A k \in 1 .. Len(program) : /\ program[k] = a => ~ SinceIn(program, k, a, b)
                               /\ program[k] = b => SinceIn(program, k, a, b)

LEMMA PlaceInLoop ==
  ASSUME NEW L \in {3, 5}, NEW i \in Nat
  PROVE  /\ i % L \in 0 .. L - 1 /\ i % L <= i
         /\ \A d \in Nat : (i % L) + d < L => (i + d) % L = (i % L) + d
         /\ \A d \in Nat : d <= i % L => (i - d) % L = (i % L) - d
<1>1. CASE L = 3
  BY <1>1
<1>2. CASE L = 5
  BY <1>2
<1> QED
  BY <1>1, <1>2

\* The place in the body, from 0, of place k of a program that begins to
\* loop behind its first calls.
Turn(L, off, k) == (k - off - 1) % L

\* The calls of one turn follow one another.
Onward(L, off, k) ==
  \A d \in Nat : Turn(L, off, k) + d < L => Turn(L, off, k + d) = Turn(L, off, k) + d
Backward(L, off, k) ==
  \A d \in Nat : d <= Turn(L, off, k) => Turn(L, off, k - d) = Turn(L, off, k) - d

LEMMA TurnInLoop ==
  ASSUME NEW L \in {3, 5}, NEW off \in Nat, NEW k \in Int, k > off
  PROVE  /\ Turn(L, off, k) \in 0 .. L - 1 /\ Turn(L, off, k) <= k - off - 1
         /\ Onward(L, off, k) /\ Backward(L, off, k)
<1> DEFINE i == k - off - 1
<1>1. i \in Nat
  OBVIOUS
<1>2. /\ Turn(L, off, k) = i % L
      /\ \A d \in Nat : Turn(L, off, k + d) = (i + d) % L /\ Turn(L, off, k - d) = (i - d) % L
  <2>1. \A d \in Nat : (k + d) - off - 1 = i + d /\ (k - d) - off - 1 = i - d
    OBVIOUS
  <2> QED
    BY <2>1 DEF Turn
<1>3. /\ i % L \in 0 .. L - 1 /\ i % L <= i
      /\ \A d \in Nat : (i % L) + d < L => (i + d) % L = (i % L) + d
      /\ \A d \in Nat : d <= i % L => (i - d) % L = (i % L) - d
  <2> HIDE DEF i
  <2> QED
    BY <1>1, PlaceInLoop
<1>4. i = k - off - 1
  OBVIOUS
<1> HIDE DEF i
<1>5. Onward(L, off, k) /\ Backward(L, off, k)
  BY <1>2, <1>3, Zenon DEF Onward, Backward
<1> QED
  BY <1>2, <1>3, <1>4, <1>5, Zenon

\* The body has the call in one place only, the one that is z places from its
\* first; and between off and end a program loops over a body, and has
\* neither of two calls elsewhere.
OnlyAt(body, L, a, x) == \A z \in 0 .. L - 1 : body[z + 1] = a <=> z = x

Loops(program, body, off, end, L, a, b) ==
  \A k \in 1 .. Len(program) : IF k \in off + 1 .. end THEN program[k] = body[Turn(L, off, k) + 1]
                                                       ELSE program[k] # a /\ program[k] # b

LEMMA LoopAlternates ==
  ASSUME NEW program, NEW body, NEW off \in Nat, NEW end \in Nat, NEW L \in {3, 5}, NEW a, NEW b,
         Len(program) \in Nat, NEW x \in 0 .. L - 1, NEW y \in 0 .. L - 1, x < y,
         OnlyAt(body, L, a, x), OnlyAt(body, L, b, y), Loops(program, body, off, end, L, a, b)
  PROVE  Alternates(program, a, b)
<1> DEFINE r(k) == Turn(L, off, k)
           Within(k) == k \in 1 .. Len(program) /\ k \in off + 1 .. end
<1>0. x \in Nat /\ y \in Nat /\ y - x \in Nat /\ y - x > 0 /\ y < L /\ L \in Nat
  OBVIOUS
<1>1. \A k \in Int : Within(k) => r(k) \in 0 .. L - 1 /\ r(k) <= k - off - 1
  <2> SUFFICES ASSUME NEW k \in Int, k > off PROVE r(k) \in 0 .. L - 1 /\ r(k) <= k - off - 1
    OBVIOUS
  <2> QED
    BY TurnInLoop
<1>2. \A k \in Int, d \in Nat : Within(k) /\ r(k) + d < L => r(k + d) = r(k) + d
  <2> SUFFICES ASSUME NEW k \in Int, k > off, NEW d \in Nat, r(k) + d < L PROVE r(k + d) = r(k) + d
    OBVIOUS
  <2>1. Onward(L, off, k)
    BY TurnInLoop
  <2> QED
    BY <2>1, Zenon DEF Onward
<1>3. \A k \in Int, d \in Nat : Within(k) /\ d <= r(k) => r(k - d) = r(k) - d
  <2> SUFFICES ASSUME NEW k \in Int, k > off, NEW d \in Nat, d <= r(k) PROVE r(k - d) = r(k) - d
    OBVIOUS
  <2>1. Backward(L, off, k)
    BY TurnInLoop
  <2> QED
    BY <2>1, Zenon DEF Backward
<1>4. \A k \in Int : Within(k) => (program[k] = a <=> r(k) = x) /\ (program[k] = b <=> r(k) = y)
  <2> SUFFICES ASSUME NEW k \in Int, Within(k)
               PROVE  (program[k] = a <=> r(k) = x) /\ (program[k] = b <=> r(k) = y)
    OBVIOUS
  <2>1. program[k] = body[r(k) + 1]
    BY DEF Loops
  <2>2. r(k) \in 0 .. L - 1
    BY <1>1
  <2> HIDE DEF r, Within
  <2> QED
    BY <2>1, <2>2 DEF OnlyAt
<1>5. \A k \in 1 .. Len(program) : /\ program[k] = a => Within(k) /\ r(k) = x
                                   /\ program[k] = b => Within(k) /\ r(k) = y
  <2> SUFFICES ASSUME NEW k \in 1 .. Len(program)
               PROVE  /\ program[k] = a => Within(k) /\ r(k) = x
                      /\ program[k] = b => Within(k) /\ r(k) = y
    OBVIOUS
  <2>1. CASE Within(k)
    BY <1>4, <2>1
  <2>2. CASE ~ Within(k)
    BY <2>2 DEF Loops
  <2> QED
    BY <2>1, <2>2
<1> HIDE DEF r
<1>6. ASSUME NEW k \in 1 .. Len(program), program[k] = a PROVE ~ SinceIn(program, k, a, b)
  <2> SUFFICES ASSUME NEW i \in 1 .. k - 1, program[i] = a, \A j \in i + 1 .. k - 1 : program[j] # b
               PROVE  FALSE
    BY DEF SinceIn
  <2>1. Within(k) /\ r(k) = x /\ Within(i) /\ r(i) = x
    BY <1>5, <1>6
  <2> DEFINE j == i + (y - x)
  <2>2. r(j) = y /\ j \in Int /\ j > i
    <3>1. r(i) + (y - x) = y /\ r(i) + (y - x) < L /\ i \in Int
      BY <1>0, <2>1
    <3> HIDE DEF Within, j
    <3>2. r(i + (y - x)) = r(i) + (y - x)
      BY <1>0, <1>2, <2>1, <3>1
    <3> QED
      BY <1>0, <3>1, <3>2 DEF j
  <2> HIDE DEF j
  <2>3. CASE j < k
    <3>1. Within(j) /\ j \in i + 1 .. k - 1
      BY <2>1, <2>2, <2>3
    <3> QED
      BY <1>4, <2>2, <3>1
  <2>4. CASE ~ (j < k)
    <3>1. k - i \in Nat /\ k - i > 0 /\ i + (k - i) = k /\ i \in Int
      OBVIOUS
    <3>2. r(i) + (k - i) < L
      BY <1>0, <2>1, <2>4, <3>1 DEF j
    <3> HIDE DEF Within
    <3>3. r(k) = x + (k - i)
      BY <1>2, <2>1, <3>1, <3>2
    <3> QED
      BY <1>0, <2>1, <3>1, <3>3
  <2> QED
    BY <2>3, <2>4
<1>7. ASSUME NEW k \in 1 .. Len(program), program[k] = b PROVE SinceIn(program, k, a, b)
  <2>1. Within(k) /\ r(k) = y
    BY <1>5, <1>7
  <2> DEFINE i == k - (y - x)
  <2>2. r(i) = x
    <3>1. y - x <= r(k) /\ r(k) - (y - x) = x /\ k \in Int
      BY <1>0, <2>1
    <3> HIDE DEF Within
    <3> QED
      BY <1>0, <1>3, <2>1, <3>1
  <2>3. i \in 1 .. k - 1 /\ Within(i) /\ i \in Int
    <3>1. y <= k - off - 1
      BY <1>1, <2>1
    <3> QED
      BY <1>0, <2>1, <3>1
  <2>4. program[i] = a
    BY <1>4, <2>2, <2>3
  <2>5. ASSUME NEW j \in i + 1 .. k - 1 PROVE program[j] # b
    <3>1. Within(j) /\ j - i \in Nat /\ r(i) + (j - i) < y /\ i + (j - i) = j /\ j \in Int
      BY <1>0, <2>1, <2>2, <2>3
    <3>2. r(i) + (j - i) < L /\ r(i) + (j - i) # y
      BY <1>0, <2>2, <3>1
    <3> HIDE DEF Within, i
    <3>3. r(j) = r(i) + (j - i)
      BY <1>2, <2>3, <3>1, <3>2
    <3> QED
      BY <1>4, <3>1, <3>2, <3>3
  <2> QED
    BY <2>3, <2>4, <2>5 DEF SinceIn
<1> QED
  BY <1>6, <1>7 DEF Alternates

LEMMA CallsDiffer ==
  \A o1, a1, o2, a2 : Call(o1, a1) = Call(o2, a2) <=> o1 = o2 /\ a1 = a2
BY DEF Call

\* What loops over a body behind some calls and before others.
Shaped(program, first, n, body, last) ==
  /\ Len(program) \in Nat
  /\ \A k \in 1 .. Len(program) :
       IF k \in Len(first) + 1 .. Len(first) + n * Len(body)
       THEN program[k] = body[Turn(Len(body), Len(first), k) + 1]
       ELSE (\E i \in 1 .. Len(first) : program[k] = first[i]) \/ \E i \in 1 .. Len(last) : program[k] = last[i]

LEMMA LoopShape ==
  ASSUME NEW S, NEW first \in Seq(S), NEW body \in Seq(S), NEW last \in Seq(S), NEW n \in Nat, Len(body) \in {3, 5}
  PROVE  Shaped(first \o Loop(n, body) \o last, first, n, body, last)
<1> DEFINE loop == Loop(n, body)
           two  == first \o loop
           off  == Len(first)
           L    == Len(body)
           m    == n * L
           program == first \o Loop(n, body) \o last
<1> HIDE DEF program, two, loop, m
<1>1. body # <<>> /\ L \in Nat
  <2>1. \A l \in {3, 5} : l \in Nat /\ l # 0
    OBVIOUS
  <2>2. Len(body) # 0 /\ Len(body) \in Nat
    BY <2>1, Zenon
  <2> QED
    BY <2>2, EmptySeq DEF L
<1>2. loop \in Seq(S) /\ Len(loop) = m /\ m \in Nat /\ off \in Nat
  <2>1. Loop(n, body) \in Seq(S) /\ Len(Loop(n, body)) = n * Len(body)
    BY <1>1, LoopIsSeq
  <2>2. n * L \in Nat /\ Len(first) \in Nat
    BY <1>1
  <2> QED
    BY <2>1, <2>2 DEF loop, m
<1>3. \A i \in 1 .. m : loop[i] = body[((i - 1) % L) + 1]
  BY DEF Loop, loop, m
<1> HIDE DEF L, off
<1>4. /\ two \in Seq(S) /\ Len(two) = off + m
      /\ \A i \in 1 .. off + m : two[i] = IF i <= off THEN first[i] ELSE loop[i - off]
  <2>1. off = Len(first)
    BY DEF off
  <2> QED
    BY <1>2, <2>1, PutBehind DEF two
<1>5. program = two \o last
  BY DEF loop, two, program
<1>6. /\ program \in Seq(S) /\ Len(program) = off + m + Len(last) /\ Len(last) \in Nat
      /\ \A i \in 1 .. off + m + Len(last) : program[i] = IF i <= off + m THEN two[i] ELSE last[i - (off + m)]
  <2>1. Len(last) \in Nat
    OBVIOUS
  <2>2. /\ two \o last \in Seq(S) /\ Len(two \o last) = Len(two) + Len(last)
        /\ \A i \in 1 .. Len(two) + Len(last) : (two \o last)[i] = IF i <= Len(two) THEN two[i] ELSE last[i - Len(two)]
    BY <1>4, PutBehind
  <2> QED
    BY <1>4, <1>5, <2>1, <2>2
<1>7. ASSUME NEW k \in 1 .. off + m + Len(last)
      PROVE  IF k \in off + 1 .. off + m THEN program[k] = body[Turn(L, off, k) + 1]
             ELSE (\E i \in 1 .. off : program[k] = first[i]) \/ \E i \in 1 .. Len(last) : program[k] = last[i]
  <2>1. CASE k <= off
    <3>1. k \in 1 .. off /\ k <= off + m /\ k \in 1 .. off + m /\ k \notin off + 1 .. off + m
      BY <1>2, <2>1
    <3>2. program[k] = two[k]
      BY <1>6, <3>1, Zenon
    <3>3. two[k] = first[k]
      BY <1>4, <2>1, <3>1, Zenon
    <3> QED
      BY <3>1, <3>2, <3>3, Zenon
  <2>2. CASE k \in off + 1 .. off + m
    <3>1. k <= off + m /\ ~ (k <= off) /\ k \in 1 .. off + m /\ k - off \in 1 .. m
      BY <1>2, <2>2
    <3>2. program[k] = loop[k - off]
      BY <1>4, <1>6, <3>1
    <3>3. loop[k - off] = body[(((k - off) - 1) % L) + 1]
      BY <1>3, <3>1
    <3> QED
      BY <2>2, <3>2, <3>3 DEF Turn
  <2>3. CASE k > off + m
    <3>1. k - (off + m) \in 1 .. Len(last) /\ ~ (k <= off + m)
      BY <1>2, <1>6, <2>3
    <3>2. program[k] = last[k - (off + m)]
      BY <1>6, <3>1
    <3>3. k \notin off + 1 .. off + m
      BY <1>2, <2>3
    <3> QED
      BY <3>1, <3>2, <3>3, Zenon
  <2> QED
    <3>1. k <= off \/ k \in off + 1 .. off + m \/ k > off + m
      BY <1>2, <1>6
    <3> QED
      BY <2>1, <2>2, <2>3, <3>1
<1>8. off = Len(first) /\ m = n * L /\ Len(program) \in Nat /\ Len(program) = off + m + Len(last)
  BY <1>2, <1>6 DEF off, m
<1> QED
  BY <1>7, <1>8, Zenon DEF Shaped, L, program

LEMMA PingShape ==
  /\ Len(Ping) \in Nat
  /\ \A k \in 1 .. Len(Ping) : IF k \in 1 .. Turns * 5 THEN Ping[k] = PingBody[Turn(5, 0, k) + 1]
                                                       ELSE Ping[k] = Call("Exit", 0)
<1> DEFINE S == {PingBody[i] : i \in 1 .. 5} \cup {Call("Exit", 0)}
           last == << Call("Exit", 0) >>
           first == <<>>
<1>1. PingBody \in Seq(S) /\ Len(PingBody) = 5 /\ last \in Seq(S) /\ first \in Seq(S) /\ Len(first) = 0
  BY DEF PingBody
<1>2. Turns \in Nat
  BY UserProgramsAssumption
<1>3. PingBody # <<>> /\ Loop(Turns, PingBody) \in Seq(S)
  <2> HIDE DEF S
  <2>1. PingBody # <<>>
    <3>1. Len(PingBody) = 5
      BY <1>1, Zenon
    <3>2. Len(<<>>) # 5
      OBVIOUS
    <3> QED
      BY <3>1, <3>2, Zenon
  <2> QED
    BY <1>1, <1>2, <2>1, LoopIsSeq
<1>4. Ping = first \o Loop(Turns, PingBody) \o last
  <2> HIDE DEF S
  <2>1. <<>> \o Loop(Turns, PingBody) = Loop(Turns, PingBody)
    BY <1>3, ConcatEmptySeq
  <2> QED
    BY <2>1 DEF Ping
<1>5. Len(last) = 1 /\ last[1] = Call("Exit", 0)
  OBVIOUS
<1> HIDE DEF S, last, first
<1>6. Shaped(Ping, first, Turns, PingBody, last)
  <2>1. Len(PingBody) \in {3, 5}
    BY <1>1
  <2> QED
    BY <1>1, <1>2, <1>4, <2>1, LoopShape
<1>7. 0 + 1 = 1 /\ 0 + Turns * 5 = Turns * 5
  BY <1>2
<1> QED
  BY <1>1, <1>5, <1>6, <1>7 DEF Shaped

LEMMA PongShape ==
  /\ Len(Pong) \in Nat
  /\ \A k \in 1 .. Len(Pong) : IF k \in 1 .. Turns * 5 THEN Pong[k] = PongBody[Turn(5, 0, k) + 1]
                                                       ELSE Pong[k] = Call("Exit", 0)
<1> DEFINE S == {PongBody[i] : i \in 1 .. 5} \cup {Call("Exit", 0)}
           last == << Call("Exit", 0) >>
           first == <<>>
<1>1. PongBody \in Seq(S) /\ Len(PongBody) = 5 /\ last \in Seq(S) /\ first \in Seq(S) /\ Len(first) = 0
  BY DEF PongBody
<1>2. Turns \in Nat
  BY UserProgramsAssumption
<1>3. PongBody # <<>> /\ Loop(Turns, PongBody) \in Seq(S)
  <2> HIDE DEF S
  <2>1. PongBody # <<>>
    <3>1. Len(PongBody) = 5
      BY <1>1, Zenon
    <3>2. Len(<<>>) # 5
      OBVIOUS
    <3> QED
      BY <3>1, <3>2, Zenon
  <2> QED
    BY <1>1, <1>2, <2>1, LoopIsSeq
<1>4. Pong = first \o Loop(Turns, PongBody) \o last
  <2> HIDE DEF S
  <2>1. <<>> \o Loop(Turns, PongBody) = Loop(Turns, PongBody)
    BY <1>3, ConcatEmptySeq
  <2> QED
    BY <2>1 DEF Pong
<1>5. Len(last) = 1 /\ last[1] = Call("Exit", 0)
  OBVIOUS
<1> HIDE DEF S, last, first
<1>6. Shaped(Pong, first, Turns, PongBody, last)
  <2>1. Len(PongBody) \in {3, 5}
    BY <1>1
  <2> QED
    BY <1>1, <1>2, <1>4, <2>1, LoopShape
<1>7. 0 + 1 = 1 /\ 0 + Turns * 5 = Turns * 5
  BY <1>2
<1> QED
  BY <1>1, <1>5, <1>6, <1>7 DEF Shaped

LEMMA StudentShape ==
  /\ Len(Student) \in Nat
  /\ \A k \in 1 .. Len(Student) :
       IF k \in 2 + 1 .. 2 + Records * 3 THEN Student[k] = StudentBody[Turn(3, 2, k) + 1]
       ELSE Student[k] \in {Call("Open", 0), Call("OpenElse", 3), Call("Close", 0), Call("Exit", 0)}
<1> DEFINE first == << Call("Open", 0), Call("OpenElse", 3) >>
           last == << Call("Close", 0), Call("Exit", 0) >>
           S == {Call("Open", 0), Call("OpenElse", 3), Call("Close", 0), Call("Exit", 0)} \cup {StudentBody[i] : i \in 1 .. 3}
<1>1. /\ StudentBody \in Seq(S) /\ Len(StudentBody) = 3 /\ last \in Seq(S) /\ first \in Seq(S)
      /\ Len(first) = 2 /\ Len(last) = 2
  BY DEF StudentBody
<1>2. Records \in Nat
  BY UserProgramsAssumption
<1>3. Student = first \o Loop(Records, StudentBody) \o last
  BY DEF Student
<1>4. first[1] = Call("Open", 0) /\ first[2] = Call("OpenElse", 3) /\ last[1] = Call("Close", 0) /\ last[2] = Call("Exit", 0)
  OBVIOUS
<1> HIDE DEF S, last, first
<1>5. Shaped(Student, first, Records, StudentBody, last)
  <2>1. Len(StudentBody) \in {3, 5}
    BY <1>1
  <2> QED
    BY <1>1, <1>2, <1>3, <2>1, LoopShape
<1>6. \A i \in 1 .. 2 : i = 1 \/ i = 2
  OBVIOUS
<1> QED
  BY <1>1, <1>4, <1>5, <1>6 DEF Shaped

LEMMA CallsAbsent ==
  ASSUME NEW program, NEW a, NEW b, \A k \in 1 .. Len(program) : program[k] # a /\ program[k] # b
  PROVE  Alternates(program, a, b)
BY DEF Alternates

\* A process has the unit of n between the two calls of each of these pairs.
TakesTurns(program) ==
  /\ Alternates(program, Call("Wait", "print"), Call("Signal", "print"))
  /\ Alternates(program, Call("Wait", "tape"), Call("Signal", "tape"))
  /\ Alternates(program, Call("Wait", "ping"), Call("PrintChar", "A"))
  /\ Alternates(program, Call("PrintChar", "A"), Call("Signal", "pong"))
  /\ Alternates(program, Call("Wait", "pong"), Call("PrintChar", "B"))
  /\ Alternates(program, Call("PrintChar", "B"), Call("Signal", "ping"))

LEMMA PingTakesTurns == TakesTurns(Ping)
<1>1. \A z \in 0 .. 4 : z = 0 \/ z = 1 \/ z = 2 \/ z = 3 \/ z = 4
  OBVIOUS
<1>2. /\ PingBody[1] = Call("Wait", "ping") /\ PingBody[2] = Call("Wait", "print")
      /\ PingBody[3] = Call("PrintChar", "A") /\ PingBody[4] = Call("Signal", "pong")
      /\ PingBody[5] = Call("Signal", "print")
  BY DEF PingBody
<1>3. \A z \in 0 .. 4 : PingBody[z + 1] \in {Call("Wait", "ping"), Call("Wait", "print"), Call("PrintChar", "A"),
                                            Call("Signal", "pong"), Call("Signal", "print")}
  BY <1>1, <1>2
<1>4. Len(Ping) \in Nat /\ Turns * 5 \in Nat
  BY PingShape, UserProgramsAssumption
<1>5. \A k \in 1 .. Len(Ping) : IF k \in 0 + 1 .. Turns * 5 THEN Ping[k] = PingBody[Turn(5, 0, k) + 1]
                                                            ELSE Ping[k] = Call("Exit", 0)
  BY PingShape
<1>6. \A k \in 1 .. Len(Ping) : Ping[k] \in {Call("Wait", "ping"), Call("Wait", "print"), Call("PrintChar", "A"),
                                            Call("Signal", "pong"), Call("Signal", "print"), Call("Exit", 0)}
  <2> SUFFICES ASSUME NEW k \in 1 .. Len(Ping)
               PROVE  Ping[k] \in {Call("Wait", "ping"), Call("Wait", "print"), Call("PrintChar", "A"),
                                   Call("Signal", "pong"), Call("Signal", "print"), Call("Exit", 0)}
    OBVIOUS
  <2>1. Turn(5, 0, k) \in 0 .. 4
    BY TurnInLoop
  <2> QED
    BY <1>3, <1>5, <2>1
<1>7. ASSUME NEW a, NEW b, NEW x \in 0 .. 4, NEW y \in 0 .. 4, x < y, a # Call("Exit", 0), b # Call("Exit", 0),
             OnlyAt(PingBody, 5, a, x), OnlyAt(PingBody, 5, b, y)
      PROVE  Alternates(Ping, a, b)
  <2>1. x \in 0 .. 5 - 1 /\ y \in 0 .. 5 - 1 /\ 5 \in {3, 5} /\ 0 \in Nat
    OBVIOUS
  <2>2. Loops(Ping, PingBody, 0, Turns * 5, 5, a, b)
    BY <1>5, <1>7 DEF Loops
  <2> QED
    BY <1>4, <1>7, <2>1, <2>2, LoopAlternates
<1>8. Alternates(Ping, Call("Wait", "print"), Call("Signal", "print"))
  <2>1. OnlyAt(PingBody, 5, Call("Wait", "print"), 1) /\ OnlyAt(PingBody, 5, Call("Signal", "print"), 4)
    BY <1>1, <1>2, CallsDiffer DEF OnlyAt
  <2> QED
    BY <1>7, <2>1, CallsDiffer
<1>9. Alternates(Ping, Call("Wait", "ping"), Call("PrintChar", "A"))
  <2>1. OnlyAt(PingBody, 5, Call("Wait", "ping"), 0) /\ OnlyAt(PingBody, 5, Call("PrintChar", "A"), 2)
    BY <1>1, <1>2, CallsDiffer DEF OnlyAt
  <2> QED
    BY <1>7, <2>1, CallsDiffer
<1>10. Alternates(Ping, Call("PrintChar", "A"), Call("Signal", "pong"))
  <2>1. OnlyAt(PingBody, 5, Call("PrintChar", "A"), 2) /\ OnlyAt(PingBody, 5, Call("Signal", "pong"), 3)
    BY <1>1, <1>2, CallsDiffer DEF OnlyAt
  <2> QED
    BY <1>7, <2>1, CallsDiffer
<1>11. /\ Alternates(Ping, Call("Wait", "tape"), Call("Signal", "tape"))
       /\ Alternates(Ping, Call("Wait", "pong"), Call("PrintChar", "B"))
       /\ Alternates(Ping, Call("PrintChar", "B"), Call("Signal", "ping"))
  BY <1>6, CallsDiffer, CallsAbsent
<1> QED
  BY <1>8, <1>9, <1>10, <1>11 DEF TakesTurns

LEMMA PongTakesTurns == TakesTurns(Pong)
<1>1. \A z \in 0 .. 4 : z = 0 \/ z = 1 \/ z = 2 \/ z = 3 \/ z = 4
  OBVIOUS
<1>2. /\ PongBody[1] = Call("Wait", "pong") /\ PongBody[2] = Call("Wait", "print")
      /\ PongBody[3] = Call("PrintChar", "B") /\ PongBody[4] = Call("Signal", "print")
      /\ PongBody[5] = Call("Signal", "ping")
  BY DEF PongBody
<1>3. \A z \in 0 .. 4 : PongBody[z + 1] \in {Call("Wait", "pong"), Call("Wait", "print"), Call("PrintChar", "B"),
                                            Call("Signal", "ping"), Call("Signal", "print")}
  BY <1>1, <1>2
<1>4. Len(Pong) \in Nat /\ Turns * 5 \in Nat
  BY PongShape, UserProgramsAssumption
<1>5. \A k \in 1 .. Len(Pong) : IF k \in 0 + 1 .. Turns * 5 THEN Pong[k] = PongBody[Turn(5, 0, k) + 1]
                                                            ELSE Pong[k] = Call("Exit", 0)
  BY PongShape
<1>6. \A k \in 1 .. Len(Pong) : Pong[k] \in {Call("Wait", "pong"), Call("Wait", "print"), Call("PrintChar", "B"),
                                            Call("Signal", "ping"), Call("Signal", "print"), Call("Exit", 0)}
  <2> SUFFICES ASSUME NEW k \in 1 .. Len(Pong)
               PROVE  Pong[k] \in {Call("Wait", "pong"), Call("Wait", "print"), Call("PrintChar", "B"),
                                   Call("Signal", "ping"), Call("Signal", "print"), Call("Exit", 0)}
    OBVIOUS
  <2>1. Turn(5, 0, k) \in 0 .. 4
    BY TurnInLoop
  <2> QED
    BY <1>3, <1>5, <2>1
<1>7. ASSUME NEW a, NEW b, NEW x \in 0 .. 4, NEW y \in 0 .. 4, x < y, a # Call("Exit", 0), b # Call("Exit", 0),
             OnlyAt(PongBody, 5, a, x), OnlyAt(PongBody, 5, b, y)
      PROVE  Alternates(Pong, a, b)
  <2>1. x \in 0 .. 5 - 1 /\ y \in 0 .. 5 - 1 /\ 5 \in {3, 5} /\ 0 \in Nat
    OBVIOUS
  <2>2. Loops(Pong, PongBody, 0, Turns * 5, 5, a, b)
    BY <1>5, <1>7 DEF Loops
  <2> QED
    BY <1>4, <1>7, <2>1, <2>2, LoopAlternates
<1>8. Alternates(Pong, Call("Wait", "print"), Call("Signal", "print"))
  <2>1. OnlyAt(PongBody, 5, Call("Wait", "print"), 1) /\ OnlyAt(PongBody, 5, Call("Signal", "print"), 3)
    BY <1>1, <1>2, CallsDiffer DEF OnlyAt
  <2> QED
    BY <1>7, <2>1, CallsDiffer
<1>9. Alternates(Pong, Call("Wait", "pong"), Call("PrintChar", "B"))
  <2>1. OnlyAt(PongBody, 5, Call("Wait", "pong"), 0) /\ OnlyAt(PongBody, 5, Call("PrintChar", "B"), 2)
    BY <1>1, <1>2, CallsDiffer DEF OnlyAt
  <2> QED
    BY <1>7, <2>1, CallsDiffer
<1>10. Alternates(Pong, Call("PrintChar", "B"), Call("Signal", "ping"))
  <2>1. OnlyAt(PongBody, 5, Call("PrintChar", "B"), 2) /\ OnlyAt(PongBody, 5, Call("Signal", "ping"), 4)
    BY <1>1, <1>2, CallsDiffer DEF OnlyAt
  <2> QED
    BY <1>7, <2>1, CallsDiffer
<1>11. /\ Alternates(Pong, Call("Wait", "tape"), Call("Signal", "tape"))
       /\ Alternates(Pong, Call("Wait", "ping"), Call("PrintChar", "A"))
       /\ Alternates(Pong, Call("PrintChar", "A"), Call("Signal", "pong"))
  BY <1>6, CallsDiffer, CallsAbsent
<1> QED
  BY <1>8, <1>9, <1>10, <1>11 DEF TakesTurns

LEMMA StudentTakesTurns == TakesTurns(Student)
<1> DEFINE others == {Call("Open", 0), Call("OpenElse", 3), Call("Close", 0), Call("Exit", 0)}
<1>1. \A z \in 0 .. 2 : z = 0 \/ z = 1 \/ z = 2
  OBVIOUS
<1>2. /\ StudentBody[1] = Call("Wait", "tape") /\ StudentBody[2] = Call("Append", "record")
      /\ StudentBody[3] = Call("Signal", "tape")
  BY DEF StudentBody
<1>3. \A z \in 0 .. 2 : StudentBody[z + 1] \in {Call("Wait", "tape"), Call("Append", "record"), Call("Signal", "tape")}
  BY <1>1, <1>2
<1>4. Len(Student) \in Nat /\ 2 + Records * 3 \in Nat
  BY StudentShape, UserProgramsAssumption
<1>5. \A k \in 1 .. Len(Student) : IF k \in 2 + 1 .. 2 + Records * 3 THEN Student[k] = StudentBody[Turn(3, 2, k) + 1]
                                                                     ELSE Student[k] \in others
  BY StudentShape
<1>6. \A k \in 1 .. Len(Student) :
        Student[k] \in {Call("Wait", "tape"), Call("Append", "record"), Call("Signal", "tape")} \cup others
  <2> SUFFICES ASSUME NEW k \in 1 .. Len(Student)
               PROVE  Student[k] \in {Call("Wait", "tape"), Call("Append", "record"), Call("Signal", "tape")} \cup others
    OBVIOUS
  <2> HIDE DEF others
  <2>1. k > 2 => Turn(3, 2, k) \in 0 .. 2
    BY TurnInLoop
  <2> QED
    BY <1>3, <1>5, <2>1
<1>7. Alternates(Student, Call("Wait", "tape"), Call("Signal", "tape"))
  <2>1. OnlyAt(StudentBody, 3, Call("Wait", "tape"), 0) /\ OnlyAt(StudentBody, 3, Call("Signal", "tape"), 2)
    BY <1>1, <1>2, CallsDiffer DEF OnlyAt
  <2>2. Call("Wait", "tape") \notin others /\ Call("Signal", "tape") \notin others
    BY CallsDiffer
  <2>3. Loops(Student, StudentBody, 2, 2 + Records * 3, 3, Call("Wait", "tape"), Call("Signal", "tape"))
    <3> HIDE DEF others
    <3> QED
      BY <1>5, <2>2 DEF Loops
  <2>4. 0 \in 0 .. 3 - 1 /\ 2 \in 0 .. 3 - 1 /\ 3 \in {3, 5} /\ 2 \in Nat /\ 0 < 2
    OBVIOUS
  <2> QED
    BY <1>4, <2>1, <2>3, <2>4, LoopAlternates
<1>8. /\ Alternates(Student, Call("Wait", "print"), Call("Signal", "print"))
      /\ Alternates(Student, Call("Wait", "ping"), Call("PrintChar", "A"))
      /\ Alternates(Student, Call("PrintChar", "A"), Call("Signal", "pong"))
      /\ Alternates(Student, Call("Wait", "pong"), Call("PrintChar", "B"))
      /\ Alternates(Student, Call("PrintChar", "B"), Call("Signal", "ping"))
  BY <1>6, CallsDiffer, CallsAbsent
<1> QED
  BY <1>7, <1>8 DEF TakesTurns

LEMMA MainTakesTurns == TakesTurns(PingPong) /\ TakesTurns(Project2)
<1>1. ASSUME NEW s \in Seq(MainCalls) PROVE TakesTurns(s)
  <2>1. \A k \in 1 .. Len(s) : s[k] \in MainCalls
    OBVIOUS
  <2>2. \A n : Call("Wait", n) \notin MainCalls /\ Call("Signal", n) \notin MainCalls /\ Call("PrintChar", n) \notin MainCalls
    BY DEF Call, MainCalls
  <2>3. \A a, b : a \notin MainCalls /\ b \notin MainCalls => Alternates(s, a, b)
    BY <2>1, CallsAbsent
  <2> QED
    BY <2>2, <2>3 DEF TakesTurns
<1> QED
  BY <1>1, ProgramsAreSeqs

LEMMA AllTakeTurns == ASSUME NEW p PROVE TakesTurns(Program(p))
BY PingTakesTurns, PongTakesTurns, StudentTakesTurns, MainTakesTurns DEF Program

\* The main program starts each child once, and creates what the children
\* use before it starts any.
Needed == IF story = "pingpong" THEN {"print", "ping", "pong"} ELSE {"tape"}

StartsInOrder(program, names) ==
  \A k \in 1 .. Len(program) : program[k].op = "Exec" =>
    /\ \A n \in names : \E j \in 1 .. k - 1 : program[j] = Call("CreateSemaphore", n)
    /\ \A j \in 1 .. Len(program) : program[j] = program[k] => j = k

LEMMA MainShape ==
  ASSUME NEW S, NEW first \in Seq(S), NEW names, NEW program, program = first \o StartAll \o JoinAll,
         \A i \in 1 .. Len(first) : first[i].op # "Exec",
         \A n \in names : \E i \in 1 .. Len(first) : first[i] = Call("CreateSemaphore", n)
  PROVE  StartsInOrder(program, names)
<1> DEFINE m == Len(first)
           c == Len(Children)
           T == S \cup {Call("Exec", Children[i]) : i \in 1 .. c} \cup {Call("Join", Children[i]) : i \in 1 .. c}
           two == first \o StartAll
<1>1. c \in Nat /\ m \in Nat /\ \A i, j \in 1 .. c : Children[i] = Children[j] => i = j
  BY UserProgramsAssumption
<1>2. StartAll \in [1 .. c -> T] /\ JoinAll \in [1 .. c -> T]
  BY DEF StartAll, JoinAll
<1>3. \A i \in 1 .. c : StartAll[i] = Call("Exec", Children[i]) /\ JoinAll[i] = Call("Join", Children[i])
  BY DEF StartAll, JoinAll
<1>4. first \in Seq(T)
  <2>1. \A i \in 1 .. m : first[i] \in T
    OBVIOUS
  <2> HIDE DEF T
  <2> QED
    BY <2>1
<1> HIDE DEF T, c, two
<1>5. StartAll \in Seq(T) /\ Len(StartAll) = c /\ JoinAll \in Seq(T) /\ Len(JoinAll) = c
  BY <1>1, <1>2, FunctionIsSeq
<1>6. /\ two \in Seq(T) /\ Len(two) = m + c
      /\ \A i \in 1 .. m + c : two[i] = IF i <= m THEN first[i] ELSE StartAll[i - m]
  BY <1>4, <1>5, PutBehind DEF two
<1>7. /\ Len(program) = m + c + c
      /\ \A i \in 1 .. m + c + c : program[i] = IF i <= m + c THEN two[i] ELSE JoinAll[i - (m + c)]
  <2>1. program = two \o JoinAll
    BY DEF two
  <2> QED
    <3>1. /\ Len(two \o JoinAll) = Len(two) + Len(JoinAll)
          /\ \A i \in 1 .. Len(two) + Len(JoinAll) :
               (two \o JoinAll)[i] = IF i <= Len(two) THEN two[i] ELSE JoinAll[i - Len(two)]
      BY <1>5, <1>6, PutBehind, Zenon
    <3> QED
      BY <1>5, <1>6, <2>1, <3>1
<1> HIDE DEF m
<1>8. \A i \in 1 .. m + c + c : \/ i <= m /\ program[i] = first[i]
                                \/ i > m /\ i <= m + c /\ program[i] = Call("Exec", Children[i - m])
                                \/ i > m + c /\ program[i] = Call("Join", Children[i - (m + c)])
  <2> SUFFICES ASSUME NEW i \in 1 .. m + c + c
               PROVE  \/ i <= m /\ program[i] = first[i]
                      \/ i > m /\ i <= m + c /\ program[i] = Call("Exec", Children[i - m])
                      \/ i > m + c /\ program[i] = Call("Join", Children[i - (m + c)])
    OBVIOUS
  <2>1. CASE i <= m
    BY <1>1, <1>6, <1>7, <2>1
  <2>2. CASE i > m /\ i <= m + c
    <3>1. i - m \in 1 .. c /\ i \in 1 .. m + c /\ ~ (i <= m)
      BY <1>1, <2>2
    <3> QED
      BY <1>3, <1>6, <1>7, <2>2, <3>1
  <2>3. CASE i > m + c
    <3>1. i - (m + c) \in 1 .. c /\ ~ (i <= m + c)
      BY <1>1, <2>3
    <3> QED
      BY <1>3, <1>7, <2>3, <3>1
  <2>4. i <= m \/ (i > m /\ i <= m + c) \/ i > m + c
    BY <1>1
  <2> QED
    BY <2>1, <2>2, <2>3, <2>4, Zenon
<1>9. \A i \in 1 .. m : first[i].op # "Exec"
  BY DEF m
<1>10. \A x : Call("Join", x).op # "Exec" /\ Call("Exec", x).op = "Exec"
  BY DEF Call
<1>11. ASSUME NEW k \in 1 .. m + c + c, program[k].op = "Exec"
       PROVE  k > m /\ k <= m + c /\ program[k] = Call("Exec", Children[k - m])
  <2>1. k <= m => k \in 1 .. m
    BY <1>1
  <2>2. ~ (k <= m /\ program[k] = first[k])
    BY <1>9, <1>11, <2>1, Zenon
  <2>3. program[k] # Call("Join", Children[k - (m + c)])
    BY <1>10, <1>11, Zenon
  <2> QED
    BY <1>8, <2>2, <2>3, Zenon
<1>12. ASSUME NEW k \in 1 .. m + c + c, program[k].op = "Exec"
       PROVE  /\ \A n \in names : \E j \in 1 .. k - 1 : program[j] = Call("CreateSemaphore", n)
              /\ \A j \in 1 .. m + c + c : program[j] = program[k] => j = k
  <2>1. k > m /\ k <= m + c /\ program[k] = Call("Exec", Children[k - m])
    BY <1>11, <1>12
  <2>2. ASSUME NEW n \in names PROVE \E j \in 1 .. k - 1 : program[j] = Call("CreateSemaphore", n)
    <3>1. PICK i \in 1 .. m : first[i] = Call("CreateSemaphore", n)
      BY DEF m
    <3>2. i \in 1 .. k - 1 /\ i \in 1 .. m + c + c /\ ~ (i > m) /\ ~ (i > m + c)
      BY <1>1, <2>1
    <3>3. program[i] = first[i]
      BY <1>8, <3>2, Zenon
    <3> QED
      BY <3>1, <3>2, <3>3
  <2>3. ASSUME NEW j \in 1 .. m + c + c, program[j] = program[k] PROVE j = k
    <3>1. j > m /\ j <= m + c /\ program[j] = Call("Exec", Children[j - m])
      BY <1>11, <1>12, <2>3
    <3>2. Call("Exec", Children[j - m]) = Call("Exec", Children[k - m])
      BY <2>1, <2>3, <3>1, Zenon
    <3>3. \A x, y : Call("Exec", x) = Call("Exec", y) => x = y
      BY CallsDiffer
    <3>4. Children[j - m] = Children[k - m]
      BY <3>2, <3>3, Zenon
    <3>5. j - m \in 1 .. c /\ k - m \in 1 .. c
      BY <1>1, <2>1, <3>1
    <3>6. j - m = k - m
      BY <1>1, <3>4, <3>5, Zenon
    <3> QED
      BY <1>1, <3>6
  <2> QED
    BY <2>2, <2>3
<1> QED
  BY <1>7, <1>12 DEF StartsInOrder


LEMMA MainStartsInOrder ==
  ASSUME story \in {"pingpong", "tape"} PROVE StartsInOrder(Program(Main), Needed)
<1> DEFINE three == << Call("CreateSemaphore", "print"), Call("CreateSemaphore", "ping"),
                       Call("CreateSemaphore", "pong") >>
           pair  == << Call("CreateFile", 0), Call("CreateSemaphore", "tape") >>
           S     == {three[i] : i \in 1 .. 3} \cup {pair[i] : i \in 1 .. 2}
           N3    == {"print", "ping", "pong"}
<1>1. three \in Seq(S) /\ Len(three) = 3 /\ pair \in Seq(S) /\ Len(pair) = 2
  OBVIOUS
<1>2. /\ three[1] = Call("CreateSemaphore", "print") /\ three[2] = Call("CreateSemaphore", "ping")
      /\ three[3] = Call("CreateSemaphore", "pong")
      /\ pair[1] = Call("CreateFile", 0) /\ pair[2] = Call("CreateSemaphore", "tape")
  OBVIOUS
<1>3. PingPong = three \o StartAll \o JoinAll /\ Project2 = pair \o StartAll \o JoinAll
  BY DEF PingPong, Project2
<1> HIDE DEF three, pair, S
<1>4. \A o, x : Call(o, x).op = o
  BY DEF Call
<1>5. /\ \A i \in 1 .. Len(three) : three[i].op # "Exec"
      /\ \A i \in 1 .. Len(pair) : pair[i].op # "Exec"
  <2>1. \A i \in 1 .. 3 : i = 1 \/ i = 2 \/ i = 3
    OBVIOUS
  <2>2. \A i \in 1 .. 2 : i = 1 \/ i = 2
    OBVIOUS
  <2> QED
    BY <1>1, <1>2, <1>4, <2>1, <2>2
<1>6. /\ \A n \in N3 : \E i \in 1 .. Len(three) : three[i] = Call("CreateSemaphore", n)
      /\ \A n \in {"tape"} : \E i \in 1 .. Len(pair) : pair[i] = Call("CreateSemaphore", n)
  <2>1. 1 \in 1 .. 3 /\ 2 \in 1 .. 3 /\ 3 \in 1 .. 3 /\ 2 \in 1 .. 2
    OBVIOUS
  <2> QED
    BY <1>1, <1>2, <2>1, Zenon
<1>7. StartsInOrder(PingPong, N3)
  <2> HIDE DEF N3
  <2> QED
    BY <1>1, <1>3, <1>5, <1>6, MainShape
<1>8. StartsInOrder(Project2, {"tape"})
  BY <1>1, <1>3, <1>5, <1>6, MainShape
<1>9. CASE story = "pingpong"
  <2>1. Program(Main) = PingPong /\ Needed = N3
    BY <1>9 DEF Program, Needed
  <2> QED
    BY <1>7, <2>1, Zenon
<1>10. CASE story = "tape"
  <2>1. Program(Main) = Project2 /\ Needed = {"tape"}
    BY <1>10 DEF Program, Needed
  <2> QED
    BY <1>8, <2>1, Zenon
<1> QED
  BY <1>9, <1>10

-----------------------------------------------------------------------------
(* Turns: the units of the semaphores *)

\* A name has one slot; before it has one nothing was taken or given, and
\* whoever creates it gives it one unit.
OneUnit ==
  /\ UnitsKept
  /\ \A n \in SemNames : IF Known(n) THEN initial[n] = 1 ELSE initial[n] = 0 /\ given[n] = 0 /\ passed[n] = 0

\* Slots stay what they are.
NamesKept == \A i \in DOMAIN semTab : i \in DOMAIN semTab' /\ semTab'[i].name = semTab[i].name

LEMMA KnownStays == ASSUME NamesKept, NEW n, Known(n) PROVE Known(n)'
BY DEF NamesKept, Known

\* OneUnit, of one slot.
SlotKept(i) ==
  /\ \A j \in DOMAIN semTab : semTab[j].name = semTab[i].name => j = i
  /\ semTab[i].value = initial[semTab[i].name] + given[semTab[i].name] - passed[semTab[i].name]
  /\ semTab[i].value >= 0

LEMMA SlotsKept == ASSUME SemTypeOK PROVE OneUnit => \A i \in DOMAIN semTab : SlotKept(i)
<1> SUFFICES ASSUME OneUnit, NEW i \in DOMAIN semTab PROVE SlotKept(i)
  OBVIOUS
<1>1. Known(semTab[i].name) /\ semTab[i].name \in SemNames
  BY SemSlot DEF Known
<1>2. initial[semTab[i].name] = 1
  BY <1>1 DEF OneUnit
<1> QED
  BY <1>2 DEF OneUnit, UnitsKept, SlotKept

LEMMA SlotsMakeUnits ==
  ASSUME \A i \in DOMAIN semTab : SlotKept(i),
         \A n \in SemNames : IF Known(n) THEN initial[n] = 1 ELSE initial[n] = 0 /\ given[n] = 0 /\ passed[n] = 0
  PROVE  OneUnit
BY DEF SlotKept, OneUnit, UnitsKept

\* Four slots have four names: no room is missing for a name without one.
LEMMA RoomForAll ==
  ASSUME SemTypeOK, OneUnit, NEW n \in SemNames, ~ Known(n) PROVE ~ CreateRefuses(n)
<1> SUFFICES ASSUME Len(semTab) = MaxSemaphore PROVE FALSE
  BY DEF CreateRefuses
<1>1. Len(semTab) \in Nat /\ Len(semTab) >= 4 /\ DOMAIN semTab = 1 .. Len(semTab)
  BY UserProgramsAssumption, MaxSemaphoreAssumption DEF SemTypeOK
<1>2. 1 \in DOMAIN semTab /\ 2 \in DOMAIN semTab /\ 3 \in DOMAIN semTab /\ 4 \in DOMAIN semTab
  BY <1>1
<1>3. \A i, j \in DOMAIN semTab : semTab[i].name = semTab[j].name => i = j
  BY DEF OneUnit, UnitsKept
<1>4. \A i \in DOMAIN semTab : semTab[i].name \in {"ping", "pong", "print", "tape"} /\ semTab[i].name # n
  BY SemSlot, UserProgramsAssumption DEF Known
<1>5. n \in {"ping", "pong", "print", "tape"}
  BY UserProgramsAssumption
<1> DEFINE a == semTab[1].name
           b == semTab[2].name
           c == semTab[3].name
           d == semTab[4].name
<1>6. a # b /\ a # c /\ a # d /\ b # c /\ b # d /\ c # d
  BY <1>2, <1>3
<1>7. /\ a \in {"ping", "pong", "print", "tape"} /\ b \in {"ping", "pong", "print", "tape"}
      /\ c \in {"ping", "pong", "print", "tape"} /\ d \in {"ping", "pong", "print", "tape"}
      /\ a # n /\ b # n /\ c # n /\ d # n
  BY <1>2, <1>4
<1> HIDE DEF a, b, c, d
<1> QED
  BY <1>5, <1>6, <1>7

LEMMA CreateKeepsUnits ==
  ASSUME SemTypeOK, OneUnit, NEW n \in SemNames, CreateSemaphore(n, 1)
  PROVE  OneUnit' /\ NamesKept /\ Known(n)'
<1> DEFINE len == Len(semTab)
           new == [name |-> n, value |-> 1]
<1>1. /\ ~ Known(n) /\ semTab' = Append(semTab, new) /\ initial' = [initial EXCEPT ![n] = 1]
      /\ UNCHANGED <<waitsOn, passed, given>>
  BY DEF CreateSemaphore, CreateRefuses
<1>2. len \in Nat /\ DOMAIN semTab = 1 .. len /\ semTab \in Seq([name : SemNames, value : Int])
  BY DEF SemTypeOK
<1>3. /\ DOMAIN semTab' = 1 .. len + 1 /\ semTab'[len + 1] = new
      /\ \A i \in 1 .. len : semTab'[i] = semTab[i]
  BY <1>1, <1>2
<1>4. new.name = n /\ new.value = 1
  OBVIOUS
<1>5. initial[n] = 0 /\ given[n] = 0 /\ passed[n] = 0
  BY <1>1 DEF OneUnit
<1>6. initial'[n] = 1 /\ \A m \in SemNames : m # n => initial'[m] = initial[m]
  BY <1>1 DEF SemTypeOK
<1>7. \A i \in DOMAIN semTab : semTab[i].name # n /\ semTab[i].name \in SemNames
  BY <1>1, SemSlot DEF Known
<1> HIDE DEF len, new
<1>8. NamesKept
  BY <1>2, <1>3 DEF NamesKept
<1>9. Known(n)'
  BY <1>2, <1>3, <1>4 DEF Known
<1>10. \A m \in SemNames : m # n => (Known(m)' <=> Known(m))
  <2> SUFFICES ASSUME NEW m \in SemNames, m # n, NEW i \in DOMAIN semTab', semTab'[i].name = m
               PROVE  Known(m)
    BY <1>8, KnownStays DEF Known
  <2>1. i # len + 1 /\ i \in 1 .. len
    BY <1>2, <1>3, <1>4
  <2> QED
    BY <1>2, <1>3, <2>1 DEF Known
<1>11. \A m \in SemNames : IF Known(m)' THEN initial'[m] = 1
                                        ELSE initial'[m] = 0 /\ given'[m] = 0 /\ passed'[m] = 0
  BY <1>1, <1>6, <1>9, <1>10 DEF OneUnit
<1>12. \A i \in DOMAIN semTab' : SlotKept(i)'
  <2>1. \A i \in DOMAIN semTab : SlotKept(i)
    BY SlotsKept
  <2>2. \A i \in DOMAIN semTab' : i = len + 1 \/ i \in DOMAIN semTab
    BY <1>2, <1>3
  <2>3. ASSUME NEW i \in DOMAIN semTab PROVE SlotKept(i)'
    <3>1. semTab'[i] = semTab[i] /\ semTab[i].name # n /\ semTab[i].name \in SemNames
      BY <1>2, <1>3, <1>7
    <3>2. \A j \in DOMAIN semTab' : semTab'[j].name = semTab'[i].name => j = i
      BY <1>2, <1>3, <1>4, <2>1, <2>2, <3>1 DEF SlotKept
    <3>3. initial'[semTab[i].name] = initial[semTab[i].name]
      BY <1>6, <3>1
    <3> QED
      BY <1>1, <2>1, <3>1, <3>2, <3>3 DEF SlotKept
  <2>4. ASSUME NEW i, i = len + 1 PROVE SlotKept(i)'
    <3>1. \A j \in DOMAIN semTab' : semTab'[j].name = n => j = i
      BY <1>2, <1>3, <1>7, <2>2, <2>4
    <3>2. semTab'[i].name = n /\ semTab'[i].value = 1 /\ given'[n] = 0 /\ passed'[n] = 0
      BY <1>1, <1>3, <1>4, <1>5, <2>4
    <3> QED
      BY <1>6, <3>1, <3>2 DEF SlotKept
  <2> QED
    BY <2>2, <2>3, <2>4
<1> QED
  BY <1>8, <1>9, <1>11, <1>12 DEF SlotKept, OneUnit, UnitsKept


\* One slot's value changes, and with it one of the counts of its name.
LEMMA UnitMoved ==
  ASSUME SemTypeOK, OneUnit, NEW s \in DOMAIN semTab, NEW v \in Int, v >= 0,
         semTab' = [semTab EXCEPT ![s].value = v], initial' = initial,
         passed' \in [SemNames -> Nat], given' \in [SemNames -> Nat],
         \A m \in SemNames : m # semTab[s].name => passed'[m] = passed[m] /\ given'[m] = given[m],
         v = initial[semTab[s].name] + given'[semTab[s].name] - passed'[semTab[s].name]
  PROVE  OneUnit' /\ NamesKept
<1> DEFINE n == semTab[s].name
<1>1. /\ Len(semTab') = Len(semTab) /\ semTab'[s].value = v
      /\ \A j \in DOMAIN semTab : semTab'[j].name = semTab[j].name
      /\ \A j \in DOMAIN semTab : j # s => semTab'[j] = semTab[j]
      /\ n \in SemNames
  BY SemSlot
<1>2. DOMAIN semTab' = DOMAIN semTab
  BY <1>1
<1>3. NamesKept
  BY <1>1, <1>2 DEF NamesKept
<1>4. \A m : Known(m)' <=> Known(m)
  BY <1>1, <1>2 DEF Known
<1>5. Known(n)
  BY DEF Known
<1>6. \A m \in SemNames : IF Known(m)' THEN initial'[m] = 1
                                       ELSE initial'[m] = 0 /\ given'[m] = 0 /\ passed'[m] = 0
  <2> SUFFICES ASSUME NEW m \in SemNames
               PROVE  IF Known(m)' THEN initial'[m] = 1 ELSE initial'[m] = 0 /\ given'[m] = 0 /\ passed'[m] = 0
    OBVIOUS
  <2>1. CASE m = n
    BY <1>4, <1>5, <2>1 DEF OneUnit
  <2>2. CASE m # n
    BY <1>4, <2>2 DEF OneUnit
  <2> QED
    BY <2>1, <2>2
<1>7. \A i \in DOMAIN semTab' : SlotKept(i)'
  <2> SUFFICES ASSUME NEW i \in DOMAIN semTab PROVE SlotKept(i)'
    BY <1>2
  <2>1. SlotKept(i) /\ semTab'[i].name = semTab[i].name /\ semTab[i].name \in SemNames
    BY <1>1, SlotsKept, SemSlot
  <2>2. \A j \in DOMAIN semTab' : semTab'[j].name = semTab'[i].name => j = i
    BY <1>1, <1>2, <2>1 DEF SlotKept
  <2>3. CASE i = s
    BY <1>1, <2>1, <2>2, <2>3 DEF SlotKept
  <2>4. CASE i # s
    <3>1. semTab[i].name # n
      <4>1. semTab[s].name # semTab[i].name
        BY <2>1, <2>4 DEF SlotKept
      <4> QED
        BY <4>1
    <3>2. passed'[semTab[i].name] = passed[semTab[i].name] /\ given'[semTab[i].name] = given[semTab[i].name]
      BY <2>1, <3>1
    <3>3. semTab'[i].value = semTab[i].value
      BY <1>1, <2>4
    <3> QED
      BY <2>1, <2>2, <3>2, <3>3 DEF SlotKept
  <2> QED
    BY <2>3, <2>4
<1> QED
  BY <1>3, <1>6, <1>7 DEF SlotKept, OneUnit, UnitsKept

LEMMA PassKeepsUnits ==
  ASSUME SemTypeOK, OneUnit, NEW c \in Callers, NEW s \in DOMAIN semTab, Pass(c, s)
  PROVE  /\ OneUnit' /\ NamesKept
         /\ passed'[semTab[s].name] = passed[semTab[s].name] + 1
         /\ \A m \in SemNames : m # semTab[s].name => passed'[m] = passed[m]
<1> DEFINE n == semTab[s].name
           v == semTab[s].value - 1
<1>1. SlotKept(s) /\ n \in SemNames /\ semTab[s].value \in Int
  BY SlotsKept, SemSlot
<1>2. /\ semTab[s].value # 0 /\ semTab' = [semTab EXCEPT ![s].value = v]
      /\ passed' = [passed EXCEPT ![n] = passed[n] + 1] /\ UNCHANGED <<initial, given>>
  BY DEF Pass
<1>3. v \in Int /\ v >= 0
  BY <1>1, <1>2 DEF SlotKept
<1>4. passed \in [SemNames -> Nat] /\ given \in [SemNames -> Nat] /\ initial \in [SemNames -> Int]
  BY DEF SemTypeOK
<1> HIDE DEF n
<1>5. passed'[n] = passed[n] + 1 /\ passed' \in [SemNames -> Nat] /\ \A m \in SemNames : m # n => passed'[m] = passed[m]
  BY <1>1, <1>2, <1>4
<1>6. v = initial[n] + given'[n] - passed'[n]
  BY <1>1, <1>2, <1>4, <1>5 DEF SlotKept, n
<1> HIDE DEF v
<1>7. OneUnit' /\ NamesKept
  BY <1>2, <1>3, <1>4, <1>5, <1>6, UnitMoved DEF n
<1> QED
  BY <1>5, <1>7 DEF n

LEMMA SignalKeepsUnits ==
  ASSUME SemTypeOK, OneUnit, NEW n \in SemNames, Signal(n)
  PROVE  /\ OneUnit' /\ NamesKept /\ given'[n] = given[n] + 1
         /\ \A m \in SemNames : m # n => given'[m] = given[m]
<1>1. PICK s \in DOMAIN semTab : IsSlotOf(n, s) /\ semTab' = [semTab EXCEPT ![s].value = semTab[s].value + 1]
  BY DEF Signal
<1> DEFINE v == semTab[s].value + 1
<1>2. SlotKept(s) /\ semTab[s].value \in Int /\ semTab[s].name = n
  BY <1>1, SlotsKept, SemSlot DEF IsSlotOf
<1>3. given' = [given EXCEPT ![n] = given[n] + 1] /\ UNCHANGED <<initial, passed>>
  BY DEF Signal
<1>4. v \in Int /\ v >= 0
  BY <1>2 DEF SlotKept
<1>5. passed \in [SemNames -> Nat] /\ given \in [SemNames -> Nat] /\ initial \in [SemNames -> Int]
  BY DEF SemTypeOK
<1>6. given'[n] = given[n] + 1 /\ given' \in [SemNames -> Nat] /\ \A m \in SemNames : m # n => given'[m] = given[m]
  BY <1>3, <1>5
<1>7. v = initial[n] + given'[n] - passed'[n]
  BY <1>2, <1>3, <1>5, <1>6 DEF SlotKept
<1>8. semTab' = [semTab EXCEPT ![s].value = v]
  BY <1>1
<1> HIDE DEF v
<1>9. OneUnit' /\ NamesKept
  BY <1>2, <1>3, <1>4, <1>5, <1>6, <1>7, <1>8, UnitMoved
<1> QED
  BY <1>6, <1>9

LEMMA UnitsUntouched ==
  ASSUME OneUnit, UNCHANGED <<semTab, initial, passed, given>> PROVE OneUnit' /\ NamesKept
BY DEF OneUnit, UnitsKept, Known, NamesKept


-----------------------------------------------------------------------------
(* Turns: the calls that are counted, and who is between two of them *)

\* What Waits, Signals and PrintChars have been made: a Wait, when it passed.
Marks == [op : {"Wait", "Signal"}, arg : SemNames] \cup [op : {"PrintChar"}, arg : {"A", "B"}]

Made(m) ==
  IF m.op = "Wait" THEN passed[m.arg] ELSE IF m.op = "Signal" THEN given[m.arg] ELSE printed[m.arg]

Pairs == { << Call("Wait", "print"), Call("Signal", "print") >>, << Call("Wait", "tape"), Call("Signal", "tape") >>,
           << Call("Wait", "ping"), Call("PrintChar", "A") >>, << Call("PrintChar", "A"), Call("Signal", "pong") >>,
           << Call("Wait", "pong"), Call("PrintChar", "B") >>, << Call("PrintChar", "B"), Call("Signal", "ping") >> }

\* p waits in the call m.
Blocked(p, m) == waitsOn[p] # 0 /\ m = Call("Wait", semTab[waitsOn[p]].name)

\* p is through the first of the two calls, and has not made the second since.
Between(p, d) == Since(p, d[1], d[2]) /\ ~ Blocked(p, d[1])
AllBetween(d) == {p \in Scripted : Between(p, d)}

Counted(d) == Made(d[1]) = Made(d[2]) + Cardinality(AllBetween(d))

LEMMA PairsAlternate ==
  ASSUME NEW d \in Pairs
  PROVE  /\ d[1] \in Marks /\ d[2] \in Marks /\ d[1] # d[2] /\ d[2].op # "Wait"
         /\ \A p : Alternates(Program(p), d[1], d[2])
<1>1. {"ping", "pong", "print", "tape"} = SemNames
  BY UserProgramsAssumption
<1>2. d[1] \in Marks /\ d[2] \in Marks
  BY <1>1 DEF Pairs, Marks, Call
<1>3. d[1] # d[2] /\ d[2].op # "Wait"
  BY DEF Pairs, Call
<1>4. ASSUME NEW p PROVE Alternates(Program(p), d[1], d[2])
  <2>1. TakesTurns(Program(p))
    BY AllTakeTurns
  <2>2. \/ d[1] = Call("Wait", "print") /\ d[2] = Call("Signal", "print")
        \/ d[1] = Call("Wait", "tape") /\ d[2] = Call("Signal", "tape")
        \/ d[1] = Call("Wait", "ping") /\ d[2] = Call("PrintChar", "A")
        \/ d[1] = Call("PrintChar", "A") /\ d[2] = Call("Signal", "pong")
        \/ d[1] = Call("Wait", "pong") /\ d[2] = Call("PrintChar", "B")
        \/ d[1] = Call("PrintChar", "B") /\ d[2] = Call("Signal", "ping")
    BY DEF Pairs
  <2> QED
    BY <2>1, <2>2, Zenon DEF TakesTurns
<1> QED
  BY <1>2, <1>3, <1>4

LEMMA SinceIsIn ==
  ASSUME NEW p, NEW a, NEW b PROVE Since(p, a, b) <=> SinceIn(Program(p), at[p], a, b)
BY DEF Since, SinceIn

\* One call more.
LEMMA SinceNext ==
  ASSUME NEW program, NEW k \in Nat, k > 0, NEW a, NEW b, a # b
  PROVE  SinceIn(program, k + 1, a, b) <=> program[k] = a \/ (program[k] # b /\ SinceIn(program, k, a, b))
<1>1. (k + 1) - 1 = k /\ k \in Int /\ \A i \in 1 .. k : i = k \/ i \in 1 .. k - 1
  OBVIOUS
<1>2. ASSUME SinceIn(program, k + 1, a, b), program[k] # a
      PROVE  program[k] # b /\ SinceIn(program, k, a, b)
  <2>1. PICK i \in 1 .. k : program[i] = a /\ \A j \in i + 1 .. k : program[j] # b
    BY <1>1, <1>2 DEF SinceIn
  <2>2. i \in 1 .. k - 1 /\ k \in i + 1 .. k
    BY <1>1, <1>2, <2>1
  <2>3. \A j \in i + 1 .. k - 1 : j \in i + 1 .. k
    BY <2>2
  <2> QED
    BY <2>1, <2>2, <2>3 DEF SinceIn
<1>3. ASSUME program[k] = a PROVE SinceIn(program, k + 1, a, b)
  <2>1. k \in 1 .. (k + 1) - 1 /\ \A j \in k + 1 .. (k + 1) - 1 : FALSE
    OBVIOUS
  <2> QED
    BY <1>3, <2>1, Zenon DEF SinceIn
<1>4. ASSUME program[k] # b, SinceIn(program, k, a, b) PROVE SinceIn(program, k + 1, a, b)
  <2>1. PICK i \in 1 .. k - 1 : program[i] = a /\ \A j \in i + 1 .. k - 1 : program[j] # b
    BY <1>4 DEF SinceIn
  <2>2. i \in 1 .. (k + 1) - 1 /\ \A j \in i + 1 .. (k + 1) - 1 : j = k \/ j \in i + 1 .. k - 1
    OBVIOUS
  <2>3. \A j \in i + 1 .. (k + 1) - 1 : program[j] # b
    BY <1>4, <2>1, <2>2, Zenon
  <2> QED
    BY <2>1, <2>2, <2>3, Zenon DEF SinceIn
<1> QED
  BY <1>2, <1>3, <1>4

\* A process that has not begun is between no two calls.
LEMMA NotBegun ==
  ASSUME NEW program, NEW k \in {0, 1}, NEW a, NEW b PROVE ~ SinceIn(program, k, a, b)
BY DEF SinceIn

LEMMA CountMoves ==
  ASSUME NEW d, NEW p \in Scripted, IsFiniteSet(Scripted), Counted(d), Made(d[1]) \in Nat, Made(d[2]) \in Nat,
         \A q \in Scripted : q # p => (Between(q, d)' <=> Between(q, d)),
         \/ (Between(p, d)' <=> Between(p, d)) /\ Made(d[1])' = Made(d[1]) /\ Made(d[2])' = Made(d[2])
         \/ Between(p, d)' /\ ~ Between(p, d) /\ Made(d[1])' = Made(d[1]) + 1 /\ Made(d[2])' = Made(d[2])
         \/ ~ Between(p, d)' /\ Between(p, d) /\ Made(d[1])' = Made(d[1]) /\ Made(d[2])' = Made(d[2]) + 1
  PROVE  Counted(d)'
<1> DEFINE was == AllBetween(d)
           is  == {q \in Scripted : Between(q, d)'}
<1>1. IsFiniteSet(was) /\ Cardinality(was) \in Nat
  <2>1. was \in SUBSET Scripted
    BY DEF AllBetween
  <2> HIDE DEF was
  <2> QED
    BY <2>1, FS_Subset, FS_CardinalityType
<1>2. Made(d[1]) = Made(d[2]) + Cardinality(was)
  BY DEF Counted
<1>3. Counted(d)' <=> Made(d[1])' = Made(d[2])' + Cardinality(is)
  BY DEF Counted, AllBetween
<1>4. p \in was <=> Between(p, d)
  BY DEF AllBetween
<1> SUFFICES Made(d[1])' = Made(d[2])' + Cardinality(is)
  BY <1>3
<1>5. CASE (Between(p, d)' <=> Between(p, d)) /\ Made(d[1])' = Made(d[1]) /\ Made(d[2])' = Made(d[2])
  <2>1. is = was
    BY <1>5, Zenon DEF AllBetween
  <2> HIDE DEF is, was
  <2> QED
    BY <1>2, <1>5, <2>1
<1>6. CASE Between(p, d)' /\ ~ Between(p, d) /\ Made(d[1])' = Made(d[1]) + 1 /\ Made(d[2])' = Made(d[2])
  <2>1. is = was \cup {p}
    BY <1>6, Zenon DEF AllBetween
  <2>2. p \notin was
    BY <1>4, <1>6
  <2> HIDE DEF is, was
  <2>3. Cardinality(is) = Cardinality(was) + 1
    BY <1>1, <2>1, <2>2, FS_AddElement
  <2> QED
    BY <1>1, <1>2, <1>6, <2>3
<1>7. CASE ~ Between(p, d)' /\ Between(p, d) /\ Made(d[1])' = Made(d[1]) /\ Made(d[2])' = Made(d[2]) + 1
  <2>1. is = was \ {p}
    BY <1>7, Zenon DEF AllBetween
  <2>2. p \in was
    BY <1>4, <1>7
  <2> HIDE DEF is, was
  <2>3. Cardinality(is) = Cardinality(was) - 1
    BY <1>1, <2>1, <2>2, FS_RemoveElement
  <2> QED
    BY <1>1, <1>2, <1>7, <2>3
<1> QED
  BY <1>5, <1>6, <1>7


LEMMA SinceThen ==
  ASSUME NEW p, story' = story, NEW a, NEW b
  PROVE  Since(p, a, b)' <=> SinceIn(Program(p), at'[p], a, b)
<1>1. Program(p)' = Program(p)
  BY DEF Program
<1> QED
  BY <1>1 DEF Since, SinceIn

LEMMA MadeIsNat ==
  ASSUME SemTypeOK, printed \in [{"A", "B"} -> Nat], NEW m \in Marks PROVE Made(m) \in Nat
BY DEF SemTypeOK, Marks, Made

LEMMA ScriptedIsFinite == IsFiniteSet(Scripted)
<1>1. Len(Children) \in Nat /\ DOMAIN Children = 1 .. Len(Children)
  BY UserProgramsAssumption
<1>2. Children \in Surjection(1 .. Len(Children), Started)
  <2>1. Children \in [1 .. Len(Children) -> Started]
    <3>1. Children = [i \in 1 .. Len(Children) |-> Children[i]]
      BY UserProgramsAssumption
    <3> QED
      BY <1>1, <3>1 DEF Started
  <2>2. \A c \in Started : \E i \in 1 .. Len(Children) : Children[i] = c
    BY <1>1 DEF Started
  <2> QED
    BY <2>1, <2>2, Zenon DEF Surjection
<1>3. IsFiniteSet(Started)
  <2>1. IsFiniteSet(1 .. Len(Children))
    BY <1>1, FS_Interval
  <2> QED
    BY <1>2, <2>1, FS_Surjection
<1> QED
  BY <1>3, ScriptedAreCallers, FS_Union, FS_Singleton

\* The others, who may begin.
LEMMA OthersStay ==
  ASSUME SemTypeOK, NamesKept, story' = story, NEW q \in Scripted, waitsOn'[q] = waitsOn[q],
         at'[q] = at[q] \/ (at[q] = 0 /\ at'[q] = 1), NEW d
  PROVE  Between(q, d)' <=> Between(q, d)
<1>1. Blocked(q, d[1])' <=> Blocked(q, d[1])
  <2>1. q \in Callers
    BY ScriptedAreCallers
  <2>2. waitsOn[q] # 0 => waitsOn[q] \in DOMAIN semTab
    BY <2>1 DEF SemTypeOK
  <2>3. waitsOn[q] # 0 => semTab'[waitsOn'[q]].name = semTab[waitsOn[q]].name
    BY <2>2 DEF NamesKept
  <2> QED
    BY <2>3 DEF Blocked
<1>2. Since(q, d[1], d[2])' <=> SinceIn(Program(q), at'[q], d[1], d[2])
  BY SinceThen
<1>3. Since(q, d[1], d[2]) <=> SinceIn(Program(q), at[q], d[1], d[2])
  BY SinceIsIn
<1>4. CASE at[q] = 0 /\ at'[q] = 1
  <2>1. 0 \in {0, 1} /\ 1 \in {0, 1}
    OBVIOUS
  <2> QED
    BY <1>2, <1>3, <1>4, <2>1, NotBegun DEF Between
<1> QED
  BY <1>1, <1>2, <1>3, <1>4 DEF Between

\* p makes a call and goes on.
Proceeds(p) ==
  /\ story' = story
  /\ at[p] \in 1 .. Len(Program(p)) /\ at'[p] = at[p] + 1
  /\ waitsOn[p] = 0 /\ waitsOn'[p] = 0
  /\ NamesKept
  /\ \A q \in Scripted : q # p => /\ waitsOn'[q] = waitsOn[q]
                                  /\ at'[q] = at[q] \/ (at[q] = 0 /\ at'[q] = 1)
  /\ \A m \in Marks : Made(m)' = Made(m) + (IF m = Program(p)[at[p]] THEN 1 ELSE 0)

LEMMA ProceedsCounts ==
  ASSUME SemTypeOK, printed \in [{"A", "B"} -> Nat], NEW p \in Scripted, Proceeds(p), NEW d \in Pairs, Counted(d)
  PROVE  Counted(d)'
<1> DEFINE e == Program(p)[at[p]]
           k == at[p]
<1>1. d[1] \in Marks /\ d[2] \in Marks /\ d[1] # d[2] /\ Alternates(Program(p), d[1], d[2])
  BY PairsAlternate
<1>2. Made(d[1]) \in Nat /\ Made(d[2]) \in Nat
  BY <1>1, MadeIsNat
<1>3. Made(d[1])' = Made(d[1]) + (IF d[1] = e THEN 1 ELSE 0) /\ Made(d[2])' = Made(d[2]) + (IF d[2] = e THEN 1 ELSE 0)
  BY <1>1 DEF Proceeds
<1>4. \A q \in Scripted : q # p => (Between(q, d)' <=> Between(q, d))
  BY OthersStay DEF Proceeds
<1>5. ~ Blocked(p, d[1])' /\ ~ Blocked(p, d[1])
  BY DEF Blocked, Proceeds
<1>6. Between(p, d) <=> SinceIn(Program(p), k, d[1], d[2])
  BY <1>5, SinceIsIn DEF Between
<1>7. Between(p, d)' <=> SinceIn(Program(p), k + 1, d[1], d[2])
  BY <1>5, SinceThen DEF Between, Proceeds
<1>8. k \in Nat /\ k > 0 /\ k \in 1 .. Len(Program(p))
  BY DEF Proceeds
<1>9. (e = d[1] => ~ SinceIn(Program(p), k, d[1], d[2])) /\ (e = d[2] => SinceIn(Program(p), k, d[1], d[2]))
  BY <1>1, <1>8 DEF Alternates
<1>10. SinceIn(Program(p), k + 1, d[1], d[2]) <=> e = d[1] \/ (e # d[2] /\ SinceIn(Program(p), k, d[1], d[2]))
  BY <1>1, <1>8, SinceNext
<1> HIDE DEF e, k
<1>11. \/ (Between(p, d)' <=> Between(p, d)) /\ Made(d[1])' = Made(d[1]) /\ Made(d[2])' = Made(d[2])
       \/ Between(p, d)' /\ ~ Between(p, d) /\ Made(d[1])' = Made(d[1]) + 1 /\ Made(d[2])' = Made(d[2])
       \/ ~ Between(p, d)' /\ Between(p, d) /\ Made(d[1])' = Made(d[1]) /\ Made(d[2])' = Made(d[2]) + 1
  <2>1. CASE e = d[1]
    <3>1. Made(d[1])' = Made(d[1]) + 1 /\ Made(d[2])' = Made(d[2])
      BY <1>1, <1>2, <1>3, <2>1
    <3> QED
      BY <1>6, <1>7, <1>9, <1>10, <2>1, <3>1
  <2>2. CASE e = d[2]
    <3>1. Made(d[2])' = Made(d[2]) + 1 /\ Made(d[1])' = Made(d[1])
      BY <1>1, <1>2, <1>3, <2>2
    <3> QED
      BY <1>1, <1>6, <1>7, <1>9, <1>10, <2>2, <3>1
  <2>3. CASE e # d[1] /\ e # d[2]
    <3>1. Made(d[2])' = Made(d[2]) /\ Made(d[1])' = Made(d[1])
      BY <1>2, <1>3, <2>3
    <3> QED
      BY <1>6, <1>7, <1>10, <2>3, <3>1
  <2> QED
    BY <2>1, <2>2, <2>3
<1> QED
  BY <1>2, <1>4, <1>11, CountMoves, ScriptedIsFinite

\* p makes a Wait and must wait.
Blocks(p) ==
  /\ story' = story
  /\ at[p] \in 1 .. Len(Program(p)) /\ at'[p] = at[p] + 1
  /\ waitsOn[p] = 0 /\ waitsOn'[p] \in DOMAIN semTab
  /\ Program(p)[at[p]] = Call("Wait", semTab[waitsOn'[p]].name)
  /\ UNCHANGED <<semTab, passed, given, printed>>
  /\ \A q \in Scripted : q # p => waitsOn'[q] = waitsOn[q] /\ at'[q] = at[q]

LEMMA BlocksCounts ==
  ASSUME SemTypeOK, printed \in [{"A", "B"} -> Nat], NEW p \in Scripted, Blocks(p), NEW d \in Pairs, Counted(d)
  PROVE  Counted(d)'
<1> DEFINE e == Program(p)[at[p]]
           k == at[p]
<1>1. /\ d[1] \in Marks /\ d[2] \in Marks /\ d[1] # d[2] /\ d[2].op # "Wait"
      /\ Alternates(Program(p), d[1], d[2])
  BY PairsAlternate
<1>2. Made(d[1]) \in Nat /\ Made(d[2]) \in Nat
  BY <1>1, MadeIsNat
<1>3. Made(d[1])' = Made(d[1]) /\ Made(d[2])' = Made(d[2])
  BY DEF Blocks, Made
<1>4. \A q \in Scripted : q # p => (Between(q, d)' <=> Between(q, d))
  <2>1. NamesKept
    BY DEF Blocks, NamesKept
  <2> QED
    BY <2>1, OthersStay DEF Blocks
<1>5. waitsOn'[p] # 0
  BY DEF Blocks, SemTypeOK
<1>6. (Blocked(p, d[1])' <=> d[1] = e) /\ ~ Blocked(p, d[1])
  BY <1>5 DEF Blocked, Blocks
<1>7. Between(p, d) <=> SinceIn(Program(p), k, d[1], d[2])
  BY <1>6, SinceIsIn DEF Between
<1>8. Between(p, d)' <=> d[1] # e /\ SinceIn(Program(p), k + 1, d[1], d[2])
  BY <1>6, SinceThen DEF Between, Blocks
<1>9. k \in Nat /\ k > 0 /\ k \in 1 .. Len(Program(p))
  BY DEF Blocks
<1>10. e = d[1] => ~ SinceIn(Program(p), k, d[1], d[2])
  BY <1>1, <1>9 DEF Alternates
<1>11. SinceIn(Program(p), k + 1, d[1], d[2]) <=> e = d[1] \/ (e # d[2] /\ SinceIn(Program(p), k, d[1], d[2]))
  BY <1>1, <1>9, SinceNext
<1>12. e # d[2]
  BY <1>1 DEF Blocks, Call
<1> HIDE DEF e, k
<1>13. Between(p, d)' <=> Between(p, d)
  BY <1>7, <1>8, <1>10, <1>11, <1>12
<1> QED
  BY <1>2, <1>3, <1>4, <1>13, CountMoves, ScriptedIsFinite


\* p's Wait passes after it waited.
Resumes(p) ==
  /\ story' = story
  /\ at' = at /\ at[p] \in Nat /\ at[p] > 1
  /\ waitsOn[p] \in DOMAIN semTab /\ waitsOn[p] # 0 /\ waitsOn'[p] = 0
  /\ Program(p)[at[p] - 1] = Call("Wait", semTab[waitsOn[p]].name)
  /\ NamesKept
  /\ \A q \in Scripted : q # p => waitsOn'[q] = waitsOn[q]
  /\ \A m \in Marks : Made(m)' = Made(m) + (IF m = Program(p)[at[p] - 1] THEN 1 ELSE 0)

LEMMA ResumesCounts ==
  ASSUME SemTypeOK, printed \in [{"A", "B"} -> Nat], NEW p \in Scripted, Resumes(p), NEW d \in Pairs, Counted(d)
  PROVE  Counted(d)'
<1> DEFINE k == at[p] - 1
           e == Program(p)[k]
<1>1. d[1] \in Marks /\ d[2] \in Marks /\ d[1] # d[2] /\ d[2].op # "Wait"
  BY PairsAlternate
<1>2. Made(d[1]) \in Nat /\ Made(d[2]) \in Nat
  BY <1>1, MadeIsNat
<1>3. Made(d[1])' = Made(d[1]) + (IF d[1] = e THEN 1 ELSE 0) /\ Made(d[2])' = Made(d[2]) + (IF d[2] = e THEN 1 ELSE 0)
  BY <1>1 DEF Resumes
<1>4. \A q \in Scripted : q # p => (Between(q, d)' <=> Between(q, d))
  BY OthersStay DEF Resumes
<1>5. (Blocked(p, d[1]) <=> d[1] = e) /\ ~ Blocked(p, d[1])'
  BY DEF Blocked, Resumes
<1>6. k \in Nat /\ k > 0 /\ k + 1 = at[p] /\ at'[p] = at[p] /\ Program(p)[k] = e
  BY DEF Resumes
<1> HIDE DEF e, k
<1>7. Between(p, d) <=> d[1] # e /\ SinceIn(Program(p), k + 1, d[1], d[2])
  BY <1>5, <1>6, SinceIsIn DEF Between
<1>8. Between(p, d)' <=> SinceIn(Program(p), k + 1, d[1], d[2])
  BY <1>5, <1>6, SinceThen DEF Between, Resumes
<1>9. SinceIn(Program(p), k + 1, d[1], d[2]) <=> e = d[1] \/ (e # d[2] /\ SinceIn(Program(p), k, d[1], d[2]))
  <2>1. SinceIn(Program(p), k + 1, d[1], d[2]) <=>
          Program(p)[k] = d[1] \/ (Program(p)[k] # d[2] /\ SinceIn(Program(p), k, d[1], d[2]))
    BY <1>1, <1>6, SinceNext
  <2> QED
    BY <1>6, <2>1, Zenon
<1>10. d[2] # e
  BY <1>1 DEF Resumes, Call, e, k
<1>11. CASE d[1] = e
  <2>1. Made(d[1])' = Made(d[1]) + 1 /\ Made(d[2])' = Made(d[2]) /\ Between(p, d)' /\ ~ Between(p, d)
    BY <1>2, <1>3, <1>7, <1>8, <1>9, <1>10, <1>11
  <2> QED
    BY <1>2, <1>4, <2>1, CountMoves, ScriptedIsFinite
<1>12. CASE d[1] # e
  <2>1. Made(d[1])' = Made(d[1]) /\ Made(d[2])' = Made(d[2]) /\ (Between(p, d)' <=> Between(p, d))
    BY <1>2, <1>3, <1>7, <1>8, <1>10, <1>12
  <2> QED
    BY <1>2, <1>4, <2>1, CountMoves, ScriptedIsFinite
<1> QED
  BY <1>11, <1>12

\* No program moves: a process of which nothing is known creates a semaphore.
LEMMA StaysCounted ==
  ASSUME SemTypeOK, printed \in [{"A", "B"} -> Nat], NamesKept, UNCHANGED <<story, at, waitsOn, passed, given, printed>>,
         NEW d \in Pairs, Counted(d)
  PROVE  Counted(d)'
<1>1. d[1] \in Marks /\ d[2] \in Marks
  BY PairsAlternate
<1>2. Made(d[1]) \in Nat /\ Made(d[2]) \in Nat
  BY <1>1, MadeIsNat
<1>3. Made(d[1])' = Made(d[1]) /\ Made(d[2])' = Made(d[2])
  BY DEF Made
<1>4. \A q \in Scripted : Between(q, d)' <=> Between(q, d)
  BY OthersStay
<1>5. Main \in Scripted
  BY ScriptedAreCallers
<1> QED
  BY <1>2, <1>3, <1>4, <1>5, CountMoves, ScriptedIsFinite

-----------------------------------------------------------------------------
(* Turns: where the programs are *)

\* The main one has created what it tells its children to use before it
\* starts them.
Begun ==
  /\ at[Main] \in 1 .. Len(Program(Main)) + 1
  /\ \A n \in SemNames : \A k \in 1 .. at[Main] - 1 : Program(Main)[k] = Call("CreateSemaphore", n) => Known(n)
  /\ \A c \in Started : at[c] > 0 => /\ \E k \in 1 .. at[Main] - 1 : Program(Main)[k] = Call("Exec", c)
                                     /\ \A n \in Needed : Known(n)

\* Whoever waits called the Wait just now.
WaitsIn ==
  \A p \in Scripted :
    waitsOn[p] # 0 => at[p] > 1 /\ Program(p)[at[p] - 1] = Call("Wait", semTab[waitsOn[p]].name)

LEMMA SameStory == ASSUME story' = story PROVE (\A p : Program(p)' = Program(p)) /\ Needed' = Needed
BY DEF Program, Needed

LEMMA BegunStays == ASSUME Begun, NamesKept, story' = story, at' = at PROVE Begun'
<1>1. Program(Main)' = Program(Main) /\ Needed' = Needed
  BY SameStory
<1>2. \A n : Known(n) => Known(n)'
  BY KnownStays
<1> QED
  BY <1>1, <1>2 DEF Begun

LEMMA BegunGoesOn ==
  ASSUME Begun, NamesKept, story' = story, NEW p \in Scripted, at \in [Scripted -> Nat], Advance(p),
         at[p] \in 1 .. Len(Program(p)),
         \A n \in SemNames : Program(p)[at[p]] = Call("CreateSemaphore", n) => Known(n)'
  PROVE  Begun'
<1>1. Program(Main)' = Program(Main) /\ Needed' = Needed
  BY SameStory
<1>2. \A n : Known(n) => Known(n)'
  BY KnownStays
<1>3. Main \in Scripted /\ Main \notin Started /\ Started \subseteq Scripted
  BY ScriptedAreCallers
<1>4. at'[p] = at[p] + 1 /\ \A q \in Scripted : q # p => at'[q] = at[q]
  BY DEF Advance
<1>5. at'[Main] \in 1 .. Len(Program(Main)) + 1 /\ at[Main] \in Nat
      /\ \A k \in 1 .. at[Main] - 1 : k \in 1 .. at'[Main] - 1
  BY <1>3, <1>4 DEF Begun
<1>6. ASSUME NEW n \in SemNames, NEW k \in 1 .. at'[Main] - 1, Program(Main)[k] = Call("CreateSemaphore", n)
      PROVE  Known(n)'
  <2>1. k \in 1 .. at[Main] - 1 \/ (p = Main /\ k = at[Main])
    BY <1>3, <1>4, <1>5
  <2> QED
    BY <1>2, <1>6, <2>1 DEF Begun
<1>7. ASSUME NEW c \in Started, at'[c] > 0
      PROVE  (\E k \in 1 .. at'[Main] - 1 : Program(Main)[k] = Call("Exec", c)) /\ \A n \in Needed : Known(n)'
  <2>1. at[c] > 0
    <3>1. CASE c = p
      BY <3>1
    <3>2. CASE c # p
      BY <1>3, <1>4, <1>7, <3>2
    <3> QED
      BY <3>1, <3>2
  <2>2. PICK k \in 1 .. at[Main] - 1 : Program(Main)[k] = Call("Exec", c)
    BY <2>1 DEF Begun
  <2> QED
    BY <1>2, <1>5, <2>1, <2>2 DEF Begun
<1> QED
  BY <1>1, <1>5, <1>6, <1>7 DEF Begun


\* A child begins once: its Exec is in one place of the program only, and
\* that one has not been passed.
LEMMA BegunExec ==
  ASSUME Begun, NamesKept, story \in {"pingpong", "tape"}, story' = story, at \in [Scripted -> Nat],
         NEW c \in Started, at[Main] \in 1 .. Len(Program(Main)), Program(Main)[at[Main]] = Call("Exec", c),
         at' = [at EXCEPT ![Main] = @ + 1, ![c] = 1]
  PROVE  Begun' /\ at[c] = 0
<1>1. Program(Main)' = Program(Main) /\ Needed' = Needed
  BY SameStory
<1>2. \A n : Known(n) => Known(n)'
  BY KnownStays
<1>3. Main \in Scripted /\ c \in Scripted /\ c # Main /\ Started \subseteq Scripted /\ Main \notin Started
  BY ScriptedAreCallers
<1>4. at'[c] = 1 /\ at'[Main] = at[Main] + 1 /\ \A q \in Scripted : q # c /\ q # Main => at'[q] = at[q]
  <2> DEFINE one == [at EXCEPT ![Main] = at[Main] + 1]
  <2>1. one \in [Scripted -> Nat] /\ one[Main] = at[Main] + 1 /\ \A q \in Scripted : q # Main => one[q] = at[q]
    BY <1>3
  <2>2. at' = [one EXCEPT ![c] = 1]
    OBVIOUS
  <2> HIDE DEF one
  <2> QED
    BY <1>3, <2>1, <2>2
<1> DEFINE m == at[Main]
<1>5. m \in Nat /\ m \in 1 .. Len(Program(Main)) /\ at'[Main] = m + 1 /\ Program(Main)[m] = Call("Exec", c)
  BY <1>4
<1>6. StartsInOrder(Program(Main), Needed) /\ Call("Exec", c).op = "Exec"
  BY MainStartsInOrder DEF Call
<1>7. /\ \A n \in Needed : \E j \in 1 .. m - 1 : Program(Main)[j] = Call("CreateSemaphore", n)
      /\ \A j \in 1 .. Len(Program(Main)) : Program(Main)[j] = Program(Main)[m] => j = m
  BY <1>5, <1>6 DEF StartsInOrder
<1>8. \A n \in Needed : Known(n)
  <2>1. Needed \subseteq SemNames
    BY UserProgramsAssumption DEF Needed
  <2> QED
    BY <1>7, <2>1 DEF Begun
<1>9. at[c] = 0
  <2> SUFFICES ASSUME at[c] > 0 PROVE FALSE
    BY <1>3
  <2>1. PICK k \in 1 .. m - 1 : Program(Main)[k] = Call("Exec", c)
    BY DEF Begun
  <2>2. k \in 1 .. Len(Program(Main)) /\ k # m
    BY <1>5, <2>1
  <2> QED
    BY <1>5, <1>7, <2>1, <2>2, Zenon
<1> HIDE DEF m
<1>10. m + 1 \in 1 .. Len(Program(Main)) + 1 /\ (m + 1) - 1 = m
  BY <1>5
<1>11. ASSUME NEW n \in SemNames, NEW k \in 1 .. m, Program(Main)[k] = Call("CreateSemaphore", n)
       PROVE  Known(n)'
  <2>1. Call("CreateSemaphore", n) # Call("Exec", c)
    BY CallsDiffer
  <2>2. k # m
    BY <1>5, <1>11, <2>1, Zenon
  <2>3. k \in 1 .. m - 1
    BY <1>5, <2>2
  <2> QED
    BY <1>2, <1>11, <2>3 DEF Begun, m
<1>12. ASSUME NEW q \in Started, at'[q] > 0
       PROVE  (\E k \in 1 .. m : Program(Main)[k] = Call("Exec", q)) /\ \A n \in Needed : Known(n)'
  <2>1. CASE q = c
    <3>1. m \in 1 .. m
      BY <1>5
    <3> QED
      BY <1>2, <1>5, <1>8, <2>1, <3>1
  <2>2. CASE q # c
    <3>1. at[q] > 0
      BY <1>3, <1>4, <1>12, <2>2
    <3>2. PICK k \in 1 .. m - 1 : Program(Main)[k] = Call("Exec", q)
      BY <3>1 DEF Begun, m
    <3>3. k \in 1 .. m
      BY <1>5
    <3> QED
      BY <1>2, <1>8, <3>2, <3>3
  <2> QED
    BY <2>1, <2>2
<1>13. Begun'
  <2>1. at'[Main] - 1 = m
    BY <1>5
  <2> QED
    BY <1>1, <1>5, <1>10, <1>11, <1>12, <2>1 DEF Begun
<1> QED
  BY <1>9, <1>13

LEMMA WaitsInStays ==
  ASSUME SemTypeOK, NamesKept, story' = story, NEW q \in Scripted, at[q] \in Nat,
         waitsOn[q] # 0 => at[q] > 1 /\ Program(q)[at[q] - 1] = Call("Wait", semTab[waitsOn[q]].name),
         waitsOn'[q] = waitsOn[q], at'[q] = at[q] \/ (at[q] = 0 /\ at'[q] = 1), waitsOn'[q] # 0
  PROVE  at'[q] > 1 /\ Program(q)'[at'[q] - 1] = Call("Wait", semTab'[waitsOn'[q]].name)
<1>1. q \in Callers
  BY ScriptedAreCallers
<1>2. waitsOn[q] \in DOMAIN semTab
  BY <1>1 DEF SemTypeOK
<1>3. semTab'[waitsOn'[q]].name = semTab[waitsOn[q]].name
  BY <1>2 DEF NamesKept
<1>4. Program(q)' = Program(q)
  BY SameStory
<1>5. at'[q] = at[q]
  OBVIOUS
<1> QED
  BY <1>3, <1>4, <1>5

LEMMA WaitsInKept ==
  ASSUME SemTypeOK, at \in [Scripted -> Nat], WaitsIn, NEW p \in Scripted,
         Proceeds(p) \/ Blocks(p) \/ Resumes(p)
  PROVE  WaitsIn'
<1>1. NamesKept /\ story' = story
  BY DEF Proceeds, Blocks, Resumes, NamesKept
<1>2. ASSUME NEW q \in Scripted, q # p, waitsOn'[q] # 0
      PROVE  at'[q] > 1 /\ Program(q)'[at'[q] - 1] = Call("Wait", semTab'[waitsOn'[q]].name)
  <2>1. waitsOn'[q] = waitsOn[q] /\ (at'[q] = at[q] \/ (at[q] = 0 /\ at'[q] = 1))
    BY <1>2 DEF Proceeds, Blocks, Resumes
  <2>2. waitsOn[q] # 0 => at[q] > 1 /\ Program(q)[at[q] - 1] = Call("Wait", semTab[waitsOn[q]].name)
    BY DEF WaitsIn
  <2> QED
    BY <1>1, <1>2, <2>1, <2>2, WaitsInStays
<1>3. ASSUME waitsOn'[p] # 0
      PROVE  at'[p] > 1 /\ Program(p)'[at'[p] - 1] = Call("Wait", semTab'[waitsOn'[p]].name)
  <2>1. Blocks(p)
    BY <1>3 DEF Proceeds, Resumes
  <2>2. at[p] \in Nat /\ at[p] > 0 /\ at'[p] = at[p] + 1 /\ semTab' = semTab
    BY <2>1 DEF Blocks
  <2>3. at'[p] > 1 /\ at'[p] - 1 = at[p]
    BY <2>2
  <2>4. Program(p)' = Program(p)
    BY <1>1, SameStory
  <2> QED
    BY <2>1, <2>2, <2>3, <2>4 DEF Blocks
<1> QED
  BY <1>2, <1>3 DEF WaitsIn


-----------------------------------------------------------------------------
(* Turns: the invariant *)

TurnsInv ==
  /\ printed \in [{"A", "B"} -> Nat]
  /\ OneUnit
  /\ Begun
  /\ WaitsIn
  /\ \A d \in Pairs : Counted(d)

LEMMA Here ==
  ASSUME NEW p \in Scripted, story \in {"pingpong", "tape"}, at \in [Scripted -> Nat], NEW op, Calls(p, op)
  PROVE  /\ at[p] \in 1 .. Len(Program(p)) /\ at[p] \in Nat /\ Program(p)[at[p]] = Call(op, Arg(p)) /\ waitsOn[p] = 0
         /\ op \in {"Wait", "Signal"} => p \in Started /\ Arg(p) \in Needed
<1>1. at[p] > 0 /\ ~ Ended(p) /\ Program(p)[at[p]].op = op /\ at[p] \in Nat /\ waitsOn[p] = 0
  BY DEF Calls
<1>2. at[p] <= Len(Program(p)) /\ Len(Program(p)) \in Nat
  <2>1. Program(p) \in {PingPong, Pong, Ping, Project2, Student}
    BY DEF Program
  <2>2. Len(Program(p)) \in Nat
    <3> HIDE DEF PingPong, Pong, Ping, Project2, Student, MainCalls, TurnCalls, StudentCalls
    <3> QED
      BY <2>1, ProgramsAreSeqs, LenProperties
  <2> QED
    BY <1>1, <2>2 DEF Ended
<1> DEFINE e == Program(p)[at[p]]
<1>3. \/ p = Main /\ e \in MainCalls
      \/ p # Main /\ story = "pingpong" /\ e \in TurnCalls
      \/ p # Main /\ story = "tape" /\ e \in StudentCalls
  BY <1>1, NextCall, Zenon
<1>4. e.op = op /\ e.arg = Arg(p)
  BY <1>1 DEF Arg
<1> HIDE DEF e
<1>5. e = Call(op, Arg(p))
  <2>1. e \in MainCalls \/ e \in TurnCalls \/ e \in StudentCalls
    BY <1>3
  <2>2. e = [op |-> e.op, arg |-> e.arg]
    BY <2>1 DEF MainCalls, TurnCalls, StudentCalls
  <2> QED
    BY <1>4, <2>2 DEF Call
<1>6. op \in {"Wait", "Signal"} => p # Main /\ Arg(p) \in Needed
  BY <1>3, <1>4 DEF MainCalls, TurnCalls, StudentCalls, Needed
<1>7. p \in Started \/ p = Main
  BY ScriptedAreCallers
<1> QED
  BY <1>1, <1>2, <1>5, <1>6, <1>7 DEF e

LEMMA MarkIsCall ==
  ASSUME NEW m \in Marks PROVE \A o, x : m = Call(o, x) <=> m.op = o /\ m.arg = x
BY DEF Marks, Call

\* A call has been made.
LEMMA Goes ==
  ASSUME ProgramsTypeOK, NEW p \in Scripted, NEW op, Calls(p, op), Advance(p), story' = story, NamesKept,
         waitsOn'[p] = 0, \A q \in Scripted : q # p => waitsOn'[q] = waitsOn[q],
         \A m \in Marks : Made(m)' = Made(m) + (IF m = Call(op, Arg(p)) THEN 1 ELSE 0)
  PROVE  Proceeds(p)
<1>1. /\ at[p] \in 1 .. Len(Program(p)) /\ Program(p)[at[p]] = Call(op, Arg(p)) /\ waitsOn[p] = 0
  BY Here DEF ProgramsTypeOK
<1>2. at'[p] = at[p] + 1 /\ \A q \in Scripted : q # p => at'[q] = at[q]
  BY DEF Advance, ProgramsTypeOK
<1> QED
  BY <1>1, <1>2 DEF Proceeds

LEMMA Concludes ==
  ASSUME ProgramsTypeOK, TurnsInv, NEW p \in Scripted, Proceeds(p) \/ Blocks(p) \/ Resumes(p),
         printed' \in [{"A", "B"} -> Nat], OneUnit', Begun'
  PROVE  TurnsInv'
<1>1. SemTypeOK /\ at \in [Scripted -> Nat]
  BY DEF ProgramsTypeOK
<1>2. WaitsIn'
  BY <1>1, WaitsInKept DEF TurnsInv
<1>3. \A d \in Pairs : Counted(d)'
  BY <1>1, ProceedsCounts, BlocksCounts, ResumesCounts DEF TurnsInv
<1> QED
  BY <1>2, <1>3 DEF TurnsInv

\* The calls that are none of those counted, and leave the semaphores alone.
LEMMA OtherCallKeepsTurns ==
  ASSUME ProgramsTypeOK, TurnsInv, NEW p \in Scripted,
         NEW op \in {"CreateFile", "Open", "OpenElse", "Append", "Close", "Exit", "Join", "Exec"}, Calls(p, op), Advance(p),
         UNCHANGED <<semVars, story, printed>>
  PROVE  TurnsInv'
<1>1. UNCHANGED <<semTab, waitsOn, initial, passed, given>> /\ SemTypeOK /\ at \in [Scripted -> Nat]
  BY DEF semVars, ProgramsTypeOK
<1>2. OneUnit' /\ NamesKept
  BY <1>1, UnitsUntouched DEF TurnsInv
<1>3. \A m \in Marks : Made(m)' = Made(m) + (IF m = Call(op, Arg(p)) THEN 1 ELSE 0)
  <2> SUFFICES ASSUME NEW m \in Marks PROVE Made(m)' = Made(m) + (IF m = Call(op, Arg(p)) THEN 1 ELSE 0)
    OBVIOUS
  <2>1. Made(m) \in Nat /\ Made(m)' = Made(m)
    BY <1>1, MadeIsNat DEF TurnsInv, Made
  <2>2. m # Call(op, Arg(p))
    BY DEF Marks, Call
  <2> QED
    BY <2>1, <2>2
<1>4. waitsOn[p] = 0 /\ at[p] \in 1 .. Len(Program(p)) /\ Program(p)[at[p]] = Call(op, Arg(p))
  BY Here DEF ProgramsTypeOK
<1>5. Proceeds(p)
  BY <1>1, <1>2, <1>3, <1>4, Goes
<1>6. \A n \in SemNames : Program(p)[at[p]] # Call("CreateSemaphore", n)
  BY <1>4, CallsDiffer
<1>7. Begun'
  BY <1>1, <1>2, <1>4, <1>6, BegunGoesOn DEF TurnsInv
<1> QED
  BY <1>2, <1>5, <1>7, Concludes DEF TurnsInv

LEMMA CreateKeepsTurns ==
  ASSUME ProgramsTypeOK, TurnsInv, NEW p \in Scripted, CallCreateSemaphore(p)
  PROVE  TurnsInv'
<1>1. /\ Calls(p, "CreateSemaphore") /\ (CreateSemaphore(Arg(p), 1) \/ CreateFails(Arg(p))) /\ Advance(p)
      /\ UNCHANGED <<story, printed>> /\ SemTypeOK /\ at \in [Scripted -> Nat]
  BY DEF CallCreateSemaphore, ProgramsTypeOK
<1>2. Arg(p) \in SemNames
  BY <1>1, Arguments DEF ProgramsTypeOK
<1>3. PICK n \in SemNames : n = Arg(p)
  BY <1>2
<1>4. OneUnit' /\ NamesKept /\ Known(n)' /\ UNCHANGED <<waitsOn, passed, given>>
  <2>1. CASE CreateSemaphore(n, 1)
    BY <1>1, <2>1, CreateKeepsUnits DEF CreateSemaphore, TurnsInv
  <2>2. CASE CreateFails(n)
    <3>1. UNCHANGED <<semTab, waitsOn, initial, passed, given>> /\ CreateRefuses(n)
      BY <2>2 DEF CreateFails, semVars
    <3>2. OneUnit' /\ NamesKept
      BY <3>1, UnitsUntouched DEF TurnsInv
    <3>3. Known(n)
      BY <1>1, <3>1, RoomForAll DEF TurnsInv
    <3> QED
      BY <3>1, <3>2, <3>3, KnownStays
  <2> QED
    BY <1>1, <1>3, <2>1, <2>2
<1>5. \A m \in Marks : Made(m)' = Made(m) + (IF m = Call("CreateSemaphore", Arg(p)) THEN 1 ELSE 0)
  <2> SUFFICES ASSUME NEW m \in Marks
               PROVE  Made(m)' = Made(m) + (IF m = Call("CreateSemaphore", Arg(p)) THEN 1 ELSE 0)
    OBVIOUS
  <2>1. Made(m) \in Nat /\ Made(m)' = Made(m)
    BY <1>1, <1>4, MadeIsNat DEF TurnsInv, Made
  <2>2. m # Call("CreateSemaphore", Arg(p))
    BY DEF Marks, Call
  <2> QED
    BY <2>1, <2>2
<1>6. waitsOn[p] = 0 /\ at[p] \in 1 .. Len(Program(p)) /\ Program(p)[at[p]] = Call("CreateSemaphore", n)
  BY <1>1, <1>3, Here DEF ProgramsTypeOK
<1>7. Proceeds(p)
  BY <1>1, <1>4, <1>5, <1>6, Goes
<1>8. \A x \in SemNames : Program(p)[at[p]] = Call("CreateSemaphore", x) => Known(x)'
  <2>1. \A x : Call("CreateSemaphore", n) = Call("CreateSemaphore", x) => x = n
    BY CallsDiffer
  <2> QED
    BY <1>4, <1>6, <2>1, Zenon
<1>9. Begun'
  BY <1>1, <1>4, <1>6, <1>8, BegunGoesOn DEF TurnsInv
<1> QED
  BY <1>1, <1>4, <1>7, <1>9, Concludes DEF TurnsInv


\* A Wait of p's that passes counts as one.
LEMMA PassIsCounted ==
  ASSUME SemTypeOK, TurnsInv, NEW p \in Scripted, NEW i \in DOMAIN semTab, Pass(p, i), printed' = printed
  PROVE  /\ OneUnit' /\ NamesKept /\ waitsOn'[p] = 0 /\ \A q \in Scripted : q # p => waitsOn'[q] = waitsOn[q]
         /\ \A m \in Marks : Made(m)' = Made(m) + (IF m = Call("Wait", semTab[i].name) THEN 1 ELSE 0)
<1>1. p \in Callers /\ Scripted \subseteq Callers
  BY ScriptedAreCallers
<1>2. /\ OneUnit' /\ NamesKept
      /\ passed'[semTab[i].name] = passed[semTab[i].name] + 1
      /\ \A n \in SemNames : n # semTab[i].name => passed'[n] = passed[n]
  BY <1>1, PassKeepsUnits DEF TurnsInv
<1>3. given' = given /\ waitsOn' = [waitsOn EXCEPT ![p] = 0]
  BY DEF Pass
<1>4. waitsOn'[p] = 0 /\ \A q \in Scripted : q # p => waitsOn'[q] = waitsOn[q]
  BY <1>1, <1>3 DEF SemTypeOK
<1>5. ASSUME NEW m \in Marks PROVE Made(m)' = Made(m) + (IF m = Call("Wait", semTab[i].name) THEN 1 ELSE 0)
  <2>1. Made(m) \in Nat /\ (m = Call("Wait", semTab[i].name) <=> m.op = "Wait" /\ m.arg = semTab[i].name)
    BY MadeIsNat, MarkIsCall DEF TurnsInv
  <2>2. m.op = "Wait" => m.arg \in SemNames
    BY DEF Marks
  <2>3. CASE m.op = "Wait"
    <3>1. Made(m)' = passed'[m.arg] /\ Made(m) = passed[m.arg]
      BY <2>3 DEF Made
    <3>2. CASE m.arg = semTab[i].name
      BY <1>2, <2>1, <2>3, <3>1, <3>2
    <3>3. CASE m.arg # semTab[i].name
      BY <1>2, <2>1, <2>2, <2>3, <3>1, <3>3
    <3> QED
      BY <3>2, <3>3
  <2>4. CASE m.op # "Wait"
    <3>1. Made(m)' = Made(m)
      BY <1>3, <2>4 DEF Made
    <3> QED
      BY <2>1, <2>4, <3>1
  <2> QED
    BY <2>3, <2>4
<1> QED
  BY <1>2, <1>4, <1>5

\* What a child Waits and Signals on has been created.
LEMMA NeededIsKnown ==
  ASSUME ProgramsTypeOK, Begun, NEW p \in Scripted, NEW op \in {"Wait", "Signal"}, Calls(p, op)
  PROVE  Known(Arg(p)) /\ Arg(p) \in SemNames
<1>1. p \in Started /\ Arg(p) \in Needed /\ at[p] \in 1 .. Len(Program(p)) /\ at[p] \in Nat
  BY Here DEF ProgramsTypeOK
<1>2. at[p] > 0
  BY <1>1
<1>3. Needed \subseteq SemNames
  BY UserProgramsAssumption DEF Needed
<1> QED
  BY <1>1, <1>2, <1>3 DEF Begun

LEMMA WaitKeepsTurns ==
  ASSUME ProgramsTypeOK, TurnsInv, NEW p \in Scripted, CallWait(p)
  PROVE  TurnsInv'
<1>1. /\ Calls(p, "Wait") /\ (Wait(p, Arg(p)) \/ UnknownName(Arg(p))) /\ Advance(p)
      /\ UNCHANGED <<story, printed>> /\ SemTypeOK /\ at \in [Scripted -> Nat]
  BY DEF CallWait, ProgramsTypeOK
<1>2. Known(Arg(p)) /\ Arg(p) \in SemNames
  BY <1>1, NeededIsKnown DEF TurnsInv
<1>3. PICK n \in SemNames : n = Arg(p)
  BY <1>2
<1>4. PICK i \in DOMAIN semTab :
        /\ semTab[i].name = n
        /\ Pass(p, i) \/ (waitsOn' = [waitsOn EXCEPT ![p] = i] /\ UNCHANGED <<semTab, initial, passed, given>>)
  BY <1>1, <1>2, <1>3 DEF Wait, UnknownName, IsSlotOf
<1>5. waitsOn[p] = 0 /\ at[p] \in 1 .. Len(Program(p)) /\ Program(p)[at[p]] = Call("Wait", n)
  BY <1>1, <1>3, Here DEF ProgramsTypeOK
<1>6. \A x \in SemNames : Program(p)[at[p]] # Call("CreateSemaphore", x)
  BY <1>5, CallsDiffer
<1>7. ASSUME NamesKept PROVE Begun'
  BY <1>1, <1>5, <1>6, <1>7, BegunGoesOn DEF TurnsInv
<1>8. CASE Pass(p, i)
  <2>1. /\ OneUnit' /\ NamesKept /\ waitsOn'[p] = 0 /\ \A q \in Scripted : q # p => waitsOn'[q] = waitsOn[q]
        /\ \A m \in Marks : Made(m)' = Made(m) + (IF m = Call("Wait", Arg(p)) THEN 1 ELSE 0)
    BY <1>1, <1>3, <1>4, <1>8, PassIsCounted
  <2>2. Proceeds(p)
    BY <1>1, <2>1, Goes
  <2> QED
    BY <1>1, <1>7, <2>1, <2>2, Concludes DEF TurnsInv
<1>9. CASE waitsOn' = [waitsOn EXCEPT ![p] = i] /\ UNCHANGED <<semTab, initial, passed, given>>
  <2>1. OneUnit' /\ NamesKept
    BY <1>9, UnitsUntouched DEF TurnsInv
  <2>2. p \in Callers /\ Scripted \subseteq Callers
    BY ScriptedAreCallers
  <2>3. waitsOn'[p] = i /\ \A q \in Scripted : q # p => waitsOn'[q] = waitsOn[q]
    BY <1>1, <1>9, <2>2 DEF SemTypeOK
  <2>4. at'[p] = at[p] + 1 /\ \A q \in Scripted : q # p => at'[q] = at[q]
    BY <1>1 DEF Advance
  <2>5. Blocks(p)
    BY <1>1, <1>4, <1>5, <1>9, <2>3, <2>4 DEF Blocks
  <2> QED
    BY <1>1, <1>7, <2>1, <2>5, Concludes DEF TurnsInv
<1> QED
  BY <1>4, <1>8, <1>9

LEMMA WaitReturnsKeepsTurns ==
  ASSUME ProgramsTypeOK, TurnsInv, NEW p \in Scripted, WaitReturns(p)
  PROVE  TurnsInv'
<1>1. /\ WaitPass(p) /\ UNCHANGED <<story, at, printed>> /\ SemTypeOK /\ at \in [Scripted -> Nat] /\ p \in Callers
  BY ScriptedAreCallers DEF WaitReturns, ProgramsTypeOK
<1>2. PICK i : i = waitsOn[p]
  OBVIOUS
<1>3. i \in DOMAIN semTab /\ i # 0 /\ Pass(p, i)
  BY <1>1, <1>2 DEF WaitPass, SemTypeOK
<1>4. /\ OneUnit' /\ NamesKept /\ waitsOn'[p] = 0 /\ \A q \in Scripted : q # p => waitsOn'[q] = waitsOn[q]
      /\ \A m \in Marks : Made(m)' = Made(m) + (IF m = Call("Wait", semTab[i].name) THEN 1 ELSE 0)
  BY <1>1, <1>3, PassIsCounted
<1>5. at[p] \in Nat /\ at[p] > 1 /\ Program(p)[at[p] - 1] = Call("Wait", semTab[i].name)
  BY <1>1, <1>2, <1>3 DEF TurnsInv, WaitsIn
<1>6. Resumes(p)
  BY <1>1, <1>2, <1>3, <1>4, <1>5 DEF Resumes
<1>7. Begun'
  BY <1>1, <1>4, BegunStays DEF TurnsInv
<1> QED
  BY <1>1, <1>4, <1>6, <1>7, Concludes DEF TurnsInv

LEMMA SignalKeepsTurns ==
  ASSUME ProgramsTypeOK, TurnsInv, NEW p \in Scripted, CallSignal(p)
  PROVE  TurnsInv'
<1>1. /\ Calls(p, "Signal") /\ (Signal(Arg(p)) \/ UnknownName(Arg(p))) /\ Advance(p)
      /\ UNCHANGED <<story, printed>> /\ SemTypeOK /\ at \in [Scripted -> Nat]
  BY DEF CallSignal, ProgramsTypeOK
<1>2. Known(Arg(p)) /\ Arg(p) \in SemNames
  BY <1>1, NeededIsKnown DEF TurnsInv
<1>3. PICK n \in SemNames : n = Arg(p)
  BY <1>2
<1>4. Signal(n)
  BY <1>1, <1>2, <1>3 DEF UnknownName
<1>5. /\ OneUnit' /\ NamesKept /\ given'[n] = given[n] + 1
      /\ \A x \in SemNames : x # n => given'[x] = given[x]
  BY <1>1, <1>4, SignalKeepsUnits DEF TurnsInv
<1>6. UNCHANGED <<waitsOn, passed>>
  BY <1>4 DEF Signal
<1>7. ASSUME NEW m \in Marks PROVE Made(m)' = Made(m) + (IF m = Call("Signal", n) THEN 1 ELSE 0)
  <2>1. Made(m) \in Nat /\ (m = Call("Signal", n) <=> m.op = "Signal" /\ m.arg = n)
    BY <1>1, MadeIsNat, MarkIsCall DEF TurnsInv
  <2>2. m.op = "Signal" => m.arg \in SemNames
    BY DEF Marks
  <2>3. CASE m.op = "Signal"
    <3>1. Made(m)' = given'[m.arg] /\ Made(m) = given[m.arg]
      BY <2>3 DEF Made
    <3>2. CASE m.arg = n
      BY <1>5, <2>1, <2>3, <3>1, <3>2
    <3>3. CASE m.arg # n
      BY <1>5, <2>1, <2>2, <2>3, <3>1, <3>3
    <3> QED
      BY <3>2, <3>3
  <2>4. CASE m.op # "Signal"
    <3>1. Made(m)' = Made(m)
      BY <1>1, <1>6, <2>4 DEF Made
    <3> QED
      BY <2>1, <2>4, <3>1
  <2> QED
    BY <2>3, <2>4
<1>8. waitsOn[p] = 0 /\ at[p] \in 1 .. Len(Program(p)) /\ Program(p)[at[p]] = Call("Signal", n)
  BY <1>1, <1>3, Here DEF ProgramsTypeOK
<1>9. Proceeds(p)
  BY <1>1, <1>3, <1>5, <1>6, <1>7, <1>8, Goes
<1>10. \A x \in SemNames : Program(p)[at[p]] # Call("CreateSemaphore", x)
  BY <1>8, CallsDiffer
<1>11. Begun'
  BY <1>1, <1>5, <1>8, <1>10, BegunGoesOn DEF TurnsInv
<1> QED
  BY <1>1, <1>5, <1>9, <1>11, Concludes DEF TurnsInv

LEMMA PrintKeepsTurns ==
  ASSUME ProgramsTypeOK, TurnsInv, NEW p \in Scripted, CallPrintChar(p)
  PROVE  TurnsInv'
<1>1. /\ Calls(p, "PrintChar") /\ printed' = [printed EXCEPT ![Arg(p)] = printed[Arg(p)] + 1] /\ Advance(p)
      /\ UNCHANGED <<semVars, story>> /\ SemTypeOK /\ at \in [Scripted -> Nat]
  BY DEF CallPrintChar, ProgramsTypeOK
<1>2. UNCHANGED <<semTab, waitsOn, initial, passed, given>>
  BY <1>1 DEF semVars
<1>3. PICK c \in {"A", "B"} : c = Arg(p)
  BY <1>1, Arguments DEF ProgramsTypeOK
<1>4. printed \in [{"A", "B"} -> Nat] /\ printed' = [printed EXCEPT ![c] = printed[c] + 1]
  BY <1>1, <1>3 DEF TurnsInv
<1>5. /\ printed' \in [{"A", "B"} -> Nat] /\ printed'[c] = printed[c] + 1
      /\ \A x \in {"A", "B"} : x # c => printed'[x] = printed[x]
  BY <1>4
<1>6. OneUnit' /\ NamesKept
  BY <1>2, UnitsUntouched DEF TurnsInv
<1>7. ASSUME NEW m \in Marks PROVE Made(m)' = Made(m) + (IF m = Call("PrintChar", c) THEN 1 ELSE 0)
  <2>1. Made(m) \in Nat /\ (m = Call("PrintChar", c) <=> m.op = "PrintChar" /\ m.arg = c)
    BY <1>1, <1>4, MadeIsNat, MarkIsCall
  <2>2. m.op \in {"Wait", "Signal"} \/ (m.op = "PrintChar" /\ m.arg \in {"A", "B"})
    BY DEF Marks
  <2>3. CASE m.op = "PrintChar"
    <3>1. Made(m)' = printed'[m.arg] /\ Made(m) = printed[m.arg]
      BY <2>3 DEF Made
    <3>2. CASE m.arg = c
      BY <1>5, <2>1, <2>3, <3>1, <3>2
    <3>3. CASE m.arg # c
      BY <1>5, <2>1, <2>2, <2>3, <3>1, <3>3
    <3> QED
      BY <3>2, <3>3
  <2>4. CASE m.op # "PrintChar"
    <3>1. Made(m)' = Made(m)
      BY <1>2, <2>2, <2>4 DEF Made
    <3> QED
      BY <2>1, <2>4, <3>1
  <2> QED
    BY <2>3, <2>4
<1>8. waitsOn[p] = 0 /\ at[p] \in 1 .. Len(Program(p)) /\ Program(p)[at[p]] = Call("PrintChar", c)
  BY <1>1, <1>3, Here DEF ProgramsTypeOK
<1>9. Proceeds(p)
  BY <1>1, <1>2, <1>3, <1>6, <1>7, <1>8, Goes
<1>10. \A x \in SemNames : Program(p)[at[p]] # Call("CreateSemaphore", x)
  BY <1>8, CallsDiffer
<1>11. Begun'
  BY <1>1, <1>6, <1>8, <1>10, BegunGoesOn DEF TurnsInv
<1> QED
  BY <1>5, <1>6, <1>9, <1>11, Concludes DEF TurnsInv


\* An Exec that is not refused.
LEMMA ExecKeepsTurns ==
  ASSUME ProgramsTypeOK, TurnsInv, NEW p \in Scripted, CallExec(p),
         at' = [at EXCEPT ![p] = @ + 1, ![Arg(p)] = 1]
  PROVE  TurnsInv'
<1>1. /\ Calls(p, "Exec") /\ at' = [at EXCEPT ![p] = @ + 1, ![Arg(p)] = 1]
      /\ UNCHANGED <<semVars, story, printed>> /\ SemTypeOK /\ at \in [Scripted -> Nat] /\ story \in {"pingpong", "tape"}
  BY DEF CallExec, ProgramsTypeOK
<1>2. UNCHANGED <<semTab, waitsOn, initial, passed, given>>
  BY <1>1 DEF semVars
<1>3. OneUnit' /\ NamesKept
  BY <1>2, UnitsUntouched DEF TurnsInv
<1>4. /\ waitsOn[p] = 0 /\ at[p] \in 1 .. Len(Program(p)) /\ at[p] \in Nat /\ at[p] > 0
      /\ Program(p)[at[p]] = Call("Exec", Arg(p)) /\ ~ Ended(p)
  <2>1. waitsOn[p] = 0 /\ at[p] \in 1 .. Len(Program(p)) /\ Program(p)[at[p]] = Call("Exec", Arg(p))
    BY <1>1, Here
  <2> QED
    BY <1>1, <2>1 DEF Calls
<1>5. p = Main
  <2>1. Call("Exec", Arg(p)) \notin TurnCalls /\ Call("Exec", Arg(p)) \notin StudentCalls
    BY DEF Call, TurnCalls, StudentCalls
  <2> QED
    BY <1>1, <1>4, <2>1, NextCall
<1>6. PICK c \in Started : c = Arg(p)
  BY <1>1, Arguments
<1>7. Begun' /\ at[c] = 0
  <2>1. at' = [at EXCEPT ![Main] = @ + 1, ![c] = 1]
    BY <1>1, <1>5, <1>6
  <2>2. Program(Main)[at[Main]] = Call("Exec", c) /\ at[Main] \in 1 .. Len(Program(Main))
    BY <1>4, <1>5, <1>6
  <2> QED
    BY <1>1, <1>3, <2>1, <2>2, BegunExec DEF TurnsInv
<1>8. at'[p] = at[p] + 1 /\ \A q \in Scripted : q # p => at'[q] = at[q] \/ (at[q] = 0 /\ at'[q] = 1)
  <2> DEFINE one == [at EXCEPT ![p] = at[p] + 1]
  <2>1. one \in [Scripted -> Nat] /\ one[p] = at[p] + 1 /\ \A q \in Scripted : q # p => one[q] = at[q]
    BY <1>1, <1>4
  <2>2. at' = [one EXCEPT ![c] = 1] /\ c # p
    BY <1>1, <1>4, <1>6, <1>7
  <2> HIDE DEF one
  <2>3. \A q \in Scripted : at'[q] = IF q = c THEN 1 ELSE one[q]
    BY <2>1, <2>2
  <2> QED
    BY <1>7, <2>1, <2>2, <2>3
<1>9. \A m \in Marks : Made(m)' = Made(m) + (IF m = Program(p)[at[p]] THEN 1 ELSE 0)
  <2> SUFFICES ASSUME NEW m \in Marks PROVE Made(m)' = Made(m) + (IF m = Program(p)[at[p]] THEN 1 ELSE 0)
    OBVIOUS
  <2>1. Made(m) \in Nat /\ Made(m)' = Made(m)
    BY <1>1, <1>2, MadeIsNat DEF TurnsInv, Made
  <2>2. m # Call("Exec", Arg(p))
    BY DEF Marks, Call
  <2> QED
    BY <1>4, <2>1, <2>2
<1>10. Proceeds(p)
  BY <1>1, <1>2, <1>3, <1>4, <1>8, <1>9 DEF Proceeds
<1> QED
  BY <1>1, <1>3, <1>7, <1>10, Concludes DEF TurnsInv

\* Nothing the turns depend on changes, or a name is created early.
LEMMA UnmovedKeepsTurns ==
  ASSUME ProgramsTypeOK, TurnsInv, UNCHANGED <<story, at, waitsOn, passed, given, printed>>, OneUnit', NamesKept
  PROVE  TurnsInv'
<1>1. SemTypeOK /\ at \in [Scripted -> Nat] /\ printed \in [{"A", "B"} -> Nat]
  BY DEF ProgramsTypeOK, TurnsInv
<1>2. Begun'
  BY BegunStays DEF TurnsInv
<1>3. WaitsIn'
  <2>1. ASSUME NEW q \in Scripted, waitsOn'[q] # 0
        PROVE  at'[q] > 1 /\ Program(q)'[at'[q] - 1] = Call("Wait", semTab'[waitsOn'[q]].name)
    BY <1>1, <2>1, WaitsInStays DEF TurnsInv, WaitsIn
  <2> QED
    BY <2>1 DEF WaitsIn
<1>4. \A d \in Pairs : Counted(d)'
  BY <1>1, StaysCounted DEF TurnsInv
<1> QED
  BY <1>1, <1>2, <1>3, <1>4 DEF TurnsInv

LEMMA NextKeepsTurns ==
  ASSUME ProgramsTypeOK, TurnsInv, [ProgramsNext]_programVars PROVE TurnsInv'
<1>1. ASSUME UNCHANGED <<semVars, story, at, printed>> PROVE TurnsInv'
  <2>1. UNCHANGED <<semTab, waitsOn, initial, passed, given>>
    BY <1>1 DEF semVars
  <2>2. OneUnit' /\ NamesKept
    BY <2>1, UnitsUntouched DEF TurnsInv
  <2> QED
    BY <1>1, <2>1, <2>2, UnmovedKeepsTurns
<1>2. ASSUME NEW p \in Scripted, Step(p) PROVE TurnsInv'
  <2>1. CASE CallCreateSemaphore(p)
    BY <2>1, CreateKeepsTurns
  <2>2. CASE CallWait(p)
    BY <2>2, WaitKeepsTurns
  <2>3. CASE CallSignal(p)
    BY <2>3, SignalKeepsTurns
  <2>4. CASE CallPrintChar(p)
    BY <2>4, PrintKeepsTurns
  <2>5. CASE CallExec(p)
    <3>1. /\ Calls(p, "Exec") /\ UNCHANGED <<semVars, story, printed>>
          /\ at' = [at EXCEPT ![p] = @ + 1, ![Arg(p)] = 1] \/ Advance(p)
      BY <2>5 DEF CallExec
    <3>2. CASE Advance(p)
      BY <3>1, <3>2, OtherCallKeepsTurns
    <3>3. CASE at' = [at EXCEPT ![p] = @ + 1, ![Arg(p)] = 1]
      BY <2>5, <3>3, ExecKeepsTurns
    <3> QED
      BY <3>1, <3>2, <3>3
  <2>6. CASE CallJoin(p)
    BY <2>6, OtherCallKeepsTurns DEF CallJoin
  <2>7. CASE CallCreateFile(p)
    BY <2>7, OtherCallKeepsTurns DEF CallCreateFile
  <2>8. CASE CallOpen(p)
    BY <2>8, OtherCallKeepsTurns DEF CallOpen
  <2>9. CASE CallOpenElse(p)
    BY <2>9, OtherCallKeepsTurns DEF CallOpenElse
  <2>10. CASE CallAppend(p)
    BY <2>10, OtherCallKeepsTurns DEF CallAppend
  <2>11. CASE CallClose(p)
    BY <2>11, OtherCallKeepsTurns DEF CallClose
  <2>12. CASE CallExit(p)
    BY <2>12, OtherCallKeepsTurns DEF CallExit
  <2>13. CASE Console(p)
    BY <1>1, <2>13 DEF Console
  <2>14. CASE LoadOpens(p) \/ LoadEnds(p)
    BY <1>1, <2>14 DEF LoadOpens, LoadEnds
  <2> QED
    BY <1>2, <2>1, <2>2, <2>3, <2>4, <2>5, <2>6, <2>7, <2>8, <2>9, <2>10, <2>11, <2>12, <2>13, <2>14 DEF Step
<1>3. ASSUME NEW p \in Free, FreeCall(p) PROVE TurnsInv'
  <2>1. UNCHANGED <<story, at, printed>>
    BY <1>3 DEF FreeCall
  <2>2. CASE UNCHANGED semVars
    BY <1>1, <2>1, <2>2
  <2>3. ASSUME NEW n \in SemNames, CreateSemaphore(n, 1) PROVE TurnsInv'
    <3>1. OneUnit' /\ NamesKept /\ UNCHANGED <<waitsOn, passed, given>>
      BY <2>3, CreateKeepsUnits DEF ProgramsTypeOK, TurnsInv, CreateSemaphore
    <3> QED
      BY <2>1, <3>1, UnmovedKeepsTurns
  <2> QED
    BY <1>3, <2>2, <2>3 DEF FreeCall
<1>4. CASE UNCHANGED programVars
  BY <1>1, <1>4 DEF programVars
<1> QED
  BY <1>2, <1>3, <1>4, WaitReturnsKeepsTurns DEF ProgramsNext

LEMMA TurnsStart == ProgramsInit => TurnsInv
<1> SUFFICES ASSUME ProgramsInit PROVE TurnsInv
  OBVIOUS
<1>1. /\ semTab = <<>> /\ DOMAIN semTab = {} /\ waitsOn = [c \in Callers |-> 0]
      /\ initial = [n \in SemNames |-> 0] /\ passed = [n \in SemNames |-> 0] /\ given = [n \in SemNames |-> 0]
      /\ at = [p \in Scripted |-> IF p = Main THEN 1 ELSE 0] /\ printed = [c \in {"A", "B"} |-> 0]
      /\ story \in {"pingpong", "tape"}
  BY DEF ProgramsInit, SemInit
<1>2. printed \in [{"A", "B"} -> Nat]
  BY <1>1
<1>3. OneUnit
  BY <1>1 DEF OneUnit, UnitsKept, Known
<1>4. Main \in Scripted /\ Started \subseteq Scripted /\ Main \notin Started /\ Scripted \subseteq Callers
  BY ScriptedAreCallers
<1>5. Begun
  <2>1. at[Main] = 1 /\ \A c \in Started : at[c] = 0
    BY <1>1, <1>4
  <2>2. Len(Program(Main)) \in Nat
    <3>1. Program(Main) \in {PingPong, Project2}
      BY DEF Program
    <3> HIDE DEF PingPong, Project2, MainCalls
    <3> QED
      BY <3>1, ProgramsAreSeqs, LenProperties
  <2> QED
    BY <2>1, <2>2 DEF Begun
<1>6. WaitsIn
  BY <1>1, <1>4 DEF WaitsIn
<1>7. ASSUME NEW d \in Pairs PROVE Counted(d)
  <2>1. \A q \in Scripted : at[q] \in {0, 1}
    BY <1>1
  <2>2. \A q \in Scripted : ~ Between(q, d)
    BY <2>1, NotBegun, SinceIsIn DEF Between
  <2>3. AllBetween(d) = {}
    BY <2>2 DEF AllBetween
  <2>4. d[1] \in Marks /\ d[2] \in Marks
    BY PairsAlternate
  <2>5. \A m \in Marks : Made(m) = 0
    BY <1>1 DEF Marks, Made
  <2> QED
    BY <2>3, <2>4, <2>5, FS_EmptySet DEF Counted
<1> QED
  BY <1>2, <1>3, <1>5, <1>6, <1>7 DEF TurnsInv

LEMMA TurnsFollow == ASSUME ProgramsTypeOK, TurnsInv PROVE TurnsTaken
<1>1. SemTypeOK /\ printed \in [{"A", "B"} -> Nat]
  BY DEF ProgramsTypeOK, TurnsInv
<1>2. UnitsKept
  BY DEF TurnsInv, OneUnit
<1>3. ASSUME NEW n \in SemNames PROVE passed[n] \in Nat /\ given[n] \in Nat /\ passed[n] <= 1 + given[n]
  <2>1. passed[n] \in Nat /\ given[n] \in Nat
    BY <1>1 DEF SemTypeOK
  <2>2. CASE Known(n)
    <3>1. PICK i \in DOMAIN semTab : semTab[i].name = n
      BY <2>2 DEF Known
    <3>2. SlotKept(i) /\ initial[n] = 1
      BY <1>1, <2>2, SlotsKept DEF TurnsInv, OneUnit
    <3> QED
      BY <2>1, <3>1, <3>2 DEF SlotKept
  <2>3. CASE ~ Known(n)
    BY <2>3 DEF TurnsInv, OneUnit
  <2> QED
    BY <2>1, <2>2, <2>3
<1>4. \A d \in Pairs : Counted(d) /\ Cardinality(AllBetween(d)) \in Nat
  <2> SUFFICES ASSUME NEW d \in Pairs PROVE Cardinality(AllBetween(d)) \in Nat
    BY DEF TurnsInv
  <2>1. AllBetween(d) \in SUBSET Scripted
    BY DEF AllBetween
  <2> QED
    BY <2>1, ScriptedIsFinite, FS_Subset, FS_CardinalityType
<1>5. ASSUME NEW n \in {"print", "tape"} PROVE Cardinality({p \in Scripted : Holds(p, n)}) <= 1
  <2> DEFINE d == << Call("Wait", n), Call("Signal", n) >>
             all == {p \in Scripted : Holds(p, n)}
  <2>1. d \in Pairs /\ d[1] = Call("Wait", n) /\ d[2] = Call("Signal", n)
    BY DEF Pairs
  <2>2. Made(d[1]) = passed[n] /\ Made(d[2]) = given[n]
    BY <2>1 DEF Made, Call
  <2>3. \A x : Call("Wait", n) = Call("Wait", x) <=> n = x
    BY CallsDiffer
  <2>4. ASSUME NEW p \in Scripted PROVE Holds(p, n) <=> Between(p, d)
    <3>1. Blocked(p, d[1]) <=> ~ (waitsOn[p] = 0 \/ semTab[waitsOn[p]].name # n)
      BY <2>1, <2>3 DEF Blocked
    <3> HIDE DEF d
    <3> QED
      BY <2>1, <3>1 DEF Holds, Between
  <2> HIDE DEF d
  <2>5. all = AllBetween(d)
    BY <2>4, Zenon DEF AllBetween
  <2> HIDE DEF all
  <2>6. n \in SemNames
    BY UserProgramsAssumption
  <2> QED
    BY <1>3, <1>4, <2>1, <2>2, <2>5, <2>6 DEF Counted, all
<1>6. printed["A"] - printed["B"] \in -1 .. 1
  <2> DEFINE w1 == << Call("Wait", "ping"), Call("PrintChar", "A") >>
             w2 == << Call("PrintChar", "A"), Call("Signal", "pong") >>
             w3 == << Call("Wait", "pong"), Call("PrintChar", "B") >>
             w4 == << Call("PrintChar", "B"), Call("Signal", "ping") >>
  <2>1. w1 \in Pairs /\ w2 \in Pairs /\ w3 \in Pairs /\ w4 \in Pairs
    BY DEF Pairs
  <2>2. /\ Made(w1[1]) = passed["ping"] /\ Made(w1[2]) = printed["A"]
        /\ Made(w2[1]) = printed["A"] /\ Made(w2[2]) = given["pong"]
        /\ Made(w3[1]) = passed["pong"] /\ Made(w3[2]) = printed["B"]
        /\ Made(w4[1]) = printed["B"] /\ Made(w4[2]) = given["ping"]
    BY DEF Made, Call
  <2> HIDE DEF w1, w2, w3, w4
  <2>3. /\ passed["ping"] = printed["A"] + Cardinality(AllBetween(w1))
        /\ printed["A"] = given["pong"] + Cardinality(AllBetween(w2))
        /\ passed["pong"] = printed["B"] + Cardinality(AllBetween(w3))
        /\ printed["B"] = given["ping"] + Cardinality(AllBetween(w4))
    BY <1>4, <2>1, <2>2 DEF Counted
  <2>4. /\ Cardinality(AllBetween(w1)) \in Nat /\ Cardinality(AllBetween(w2)) \in Nat
        /\ Cardinality(AllBetween(w3)) \in Nat /\ Cardinality(AllBetween(w4)) \in Nat
    BY <1>4, <2>1
  <2>5. "ping" \in SemNames /\ "pong" \in SemNames
    BY UserProgramsAssumption
  <2>6. /\ passed["ping"] <= 1 + given["ping"] /\ passed["pong"] <= 1 + given["pong"]
        /\ printed["A"] \in Nat /\ printed["B"] \in Nat /\ given["ping"] \in Nat /\ given["pong"] \in Nat
    BY <1>1, <1>3, <2>5
  <2>7. printed["A"] <= 1 + printed["B"]
    BY <2>3, <2>4, <2>6
  <2>8. printed["B"] <= 1 + printed["A"]
    BY <2>3, <2>4, <2>6
  <2> QED
    BY <2>6, <2>7, <2>8
<1> QED
  BY <1>2, <1>5, <1>6 DEF TurnsTaken

\* Whatever other processes create first, and however many children run
\* ping.c: one at a time prints or has the tape, a semaphore never has less
\* than nothing, and neither letter gets ahead of the other by more than the
\* one turn both begin with: stable.cc:46, ping.c:8, sinhvien.c:18.
THEOREM TurnsTakenCorrect == ProgramsSpec => []TurnsTaken
<1>1. ProgramsInit => TurnsInv
  BY TurnsStart
<1>2. FilesIInv /\ TurnsInv /\ [ProgramsNext]_programVars => TurnsInv'
  BY NextKeepsTurns DEF FilesIInv
<1>3. FilesIInv /\ TurnsInv => TurnsTaken
  BY TurnsFollow DEF FilesIInv
<1> QED
  BY <1>1, <1>2, <1>3, FilesInvariant, PTL DEF ProgramsSpec
=============================================================================
