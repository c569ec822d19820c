---------------------------- MODULE ConsoleCalls ----------------------------
(***************************************************************************)
(* The console system calls of userprog/ksyscall.h, as loops of GetChar    *)
(* and PutChar by threads that share the console: ReadNum, ReadChar,       *)
(* ReadString, PrintNum, PrintChar, PrintString.  Between two characters   *)
(* of a call the console is free for the others.                           *)
(***************************************************************************)
EXTENDS SynchConsole, SequencesExt

CONSTANTS
  MaxInt,           \* INT_MAX
  MaxPrintLength,   \* MAX_PRINT_LENGTH
  Numbers,          \* arguments of PrintNum
  Letters,          \* arguments of PrintChar
  Strings,          \* arguments of PrintString
  Lengths,          \* arguments of ReadString
  MaxCalls          \* bound: system calls in a behaviour

MinInt == -MaxInt - 1

ASSUME CallsAssumption ==
  /\ MaxInt \in Nat
  /\ Numbers \subseteq MinInt .. MaxInt
  /\ Letters \subseteq Char /\ Strings \subseteq Seq(Char \ {0})
  /\ Lengths \subseteq Nat \ {0} /\ MaxPrintLength \in Nat /\ MaxCalls \in Nat

VARIABLES
  call,    \* the system call each thread is in
  arg,     \* its argument
  todo,    \* the characters a print call has left to put
  heard,   \* the characters a read call has got
  num,     \* SysReadNum's local variables
  value,   \* what the last ReadNum or ReadChar returned
  line,    \* what the last ReadString stored
  from,    \* history: characters on the screen when the call began
  calls    \* number of calls

callVars == <<call, arg, todo, heard, num, value, line, from, calls>>
vars == <<consoleVars, callVars>>

Newline == 10
Blank   == {32, Newline}
Minus   == 45
Digit   == 48 .. 57

\* Two's complement.
Wrap(n) == ((n - MinInt) % (MaxInt - MinInt + 1)) + MinInt

ReadCall  == {"readNum", "readChar", "readString"}
PrintCall == {"printNum", "printChar", "printString"}

Fresh == [result |-> 0, legal |-> TRUE, isNeg |-> FALSE, hasNum |-> FALSE]

Init ==
  /\ ConsoleInit
  /\ call = [t \in Thread |-> "none"]
  /\ arg = [t \in Thread |-> 0]
  /\ todo = [t \in Thread |-> <<>>]
  /\ heard = [t \in Thread |-> <<>>]
  /\ num = [t \in Thread |-> Fresh]
  /\ value = [t \in Thread |-> 0]
  /\ line = [t \in Thread |-> <<>>]
  /\ from = [t \in Thread |-> 0]
  /\ calls = 0

-----------------------------------------------------------------------------
(* Conversions *)

\* The filter of SysReadChar and SysPrintChar.
Printable(c) == c \in 32 .. 125 \cup 10 .. 11

\* The loop of SysPrintNum; a number that is still negative has no digits.
Digits[n \in MinInt .. MaxInt] ==
  IF n <= 0 THEN <<>> ELSE Append(Digits[n \div 10], 48 + (n % 10))

NumCharsReversed(n) ==    \* faulty variant: the digits as they are computed
  IF n = 0 THEN <<48>>
  ELSE IF n < 0 THEN <<Minus>> \o Reverse(Digits[Wrap(-n)]) ELSE Reverse(Digits[n])
NumChars(n) ==
  IF n = 0 THEN <<48>>
  ELSE IF n < 0 THEN <<Minus>> \o Digits[Wrap(-n)] ELSE Digits[n]

StringChars(s) == SubSeq(s, 1, IF Len(s) < MaxPrintLength THEN Len(s) ELSE MaxPrintLength)

CharChars(c) == IF Printable(c) THEN <<c>> ELSE <<>>

\* Faulty variant: a sign among the digits is taken for one before them.
HearAnySign(r, c) ==
  IF c \in Digit THEN [r EXCEPT !.result = Wrap(r.result * 10 + (c - 48)), !.hasNum = TRUE]
  ELSE IF c = Minus THEN [r EXCEPT !.isNeg = TRUE]
  ELSE IF c \in Blank THEN r
  ELSE [r EXCEPT !.legal = FALSE]

\* One turn of SysReadNum's loop.
Hear(r, c) ==
  IF c \in Digit THEN [r EXCEPT !.result = Wrap(r.result * 10 + (c - 48)), !.hasNum = TRUE]
  ELSE IF c = Minus THEN IF r.hasNum THEN [r EXCEPT !.legal = FALSE] ELSE [r EXCEPT !.isNeg = TRUE]
  ELSE IF c \in Blank THEN r
  ELSE [r EXCEPT !.legal = FALSE]

\* What ends that loop, after it heard c.
NumEnds(r, c) == c \in Blank /\ (~r.legal \/ r.hasNum \/ r.isNeg)

NumValue(r) ==
  IF ~r.legal THEN 0 ELSE IF r.isNeg THEN Wrap(-r.result) ELSE r.result

\* A C string in a buffer.
UpToNul(s) ==
  LET nul == SelectInSeq(s, LAMBDA c : c = 0) IN IF nul = 0 THEN s ELSE SubSeq(s, 1, nul - 1)

\* The buffer SysReadString copies to the user: the line without its newline, or
\* nothing when the line did not fit.
StoredFull(h) == UpToNul(IF Last(h) = Newline THEN Front(h) ELSE h)   \* faulty variant: cut, not reset
Stored(h) == IF Last(h) \in {Newline, 0} THEN UpToNul(Front(h)) ELSE <<>>

-----------------------------------------------------------------------------
(* System calls *)

Begin(t, name, a) ==
  /\ pc[t] = "user"
  /\ calls < MaxCalls
  /\ calls' = calls + 1
  /\ call' = [call EXCEPT ![t] = name]
  /\ arg' = [arg EXCEPT ![t] = a]
  /\ from' = [from EXCEPT ![t] = Len(screen)]

BeginRead(t, name, a) ==
  /\ Begin(t, name, a)
  /\ heard' = [heard EXCEPT ![t] = <<>>]
  /\ num' = [num EXCEPT ![t] = Fresh]
  /\ GetChar(t)
  /\ UNCHANGED <<deviceVars, lock, waitFor, todo, value, line>>

\* A call that has something to put.
BeginPrint(t, name, a, chars) ==
  /\ chars # <<>>
  /\ Begin(t, name, a)
  /\ todo' = [todo EXCEPT ![t] = Tail(chars)]
  /\ PutChar(t, Head(chars))
  /\ UNCHANGED <<deviceVars, lock, waitFor, heard, num, value, line>>

SysReadNum(t)       == BeginRead(t, "readNum", 0)
SysReadChar(t)      == BeginRead(t, "readChar", 0)
SysReadString(t)    == \E n \in Lengths : BeginRead(t, "readString", n)
SysPrintNum(t)      == \E n \in Numbers : BeginPrint(t, "printNum", n, NumChars(n))
SysPrintChar(t)     == \E c \in Letters : BeginPrint(t, "printChar", c, CharChars(c))
SysPrintString(t)   == \E s \in Strings : BeginPrint(t, "printString", s, StringChars(s))

Return(t) == GoTo(t, "user") /\ call' = [call EXCEPT ![t] = "none"] /\ UNCHANGED <<side, ch, taken>>

\* The loops, after a GetChar.
HeardNum(t) ==
  LET r == Hear(num[t], ch[t]) IN
  /\ pc[t] = "back" /\ call[t] = "readNum"
  /\ heard' = [heard EXCEPT ![t] = Append(@, ch[t])]
  /\ num' = [num EXCEPT ![t] = r]
  /\ \/ NumEnds(r, ch[t]) /\ Return(t) /\ value' = [value EXCEPT ![t] = NumValue(r)]
     \/ ~NumEnds(r, ch[t]) /\ GetChar(t) /\ UNCHANGED <<call, value>>
  /\ UNCHANGED <<deviceVars, lock, waitFor, arg, todo, line, from, calls>>

HeardChar(t) ==
  /\ pc[t] = "back" /\ call[t] = "readChar"
  /\ heard' = [heard EXCEPT ![t] = Append(@, ch[t])]
  /\ value' = [value EXCEPT ![t] = IF Printable(ch[t]) THEN ch[t] ELSE 0]
  /\ Return(t)
  /\ UNCHANGED <<deviceVars, lock, waitFor, arg, todo, num, line, from, calls>>

HeardString(t) ==
  LET h == Append(heard[t], ch[t])
      ends == ch[t] = Newline \/ Len(h) = arg[t] IN
  /\ pc[t] = "back" /\ call[t] = "readString"
  /\ heard' = [heard EXCEPT ![t] = h]
  /\ \/ ends /\ Return(t) /\ line' = [line EXCEPT ![t] = Stored(h)]
     \/ ~ends /\ GetChar(t) /\ UNCHANGED <<call, line>>
  /\ UNCHANGED <<deviceVars, lock, waitFor, arg, todo, num, value, from, calls>>

\* The loops, after a PutChar.
PrintNext(t) ==
  /\ pc[t] = "back" /\ call[t] \in PrintCall
  /\ todo[t] # <<>>
  /\ PutChar(t, Head(todo[t]))
  /\ todo' = [todo EXCEPT ![t] = Tail(@)]
  /\ UNCHANGED <<deviceVars, lock, waitFor, call, arg, heard, num, value, line, from, calls>>

PrintReturn(t) ==
  /\ pc[t] = "back" /\ call[t] \in PrintCall
  /\ todo[t] = <<>>
  /\ Return(t)
  /\ UNCHANGED <<deviceVars, lock, waitFor, arg, todo, heard, num, value, line, from, calls>>

SystemCall(t) ==
  \/ SysReadNum(t) \/ SysReadChar(t) \/ SysReadString(t)
  \/ SysPrintNum(t) \/ SysPrintChar(t) \/ SysPrintString(t)

Kernel(t) ==
  \/ Monitor(t) /\ UNCHANGED callVars
  \/ HeardNum(t) \/ HeardChar(t) \/ HeardString(t) \/ PrintNext(t) \/ PrintReturn(t)

Interrupt == Device /\ UNCHANGED callVars

Next == Interrupt \/ \E t \in Thread : SystemCall(t) \/ Kernel(t)

Spec == Init /\ [][Next]_vars

\* A thread that can run is run in the end (Threads!ReadyRuns), and a scheduled
\* interrupt comes.
FairSpec ==
  /\ Spec
  /\ WF_vars((CharArrives \/ EndOfFile) /\ UNCHANGED callVars)
  /\ WF_vars(CharPut /\ UNCHANGED callVars)
  /\ \A t \in Thread : WF_vars(Kernel(t))

-----------------------------------------------------------------------------
(* Properties *)

\* One type invariant for the console and the calls.
TypeOK ==
  /\ ConsoleTypeOK
  /\ \A i \in DOMAIN screen : screen[i] \in Thread \X Char
  /\ call \in [Thread -> ReadCall \cup PrintCall \cup {"none"}]
  /\ \A t \in Thread : todo[t] \in Seq(Char) /\ heard[t] \in Seq(Char \cup {EOF})
  /\ num \in [Thread -> [result : MinInt .. MaxInt, legal : BOOLEAN, isNeg : BOOLEAN, hasNum : BOOLEAN]]
  /\ value \in [Thread -> MinInt .. MaxInt \cup Char]
  /\ from \in [Thread -> 0 .. Len(screen)]
  /\ calls \in 0 .. MaxCalls

\* What holds of the two devices and their monitors between any two steps
\* (SynchConsole: the ASSERTs of console.cc:70 and :169).
DevicesSound == TypeOK /\ CharWhenAvailable /\ DisplayFree

\* The number the digits among the characters d stand for.
Decimal(d) ==
  LET upTo[n \in 0 .. Len(d)] ==
        IF n = 0 THEN 0
        ELSE IF d[n] \in Digit THEN upTo[n - 1] * 10 + (d[n] - 48) ELSE upTo[n - 1]
  IN upTo[Len(d)]

\* h holds blanks, a numeral of minus signs and then digits, and a last blank.
Numeral(h) ==
  \E i, j, k \in 0 .. Len(h) :
    /\ i <= j /\ j <= k /\ k = Len(h) - 1 /\ i < k
    /\ Range(SubSeq(h, 1, i)) \cup {Last(h)} \subseteq Blank
    /\ Range(SubSeq(h, i + 1, j)) \subseteq {Minus}
    /\ Range(SubSeq(h, j + 1, k)) \subseteq Digit

\* ReadNum returns the number it was given, to the width of an int, when it was
\* given one and nothing else, and 0 otherwise; it stops at the blank that ends
\* the word, whichever characters other threads took meanwhile
\* (ksyscall.h:170-200).
NumberRead ==
  \A t \in Thread : call[t] = "readNum" /\ call'[t] = "none" =>
    LET h == heard'[t] IN
    /\ \A i \in 2 .. Len(h) - 1 : h[i] \in Blank => h[i - 1] \in Blank
    /\ value'[t] = IF ~Numeral(h) THEN 0
                   ELSE Wrap(IF Minus \in Range(h) THEN -Decimal(h) ELSE Decimal(h))

\* ReadString takes no more than it has room for and nothing after the newline,
\* and stores the whole line or nothing, a line that holds no NUL
\* (ksyscall.h:269-305).
LineRead ==
  \A t \in Thread : call[t] = "readString" /\ call'[t] = "none" =>
    /\ Len(heard'[t]) <= arg[t]
    /\ Newline \notin Range(Front(heard'[t]))
    /\ 0 \notin Range(heard'[t]) =>
         line'[t] = IF Last(heard'[t]) = Newline THEN Front(heard'[t]) ELSE <<>>

\* What the two calls that read a line return (ksyscall.h:170-200, :269-305).
InputRead == [][NumberRead /\ LineRead]_vars

\* What t put on the screen since its call began.
Put(t) ==
  LET upTo[n \in 0 .. Len(screen)] ==
        IF n <= from[t] THEN <<>>
        ELSE IF screen[n][1] = t THEN Append(upTo[n - 1], screen[n][2]) ELSE upTo[n - 1]
  IN upTo[Len(screen)]

\* s is the shortest numeral of n.
NumeralOf(s, n) ==
  LET d == IF n < 0 THEN Tail(s) ELSE s IN
  /\ d # <<>> /\ Range(d) \subseteq Digit
  /\ d[1] = 48 => d = <<48>>
  /\ n < 0 => s[1] = Minus
  /\ Decimal(d) = IF n < 0 THEN -n ELSE n

TextPrinted ==
  \A t \in Thread : call[t] \in PrintCall /\ call'[t] = "none" =>
    /\ call[t] = "printNum" /\ arg[t] # MinInt => NumeralOf(Put(t), arg[t])
    /\ call[t] = "printChar" => Put(t) = <<arg[t]>>
    /\ call[t] = "printString" =>
         /\ Put(t) = SubSeq(arg[t], 1, Len(Put(t)))
         /\ Len(Put(t)) \in {Len(arg[t]), MaxPrintLength}

\* A print call returns when its characters are on the screen, once each and in
\* their order: for PrintNum the shortest numeral of its argument, least int
\* excepted; for PrintString the string, cut at MAX_PRINT_LENGTH
\* (ksyscall.h:203-233, :257-265, :311-324).
Printed == [][TextPrinted]_vars

\* Every print call returns, the others' calls being bounded: no put waits for an
\* interrupt that is not coming (synchconsole.cc:100-107).
PrintsReturn ==
  \A t \in Thread : call[t] \in PrintCall ~> call[t] = "none"

\* The reader whose turn it is gets a character if there is one: the keyboard is
\* polled again after each (console.cc:106-108).
ReaderServed ==
  \A t \in Thread :
    (pc[t] = "locked" /\ side[t] = "in" /\ (incoming # EOF \/ numRead < Len(typed))) ~> pc[t] # "locked"
=============================================================================
