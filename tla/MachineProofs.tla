-------------------------- MODULE MachineProofs ----------------------------
(***************************************************************************)
(* Theorems about the machine.  About Interrupts and DiskDevice: for every  *)
(* set of threads and devices, every length of a tick and every run,       *)
(* however long.  About Processor: for every program, every memory and     *)
(* page table, every width of a byte and every run.                        *)
(***************************************************************************)
EXTENDS DiskDevice, Processor, SequenceTheorems, WellFoundedInduction, TLAPS

-----------------------------------------------------------------------------
(* The inductive invariant *)

\* x comes before y: it is earlier, or of the same time and scheduled first.
Before(x, y) == x.when < y.when \/ (x.when = y.when /\ x.no < y.no)

Ordered(s) == \A i, j \in 1..Len(s) : i < j => Before(s[i], s[j])

\* The handlers of Idle, and they only, see that the machine is idle.
IdleMode ==
  /\ at[current] = "idle" => status = "IdleMode"
  /\ status = "IdleMode" => at[current] \in {"idle", "halt"}

\* Interrupts are numbered as they are scheduled, the last one fired was due and
\* all that are pending come after it.
Numbered ==
  /\ fired.when <= totalTicks /\ fired.no <= scheduled
  /\ \A i \in 1..Len(pending) : pending[i].no <= scheduled /\ Before(fired, pending[i])

Inv == TimeConsistent /\ IdleMode /\ Ordered(pending) /\ Numbered

LEMMA InvInit == Init => Inv
<1> SUFFICES ASSUME Init PROVE Inv
  OBVIOUS
<1>1. pending = <<>> /\ Len(pending) = 0
  BY DEF Init
<1>2. /\ current \in Thread
      /\ at \in [Thread -> At] /\ \A t \in Thread : at[t] = "code"
      /\ \A t \in Thread : frames[t] = <<>>
  BY InterruptsAssumption DEF Init, At
<1>3. frames \in [Thread -> Seq({"SystemMode", "UserMode"})]
  <2>1. <<>> \in Seq({"SystemMode", "UserMode"})
    BY EmptySeq
  <2> QED
    BY <2>1 DEF Init
<1>4. TypeOK
  <2>1. pending \in Seq(PendingInterrupt)
    BY <1>1, EmptySeq
  <2>2. fired \in [when : Nat, no : Nat]
    BY DEF Init
  <2> QED
    BY <1>2, <1>3, <2>1, <2>2 DEF Init, TypeOK
<1>5. NoneOverdue
  BY <1>1 DEF NoneOverdue
<1>6. HandlersContained
  BY <1>2 DEF Init, HandlersContained
<1>7. ClockAccounted
  BY DEF Init, ClockAccounted
<1>8. IdleMode
  BY <1>2 DEF Init, IdleMode
<1>9. Ordered(pending)
  BY <1>1 DEF Ordered
<1>10. Numbered
  BY <1>1 DEF Init, Numbered
<1> QED
  BY <1>4, <1>5, <1>6, <1>7, <1>8, <1>9, <1>10 DEF Inv, TimeConsistent

-----------------------------------------------------------------------------
(* The sorted list *)

\* A set of numbers that is not empty has a least one.
LEMMA LeastNumber ==
  ASSUME NEW T, T \subseteq Nat, T # {}
  PROVE  \E m \in T : \A j \in T : m <= j
<1>1. \E m \in T : \A j \in T : ~ (<<j, m>> \in OpToRel(<, Nat))
  BY WFMin, NatLessThanWellFounded
<1>2. \A j, m \in Nat : j < m => <<j, m>> \in OpToRel(<, Nat)
  BY DEF OpToRel
<1>3. PICK m \in T : \A j \in T : ~ (<<j, m>> \in OpToRel(<, Nat))
  BY <1>1
<1>4. \A j \in T : m <= j
  <2> SUFFICES ASSUME NEW j \in T PROVE m <= j
    OBVIOUS
  <2>1. j \in Nat /\ m \in Nat /\ ~ (j < m)
    BY <1>2, <1>3
  <2> QED
    BY <2>1
<1> QED
  BY <1>4

\* An interrupt inserted into a list takes the place that keeps it in order.
LEMMA InsertEffect ==
  ASSUME NEW s \in Seq(PendingInterrupt), Ordered(s),
         NEW p \in PendingInterrupt,
         \A i \in 1..Len(s) : s[i].no < p.no
  PROVE  /\ Insert(p, s) \in Seq(PendingInterrupt)
         /\ Ordered(Insert(p, s))
         /\ \A i \in 1..Len(Insert(p, s)) :
              Insert(p, s)[i] = p \/ \E j \in 1..Len(s) : Insert(p, s)[i] = s[j]
<1> DEFINE later == {i \in 1..Len(s) : p.when < s[i].when}
           k == IF later = {} THEN Len(s) + 1
                ELSE CHOOSE i \in later : \A j \in later : i <= j
           r == Insert(p, s)
<1>1. Len(s) \in Nat /\ \A i \in 1..Len(s) : s[i] \in PendingInterrupt
  BY ElementOfSeq, LenProperties
<1>2. /\ p.when \in Nat /\ p.no \in Nat
      /\ \A i \in 1..Len(s) : s[i].when \in Nat /\ s[i].no \in Nat
  BY <1>1 DEF PendingInterrupt
<1>3. \A i, j \in 1..Len(s) : i < j => s[i].when <= s[j].when
  BY <1>2 DEF Ordered, Before
<1>4. /\ k \in 1..Len(s) + 1
      /\ \A i \in 1..Len(s) : i < k => s[i].when <= p.when
      /\ \A i \in 1..Len(s) : k <= i => p.when < s[i].when
  <2>1. CASE later = {}
    <3>1. \A i \in 1..Len(s) : s[i].when <= p.when
      BY <2>1, <1>2
    <3> QED
      BY <2>1, <1>1, <3>1
  <2>2. CASE later # {}
    <3>1. \E m \in later : \A j \in later : m <= j
      <4>1. later \subseteq Nat
        BY <1>1
      <4> HIDE DEF later
      <4> QED
        BY <2>2, <4>1, LeastNumber
    <3>2. k \in later /\ \A j \in later : k <= j
      BY <2>2, <3>1
    <3> HIDE DEF k
    <3>3. k \in 1..Len(s) /\ p.when < s[k].when
      BY <3>2
    <3>4. \A i \in 1..Len(s) : i < k => s[i].when <= p.when
      <4> SUFFICES ASSUME NEW i \in 1..Len(s), i < k, ~ (s[i].when <= p.when)
                   PROVE FALSE
        OBVIOUS
      <4>1. i \in later
        BY <1>2
      <4> QED
        BY <4>1, <3>2, <3>3, <1>1
    <3>5. \A i \in 1..Len(s) : k <= i => p.when < s[i].when
      <4> SUFFICES ASSUME NEW i \in 1..Len(s), k <= i PROVE p.when < s[i].when
        OBVIOUS
      <4>1. i = k \/ k < i
        BY <3>3, <1>1
      <4>2. s[k].when <= s[i].when
        BY <4>1, <1>3, <1>2, <3>3
      <4> QED
        BY <4>2, <3>3, <1>2
    <3> QED
      BY <3>3, <3>4, <3>5, <1>1
  <2> QED
    BY <2>1, <2>2
<1>5. r = SubSeq(s, 1, k - 1) \o <<p>> \o SubSeq(s, k, Len(s))
  BY DEF Insert, InsertAt
<1> HIDE DEF k, r, later
<1> DEFINE a == SubSeq(s, 1, k - 1)
           b == SubSeq(s, k, Len(s))
<1> HIDE DEF a, b
<1>6. /\ a \in Seq(PendingInterrupt) /\ Len(a) = k - 1
      /\ \A i \in 1..k - 1 : a[i] = s[i]
  <2>1. PICK n \in Int : n = k - 1
    BY <1>1, <1>4
  <2>2. \A i \in 1..n : s[i] \in PendingInterrupt
    BY <2>1, <1>1, <1>4
  <2>3. /\ SubSeq(s, 1, n) \in Seq(PendingInterrupt)
        /\ Len(SubSeq(s, 1, n)) = IF 1 <= n THEN n - 1 + 1 ELSE 0
        /\ \A i \in 1 .. n - 1 + 1 : SubSeq(s, 1, n)[i] = s[1 + i - 1]
    BY <2>2, SubSeqProperties
  <2>4. \A i \in 1..n : i \in 1 .. n - 1 + 1 /\ 1 + i - 1 = i
    OBVIOUS
  <2> QED
    BY <2>1, <2>3, <2>4, <1>1, <1>4 DEF a
<1>7. /\ b \in Seq(PendingInterrupt) /\ Len(b) = Len(s) - k + 1
      /\ \A i \in 1..Len(s) - k + 1 : b[i] = s[k + i - 1]
  <2>1. PICK n \in Int : n = Len(s)
    BY <1>1
  <2>2. k \in Int /\ \A i \in k..n : s[i] \in PendingInterrupt
    BY <2>1, <1>1, <1>4
  <2>3. /\ SubSeq(s, k, n) \in Seq(PendingInterrupt)
        /\ Len(SubSeq(s, k, n)) = IF k <= n THEN n - k + 1 ELSE 0
        /\ \A i \in 1 .. n - k + 1 : SubSeq(s, k, n)[i] = s[k + i - 1]
    BY <2>2, SubSeqProperties
  <2> QED
    BY <2>1, <2>3, <1>1, <1>4 DEF b
<1> DEFINE ap == a \o <<p>>
<1>8. <<p>> \in Seq(PendingInterrupt) /\ Len(<<p>>) = 1 /\ <<p>>[1] = p
  OBVIOUS
<1>9. /\ ap \in Seq(PendingInterrupt) /\ Len(ap) = k
      /\ \A i \in 1..k : ap[i] = IF i <= k - 1 THEN s[i] ELSE p
  <2>1. /\ a \o <<p>> \in Seq(PendingInterrupt)
        /\ Len(a \o <<p>>) = Len(a) + Len(<<p>>)
        /\ \A i \in 1..Len(a) + Len(<<p>>) : (a \o <<p>>)[i] =
             IF i <= Len(a) THEN a[i] ELSE <<p>>[i - Len(a)]
    BY <1>6, <1>8, ConcatProperties
  <2>2. \A i \in 1..k : ~ (i <= k - 1) => i - Len(a) = 1
    BY <1>4, <1>6, <1>1
  <2> QED
    BY <2>1, <2>2, <1>4, <1>6, <1>8, <1>1
<1> HIDE DEF ap
<1>10. /\ r \in Seq(PendingInterrupt) /\ Len(r) = Len(s) + 1
       /\ \A i \in 1..Len(s) + 1 : r[i] = IF i < k THEN s[i] ELSE IF i = k THEN p ELSE s[i - 1]
  <2>1. r = ap \o b
    BY <1>5 DEF ap, a, b
  <2>2. /\ ap \o b \in Seq(PendingInterrupt)
        /\ Len(ap \o b) = Len(ap) + Len(b)
        /\ \A i \in 1..Len(ap) + Len(b) : (ap \o b)[i] =
             IF i <= Len(ap) THEN ap[i] ELSE b[i - Len(ap)]
    BY <1>7, <1>9, ConcatProperties
  <2>3. r \in Seq(PendingInterrupt) /\ Len(r) = Len(s) + 1
    BY <2>1, <2>2, <1>7, <1>9, <1>4, <1>1
  <2>4. ASSUME NEW i \in 1..Len(s) + 1
        PROVE r[i] = IF i < k THEN s[i] ELSE IF i = k THEN p ELSE s[i - 1]
    <3>1. r[i] = IF i <= k THEN ap[i] ELSE b[i - k]
      BY <2>1, <2>2, <1>7, <1>9, <1>4, <1>1
    <3>2. CASE i <= k
      BY <3>1, <3>2, <1>9, <1>4, <1>1
    <3>3. CASE k < i
      <4>1. i - k \in 1..Len(s) - k + 1 /\ k + (i - k) - 1 = i - 1
        BY <3>3, <1>4, <1>1
      <4>2. b[i - k] = s[i - 1]
        BY <4>1, <1>7
      <4> QED
        BY <3>1, <3>3, <4>2, <1>4, <1>1
    <3> QED
      BY <3>2, <3>3, <1>4, <1>1
  <2> QED
    BY <2>3, <2>4
<1>11. Ordered(r)
  <2> SUFFICES ASSUME NEW i \in 1..Len(r), NEW j \in 1..Len(r), i < j
               PROVE Before(r[i], r[j])
    BY DEF Ordered
  <2>0. i \in 1..Len(s) + 1 /\ j \in 1..Len(s) + 1
    BY <1>10
  <2>1. CASE j < k
    <3>1. /\ i \in 1..Len(s) /\ j \in 1..Len(s)
          /\ r[i] = s[i] /\ r[j] = s[j]
      BY <2>0, <2>1, <1>10, <1>4, <1>1
    <3> QED
      BY <3>1 DEF Ordered
  <2>2. CASE j = k
    <3>1. r[j] = p /\ r[i] = s[i] /\ i \in 1..Len(s) /\ i < k
      BY <2>0, <2>2, <1>10, <1>4, <1>1
    <3> QED
      BY <3>1, <1>2, <1>4 DEF Before
  <2>3. CASE k < j
    <3>1. r[j] = s[j - 1] /\ j - 1 \in 1..Len(s) /\ k <= j - 1
      BY <2>0, <2>3, <1>10, <1>4, <1>1
    <3>2. CASE i < k
      <4>1. r[i] = s[i] /\ i \in 1..Len(s) /\ i < j - 1
        BY <2>0, <3>1, <3>2, <1>10, <1>4, <1>1
      <4> QED
        BY <3>1, <4>1 DEF Ordered
    <3>3. CASE i = k
      <4>1. r[i] = p
        BY <2>0, <3>3, <1>10, <1>4
      <4> QED
        BY <3>1, <4>1, <1>2, <1>4 DEF Before
    <3>4. CASE k < i
      <4>1. r[i] = s[i - 1] /\ i - 1 \in 1..Len(s) /\ i - 1 < j - 1
        BY <2>0, <3>1, <3>4, <1>10, <1>4, <1>1
      <4> QED
        BY <3>1, <4>1 DEF Ordered
    <3> QED
      BY <2>0, <3>2, <3>3, <3>4, <1>4
  <2> QED
    BY <2>0, <2>1, <2>2, <2>3, <1>4
<1>12. \A i \in 1..Len(r) : r[i] = p \/ \E j \in 1..Len(s) : r[i] = s[j]
  <2> SUFFICES ASSUME NEW i \in 1..Len(r)
               PROVE r[i] = p \/ \E j \in 1..Len(s) : r[i] = s[j]
    OBVIOUS
  <2>1. CASE i < k
    <3>1. i \in 1..Len(s) /\ r[i] = s[i]
      BY <2>1, <1>10, <1>4, <1>1
    <3> QED
      BY <3>1
  <2>2. CASE i = k
    BY <2>2, <1>10
  <2>3. CASE k < i
    <3>1. i - 1 \in 1..Len(s) /\ r[i] = s[i - 1]
      BY <2>3, <1>10, <1>4, <1>1
    <3> QED
      BY <3>1
  <2> QED
    BY <2>1, <2>2, <2>3, <1>4, <1>10
<1> QED
  BY <1>10, <1>11, <1>12 DEF r

-----------------------------------------------------------------------------
(* Facts of a state where Inv holds *)

LEMMA DelayPositive ==
  ASSUME NEW d \in Device, NEW n \in Delay[d]
  PROVE  n \in Nat \ {0}
BY InterruptsAssumption

LEMMA InvFacts ==
  ASSUME Inv
  PROVE  /\ Len(pending) \in Nat
         /\ \A i \in 1..Len(pending) : pending[i] \in PendingInterrupt
         /\ \A i \in 1..Len(pending) : pending[i].when \in Nat /\ pending[i].no \in Nat
         /\ fired.when \in Nat /\ fired.no \in Nat
         /\ at[current] \in At
<1>1. pending \in Seq(PendingInterrupt) /\ fired \in [when : Nat, no : Nat]
  BY DEF Inv, TimeConsistent, TypeOK
<1>2. Len(pending) \in Nat /\ \A i \in 1..Len(pending) : pending[i] \in PendingInterrupt
  BY <1>1, LenProperties, ElementOfSeq
<1>3. \A i \in 1..Len(pending) : pending[i].when \in Nat /\ pending[i].no \in Nat
  BY <1>2 DEF PendingInterrupt
<1> QED
  BY <1>1, <1>2, <1>3 DEF Inv, TimeConsistent, TypeOK

\* When the first interrupt is not due none is.
LEMMA FrontFirst ==
  ASSUME Inv, NEW now \in Nat, ~FrontDue(now)
  PROVE  \A i \in 1..Len(pending) : now < pending[i].when
<1> SUFFICES ASSUME NEW i \in 1..Len(pending) PROVE now < pending[i].when
  OBVIOUS
<1>1. pending \in Seq(PendingInterrupt) /\ pending # <<>>
  <2>1. pending \in Seq(PendingInterrupt)
    BY DEF Inv, TimeConsistent, TypeOK
  <2> QED
    BY <2>1, EmptySeq
<1>2. now < pending[1].when
  <2>1. Head(pending) = pending[1]
    BY <1>1
  <2> QED
    BY <2>1, <1>1, InvFacts DEF FrontDue
<1>3. i = 1 \/ Before(pending[1], pending[i])
  BY InvFacts DEF Inv, Ordered
<1> QED
  BY <1>2, <1>3, InvFacts DEF Before

\* What Schedule does to the list s it is given.
LEMMA ScheduleEffect ==
  ASSUME Inv,
         NEW s \in Seq(PendingInterrupt), Ordered(s),
         \A i \in 1..Len(s) : s[i].no <= scheduled,
         NEW d \in Device, NEW n \in Nat \ {0}, Schedule(d, n, s)
  PROVE  /\ pending' \in Seq(PendingInterrupt)
         /\ scheduled' \in Nat /\ scheduled' = scheduled + 1
         /\ Ordered(pending')
         /\ \A i \in 1..Len(pending') :
              \/ pending'[i].when = totalTicks + n /\ pending'[i].no = scheduled + 1
              \/ \E j \in 1..Len(s) : pending'[i] = s[j]
<1> DEFINE p == [device |-> d, when |-> totalTicks + n, no |-> scheduled + 1]
<1>1. totalTicks \in Nat /\ scheduled \in Nat
  BY DEF Inv, TimeConsistent, TypeOK
<1>2. p \in PendingInterrupt /\ p.when = totalTicks + n /\ p.no = scheduled + 1
  BY <1>1 DEF PendingInterrupt
<1>3. pending' = Insert(p, s) /\ scheduled' = scheduled + 1
  BY DEF Schedule
<1>4. \A i \in 1..Len(s) : s[i].no < p.no
  <2> SUFFICES ASSUME NEW i \in 1..Len(s) PROVE s[i].no < p.no
    OBVIOUS
  <2>1. s[i] \in PendingInterrupt
    BY ElementOfSeq
  <2>2. s[i].no \in Nat
    BY <2>1 DEF PendingInterrupt
  <2> QED
    BY <2>2, <1>1, <1>2
<1> HIDE DEF p
<1>5. /\ Insert(p, s) \in Seq(PendingInterrupt)
      /\ Ordered(Insert(p, s))
      /\ \A i \in 1..Len(Insert(p, s)) :
           Insert(p, s)[i] = p \/ \E j \in 1..Len(s) : Insert(p, s)[i] = s[j]
  BY <1>2, <1>4, InsertEffect
<1> QED
  BY <1>1, <1>2, <1>3, <1>5

\* The same, when s is what the step leaves of the list: the invariant's parts
\* about pending hold afterwards.
LEMMA SchedulePreserves ==
  ASSUME Inv,
         NEW s \in Seq(PendingInterrupt), Ordered(s),
         NEW d \in Device, NEW n \in Nat \ {0}, Schedule(d, n, s),
         fired' \in [when : Nat, no : Nat],
         fired'.when <= totalTicks, fired'.no <= scheduled,
         \A i \in 1..Len(s) : s[i].no <= scheduled /\ Before(fired', s[i]),
         UNCHANGED totalTicks
  PROVE  /\ pending' \in Seq(PendingInterrupt)
         /\ scheduled' \in Nat
         /\ Ordered(pending')
         /\ Numbered'
<1>1. totalTicks \in Nat /\ scheduled \in Nat /\ fired'.when \in Nat /\ fired'.no \in Nat
  BY DEF Inv, TimeConsistent, TypeOK
<1>2. /\ pending' \in Seq(PendingInterrupt)
      /\ scheduled' \in Nat /\ scheduled' = scheduled + 1
      /\ Ordered(pending')
      /\ \A i \in 1..Len(pending') :
           \/ pending'[i].when = totalTicks + n /\ pending'[i].no = scheduled + 1
           \/ \E j \in 1..Len(s) : pending'[i] = s[j]
  BY ScheduleEffect
<1>3. ASSUME NEW i \in 1..Len(pending')
      PROVE  pending'[i].no <= scheduled' /\ Before(fired', pending'[i])
  <2>1. CASE pending'[i].when = totalTicks + n /\ pending'[i].no = scheduled + 1
    BY <2>1, <1>1, <1>2 DEF Before
  <2>2. CASE \E j \in 1..Len(s) : pending'[i] = s[j]
    <3>1. PICK j \in 1..Len(s) : pending'[i] = s[j]
      BY <2>2
    <3>2. s[j].no \in Nat
      <4>1. s[j] \in PendingInterrupt
        BY ElementOfSeq
      <4> QED
        BY <4>1 DEF PendingInterrupt
    <3> QED
      BY <3>1, <3>2, <1>1, <1>2
  <2> QED
    BY <2>1, <2>2, <1>2
<1> QED
  BY <1>1, <1>2, <1>3 DEF Numbered

-----------------------------------------------------------------------------
(* One lemma per action *)

LEMMA StartPreserves ==
  ASSUME Inv, NEW d \in Device, NEW n \in Nat \ {0}, StartWithin(d, n)
  PROVE  Inv'
<1> USE DEF Inv, TimeConsistent
<1>1. /\ pending' \in Seq(PendingInterrupt) /\ scheduled' \in Nat
      /\ Ordered(pending') /\ Numbered'
  <2>1. \A i \in 1..Len(pending) : pending[i].no <= scheduled /\ Before(fired', pending[i])
    BY DEF Numbered, StartWithin
  <2>2. /\ fired' \in [when : Nat, no : Nat]
        /\ fired'.when <= totalTicks /\ fired'.no <= scheduled
    BY DEF StartWithin, Numbered, TypeOK
  <2> QED
    BY <2>1, <2>2, SchedulePreserves DEF StartWithin, clock, TypeOK
<1>2. TypeOK'
  BY <1>1 DEF StartWithin, TypeOK, clock
<1>3. NoneOverdue'
  <2>1. totalTicks \in Nat /\ ~inHandler
    BY DEF TypeOK, StartWithin, Running
  <2>2. \A i \in 1..Len(pending) : pending[i].no <= scheduled
    BY DEF Numbered
  <2>3. \A i \in 1..Len(pending') :
           \/ pending'[i].when = totalTicks + n /\ pending'[i].no = scheduled + 1
           \/ \E j \in 1..Len(pending) : pending'[i] = pending[j]
    BY <2>2, ScheduleEffect DEF StartWithin, TypeOK
  <2>4. \A j \in 1..Len(pending) : totalTicks < pending[j].when
    BY <2>1 DEF NoneOverdue
  <2> QED
    BY <2>1, <2>3, <2>4 DEF NoneOverdue, StartWithin, clock
<1>4. HandlersContained'
  BY DEF HandlersContained, StartWithin
<1>5. ClockAccounted'
  BY DEF ClockAccounted, StartWithin, clock
<1>6. IdleMode'
  BY DEF IdleMode, StartWithin
<1> QED
  BY <1>1, <1>2, <1>3, <1>4, <1>5, <1>6

\* A step that changes neither the clock nor the list, with nothing overdue.
LEMMA ListUnchanged ==
  ASSUME Inv, ~inHandler \/ inHandler',
         UNCHANGED <<pending, clock, scheduled, fired>>
  PROVE  NoneOverdue' /\ ClockAccounted' /\ Ordered(pending)' /\ Numbered'
BY DEF Inv, TimeConsistent, NoneOverdue, ClockAccounted, Ordered, Numbered, clock

LEMMA EnterUserPreserves ==
  ASSUME Inv, EnterUser PROVE Inv'
<1> USE DEF Inv, TimeConsistent
<1>1. NoneOverdue' /\ ClockAccounted' /\ Ordered(pending)' /\ Numbered'
  BY ListUnchanged DEF EnterUser, Running
<1>2. TypeOK'
  BY DEF EnterUser, TypeOK, clock
<1>3. HandlersContained' /\ IdleMode'
  BY DEF EnterUser, Running, Stands, HandlersContained, IdleMode
<1> QED
  BY <1>1, <1>2, <1>3

LEMMA TrapPreserves ==
  ASSUME Inv, Trap PROVE Inv'
<1> USE DEF Inv, TimeConsistent
<1>1. NoneOverdue' /\ ClockAccounted' /\ Ordered(pending)' /\ Numbered'
  BY ListUnchanged DEF Trap, Running
<1>2. TypeOK'
  BY DEF Trap, TypeOK, clock
<1>3. HandlersContained' /\ IdleMode'
  BY DEF Trap, Running, Stands, HandlersContained, IdleMode
<1> QED
  BY <1>1, <1>2, <1>3

LEMMA SetLevelOffPreserves ==
  ASSUME Inv, SetLevelOff PROVE Inv'
<1> USE DEF Inv, TimeConsistent
<1>1. NoneOverdue' /\ ClockAccounted' /\ Ordered(pending)' /\ Numbered'
  BY ListUnchanged DEF SetLevelOff, Running
<1>2. TypeOK'
  BY DEF SetLevelOff, TypeOK, clock
<1>3. HandlersContained' /\ IdleMode'
  BY DEF SetLevelOff, Running, Stands, HandlersContained, IdleMode
<1> QED
  BY <1>1, <1>2, <1>3

LEMMA SwitchToPreserves ==
  ASSUME Inv, NEW t \in Thread, SwitchTo(t) PROVE Inv'
<1> USE DEF Inv, TimeConsistent
<1>1. NoneOverdue' /\ ClockAccounted' /\ Ordered(pending)' /\ Numbered'
  BY ListUnchanged DEF SwitchTo
<1>2. TypeOK'
  BY DEF SwitchTo, TypeOK, clock
<1>3. HandlersContained' /\ IdleMode'
  BY DEF SwitchTo, Stands, HandlersContained, IdleMode
<1> QED
  BY <1>1, <1>2, <1>3

-----------------------------------------------------------------------------
(* OneTick *)

LEMMA CountTickEffect ==
  ASSUME Inv, CountTick
  PROVE  /\ totalTicks' \in Nat /\ idleTicks' \in Nat
         /\ systemTicks' \in Nat /\ userTicks' \in Nat
         /\ totalTicks <= totalTicks' /\ ClockAccounted'
<1>1. UserTick \in Nat /\ SystemTick \in Nat
  BY InterruptsAssumption
<1>2. /\ totalTicks \in Nat /\ idleTicks \in Nat /\ systemTicks \in Nat /\ userTicks \in Nat
      /\ ClockAccounted
  BY DEF Inv, TimeConsistent, TypeOK
<1> QED
  BY <1>1, <1>2 DEF CountTick, ClockAccounted

\* The last interrupt fired stays before those pending while the clock advances.
LEMMA ClockAdvance ==
  ASSUME Inv, totalTicks' \in Nat, totalTicks <= totalTicks',
         UNCHANGED <<pending, scheduled, fired>>
  PROVE  Ordered(pending)' /\ Numbered'
<1>1. totalTicks \in Nat /\ fired.when \in Nat
  BY InvFacts DEF Inv, TimeConsistent, TypeOK
<1>2. Ordered(pending) /\ Numbered
  BY DEF Inv
<1> QED
  BY <1>1, <1>2 DEF Ordered, Numbered, Before

\* What the return from OneTick does to the thread that runs.
LEMMA ReturnEffect ==
  ASSUME Inv, Return, status # "IdleMode", UNCHANGED <<current, yieldOnReturn>>,
         ~yieldOnReturn, ~inHandler'
  PROVE  /\ level' = "IntOn"
         /\ status' \in {"SystemMode", "UserMode"}
         /\ at' \in [Thread -> At]
         /\ frames' \in [Thread -> Seq({"SystemMode", "UserMode"})]
         /\ HandlersContained' /\ IdleMode'
<1>0. TypeOK /\ HandlersContained
  BY DEF Inv, TimeConsistent
<1>1. /\ current \in Thread /\ at \in [Thread -> At]
      /\ frames \in [Thread -> Seq({"SystemMode", "UserMode"})]
      /\ status \in {"SystemMode", "UserMode"}
  BY <1>0 DEF TypeOK
<1>2. frames[current] # <<>> => Head(frames[current]) \in {"SystemMode", "UserMode"}
  <2>1. frames[current] \in Seq({"SystemMode", "UserMode"})
    BY <1>1
  <2> QED
    BY <2>1, HeadTailProperties
<1>3. status' \in {"SystemMode", "UserMode"}
  BY <1>1, <1>2 DEF Return
<1>4. /\ at' \in [Thread -> At] /\ at'[current] = "code"
      /\ \A t \in Thread \ {current} : at'[t] = at[t]
  BY <1>1 DEF Return, GoTo, At
<1>5. /\ frames' \in [Thread -> Seq({"SystemMode", "UserMode"})] /\ frames'[current] = <<>>
      /\ \A t \in Thread \ {current} : frames'[t] = frames[t]
  <2>1. <<>> \in Seq({"SystemMode", "UserMode"})
    BY EmptySeq
  <2> QED
    BY <2>1, <1>1 DEF Return
<1>6. HandlersContained'
  BY <1>0, <1>1, <1>4, <1>5 DEF HandlersContained
<1>7. IdleMode'
  BY <1>3, <1>4 DEF IdleMode
<1> QED
  BY <1>3, <1>4, <1>5, <1>6, <1>7 DEF Return

LEMMA OneTickPreserves ==
  ASSUME Inv, OneTick, ~inHandler, at[current] \in {"code", "yield"}
  PROVE  Inv'
<1> USE DEF Inv, TimeConsistent
<1>1. CountTick /\ UNCHANGED <<yieldOnReturn, pending, current, scheduled, fired>>
  BY DEF OneTick
<1>2. /\ totalTicks' \in Nat /\ idleTicks' \in Nat
      /\ systemTicks' \in Nat /\ userTicks' \in Nat
      /\ totalTicks <= totalTicks' /\ ClockAccounted'
  BY <1>1, CountTickEffect
<1>3. Ordered(pending)' /\ Numbered'
  BY <1>1, <1>2, ClockAdvance
<1>4. ~yieldOnReturn /\ status # "IdleMode"
  BY DEF HandlersContained, IdleMode
<1>5. /\ current \in Thread /\ at \in [Thread -> At]
      /\ frames \in [Thread -> Seq({"SystemMode", "UserMode"})]
      /\ status \in {"SystemMode", "UserMode"}
  BY <1>4 DEF TypeOK
<1>6. CASE FrontDue(totalTicks')
  <2>1. level' = "IntOff" /\ inHandler' /\ UNCHANGED <<status, frames>> /\ inHandler' \in BOOLEAN
    BY <1>6 DEF OneTick
  <2>2. /\ at' \in [Thread -> At] /\ at'[current] = "tick"
        /\ \A t \in Thread \ {current} : at'[t] = at[t]
    BY <1>6, <1>5 DEF OneTick, GoTo, At
  <2>3. TypeOK'
    BY <1>1, <1>2, <2>1, <2>2 DEF TypeOK
  <2>4. HandlersContained'
    BY <1>1, <1>4, <1>5, <2>1, <2>2 DEF HandlersContained
  <2>5. NoneOverdue' /\ IdleMode'
    BY <1>1, <1>4, <2>1, <2>2 DEF NoneOverdue, IdleMode
  <2> QED
    BY <1>2, <1>3, <2>3, <2>4, <2>5
<1>7. CASE ~FrontDue(totalTicks')
  <2>1. Return /\ UNCHANGED inHandler
    BY <1>7 DEF OneTick
  <2>2. /\ level' = "IntOn"
        /\ status' \in {"SystemMode", "UserMode"}
        /\ at' \in [Thread -> At]
        /\ frames' \in [Thread -> Seq({"SystemMode", "UserMode"})]
        /\ HandlersContained' /\ IdleMode'
    BY <2>1, <1>1, <1>4, ReturnEffect
  <2>3. TypeOK'
    BY <1>1, <1>2, <2>1, <2>2 DEF TypeOK
  <2>4. NoneOverdue'
    BY <1>1, <1>2, <1>7, FrontFirst DEF NoneOverdue
  <2> QED
    BY <1>2, <1>3, <2>2, <2>3, <2>4
<1> QED
  BY <1>6, <1>7

LEMMA TickEndPreserves ==
  ASSUME Inv, TickEnd PROVE Inv'
<1> USE DEF Inv, TimeConsistent
<1>1. /\ UNCHANGED <<pending, clock, current, scheduled, fired>>
      /\ inHandler /\ ~FrontDue(totalTicks) /\ inHandler' = FALSE /\ at[current] = "tick"
  BY DEF TickEnd, Stands
<1>2. status # "IdleMode" /\ level = "IntOff" /\ totalTicks \in Nat
  BY <1>1 DEF IdleMode, HandlersContained, TypeOK
<1>3. Ordered(pending)' /\ Numbered' /\ ClockAccounted'
  BY <1>1 DEF Ordered, Numbered, ClockAccounted, clock
<1>4. NoneOverdue'
  BY <1>1, <1>2, FrontFirst DEF NoneOverdue, clock
<1>5. /\ current \in Thread /\ at \in [Thread -> At]
      /\ frames \in [Thread -> Seq({"SystemMode", "UserMode"})]
      /\ status \in {"SystemMode", "UserMode"}
  BY <1>2 DEF TypeOK
<1>6. CASE yieldOnReturn
  <2>1. /\ yieldOnReturn' = FALSE /\ status' = "SystemMode" /\ UNCHANGED level
        /\ frames' = [frames EXCEPT ![current] = Append(@, status)]
    BY <1>6 DEF TickEnd
  <2>2. /\ at' \in [Thread -> At] /\ at'[current] = "yield"
        /\ \A t \in Thread \ {current} : at'[t] = at[t]
    BY <1>6, <1>5 DEF TickEnd, GoTo, At
  <2>3. Append(frames[current], status) \in Seq({"SystemMode", "UserMode"})
    BY <1>5, AppendProperties
  <2>4. /\ frames' \in [Thread -> Seq({"SystemMode", "UserMode"})]
        /\ \A t \in Thread \ {current} : frames'[t] = frames[t]
    BY <2>1, <2>3, <1>5
  <2>5. TypeOK'
    BY <1>1, <1>2, <2>1, <2>2, <2>4 DEF TypeOK, clock
  <2>6. HandlersContained'
    BY <1>1, <1>2, <1>5, <2>1, <2>2, <2>4 DEF HandlersContained
  <2>7. IdleMode'
    BY <1>1, <2>1, <2>2 DEF IdleMode
  <2> QED
    BY <1>3, <1>4, <2>5, <2>6, <2>7
<1>7. CASE ~yieldOnReturn
  <2>1. Return /\ UNCHANGED yieldOnReturn
    BY <1>7 DEF TickEnd
  <2>2. /\ level' = "IntOn"
        /\ status' \in {"SystemMode", "UserMode"}
        /\ at' \in [Thread -> At]
        /\ frames' \in [Thread -> Seq({"SystemMode", "UserMode"})]
        /\ HandlersContained' /\ IdleMode'
    BY <2>1, <1>1, <1>2, <1>7, ReturnEffect
  <2>3. TypeOK'
    BY <1>1, <2>1, <2>2 DEF TypeOK, clock
  <2> QED
    BY <1>3, <1>4, <2>2, <2>3
<1> QED
  BY <1>6, <1>7

-----------------------------------------------------------------------------
(* Idle and the handlers *)

LEMMA IdlePreserves ==
  ASSUME Inv, Idle PROVE Inv'
<1> USE DEF Inv, TimeConsistent
<1>1. /\ UNCHANGED <<level, yieldOnReturn, pending, systemTicks, userTicks, current,
                     frames, scheduled, fired>>
      /\ level = "IntOff" /\ ~inHandler /\ at[current] = "code" /\ status' = "IdleMode"
  BY DEF Idle, Running, Stands
<1>2. /\ ~yieldOnReturn
      /\ totalTicks \in Nat /\ idleTicks \in Nat /\ systemTicks \in Nat /\ userTicks \in Nat
      /\ totalTicks = idleTicks + systemTicks + userTicks
  BY <1>1 DEF HandlersContained, TypeOK, ClockAccounted
<1>3. /\ totalTicks' \in Nat /\ idleTicks' \in Nat /\ totalTicks <= totalTicks'
      /\ ClockAccounted'
  <2>1. CASE pending = <<>>
    BY <2>1, <1>1, <1>2 DEF Idle, ClockAccounted
  <2>2. CASE pending # <<>>
    <3>1. Head(pending) \in PendingInterrupt
      BY <2>2, HeadTailProperties DEF TypeOK
    <3>2. Head(pending).when \in Nat
      BY <3>1 DEF PendingInterrupt
    <3>3. IF Head(pending).when > totalTicks
          THEN /\ idleTicks' = idleTicks + (Head(pending).when - totalTicks)
               /\ totalTicks' = Head(pending).when
          ELSE UNCHANGED <<idleTicks, totalTicks>>
      BY <2>2 DEF Idle
    <3> QED
      BY <3>2, <3>3, <1>1, <1>2 DEF ClockAccounted
  <2> QED
    BY <2>1, <2>2
<1>4. Ordered(pending)' /\ Numbered'
  BY <1>1, <1>3, ClockAdvance
<1>5. /\ current \in Thread /\ at \in [Thread -> At]
      /\ at' \in [Thread -> At]
      /\ \A t \in Thread \ {current} : at'[t] = at[t]
      /\ \/ at'[current] = "halt" /\ inHandler' = FALSE /\ pending' = <<>>
         \/ at'[current] = "idle" /\ inHandler' = TRUE
  BY <1>1 DEF Idle, GoTo, At, TypeOK
<1>6. TypeOK'
  BY <1>1, <1>2, <1>3, <1>5 DEF TypeOK
<1>7. NoneOverdue'
  <2>1. pending' = <<>> => Len(pending') = 0
    BY EmptySeq
  <2> QED
    BY <2>1, <1>5 DEF NoneOverdue
<1>8. HandlersContained'
  BY <1>1, <1>2, <1>5 DEF HandlersContained
<1>9. IdleMode'
  BY <1>1, <1>5 DEF IdleMode
<1> QED
  BY <1>3, <1>4, <1>6, <1>7, <1>8, <1>9

LEMMA IdleEndPreserves ==
  ASSUME Inv, IdleEnd PROVE Inv'
<1> USE DEF Inv, TimeConsistent
<1>1. /\ UNCHANGED <<level, yieldOnReturn, pending, clock, current, frames, scheduled, fired>>
      /\ inHandler /\ ~FrontDue(totalTicks) /\ inHandler' = FALSE
      /\ status' = "SystemMode" /\ at[current] = "idle"
  BY DEF IdleEnd, Stands
<1>2. ~yieldOnReturn /\ totalTicks \in Nat
  BY <1>1 DEF HandlersContained, TypeOK
<1>3. Ordered(pending)' /\ Numbered' /\ ClockAccounted'
  BY <1>1 DEF Ordered, Numbered, ClockAccounted, clock
<1>4. NoneOverdue'
  BY <1>1, <1>2, FrontFirst DEF NoneOverdue, clock
<1>5. /\ current \in Thread /\ at \in [Thread -> At]
      /\ at' \in [Thread -> At] /\ at'[current] = "code"
      /\ \A t \in Thread \ {current} : at'[t] = at[t]
  BY DEF IdleEnd, GoTo, At, TypeOK
<1>6. TypeOK'
  BY <1>1, <1>5 DEF TypeOK, clock
<1>7. HandlersContained' /\ IdleMode'
  BY <1>1, <1>2, <1>5 DEF HandlersContained, IdleMode
<1> QED
  BY <1>3, <1>4, <1>6, <1>7

\* The first interrupt is taken off the list: what is left, and what was fired.
LEMMA FireEffect ==
  ASSUME Inv, Fire
  PROVE  /\ fired' \in [when : Nat, no : Nat]
         /\ fired'.when <= totalTicks /\ fired'.no <= scheduled
         /\ Before(fired, fired')
         /\ Head(pending).device \in Device
         /\ Tail(pending) \in Seq(PendingInterrupt)
         /\ Ordered(Tail(pending))
         /\ \A i \in 1..Len(Tail(pending)) :
              Tail(pending)[i].no <= scheduled /\ Before(fired', Tail(pending)[i])
<1>1. pending \in Seq(PendingInterrupt) /\ pending # <<>> /\ Len(pending) \in Nat
  BY InvFacts DEF Inv, TimeConsistent, TypeOK, Fire, FrontDue
<1>2. /\ Head(pending) \in PendingInterrupt /\ Head(pending) = pending[1]
      /\ Tail(pending) \in Seq(PendingInterrupt)
      /\ Len(Tail(pending)) = Len(pending) - 1
      /\ \A i \in 1..Len(Tail(pending)) : Tail(pending)[i] = pending[i + 1]
      /\ 1 \in 1..Len(pending)
  BY <1>1, HeadTailProperties, EmptySeq
<1>3. /\ pending[1].when \in Nat /\ pending[1].no \in Nat /\ pending[1].device \in Device
      /\ pending[1].when <= totalTicks
      /\ fired' = [when |-> pending[1].when, no |-> pending[1].no]
  BY <1>2 DEF Fire, FrontDue, PendingInterrupt
<1>4. pending[1].no <= scheduled /\ Before(fired, pending[1])
  BY <1>2 DEF Inv, Numbered
<1>5. Ordered(Tail(pending))
  <2> SUFFICES ASSUME NEW i \in 1..Len(Tail(pending)), NEW j \in 1..Len(Tail(pending)), i < j
               PROVE  Before(Tail(pending)[i], Tail(pending)[j])
    BY DEF Ordered
  <2>1. i + 1 \in 1..Len(pending) /\ j + 1 \in 1..Len(pending) /\ i + 1 < j + 1
    BY <1>1, <1>2
  <2>2. Before(pending[i + 1], pending[j + 1])
    BY <2>1 DEF Inv, Ordered
  <2> QED
    BY <2>2, <1>2
<1>6. ASSUME NEW i \in 1..Len(Tail(pending))
      PROVE  Tail(pending)[i].no <= scheduled /\ Before(fired', Tail(pending)[i])
  <2>1. i + 1 \in 1..Len(pending) /\ 1 < i + 1
    BY <1>1, <1>2
  <2>2. Before(pending[1], pending[i + 1]) /\ pending[i + 1].no <= scheduled
    BY <2>1, <1>2 DEF Inv, Ordered, Numbered
  <2> QED
    BY <2>2, <1>2, <1>3 DEF Before
<1> QED
  BY <1>2, <1>3, <1>4, <1>5, <1>6 DEF Before

LEMMA FirePreserves ==
  ASSUME Inv, Fire PROVE Inv'
<1> USE DEF Inv, TimeConsistent
<1>1. /\ UNCHANGED <<level, inHandler, status, clock, current, at, frames>>
      /\ inHandler
      /\ IF Head(pending).device = Timer THEN AlarmCallBack ELSE UNCHANGED yieldOnReturn
  BY DEF Fire
<1>2. /\ fired' \in [when : Nat, no : Nat]
      /\ fired'.when <= totalTicks /\ fired'.no <= scheduled
      /\ Head(pending).device \in Device
      /\ Tail(pending) \in Seq(PendingInterrupt)
      /\ Ordered(Tail(pending))
      /\ \A i \in 1..Len(Tail(pending)) :
           Tail(pending)[i].no <= scheduled /\ Before(fired', Tail(pending)[i])
  BY FireEffect
<1>3. UNCHANGED totalTicks /\ totalTicks \in Nat /\ scheduled \in Nat
  BY <1>1 DEF clock, TypeOK
<1>4. /\ pending' \in Seq(PendingInterrupt) /\ scheduled' \in Nat
      /\ Ordered(pending') /\ Numbered'
  <2>1. CASE Head(pending).device \in Polling \cup {Timer}
    <3>1. PICK n \in Delay[Head(pending).device] :
                 Schedule(Head(pending).device, n, Tail(pending))
      BY <2>1 DEF Fire
    <3>2. n \in Nat \ {0}
      BY <1>2, DelayPositive
    <3> QED
      BY <3>1, <3>2, <1>2, <1>3, SchedulePreserves
  <2>2. CASE Head(pending).device \notin Polling \cup {Timer}
    <3>1. pending' = Tail(pending) /\ UNCHANGED scheduled
      BY <2>2 DEF Fire
    <3> QED
      BY <3>1, <1>2, <1>3 DEF Numbered
  <2> QED
    BY <2>1, <2>2
<1>5. /\ yieldOnReturn' \in BOOLEAN
      /\ yieldOnReturn' => yieldOnReturn \/ status # "IdleMode"
  BY <1>1 DEF AlarmCallBack, TypeOK
<1>6. TypeOK'
  BY <1>1, <1>2, <1>4, <1>5 DEF TypeOK, clock
<1>7. HandlersContained'
  BY <1>1, <1>5 DEF HandlersContained, IdleMode
<1>8. NoneOverdue' /\ IdleMode' /\ ClockAccounted'
  BY <1>1 DEF NoneOverdue, IdleMode, ClockAccounted, clock
<1> QED
  BY <1>4, <1>6, <1>7, <1>8

-----------------------------------------------------------------------------
(* The theorems *)

\* A start with any delay: those of StartDevice and of the disk's requests.
AnyStart == \E d \in Device : \E n \in Nat \ {0} : StartWithin(d, n)

LEMMA InvStep == Inv /\ [Step \/ AnyStart]_vars => Inv'
<1> SUFFICES ASSUME Inv, [Step \/ AnyStart]_vars PROVE Inv'
  OBVIOUS
<1>1. CASE AnyStart
  BY <1>1, StartPreserves DEF AnyStart
<1>2. CASE EnterUser
  BY <1>2, EnterUserPreserves
<1>3. CASE Trap
  BY <1>3, TrapPreserves
<1>4. CASE SetLevelOff
  BY <1>4, SetLevelOffPreserves
<1>5. CASE Instruction \/ SetLevelOn
  <2>1. OneTick /\ ~inHandler /\ at[current] = "code"
    BY <1>5 DEF Instruction, SetLevelOn, Running, Stands
  <2> QED
    BY <2>1, OneTickPreserves
<1>6. CASE YieldReturns
  <2>1. OneTick /\ ~inHandler /\ at[current] = "yield"
    BY <1>6 DEF YieldReturns, Stands, Inv, TimeConsistent, HandlersContained
  <2> QED
    BY <2>1, OneTickPreserves
<1>7. CASE TickEnd
  BY <1>7, TickEndPreserves
<1>8. CASE Idle
  BY <1>8, IdlePreserves
<1>9. CASE IdleEnd
  BY <1>9, IdleEndPreserves
<1>10. CASE Fire
  BY <1>10, FirePreserves
<1>11. CASE \E t \in Thread : SwitchTo(t)
  BY <1>11, SwitchToPreserves
<1>12. CASE UNCHANGED vars
  BY <1>12 DEF vars, clock, Inv, TimeConsistent, TypeOK, NoneOverdue, HandlersContained,
               ClockAccounted, IdleMode, Ordered, Numbered
<1> QED
  BY <1>1, <1>2, <1>3, <1>4, <1>5, <1>6, <1>7, <1>8, <1>9, <1>10, <1>11, <1>12 DEF Step

LEMMA NextStarts == Next => Step \/ AnyStart
<1> SUFFICES ASSUME NEW d \in Device, StartDevice(d) PROVE AnyStart
  BY DEF Next
<1> QED
  BY DelayPositive DEF StartDevice, AnyStart

(***************************************************************************)
(* Between any two steps, and however the OneTicks of several threads nest *)
(* in each other, nothing is overdue outside the handlers, a handler's     *)
(* wish for a context switch is met by the OneTick it ran in, and every    *)
(* tick is counted once (machine/interrupt.cc).                            *)
(***************************************************************************)
THEOREM TimeIsConsistent == Spec => []TimeConsistent
<1>1. Inv /\ [Next]_vars => Inv'
  BY InvStep, NextStarts
<1>2. Inv => TimeConsistent
  BY DEF Inv
<1> QED
  BY InvInit, <1>1, <1>2, PTL DEF Spec

LEMMA StepFires == Inv /\ [Step \/ AnyStart]_vars /\ fired' # fired
                     => fired'.when <= totalTicks /\ Before(fired, fired')
<1> SUFFICES ASSUME Inv, [Step \/ AnyStart]_vars, fired' # fired
             PROVE  fired'.when <= totalTicks /\ Before(fired, fired')
  OBVIOUS
<1>1. Fire
  BY DEF vars, Step, AnyStart, StartWithin, EnterUser, Trap, SetLevelOff, Instruction,
         SetLevelOn, YieldReturns, OneTick, TickEnd, Idle, IdleEnd, SwitchTo
<1> QED
  BY <1>1, FireEffect

(***************************************************************************)
(* No interrupt comes early, before one that is due earlier, before one of *)
(* the same time that was scheduled first, or twice: whatever handlers     *)
(* schedule while CheckIfDue's loop runs (machine/interrupt.cc:321).       *)
(***************************************************************************)
THEOREM InterruptsInOrder == Spec => FiredInOrder
<1>1. Inv /\ [Next]_vars => Inv'
  BY InvStep, NextStarts
<1>2. Inv /\ [Next]_vars
        => [fired' # fired =>
              /\ fired'.when <= totalTicks
              /\ \/ fired.when < fired'.when
                 \/ fired.when = fired'.when /\ fired.no < fired'.no]_vars
  BY StepFires, NextStarts DEF Before
<1> QED
  BY InvInit, <1>1, <1>2, PTL DEF Spec, FiredInOrder

-----------------------------------------------------------------------------
(* The disk *)

LEMMA Arithmetic ==
  /\ \A a, b \in Nat : a * b \in Nat
  /\ \A a \in Nat, b \in Nat \ {0} : a \div b \in Nat /\ a % b \in Nat /\ a % b < b
  /\ \A a \in Int, b \in Nat \ {0} : a % b \in Nat
OBVIOUS

LEMMA RotationType ==
  ASSUME DiskTypeOK, totalTicks \in Nat, NEW s \in Sectors
  PROVE  SeekTicks(s) \in Nat /\ Rotation(s) \in Nat /\ TimeAfter(s) \in Nat
<1>1. /\ SectorsPerTrack \in Nat \ {0} /\ SeekTime \in Nat /\ RotationTime \in Nat \ {0}
      /\ s \in Nat /\ lastSector \in Nat
  BY DiskAssumption DEF DiskTypeOK, Sectors
<1>2. Track(s) \in Nat /\ Track(lastSector) \in Nat
  BY <1>1, Arithmetic DEF Track
<1>3. Abs(Track(s) - Track(lastSector)) \in Nat
  BY <1>2 DEF Abs
<1>4. SeekTicks(s) \in Nat
  BY <1>1, <1>3, Arithmetic DEF SeekTicks
<1>5. Rotation(s) \in Nat
  <2> DEFINE over == (totalTicks + SeekTicks(s)) % RotationTime
  <2>1. totalTicks + SeekTicks(s) \in Nat
    BY <1>4
  <2>2. over \in Nat /\ over < RotationTime
    BY <2>1, <1>1, Arithmetic
  <2>3. Rotation(s) = IF over > 0 THEN RotationTime - over ELSE 0
    BY DEF Rotation
  <2> HIDE DEF over
  <2> QED
    BY <2>2, <2>3, <1>1
<1> QED
  BY <1>4, <1>5 DEF TimeAfter

\* A request takes some time: its interrupt is never due at once.
LEMMA LatencyPositive ==
  ASSUME DiskTypeOK, totalTicks \in Nat, NEW s \in Sectors, NEW writing \in BOOLEAN
  PROVE  ComputeLatency(s, writing) \in Nat \ {0}
<1>1. RotationTime \in Nat \ {0} /\ SectorsPerTrack \in Nat \ {0}
  BY DiskAssumption
<1>2. SeekTicks(s) \in Nat /\ Rotation(s) \in Nat /\ TimeAfter(s) \in Nat
  BY RotationType
<1>3. CASE InTrackBuffer(s, writing)
  BY <1>1, <1>3 DEF ComputeLatency
<1>4. CASE ~InTrackBuffer(s, writing)
  <2> DEFINE slot == TimeAfter(s) \div RotationTime
             distance == ModuloDiff(s, slot)
  <2>1. slot \in Nat /\ s \in Nat
    BY <1>1, <1>2, Arithmetic DEF Sectors
  <2>2. s % SectorsPerTrack \in Nat /\ slot % SectorsPerTrack \in Nat
    BY <1>1, <2>1, Arithmetic
  <2>3. (s % SectorsPerTrack) - (slot % SectorsPerTrack) + SectorsPerTrack \in Int
    BY <1>1, <2>2
  <2>4. distance \in Nat
    BY <1>1, <2>3, Arithmetic DEF ModuloDiff
  <2>5. ComputeLatency(s, writing)
          = SeekTicks(s) + Rotation(s) + distance * RotationTime + RotationTime
    BY <1>4 DEF ComputeLatency
  <2> HIDE DEF distance
  <2>6. distance * RotationTime \in Nat
    BY <1>1, <2>4, Arithmetic
  <2> QED
    BY <1>1, <1>2, <2>5, <2>6
<1> QED
  BY <1>3, <1>4

LEMMA DiskStep ==
  Inv /\ DiskTypeOK /\ [DiskNext]_<<vars, diskVars>>
    => DiskTypeOK' /\ [Step \/ AnyStart]_vars
<1> SUFFICES ASSUME Inv, DiskTypeOK, [DiskNext]_<<vars, diskVars>>
             PROVE  DiskTypeOK' /\ [Step \/ AnyStart]_vars
  OBVIOUS
<1>1. totalTicks \in Nat /\ Disk \in Device
  BY DiskAssumption DEF Inv, TimeConsistent, TypeOK
<1>2. ASSUME NEW s \in Sectors, NEW writing \in BOOLEAN, DiskRequest(s, writing)
      PROVE  DiskTypeOK' /\ AnyStart
  <2>1. ComputeLatency(s, writing) \in Nat \ {0}
    BY <1>1, LatencyPositive
  <2>2. SeekTicks(s) \in Nat /\ TimeAfter(s) \in Nat
    BY <1>1, RotationType
  <2>3. AnyStart
    BY <1>1, <1>2, <2>1 DEF DiskRequest, AnyStart
  <2>4. lastSector' \in Sectors /\ bufferInit' \in Nat
    BY <1>2, <2>2 DEF DiskRequest, UpdateLast, DiskTypeOK
  <2>5. request' \in Request
    <3>1. InTrackBuffer(s, writing) \in BOOLEAN
      BY Zenon DEF InTrackBuffer
    <3>2. totalTicks + ComputeLatency(s, writing) \in Nat /\ bufferInit \in Nat
      BY <1>1, <2>1 DEF DiskTypeOK
    <3>3. request' = [sector |-> s, asked |-> totalTicks, seek |-> SeekTicks(s),
                      buffered |-> InTrackBuffer(s, writing), since |-> bufferInit,
                      done |-> totalTicks + ComputeLatency(s, writing)]
      BY <1>2 DEF DiskRequest
    <3> QED
      BY <1>1, <2>2, <3>1, <3>2, <3>3 DEF Request
  <2> QED
    BY <2>3, <2>4, <2>5 DEF DiskTypeOK
<1>3. CASE (Step \/ \E d \in Device \ {Disk} : StartDevice(d)) /\ UNCHANGED diskVars
  <2>1. Step \/ AnyStart
    BY <1>3, NextStarts DEF Next
  <2>2. DiskTypeOK'
    BY <1>3 DEF diskVars, DiskTypeOK
  <2> QED
    BY <2>1, <2>2
<1>4. CASE UNCHANGED <<vars, diskVars>>
  BY <1>4 DEF diskVars, DiskTypeOK
<1> QED
  BY <1>2, <1>3, <1>4 DEF DiskNext

LEMMA DiskInvInit == DiskInit => Inv /\ DiskTypeOK
<1> SUFFICES ASSUME DiskInit PROVE Inv /\ DiskTypeOK
  OBVIOUS
<1>1. Inv
  BY InvInit DEF DiskInit
<1>2. DiskTypeOK
  BY DiskAssumption DEF DiskInit, DiskTypeOK, Request, Sectors
<1> QED
  BY <1>1, <1>2

(***************************************************************************)
(* The same of the machine whose disk computes its own delays              *)
(* (machine/disk.cc, ComputeLatency): they are always positive, and time   *)
(* stays consistent.                                                       *)
(***************************************************************************)
THEOREM DiskTimeIsConsistent == DiskSpec => []TimeConsistent
<1>1. Inv /\ DiskTypeOK /\ [DiskNext]_<<vars, diskVars>> => (Inv /\ DiskTypeOK)'
  BY DiskStep, InvStep
<1>2. Inv => TimeConsistent
  BY DEF Inv
<1> QED
  BY DiskInvInit, <1>1, <1>2, PTL DEF DiskSpec

\* And its interrupts come in order, among those of the other devices.
THEOREM DiskInterruptsInOrder == DiskSpec => FiredInOrder
<1>1. Inv /\ DiskTypeOK /\ [DiskNext]_<<vars, diskVars>> => (Inv /\ DiskTypeOK)'
  BY DiskStep, InvStep
<1>2. Inv /\ DiskTypeOK /\ [DiskNext]_<<vars, diskVars>>
        => [fired' # fired =>
              /\ fired'.when <= totalTicks
              /\ \/ fired.when < fired'.when
                 \/ fired.when = fired'.when /\ fired.no < fired'.no]_vars
  BY DiskStep, StepFires DEF Before
<1> QED
  BY DiskInvInit, <1>1, <1>2, PTL DEF DiskSpec, FiredInOrder

-----------------------------------------------------------------------------
(* The sector has passed *)

LEMMA Divides ==
  ASSUME NEW n \in Int, NEW b \in Nat \ {0}
  PROVE  n \div b \in Int /\ n % b \in 0 .. (b - 1) /\ n = b * (n \div b) + (n % b)
OBVIOUS

LEMMA Product ==
  ASSUME NEW b \in Nat \ {0}, NEW x \in Int
  PROVE  /\ b * x \in Int /\ b * (x + 1) = b * x + b /\ b * x = x * b
         /\ x >= 0 => b * x >= 0
         /\ x >= 1 => b * x >= b
         /\ x <= -1 => b * x <= -b
OBVIOUS

LEMMA Order ==
  ASSUME NEW b \in Nat \ {0}, NEW x \in Int, NEW y \in Int
  PROVE  /\ x <= y <=> b * x <= b * y
         /\ (b * x < b * y + b) => x <= y
         /\ b * (x + y) = b * x + b * y
         /\ b * (x - y) = b * x - b * y
<1>1. /\ b * (x - y) = b * x - b * y /\ b * (x + y) = b * x + b * y
      /\ b * x \in Int /\ b * y \in Int
  OBVIOUS
<1>2. /\ x - y >= 1 => b * (x - y) >= b
      /\ x - y <= -1 => b * (x - y) <= -b
  <2>1. x - y \in Int
    OBVIOUS
  <2> QED
    BY <2>1, Product
<1> DEFINE bx == b * x
           by == b * y
           bd == b * (x - y)
<1>3. /\ bd = bx - by /\ bx \in Int /\ by \in Int
      /\ x - y >= 1 => bd >= b
      /\ x - y <= -1 => bd <= -b
      /\ x - y = 0 => bx = by
  BY <1>1, <1>2
<1> HIDE DEF bx, by, bd
<1>4. (x <= y <=> bx <= by) /\ (bx < by + b => x <= y)
  BY <1>3
<1> QED
  BY <1>1, <1>4 DEF bx, by

LEMMA QuotientIs ==
  ASSUME NEW b \in Nat \ {0}, NEW q \in Int, NEW r \in 0 .. (b - 1)
  PROVE  (b * q + r) \div b = q /\ (b * q + r) % b = r
<1> DEFINE n == b * q + r
           d == n \div b
           m == n % b
<1>1. b * q \in Int /\ n \in Int
  BY Product
<1>2. d \in Int /\ m \in 0 .. (b - 1) /\ n = b * d + m
  BY <1>1, Divides
<1> HIDE DEF d, m
<1>3. b * d \in Int
  BY <1>2, Product
<1>4. b * q + r = b * d + m
  BY <1>2
<1> HIDE DEF n
<1>5. b * q < b * d + b /\ b * d < b * q + b
  <2> DEFINE x == b * q
             y == b * d
  <2>1. x \in Int /\ y \in Int /\ x + r = y + m
    BY <1>1, <1>3, <1>4
  <2> HIDE DEF x, y
  <2>2. x < y + b /\ y < x + b
    BY <1>2, <2>1
  <2> QED
    BY <2>2 DEF x, y
<1>6. q <= d /\ d <= q
  BY <1>2, <1>5, Order
<1>7. q = d
  BY <1>2, <1>6
<1>8. r = m
  BY <1>1, <1>2, <1>4, <1>7
<1> QED
  BY <1>7, <1>8 DEF d, m, n

\* From a slot on, the sector passes first after ModuloDiff slots.
LEMMA FirstPass ==
  ASSUME NEW s \in Nat, NEW slot \in Nat
  PROVE  LET d == ModuloDiff(s, slot)
         IN /\ d \in Nat /\ Passes(s, slot + d)
            /\ \A k \in Int : slot <= k /\ k < slot + d => ~Passes(s, k)
<1> DEFINE S == SectorsPerTrack
           a == s % S
           c == slot % S
           j == slot \div S
           d == ModuloDiff(s, slot)
<1>1. S \in Nat \ {0}
  BY DiskAssumption
<1>2. /\ a \in 0 .. (S - 1) /\ c \in 0 .. (S - 1)
      /\ j \in Int /\ slot = S * j + c /\ S * j \in Int
  BY <1>1, Divides, Product
<1>3. d = (a - c + S) % S
  BY DEF ModuloDiff
<1> HIDE DEF S, a, c, j, d
<1>4. /\ c <= a => d = a - c
      /\ a < c => d = a - c + S
  <2>1. ASSUME c <= a PROVE d = a - c
    <3>1. a - c \in 0 .. (S - 1)
      BY <1>1, <1>2, <2>1
    <3> DEFINE q == 1
    <3>2. q \in Int /\ S * q = S
      BY <1>1
    <3> HIDE DEF q
    <3>3. (S * q + (a - c)) % S = a - c
      BY <1>1, <3>1, <3>2, QuotientIs
    <3>4. S * q + (a - c) = a - c + S
      BY <1>1, <1>2, <3>2
    <3> QED
      BY <1>3, <3>3, <3>4
  <2>2. ASSUME a < c PROVE d = a - c + S
    <3>1. a - c + S \in 0 .. (S - 1)
      BY <1>1, <1>2, <2>2
    <3>2. (S * 0 + (a - c + S)) % S = a - c + S
      BY <1>1, <3>1, QuotientIs
    <3>3. S * 0 + (a - c + S) = a - c + S
      BY <1>1, <3>1
    <3> QED
      BY <1>3, <3>2, <3>3
  <2> QED
    BY <2>1, <2>2
<1>5. d \in Nat /\ d < S
  BY <1>1, <1>2, <1>4
\* The pass falls in turn q of the disk, at the sector's place.
<1>6. PICK q \in Int : slot + d = S * q + a
  <2>1. CASE c <= a
    BY <1>1, <1>2, <1>4, <2>1
  <2>2. CASE a < c
    <3>1. S * (j + 1) = S * j + S /\ j + 1 \in Int
      BY <1>1, <1>2, Product
    <3>2. slot + d = S * (j + 1) + a
      BY <1>1, <1>2, <1>4, <2>2, <3>1
    <3> QED
      BY <3>1, <3>2
  <2> QED
    BY <1>2, <2>1, <2>2
<1>7. (slot + d) % S = a
  BY <1>1, <1>2, <1>6, QuotientIs
<1>8. ASSUME NEW k \in Int, slot <= k, k < slot + d, k % S = a PROVE FALSE
  <2> DEFINE e == k \div S
  <2>1. e \in Int /\ k = S * e + a /\ S * e \in Int
    BY <1>1, <1>8, Divides, Product
  <2>2. S * q \in Int
    BY <1>1, <1>6, Product
  <2> HIDE DEF e
  <2>3. S * e < S * q /\ S * q < S * e + S
    <3> DEFINE x == S * e
               y == S * q
    <3>1. x \in Int /\ y \in Int /\ k = x + a /\ slot + d = y + a
      BY <1>6, <2>1, <2>2
    <3> HIDE DEF x, y
    <3>2. x < y /\ y < x + S
      BY <1>1, <1>2, <1>5, <1>8, <3>1
    <3> QED
      BY <3>2 DEF x, y
  <2>4. q <= e
    BY <1>1, <1>6, <2>1, <2>3, Order
  <2>5. S * q <= S * e
    BY <1>1, <1>6, <2>1, <2>4, Order
  <2> QED
    BY <2>1, <2>2, <2>3, <2>5
<1> QED
  BY <1>5, <1>7, <1>8 DEF d, Passes, S, a

\* The head is on the track of s, at the start of a slot, no later than it
\* has to be.
LEMMA SlotBegins ==
  ASSUME DiskTypeOK, totalTicks \in Nat, NEW s \in Sectors
  PROVE  \E slot \in Nat :
           /\ TimeAfter(s) = RotationTime * slot /\ TimeAfter(s) \div RotationTime = slot
           /\ totalTicks + SeekTicks(s) <= TimeAfter(s)
           /\ TimeAfter(s) < totalTicks + SeekTicks(s) + RotationTime
<1> DEFINE T == RotationTime
           n == totalTicks + SeekTicks(s)
           q == n \div T
           over == n % T
<1>1. SeekTicks(s) \in Nat /\ T \in Nat \ {0}
  BY RotationType, DiskAssumption
<1>2. n \in Nat
  BY <1>1
<1>3. TimeAfter(s) = n + (IF over > 0 THEN T - over ELSE 0)
  BY <1>1, RotationType DEF TimeAfter, Rotation
<1> HIDE DEF n, T
<1>4. q \in Nat /\ over \in 0 .. (T - 1) /\ n = T * q + over /\ T * q \in Int /\ T * (q + 1) = T * q + T
  <2>1. q \in Nat
    BY <1>1, <1>2, Arithmetic
  <2> QED
    BY <1>1, <1>2, <2>1, Divides, Product
<1> HIDE DEF q, over
<1>5. PICK slot \in Nat : TimeAfter(s) = T * slot /\ n <= T * slot /\ T * slot < n + T
  <2>1. CASE over > 0
    <3>1. TimeAfter(s) = T * (q + 1) /\ n <= T * (q + 1) /\ T * (q + 1) < n + T
      BY <1>1, <1>2, <1>3, <1>4, <2>1
    <3> QED
      BY <1>4, <3>1
  <2>2. CASE over = 0
    <3>1. TimeAfter(s) = T * q /\ n <= T * q /\ T * q < n + T
      BY <1>1, <1>2, <1>3, <1>4, <2>2
    <3> QED
      BY <1>4, <3>1
  <2> QED
    BY <1>4, <2>1, <2>2
<1>6. (T * slot) \div T = slot
  <2>1. 0 \in 0 .. (T - 1) /\ T * slot + 0 = T * slot
    BY <1>1, <1>5, Product
  <2> QED
    BY <1>1, <1>5, <2>1, QuotientIs
<1> QED
  BY <1>5, <1>6 DEF T, n

\* SectorPassed is inductive as the track buffer always begins with a slot.
DiskInv == DiskTypeOK /\ bufferInit % RotationTime = 0 /\ SectorPassed

\* SectorPassed of the answer to a request for s, made now.
LEMMA FirstAnswer ==
  ASSUME DiskTypeOK, totalTicks \in Nat, NEW s \in Sectors, NEW writing \in BOOLEAN, ~InTrackBuffer(s, writing),
         NEW done, done = totalTicks + ComputeLatency(s, writing)
  PROVE  /\ done % RotationTime = 0
         /\ Passes(s, done \div RotationTime - 1)
         /\ totalTicks + SeekTicks(s) <= (done \div RotationTime - 1) * RotationTime
         /\ \A k \in 0 .. (done \div RotationTime - 1) - 1 :
              totalTicks + SeekTicks(s) <= k * RotationTime => ~Passes(s, k)
<1> DEFINE T == RotationTime
           ready == totalTicks + SeekTicks(s)
<1>1. T \in Nat \ {0} /\ s \in Nat /\ SeekTicks(s) \in Nat /\ Rotation(s) \in Nat /\ ready \in Nat
  BY DiskAssumption, RotationType DEF Sectors
<1>2. PICK slot \in Nat : /\ TimeAfter(s) = T * slot /\ TimeAfter(s) \div T = slot
                          /\ ready <= T * slot /\ T * slot < ready + T
  BY SlotBegins
<1> DEFINE d == ModuloDiff(s, slot)
<1>3. /\ d \in Nat /\ Passes(s, slot + d)
      /\ \A k \in Int : slot <= k /\ k < slot + d => ~Passes(s, k)
  BY <1>1, <1>2, FirstPass
<1>4. done = T * slot + d * T + T
  <2>1. TimeAfter(s) = totalTicks + SeekTicks(s) + Rotation(s)
    BY DEF TimeAfter
  <2>2. done = totalTicks + (SeekTicks(s) + Rotation(s) + d * T + T)
    BY <1>2 DEF ComputeLatency
  <2> HIDE DEF T, d
  <2>3. d * T \in Int /\ T * slot \in Int
    BY <1>1, <1>3, Product
  <2> DEFINE x == d * T
             y == T * slot
  <2>4. x \in Int /\ y \in Int /\ y = totalTicks + SeekTicks(s) + Rotation(s)
        /\ done = totalTicks + (SeekTicks(s) + Rotation(s) + x + T)
    BY <1>2, <2>1, <2>2, <2>3
  <2> HIDE DEF x, y
  <2>5. done = y + x + T
    BY <1>1, <2>4
  <2> QED
    BY <2>5 DEF x, y
<1> HIDE DEF T, d, ready
<1>5. done = T * (slot + d + 1)
  <2>1. T * (slot + d) = T * slot + T * d /\ T * (slot + d + 1) = T * (slot + d) + T /\ T * d = d * T
    BY <1>1, <1>3, Product, Order
  <2> QED
    BY <1>4, <2>1
<1>6. done \div T = slot + d + 1 /\ done % T = 0
  <2> DEFINE q == slot + d + 1
  <2>1. q \in Int /\ 0 \in 0 .. (T - 1)
    BY <1>1, <1>3
  <2> HIDE DEF q
  <2>2. T * q + 0 = T * q
    BY <1>1, <2>1, Product
  <2>3. done = T * q + 0
    BY <1>5, <2>2 DEF q
  <2>4. done \div T = q /\ done % T = 0
    BY <1>1, <2>1, <2>3, QuotientIs
  <2> QED
    BY <2>4 DEF q
<1>7. done \div T - 1 = slot + d
  BY <1>3, <1>6
<1>8. ready <= (slot + d) * T
  <2>1. T * slot <= T * (slot + d) /\ T * (slot + d) = (slot + d) * T
    BY <1>1, <1>3, Order, Product
  <2>2. T * slot \in Int /\ T * (slot + d) \in Int
    BY <1>1, <1>3, Product
  <2> QED
    BY <1>1, <1>2, <2>1, <2>2
<1>9. ASSUME NEW k \in 0 .. (slot + d) - 1, ready <= k * T PROVE ~Passes(s, k)
  <2>1. k \in Int /\ k < slot + d
    BY <1>3
  <2>2. T * slot < T * k + T
    <3>1. k * T = T * k /\ T * k \in Int /\ T * slot \in Int
      BY <1>1, <2>1, Product
    <3> QED
      BY <1>1, <1>2, <1>9, <3>1
  <2>3. slot <= k
    BY <1>1, <2>1, <2>2, Order
  <2> QED
    BY <1>3, <2>1, <2>3
<1> QED
  BY <1>3, <1>6, <1>7, <1>8, <1>9 DEF T, ready

LEMMA BufferedAnswer ==
  ASSUME DiskTypeOK, bufferInit % RotationTime = 0, totalTicks \in Nat, NEW s \in Sectors, NEW writing \in BOOLEAN,
         InTrackBuffer(s, writing), NEW done, done = totalTicks + ComputeLatency(s, writing)
  PROVE  \E k \in 0 .. (done \div RotationTime - 1) : Passes(s, k) /\ bufferInit <= k * RotationTime
<1> DEFINE T == RotationTime
           b == bufferInit \div T
<1>1. T \in Nat \ {0} /\ s \in Nat /\ bufferInit \in Nat
  BY DiskAssumption DEF Sectors, DiskTypeOK
<1>2. done = totalTicks + T /\ SeekTicks(s) = 0
      /\ (TimeAfter(s) - bufferInit) \div T > ModuloDiff(s, b)
  BY DEF InTrackBuffer, ComputeLatency
<1>3. PICK slot \in Nat : /\ TimeAfter(s) = T * slot /\ totalTicks + SeekTicks(s) <= T * slot
                          /\ T * slot < totalTicks + SeekTicks(s) + T
  BY SlotBegins
<1>4. totalTicks <= T * slot /\ T * slot < done /\ T * slot \in Int
  BY <1>1, <1>2, <1>3, Product
<1> HIDE DEF T
<1>5. b \in Nat /\ bufferInit = T * b
  <2>1. b \in Nat
    BY <1>1, Arithmetic
  <2>2. bufferInit = T * b + (bufferInit % T)
    BY <1>1, Divides
  <2>3. bufferInit % T = 0
    BY DEF T
  <2> HIDE DEF b
  <2> QED
    BY <1>1, <2>1, <2>2, <2>3, Product
<1> HIDE DEF b
<1> DEFINE d == ModuloDiff(s, b)
<1>6. d \in Nat /\ Passes(s, b + d)
  BY <1>1, <1>5, FirstPass
<1> HIDE DEF d
<1>7. slot - b > d
  <2>1. TimeAfter(s) - bufferInit = T * (slot - b)
    BY <1>1, <1>3, <1>5, Order
  <2>2. slot - b \in Int /\ 0 \in 0 .. (T - 1)
    BY <1>1, <1>3, <1>5
  <2>3. T * (slot - b) + 0 = T * (slot - b)
    BY <1>1, <2>2, Product
  <2>4. (T * (slot - b)) \div T = slot - b
    BY <1>1, <2>2, <2>3, QuotientIs
  <2> QED
    BY <1>2, <2>1, <2>4 DEF d
<1>8. slot <= done \div T /\ done \div T \in Int
  <2>1. done \in Nat
    <3>1. done = totalTicks + T
      BY <1>2
    <3> QED
      BY <1>1, <3>1
  <2> DEFINE n == done
  <2> HIDE DEF n
  <2>2. n \div T \in Int /\ n % T \in 0 .. (T - 1) /\ n = T * (n \div T) + (n % T)
    <3>1. n \in Int
      BY <2>1 DEF n
    <3> QED
      BY <1>1, <3>1, Divides
  <2>3. done \div T \in Int /\ done % T \in 0 .. (T - 1) /\ done = T * (done \div T) + (done % T)
    BY <2>2 DEF n
  <2>4. T * (done \div T) \in Int
    BY <1>1, <2>3, Product
  <2>5. T * slot < T * (done \div T) + T
    BY <1>1, <1>4, <2>1, <2>3, <2>4
  <2> QED
    BY <1>1, <1>3, <2>3, <2>5, Order
<1>9. b + d \in 0 .. (done \div T - 1)
  BY <1>3, <1>5, <1>6, <1>7, <1>8
<1>10. bufferInit <= (b + d) * T
  <2>1. T * b <= T * (b + d) /\ T * (b + d) = (b + d) * T
    BY <1>1, <1>5, <1>6, Order, Product
  <2> QED
    BY <1>5, <2>1
<1> QED
  BY <1>6, <1>9, <1>10 DEF T

LEMMA DiskInvStep == Inv /\ DiskInv /\ [DiskNext]_<<vars, diskVars>> => DiskInv'
<1> SUFFICES ASSUME Inv, DiskInv, [DiskNext]_<<vars, diskVars>> PROVE DiskInv'
  OBVIOUS
<1>1. DiskTypeOK /\ totalTicks \in Nat /\ bufferInit % RotationTime = 0 /\ SectorPassed
  BY DEF DiskInv, Inv, TimeConsistent, TypeOK
<1>2. DiskTypeOK'
  BY <1>1, DiskStep
<1>3. ASSUME NEW s \in Sectors, NEW writing \in BOOLEAN, DiskRequest(s, writing)
      PROVE  bufferInit' % RotationTime = 0 /\ SectorPassed'
  <2>1. bufferInit' % RotationTime = 0
    <3>1. PICK slot \in Nat : TimeAfter(s) = RotationTime * slot
      BY <1>1, SlotBegins
    <3>2. RotationTime \in Nat \ {0} /\ 0 \in 0 .. (RotationTime - 1)
      BY DiskAssumption
    <3>3. RotationTime * slot + 0 = RotationTime * slot
      BY <3>1, <3>2, Product
    <3>4. TimeAfter(s) % RotationTime = 0
      BY <3>1, <3>2, <3>3, QuotientIs
    <3>5. bufferInit' = TimeAfter(s) \/ bufferInit' = bufferInit
      BY <1>3 DEF DiskRequest, UpdateLast
    <3> QED
      BY <1>1, <3>4, <3>5
  <2> DEFINE done == totalTicks + ComputeLatency(s, writing)
  <2>2. /\ request'.sector = s /\ request'.asked = totalTicks /\ request'.seek = SeekTicks(s)
        /\ request'.buffered = InTrackBuffer(s, writing) /\ request'.since = bufferInit
        /\ request'.done = done
    BY <1>3 DEF DiskRequest
  <2>3. SectorPassed'
    <3>1. CASE InTrackBuffer(s, writing)
      <4>1. \E k \in 0 .. (done \div RotationTime - 1) : Passes(s, k) /\ bufferInit <= k * RotationTime
        BY <1>1, <3>1, BufferedAnswer
      <4> HIDE DEF done
      <4> QED
        BY <2>2, <3>1, <4>1 DEF SectorPassed, Passes
    <3>2. CASE ~InTrackBuffer(s, writing)
      <4>1. /\ done % RotationTime = 0
            /\ Passes(s, done \div RotationTime - 1)
            /\ totalTicks + SeekTicks(s) <= (done \div RotationTime - 1) * RotationTime
            /\ \A k \in 0 .. (done \div RotationTime - 1) - 1 :
                 totalTicks + SeekTicks(s) <= k * RotationTime => ~Passes(s, k)
        BY <1>1, <3>2, FirstAnswer
      <4> HIDE DEF done
      <4> QED
        BY <2>2, <3>2, <4>1 DEF SectorPassed, Passes
    <3> QED
      BY <3>1, <3>2
  <2> QED
    BY <2>1, <2>3
<1>4. CASE UNCHANGED diskVars
  <2>1. request' = request /\ bufferInit' = bufferInit
    BY <1>4 DEF diskVars
  <2>2. bufferInit' % RotationTime = 0
    BY <1>1, <2>1
  <2>3. SectorPassed'
    BY <1>1, <2>1, Zenon DEF SectorPassed
  <2> QED
    BY <1>2, <2>2, <2>3 DEF DiskInv
<1> QED
  BY <1>2, <1>3, <1>4 DEF DiskNext, DiskInv

LEMMA DiskInvStart == DiskInit => DiskInv
<1> SUFFICES ASSUME DiskInit PROVE DiskInv
  OBVIOUS
<1>1. RotationTime \in Nat \ {0} /\ SectorsPerTrack \in Nat \ {0}
  BY DiskAssumption
<1>2. 0 % RotationTime = 0
  BY <1>1
<1>3. RotationTime \div RotationTime = 1 /\ RotationTime % RotationTime = 0
  BY <1>1
<1>4. 0 % SectorsPerTrack = 0
  BY <1>1
<1>5. SectorPassed
  <2>1. /\ request.sector = 0 /\ request.asked = 0 /\ request.seek = 0
        /\ request.buffered = FALSE /\ request.done = RotationTime
    BY DEF DiskInit
  <2>2. (RotationTime \div RotationTime) - 1 = 0 /\ 0 * RotationTime = 0 /\ 0 .. (0 - 1) = {}
    BY <1>1, <1>3
  <2> QED
    BY <1>3, <2>1, <2>2 DEF SectorPassed, Passes
<1> QED
  BY <1>2, <1>5, DiskInvInit DEF DiskInv, DiskInit

(***************************************************************************)
(* For every geometry and at whatever time it is asked, the disk answers   *)
(* at the end of the first pass of the sector after the seek, and what it  *)
(* takes from the track buffer has passed the head since that seek:        *)
(* machine/disk.cc, ComputeLatency and UpdateLast.                         *)
(***************************************************************************)
THEOREM SectorPassedCorrect == DiskSpec => []SectorPassed
<1>1. DiskInit => Inv /\ DiskInv
  BY DiskInvInit, DiskInvStart
<1>2. Inv /\ DiskInv /\ [DiskNext]_<<vars, diskVars>> => Inv' /\ DiskInv'
  <2>1. DiskInv => DiskTypeOK
    BY DEF DiskInv
  <2> QED
    BY <2>1, DiskStep, InvStep, DiskInvStep
<1>3. DiskInv => SectorPassed
  BY DEF DiskInv
<1> QED
  BY <1>1, <1>2, <1>3, PTL DEF DiskSpec

-----------------------------------------------------------------------------
(* The processor with interrupts and the one without *)

\* s has the fields of a processor, and a register for every member of GPR.
Formed(s) ==
  /\ s = [r |-> s.r, m |-> s.m, p |-> s.p]
  /\ s.r = [gen |-> s.r.gen, Hi |-> s.r.Hi, Lo |-> s.r.Lo, PC |-> s.r.PC, NextPC |-> s.r.NextPC,
            PrevPC |-> s.r.PrevPC, BadVAddr |-> s.r.BadVAddr, LoadReg |-> s.r.LoadReg,
            LoadValue |-> s.r.LoadValue]
  /\ s.r.gen = [n \in GPR |-> s.r.gen[n]]
  /\ s.r.LoadReg \in GPR

\* What a register will hold when the pending load has landed.
Holds(s, n) == IF n = "r0" THEN 0 ELSE IF n = s.r.LoadReg THEN s.r.LoadValue ELSE s.r.gen[n]

\* The processors c and d differ at most in what of their loads has landed.
Alike(c, d) ==
  /\ Formed(c) /\ Formed(d)
  /\ c.m = d.m /\ c.p = d.p
  /\ c.r.Hi = d.r.Hi /\ c.r.Lo = d.r.Lo
  /\ c.r.PC = d.r.PC /\ c.r.NextPC = d.r.NextPC
  /\ c.r.PrevPC = d.r.PrevPC /\ c.r.BadVAddr = d.r.BadVAddr
  /\ \A n \in GPR : Holds(c, n) = Holds(d, n)

Zeroed(s) == Reg(s, "r0") = 0

\* In c the load that is pending in d has landed, or is pending too.
Together(c, d) ==
  /\ Alike(c, d) /\ Zeroed(c) /\ Zeroed(d)
  /\ c.r.LoadReg \in {d.r.LoadReg, "r0"}


\* What DelayedLoad leaves.
LEMMA DelayedLeaves ==
  ASSUME NEW s, Formed(s), NEW reg \in GPR, NEW value
  PROVE  LET d == DelayedLoad(s, reg, value)
         IN /\ Formed(d)
            /\ d.m = s.m /\ d.p = s.p
            /\ d.r.Hi = s.r.Hi /\ d.r.Lo = s.r.Lo
            /\ d.r.PC = s.r.PC /\ d.r.NextPC = s.r.NextPC
            /\ d.r.PrevPC = s.r.PrevPC /\ d.r.BadVAddr = s.r.BadVAddr
            /\ d.r.LoadReg = reg /\ d.r.LoadValue = value
            /\ \A n \in GPR : d.r.gen[n] = Holds(s, n)
<1> DEFINE d == DelayedLoad(s, reg, value)
           gen == [[s.r.gen EXCEPT ![s.r.LoadReg] = s.r.LoadValue] EXCEPT !["r0"] = 0]
<1>1. d = [r |-> [gen |-> gen, Hi |-> s.r.Hi, Lo |-> s.r.Lo, PC |-> s.r.PC,
                  NextPC |-> s.r.NextPC, PrevPC |-> s.r.PrevPC, BadVAddr |-> s.r.BadVAddr,
                  LoadReg |-> reg, LoadValue |-> value],
           m |-> s.m, p |-> s.p]
  <2>1. d = [s EXCEPT !.r.gen = gen, !.r.LoadReg = reg, !.r.LoadValue = value]
    BY DEF DelayedLoad
  <2> HIDE DEF d, gen
  <2> QED
    BY <2>1 DEF Formed
<1>2. gen = [n \in GPR |-> Holds(s, n)]
  BY MipsSimAssumption DEF Formed, Holds
<1> HIDE DEF d, gen
<1>3. Formed(d)
  BY <1>1, <1>2 DEF Formed
<1> QED
  BY <1>1, <1>2, <1>3 DEF d

LEMMA SetsLeaves ==
  ASSUME NEW s, Formed(s), NEW n \in GPR, NEW value
  PROVE  LET d == Sets(s, n, value)
         IN /\ Formed(d)
            /\ d.m = s.m /\ d.p = s.p
            /\ d.r.Hi = s.r.Hi /\ d.r.Lo = s.r.Lo
            /\ d.r.PC = s.r.PC /\ d.r.NextPC = s.r.NextPC
            /\ d.r.PrevPC = s.r.PrevPC /\ d.r.BadVAddr = s.r.BadVAddr
            /\ d.r.LoadReg = s.r.LoadReg /\ d.r.LoadValue = s.r.LoadValue
            /\ \A k \in GPR : d.r.gen[k] = IF k = n THEN value ELSE s.r.gen[k]
<1> DEFINE d == Sets(s, n, value)
           gen == [s.r.gen EXCEPT ![n] = value]
<1>1. d = [r |-> [gen |-> gen, Hi |-> s.r.Hi, Lo |-> s.r.Lo, PC |-> s.r.PC,
                  NextPC |-> s.r.NextPC, PrevPC |-> s.r.PrevPC, BadVAddr |-> s.r.BadVAddr,
                  LoadReg |-> s.r.LoadReg, LoadValue |-> s.r.LoadValue],
           m |-> s.m, p |-> s.p]
  BY DEF Sets, Formed
<1>2. gen = [k \in GPR |-> IF k = n THEN value ELSE s.r.gen[k]]
  BY DEF Formed
<1> HIDE DEF d, gen
<1>3. Formed(d)
  BY <1>1, <1>2 DEF Formed
<1> QED
  BY <1>1, <1>2, <1>3 DEF d

LEMMA FinishedLeaves ==
  ASSUME NEW s, Formed(s), NEW reg \in GPR, NEW value, NEW pcAfter
  PROVE  LET d == Finished(s, reg, value, pcAfter).s
         IN /\ Finished(s, reg, value, pcAfter).trap = "none"
            /\ Formed(d)
            /\ d.m = s.m /\ d.p = s.p
            /\ d.r.Hi = s.r.Hi /\ d.r.Lo = s.r.Lo
            /\ d.r.PC = s.r.NextPC /\ d.r.NextPC = pcAfter
            /\ d.r.PrevPC = s.r.PC /\ d.r.BadVAddr = s.r.BadVAddr
            /\ d.r.LoadReg = reg /\ d.r.LoadValue = value
            /\ \A n \in GPR : d.r.gen[n] = Holds(s, n)
<1> DEFINE t == DelayedLoad(s, reg, value)
           d == Finished(s, reg, value, pcAfter).s
<1>1. /\ Formed(t)
      /\ t.m = s.m /\ t.p = s.p
      /\ t.r.Hi = s.r.Hi /\ t.r.Lo = s.r.Lo
      /\ t.r.PC = s.r.PC /\ t.r.NextPC = s.r.NextPC
      /\ t.r.PrevPC = s.r.PrevPC /\ t.r.BadVAddr = s.r.BadVAddr
      /\ t.r.LoadReg = reg /\ t.r.LoadValue = value
      /\ \A n \in GPR : t.r.gen[n] = Holds(s, n)
  BY DelayedLeaves
<1>2. /\ d = [t EXCEPT !.r.PrevPC = t.r.PC, !.r.PC = t.r.NextPC, !.r.NextPC = pcAfter]
      /\ Finished(s, reg, value, pcAfter).trap = "none"
  BY DEF Finished
<1> HIDE DEF t, d
<1>3. d = [r |-> [gen |-> t.r.gen, Hi |-> t.r.Hi, Lo |-> t.r.Lo, PC |-> t.r.NextPC,
                  NextPC |-> pcAfter, PrevPC |-> t.r.PC, BadVAddr |-> t.r.BadVAddr,
                  LoadReg |-> t.r.LoadReg, LoadValue |-> t.r.LoadValue],
           m |-> t.m, p |-> t.p]
  BY <1>1, <1>2 DEF Formed
<1>4. Formed(d)
  BY <1>1, <1>3 DEF Formed
<1>5. /\ d.m = s.m /\ d.p = s.p
      /\ d.r.Hi = s.r.Hi /\ d.r.Lo = s.r.Lo
      /\ d.r.PC = s.r.NextPC /\ d.r.NextPC = pcAfter
      /\ d.r.PrevPC = s.r.PC /\ d.r.BadVAddr = s.r.BadVAddr
      /\ d.r.LoadReg = reg /\ d.r.LoadValue = value
      /\ \A n \in GPR : d.r.gen[n] = Holds(s, n)
  BY <1>1, <1>3
<1> QED
  BY <1>2, <1>4, <1>5 DEF d

LEMMA RaisedLeaves ==
  ASSUME NEW s, Formed(s), NEW which, NEW addr
  PROVE  LET d == Raised(s, which, addr).s
         IN /\ Raised(s, which, addr).trap = which
            /\ Formed(d)
            /\ d.m = s.m /\ d.p = s.p
            /\ d.r.Hi = s.r.Hi /\ d.r.Lo = s.r.Lo
            /\ d.r.PC = s.r.PC /\ d.r.NextPC = s.r.NextPC
            /\ d.r.PrevPC = s.r.PrevPC /\ d.r.BadVAddr = addr
            /\ d.r.LoadReg = "r0" /\ d.r.LoadValue = 0
            /\ \A n \in GPR : d.r.gen[n] = Holds(s, n)
<1> DEFINE t == [s EXCEPT !.r.BadVAddr = addr]
<1>1. t = [r |-> [gen |-> s.r.gen, Hi |-> s.r.Hi, Lo |-> s.r.Lo, PC |-> s.r.PC,
                  NextPC |-> s.r.NextPC, PrevPC |-> s.r.PrevPC, BadVAddr |-> addr,
                  LoadReg |-> s.r.LoadReg, LoadValue |-> s.r.LoadValue],
           m |-> s.m, p |-> s.p]
  BY DEF Formed
<1>2. Raised(s, which, addr) = [s |-> DelayedLoad(t, "r0", 0), trap |-> which]
  BY DEF Raised
<1> HIDE DEF t
<1>3. Formed(t) /\ \A n \in GPR : Holds(t, n) = Holds(s, n)
  BY <1>1 DEF Formed, Holds
<1>4. "r0" \in GPR
  BY MipsSimAssumption
<1> DEFINE d == DelayedLoad(t, "r0", 0)
<1>5. /\ Formed(d) /\ d.m = t.m /\ d.p = t.p
      /\ d.r.Hi = t.r.Hi /\ d.r.Lo = t.r.Lo
      /\ d.r.PC = t.r.PC /\ d.r.NextPC = t.r.NextPC
      /\ d.r.PrevPC = t.r.PrevPC /\ d.r.BadVAddr = t.r.BadVAddr
      /\ d.r.LoadReg = "r0" /\ d.r.LoadValue = 0
      /\ \A n \in GPR : d.r.gen[n] = Holds(t, n)
  BY <1>3, <1>4, DelayedLeaves
<1> HIDE DEF d
<1>6. /\ t.m = s.m /\ t.p = s.p /\ t.r.Hi = s.r.Hi /\ t.r.Lo = s.r.Lo
      /\ t.r.PC = s.r.PC /\ t.r.NextPC = s.r.NextPC
      /\ t.r.PrevPC = s.r.PrevPC /\ t.r.BadVAddr = addr
  BY <1>1
<1>7. Raised(s, which, addr).s = d /\ Raised(s, which, addr).trap = which
  BY <1>2 DEF d
<1> QED
  BY <1>3, <1>5, <1>6, <1>7

\* Processors are the same when all of their parts are.
LEMMA SameParts ==
  ASSUME NEW c, NEW d, Formed(c), Formed(d),
         c.m = d.m, c.p = d.p, c.r.Hi = d.r.Hi, c.r.Lo = d.r.Lo,
         c.r.PC = d.r.PC, c.r.NextPC = d.r.NextPC,
         c.r.PrevPC = d.r.PrevPC, c.r.BadVAddr = d.r.BadVAddr,
         c.r.LoadReg = d.r.LoadReg, c.r.LoadValue = d.r.LoadValue,
         \A n \in GPR : c.r.gen[n] = d.r.gen[n]
  PROVE  c = d
<1>1. c.r.gen = d.r.gen
  BY DEF Formed
<1>2. c.r = d.r
  BY <1>1, Zenon DEF Formed
<1> QED
  BY <1>2, Zenon DEF Formed

\* A processor that is alike to another has the same behind it once the loads
\* of both have landed.
LEMMA SettledSame ==
  ASSUME NEW c, NEW d, Alike(c, d)
  PROVE  DelayedLoad(c, "r0", 0) = DelayedLoad(d, "r0", 0)
<1>1. "r0" \in GPR
  BY MipsSimAssumption
<1> DEFINE x == DelayedLoad(c, "r0", 0)
           y == DelayedLoad(d, "r0", 0)
<1>2. /\ Formed(x) /\ Formed(y)
      /\ x.m = c.m /\ x.p = c.p /\ y.m = d.m /\ y.p = d.p
      /\ x.r.Hi = c.r.Hi /\ x.r.Lo = c.r.Lo /\ y.r.Hi = d.r.Hi /\ y.r.Lo = d.r.Lo
      /\ x.r.PC = c.r.PC /\ x.r.NextPC = c.r.NextPC /\ y.r.PC = d.r.PC /\ y.r.NextPC = d.r.NextPC
      /\ x.r.PrevPC = c.r.PrevPC /\ x.r.BadVAddr = c.r.BadVAddr
      /\ y.r.PrevPC = d.r.PrevPC /\ y.r.BadVAddr = d.r.BadVAddr
      /\ x.r.LoadReg = "r0" /\ x.r.LoadValue = 0 /\ y.r.LoadReg = "r0" /\ y.r.LoadValue = 0
      /\ \A n \in GPR : x.r.gen[n] = Holds(c, n) /\ y.r.gen[n] = Holds(d, n)
  BY <1>1, DelayedLeaves DEF Alike
<1> HIDE DEF x, y
<1>3. x = y
  BY <1>2, SameParts DEF Alike
<1> QED
  BY <1>3 DEF x, y

LEMMA SetsTogether ==
  ASSUME NEW c, NEW d, Alike(c, d), NEW n \in GPR, NEW value,
         n # "r0" => n # c.r.LoadReg /\ n # d.r.LoadReg
  PROVE  Alike(Sets(c, n, value), Sets(d, n, value))
<1> DEFINE x == Sets(c, n, value)
           y == Sets(d, n, value)
<1>1. /\ Formed(x) /\ Formed(y)
      /\ x.m = c.m /\ x.p = c.p /\ y.m = d.m /\ y.p = d.p
      /\ x.r.Hi = c.r.Hi /\ x.r.Lo = c.r.Lo /\ y.r.Hi = d.r.Hi /\ y.r.Lo = d.r.Lo
      /\ x.r.PC = c.r.PC /\ x.r.NextPC = c.r.NextPC /\ y.r.PC = d.r.PC /\ y.r.NextPC = d.r.NextPC
      /\ x.r.PrevPC = c.r.PrevPC /\ x.r.BadVAddr = c.r.BadVAddr
      /\ y.r.PrevPC = d.r.PrevPC /\ y.r.BadVAddr = d.r.BadVAddr
      /\ x.r.LoadReg = c.r.LoadReg /\ x.r.LoadValue = c.r.LoadValue
      /\ y.r.LoadReg = d.r.LoadReg /\ y.r.LoadValue = d.r.LoadValue
      /\ \A k \in GPR : /\ x.r.gen[k] = IF k = n THEN value ELSE c.r.gen[k]
                        /\ y.r.gen[k] = IF k = n THEN value ELSE d.r.gen[k]
  BY SetsLeaves DEF Alike
<1> HIDE DEF x, y
<1>2. ASSUME NEW k \in GPR PROVE Holds(x, k) = Holds(y, k)
  <2>1. CASE k = "r0"
    BY <2>1 DEF Holds
  <2>2. CASE k # "r0" /\ k = n
    <3>1. k # x.r.LoadReg /\ k # y.r.LoadReg
      BY <1>1, <2>2
    <3> QED
      BY <1>1, <2>2, <3>1 DEF Holds
  <2>3. CASE k # "r0" /\ k # n
    <3>1. Holds(x, k) = Holds(c, k) /\ Holds(y, k) = Holds(d, k)
      BY <1>1, <2>3 DEF Holds
    <3> QED
      BY <3>1 DEF Alike
  <2> QED
    BY <2>1, <2>2, <2>3
<1>3. Alike(x, y)
  BY <1>1, <1>2 DEF Alike
<1> QED
  BY <1>3 DEF x, y

\* The end of an instruction brings processors that are alike together; the
\* value of a load to r0 does not matter.
LEMMA FinishedTogether ==
  ASSUME NEW c, NEW d, Alike(c, d), NEW reg \in GPR, NEW v, NEW w, NEW pcAfter,
         reg # "r0" => v = w
  PROVE  /\ Finished(c, reg, v, pcAfter).trap = Finished(d, reg, w, pcAfter).trap
         /\ Together(Finished(c, reg, v, pcAfter).s, Finished(d, reg, w, pcAfter).s)
<1>1. "r0" \in GPR
  BY MipsSimAssumption
<1> DEFINE x == Finished(c, reg, v, pcAfter).s
           y == Finished(d, reg, w, pcAfter).s
<1>2. /\ Formed(x)
      /\ x.m = c.m /\ x.p = c.p
      /\ x.r.Hi = c.r.Hi /\ x.r.Lo = c.r.Lo
      /\ x.r.PC = c.r.NextPC /\ x.r.NextPC = pcAfter
      /\ x.r.PrevPC = c.r.PC /\ x.r.BadVAddr = c.r.BadVAddr
      /\ x.r.LoadReg = reg /\ x.r.LoadValue = v
      /\ \A n \in GPR : x.r.gen[n] = Holds(c, n)
  BY FinishedLeaves DEF Alike
<1>3. /\ Formed(y)
      /\ y.m = d.m /\ y.p = d.p
      /\ y.r.Hi = d.r.Hi /\ y.r.Lo = d.r.Lo
      /\ y.r.PC = d.r.NextPC /\ y.r.NextPC = pcAfter
      /\ y.r.PrevPC = d.r.PC /\ y.r.BadVAddr = d.r.BadVAddr
      /\ y.r.LoadReg = reg /\ y.r.LoadValue = w
      /\ \A n \in GPR : y.r.gen[n] = Holds(d, n)
  BY FinishedLeaves DEF Alike
<1>4. Finished(c, reg, v, pcAfter).trap = Finished(d, reg, w, pcAfter).trap
  BY DEF Finished
<1> HIDE DEF x, y
<1>5. \A n \in GPR : x.r.gen[n] = y.r.gen[n]
  BY <1>2, <1>3 DEF Alike
<1>6. \A n \in GPR : Holds(x, n) = Holds(y, n)
  BY <1>2, <1>3, <1>5 DEF Holds
<1>7. Alike(x, y)
  BY <1>2, <1>3, <1>6 DEF Alike
<1>8. Zeroed(x) /\ Zeroed(y)
  BY <1>1, <1>2, <1>3 DEF Zeroed, Reg, Holds
<1>9. Together(x, y)
  BY <1>2, <1>3, <1>7, <1>8 DEF Together
<1> QED
  BY <1>4, <1>9 DEF x, y

LEMMA RaisedTogether ==
  ASSUME NEW c, NEW d, Alike(c, d), NEW which, NEW addr
  PROVE  /\ Raised(c, which, addr).trap = Raised(d, which, addr).trap
         /\ Together(Raised(c, which, addr).s, Raised(d, which, addr).s)
<1>1. "r0" \in GPR
  BY MipsSimAssumption
<1> DEFINE x == Raised(c, which, addr).s
           y == Raised(d, which, addr).s
<1>2. /\ Formed(x)
      /\ x.m = c.m /\ x.p = c.p
      /\ x.r.Hi = c.r.Hi /\ x.r.Lo = c.r.Lo
      /\ x.r.PC = c.r.PC /\ x.r.NextPC = c.r.NextPC
      /\ x.r.PrevPC = c.r.PrevPC /\ x.r.BadVAddr = addr
      /\ x.r.LoadReg = "r0" /\ x.r.LoadValue = 0
      /\ \A n \in GPR : x.r.gen[n] = Holds(c, n)
  BY RaisedLeaves DEF Alike
<1>3. /\ Formed(y)
      /\ y.m = d.m /\ y.p = d.p
      /\ y.r.Hi = d.r.Hi /\ y.r.Lo = d.r.Lo
      /\ y.r.PC = d.r.PC /\ y.r.NextPC = d.r.NextPC
      /\ y.r.PrevPC = d.r.PrevPC /\ y.r.BadVAddr = addr
      /\ y.r.LoadReg = "r0" /\ y.r.LoadValue = 0
      /\ \A n \in GPR : y.r.gen[n] = Holds(d, n)
  BY RaisedLeaves DEF Alike
<1>4. Raised(c, which, addr).trap = Raised(d, which, addr).trap
  BY DEF Raised
<1> HIDE DEF x, y
<1>5. \A n \in GPR : x.r.gen[n] = y.r.gen[n]
  BY <1>2, <1>3 DEF Alike
<1>6. \A n \in GPR : Holds(x, n) = Holds(y, n)
  BY <1>2, <1>3, <1>5 DEF Holds
<1>7. Alike(x, y)
  BY <1>2, <1>3, <1>6 DEF Alike
<1>8. Zeroed(x) /\ Zeroed(y)
  BY <1>1, <1>2, <1>3 DEF Zeroed, Reg, Holds
<1>9. Together(x, y)
  BY <1>2, <1>3, <1>7, <1>8 DEF Together
<1> QED
  BY <1>4, <1>9 DEF x, y

\* s with other contents of memory and another page table.
Turned(s, m, p) == [s EXCEPT !.p = p, !.m = m]

LEMMA TurnedIs ==
  ASSUME NEW s, Formed(s), NEW m, NEW p
  PROVE  Turned(s, m, p) = [r |-> s.r, m |-> m, p |-> p]
<1>1. s = [r |-> s.r, m |-> s.m, p |-> s.p]
  BY Zenon DEF Formed
<1> DEFINE u == [s EXCEPT !.p = p]
<1>2. u = [r |-> s.r, m |-> s.m, p |-> p]
  BY <1>1
<1>3. Turned(s, m, p) = [u EXCEPT !.m = m]
  BY Zenon DEF Turned
<1> HIDE DEF u
<1> QED
  BY <1>2, <1>3

LEMMA TableTurned ==
  ASSUME NEW s, Formed(s), NEW p
  PROVE  [s EXCEPT !.p = p] = Turned(s, s.m, p)
<1>1. s = [r |-> s.r, m |-> s.m, p |-> s.p]
  BY Zenon DEF Formed
<1>2. [s EXCEPT !.p = p] = [r |-> s.r, m |-> s.m, p |-> p]
  BY <1>1
<1>3. Turned(s, s.m, p) = [r |-> s.r, m |-> s.m, p |-> p]
  BY TurnedIs, Zenon
<1> QED
  BY <1>2, <1>3, Zenon

LEMMA TurnedTogether ==
  ASSUME NEW c, NEW d, Alike(c, d), NEW m, NEW p
  PROVE  /\ Alike(Turned(c, m, p), Turned(d, m, p))
         /\ Turned(c, m, p).r = c.r /\ Turned(d, m, p).r = d.r
<1>1. /\ Turned(c, m, p) = [r |-> c.r, m |-> m, p |-> p]
      /\ Turned(d, m, p) = [r |-> d.r, m |-> m, p |-> p]
  BY TurnedIs DEF Alike
<1> DEFINE x == Turned(c, m, p)
           y == Turned(d, m, p)
<1> HIDE DEF x, y
<1>2. x.r = c.r /\ x.m = m /\ x.p = p /\ y.r = d.r /\ y.m = m /\ y.p = p
  BY <1>1 DEF x, y
<1>3. x = [r |-> x.r, m |-> x.m, p |-> x.p] /\ y = [r |-> y.r, m |-> y.m, p |-> y.p]
  BY <1>1 DEF x, y
<1>4. Formed(x) /\ Formed(y)
  BY <1>2, <1>3, Zenon DEF Formed, Alike
<1>5. \A n \in GPR : Holds(x, n) = Holds(y, n)
  BY <1>2 DEF Holds, Alike
<1>6. Alike(x, y)
  BY <1>2, <1>4, <1>5 DEF Alike
<1> QED
  BY <1>2, <1>6 DEF x, y

\* Memory is read and written alike, and no register changes for it.
LEMMA ReadIs ==
  ASSUME NEW s, Formed(s), NEW addr, NEW size
  PROVE  LET t == Translate(s.p, addr, size, FALSE)
         IN ReadMem(s, addr, size) =
              [trap |-> t.trap, s |-> Turned(s, s.m, t.p),
               value |-> IF t.trap = "none" THEN BytesAt(s.m, t.phys, size) ELSE 0]
BY TableTurned, Zenon DEF ReadMem

LEMMA ReadTogether ==
  ASSUME NEW c, NEW d, Alike(c, d), NEW addr, NEW size
  PROVE  LET x == ReadMem(c, addr, size)
             y == ReadMem(d, addr, size)
         IN x.trap = y.trap /\ x.value = y.value /\ Alike(x.s, y.s) /\ x.s.r = c.r /\ y.s.r = d.r
<1> DEFINE t == Translate(c.p, addr, size, FALSE)
           v == IF t.trap = "none" THEN BytesAt(c.m, t.phys, size) ELSE 0
<1>1. /\ Formed(c) /\ Formed(d) /\ c.m = d.m
      /\ t = Translate(d.p, addr, size, FALSE)
      /\ v = IF t.trap = "none" THEN BytesAt(d.m, t.phys, size) ELSE 0
  BY DEF Alike
<1>2. ReadMem(c, addr, size) = [trap |-> t.trap, s |-> Turned(c, c.m, t.p), value |-> v]
  BY <1>1, ReadIs
<1> HIDE DEF t, v
<1>3. ReadMem(d, addr, size) = [trap |-> t.trap, s |-> Turned(d, c.m, t.p), value |-> v]
  BY <1>1, ReadIs
<1> QED
  BY <1>2, <1>3, TurnedTogether

LEMMA WriteIs ==
  ASSUME NEW s, NEW addr, NEW size, NEW value
  PROVE  LET t == Translate(s.p, addr, size, TRUE)
         IN \E m : WriteMem(s, addr, size, value) =
                     [trap |-> t.trap, s |-> IF t.trap # "none" THEN s ELSE Turned(s, m, t.p)]
BY Zenon DEF WriteMem, Turned

LEMMA WriteTogether ==
  ASSUME NEW c, NEW d, Alike(c, d), NEW addr, NEW size, NEW value
  PROVE  LET x == WriteMem(c, addr, size, value)
             y == WriteMem(d, addr, size, value)
         IN x.trap = y.trap /\ Alike(x.s, y.s)
<1> DEFINE t == Translate(c.p, addr, size, TRUE)
           bytes(was) == [a \in DOMAIN was |->
                           IF a \in t.phys .. t.phys + size - 1
                           THEN (Low(value, size) \div Pow2[ByteBits * (a - t.phys)]) % Pow2[ByteBits]
                           ELSE was[a]]
<1>1. t = Translate(d.p, addr, size, TRUE) /\ c.m = d.m
  BY DEF Alike
<1>2. WriteMem(c, addr, size, value) =
        [trap |-> t.trap, s |-> IF t.trap # "none" THEN c ELSE Turned(c, bytes(c.m), t.p)]
  BY Zenon DEF WriteMem, Turned
<1>3. WriteMem(d, addr, size, value) =
        [trap |-> t.trap, s |-> IF t.trap # "none" THEN d ELSE Turned(d, bytes(d.m), t.p)]
  <2> DEFINE u == Translate(d.p, addr, size, TRUE)
             other(was) == [a \in DOMAIN was |->
                           IF a \in u.phys .. u.phys + size - 1
                           THEN (Low(value, size) \div Pow2[ByteBits * (a - u.phys)]) % Pow2[ByteBits]
                           ELSE was[a]]
  <2>1. WriteMem(d, addr, size, value) =
          [trap |-> u.trap, s |-> IF u.trap # "none" THEN d ELSE Turned(d, other(d.m), u.p)]
    BY Zenon DEF WriteMem, Turned
  <2> HIDE DEF t, u
  <2>2. t = u
    BY <1>1, Zenon DEF u
  <2> QED
    BY <2>1, <2>2
<1>4. bytes(c.m) = bytes(d.m)
  BY <1>1
<1> HIDE DEF t, bytes
<1> QED
  BY <1>2, <1>3, <1>4, TurnedTogether

LEMMA TrapNames ==
  ASSUME NEW p, NEW addr, NEW size, NEW writing
  PROVE  Translate(p, addr, size, writing).trap \in
           {"none", "AddressError", "PageFault", "ReadOnly", "BusError"}
BY DEF Translate

-----------------------------------------------------------------------------
(* An instruction does not tell whether the load before it has landed *)

\* Two outcomes of an instruction that differ at most in what has landed.
Agree(o, q) == o.trap = q.trap /\ Together(o.s, q.s)

\* c and d are together, and nothing is pending for the registers of N.
Seen(c, d, N) ==
  /\ Together(c, d)
  /\ \A n \in N : /\ n \in GPR
                  /\ Reg(c, n) = Reg(d, n)
                  /\ n # "r0" => n # c.r.LoadReg /\ n # d.r.LoadReg

Decoded(ins) == {ins.rs, ins.rt, ins.rd} \subseteq GPR

LEMMA SeenFirst ==
  ASSUME NEW c, NEW d, Together(c, d), NEW N \in SUBSET GPR,
         d.r.LoadReg = "r0" \/ d.r.LoadReg \notin N
  PROVE  Seen(c, d, N)
<1> SUFFICES ASSUME NEW n \in N
             PROVE  /\ Reg(c, n) = Reg(d, n)
                    /\ n # "r0" => n # c.r.LoadReg /\ n # d.r.LoadReg
  BY DEF Seen
<1>1. n # "r0" => n # c.r.LoadReg /\ n # d.r.LoadReg
  BY DEF Together
<1>2. CASE n = "r0"
  BY <1>2 DEF Together, Zeroed
<1>3. CASE n # "r0"
  BY <1>1, <1>3 DEF Together, Alike, Holds, Reg
<1> QED
  BY <1>1, <1>2, <1>3

\* The processor that has read memory is as far as the one before.
LEMMA SeenAfterRead ==
  ASSUME NEW c, NEW d, NEW N, Seen(c, d, N), NEW addr, NEW size
  PROVE  LET x == ReadMem(c, addr, size)
             y == ReadMem(d, addr, size)
         IN /\ x.trap = y.trap /\ x.value = y.value
            /\ Seen(x.s, y.s, N)
            /\ x.s.r = c.r /\ y.s.r = d.r
<1> DEFINE x == ReadMem(c, addr, size)
           y == ReadMem(d, addr, size)
<1>1. x.trap = y.trap /\ x.value = y.value /\ Alike(x.s, y.s) /\ x.s.r = c.r /\ y.s.r = d.r
  BY ReadTogether DEF Seen, Together
<1> HIDE DEF x, y
<1>2. Together(x.s, y.s)
  BY <1>1 DEF Seen, Together, Zeroed, Reg
<1>3. Seen(x.s, y.s, N)
  BY <1>1, <1>2 DEF Seen, Reg
<1> QED
  BY <1>1, <1>3 DEF x, y

LEMMA NextSame ==
  ASSUME NEW c, NEW d, Alike(c, d)
  PROVE  c.r.NextPC = d.r.NextPC /\ Sequential(c) = Sequential(d)
BY DEF Alike, Sequential

LEMMA GivesTogether ==
  ASSUME NEW c, NEW d, NEW n \in GPR, Seen(c, d, {n}), NEW value
  PROVE  Agree(Gives(c, n, value), Gives(d, n, value))
<1>1. "r0" \in GPR
  BY MipsSimAssumption
<1>2. Alike(Sets(c, n, value), Sets(d, n, value))
  BY SetsTogether DEF Seen, Together
<1>3. Sequential(c) = Sequential(d)
  BY NextSame DEF Seen, Together
<1> QED
  BY <1>1, <1>2, <1>3, FinishedTogether DEF Agree, Gives

LEMMA ComputeTogether ==
  ASSUME NEW c, NEW d, NEW ins, Decoded(ins), Seen(c, d, {ins.rs, ins.rt, ins.rd})
  PROVE  Agree(Compute(c, ins), Compute(d, ins))
<1> DEFINE n == IF ins.op \in RegisterOps THEN ins.rd ELSE ins.rt
           v == Computed(ins.op, Reg(c, ins.rs), Reg(c, ins.rt), ins.extra)
<1>1. v = Computed(ins.op, Reg(d, ins.rs), Reg(d, ins.rt), ins.extra)
  <2>1. Reg(c, ins.rs) = Reg(d, ins.rs) /\ Reg(c, ins.rt) = Reg(d, ins.rt)
    BY DEF Seen
  <2> QED
    BY <2>1
<1>2. n \in GPR /\ Seen(c, d, {n})
  BY DEF Seen, Decoded
<1> HIDE DEF n, v
<1>3. Compute(c, ins) = Gives(c, n, v)
  BY DEF Compute, n, v
<1>4. Compute(d, ins) = Gives(d, n, v)
  BY <1>1 DEF Compute, n
<1> QED
  BY <1>2, <1>3, <1>4, GivesTogether

LEMMA CheckedTogether ==
  ASSUME NEW c, NEW d, NEW ins, Decoded(ins), Seen(c, d, {ins.rs, ins.rt, ins.rd})
  PROVE  Agree(CheckedArithmetic(c, ins), CheckedArithmetic(d, ins))
<1>1. Reg(c, ins.rs) = Reg(d, ins.rs) /\ Reg(c, ins.rt) = Reg(d, ins.rt)
  BY DEF Seen
<1> DEFINE n == IF ins.op = "ADDI" THEN ins.rt ELSE ins.rd
           a == Reg(c, ins.rs)
           b == IF ins.op = "ADDI" THEN ins.extra ELSE Reg(c, ins.rt)
           over == IF ins.op = "SUB" THEN DifferenceOverflows(a, b) ELSE SumOverflows(a, b)
           v == Wrap(IF ins.op = "SUB" THEN a - b ELSE a + b)
<1>2. CheckedArithmetic(c, ins) = IF over THEN Raised(c, "Overflow", 0) ELSE Gives(c, n, v)
  BY DEF CheckedArithmetic
<1>3. CheckedArithmetic(d, ins) = IF over THEN Raised(d, "Overflow", 0) ELSE Gives(d, n, v)
  BY <1>1 DEF CheckedArithmetic
<1>4. n \in GPR /\ Seen(c, d, {n})
  BY DEF Seen, Decoded
<1> HIDE DEF n, over, v, a, b
<1>5. CASE over
  BY <1>2, <1>3, <1>5, RaisedTogether DEF Agree, Seen, Together
<1>6. CASE ~over
  BY <1>2, <1>3, <1>4, <1>6, GivesTogether
<1> QED
  BY <1>5, <1>6

\* The registers of products and quotients.
Both(s, hi, lo) == [s EXCEPT !.r.Hi = hi, !.r.Lo = lo]

LEMMA BothLeaves ==
  ASSUME NEW s, Formed(s), NEW hi, NEW lo
  PROVE  LET d == Both(s, hi, lo)
         IN /\ Formed(d)
            /\ d.m = s.m /\ d.p = s.p
            /\ d.r.Hi = hi /\ d.r.Lo = lo
            /\ d.r.PC = s.r.PC /\ d.r.NextPC = s.r.NextPC
            /\ d.r.PrevPC = s.r.PrevPC /\ d.r.BadVAddr = s.r.BadVAddr
            /\ d.r.gen = s.r.gen
            /\ d.r.LoadReg = s.r.LoadReg /\ d.r.LoadValue = s.r.LoadValue
<1> DEFINE d == Both(s, hi, lo)
<1>1. d = [r |-> [gen |-> s.r.gen, Hi |-> hi, Lo |-> lo, PC |-> s.r.PC,
                  NextPC |-> s.r.NextPC, PrevPC |-> s.r.PrevPC, BadVAddr |-> s.r.BadVAddr,
                  LoadReg |-> s.r.LoadReg, LoadValue |-> s.r.LoadValue],
           m |-> s.m, p |-> s.p]
  <2> DEFINE t == [s EXCEPT !.r.Hi = hi]
  <2>1. t = [r |-> [gen |-> s.r.gen, Hi |-> hi, Lo |-> s.r.Lo, PC |-> s.r.PC,
                    NextPC |-> s.r.NextPC, PrevPC |-> s.r.PrevPC, BadVAddr |-> s.r.BadVAddr,
                    LoadReg |-> s.r.LoadReg, LoadValue |-> s.r.LoadValue],
             m |-> s.m, p |-> s.p]
    BY DEF Formed
  <2>2. d = [t EXCEPT !.r.Lo = lo]
    BY Zenon DEF Both
  <2> HIDE DEF t, d
  <2> QED
    BY <2>1, <2>2
<1> HIDE DEF d
<1>2. Formed(d)
  BY <1>1 DEF Formed
<1> QED
  BY <1>1, <1>2 DEF d

LEMMA BothTogether ==
  ASSUME NEW c, NEW d, Alike(c, d), NEW hi, NEW lo
  PROVE  Agree(Finished(Both(c, hi, lo), "r0", 0, Sequential(c)),
               Finished(Both(d, hi, lo), "r0", 0, Sequential(d)))
<1>1. "r0" \in GPR
  BY MipsSimAssumption
<1> DEFINE x == Both(c, hi, lo)
           y == Both(d, hi, lo)
<1>2. /\ Formed(x) /\ x.m = c.m /\ x.p = c.p /\ x.r.Hi = hi /\ x.r.Lo = lo
      /\ x.r.PC = c.r.PC /\ x.r.NextPC = c.r.NextPC
      /\ x.r.PrevPC = c.r.PrevPC /\ x.r.BadVAddr = c.r.BadVAddr
      /\ x.r.gen = c.r.gen /\ x.r.LoadReg = c.r.LoadReg /\ x.r.LoadValue = c.r.LoadValue
  BY BothLeaves DEF Alike
<1>3. /\ Formed(y) /\ y.m = d.m /\ y.p = d.p /\ y.r.Hi = hi /\ y.r.Lo = lo
      /\ y.r.PC = d.r.PC /\ y.r.NextPC = d.r.NextPC
      /\ y.r.PrevPC = d.r.PrevPC /\ y.r.BadVAddr = d.r.BadVAddr
      /\ y.r.gen = d.r.gen /\ y.r.LoadReg = d.r.LoadReg /\ y.r.LoadValue = d.r.LoadValue
  BY BothLeaves DEF Alike
<1> HIDE DEF x, y
<1>4. \A n \in GPR : Holds(x, n) = Holds(c, n) /\ Holds(y, n) = Holds(d, n)
  BY <1>2, <1>3 DEF Holds
<1>5. Alike(x, y)
  BY <1>2, <1>3, <1>4 DEF Alike
<1>6. Sequential(c) = Sequential(d)
  BY NextSame
<1>7. Agree(Finished(x, "r0", 0, Sequential(c)), Finished(y, "r0", 0, Sequential(d)))
  BY <1>1, <1>5, <1>6, FinishedTogether DEF Agree
<1> QED
  BY <1>7 DEF x, y

LEMMA HiLoTogether ==
  ASSUME NEW c, NEW d, NEW ins, Decoded(ins), Seen(c, d, {ins.rs, ins.rt, ins.rd}),
         ins.op \in HiLoOps
  PROVE  Agree(HiLo(c, ins), HiLo(d, ins))
<1>1. Alike(c, d) /\ c.r.Hi = d.r.Hi /\ c.r.Lo = d.r.Lo
  BY DEF Seen, Together, Alike
<1>2. Reg(c, ins.rs) = Reg(d, ins.rs) /\ Reg(c, ins.rt) = Reg(d, ins.rt)
  BY DEF Seen
<1>3. ins.rd \in GPR /\ Seen(c, d, {ins.rd})
  BY DEF Seen, Decoded
<1> DEFINE a == Reg(c, ins.rs)
           b == Reg(c, ins.rt)
           both(s, hi, lo) == Finished(Both(s, hi, lo), "r0", 0, Sequential(s))
<1>4. \A hi, lo : Agree(both(c, hi, lo), both(d, hi, lo))
  BY <1>1, BothTogether
<1>5. \A v : Agree(Gives(c, ins.rd, v), Gives(d, ins.rd, v))
  BY <1>3, GivesTogether
<1>6. Agree([s |-> c, trap |-> "HostFault"], [s |-> d, trap |-> "HostFault"])
  BY DEF Agree, Seen
<1> HIDE DEF both
<1>7. CASE ins.op \in {"MULT", "MULTU"}
  <2> DEFINE p == Mult(a, b, ins.op = "MULT")
  <2>1. HiLo(c, ins) = both(c, p.hi, p.lo)
    BY <1>7 DEF HiLo, both, Both
  <2>2. HiLo(d, ins) = both(d, p.hi, p.lo)
    BY <1>2, <1>7 DEF HiLo, both, Both
  <2> QED
    BY <1>4, <2>1, <2>2
<1>8. CASE ins.op \in {"DIV", "DIVU"} /\ b = 0
  <2>1. HiLo(c, ins) = both(c, 0, 0)
    BY <1>8 DEF HiLo, both, Both
  <2>2. HiLo(d, ins) = both(d, 0, 0)
    BY <1>2, <1>8 DEF HiLo, both, Both
  <2> QED
    BY <1>4, <2>1, <2>2
<1>9. CASE ins.op = "DIV" /\ b # 0 /\ Quotient(a, b) \in Word
  <2>1. HiLo(c, ins) = both(c, Remainder(a, b), Quotient(a, b))
    BY <1>9 DEF HiLo, both, Both
  <2>2. HiLo(d, ins) = both(d, Remainder(a, b), Quotient(a, b))
    BY <1>2, <1>9 DEF HiLo, both, Both
  <2> QED
    BY <1>4, <2>1, <2>2
<1>10. CASE ins.op = "DIV" /\ b # 0 /\ Quotient(a, b) \notin Word
  <2>1. HiLo(c, ins) = [s |-> c, trap |-> "HostFault"]
    BY <1>10 DEF HiLo
  <2>2. HiLo(d, ins) = [s |-> d, trap |-> "HostFault"]
    BY <1>2, <1>10 DEF HiLo
  <2> QED
    BY <1>6, <2>1, <2>2
<1>11. CASE ins.op = "DIVU" /\ b # 0
  <2>1. HiLo(c, ins) = both(c, Wrap(U(a) % U(b)), Wrap(U(a) \div U(b)))
    BY <1>11 DEF HiLo, both, Both
  <2>2. HiLo(d, ins) = both(d, Wrap(U(a) % U(b)), Wrap(U(a) \div U(b)))
    BY <1>2, <1>11 DEF HiLo, both, Both
  <2> QED
    BY <1>4, <2>1, <2>2
<1>12. CASE ins.op = "MFHI"
  BY <1>1, <1>5, <1>12 DEF HiLo
<1>13. CASE ins.op = "MFLO"
  BY <1>1, <1>5, <1>13 DEF HiLo
<1>14. CASE ins.op = "MTHI"
  <2>1. HiLo(c, ins) = both(c, a, c.r.Lo)
    BY <1>14 DEF HiLo, both, Both
  <2>2. HiLo(d, ins) = both(d, a, c.r.Lo)
    BY <1>1, <1>2, <1>14 DEF HiLo, both, Both
  <2> QED
    BY <1>4, <2>1, <2>2
<1>15. CASE ins.op = "MTLO"
  <2>1. HiLo(c, ins) = both(c, c.r.Hi, a)
    BY <1>15 DEF HiLo, both, Both
  <2>2. HiLo(d, ins) = both(d, c.r.Hi, a)
    BY <1>1, <1>2, <1>15 DEF HiLo, both, Both
  <2> QED
    BY <1>4, <2>1, <2>2
<1> QED
  BY <1>7, <1>8, <1>9, <1>10, <1>11, <1>12, <1>13, <1>14, <1>15 DEF HiLoOps

\* The link register is written before the others are read: JALR may jump to
\* the address it has just written.
LEMMA LinkedTogether ==
  ASSUME NEW c, NEW d, NEW ins, Decoded(ins), Seen(c, d, Uses(ins)),
         Uses(ins) = {ins.rs, ins.rt, ins.rd} \cup (IF ins.op \in LinkOps THEN {"r31"} ELSE {})
  PROVE  /\ Alike(Linked(c, ins), Linked(d, ins))
         /\ Reg(Linked(c, ins), ins.rs) = Reg(Linked(d, ins), ins.rs)
         /\ Reg(Linked(c, ins), ins.rt) = Reg(Linked(d, ins), ins.rt)
<1>1. /\ Alike(c, d) /\ Formed(c) /\ Formed(d)
      /\ ins.rs \in GPR /\ ins.rt \in GPR
      /\ Reg(c, ins.rs) = Reg(d, ins.rs) /\ Reg(c, ins.rt) = Reg(d, ins.rt)
  BY DEF Seen, Together, Alike, Decoded
<1>2. CASE ins.op \notin LinkOps
  BY <1>1, <1>2 DEF Linked
<1>3. CASE ins.op \in LinkOps
  <2> DEFINE n == IF ins.op = "JALR" THEN ins.rd ELSE "r31"
             v == Wrap(c.r.NextPC + 4)
  <2>1. n \in GPR /\ (n # "r0" => n # c.r.LoadReg /\ n # d.r.LoadReg)
    <3>1. n \in Uses(ins)
      BY <1>3
    <3> QED
      BY <3>1 DEF Seen
  <2>2. v = Wrap(d.r.NextPC + 4)
    BY <1>1 DEF Alike
  <2> HIDE DEF n, v
  <2>3. Linked(c, ins) = Sets(c, n, v)
    BY <1>3 DEF Linked, n, v
  <2>4. Linked(d, ins) = Sets(d, n, v)
    BY <1>3, <2>2 DEF Linked, n
  <2>5. Alike(Sets(c, n, v), Sets(d, n, v))
    BY <1>1, <2>1, SetsTogether
  <2>6. \A k \in GPR : /\ Reg(Sets(c, n, v), k) = IF k = n THEN v ELSE Reg(c, k)
                       /\ Reg(Sets(d, n, v), k) = IF k = n THEN v ELSE Reg(d, k)
    BY <1>1, <2>1, SetsLeaves DEF Reg
  <2> QED
    BY <1>1, <2>3, <2>4, <2>5, <2>6
<1> QED
  BY <1>2, <1>3

LEMMA BranchTogether ==
  ASSUME NEW c, NEW d, NEW ins, Decoded(ins), Seen(c, d, Uses(ins)),
         Uses(ins) = {ins.rs, ins.rt, ins.rd} \cup (IF ins.op \in LinkOps THEN {"r31"} ELSE {})
  PROVE  Agree(Branch(c, ins), Branch(d, ins))
<1> DEFINE t == Linked(c, ins)
           u == Linked(d, ins)
           pcAfter == IF Taken(ins.op, Reg(t, ins.rs), Reg(t, ins.rt))
                      THEN Wrap(c.r.NextPC + 4 * ins.extra) ELSE Sequential(c)
<1>1. /\ Alike(t, u)
      /\ Reg(t, ins.rs) = Reg(u, ins.rs) /\ Reg(t, ins.rt) = Reg(u, ins.rt)
  BY LinkedTogether
<1>2. c.r.NextPC = d.r.NextPC /\ Sequential(c) = Sequential(d)
  BY NextSame DEF Seen, Together
<1>3. Branch(c, ins) = Finished(t, "r0", 0, pcAfter)
  BY DEF Branch
<1> HIDE DEF t, u
<1>4. Branch(d, ins) = Finished(u, "r0", 0, pcAfter)
  BY <1>1, <1>2 DEF Branch, u
<1>5. "r0" \in GPR
  BY MipsSimAssumption
<1> HIDE DEF pcAfter
<1> QED
  BY <1>1, <1>3, <1>4, <1>5, FinishedTogether DEF Agree

LEMMA JumpTogether ==
  ASSUME NEW c, NEW d, NEW ins, Decoded(ins), Seen(c, d, Uses(ins)),
         Uses(ins) = {ins.rs, ins.rt, ins.rd} \cup (IF ins.op \in LinkOps THEN {"r31"} ELSE {})
  PROVE  Agree(Jump(c, ins), Jump(d, ins))
<1> DEFINE t == Linked(c, ins)
           u == Linked(d, ins)
           region == Pow2[Width - Width \div 8]
           top    == U(Sequential(c)) - (U(Sequential(c)) % region)
           pcAfter == IF ins.op \in {"JR", "JALR"} THEN Reg(t, ins.rs)
                      ELSE Wrap(top + ((4 * ins.extra) % region))
<1>1. Alike(t, u) /\ Reg(t, ins.rs) = Reg(u, ins.rs)
  BY LinkedTogether
<1>2. Sequential(c) = Sequential(d)
  BY NextSame DEF Seen, Together
<1>3. Jump(c, ins) = Finished(t, "r0", 0, pcAfter)
  BY DEF Jump
<1> HIDE DEF t, u
<1>4. Jump(d, ins) = Finished(u, "r0", 0, pcAfter)
  BY <1>1, <1>2 DEF Jump, u
<1>5. "r0" \in GPR
  BY MipsSimAssumption
<1> HIDE DEF pcAfter
<1> QED
  BY <1>1, <1>3, <1>4, <1>5, FinishedTogether DEF Agree

LEMMA LoadTogether ==
  ASSUME NEW c, NEW d, NEW ins, Decoded(ins), Seen(c, d, {ins.rs})
  PROVE  Agree(Load(c, ins), Load(d, ins))
<1> DEFINE addr == Wrap(Reg(c, ins.rs) + ins.extra)
           n    == SizeOf(ins.op)
           x    == ReadMem(c, addr, n)
           y    == ReadMem(d, addr, n)
           v    == IF ins.op \in {"LBU", "LHU"} THEN x.value ELSE Extended(x.value, n)
<1>1. Reg(c, ins.rs) = Reg(d, ins.rs) /\ Alike(c, d)
  BY DEF Seen, Together
<1>2. x.trap = y.trap /\ x.value = y.value /\ Alike(x.s, y.s)
  BY <1>1, ReadTogether
<1>3. Sequential(c) = Sequential(d)
  BY <1>1, NextSame
<1>4. Load(c, ins) = IF n > 1 /\ addr % n # 0 THEN Raised(c, "AddressError", addr)
                     ELSE IF x.trap # "none" THEN Raised(c, x.trap, addr)
                     ELSE Finished(x.s, ins.rt, v, Sequential(c))
  BY DEF Load
<1> HIDE DEF x
<1>5. Load(d, ins) = IF n > 1 /\ addr % n # 0 THEN Raised(d, "AddressError", addr)
                     ELSE IF y.trap # "none" THEN Raised(d, y.trap, addr)
                     ELSE Finished(y.s, ins.rt, v, Sequential(d))
  <2>1. Load(d, ins) = IF n > 1 /\ addr % n # 0 THEN Raised(d, "AddressError", addr)
                       ELSE IF y.trap # "none" THEN Raised(d, y.trap, addr)
                       ELSE Finished(y.s, ins.rt, IF ins.op \in {"LBU", "LHU"} THEN y.value
                                                  ELSE Extended(y.value, n), Sequential(d))
    BY <1>1 DEF Load
  <2> HIDE DEF n, addr, y
  <2> QED
    BY <1>2, <2>1
<1> HIDE DEF n, addr, y, v
<1>6. /\ Agree(Raised(c, "AddressError", addr), Raised(d, "AddressError", addr))
      /\ Agree(Raised(c, x.trap, addr), Raised(d, x.trap, addr))
  BY <1>1, RaisedTogether DEF Agree
<1>7. Agree(Finished(x.s, ins.rt, v, Sequential(c)), Finished(y.s, ins.rt, v, Sequential(c)))
  BY <1>2, FinishedTogether DEF Agree, Decoded
<1> QED
  BY <1>2, <1>3, <1>4, <1>5, <1>6, <1>7

\* What LWL and LWR leave of a register is what is pending for it, if anything
\* is, and otherwise what it holds: the same in both.
LEMMA LoadPartTogether ==
  ASSUME NEW c, NEW d, NEW ins, Decoded(ins), Seen(c, d, {ins.rs})
  PROVE  Agree(LoadPart(c, ins), LoadPart(d, ins))
<1> DEFINE addr   == Wrap(Reg(c, ins.rs) + ins.extra)
           byte   == addr % 4
           x      == ReadMem(c, addr - byte, 4)
           y      == ReadMem(d, addr - byte, 4)
           new(old) == IF ins.op = "LWL"
                       THEN Wrap(Low(old, 3 - byte) + Up(x.value, 3 - byte))
                       ELSE Wrap(High(old, 4 - byte) + Down(x.value, byte))
           v == new(OldValue(c, ins.rt))
           w == new(OldValue(d, ins.rt))
<1>1. Reg(c, ins.rs) = Reg(d, ins.rs) /\ Alike(c, d)
  BY DEF Seen, Together
<1>2. x.trap = y.trap /\ x.value = y.value /\ Alike(x.s, y.s)
  BY <1>1, ReadTogether
<1>3. Sequential(c) = Sequential(d)
  BY <1>1, NextSame
<1>4. LoadPart(c, ins) = IF x.trap # "none" THEN Raised(c, x.trap, addr - byte)
                         ELSE Finished(x.s, ins.rt, v, Sequential(c))
  BY DEF LoadPart
<1> HIDE DEF x
<1>5. LoadPart(d, ins) = IF y.trap # "none" THEN Raised(d, y.trap, addr - byte)
                         ELSE Finished(y.s, ins.rt, w, Sequential(d))
  <2>1. LoadPart(d, ins) =
          IF y.trap # "none" THEN Raised(d, y.trap, addr - byte)
          ELSE Finished(y.s, ins.rt,
                        IF ins.op = "LWL"
                        THEN Wrap(Low(OldValue(d, ins.rt), 3 - byte) + Up(y.value, 3 - byte))
                        ELSE Wrap(High(OldValue(d, ins.rt), 4 - byte) + Down(y.value, byte)),
                        Sequential(d))
    BY <1>1 DEF LoadPart
  <2> HIDE DEF byte, addr, y
  <2> QED
    BY <1>2, <2>1
<1>6. ins.rt # "r0" => v = w
  <2> SUFFICES ASSUME ins.rt # "r0" PROVE OldValue(c, ins.rt) = OldValue(d, ins.rt)
    OBVIOUS
  <2>1. OldValue(c, ins.rt) = Holds(c, ins.rt) /\ OldValue(d, ins.rt) = Holds(d, ins.rt)
    BY DEF OldValue, Holds, Reg
  <2> QED
    BY <1>1, <2>1 DEF Alike, Decoded
<1> HIDE DEF byte, addr, y, new, v, w
<1>7. Agree(Raised(c, x.trap, addr - byte), Raised(d, x.trap, addr - byte))
  BY <1>1, RaisedTogether DEF Agree
<1>8. Agree(Finished(x.s, ins.rt, v, Sequential(c)), Finished(y.s, ins.rt, w, Sequential(c)))
  BY <1>2, <1>6, FinishedTogether DEF Agree, Decoded
<1> QED
  BY <1>2, <1>3, <1>4, <1>5, <1>7, <1>8

LEMMA StoreTogether ==
  ASSUME NEW c, NEW d, NEW ins, Decoded(ins), Seen(c, d, {ins.rs, ins.rt, ins.rd})
  PROVE  Agree(Store(c, ins), Store(d, ins))
<1> DEFINE addr == Wrap(Reg(c, ins.rs) + ins.extra)
           n    == SizeOf(ins.op)
           x    == WriteMem(c, addr, n, Reg(c, ins.rt))
           y    == WriteMem(d, addr, n, Reg(c, ins.rt))
<1>1. Reg(c, ins.rs) = Reg(d, ins.rs) /\ Reg(c, ins.rt) = Reg(d, ins.rt) /\ Alike(c, d)
  BY DEF Seen, Together
<1>2. x.trap = y.trap /\ Alike(x.s, y.s)
  BY <1>1, WriteTogether
<1>3. Sequential(c) = Sequential(d)
  BY <1>1, NextSame
<1>4. Store(c, ins) = IF x.trap # "none" THEN Raised(c, x.trap, addr)
                      ELSE Finished(x.s, "r0", 0, Sequential(c))
  BY DEF Store
<1>5. Store(d, ins) = IF y.trap # "none" THEN Raised(d, y.trap, addr)
                      ELSE Finished(y.s, "r0", 0, Sequential(d))
  BY <1>1 DEF Store
<1> HIDE DEF x, y, addr, n
<1>6. Agree(Raised(c, x.trap, addr), Raised(d, x.trap, addr))
  BY <1>1, RaisedTogether DEF Agree
<1>7. Agree(Finished(x.s, "r0", 0, Sequential(c)), Finished(y.s, "r0", 0, Sequential(c)))
  BY <1>2, FinishedTogether, MipsSimAssumption DEF Agree
<1> QED
  BY <1>2, <1>3, <1>4, <1>5, <1>6, <1>7

LEMMA StorePartTogether ==
  ASSUME NEW c, NEW d, NEW ins, Decoded(ins), Seen(c, d, {ins.rs, ins.rt, ins.rd})
  PROVE  Agree(StorePart(c, ins), StorePart(d, ins))
<1> DEFINE addr == Wrap(Reg(c, ins.rs) + ins.extra)
           byte == addr % 4
           w    == Reg(c, ins.rt)
           x    == ReadMem(c, addr - byte, 4)
           y    == ReadMem(d, addr - byte, 4)
           new  == IF ins.op = "SWL" THEN Wrap(High(x.value, byte + 1) + Down(w, 3 - byte))
                   ELSE Wrap(Low(x.value, byte) + Up(w, byte))
           xx   == WriteMem(x.s, addr - byte, 4, new)
           yy   == WriteMem(y.s, addr - byte, 4, new)
<1>1. Reg(c, ins.rs) = Reg(d, ins.rs) /\ Reg(c, ins.rt) = Reg(d, ins.rt) /\ Alike(c, d)
  BY DEF Seen, Together
<1>2. x.trap = y.trap /\ x.value = y.value /\ Alike(x.s, y.s)
  BY <1>1, ReadTogether
<1>3. Sequential(c) = Sequential(d)
  BY <1>1, NextSame
<1>4. StorePart(c, ins) = IF x.trap # "none" THEN Raised(c, x.trap, addr - byte)
                          ELSE IF xx.trap # "none" THEN Raised(x.s, xx.trap, addr - byte)
                          ELSE Finished(xx.s, "r0", 0, Sequential(c))
  BY DEF StorePart
<1> HIDE DEF x
<1>5. StorePart(d, ins) = IF y.trap # "none" THEN Raised(d, y.trap, addr - byte)
                          ELSE IF yy.trap # "none" THEN Raised(y.s, yy.trap, addr - byte)
                          ELSE Finished(yy.s, "r0", 0, Sequential(d))
  <2> DEFINE other == IF ins.op = "SWL" THEN Wrap(High(y.value, byte + 1) + Down(w, 3 - byte))
                      ELSE Wrap(Low(y.value, byte) + Up(w, byte))
             zz    == WriteMem(y.s, addr - byte, 4, other)
  <2>1. StorePart(d, ins) = IF y.trap # "none" THEN Raised(d, y.trap, addr - byte)
                            ELSE IF zz.trap # "none" THEN Raised(y.s, zz.trap, addr - byte)
                            ELSE Finished(zz.s, "r0", 0, Sequential(d))
    BY <1>1 DEF StorePart
  <2>2. other = new
    <3> HIDE DEF y, byte, w
    <3> QED
      BY <1>2
  <2> HIDE DEF other, new, y
  <2>3. zz = yy
    BY <2>2
  <2> HIDE DEF zz, yy, addr, byte
  <2> QED
    BY <2>1, <2>3
<1> HIDE DEF y, byte, addr, w, new
<1>6. xx.trap = yy.trap /\ Alike(xx.s, yy.s)
  BY <1>2, WriteTogether
<1> HIDE DEF xx, yy
<1>7. /\ Agree(Raised(c, x.trap, addr - byte), Raised(d, x.trap, addr - byte))
      /\ Agree(Raised(x.s, xx.trap, addr - byte), Raised(y.s, xx.trap, addr - byte))
  BY <1>1, <1>2, RaisedTogether DEF Agree
<1>8. Agree(Finished(xx.s, "r0", 0, Sequential(c)), Finished(yy.s, "r0", 0, Sequential(c)))
  BY <1>6, FinishedTogether, MipsSimAssumption DEF Agree
<1> QED
  BY <1>2, <1>3, <1>4, <1>5, <1>6, <1>7, <1>8

\* The code of an instruction is that of its class.
LEMMA Dispatch ==
  ASSUME NEW s, NEW ins
  PROVE
    /\ ins.op \in RegisterOps \cup ImmediateOps => Execute(s, ins) = Compute(s, ins)
    /\ ins.op \in CheckedOps => Execute(s, ins) = CheckedArithmetic(s, ins)
    /\ ins.op \in HiLoOps => Execute(s, ins) = HiLo(s, ins)
    /\ ins.op \in BranchOps => Execute(s, ins) = Branch(s, ins)
    /\ ins.op \in JumpOps => Execute(s, ins) = Jump(s, ins)
    /\ ins.op \in LoadOps => Execute(s, ins) = Load(s, ins)
    /\ ins.op \in {"LWL", "LWR"} => Execute(s, ins) = LoadPart(s, ins)
    /\ ins.op \in {"SWL", "SWR"} => Execute(s, ins) = StorePart(s, ins)
    /\ ins.op \in StoreOps => Execute(s, ins) = Store(s, ins)
    /\ \/ ins.op \in RegisterOps \cup ImmediateOps
       \/ ins.op \in CheckedOps
       \/ ins.op \in HiLoOps
       \/ ins.op \in BranchOps
       \/ ins.op \in JumpOps
       \/ ins.op \in LoadOps
       \/ ins.op \in {"LWL", "LWR"}
       \/ ins.op \in {"SWL", "SWR"}
       \/ ins.op \in StoreOps
       \/ Execute(s, ins) = Raised(s, "Syscall", 0)
       \/ Execute(s, ins) = Raised(s, "IllegalInstr", 0)
<1> DEFINE op == ins.op
<1>1. ASSUME op \in RegisterOps \cup ImmediateOps PROVE Execute(s, ins) = Compute(s, ins)
  <2>1. /\ op # "SYSCALL"
        /\ op \notin CheckedOps
        /\ op \notin HiLoOps
        /\ op \notin BranchOps
        /\ op \notin JumpOps
        /\ op \notin LoadOps
        /\ op \notin {"LWL", "LWR"}
        /\ op \notin {"SWL", "SWR"}
        /\ op \notin StoreOps
    BY <1>1 DEF RegisterOps, ImmediateOps, CheckedOps, HiLoOps, BranchOps, JumpOps, LoadOps, StoreOps
  <2> QED
    BY <1>1, <2>1 DEF Execute
<1>2. ASSUME op \in CheckedOps PROVE Execute(s, ins) = CheckedArithmetic(s, ins)
  <2>1. /\ op # "SYSCALL"
        /\ op \notin RegisterOps \cup ImmediateOps
        /\ op \notin HiLoOps
        /\ op \notin BranchOps
        /\ op \notin JumpOps
        /\ op \notin LoadOps
        /\ op \notin {"LWL", "LWR"}
        /\ op \notin {"SWL", "SWR"}
        /\ op \notin StoreOps
    BY <1>2 DEF RegisterOps, ImmediateOps, CheckedOps, HiLoOps, BranchOps, JumpOps, LoadOps, StoreOps
  <2> QED
    BY <1>2, <2>1 DEF Execute
<1>3. ASSUME op \in HiLoOps PROVE Execute(s, ins) = HiLo(s, ins)
  <2>1. /\ op # "SYSCALL"
        /\ op \notin RegisterOps \cup ImmediateOps
        /\ op \notin CheckedOps
        /\ op \notin BranchOps
        /\ op \notin JumpOps
        /\ op \notin LoadOps
        /\ op \notin {"LWL", "LWR"}
        /\ op \notin {"SWL", "SWR"}
        /\ op \notin StoreOps
    BY <1>3 DEF RegisterOps, ImmediateOps, CheckedOps, HiLoOps, BranchOps, JumpOps, LoadOps, StoreOps
  <2> QED
    BY <1>3, <2>1 DEF Execute
<1>4. ASSUME op \in BranchOps PROVE Execute(s, ins) = Branch(s, ins)
  <2>1. /\ op # "SYSCALL"
        /\ op \notin RegisterOps \cup ImmediateOps
        /\ op \notin CheckedOps
        /\ op \notin HiLoOps
        /\ op \notin JumpOps
        /\ op \notin LoadOps
        /\ op \notin {"LWL", "LWR"}
        /\ op \notin {"SWL", "SWR"}
        /\ op \notin StoreOps
    BY <1>4 DEF RegisterOps, ImmediateOps, CheckedOps, HiLoOps, BranchOps, JumpOps, LoadOps, StoreOps
  <2> QED
    BY <1>4, <2>1 DEF Execute
<1>5. ASSUME op \in JumpOps PROVE Execute(s, ins) = Jump(s, ins)
  <2>1. /\ op # "SYSCALL"
        /\ op \notin RegisterOps \cup ImmediateOps
        /\ op \notin CheckedOps
        /\ op \notin HiLoOps
        /\ op \notin BranchOps
        /\ op \notin LoadOps
        /\ op \notin {"LWL", "LWR"}
        /\ op \notin {"SWL", "SWR"}
        /\ op \notin StoreOps
    BY <1>5 DEF RegisterOps, ImmediateOps, CheckedOps, HiLoOps, BranchOps, JumpOps, LoadOps, StoreOps
  <2> QED
    BY <1>5, <2>1 DEF Execute
<1>6. ASSUME op \in LoadOps PROVE Execute(s, ins) = Load(s, ins)
  <2>1. /\ op # "SYSCALL"
        /\ op \notin RegisterOps \cup ImmediateOps
        /\ op \notin CheckedOps
        /\ op \notin HiLoOps
        /\ op \notin BranchOps
        /\ op \notin JumpOps
        /\ op \notin {"LWL", "LWR"}
        /\ op \notin {"SWL", "SWR"}
        /\ op \notin StoreOps
    BY <1>6 DEF RegisterOps, ImmediateOps, CheckedOps, HiLoOps, BranchOps, JumpOps, LoadOps, StoreOps
  <2> QED
    BY <1>6, <2>1 DEF Execute
<1>7. ASSUME op \in {"LWL", "LWR"} PROVE Execute(s, ins) = LoadPart(s, ins)
  <2>1. /\ op # "SYSCALL"
        /\ op \notin RegisterOps \cup ImmediateOps
        /\ op \notin CheckedOps
        /\ op \notin HiLoOps
        /\ op \notin BranchOps
        /\ op \notin JumpOps
        /\ op \notin LoadOps
        /\ op \notin {"SWL", "SWR"}
        /\ op \notin StoreOps
    BY <1>7 DEF RegisterOps, ImmediateOps, CheckedOps, HiLoOps, BranchOps, JumpOps, LoadOps, StoreOps
  <2> QED
    BY <1>7, <2>1 DEF Execute
<1>8. ASSUME op \in {"SWL", "SWR"} PROVE Execute(s, ins) = StorePart(s, ins)
  <2>1. /\ op # "SYSCALL"
        /\ op \notin RegisterOps \cup ImmediateOps
        /\ op \notin CheckedOps
        /\ op \notin HiLoOps
        /\ op \notin BranchOps
        /\ op \notin JumpOps
        /\ op \notin LoadOps
        /\ op \notin {"LWL", "LWR"}
        /\ op \notin StoreOps
    BY <1>8 DEF RegisterOps, ImmediateOps, CheckedOps, HiLoOps, BranchOps, JumpOps, LoadOps, StoreOps
  <2> QED
    BY <1>8, <2>1 DEF Execute
<1>9. ASSUME op \in StoreOps PROVE Execute(s, ins) = Store(s, ins)
  <2>1. /\ op # "SYSCALL"
        /\ op \notin RegisterOps \cup ImmediateOps
        /\ op \notin CheckedOps
        /\ op \notin HiLoOps
        /\ op \notin BranchOps
        /\ op \notin JumpOps
        /\ op \notin LoadOps
        /\ op \notin {"LWL", "LWR"}
        /\ op \notin {"SWL", "SWR"}
    BY <1>9 DEF RegisterOps, ImmediateOps, CheckedOps, HiLoOps, BranchOps, JumpOps, LoadOps, StoreOps
  <2> QED
    BY <1>9, <2>1 DEF Execute
<1>10. ASSUME op \notin RegisterOps \cup ImmediateOps /\ op \notin CheckedOps /\ op \notin HiLoOps /\ op \notin BranchOps /\ op \notin JumpOps /\ op \notin LoadOps /\ op \notin {"LWL", "LWR"} /\ op \notin {"SWL", "SWR"} /\ op \notin StoreOps
       PROVE  \/ Execute(s, ins) = Raised(s, "Syscall", 0)
              \/ Execute(s, ins) = Raised(s, "IllegalInstr", 0)
  BY <1>10 DEF Execute
<1> QED
  BY <1>1, <1>2, <1>3, <1>4, <1>5, <1>6, <1>7, <1>8, <1>9, <1>10

\* A processor with interrupts and one without do the same with an instruction
\* that uses no register whose load is pending.
LEMMA ExecuteTogether ==
  ASSUME NEW c, NEW d, NEW ins, Decoded(ins), Seen(c, d, Uses(ins))
  PROVE  Agree(Execute(c, ins), Execute(d, ins))
<1>1. Seen(c, d, {ins.rs}) /\ Alike(c, d)
  BY DEF Uses, Seen, Together
<1>2. ASSUME ins.op \notin LoadOps \cup {"LWL", "LWR"}
      PROVE  /\ Uses(ins) = {ins.rs, ins.rt, ins.rd} \cup (IF ins.op \in LinkOps THEN {"r31"} ELSE {})
             /\ Seen(c, d, {ins.rs, ins.rt, ins.rd})
  BY <1>2 DEF Uses, Seen
<1>3. CASE ins.op \in RegisterOps \cup ImmediateOps
  <2>1. ins.op \notin LoadOps \cup {"LWL", "LWR"}
    BY <1>3 DEF LoadOps, RegisterOps, ImmediateOps
  <2>2. Execute(c, ins) = Compute(c, ins) /\ Execute(d, ins) = Compute(d, ins)
    BY <1>3, Dispatch
  <2> QED
    BY <1>2, <1>3, <2>1, <2>2, ComputeTogether
<1>4. CASE ins.op \in CheckedOps
  <2>1. ins.op \notin LoadOps \cup {"LWL", "LWR"}
    BY <1>4 DEF LoadOps, CheckedOps
  <2>2. Execute(c, ins) = CheckedArithmetic(c, ins) /\ Execute(d, ins) = CheckedArithmetic(d, ins)
    BY <1>4, Dispatch
  <2> QED
    BY <1>2, <1>4, <2>1, <2>2, CheckedTogether
<1>5. CASE ins.op \in HiLoOps
  <2>1. ins.op \notin LoadOps \cup {"LWL", "LWR"}
    BY <1>5 DEF LoadOps, HiLoOps
  <2>2. Execute(c, ins) = HiLo(c, ins) /\ Execute(d, ins) = HiLo(d, ins)
    BY <1>5, Dispatch
  <2> QED
    BY <1>2, <1>5, <2>1, <2>2, HiLoTogether
<1>6. CASE ins.op \in BranchOps
  <2>1. ins.op \notin LoadOps \cup {"LWL", "LWR"}
    BY <1>6 DEF LoadOps, BranchOps
  <2>2. Execute(c, ins) = Branch(c, ins) /\ Execute(d, ins) = Branch(d, ins)
    BY <1>6, Dispatch
  <2> QED
    BY <1>2, <1>6, <2>1, <2>2, BranchTogether
<1>7. CASE ins.op \in JumpOps
  <2>1. ins.op \notin LoadOps \cup {"LWL", "LWR"}
    BY <1>7 DEF LoadOps, JumpOps
  <2>2. Execute(c, ins) = Jump(c, ins) /\ Execute(d, ins) = Jump(d, ins)
    BY <1>7, Dispatch
  <2> QED
    BY <1>2, <1>7, <2>1, <2>2, JumpTogether
<1>8. CASE ins.op \in LoadOps
  BY <1>1, <1>8, Dispatch, LoadTogether
<1>9. CASE ins.op \in {"LWL", "LWR"}
  BY <1>1, <1>9, Dispatch, LoadPartTogether
<1>10. CASE ins.op \in {"SWL", "SWR"}
  <2>1. ins.op \notin LoadOps \cup {"LWL", "LWR"}
    BY <1>10 DEF LoadOps
  <2>2. Execute(c, ins) = StorePart(c, ins) /\ Execute(d, ins) = StorePart(d, ins)
    BY <1>10, Dispatch
  <2> QED
    BY <1>2, <1>10, <2>1, <2>2, StorePartTogether
<1>11. CASE ins.op \in StoreOps
  <2>1. ins.op \notin LoadOps \cup {"LWL", "LWR"}
    BY <1>11 DEF LoadOps, StoreOps
  <2>2. Execute(c, ins) = Store(c, ins) /\ Execute(d, ins) = Store(d, ins)
    BY <1>11, Dispatch
  <2> QED
    BY <1>2, <1>11, <2>1, <2>2, StoreTogether
<1>12. ASSUME NEW which PROVE Agree(Raised(c, which, 0), Raised(d, which, 0))
  BY <1>1, RaisedTogether DEF Agree
<1>13. CASE ins.op \notin RegisterOps \cup ImmediateOps \cup CheckedOps \cup HiLoOps \cup BranchOps
                        \cup JumpOps \cup LoadOps \cup {"LWL", "LWR", "SWL", "SWR"} \cup StoreOps
  <2>1. PICK which : Execute(c, ins) = Raised(c, which, 0) /\ Execute(d, ins) = Raised(d, which, 0)
    BY <1>13 DEF Execute
  <2> QED
    BY <1>12, <2>1
<1> QED
  BY <1>3, <1>4, <1>5, <1>6, <1>7, <1>8, <1>9, <1>10, <1>11, <1>13

LEMMA InstructionTogether ==
  ASSUME NEW c, NEW d, NEW ins, Decoded(ins), Together(c, d),
         d.r.LoadReg = "r0" \/ d.r.LoadReg \notin Uses(ins)
  PROVE  Agree(OneInstruction(c, ins), OneInstruction(d, ins))
<1> DEFINE x == ReadMem(c, c.r.PC, 4)
           y == ReadMem(d, c.r.PC, 4)
<1>1. c.r.PC = d.r.PC /\ Alike(c, d)
  BY DEF Together, Alike
<1>2. Uses(ins) \in SUBSET GPR
  BY MipsSimAssumption DEF Uses, Decoded
<1>3. Seen(c, d, Uses(ins))
  BY <1>2, SeenFirst
<1>4. x.trap = y.trap /\ Seen(x.s, y.s, Uses(ins))
  BY <1>3, SeenAfterRead
<1>5. OneInstruction(c, ins) = IF x.trap # "none" THEN Raised(c, x.trap, c.r.PC) ELSE Execute(x.s, ins)
  BY DEF OneInstruction
<1>6. OneInstruction(d, ins) = IF y.trap # "none" THEN Raised(d, y.trap, c.r.PC) ELSE Execute(y.s, ins)
  BY <1>1 DEF OneInstruction
<1> HIDE DEF x, y
<1>7. Agree(Raised(c, x.trap, c.r.PC), Raised(d, x.trap, c.r.PC))
  BY <1>1, RaisedTogether DEF Agree
<1>8. Agree(Execute(x.s, ins), Execute(y.s, ins))
  BY <1>4, ExecuteTogether
<1> QED
  BY <1>4, <1>5, <1>6, <1>7, <1>8

-----------------------------------------------------------------------------
(* What an instruction leaves when it traps *)

Traps == {"PageFault", "ReadOnly", "BusError", "AddressError", "Overflow", "IllegalInstr", "Syscall"}

\* An instruction goes on to the next; or it traps, with nothing done but its
\* marks in the page table; or the host's division stops it all.
Outcome(s, o) ==
  \/ \E t, value, pcAfter : \E reg \in GPR : Formed(t) /\ o = Finished(t, reg, value, pcAfter)
  \/ \E p, addr : \E which \in Traps : o = Raised(Turned(s, s.m, p), which, addr)
  \/ \E p : o = [s |-> Turned(s, s.m, p), trap |-> "HostFault"]

LEMMA TurnedFormed ==
  ASSUME NEW s, Formed(s), NEW m, NEW p
  PROVE  /\ Formed(Turned(s, m, p))
         /\ Turned(s, m, p).r = s.r /\ Turned(s, m, p).m = m /\ Turned(s, m, p).p = p
<1>1. Alike(s, s)
  BY DEF Alike
<1>2. Formed(Turned(s, m, p)) /\ Turned(s, m, p).r = s.r
  BY <1>1, TurnedTogether DEF Alike
<1> QED
  BY <1>2, TurnedIs

LEMMA TurnedTwice ==
  ASSUME NEW s, Formed(s), NEW p, NEW q
  PROVE  /\ Turned(s, s.m, s.p) = s
         /\ Turned(Turned(s, s.m, p), Turned(s, s.m, p).m, q) = Turned(s, s.m, q)
<1>1. s = [r |-> s.r, m |-> s.m, p |-> s.p]
  BY Zenon DEF Formed
<1>2. Turned(s, s.m, s.p) = s
  <2>1. Turned(s, s.m, s.p) = [r |-> s.r, m |-> s.m, p |-> s.p]
    BY TurnedIs
  <2> QED
    BY <1>1, <2>1, Zenon
<1>3. Turned(s, s.m, q) = [r |-> s.r, m |-> s.m, p |-> q]
  BY TurnedIs
<1> DEFINE t == Turned(s, s.m, p)
<1>4. Formed(t) /\ t.r = s.r /\ t.m = s.m
  BY TurnedFormed
<1> HIDE DEF t
<1>5. Turned(t, t.m, q) = [r |-> s.r, m |-> s.m, p |-> q]
  BY <1>4, TurnedIs
<1> QED
  BY <1>2, <1>3, <1>5, Zenon DEF t

LEMMA ReadOutcome ==
  ASSUME NEW s, Formed(s), NEW addr, NEW size
  PROVE  LET x == ReadMem(s, addr, size)
         IN /\ x.trap # "none" => x.trap \in Traps
            /\ \E p : x.s = Turned(s, s.m, p)
            /\ Formed(x.s)
<1> DEFINE t == Translate(s.p, addr, size, FALSE)
<1>1. ReadMem(s, addr, size) =
        [trap |-> t.trap, s |-> Turned(s, s.m, t.p),
         value |-> IF t.trap = "none" THEN BytesAt(s.m, t.phys, size) ELSE 0]
  BY ReadIs
<1>2. t.trap # "none" => t.trap \in Traps
  BY TrapNames DEF Traps
<1> HIDE DEF t
<1> QED
  BY <1>1, <1>2, TurnedFormed

LEMMA WriteOutcome ==
  ASSUME NEW s, Formed(s), NEW addr, NEW size, NEW value
  PROVE  LET x == WriteMem(s, addr, size, value)
         IN (x.trap # "none" => x.trap \in Traps) /\ Formed(x.s)
<1> DEFINE t == Translate(s.p, addr, size, TRUE)
<1>1. PICK m : WriteMem(s, addr, size, value) =
                 [trap |-> t.trap, s |-> IF t.trap # "none" THEN s ELSE Turned(s, m, t.p)]
  BY WriteIs
<1>2. t.trap # "none" => t.trap \in Traps
  BY TrapNames DEF Traps
<1> HIDE DEF t
<1> QED
  BY <1>1, <1>2, TurnedFormed

LEMMA RaisedOutcome ==
  ASSUME NEW s, Formed(s), NEW p, NEW which \in Traps, NEW addr
  PROVE  Outcome(s, Raised(s, which, addr)) /\ Outcome(s, Raised(Turned(s, s.m, p), which, addr))
<1>1. Turned(s, s.m, s.p) = s
  BY TurnedTwice
<1> QED
  BY <1>1, Zenon DEF Outcome

LEMMA FinishedOutcome ==
  ASSUME NEW s, NEW t, Formed(t), NEW reg \in GPR, NEW value, NEW pcAfter
  PROVE  Outcome(s, Finished(t, reg, value, pcAfter))
BY Zenon DEF Outcome

LEMMA GivesOutcome ==
  ASSUME NEW s, Formed(s), NEW n \in GPR, NEW value
  PROVE  Outcome(s, Gives(s, n, value))
<1>1. Formed(Sets(s, n, value))
  BY SetsLeaves
<1> QED
  BY <1>1, MipsSimAssumption, FinishedOutcome DEF Gives

LEMMA HiLoOutcome ==
  ASSUME NEW s, Formed(s), NEW ins, Decoded(ins), ins.op \in HiLoOps
  PROVE  Outcome(s, HiLo(s, ins))
<1> DEFINE a == Reg(s, ins.rs)
           b == Reg(s, ins.rt)
           both(hi, lo) == Finished(Both(s, hi, lo), "r0", 0, Sequential(s))
<1>1. \A hi, lo : Outcome(s, both(hi, lo))
  BY BothLeaves, FinishedOutcome, MipsSimAssumption
<1>2. \A v : Outcome(s, Gives(s, ins.rd, v))
  BY GivesOutcome DEF Decoded
<1>3. Outcome(s, [s |-> s, trap |-> "HostFault"])
  BY TurnedTwice, Zenon DEF Outcome
<1> HIDE DEF both
<1>4. CASE ins.op \in {"MULT", "MULTU"}
  <2> DEFINE p == Mult(a, b, ins.op = "MULT")
  <2>1. HiLo(s, ins) = both(p.hi, p.lo)
    BY <1>4 DEF HiLo, both, Both
  <2> QED
    BY <1>1, <2>1
<1>5. CASE ins.op \in {"DIV", "DIVU"} /\ b = 0
  <2>1. HiLo(s, ins) = both(0, 0)
    BY <1>5 DEF HiLo, both, Both
  <2> QED
    BY <1>1, <2>1
<1>6. CASE ins.op = "DIV" /\ b # 0 /\ Quotient(a, b) \in Word
  <2>1. HiLo(s, ins) = both(Remainder(a, b), Quotient(a, b))
    BY <1>6 DEF HiLo, both, Both
  <2> QED
    BY <1>1, <2>1
<1>7. CASE ins.op = "DIV" /\ b # 0 /\ Quotient(a, b) \notin Word
  <2>1. HiLo(s, ins) = [s |-> s, trap |-> "HostFault"]
    BY <1>7 DEF HiLo
  <2> QED
    BY <1>3, <2>1
<1>8. CASE ins.op = "DIVU" /\ b # 0
  <2>1. HiLo(s, ins) = both(Wrap(U(a) % U(b)), Wrap(U(a) \div U(b)))
    BY <1>8 DEF HiLo, both, Both
  <2> QED
    BY <1>1, <2>1
<1>9. CASE ins.op = "MFHI"
  BY <1>2, <1>9 DEF HiLo
<1>10. CASE ins.op = "MFLO"
  BY <1>2, <1>10 DEF HiLo
<1>11. CASE ins.op = "MTHI"
  <2>1. HiLo(s, ins) = both(a, s.r.Lo)
    BY <1>11 DEF HiLo, both, Both
  <2> QED
    BY <1>1, <2>1
<1>12. CASE ins.op = "MTLO"
  <2>1. HiLo(s, ins) = both(s.r.Hi, a)
    BY <1>12 DEF HiLo, both, Both
  <2> QED
    BY <1>1, <2>1
<1> QED
  BY <1>4, <1>5, <1>6, <1>7, <1>8, <1>9, <1>10, <1>11, <1>12 DEF HiLoOps

LEMMA LinkedFormed ==
  ASSUME NEW s, Formed(s), NEW ins, Decoded(ins)
  PROVE  Formed(Linked(s, ins))
BY SetsLeaves, MipsSimAssumption DEF Linked, Decoded

LEMMA ExecuteOutcome ==
  ASSUME NEW s, Formed(s), NEW ins, Decoded(ins)
  PROVE  Outcome(s, Execute(s, ins))
<1>1. "r0" \in GPR /\ ins.rt \in GPR /\ ins.rd \in GPR
  BY MipsSimAssumption DEF Decoded
<1>2. \A which \in Traps : \A addr, p :
        /\ Outcome(s, Raised(s, which, addr))
        /\ Outcome(s, Raised(Turned(s, s.m, p), which, addr))
  BY RaisedOutcome, Zenon
<1>3. {"Overflow", "AddressError", "Syscall", "IllegalInstr"} \subseteq Traps
  BY DEF Traps
<1>4. Outcome(s, Compute(s, ins))
  BY <1>1, GivesOutcome DEF Compute
<1>5. Outcome(s, CheckedArithmetic(s, ins))
  BY <1>1, <1>2, <1>3, GivesOutcome DEF CheckedArithmetic
<1>6. Outcome(s, Branch(s, ins)) /\ Outcome(s, Jump(s, ins))
  BY <1>1, LinkedFormed, FinishedOutcome DEF Branch, Jump
<1>7. Outcome(s, Load(s, ins))
  <2> DEFINE addr == Wrap(Reg(s, ins.rs) + ins.extra)
             n    == SizeOf(ins.op)
             x    == ReadMem(s, addr, n)
             v    == IF ins.op \in {"LBU", "LHU"} THEN x.value ELSE Extended(x.value, n)
  <2>1. Load(s, ins) = IF n > 1 /\ addr % n # 0 THEN Raised(s, "AddressError", addr)
                       ELSE IF x.trap # "none" THEN Raised(s, x.trap, addr)
                       ELSE Finished(x.s, ins.rt, v, Sequential(s))
    BY DEF Load
  <2>2. (x.trap # "none" => x.trap \in Traps) /\ Formed(x.s)
    BY ReadOutcome
  <2> HIDE DEF addr, n, x, v
  <2> QED
    BY <1>1, <1>2, <1>3, <2>1, <2>2, FinishedOutcome
<1>8. Outcome(s, LoadPart(s, ins))
  <2> DEFINE addr == Wrap(Reg(s, ins.rs) + ins.extra)
             byte == addr % 4
             x    == ReadMem(s, addr - byte, 4)
  <2>1. PICK v : LoadPart(s, ins) = IF x.trap # "none" THEN Raised(s, x.trap, addr - byte)
                                    ELSE Finished(x.s, ins.rt, v, Sequential(s))
    BY Zenon DEF LoadPart
  <2>2. (x.trap # "none" => x.trap \in Traps) /\ Formed(x.s)
    BY ReadOutcome
  <2> HIDE DEF addr, byte, x
  <2> QED
    BY <1>1, <1>2, <2>1, <2>2, FinishedOutcome
<1>9. Outcome(s, StorePart(s, ins))
  <2> DEFINE addr == Wrap(Reg(s, ins.rs) + ins.extra)
             byte == addr % 4
             x    == ReadMem(s, addr - byte, 4)
             put(v) == WriteMem(x.s, addr - byte, 4, v)
  <2>1. PICK v : StorePart(s, ins) =
                   IF x.trap # "none" THEN Raised(s, x.trap, addr - byte)
                   ELSE IF put(v).trap # "none" THEN Raised(x.s, put(v).trap, addr - byte)
                   ELSE Finished(put(v).s, "r0", 0, Sequential(s))
    BY Zenon DEF StorePart
  <2>2. (x.trap # "none" => x.trap \in Traps) /\ Formed(x.s) /\ \E p : x.s = Turned(s, s.m, p)
    BY ReadOutcome
  <2> HIDE DEF x
  <2>3. (put(v).trap # "none" => put(v).trap \in Traps) /\ Formed(put(v).s)
    BY <2>2, WriteOutcome
  <2> HIDE DEF addr, byte, put
  <2> QED
    BY <1>1, <1>2, <2>1, <2>2, <2>3, FinishedOutcome
<1>10. Outcome(s, Store(s, ins))
  <2> DEFINE addr == Wrap(Reg(s, ins.rs) + ins.extra)
             x    == WriteMem(s, addr, SizeOf(ins.op), Reg(s, ins.rt))
  <2>1. Store(s, ins) = IF x.trap # "none" THEN Raised(s, x.trap, addr)
                        ELSE Finished(x.s, "r0", 0, Sequential(s))
    BY DEF Store
  <2>2. (x.trap # "none" => x.trap \in Traps) /\ Formed(x.s)
    BY WriteOutcome
  <2> HIDE DEF addr, x
  <2> QED
    BY <1>1, <1>2, <2>1, <2>2, FinishedOutcome
<1>11. ins.op \in HiLoOps => Outcome(s, HiLo(s, ins))
  BY HiLoOutcome
<1>12. Outcome(s, Raised(s, "Syscall", 0)) /\ Outcome(s, Raised(s, "IllegalInstr", 0))
  BY <1>2, <1>3
<1> QED
  BY <1>4, <1>5, <1>6, <1>7, <1>8, <1>9, <1>10, <1>11, <1>12, Dispatch

LEMMA InstructionOutcome ==
  ASSUME NEW s, Formed(s), NEW ins, Decoded(ins)
  PROVE  Outcome(s, OneInstruction(s, ins))
<1> DEFINE x == ReadMem(s, s.r.PC, 4)
<1>1. (x.trap # "none" => x.trap \in Traps) /\ Formed(x.s) /\ \E p : x.s = Turned(s, s.m, p)
  BY ReadOutcome
<1>2. OneInstruction(s, ins) = IF x.trap # "none" THEN Raised(s, x.trap, s.r.PC) ELSE Execute(x.s, ins)
  BY DEF OneInstruction
<1> HIDE DEF x
<1>3. CASE x.trap # "none"
  BY <1>1, <1>2, <1>3, RaisedOutcome
<1>4. CASE x.trap = "none"
  <2>1. Outcome(x.s, Execute(x.s, ins))
    BY <1>1, ExecuteOutcome
  <2>2. \A q : Turned(x.s, x.s.m, q) = Turned(s, s.m, q)
    <3>1. PICK p : x.s = Turned(s, s.m, p)
      BY <1>1
    <3> QED
      BY <3>1, TurnedTwice
  <2>3. Outcome(s, Execute(x.s, ins))
    BY <2>1, <2>2, Zenon DEF Outcome
  <2> QED
    BY <1>2, <1>4, <2>3
<1> QED
  BY <1>3, <1>4

LEMMA OutcomeFormed ==
  ASSUME NEW s, Formed(s), NEW o, Outcome(s, o), Zeroed(s)
  PROVE  Formed(o.s) /\ Zeroed(o.s)
<1>1. "r0" \in GPR
  BY MipsSimAssumption
<1>2. CASE \E t, value, pcAfter : \E reg \in GPR : Formed(t) /\ o = Finished(t, reg, value, pcAfter)
  <2>1. PICK t, value, pcAfter : \E reg \in GPR : Formed(t) /\ o = Finished(t, reg, value, pcAfter)
    BY <1>2
  <2>2. PICK reg \in GPR : Formed(t) /\ o = Finished(t, reg, value, pcAfter)
    BY <2>1
  <2> QED
    BY <1>1, <2>2, FinishedLeaves DEF Zeroed, Reg, Holds
<1>3. CASE \E p, addr : \E which \in Traps : o = Raised(Turned(s, s.m, p), which, addr)
  <2>1. PICK p, addr : \E which \in Traps : o = Raised(Turned(s, s.m, p), which, addr)
    BY <1>3
  <2>2. PICK which \in Traps : o = Raised(Turned(s, s.m, p), which, addr)
    BY <2>1
  <2>3. Formed(Turned(s, s.m, p))
    BY TurnedFormed
  <2> QED
    BY <1>1, <2>2, <2>3, RaisedLeaves DEF Zeroed, Reg, Holds
<1>4. CASE \E p : o = [s |-> Turned(s, s.m, p), trap |-> "HostFault"]
  BY <1>4, TurnedFormed DEF Zeroed, Reg
<1> QED
  BY <1>2, <1>3, <1>4 DEF Outcome

\* o is s with its pending load landed, as far as a program sees.
Untouched(s, o) ==
  /\ o.m = Settled(s).m
  /\ o.r.LoadReg = "r0"
  /\ \A n \in GPR : Reg(o, n) = Reg(Settled(s), n)
  /\ o.r.Hi = Settled(s).r.Hi /\ o.r.Lo = Settled(s).r.Lo
  /\ o.r.PC = Settled(s).r.PC /\ o.r.NextPC = Settled(s).r.NextPC

LEMMA OutcomePrecise ==
  ASSUME NEW s, Formed(s), NEW o, Outcome(s, o), o.trap \notin {"none", "HostFault"}
  PROVE  o.trap \in Traps /\ Untouched(s, o.s)
<1>1. "r0" \in GPR
  BY MipsSimAssumption
<1>2. PICK p, addr : \E which \in Traps : o = Raised(Turned(s, s.m, p), which, addr)
  BY FinishedLeaves DEF Outcome
<1>3. PICK which \in Traps : o = Raised(Turned(s, s.m, p), which, addr)
  BY <1>2
<1> DEFINE t == Turned(s, s.m, p)
<1>4. Formed(t) /\ t.r = s.r /\ t.m = s.m
  BY TurnedFormed
<1> HIDE DEF t
<1>5. o = Raised(t, which, addr)
  BY <1>3 DEF t
<1>6. \A n : Holds(t, n) = Holds(s, n)
  BY <1>4 DEF Holds
<1>7. /\ o.trap = which
      /\ o.s.m = t.m /\ o.s.r.Hi = t.r.Hi /\ o.s.r.Lo = t.r.Lo
      /\ o.s.r.PC = t.r.PC /\ o.s.r.NextPC = t.r.NextPC
      /\ o.s.r.LoadReg = "r0"
      /\ \A n \in GPR : o.s.r.gen[n] = Holds(t, n)
  BY <1>4, <1>5, RaisedLeaves
<1>8. /\ Settled(s).m = s.m /\ Settled(s).r.Hi = s.r.Hi /\ Settled(s).r.Lo = s.r.Lo
      /\ Settled(s).r.PC = s.r.PC /\ Settled(s).r.NextPC = s.r.NextPC
      /\ \A n \in GPR : Settled(s).r.gen[n] = Holds(s, n)
  BY <1>1, DelayedLeaves DEF Settled
<1> QED
  BY <1>4, <1>6, <1>7, <1>8 DEF Untouched, Reg

LEMMA IncreaseLeaves ==
  ASSUME NEW s, Formed(s)
  PROVE  LET d == IncreasePC(s)
         IN /\ Formed(d)
            /\ d.m = s.m /\ d.p = s.p
            /\ d.r.Hi = s.r.Hi /\ d.r.Lo = s.r.Lo
            /\ d.r.PC = Wrap(s.r.PC + 4) /\ d.r.NextPC = Wrap(s.r.PC + 8)
            /\ d.r.PrevPC = s.r.PC /\ d.r.BadVAddr = s.r.BadVAddr
            /\ d.r.gen = s.r.gen
            /\ d.r.LoadReg = s.r.LoadReg /\ d.r.LoadValue = s.r.LoadValue
<1> DEFINE d == IncreasePC(s)
           next  == Wrap(s.r.PC + 4)
           after == Wrap(s.r.PC + 8)
<1>1. d = [s EXCEPT !.r.PrevPC = s.r.PC, !.r.PC = next, !.r.NextPC = after]
  BY DEF IncreasePC
<1> HIDE DEF d, next, after
<1>2. d = [r |-> [gen |-> s.r.gen, Hi |-> s.r.Hi, Lo |-> s.r.Lo, PC |-> next,
                  NextPC |-> after, PrevPC |-> s.r.PC, BadVAddr |-> s.r.BadVAddr,
                  LoadReg |-> s.r.LoadReg, LoadValue |-> s.r.LoadValue],
           m |-> s.m, p |-> s.p]
  BY <1>1 DEF Formed
<1>3. Formed(d)
  BY <1>2 DEF Formed
<1>4. /\ d.m = s.m /\ d.p = s.p
      /\ d.r.Hi = s.r.Hi /\ d.r.Lo = s.r.Lo
      /\ d.r.PC = next /\ d.r.NextPC = after
      /\ d.r.PrevPC = s.r.PC /\ d.r.BadVAddr = s.r.BadVAddr
      /\ d.r.gen = s.r.gen
      /\ d.r.LoadReg = s.r.LoadReg /\ d.r.LoadValue = s.r.LoadValue
  BY <1>2
<1> QED
  BY <1>3, <1>4 DEF d, next, after

LEMMA HandledLeaves ==
  ASSUME NEW s, Formed(s), Zeroed(s), NEW answer \in Answers
  PROVE  LET d == Handled(s, answer)
         IN /\ Formed(d) /\ Zeroed(d)
            /\ d.m = s.m /\ d.r.Hi = s.r.Hi /\ d.r.Lo = s.r.Lo
            /\ d.r.PC = Wrap(s.r.PC + 4) /\ d.r.NextPC = Wrap(s.r.PC + 8)
            /\ d.r.LoadReg = s.r.LoadReg
            /\ \A n \in GPR : n # "r2" => Reg(d, n) = Reg(s, n)
<1>1. "r0" \in GPR /\ "r2" \in GPR
  BY MipsSimAssumption, ProcessorAssumption
<1> DEFINE t == Sets(s, "r2", answer.value)
<1>2. /\ Formed(t) /\ Zeroed(t)
      /\ t.m = s.m /\ t.r.Hi = s.r.Hi /\ t.r.Lo = s.r.Lo
      /\ t.r.PC = s.r.PC /\ t.r.LoadReg = s.r.LoadReg
      /\ \A n \in GPR : n # "r2" => Reg(t, n) = Reg(s, n)
  BY <1>1, SetsLeaves DEF Zeroed, Reg
<1>3. Handled(s, answer) = IF answer.how = "return" THEN IncreasePC(t) ELSE IncreasePC(s)
  BY DEF Handled
<1> HIDE DEF t
<1>4. CASE answer.how = "return"
  <2>1. Handled(s, answer) = IncreasePC(t)
    BY <1>3, <1>4
  <2> QED
    BY <1>2, <2>1, IncreaseLeaves DEF Zeroed, Reg
<1>5. CASE answer.how # "return"
  <2>1. Handled(s, answer) = IncreasePC(s)
    BY <1>3, <1>5
  <2> QED
    BY <2>1, IncreaseLeaves DEF Zeroed, Reg
<1> QED
  BY <1>4, <1>5

LEMMA IncreaseTogether ==
  ASSUME NEW c, NEW d, Together(c, d)
  PROVE  Together(IncreasePC(c), IncreasePC(d))
<1> DEFINE x == IncreasePC(c)
           y == IncreasePC(d)
<1>1. Alike(c, d) /\ Formed(c) /\ Formed(d)
  BY DEF Together, Alike
<1>2. /\ Formed(x) /\ x.m = c.m /\ x.p = c.p /\ x.r.Hi = c.r.Hi /\ x.r.Lo = c.r.Lo
      /\ x.r.PC = Wrap(c.r.PC + 4) /\ x.r.NextPC = Wrap(c.r.PC + 8)
      /\ x.r.PrevPC = c.r.PC /\ x.r.BadVAddr = c.r.BadVAddr
      /\ x.r.gen = c.r.gen /\ x.r.LoadReg = c.r.LoadReg /\ x.r.LoadValue = c.r.LoadValue
  BY <1>1, IncreaseLeaves
<1>3. /\ Formed(y) /\ y.m = d.m /\ y.p = d.p /\ y.r.Hi = d.r.Hi /\ y.r.Lo = d.r.Lo
      /\ y.r.PC = Wrap(d.r.PC + 4) /\ y.r.NextPC = Wrap(d.r.PC + 8)
      /\ y.r.PrevPC = d.r.PC /\ y.r.BadVAddr = d.r.BadVAddr
      /\ y.r.gen = d.r.gen /\ y.r.LoadReg = d.r.LoadReg /\ y.r.LoadValue = d.r.LoadValue
  BY <1>1, IncreaseLeaves
<1> HIDE DEF x, y
<1>4. \A n \in GPR : Holds(x, n) = Holds(c, n) /\ Holds(y, n) = Holds(d, n)
  BY <1>2, <1>3 DEF Holds
<1>5. Alike(x, y)
  BY <1>1, <1>2, <1>3, <1>4 DEF Alike
<1>6. Together(x, y)
  BY <1>2, <1>3, <1>5 DEF Together, Zeroed, Reg
<1> QED
  BY <1>6 DEF x, y

LEMMA HandledTogether ==
  ASSUME NEW c, NEW d, Together(c, d), c.r.LoadReg = "r0", d.r.LoadReg = "r0", NEW answer \in Answers
  PROVE  Together(Handled(c, answer), Handled(d, answer))
<1> DEFINE v == answer.value
           x == Sets(c, "r2", v)
           y == Sets(d, "r2", v)
<1>1. "r0" \in GPR /\ "r2" \in GPR /\ Alike(c, d) /\ Formed(c) /\ Formed(d)
  BY MipsSimAssumption, ProcessorAssumption DEF Together, Alike
<1>2. Alike(x, y)
  BY <1>1, SetsTogether
<1>3. Zeroed(x) /\ Zeroed(y) /\ x.r.LoadReg = "r0" /\ y.r.LoadReg = "r0"
  BY <1>1, SetsLeaves DEF Together, Zeroed, Reg
<1>4. Together(x, y)
  BY <1>2, <1>3 DEF Together
<1> QED
  BY <1>4, IncreaseTogether DEF Handled

-----------------------------------------------------------------------------
(* The processor's invariant *)

ProcessorInv ==
  /\ repertoire \in Repertoires
  /\ \E S : trace \in Seq(S)
  /\ Formed(cpu) /\ Formed(alone)
  /\ Zeroed(cpu) /\ Zeroed(alone)
  /\ clean => Together(cpu, alone)
  /\ Precise

LEMMA ProcessorInvInit == ProcessorInit => ProcessorInv
<1> SUFFICES ASSUME ProcessorInit PROVE ProcessorInv
  OBVIOUS
<1>1. /\ cpu = [r |-> cpu.r, m |-> cpu.m, p |-> cpu.p]
      /\ cpu.r \in Registers /\ cpu.r.gen["r0"] = 0
      /\ repertoire \in Repertoires
  BY ProcessorAssumption DEF ProcessorInit
<1>2. Formed(cpu)
  BY <1>1 DEF Formed, Registers
<1>3. Together(cpu, alone)
  BY <1>1, <1>2 DEF ProcessorInit, Together, Alike, Zeroed, Reg
<1>4. trace \in Seq({}) /\ trace = <<>>
  BY EmptySeq DEF ProcessorInit
<1> QED
  BY <1>1, <1>2, <1>3, <1>4 DEF ProcessorInv, Precise, ProcessorInit, Together

\* What the history records last is the instruction just run.
LEMMA RecordedLast ==
  ASSUME ProcessorInv, NEW ins, NEW trap, Recorded(ins, trap)
  PROVE  /\ repertoire' \in Repertoires
         /\ (\E S : trace \in Seq(S))'
         /\ Latest' = [ins |-> ins, before |-> cpu, trap |-> trap]
         /\ clean' => clean /\ (alone.r.LoadReg = "r0" \/ alone.r.LoadReg \notin Uses(ins))
<1> DEFINE e == [ins |-> ins, before |-> cpu, trap |-> trap]
<1>1. PICK S : trace \in Seq(S)
  BY DEF ProcessorInv
<1>2. trace \in Seq(S \cup {e}) /\ trace' = Append(trace, e)
  BY <1>1 DEF Recorded
<1> HIDE DEF e
<1>3. trace' \in Seq(S \cup {e}) /\ trace'[Len(trace')] = e
  BY <1>2
<1>4. Latest' = e
  BY <1>3 DEF Latest
<1> QED
  BY <1>3, <1>4 DEF ProcessorInv, Recorded, e

LEMMA RunInv ==
  ASSUME ProcessorInv, NEW ins, Decoded(ins), RunInstruction(ins)
  PROVE  ProcessorInv'
<1> DEFINE o == OneInstruction(cpu, ins)
           q == OneInstruction(alone, ins)
<1>1. Outcome(cpu, o) /\ Outcome(alone, q)
  BY InstructionOutcome DEF ProcessorInv
<1>2. clean' => Agree(o, q)
  BY RecordedLast, InstructionTogether DEF RunInstruction, ProcessorInv
<1>3. /\ cpu' = o.s /\ alone' = q.s
      /\ mode' = IF o.trap = "none" THEN "user" ELSE o.trap
      /\ o.trap # "Syscall"
      /\ Recorded(ins, o.trap)
  BY DEF RunInstruction
<1> HIDE DEF o, q
<1>4. /\ repertoire' \in Repertoires /\ (\E S : trace \in Seq(S))'
      /\ Latest' = [ins |-> ins, before |-> cpu, trap |-> o.trap]
  BY <1>3, RecordedLast
<1>5. Formed(cpu') /\ Formed(alone') /\ Zeroed(cpu') /\ Zeroed(alone')
  BY <1>1, <1>3, OutcomeFormed DEF ProcessorInv
<1>6. clean' => Together(cpu', alone')
  BY <1>2, <1>3 DEF Agree
<1>7. Precise'
  <2> SUFFICES ASSUME o.trap \notin {"none", "HostFault"}
               PROVE  LET was == Settled(cpu)
                      IN /\ cpu'.m = was.m
                         /\ cpu'.r.LoadReg = "r0"
                         /\ \A n \in GPR : Reg(cpu', n) = Reg(was, n)
                         /\ cpu'.r.Hi = was.r.Hi /\ cpu'.r.Lo = was.r.Lo
                         /\ cpu'.r.PC = was.r.PC /\ cpu'.r.NextPC = was.r.NextPC
                         /\ mode' # "user"
    BY <1>4 DEF Precise, Settled, Reg
  <2>1. o.trap \in Traps /\ Untouched(cpu, o.s)
    BY <1>1, OutcomePrecise DEF ProcessorInv
  <2>2. mode' # "user"
    BY <1>3, <2>1 DEF Traps
  <2> QED
    BY <1>3, <2>1, <2>2 DEF Untouched
<1> QED
  BY <1>4, <1>5, <1>6, <1>7 DEF ProcessorInv

LEMMA SyscallInv ==
  ASSUME ProcessorInv, NEW ins, Decoded(ins), Syscall(ins)
  PROVE  ProcessorInv'
<1> DEFINE o == OneInstruction(cpu, ins)
           q == OneInstruction(alone, ins)
<1>1. Outcome(cpu, o) /\ Outcome(alone, q)
  BY InstructionOutcome DEF ProcessorInv
<1>2. clean' => Agree(o, q)
  BY RecordedLast, InstructionTogether DEF Syscall, ProcessorInv
<1>3. /\ mode = "user" /\ o.trap = "Syscall" /\ Recorded(ins, o.trap)
      /\ \/ \E answer \in Answers :
              cpu' = Handled(o.s, answer) /\ alone' = Handled(q.s, answer) /\ mode' = mode
         \/ cpu' = o.s /\ alone' = q.s /\ mode' = "BadCall"
  BY DEF Syscall, MayGoOn
<1> HIDE DEF o, q
<1>4. /\ repertoire' \in Repertoires /\ (\E S : trace \in Seq(S))'
      /\ Latest' = [ins |-> ins, before |-> cpu, trap |-> o.trap]
  BY <1>3, RecordedLast
<1>5. Formed(o.s) /\ Formed(q.s) /\ Zeroed(o.s) /\ Zeroed(q.s)
  BY <1>1, OutcomeFormed DEF ProcessorInv
<1>6. Untouched(cpu, o.s)
  BY <1>1, <1>3, OutcomePrecise DEF ProcessorInv
<1>7. clean' => q.s.r.LoadReg = "r0"
  <2> SUFFICES ASSUME clean' PROVE q.s.r.LoadReg = "r0"
    OBVIOUS
  <2>1. q.trap = "Syscall"
    BY <1>2, <1>3 DEF Agree
  <2> QED
    BY <1>1, <2>1, OutcomePrecise DEF ProcessorInv, Untouched
<1>8. CASE cpu' = o.s /\ alone' = q.s /\ mode' = "BadCall"
  <2>1. clean' => Together(cpu', alone')
    BY <1>2, <1>8 DEF Agree
  <2>2. Precise'
    BY <1>4, <1>6, <1>8 DEF Precise, Untouched, Reg, Settled
  <2> QED
    BY <1>4, <1>5, <1>8, <2>1, <2>2 DEF ProcessorInv
<1>9. CASE \E answer \in Answers :
             cpu' = Handled(o.s, answer) /\ alone' = Handled(q.s, answer) /\ mode' = mode
  <2>1. PICK answer \in Answers :
               cpu' = Handled(o.s, answer) /\ alone' = Handled(q.s, answer) /\ mode' = mode
    BY <1>9
  <2>2. Formed(cpu') /\ Zeroed(cpu') /\ Formed(alone') /\ Zeroed(alone')
    BY <1>5, <2>1, HandledLeaves
  <2>3. clean' => Together(cpu', alone')
    <3> SUFFICES ASSUME clean' PROVE Together(cpu', alone')
      OBVIOUS
    <3>1. Together(o.s, q.s)
      BY <1>2 DEF Agree
    <3> QED
      BY <1>6, <1>7, <2>1, <3>1, HandledTogether DEF Untouched
  <2>4. /\ cpu'.m = o.s.m /\ cpu'.r.Hi = o.s.r.Hi /\ cpu'.r.Lo = o.s.r.Lo
        /\ cpu'.r.PC = Wrap(o.s.r.PC + 4) /\ cpu'.r.NextPC = Wrap(o.s.r.PC + 8)
        /\ cpu'.r.LoadReg = o.s.r.LoadReg
        /\ \A n \in GPR : n # "r2" => Reg(cpu', n) = Reg(o.s, n)
    BY <1>5, <2>1, HandledLeaves
  <2>5. Precise'
    <3>1. /\ Latest'.trap = "Syscall" /\ Latest'.before = cpu /\ mode' = "user"
      BY <1>3, <1>4, <2>1
    <3>2. \A n \in GPR : Reg(cpu', n) # Reg(Settled(cpu), n) => n = "r2"
      BY <1>6, <2>4 DEF Untouched
    <3>3. /\ cpu'.m = Settled(cpu).m /\ cpu'.r.LoadReg = "r0"
          /\ cpu'.r.Hi = Settled(cpu).r.Hi /\ cpu'.r.Lo = Settled(cpu).r.Lo
          /\ cpu'.r.PC = Wrap(Settled(cpu).r.PC + 4)
          /\ cpu'.r.NextPC = Wrap(Settled(cpu).r.PC + 8)
      BY <1>6, <2>4 DEF Untouched
    <3> HIDE DEF Settled
    <3> QED
      BY <3>1, <3>2, <3>3 DEF Precise, Reg
  <2> QED
    BY <1>4, <2>2, <2>3, <2>5 DEF ProcessorInv
<1> QED
  BY <1>3, <1>8, <1>9

LEMMA InterruptInv ==
  ASSUME ProcessorInv, Interrupt
  PROVE  ProcessorInv'
<1>1. "r0" \in GPR
  BY MipsSimAssumption
<1>2. /\ cpu' = DelayedLoad(cpu, "r0", 0)
      /\ repertoire' = repertoire /\ mode' = mode /\ alone' = alone /\ clean' = clean /\ trace' = trace
  BY DEF Interrupt
<1>3. /\ Formed(cpu')
      /\ cpu'.m = cpu.m /\ cpu'.p = cpu.p
      /\ cpu'.r.Hi = cpu.r.Hi /\ cpu'.r.Lo = cpu.r.Lo
      /\ cpu'.r.PC = cpu.r.PC /\ cpu'.r.NextPC = cpu.r.NextPC
      /\ cpu'.r.PrevPC = cpu.r.PrevPC /\ cpu'.r.BadVAddr = cpu.r.BadVAddr
      /\ cpu'.r.LoadReg = "r0" /\ cpu'.r.LoadValue = 0
      /\ \A n \in GPR : cpu'.r.gen[n] = Holds(cpu, n)
  BY <1>1, <1>2, DelayedLeaves DEF ProcessorInv
<1>4. Zeroed(cpu')
  BY <1>1, <1>3 DEF Zeroed, Reg, Holds
<1>5. ASSUME clean PROVE Together(cpu', alone)
  <2>1. Together(cpu, alone)
    BY <1>5 DEF ProcessorInv
  <2>2. \A n \in GPR : Holds(cpu', n) = Holds(cpu, n)
    BY <1>3 DEF Holds
  <2>3. Alike(cpu', alone)
    BY <1>3, <2>1, <2>2 DEF Together, Alike
  <2> QED
    BY <1>3, <1>4, <2>1, <2>3 DEF Together
<1>6. Precise'
  <2>1. ASSUME cpu.r.LoadReg = "r0", NEW n \in GPR PROVE Reg(cpu', n) = Reg(cpu, n)
    BY <1>3, <2>1 DEF ProcessorInv, Zeroed, Reg, Holds
  <2>2. Precise
    BY DEF ProcessorInv
  <2>3. Latest' = Latest
    BY <1>2 DEF Latest
  <2> QED
    BY <1>2, <1>3, <2>1, <2>2, <2>3 DEF Precise
<1> QED
  BY <1>2, <1>3, <1>4, <1>5, <1>6 DEF ProcessorInv

LEMMA ProcessorInvNext == ProcessorInv /\ [ProcessorNext]_processorVars => ProcessorInv'
<1> SUFFICES ASSUME ProcessorInv, [ProcessorNext]_processorVars PROVE ProcessorInv'
  OBVIOUS
<1>1. ASSUME NEW ins \in Programs[repertoire] PROVE Decoded(ins)
  BY ProcessorAssumption DEF ProcessorInv, Decoded
<1>2. CASE Interrupt
  BY <1>2, InterruptInv
<1>3. CASE \E ins \in Programs[repertoire] : RunInstruction(ins)
  BY <1>1, <1>3, RunInv
<1>4. CASE \E ins \in Programs[repertoire] : Syscall(ins)
  BY <1>1, <1>4, SyscallInv
<1>5. CASE UNCHANGED processorVars
  BY <1>5 DEF processorVars, ProcessorInv, Precise, Latest
<1> QED
  BY <1>2, <1>3, <1>4, <1>5 DEF ProcessorNext

LEMMA ProcessorInvCorrect == ProcessorSpec => []ProcessorInv
BY ProcessorInvInit, ProcessorInvNext, PTL DEF ProcessorSpec

\* A program that does not use a register in the instruction after its load
\* computes the same whatever interrupts it takes, and between which of its
\* instructions (CheckIfDue lands a pending load, interrupt.cc:280): for every
\* program, memory and width of a word.
THEOREM InterruptsUnseenCorrect == ProcessorSpec => []InterruptsUnseen
<1>1. ProcessorInv => InterruptsUnseen
  BY SettledSame DEF ProcessorInv, InterruptsUnseen, Together
<1> QED
  BY <1>1, ProcessorInvCorrect, PTL

\* Every trap, of every instruction and of every access it makes, finds the
\* processor as before the instruction, its pending load landed; and r0 is
\* always zero (RaiseException, machine.cc:100; mipssim.cc:137).
THEOREM TrapsPreciseCorrect == ProcessorSpec => []TrapsPrecise
<1>1. ProcessorInv => TrapsPrecise
  BY DEF ProcessorInv, TrapsPrecise, Zeroed
<1> QED
  BY <1>1, ProcessorInvCorrect, PTL

-----------------------------------------------------------------------------
(* Iteration over the numbers *)

\* What holds at 0, and at a number when at the one before, holds at all of them.
LEMMA AllAlong ==
  ASSUME NEW T, 0 \in T, \A n \in Nat \ {0} : n - 1 \in T => n \in T
  PROVE  Nat \subseteq T
<1> DEFINE Lacking == Nat \ T
<1> SUFFICES ASSUME Lacking # {} PROVE FALSE
  OBVIOUS
<1>1. PICK m \in Lacking : \A j \in Lacking : m <= j
  <2>1. Lacking \subseteq Nat
    OBVIOUS
  <2> HIDE DEF Lacking
  <2> QED
    BY <2>1, LeastNumber
<1>2. m \in Nat \ {0}
  BY <1>1
<1>3. m - 1 \in Nat /\ ~ (m <= m - 1)
  BY <1>2
<1>4. m - 1 \in T
  BY <1>1, <1>3
<1> QED
  BY <1>1, <1>2, <1>4

\* f begins with base and goes on by step, for b steps.
Iterates(f, b, base, step) == f[0] = base /\ \A n \in 1 .. b : f[n] = step[<<n, f[n - 1]>>]

LEMMA IterationExists ==
  ASSUME NEW S, NEW base \in S, NEW step \in [Nat \X S -> S], NEW b \in Nat
  PROVE  \E f \in [0 .. b -> S] : Iterates(f, b, base, step)
<1> DEFINE T == {m \in Nat : \E f \in [0 .. m -> S] : Iterates(f, m, base, step)}
<1>1. 0 \in T
  <2> DEFINE f == [n \in 0 .. 0 |-> base]
  <2>1. f \in [0 .. 0 -> S] /\ Iterates(f, 0, base, step)
    BY DEF Iterates
  <2> QED
    BY <2>1
<1>2. ASSUME NEW m \in Nat \ {0}, m - 1 \in T PROVE m \in T
  <2>1. PICK f \in [0 .. m - 1 -> S] : Iterates(f, m - 1, base, step)
    BY <1>2
  <2> DEFINE last == step[<<m, f[m - 1]>>]
             g == [n \in 0 .. m |-> IF n = m THEN last ELSE f[n]]
  <2>2. f[m - 1] \in S
    BY <2>1
  <2>3. last \in S
    BY <2>2
  <2> HIDE DEF last
  <2>4. g \in [0 .. m -> S]
    BY <2>1, <2>3
  <2>5. /\ \A n \in 0 .. m - 1 : g[n] = f[n]
        /\ g[m] = last
    OBVIOUS
  <2> HIDE DEF g
  <2>6. ASSUME NEW n \in 1 .. m PROVE g[n] = step[<<n, g[n - 1]>>]
    <3>1. g[n - 1] = f[n - 1]
      BY <2>5
    <3>2. CASE n = m
      BY <2>5, <3>1, <3>2 DEF last
    <3>3. CASE n # m
      <4>1. n \in 1 .. m - 1 /\ n \in 0 .. m - 1
        BY <3>3
      <4> QED
        BY <2>1, <2>5, <3>1, <4>1 DEF Iterates
    <3> QED
      BY <3>2, <3>3
  <2>7. g[0] = base
    BY <2>1, <2>5 DEF Iterates
  <2>8. Iterates(g, m, base, step)
    BY <2>6, <2>7 DEF Iterates
  <2> QED
    BY <2>4, <2>8
<1>3. Nat \subseteq T
  <2> HIDE DEF T
  <2> QED
    BY <1>1, <1>2, AllAlong
<1> QED
  BY <1>3

LEMMA IterationUnique ==
  ASSUME NEW b \in Nat, NEW base, NEW step, NEW f, NEW g,
         Iterates(f, b, base, step), Iterates(g, b, base, step)
  PROVE  \A n \in 0 .. b : f[n] = g[n]
<1> DEFINE T == {n \in Nat : n <= b => f[n] = g[n]}
<1>1. 0 \in T
  BY DEF Iterates
<1>2. ASSUME NEW n \in Nat \ {0}, n - 1 \in T PROVE n \in T
  <2> SUFFICES ASSUME n <= b PROVE f[n] = g[n]
    OBVIOUS
  <2>1. n \in 1 .. b /\ f[n - 1] = g[n - 1]
    BY <1>2
  <2> QED
    BY <2>1 DEF Iterates
<1>3. Nat \subseteq T
  <2> HIDE DEF T
  <2> QED
    BY <1>1, <1>2, AllAlong
<1> QED
  BY <1>3

\* The numbers iterated without end.
LEMMA IterationGoesOn ==
  ASSUME NEW S, NEW base \in S, NEW step \in [Nat \X S -> S]
  PROVE  \E f \in [Nat -> S] : \A b \in Nat : Iterates(f, b, base, step)
<1> DEFINE upTo(m) == CHOOSE f : f \in [0 .. m -> S] /\ Iterates(f, m, base, step)
           F == [n \in Nat |-> upTo(n)[n]]
<1>1. ASSUME NEW m \in Nat
      PROVE  upTo(m) \in [0 .. m -> S] /\ Iterates(upTo(m), m, base, step)
  BY IterationExists
<1> HIDE DEF upTo
<1>2. ASSUME NEW n \in Nat \ {0} PROVE upTo(n)[n - 1] = upTo(n - 1)[n - 1]
  <2>1. Iterates(upTo(n), n - 1, base, step) /\ Iterates(upTo(n - 1), n - 1, base, step)
    BY <1>1 DEF Iterates
  <2> QED
    BY <2>1, IterationUnique
<1>3. F \in [Nat -> S]
  BY <1>1
<1>4. F[0] = base
  BY <1>1 DEF Iterates
<1>5. ASSUME NEW n \in Nat \ {0} PROVE F[n] = step[<<n, F[n - 1]>>]
  <2>1. upTo(n)[n] = step[<<n, upTo(n)[n - 1]>>]
    BY <1>1 DEF Iterates
  <2> QED
    BY <1>2, <2>1
<1> HIDE DEF F
<1>6. \A b \in Nat : Iterates(F, b, base, step)
  BY <1>4, <1>5 DEF Iterates
<1> QED
  BY <1>3, <1>6
-----------------------------------------------------------------------------
(* Powers of two *)

LEMMA Pow2Steps == /\ Pow2 \in [Nat -> Nat \ {0}]
                   /\ Pow2[0] = 1 /\ \A n \in Nat \ {0} : Pow2[n] = 2 * Pow2[n - 1]
<1> DEFINE S == Nat \ {0}
           step == [x \in Nat \X S |-> 2 * x[2]]
<1>1. 1 \in S /\ step \in [Nat \X S -> S]
  OBVIOUS
<1>2. \A n \in Nat, v \in S : step[<<n, v>>] = 2 * v
  OBVIOUS
<1> HIDE DEF step
<1>3. PICK f \in [Nat -> S] : \A b \in Nat : Iterates(f, b, 1, step)
  <2> HIDE DEF S
  <2> QED
    BY <1>1, IterationGoesOn
<1>4. ASSUME NEW n \in Nat PROVE f[n] = IF n = 0 THEN 1 ELSE 2 * f[n - 1]
  <2>1. Iterates(f, n, 1, step)
    BY <1>3
  <2>2. CASE n = 0
    BY <2>1, <2>2 DEF Iterates
  <2>3. CASE n # 0
    <3>1. n \in 1 .. n /\ n - 1 \in Nat
      BY <2>3
    <3>2. f[n] = step[<<n, f[n - 1]>>] /\ f[n - 1] \in S
      BY <1>3, <2>1, <3>1 DEF Iterates
    <3> QED
      BY <1>2, <2>3, <3>2
  <2> QED
    BY <2>2, <2>3
<1>5. f = [n \in Nat |-> IF n = 0 THEN 1 ELSE 2 * f[n - 1]]
  BY <1>3, <1>4
<1>6. \E g : g = [n \in Nat |-> IF n = 0 THEN 1 ELSE 2 * g[n - 1]]
  BY <1>5, Zenon
<1>7. Pow2 = [n \in Nat |-> IF n = 0 THEN 1 ELSE 2 * Pow2[n - 1]]
  BY <1>6, Zenon DEF Pow2
<1>8. Pow2[0] = 1 /\ \A n \in Nat \ {0} : Pow2[n] = 2 * Pow2[n - 1]
  <2> SUFFICES ASSUME NEW n \in Nat PROVE Pow2[n] = IF n = 0 THEN 1 ELSE 2 * Pow2[n - 1]
    BY Zenon
  <2> QED
    BY <1>7, Zenon
<1> DEFINE T == {n \in Nat : Pow2[n] \in Nat \ {0}}
<1>9. 0 \in T /\ \A n \in Nat \ {0} : n - 1 \in T => n \in T
  BY <1>8
<1>10. Nat \subseteq T
  <2> HIDE DEF T
  <2> QED
    BY <1>9, AllAlong
<1>11. Pow2 = [n \in Nat |-> Pow2[n]]
  BY <1>7, Zenon
<1>12. Pow2 \in [Nat -> Nat \ {0}]
  BY <1>10, <1>11
<1> QED
  BY <1>8, <1>12

LEMMA Pow2Next ==
  ASSUME NEW n \in Nat
  PROVE  Pow2[n] \in Nat \ {0} /\ Pow2[n + 1] = 2 * Pow2[n]
<1>1. n + 1 \in Nat \ {0} /\ (n + 1) - 1 = n
  OBVIOUS
<1> QED
  BY <1>1, Pow2Steps

LEMMA Pow2Sum ==
  ASSUME NEW m \in Nat, NEW n \in Nat
  PROVE  Pow2[m + n] = Pow2[m] * Pow2[n]
<1> DEFINE T == {k \in Nat : Pow2[m + k] = Pow2[m] * Pow2[k]}
<1>1. 0 \in T
  BY Pow2Next, Pow2Steps
<1>2. ASSUME NEW k \in Nat \ {0}, k - 1 \in T PROVE k \in T
  <2> DEFINE p == Pow2[m]
             q == Pow2[k - 1]
  <2>1. Pow2[m + (k - 1)] = p * q /\ p \in Nat \ {0} /\ q \in Nat \ {0}
    BY <1>2, Pow2Next
  <2>2. Pow2[k] = 2 * q
    BY Pow2Steps
  <2>3. Pow2[m + k] = 2 * Pow2[m + (k - 1)]
    <3>1. m + k \in Nat \ {0} /\ (m + k) - 1 = m + (k - 1)
      OBVIOUS
    <3> QED
      BY <3>1, Pow2Steps
  <2> HIDE DEF p, q
  <2>4. p * (2 * q) = 2 * (p * q)
    BY <2>1
  <2> QED
    BY <2>1, <2>2, <2>3, <2>4 DEF p
<1>3. Nat \subseteq T
  <2> HIDE DEF T
  <2> QED
    BY <1>1, <1>2, AllAlong
<1> QED
  BY <1>3

LEMMA Pow2Grows ==
  ASSUME NEW m \in Nat, NEW n \in Nat, m <= n
  PROVE  Pow2[m] <= Pow2[n]
<1>1. Pow2[n] = Pow2[m] * Pow2[n - m] /\ n - m \in Nat
  <2>1. n - m \in Nat /\ m + (n - m) = n
    OBVIOUS
  <2> QED
    BY <2>1, Pow2Sum
<1>2. Pow2[m] \in Nat \ {0} /\ Pow2[n - m] \in Nat \ {0}
  BY <1>1, Pow2Next
<1>3. Pow2[m] * Pow2[n - m] >= Pow2[m]
  BY <1>2, Product
<1> QED
  BY <1>1, <1>2, <1>3

-----------------------------------------------------------------------------
(* Words *)

Half == Pow2[Width - 1]

LEMMA WordFacts ==
  /\ Width \in Nat /\ Width >= 4 /\ ByteBits \in Nat \ {0}
  /\ Half \in Nat /\ Half >= 8
  /\ Full = 2 * Half /\ Full \div 2 = Half
  /\ Word = -Half .. Half - 1
<1>1. ByteBits \in Nat \ {0}
  BY MipsSimAssumption
<1>2. Width \in Nat /\ Width >= 4
  BY <1>1 DEF Width
<1>3. /\ Width - 1 \in Nat /\ (Width - 1) + 1 = Width
      /\ Width - 2 \in Nat /\ (Width - 2) + 1 = Width - 1
  BY <1>2
<1>4. Half \in Nat \ {0} /\ Full = 2 * Half
  BY <1>3, Pow2Next DEF Half, Full
<1>6. Pow2[3] = 8
  BY Pow2Steps
<1>7. Pow2[3] <= Half
  BY <1>2, <1>3, Pow2Grows DEF Half
<1>8. Half >= 8
  BY <1>6, <1>7
<1>9. Full \div 2 = Half
  BY <1>4
<1> QED
  BY <1>1, <1>2, <1>4, <1>8, <1>9, Zenon DEF Word, Half

LEMMA Quarter ==
  Pow2[Width - 2] \in Nat \ {0} /\ Half = 2 * Pow2[Width - 2] /\ Full = 4 * Pow2[Width - 2]
<1>1. Width - 2 \in Nat /\ (Width - 2) + 1 = Width - 1
  BY WordFacts
<1>2. Half = 2 * Pow2[Width - 2] /\ Pow2[Width - 2] \in Nat \ {0}
  BY <1>1, Pow2Next DEF Half
<1> QED
  BY <1>2, WordFacts

LEMMA Whole == Full \in Nat \ {0}
BY WordFacts

LEMMA WordIs ==
  ASSUME NEW w
  PROVE  w \in Word <=> w \in Int /\ -Half <= w /\ w < Half
<1>1. Word = -Half .. Half - 1 /\ Half \in Nat
  BY WordFacts
<1> QED
  BY <1>1

\* A word, and the number whose bits it has.
LEMMA UIs ==
  ASSUME NEW w \in Word
  PROVE  /\ w \in Int
         /\ U(w) = IF w < 0 THEN w + Full ELSE w
         /\ U(w) \in 0 .. Full - 1
<1>1. w \in Int /\ -Half <= w /\ w < Half /\ Full = 2 * Half /\ Half \in Nat /\ Half >= 8
  BY WordFacts, WordIs
<1> DEFINE r == IF w < 0 THEN w + Full ELSE w
           q == IF w < 0 THEN -1 ELSE 0
<1>2. r \in 0 .. Full - 1 /\ q \in Int /\ Full * q + r = w
  BY <1>1
<1> HIDE DEF r, q
<1>3. (Full * q + r) % Full = r
  BY <1>2, Whole, QuotientIs
<1>4. w % Full = r
  BY <1>2, <1>3, Zenon
<1> QED
  BY <1>1, <1>2, <1>4 DEF U, r

\* The word of a number between 0 and the largest there is.
LEMMA WrapLow ==
  ASSUME NEW x \in 0 .. Full - 1
  PROVE  /\ Wrap(x) = IF x >= Half THEN x - Full ELSE x
         /\ Wrap(x) \in Word /\ U(Wrap(x)) = x
<1>1. Full = 2 * Half /\ Half \in Nat /\ Half >= 8 /\ Full \div 2 = Half
  BY WordFacts
<1>2. x % Full = x
  <2>1. (Full * 0 + x) % Full = x
    BY Whole, QuotientIs
  <2>2. Full * 0 + x = x
    BY <1>1
  <2> QED
    BY <2>1, <2>2, Zenon
<1>3. Wrap(x) = IF x >= Half THEN x - Full ELSE x
  BY <1>1, <1>2, Zenon DEF Wrap
<1>4. Wrap(x) \in Word
  <2>1. Wrap(x) \in Int /\ -Half <= Wrap(x) /\ Wrap(x) < Half
    BY <1>1, <1>3
  <2> QED
    BY <2>1, WordIs
<1>5. U(Wrap(x)) = x
  BY <1>1, <1>3, <1>4, UIs
<1> QED
  BY <1>3, <1>4, <1>5

LEMMA WrapIs ==
  ASSUME NEW x \in Int
  PROVE  /\ Wrap(x) = Wrap(x % Full) /\ Wrap(x) \in Word
         /\ U(Wrap(x)) = x % Full /\ x % Full \in 0 .. Full - 1
<1>1. x % Full \in 0 .. Full - 1
  BY Whole, Divides
<1> DEFINE u == x % Full
<1>2. u % Full = u
  <2>1. u \in 0 .. Full - 1
    BY <1>1
  <2> HIDE DEF u
  <2>2. (Full * 0 + u) % Full = u
    BY <2>1, Whole, QuotientIs
  <2>3. Full * 0 + u = u
    BY <2>1, Whole
  <2> QED
    BY <2>2, <2>3, Zenon
<1>3. Wrap(x) = Wrap(u)
  BY <1>2, Zenon DEF Wrap
<1>4. Wrap(u) \in Word /\ U(Wrap(u)) = u
  BY <1>1, WrapLow
<1> QED
  BY <1>1, <1>3, <1>4

LEMMA WrapWord ==
  ASSUME NEW x \in Word
  PROVE  Wrap(x) = x
<1>1. U(x) = IF x < 0 THEN x + Full ELSE x
  BY UIs
<1>2. /\ U(x) \in 0 .. Full - 1 /\ x \in Int
  BY UIs
<1>3. Wrap(x) = Wrap(U(x))
  BY <1>2, WrapIs DEF U
<1>4. Wrap(U(x)) = IF U(x) >= Half THEN U(x) - Full ELSE U(x)
  BY <1>2, WrapLow
<1> DEFINE u == U(x)
<1> HIDE DEF u
<1>5. x >= -Half /\ x < Half /\ Full = 2 * Half /\ Half \in Nat
  BY WordFacts, WordIs
<1> QED
  BY <1>1, <1>2, <1>3, <1>4, <1>5

\* What is added or taken away when a number is too large for a word by less
\* than a word.
LEMMA WrapNear ==
  ASSUME NEW x \in Int, -Full <= x, x < Full
  PROVE  Wrap(x) = IF x < -Half THEN x + Full ELSE IF x >= Half THEN x - Full ELSE x
<1>1. Full = 2 * Half /\ Half \in Nat /\ Half >= 8
  BY WordFacts
<1> DEFINE r == IF x < 0 THEN x + Full ELSE x
           q == IF x < 0 THEN -1 ELSE 0
<1>2. r \in 0 .. Full - 1 /\ q \in Int /\ Full * q + r = x
  BY <1>1
<1>3. x % Full = r
  <2> HIDE DEF r, q
  <2>1. (Full * q + r) % Full = r
    BY <1>2, Whole, QuotientIs
  <2> QED
    BY <1>2, <2>1, Zenon
<1>4. Wrap(x) = IF r >= Half THEN r - Full ELSE r
  BY <1>2, <1>3, WrapIs, WrapLow
<1> QED
  BY <1>1, <1>2, <1>4

LEMMA FlagIs ==
  ASSUME NEW b \in BOOLEAN
  PROVE  Flag(b) \in {0, 1} /\ Flag(b) \in Word
<1>1. Flag(b) \in {0, 1}
  BY DEF Flag
<1> QED
  BY <1>1, WordFacts

\* Overflow is told from the signs.
LEMMA OverflowIs ==
  ASSUME NEW a \in Word, NEW b \in Word
  PROVE  /\ SumOverflows(a, b) <=> a + b \notin Word
         /\ DifferenceOverflows(a, b) <=> a - b \notin Word
<1>1. /\ Full = 2 * Half /\ Half \in Nat /\ Half >= 8
      /\ a \in Int /\ -Half <= a /\ a < Half
      /\ b \in Int /\ -Half <= b /\ b < Half
  BY WordFacts, WordIs
<1> DEFINE s == a + b
           d == a - b
<1>2. s \in Int /\ -Full <= s /\ s < Full /\ d \in Int /\ -Full <= d /\ d < Full
  BY <1>1
<1>3. Wrap(s) = IF s < -Half THEN s + Full ELSE IF s >= Half THEN s - Full ELSE s
  BY <1>2, WrapNear
<1>4. Wrap(d) = IF d < -Half THEN d + Full ELSE IF d >= Half THEN d - Full ELSE d
  BY <1>2, WrapNear
<1>5. /\ s \in Word <=> -Half <= s /\ s < Half
      /\ d \in Word <=> -Half <= d /\ d < Half
  BY <1>2, WordIs
<1> QED
  BY <1>1, <1>2, <1>3, <1>4, <1>5 DEF SumOverflows, DifferenceOverflows, Negative

-----------------------------------------------------------------------------
(* Multiplication *)

\* A turn of the loop of Mult, and what it turns.
Turn(v) ==
  LET add   == v.a % 2 = 1
      sum   == (v.lo + v.bLo) % Full
      carry == Flag(sum < v.bLo)
  IN [a   |-> v.a \div 2,
      bLo |-> (v.bLo * 2) % Full,
      bHi |-> (v.bHi * 2 + Flag(v.bLo >= Full \div 2)) % Full,
      lo  |-> IF add THEN sum ELSE v.lo,
      hi  |-> IF add THEN (v.hi + carry + v.bHi) % Full ELSE v.hi,
      over |-> add /\ v.a = 1]

Turning == [a : Int, bLo : 0 .. Full - 1, bHi : 0 .. Full - 1, lo : 0 .. Full - 1,
            hi : 0 .. Full - 1, over : BOOLEAN]

Begun(a, b) == [a |-> a, bLo |-> U(b), bHi |-> 0, lo |-> 0, hi |-> 0, over |-> FALSE]

Turns(f, a, b) ==
  /\ f \in [0 .. Width -> Turning] /\ f[0] = Begun(a, b)
  /\ \A n \in 1 .. Width : f[n] = IF f[n - 1].over THEN f[n - 1] ELSE Turn(f[n - 1])

LEMMA TurnKeeps ==
  ASSUME NEW v \in Turning
  PROVE  Turn(v) \in Turning
<1>1. /\ v.a \in Int /\ v.lo \in Int /\ v.bLo \in Int /\ v.hi \in Int /\ v.bHi \in Int
      /\ v.lo \in 0 .. Full - 1 /\ v.hi \in 0 .. Full - 1
  BY Whole DEF Turning
<1>2. \A x \in Int : x % Full \in 0 .. Full - 1
  BY Whole, Divides
<1> DEFINE add == v.a % 2 = 1
           sum == (v.lo + v.bLo) % Full
           up == (v.bLo * 2) % Full
           high == (v.bHi * 2 + Flag(v.bLo >= Full \div 2)) % Full
           more == (v.hi + Flag(sum < v.bLo) + v.bHi) % Full
<1>3. sum \in 0 .. Full - 1 /\ up \in 0 .. Full - 1
  BY <1>1, <1>2
<1>4. high \in 0 .. Full - 1
  <2>1. Flag(v.bLo >= Full \div 2) \in Int
    BY DEF Flag
  <2> QED
    BY <1>1, <1>2, <2>1
<1>5. more \in 0 .. Full - 1
  <2>1. Flag(sum < v.bLo) \in Int
    BY DEF Flag
  <2> QED
    BY <1>1, <1>2, <2>1
<1>6. v.a \div 2 \in Int
  BY <1>1
<1>7. Turn(v) = [a |-> v.a \div 2, bLo |-> up, bHi |-> high, lo |-> IF add THEN sum ELSE v.lo,
                 hi |-> IF add THEN more ELSE v.hi, over |-> add /\ v.a = 1]
  BY Zenon DEF Turn
<1> HIDE DEF add, sum, up, high, more
<1> QED
  BY <1>1, <1>3, <1>4, <1>5, <1>6, <1>7 DEF Turning

LEMMA MultLoopIs ==
  ASSUME NEW a \in Word, NEW b \in Word
  PROVE  \E f : /\ Turns(f, a, b)
                /\ MultLoop(a, b) = [hi |-> f[Width].hi, lo |-> f[Width].lo]
<1> DEFINE next(v) == IF v.over THEN v ELSE Turn(v)
           step == [x \in Nat \X Turning |-> next(x[2])]
           F(g) == [i \in 0 .. Width |-> IF i = 0 THEN Begun(a, b) ELSE next(g[i - 1])]
           f == CHOOSE g : g = F(g)
<1>1. Begun(a, b) \in Turning
  BY UIs, Whole DEF Begun, Turning
<1>2. \A v \in Turning : next(v) \in Turning
  BY TurnKeeps
<1>3. step \in [Nat \X Turning -> Turning]
  BY <1>2
<1>4. \A n \in Nat, v \in Turning : step[<<n, v>>] = next(v)
  OBVIOUS
<1> HIDE DEF step, next
<1>5. PICK g \in [0 .. Width -> Turning] : Iterates(g, Width, Begun(a, b), step)
  BY <1>1, <1>3, IterationExists, WordFacts
<1>6. g = F(g)
  <2>1. ASSUME NEW i \in 0 .. Width PROVE g[i] = IF i = 0 THEN Begun(a, b) ELSE next(g[i - 1])
    <3>1. CASE i = 0
      BY <1>5, <3>1 DEF Iterates
    <3>2. CASE i # 0
      <4>1. i \in 1 .. Width /\ i - 1 \in 0 .. Width /\ i \in Nat
        BY <3>2, WordFacts
      <4> QED
        BY <1>4, <1>5, <3>2, <4>1 DEF Iterates
    <3> QED
      BY <3>1, <3>2
  <2> QED
    BY <1>5, <2>1
<1>7. f = F(f)
  <2>1. \E h : h = F(h)
    BY <1>6, Zenon
  <2> QED
    BY <2>1, Zenon
<1>8. MultLoop(a, b) = [hi |-> f[Width].hi, lo |-> f[Width].lo]
  BY Zenon DEF MultLoop, next, Turn, Begun
<1> HIDE DEF f
<1>9. ASSUME NEW i \in 0 .. Width PROVE f[i] = IF i = 0 THEN Begun(a, b) ELSE next(f[i - 1])
  BY <1>7, Zenon
<1>10. f[0] = Begun(a, b)
  BY <1>9, WordFacts
<1>11. ASSUME NEW n \in 1 .. Width PROVE f[n] = next(f[n - 1])
  <2>1. n \in 0 .. Width /\ n # 0
    BY WordFacts
  <2> QED
    BY <1>9, <2>1
<1>12. f \in [0 .. Width -> Turning]
  <2> DEFINE T == {n \in Nat : n <= Width => f[n] \in Turning}
  <2>1. 0 \in T
    BY <1>1, <1>10
  <2>2. ASSUME NEW n \in Nat \ {0}, n - 1 \in T PROVE n \in T
    <3> SUFFICES ASSUME n <= Width PROVE f[n] \in Turning
      OBVIOUS
    <3>1. n \in 1 .. Width /\ n - 1 <= Width
      BY WordFacts
    <3>2. f[n] = next(f[n - 1]) /\ f[n - 1] \in Turning
      BY <1>11, <2>2, <3>1
    <3> QED
      BY <1>2, <3>2
  <2>3. Nat \subseteq T
    <3> HIDE DEF T
    <3> QED
      BY <2>1, <2>2, AllAlong
  <2>4. f = [i \in 0 .. Width |-> f[i]]
    BY <1>7, Zenon
  <2>5. \A i \in 0 .. Width : f[i] \in Turning
    BY <2>3, WordFacts
  <2> QED
    BY <2>4, <2>5
<1> QED
  BY <1>8, <1>10, <1>11, <1>12 DEF Turns, next

\* Half of a quotient.
LEMMA HalfQuotient ==
  ASSUME NEW a \in Int, NEW p \in Nat \ {0}
  PROVE  (a \div p) \div 2 = a \div (2 * p)
<1> DEFINE q == a \div p
           r == a % p
           h == q \div 2
           s == q % 2
<1>1. q \in Int /\ r \in 0 .. p - 1 /\ a = p * q + r
  BY Divides
<1>2. h \in Int /\ s \in 0 .. 1 /\ q = 2 * h + s
  <2> HIDE DEF q
  <2> QED
    BY <1>1
<1>3. 2 * p \in Nat \ {0}
  OBVIOUS
<1> HIDE DEF q, r, h, s
<1>4. p * q = p * (2 * h) + p * s
  BY <1>2, Order
<1>5. p * (2 * h) = (2 * p) * h
  BY <1>2
<1>6. p * s + r \in 0 .. 2 * p - 1
  <2>1. s = 0 \/ s = 1
    BY <1>2
  <2>2. p * 0 = 0 /\ p * 1 = p
    OBVIOUS
  <2>3. CASE s = 0
    BY <1>1, <2>2, <2>3
  <2>4. CASE s = 1
    BY <1>1, <2>2, <2>4
  <2> QED
    BY <2>1, <2>3, <2>4
<1> DEFINE t == p * s + r
           y == (2 * p) * h
<1>7. a = y + t
  <2> DEFINE z == p * s
  <2>1. z \in Int /\ y \in Int /\ a = (y + z) + r
    BY <1>1, <1>2, <1>3, <1>4, <1>5
  <2> HIDE DEF z, y
  <2>2. a = y + (z + r)
    BY <1>1, <2>1
  <2> QED
    BY <2>2 DEF z
<1>8. t \in 0 .. 2 * p - 1
  BY <1>6
<1> HIDE DEF t
<1>9. y + t = (2 * p) * h + t
  OBVIOUS
<1> DEFINE P == 2 * p
<1>10. P \in Nat \ {0} /\ t \in 0 .. P - 1 /\ a = P * h + t
  BY <1>3, <1>7, <1>8
<1> HIDE DEF P
<1>11. (P * h + t) \div P = h
  BY <1>2, <1>10, QuotientIs
<1>12. a \div P = h
  BY <1>10, <1>11, Zenon
<1> QED
  BY <1>12 DEF P, h, q

\* The number two words make.
Joined(hi, lo) == Full * hi + lo

LEMMA JoinedAdds ==
  ASSUME NEW x \in 0 .. Full - 1, NEW y \in 0 .. Full - 1,
         NEW hi \in 0 .. Full - 1, NEW bHi \in 0 .. Full - 1,
         Joined(hi, x) + Joined(bHi, y) < Full * Full
  PROVE  LET sum == (x + y) % Full
         IN Joined((hi + Flag(sum < y) + bHi) % Full, sum) = Joined(hi, x) + Joined(bHi, y)
<1> DEFINE carry == IF x + y >= Full THEN 1 ELSE 0
           sum == x + y - Full * carry
           h == hi + carry + bHi
<1>1. Full \in Nat \ {0} /\ x \in Int /\ y \in Int /\ hi \in Int /\ bHi \in Int
  BY Whole
<1>2. Full * 1 = Full /\ Full * 0 = 0
  BY <1>1
<1>3. carry \in {0, 1} /\ sum \in 0 .. Full - 1 /\ x + y = Full * carry + sum /\ h \in Nat
  BY <1>1, <1>2
<1>4. carry = Flag(sum < y)
  BY <1>1, <1>2 DEF Flag
<1>5. (x + y) % Full = sum
  <2> HIDE DEF carry, sum, h
  <2>1. carry \in Int /\ sum \in 0 .. Full - 1
    BY <1>3
  <2>2. (Full * carry + sum) % Full = sum
    BY <2>1, Whole, QuotientIs
  <2> QED
    BY <1>3, <2>2, Zenon
<1>6. Full * h = Full * hi + Full * carry + Full * bHi
  <2> HIDE DEF carry
  <2>1. Full * (hi + carry) = Full * hi + Full * carry
    BY <1>1, <1>3, Order
  <2>2. Full * ((hi + carry) + bHi) = Full * (hi + carry) + Full * bHi
    BY <1>1, <1>3, Order
  <2> QED
    BY <2>1, <2>2
<1> DEFINE c == Full * carry
           fhi == Full * hi
           fb == Full * bHi
           fh == Full * h
<1>7. c \in Int /\ fhi \in Int /\ fb \in Int /\ fh \in Int
  <2> HIDE DEF carry, h
  <2> QED
    BY <1>1, <1>3
<1>8. fh = fhi + c + fb /\ x + y = c + sum
  BY <1>3, <1>6
<1> HIDE DEF c, fhi, fb, fh, sum, h, carry
<1>9. fh + sum = (fhi + x) + (fb + y)
  BY <1>1, <1>3, <1>7, <1>8
<1>10. h < Full
  <2> DEFINE ff == Full * Full
  <2>1. fh + sum < ff
    BY <1>9 DEF Joined, fhi, fb
  <2>2. ff \in Int
    BY <1>1
  <2> HIDE DEF ff
  <2>3. fh < ff
    BY <1>3, <1>7, <2>1, <2>2
  <2>4. ~ (Full <= h)
    <3>1. Full <= h <=> Full * Full <= Full * h
      BY <1>1, <1>3, Order
    <3> QED
      BY <1>7, <2>2, <2>3, <3>1 DEF fh, ff
  <2> QED
    BY <1>1, <1>3, <2>4
<1>11. h % Full = h
  <2>1. (Full * 0 + h) % Full = h
    BY <1>1, <1>3, <1>10, QuotientIs
  <2>2. Full * 0 + h = h
    BY <1>2, <1>3
  <2> QED
    BY <2>1, <2>2, Zenon
<1>12. Joined(h, sum) = Joined(hi, x) + Joined(bHi, y)
  BY <1>9 DEF Joined, fh, fhi, fb
<1> QED
  BY <1>4, <1>5, <1>11, <1>12, Zenon DEF h

LEMMA JoinedTwice ==
  ASSUME NEW y \in 0 .. Full - 1, NEW bHi \in 0 .. Full - 1,
         2 * Joined(bHi, y) < Full * Full
  PROVE  Joined((bHi * 2 + Flag(y >= Full \div 2)) % Full, (y * 2) % Full) = 2 * Joined(bHi, y)
<1> DEFINE carry == Flag(y >= Full \div 2)
           rest == y * 2 - Full * carry
           h == bHi * 2 + carry
<1>1. /\ Full \in Nat \ {0} /\ y \in Int /\ bHi \in Int
      /\ Full \div 2 = Half /\ Full = 2 * Half /\ Half \in Nat
  BY Whole, WordFacts
<1>2. Full * 1 = Full /\ Full * 0 = 0
  BY <1>1
<1>3. carry = IF y >= Half THEN 1 ELSE 0
  BY <1>1 DEF Flag
<1>4. carry \in {0, 1} /\ rest \in 0 .. Full - 1 /\ y * 2 = Full * carry + rest /\ h \in Nat
  <2> HIDE DEF carry
  <2>1. CASE y >= Half
    <3>1. carry = 1 /\ rest = y * 2 - Full
      BY <1>2, <1>3, <2>1
    <3> HIDE DEF rest
    <3> QED
      BY <1>1, <1>2, <2>1, <3>1
  <2>2. CASE ~ (y >= Half)
    <3>1. carry = 0 /\ rest = y * 2 - 0
      BY <1>2, <1>3, <2>2
    <3> HIDE DEF rest
    <3> QED
      BY <1>1, <1>2, <2>2, <3>1
  <2> QED
    BY <2>1, <2>2
<1>5. (y * 2) % Full = rest
  <2> HIDE DEF carry, rest
  <2>1. (Full * carry + rest) % Full = rest
    <3>1. Full \in Nat \ {0} /\ carry \in Int /\ rest \in 0 .. (Full - 1)
      BY <1>1, <1>4
    <3> QED
      BY <3>1, QuotientIs, Zenon
  <2> QED
    BY <1>4, <2>1, Zenon
<1> HIDE DEF carry
<1> DEFINE fh == Full * h
           fb == Full * bHi
           c == Full * carry
<1>6. fh \in Int /\ fb \in Int /\ c \in Int /\ fh = 2 * fb + c
  BY <1>1, <1>4
<1>7. y * 2 = c + rest
  BY <1>4
<1> HIDE DEF fh, fb, c, h, rest
<1>8. fh + rest = 2 * (fb + y)
  BY <1>1, <1>4, <1>6, <1>7
<1>9. h < Full
  <2> DEFINE ff == Full * Full
  <2>1. fh + rest < ff
    BY <1>8 DEF Joined, fb
  <2>2. ff \in Int
    BY <1>1
  <2> HIDE DEF ff
  <2>3. fh < ff
    BY <1>4, <1>6, <2>1, <2>2
  <2>4. ~ (Full <= h)
    <3>1. Full <= h <=> Full * Full <= Full * h
      BY <1>1, <1>4, Order
    <3> QED
      BY <1>6, <2>2, <2>3, <3>1 DEF fh, ff
  <2> QED
    BY <1>1, <1>4, <2>4
<1>10. h % Full = h
  <2>1. (Full * 0 + h) % Full = h
    BY <1>1, <1>4, <1>9, QuotientIs
  <2>2. Full * 0 + h = h
    BY <1>2, <1>4
  <2> QED
    BY <2>1, <2>2, Zenon
<1>11. Joined(h, rest) = 2 * Joined(bHi, y)
  BY <1>8 DEF Joined, fh, fb
<1> QED
  BY <1>5, <1>10, <1>11, Zenon DEF h, carry

\* After i turns: what of a is left, b shifted as far, and the sum so far,
\* which the rest makes the product.
SumSoFar(v, p, a, u) ==
  LET shifted == Joined(v.bHi, v.bLo)
      sum     == Joined(v.hi, v.lo)
  IN IF v.over THEN a >= 0 /\ sum = a * u
     ELSE /\ v.a = a \div p /\ shifted = p * u
          /\ sum + v.a * shifted = a * u
          /\ sum + u <= shifted

LEMMA TurnSums ==
  ASSUME NEW a \in Int, NEW u \in 0 .. Full - 1, NEW p \in Nat \ {0}, 2 * p <= Full,
         NEW v \in Turning, ~v.over, SumSoFar(v, p, a, u)
  PROVE  SumSoFar(Turn(v), 2 * p, a, u)
<1> DEFINE shifted == Joined(v.bHi, v.bLo)
           sum     == Joined(v.hi, v.lo)
           t       == Turn(v)
           low     == (v.lo + v.bLo) % Full
           high    == (v.hi + Flag(low < v.bLo) + v.bHi) % Full
           pu      == p * u
           ff      == Full * Full
           au      == a * u
           h       == v.a \div 2
<1>1. /\ v.a = a \div p /\ shifted = pu /\ sum + v.a * pu = au /\ sum + u <= pu
  BY DEF SumSoFar
<1>2. /\ v.a \in Int /\ v.lo \in 0 .. Full - 1 /\ v.hi \in 0 .. Full - 1
      /\ v.bLo \in 0 .. Full - 1 /\ v.bHi \in 0 .. Full - 1
  BY DEF Turning
<1>3. /\ t.a = h /\ t.bLo = (v.bLo * 2) % Full
      /\ t.bHi = (v.bHi * 2 + Flag(v.bLo >= Full \div 2)) % Full
      /\ t.lo = IF v.a % 2 = 1 THEN low ELSE v.lo
      /\ t.hi = IF v.a % 2 = 1 THEN high ELSE v.hi
      /\ t.over <=> v.a % 2 = 1 /\ v.a = 1
  BY Zenon DEF Turn
<1>4. Full \in Nat \ {0} /\ u \in Nat /\ u < Full
  BY Whole
<1>5. pu \in Nat /\ ff \in Nat /\ au \in Int
  BY <1>4
<1>6. 2 * pu < ff
  <2>1. 2 * pu = (2 * p) * u /\ 2 * p \in Nat \ {0}
    BY <1>4
  <2>2. (2 * p) * u <= Full * u
    <3> DEFINE P == 2 * p
    <3>1. P \in Nat \ {0} /\ P <= Full
      BY <2>1
    <3> HIDE DEF P
    <3>2. CASE u = 0
      BY <1>4, <3>1, <3>2
    <3>3. CASE u # 0
      <4>1. u \in Nat \ {0}
        BY <1>4, <3>3
      <4>2. u * P <= u * Full
        BY <1>4, <3>1, <4>1, Order
      <4>3. u * P = P * u /\ u * Full = Full * u
        BY <1>4, <3>1
      <4> QED
        BY <4>2, <4>3 DEF P
    <3> QED
      BY <3>2, <3>3 DEF P
  <2>3. Full * u <= Full * (Full - 1) /\ Full * (Full - 1) = ff - Full
    <3>1. Full - 1 \in Int /\ u <= Full - 1
      BY <1>4
    <3>2. Full * u <= Full * (Full - 1)
      BY <1>4, <3>1, Order
    <3> QED
      BY <1>4, <3>2
  <2> DEFINE fu == Full * u
             x  == Full * (Full - 1)
  <2>4. fu \in Int /\ x \in Int
    BY <1>4
  <2> HIDE DEF fu, x, pu, ff
  <2>5. 2 * pu <= fu /\ fu <= x /\ x = ff - Full
    BY <2>1, <2>2, <2>3 DEF fu, x
  <2> QED
    BY <1>4, <1>5, <2>4, <2>5
<1>7. sum \in Int /\ shifted \in Int
  BY <1>2, <1>4 DEF Joined
<1>8. sum + shifted < ff
  <2> HIDE DEF sum, shifted, pu, ff, au
  <2> QED
    BY <1>1, <1>4, <1>5, <1>6, <1>7
<1>9. Joined(high, low) = sum + shifted
  BY <1>2, <1>8, JoinedAdds
<1>10. Joined(t.bHi, t.bLo) = 2 * pu
  <2>1. 2 * shifted < ff
    BY <1>1, <1>6
  <2> QED
    BY <1>1, <1>2, <1>3, <2>1, JoinedTwice
<1>11. h = a \div (2 * p)
  BY <1>1, HalfQuotient
<1>12. h \in Int /\ (v.a % 2 = 1 => v.a = 2 * h + 1) /\ (v.a % 2 # 1 => v.a = 2 * h)
  BY <1>2
<1>13. (2 * p) * u = 2 * pu /\ (2 * h) * pu = h * (2 * pu) /\ (2 * h + 1) * pu = h * (2 * pu) + pu
  <2>1. (2 * p) * u = 2 * pu
    BY <1>4
  <2> HIDE DEF pu, h
  <2>2. (2 * h) * pu = h * (2 * pu) /\ (2 * h + 1) * pu = h * (2 * pu) + pu
    BY <1>5, <1>12
  <2> QED
    BY <2>1, <2>2
<1>14. CASE v.a % 2 = 1
  <2>1. Joined(t.hi, t.lo) = sum + pu
    BY <1>1, <1>3, <1>9, <1>14
  <2>2. v.a * pu = h * (2 * pu) + pu
    BY <1>12, <1>13, <1>14
  <2> DEFINE rest == h * (2 * pu)
             w == v.a * pu
  <2>3. rest \in Int /\ w \in Int
    BY <1>2, <1>5, <1>12
  <2>4. sum + pu + rest = au /\ sum + pu + u <= 2 * pu
    <3> HIDE DEF sum, pu, rest, au, w
    <3>1. sum + w = au /\ w = rest + pu
      BY <1>1, <2>2 DEF w, rest
    <3> QED
      BY <1>1, <1>4, <1>5, <1>7, <2>3, <3>1
  <2>5. CASE v.a = 1
    <3>1. h = 0 /\ t.over
      BY <1>3, <1>14, <2>5
    <3>2. rest = 0
      BY <1>5, <3>1
    <3>3. a >= 0
      <4>1. a = p * (a \div p) + (a % p) /\ a % p \in 0 .. p - 1
        BY Divides
      <4>2. a = p * 1 + (a % p)
        BY <1>1, <2>5, <4>1
      <4>3. a % p \in Nat
        BY <4>1
      <4> DEFINE r == a % p
      <4> HIDE DEF r
      <4>4. a = p * 1 + r /\ r \in Nat
        BY <4>2, <4>3 DEF r
      <4> QED
        BY <4>4
    <3>4. Joined(t.hi, t.lo) = au
      <4> HIDE DEF sum, pu, rest, au
      <4> QED
        BY <1>5, <1>7, <2>1, <2>4, <3>2
    <3> HIDE DEF t
    <3> QED
      BY <3>1, <3>3, <3>4, Zenon DEF SumSoFar, t
  <2>6. CASE v.a # 1
    <3>1. ~t.over
      BY <1>3, <2>6
    <3> HIDE DEF t
    <3>2. Joined(t.hi, t.lo) + h * Joined(t.bHi, t.bLo) = au
      BY <1>10, <2>1, <2>4
    <3>3. Joined(t.hi, t.lo) + u <= Joined(t.bHi, t.bLo)
      BY <1>10, <2>1, <2>4
    <3> QED
      BY <1>3, <1>10, <1>11, <1>13, <3>1, <3>2, <3>3, Zenon DEF SumSoFar, t
  <2> QED
    BY <2>5, <2>6
<1>15. CASE v.a % 2 # 1
  <2>1. Joined(t.hi, t.lo) = sum
    BY <1>3, <1>15
  <2>2. v.a * pu = h * (2 * pu)
    BY <1>12, <1>13, <1>15
  <2>3. ~t.over
    BY <1>3, <1>15
  <2> HIDE DEF t
  <2>4. Joined(t.hi, t.lo) + h * Joined(t.bHi, t.bLo) = au
    BY <1>1, <1>10, <2>1, <2>2
  <2>5. Joined(t.hi, t.lo) + u <= Joined(t.bHi, t.bLo)
    <3> HIDE DEF sum, pu
    <3> QED
      BY <1>1, <1>4, <1>5, <1>7, <1>10, <2>1
  <2> QED
    BY <1>3, <1>10, <1>11, <1>13, <2>3, <2>4, <2>5, Zenon DEF SumSoFar, t
<1> QED
  BY <1>14, <1>15

\* The loop of Mult multiplies.
LEMMA MultLoopMultiplies ==
  ASSUME NEW a \in Word, NEW b \in Word
  PROVE  LET p == MultLoop(a, b)
         IN /\ p.hi \in 0 .. Full - 1 /\ p.lo \in 0 .. Full - 1
            /\ Joined(p.hi, p.lo) = U(a) * U(b)
<1> DEFINE u == U(b)
<1>1. PICK f : Turns(f, a, b) /\ MultLoop(a, b) = [hi |-> f[Width].hi, lo |-> f[Width].lo]
  BY MultLoopIs
<1>2. a \in Int /\ u \in 0 .. Full - 1 /\ Full \in Nat \ {0} /\ u \in Nat
  BY UIs, Whole
<1> HIDE DEF u
<1> DEFINE T == {n \in Nat : n <= Width => SumSoFar(f[n], Pow2[n], a, u)}
<1>3. 0 \in T
  <2>1. f[0] = Begun(a, b) /\ Pow2[0] = 1
    BY <1>1, Pow2Steps DEF Turns
  <2>2. a \div 1 = a /\ Full * 0 + u = 1 * u /\ Full * 0 + 0 + u <= Full * 0 + u
        /\ (Full * 0 + 0) + a * (Full * 0 + u) = a * u
    BY <1>2
  <2>3. SumSoFar(Begun(a, b), 1, a, u)
    BY <2>2 DEF SumSoFar, Begun, Joined, u
  <2> QED
    BY <2>1, <2>3
<1>4. ASSUME NEW n \in Nat \ {0}, n - 1 \in T PROVE n \in T
  <2> SUFFICES ASSUME n <= Width PROVE SumSoFar(f[n], Pow2[n], a, u)
    OBVIOUS
  <2>1. n \in 1 .. Width /\ n - 1 \in Nat /\ n - 1 <= Width /\ n - 1 \in 0 .. Width
    BY WordFacts
  <2>2. SumSoFar(f[n - 1], Pow2[n - 1], a, u)
    BY <1>4, <2>1
  <2>3. f[n] = (IF f[n - 1].over THEN f[n - 1] ELSE Turn(f[n - 1])) /\ f[n - 1] \in Turning
    BY <1>1, <2>1 DEF Turns
  <2>4. Pow2[n] = 2 * Pow2[n - 1] /\ Pow2[n - 1] \in Nat \ {0}
    BY <2>1, Pow2Steps
  <2>5. 2 * Pow2[n - 1] <= Full
    BY <2>1, <2>4, Pow2Grows, WordFacts DEF Full
  <2>6. CASE f[n - 1].over
    <3>1. f[n] = f[n - 1]
      BY <2>3, <2>6
    <3> QED
      BY <2>2, <2>6, <3>1, Zenon DEF SumSoFar
  <2>7. CASE ~f[n - 1].over
    <3>1. f[n] = Turn(f[n - 1])
      BY <2>3, <2>7
    <3>2. SumSoFar(Turn(f[n - 1]), 2 * Pow2[n - 1], a, u)
      BY <1>2, <2>2, <2>3, <2>4, <2>5, <2>7, TurnSums
    <3> QED
      BY <2>4, <3>1, <3>2
  <2> QED
    BY <2>6, <2>7
<1>5. Nat \subseteq T
  <2> HIDE DEF T
  <2> QED
    BY <1>3, <1>4, AllAlong
<1> DEFINE v == f[Width]
           sum == Joined(v.hi, v.lo)
<1>6. SumSoFar(v, Full, a, u) /\ v \in Turning
  BY <1>1, <1>5, WordFacts DEF Turns, Full
<1>7. v.hi \in 0 .. Full - 1 /\ v.lo \in 0 .. Full - 1
  BY <1>6 DEF Turning
<1> HIDE DEF v
<1>8. sum = U(a) * u
  <2>1. CASE v.over
    <3>1. a >= 0 /\ sum = a * u
      BY <1>6, <2>1 DEF SumSoFar
    <3>2. U(a) = a
      BY <3>1, UIs
    <3> QED
      BY <3>1, <3>2
  <2>2. CASE ~v.over
    <3> DEFINE q == a \div Full
               r == a % Full
    <3>1. sum + q * (Full * u) = a * u
      BY <1>6, <2>2 DEF SumSoFar
    <3>2. q \in Int /\ r \in Int /\ a = Full * q + r
      BY <1>2, Divides
    <3>3. U(a) = r
      BY DEF U
    <3>4. sum \in Int
      BY <1>2, <1>7 DEF Joined
    <3> HIDE DEF q, r, sum
    <3>5. a * u = q * (Full * u) + r * u
      <4>1. Full * q \in Int
        BY <1>2, <3>2
      <4>2. (Full * q + r) * u = (Full * q) * u + r * u
        BY <1>2, <3>2, <4>1
      <4>3. (Full * q) * u = q * (Full * u)
        BY <1>2, <3>2
      <4> QED
        BY <3>2, <4>2, <4>3
    <3> DEFINE x == q * (Full * u)
               y == r * u
    <3>6. x \in Int /\ y \in Int
      BY <1>2, <3>2
    <3> HIDE DEF x, y
    <3>7. sum + x = x + y
      BY <3>1, <3>5 DEF x, y
    <3>8. sum = y
      BY <3>4, <3>6, <3>7
    <3> QED
      BY <3>3, <3>8 DEF y
  <2> QED
    BY <2>1, <2>2
<1> QED
  BY <1>1, <1>7, <1>8 DEF v, u

LEMMA Magnitude ==
  ASSUME NEW x \in Word
  PROVE  LET w == IF x < 0 THEN Wrap(-x) ELSE x
         IN w \in Word /\ U(w) = Abs(x) /\ Abs(x) \in 0 .. Half
<1>1. x \in Int /\ -Half <= x /\ x < Half /\ Full = 2 * Half /\ Half \in Nat /\ Half >= 8
  BY WordFacts, WordIs
<1>2. Abs(x) \in 0 .. Half /\ Abs(x) \in 0 .. Full - 1
  BY <1>1 DEF Abs
<1>3. CASE x < 0
  <2>1. -x \in 0 .. Full - 1 /\ Abs(x) = -x
    BY <1>1, <1>3 DEF Abs
  <2>2. Wrap(-x) \in Word /\ U(Wrap(-x)) = -x
    BY <2>1, WrapLow
  <2> QED
    BY <1>2, <1>3, <2>1, <2>2
<1>4. CASE ~ (x < 0)
  BY <1>2, <1>4, UIs DEF Abs
<1> QED
  BY <1>3, <1>4

LEMMA AbsProduct ==
  ASSUME NEW a \in Int, NEW b \in Int
  PROVE  /\ (a < 0) = (b < 0) => Abs(a) * Abs(b) = a * b
         /\ (a < 0) # (b < 0) => Abs(a) * Abs(b) = -(a * b)
<1>1. (-a) * (-b) = a * b /\ (-a) * b = -(a * b) /\ a * (-b) = -(a * b)
  OBVIOUS
<1>2. Abs(a) = (IF a < 0 THEN -a ELSE a) /\ Abs(b) = (IF b < 0 THEN -b ELSE b)
  BY DEF Abs
<1>3. CASE a < 0 /\ b < 0
  <2>1. Abs(a) = -a /\ Abs(b) = -b
    BY <1>2, <1>3
  <2> QED
    BY <1>1, <1>3, <2>1, Zenon
<1>4. CASE a < 0 /\ ~ (b < 0)
  <2>1. Abs(a) = -a /\ Abs(b) = b
    BY <1>2, <1>4
  <2> QED
    BY <1>1, <1>4, <2>1, Zenon
<1>5. CASE ~ (a < 0) /\ b < 0
  <2>1. Abs(a) = a /\ Abs(b) = -b
    BY <1>2, <1>5
  <2> QED
    BY <1>1, <1>5, <2>1, Zenon
<1>6. CASE ~ (a < 0) /\ ~ (b < 0)
  <2>1. Abs(a) = a /\ Abs(b) = b
    BY <1>2, <1>6
  <2>2. (a < 0) = (b < 0)
    BY <1>6
  <2> QED
    BY <2>1, <2>2, Zenon
<1> QED
  BY <1>3, <1>4, <1>5, <1>6

\* The product of two magnitudes takes no more than half of the high word.
LEMMA HighWordSmall ==
  ASSUME NEW A \in 0 .. Half, NEW B \in 0 .. Half, NEW hi \in Nat, NEW lo \in Nat,
         Joined(hi, lo) = A * B
  PROVE  hi < Half
<1> DEFINE q == Pow2[Width - 2]
<1>1. q \in Nat \ {0} /\ Half = 2 * q /\ Full = 4 * q /\ Half \in Nat \ {0} /\ Full \in Nat \ {0}
  BY Quarter, Whole, WordFacts
<1> HIDE DEF q
<1>2. A * B <= Half * Half
  <2>1. A \in Nat /\ B \in Nat /\ A <= Half /\ B <= Half
    BY <1>1
  <2>2. Half * B <= Half * Half
    BY <1>1, <2>1, Order
  <2>3. A * B <= Half * B
    <3>1. CASE B = 0
      BY <1>1, <2>1, <3>1
    <3>2. CASE B # 0
      <4>1. B \in Nat \ {0}
        BY <2>1, <3>2
      <4>2. B * A <= B * Half
        BY <1>1, <2>1, <4>1, Order
      <4>3. B * A = A * B /\ B * Half = Half * B
        BY <1>1, <2>1
      <4> QED
        BY <4>2, <4>3
    <3> QED
      BY <3>1, <3>2
  <2> DEFINE x == A * B
             y == Half * B
             z == Half * Half
  <2>4. x \in Int /\ y \in Int /\ z \in Int /\ x <= y /\ y <= z
    BY <1>1, <2>1, <2>2, <2>3
  <2> HIDE DEF x, y, z
  <2>5. x <= z
    BY <2>4
  <2> QED
    BY <2>5 DEF x, z
<1>3. Half * Half = Full * q
  BY <1>1
<1> DEFINE x == Full * hi
           y == Full * q
           z == A * B
<1>4. x \in Int /\ y \in Int /\ z \in Int
  BY <1>1
<1>5. x + lo = z /\ z <= y
  BY <1>2, <1>3 DEF Joined
<1> HIDE DEF x, y, z
<1>6. x <= y
  BY <1>4, <1>5
<1>7. hi <= q
  BY <1>1, <1>6, Order DEF x, y
<1> QED
  BY <1>1, <1>7

\* The complement of a product over both words.
LEMMA Complement ==
  ASSUME NEW hi \in 0 .. Half - 1, NEW lo \in 0 .. Full - 1
  PROVE  LET nhi == Wrap(BitNot(hi) + Flag(lo = 0))
             nlo == Wrap(-lo)
         IN nhi \in Word /\ nlo \in Word /\ nhi * Full + U(nlo) = -Joined(hi, lo)
<1>1. /\ Full = 2 * Half /\ Half \in Nat /\ Half >= 8 /\ Full \in Nat \ {0}
      /\ hi \in Int /\ 0 <= hi /\ hi < Half /\ lo \in Int /\ 0 <= lo /\ lo < Full
  BY WordFacts
<1> DEFINE f == Flag(lo = 0)
           n == -hi - 1 + f
           m == (-lo) % Full
<1>2. f = IF lo = 0 THEN 1 ELSE 0
  BY DEF Flag
<1>3. n \in Int /\ -Half <= n /\ n < Half
  BY <1>1, <1>2
<1>4. n \in Word /\ Wrap(n) = n /\ n = BitNot(hi) + f
  BY <1>3, WordIs, WrapWord DEF BitNot
<1>5. U(Wrap(-lo)) = m /\ Wrap(-lo) \in Word
  BY <1>1, WrapIs
<1>6. CASE lo = 0
  <2>1. m = 0
    <3>1. (Full * 0 + 0) % Full = 0
      BY <1>1, QuotientIs
    <3>2. Full * 0 + 0 = -lo
      BY <1>1, <1>6
    <3> QED
      BY <3>1, <3>2, Zenon
  <2>2. n = -hi
    BY <1>1, <1>2, <1>6
  <2>3. (-hi) * Full + 0 = -(Full * hi + 0)
    BY <1>1
  <2> QED
    BY <1>4, <1>5, <1>6, <2>1, <2>2, <2>3 DEF Joined
<1>7. CASE lo # 0
  <2>1. m = Full - lo
    <3>1. Full - lo \in 0 .. Full - 1 /\ Full * (-1) + (Full - lo) = -lo
      BY <1>1, <1>7
    <3>2. (Full * (-1) + (Full - lo)) % Full = Full - lo
      BY <1>1, <3>1, QuotientIs
    <3> QED
      BY <3>1, <3>2, Zenon
  <2>2. n = -hi - 1
    BY <1>1, <1>2, <1>7
  <2>3. (-hi - 1) * Full + (Full - lo) = -(Full * hi + lo)
    BY <1>1
  <2> QED
    BY <1>4, <1>5, <2>1, <2>2, <2>3 DEF Joined
<1> QED
  BY <1>6, <1>7

\* Mult gives the product over both words.
LEMMA MultMultiplies ==
  ASSUME NEW a \in Word, NEW b \in Word, NEW signedArith \in BOOLEAN
  PROVE  LET p == Mult(a, b, signedArith)
         IN /\ p.hi \in Word /\ p.lo \in Word
            /\ signedArith  => p.hi * Full + U(p.lo) = a * b
            /\ ~signedArith => U(p.hi) * Full + U(p.lo) = U(a) * U(b)
<1> DEFINE x == IF signedArith /\ a < 0 THEN Wrap(-a) ELSE a
           y == IF signedArith /\ b < 0 THEN Wrap(-b) ELSE b
           p == MultLoop(x, y)
           negative == signedArith /\ (a < 0) # (b < 0)
           product == Mult(a, b, signedArith)
<1>1. product = IF a = 0 \/ b = 0 THEN [hi |-> 0, lo |-> 0]
                ELSE IF negative
                THEN [hi |-> Wrap(BitNot(p.hi) + Flag(p.lo = 0)), lo |-> Wrap(-p.lo)]
                ELSE [hi |-> Wrap(p.hi), lo |-> Wrap(p.lo)]
  BY Zenon DEF Mult
<1>2. x \in Word /\ y \in Word
  BY Magnitude
<1>3. a \in Int /\ b \in Int /\ Full \in Nat \ {0} /\ Full = 2 * Half /\ Half \in Nat /\ Half >= 8
  BY UIs, Whole, WordFacts
<1>4. /\ signedArith => U(x) = Abs(a) /\ U(y) = Abs(b)
      /\ ~signedArith => x = a /\ y = b
  BY Magnitude
<1>5. p.hi \in 0 .. Full - 1 /\ p.lo \in 0 .. Full - 1 /\ Joined(p.hi, p.lo) = U(x) * U(y)
  BY <1>2, MultLoopMultiplies
<1> HIDE DEF x, y, p, product
<1>6. CASE a = 0 \/ b = 0
  <2>1. product.hi = 0 /\ product.lo = 0
    BY <1>1, <1>6
  <2>2. 0 \in Word /\ U(0) = 0
    <3>1. 0 \in Word
      BY <1>3, WordIs
    <3> QED
      BY <3>1, UIs
  <2>3. a * b = 0 /\ 0 * Full + 0 = 0
    BY <1>3, <1>6
  <2>4. U(a) * U(b) = 0
    <3>1. U(a) \in Int /\ U(b) \in Int
      BY <1>3, UIs
    <3> QED
      BY <1>6, <2>2, <3>1
  <2> QED
    BY <2>1, <2>2, <2>3, <2>4 DEF product
<1>7. CASE ~ (a = 0 \/ b = 0) /\ ~signedArith
  <2>1. product.hi = Wrap(p.hi) /\ product.lo = Wrap(p.lo)
    BY <1>1, <1>7
  <2>2. /\ product.hi \in Word /\ product.lo \in Word
        /\ U(product.hi) = p.hi /\ U(product.lo) = p.lo
    BY <1>5, <2>1, WrapLow
  <2>3. p.hi * Full + p.lo = Joined(p.hi, p.lo)
    BY <1>3, <1>5 DEF Joined
  <2> QED
    BY <1>4, <1>5, <1>7, <2>2, <2>3 DEF product
<1>8. CASE ~ (a = 0 \/ b = 0) /\ signedArith
  <2>1. Abs(a) \in 0 .. Half /\ Abs(b) \in 0 .. Half
    BY Magnitude
  <2>2. Joined(p.hi, p.lo) = Abs(a) * Abs(b) /\ p.hi \in Nat /\ p.lo \in Nat
    BY <1>3, <1>4, <1>5, <1>8
  <2>3. p.hi < Half
    BY <2>1, <2>2, HighWordSmall
  <2>4. CASE negative
    <3>1. /\ product.hi = Wrap(BitNot(p.hi) + Flag(p.lo = 0))
          /\ product.lo = Wrap(-p.lo)
      BY <1>1, <1>8, <2>4
    <3>2. p.hi \in 0 .. Half - 1
      BY <1>3, <2>2, <2>3
    <3>3. /\ product.hi \in Word /\ product.lo \in Word
          /\ product.hi * Full + U(product.lo) = -Joined(p.hi, p.lo)
      BY <1>5, <3>1, <3>2, Complement
    <3>4. Abs(a) * Abs(b) = -(a * b)
      BY <1>3, <2>4, AbsProduct
    <3>5. -(-(a * b)) = a * b
      BY <1>3
    <3> QED
      BY <1>8, <2>2, <3>3, <3>4, <3>5 DEF product
  <2>5. CASE ~negative
    <3>1. product.hi = Wrap(p.hi) /\ product.lo = Wrap(p.lo)
      BY <1>1, <1>8, <2>5
    <3>2. product.lo \in Word /\ U(product.lo) = p.lo
      BY <1>5, <3>1, WrapLow
    <3>3. p.hi \in Word
      BY <1>3, <2>2, <2>3, WordIs
    <3>4. product.hi = p.hi
      BY <3>1, <3>3, WrapWord
    <3>5. Abs(a) * Abs(b) = a * b
      BY <1>3, <1>8, <2>5, AbsProduct
    <3>6. p.hi * Full + p.lo = Joined(p.hi, p.lo)
      BY <1>3, <1>5 DEF Joined
    <3> QED
      BY <1>8, <2>2, <3>2, <3>3, <3>4, <3>5, <3>6 DEF product
  <2> QED
    BY <2>4, <2>5
<1> QED
  BY <1>6, <1>7, <1>8

-----------------------------------------------------------------------------
(* Division *)

LEMMA SquareGrows ==
  ASSUME NEW x \in Nat, NEW y \in Nat, x < y
  PROVE  x * x < y * y
<1>1. y \in Nat \ {0} /\ x + 1 \in Int
  OBVIOUS
<1>2. y * (x + 1) <= y * y
  BY <1>1, Order
<1>3. y * (x + 1) = y * x + y
  OBVIOUS
<1>4. x * x <= y * x
  <2>1. CASE x = 0
    BY <2>1
  <2>2. CASE x # 0
    <3>1. x * x <= x * y
      BY <2>2, Order
    <3>2. x * y = y * x
      OBVIOUS
    <3> QED
      BY <3>1, <3>2
  <2> QED
    BY <2>1, <2>2
<1> DEFINE xx == x * x
           yx == y * x
           yy == y * y
           z  == y * (x + 1)
<1>5. xx \in Int /\ yx \in Int /\ yy \in Int /\ xx <= yx /\ yx + y <= yy
  BY <1>2, <1>3, <1>4
<1> HIDE DEF xx, yx, yy
<1>6. xx < yy
  BY <1>1, <1>5
<1> QED
  BY <1>6 DEF xx, yy

\* The division of C gives the quotient and a remainder with the dividend's sign.
LEMMA DivisionDivides ==
  ASSUME NEW a \in Word, NEW b \in Word, b # 0
  PROVE  LET q == Quotient(a, b)
             r == Remainder(a, b)
         IN q \in Int /\ r \in Word /\ q * b + r = a /\ r * r < b * b /\ r * a >= 0
<1> DEFINE x == Abs(a)
           y == Abs(b)
           d == x \div y
           m == x % y
           q == Quotient(a, b)
           r == Remainder(a, b)
<1>1. /\ a \in Int /\ -Half <= a /\ a < Half
      /\ b \in Int /\ Half \in Nat
  BY WordFacts, WordIs
<1>2. x \in Nat /\ y \in Nat \ {0}
  BY <1>1 DEF Abs
<1>3. d \in Int /\ m \in 0 .. y - 1 /\ x = y * d + m
  <2> HIDE DEF x, y
  <2> QED
    BY <1>2, Divides
<1>4. d >= 0
  <2> HIDE DEF x, y
  <2> QED
    BY <1>2
<1>5. q = IF (a < 0) = (b < 0) THEN d ELSE -d
  BY Zenon DEF Quotient, Abs
<1>6. r = a - b * q
  BY DEF Remainder
<1>7. q \in Int
  <2> HIDE DEF d, q
  <2> QED
    BY <1>3, <1>5
<1>8. (a = x \/ a = -x) /\ (b = y \/ b = -y)
  BY <1>1 DEF Abs
<1> HIDE DEF d, m, q, r
<1>9. m <= x
  <2>1. y * d >= 0 /\ y * d \in Int
    BY <1>2, <1>3, <1>4, Product
  <2> DEFINE z == y * d
  <2> HIDE DEF x, y, z
  <2>2. z >= 0 /\ z \in Int /\ x = z + m
    BY <1>3, <2>1 DEF z
  <2> QED
    BY <1>2, <1>3, <2>2
<1>10. r = IF a < 0 THEN -m ELSE m
  <2>1. /\ (-y) * (-d) = y * d /\ (-y) * d = -(y * d) /\ y * (-d) = -(y * d)
        /\ y * d \in Int
    <3> HIDE DEF x, y
    <3> QED
      BY <1>2, <1>3
  <2> DEFINE z == y * d
  <2>2. b * q = IF a < 0 THEN -z ELSE z
    <3>1. CASE a < 0 /\ b < 0
      <4>1. b = -y /\ q = d
        BY <1>1, <1>5, <3>1 DEF Abs
      <4> HIDE DEF x, y
      <4>2. b * q = -z
        BY <2>1, <4>1
      <4> QED
        BY <3>1, <4>2
    <3>2. CASE a < 0 /\ ~ (b < 0)
      <4>1. b = y /\ q = -d
        BY <1>1, <1>5, <3>2 DEF Abs
      <4> HIDE DEF x, y
      <4>2. b * q = -z
        BY <2>1, <4>1
      <4> QED
        BY <3>2, <4>2
    <3>3. CASE ~ (a < 0) /\ b < 0
      <4>1. b = -y /\ q = -d
        BY <1>1, <1>5, <3>3 DEF Abs
      <4> HIDE DEF x, y
      <4>2. b * q = z
        BY <2>1, <4>1
      <4> QED
        BY <3>3, <4>2
    <3>4. CASE ~ (a < 0) /\ ~ (b < 0)
      <4>1. b = y /\ q = d
        BY <1>1, <1>5, <3>4 DEF Abs
      <4> QED
        BY <3>4, <4>1
    <3> QED
      BY <3>1, <3>2, <3>3, <3>4
  <2>3. x = z + m /\ z \in Int /\ a = IF a < 0 THEN -x ELSE x
    BY <1>1, <1>3, <2>1 DEF Abs
  <2> HIDE DEF x, y, z
  <2> QED
    BY <1>1, <1>2, <1>3, <1>6, <2>2, <2>3
<1> HIDE DEF x, y
<1>11. r \in Int /\ -Half <= r /\ r < Half
  <2>1. a = IF a < 0 THEN -x ELSE x
    BY <1>1 DEF x, Abs
  <2> QED
    BY <1>1, <1>2, <1>3, <1>9, <1>10, <2>1
<1>12. q * b + r = a
  <2>1. q * b = b * q /\ b * q \in Int
    BY <1>1, <1>7
  <2> DEFINE z == b * q
  <2> HIDE DEF z
  <2> QED
    BY <1>1, <1>6, <2>1 DEF z
<1>13. r * r < b * b
  <2>1. m * m < y * y
    BY <1>2, <1>3, SquareGrows
  <2>2. (-m) * (-m) = m * m /\ (-y) * (-y) = y * y
    BY <1>2, <1>3
  <2>3. r * r = m * m
    <3>1. r = m \/ r = -m
      BY <1>10
    <3> QED
      BY <2>2, <3>1, Zenon
  <2>4. b * b = y * y
    BY <1>8, <2>2, Zenon
  <2> QED
    BY <2>1, <2>3, <2>4
<1>14. r * a >= 0
  <2>1. (-m) * (-x) = m * x /\ m * x >= 0
    BY <1>2, <1>3
  <2>2. a = IF a < 0 THEN -x ELSE x
    BY <1>1 DEF x, Abs
  <2>3. r * a = m * x
    <3>1. CASE a < 0
      <4>1. r = -m /\ a = -x
        BY <1>10, <2>2, <3>1
      <4> QED
        BY <2>1, <4>1, Zenon
    <3>2. CASE ~ (a < 0)
      <4>1. r = m /\ a = x
        BY <1>10, <2>2, <3>2
      <4> QED
        BY <4>1, Zenon
    <3> QED
      BY <3>1, <3>2
  <2> QED
    BY <2>1, <2>3
<1> QED
  BY <1>7, <1>11, <1>12, <1>13, <1>14, WordIs DEF q, r

LEMMA UnsignedDivides ==
  ASSUME NEW a \in Word, NEW b \in Word, b # 0
  PROVE  LET hi == Wrap(U(a) % U(b))
             lo == Wrap(U(a) \div U(b))
         IN hi \in Word /\ lo \in Word /\ U(lo) * U(b) + U(hi) = U(a) /\ U(hi) < U(b)
<1> DEFINE x == U(a)
           y == U(b)
           d == x \div y
           m == x % y
<1>1. x \in 0 .. Full - 1 /\ y \in 0 .. Full - 1 /\ Full \in Nat \ {0}
  BY UIs, Whole
<1>2. y # 0
  <2>1. y = (IF b < 0 THEN b + Full ELSE b) /\ b \in Int /\ -Half <= b /\ b < Half
    BY UIs, WordIs
  <2>2. Full = 2 * Half /\ Half \in Nat /\ Half >= 8
    BY WordFacts
  <2> HIDE DEF y
  <2> QED
    BY <2>1, <2>2
<1> HIDE DEF x, y
<1>3. y \in Nat \ {0} /\ x \in Nat
  BY <1>1, <1>2
<1>4. d \in Int /\ m \in 0 .. y - 1 /\ x = y * d + m /\ d >= 0
  <2>1. d >= 0
    BY <1>3
  <2> QED
    BY <1>3, <2>1, Divides
<1> HIDE DEF d, m
<1>5. d <= x
  <2>1. CASE d = 0
    BY <1>3, <2>1
  <2>2. CASE d # 0
    <3>1. d \in Nat \ {0} /\ d * 1 <= d * y
      <4>1. d \in Nat \ {0}
        BY <1>4, <2>2
      <4> QED
        BY <1>3, <4>1, Order
    <3>2. d * 1 = d /\ d * y = y * d /\ y * d \in Int
      BY <1>3, <3>1
    <3> DEFINE z == y * d
    <3> HIDE DEF z
    <3>3. d <= z /\ x = z + m /\ z \in Int
      BY <1>4, <3>1, <3>2 DEF z
    <3> QED
      BY <1>3, <1>4, <3>3
  <2> QED
    BY <2>1, <2>2
<1>6. d \in 0 .. Full - 1 /\ m \in 0 .. Full - 1
  BY <1>1, <1>3, <1>4, <1>5
<1>7. U(Wrap(d)) = d /\ U(Wrap(m)) = m /\ Wrap(d) \in Word /\ Wrap(m) \in Word
  BY <1>6, WrapLow
<1>8. d * y + m = x
  <2>1. d * y = y * d
    BY <1>3, <1>4
  <2> QED
    BY <1>4, <2>1
<1>9. m < y
  BY <1>3, <1>4
<1> QED
  BY <1>7, <1>8, <1>9 DEF d, m, x, y

-----------------------------------------------------------------------------
(* Bits *)

LEMMA ParityKept ==
  ASSUME NEW q \in Int, NEW e \in Int
  PROVE  (q + 2 * e) % 2 = q % 2
OBVIOUS

\* A digit d is added before the m digits of s.
LEMMA DigitAdded ==
  ASSUME NEW m \in Nat, NEW s \in 0 .. Pow2[m] - 1, NEW d \in {0, 1}
  PROVE  LET t == s + d * Pow2[m]
         IN /\ t \in 0 .. Pow2[m + 1] - 1
            /\ (t \div Pow2[m]) % 2 = d
            /\ \A i \in 0 .. m - 1 : (t \div Pow2[i]) % 2 = (s \div Pow2[i]) % 2
<1> DEFINE P == Pow2[m]
           t == s + d * P
<1>1. P \in Nat \ {0} /\ Pow2[m + 1] = 2 * P
  BY Pow2Next
<1> HIDE DEF P
<1>2. s \in 0 .. P - 1 /\ d * P = P * d /\ (d = 0 \/ d = 1)
  BY <1>1 DEF P
<1>3. t \in 0 .. Pow2[m + 1] - 1
  <2>1. d * P = 0 \/ d * P = P
    BY <1>1, <1>2
  <2> QED
    BY <1>1, <1>2, <2>1
<1>4. (t \div P) % 2 = d
  <2>0. d \in Int /\ s \in Int
    BY <1>1, <1>2
  <2>1. (P * d + s) \div P = d
    <3> HIDE DEF t
    <3> QED
      BY <1>1, <1>2, <2>0, QuotientIs
  <2>2. t = P * d + s
    BY <1>1, <1>2
  <2>3. t \div P = d
    BY <2>1, <2>2, Zenon
  <2>4. d % 2 = d
    BY <1>2
  <2> QED
    BY <2>3, <2>4, Zenon
<1>5. ASSUME NEW i \in 0 .. m - 1
      PROVE  (t \div Pow2[i]) % 2 = (s \div Pow2[i]) % 2
  <2> DEFINE p == Pow2[i]
             c == Pow2[m - i - 1]
             q == s \div p
             r == s % p
             e == d * c
  <2>1. i \in Nat /\ m - i - 1 \in Nat /\ (i + 1) + (m - i - 1) = m /\ i + 1 \in Nat
    BY Pow2Next
  <2>2. p \in Nat \ {0} /\ c \in Nat \ {0} /\ Pow2[i + 1] = 2 * p
    BY <2>1, Pow2Next
  <2>3. P = (2 * p) * c
    BY <2>1, <2>2, Pow2Sum DEF P
  <2> HIDE DEF p, c
  <2>4. q \in Int /\ r \in 0 .. p - 1 /\ s = p * q + r
    <3>1. s \in Int
      BY <1>1, <1>2
    <3> QED
      BY <2>2, <3>1, Divides
  <2> HIDE DEF q, r
  <2>5. e \in Int /\ d * P = p * (2 * e)
    BY <1>2, <2>2, <2>3
  <2> HIDE DEF e
  <2>6. p * (q + 2 * e) = p * q + p * (2 * e)
    BY <2>2, <2>4, <2>5, Order
  <2>7. t = p * (q + 2 * e) + r
    <3> DEFINE x == p * q
               y == p * (2 * e)
    <3>1. x \in Int /\ y \in Int /\ r \in Int
      BY <2>2, <2>4, <2>5
    <3> HIDE DEF x, y
    <3>2. s = x + r /\ d * P = y /\ p * (q + 2 * e) = x + y
      BY <2>4, <2>5, <2>6 DEF x, y
    <3> QED
      BY <3>1, <3>2
  <2>8. (p * (q + 2 * e) + r) \div p = q + 2 * e
    <3>1. q + 2 * e \in Int
      BY <2>4, <2>5
    <3> QED
      BY <2>2, <2>4, <3>1, QuotientIs
  <2>9. t \div p = q + 2 * e
    BY <2>7, <2>8, Zenon
  <2>10. (q + 2 * e) % 2 = q % 2
    BY <2>4, <2>5, ParityKept
  <2> HIDE DEF t
  <2>11. (t \div p) % 2 = q % 2
    BY <2>9, <2>10, Zenon
  <2> QED
    BY <2>11 DEF p, q
<1> QED
  BY <1>3, <1>4, <1>5, Zenon DEF P, t

\* The sums of FromBits.
Sums(g, f) ==
  /\ g[0] = 0
  /\ \A n \in 1 .. Width : g[n] = g[n - 1] + f[n - 1] * Pow2[n - 1]

LEMMA FromBitsSums ==
  ASSUME NEW f \in [0 .. Width - 1 -> {0, 1}]
  PROVE  \E g : Sums(g, f) /\ FromBits(f) = Wrap(g[Width])
<1> DEFINE plus(n, v) == v + f[n - 1] * Pow2[n - 1]
           step == [x \in Nat \X Int |-> IF x[1] \in 1 .. Width THEN plus(x[1], x[2]) ELSE 0]
           F(g) == [i \in 0 .. Width |-> IF i = 0 THEN 0 ELSE plus(i, g[i - 1])]
           g == CHOOSE g : g = F(g)
<1>1. ASSUME NEW n \in 1 .. Width, NEW v \in Int PROVE plus(n, v) \in Int
  <2>1. n - 1 \in 0 .. Width - 1 /\ n - 1 \in Nat
    BY WordFacts
  <2>2. f[n - 1] \in {0, 1} /\ Pow2[n - 1] \in Nat
    BY <2>1, Pow2Next
  <2>3. f[n - 1] * Pow2[n - 1] \in Int
    BY <2>2
  <2> QED
    BY <2>3
<1> HIDE DEF plus
<1>2. step \in [Nat \X Int -> Int]
  BY <1>1
<1>3. \A n \in 1 .. Width, v \in Int : step[<<n, v>>] = plus(n, v)
  BY WordFacts
<1> HIDE DEF step
<1>4. PICK h \in [0 .. Width -> Int] : Iterates(h, Width, 0, step)
  <2>1. 0 \in Int
    OBVIOUS
  <2> QED
    BY <1>2, <2>1, IterationExists, WordFacts
<1>5. h = F(h)
  <2>1. ASSUME NEW i \in 0 .. Width PROVE h[i] = IF i = 0 THEN 0 ELSE plus(i, h[i - 1])
    <3>1. CASE i = 0
      BY <1>4, <3>1 DEF Iterates
    <3>2. CASE i # 0
      <4>1. i \in 1 .. Width /\ i - 1 \in 0 .. Width
        BY <3>2, WordFacts
      <4> QED
        BY <1>3, <1>4, <3>2, <4>1 DEF Iterates
    <3> QED
      BY <3>1, <3>2
  <2> QED
    BY <1>4, <2>1
<1>6. g = F(g)
  <2>1. \E k : k = F(k)
    BY <1>5, Zenon
  <2> QED
    BY <2>1, Zenon
<1>7. FromBits(f) = Wrap(g[Width])
  BY Zenon DEF FromBits, plus
<1> HIDE DEF g
<1>8. ASSUME NEW i \in 0 .. Width PROVE g[i] = IF i = 0 THEN 0 ELSE plus(i, g[i - 1])
  BY <1>6, Zenon
<1>9. g[0] = 0
  BY <1>8, WordFacts
<1>10. ASSUME NEW n \in 1 .. Width PROVE g[n] = plus(n, g[n - 1])
  <2>1. n \in 0 .. Width /\ n # 0
    BY WordFacts
  <2> QED
    BY <1>8, <2>1
<1> QED
  BY <1>7, <1>9, <1>10 DEF Sums, plus

\* A word made of bits has them.
LEMMA FromBitsIs ==
  ASSUME NEW f \in [0 .. Width - 1 -> {0, 1}]
  PROVE  FromBits(f) \in Word /\ \A i \in 0 .. Width - 1 : Bit(FromBits(f), i) = f[i]
<1>1. PICK g : Sums(g, f) /\ FromBits(f) = Wrap(g[Width])
  BY FromBitsSums
<1> DEFINE Has(n) == /\ g[n] \in 0 .. Pow2[n] - 1
                     /\ \A i \in 0 .. n - 1 : (g[n] \div Pow2[i]) % 2 = f[i]
           T == {n \in Nat : n <= Width => Has(n)}
<1>2. 0 \in T
  <2>1. g[0] = 0 /\ Pow2[0] = 1
    BY <1>1, Pow2Steps DEF Sums
  <2>2. Has(0)
    BY <2>1
  <2> QED
    BY <2>2
<1>3. ASSUME NEW n \in Nat \ {0}, n - 1 \in T PROVE n \in T
  <2> SUFFICES ASSUME n <= Width PROVE Has(n)
    OBVIOUS
  <2> DEFINE m == n - 1
  <2>1. m \in Nat /\ m + 1 = n /\ m <= Width /\ n \in 1 .. Width /\ m \in 0 .. Width - 1
    BY WordFacts
  <2>2. Has(m)
    BY <1>3, <2>1
  <2>3. g[n] = g[m] + f[m] * Pow2[m] /\ f[m] \in {0, 1}
    BY <1>1, <2>1 DEF Sums
  <2> HIDE DEF m
  <2>4. /\ g[n] \in 0 .. Pow2[n] - 1
        /\ (g[n] \div Pow2[m]) % 2 = f[m]
        /\ \A i \in 0 .. m - 1 : (g[n] \div Pow2[i]) % 2 = (g[m] \div Pow2[i]) % 2
    BY <2>1, <2>2, <2>3, DigitAdded
  <2>5. ASSUME NEW i \in 0 .. n - 1 PROVE (g[n] \div Pow2[i]) % 2 = f[i]
    <3>1. CASE i = m
      BY <2>4, <3>1
    <3>2. CASE i # m
      <4>1. i \in 0 .. m - 1
        BY <2>1, <3>2
      <4>2. (g[n] \div Pow2[i]) % 2 = (g[m] \div Pow2[i]) % 2
        BY <2>4, <4>1
      <4>3. (g[m] \div Pow2[i]) % 2 = f[i]
        BY <2>2, <4>1
      <4> QED
        BY <4>2, <4>3
    <3> QED
      BY <3>1, <3>2
  <2> QED
    BY <2>4, <2>5
<1>4. Nat \subseteq T
  <2> HIDE DEF T
  <2> QED
    BY <1>2, <1>3, AllAlong
<1>5. Has(Width)
  BY <1>4, WordFacts
<1>6. g[Width] \in 0 .. Full - 1
  BY <1>5 DEF Full
<1>7. FromBits(f) \in Word /\ U(FromBits(f)) = g[Width]
  BY <1>1, <1>6, WrapLow
<1>8. ASSUME NEW i \in 0 .. Width - 1 PROVE Bit(FromBits(f), i) = f[i]
  <2>1. (g[Width] \div Pow2[i]) % 2 = f[i]
    BY <1>5
  <2> QED
    BY <1>7, <2>1, Zenon DEF Bit
<1> QED
  BY <1>7, <1>8

LEMMA BitIs ==
  ASSUME NEW w \in Int, NEW i \in Nat
  PROVE  Bit(w, i) \in {0, 1} /\ Pow2[i] \in Nat \ {0}
<1>1. Pow2[i] \in Nat \ {0} /\ Full \in Nat \ {0}
  BY Pow2Next, Whole
<1>2. U(w) \in Int
  BY <1>1, Divides DEF U
<1> DEFINE q == U(w) \div Pow2[i]
<1>3. q \in Int
  BY <1>1, <1>2, Divides
<1> HIDE DEF q
<1>4. q % 2 \in {0, 1}
  BY <1>3
<1> QED
  BY <1>1, <1>4 DEF Bit, q

LEMMA BitNotIs ==
  ASSUME NEW w \in Word
  PROVE  BitNot(w) \in Word /\ \A i \in 0 .. Width - 1 : Bit(BitNot(w), i) = 1 - Bit(w, i)
<1> DEFINE n == BitNot(w)
<1>1. w \in Int /\ -Half <= w /\ w < Half /\ Full = 2 * Half /\ Half \in Nat /\ Half >= 8
  BY WordFacts, WordIs
<1>2. n = -w - 1 /\ n \in Int /\ -Half <= n /\ n < Half
  BY <1>1 DEF BitNot
<1>3. n \in Word
  BY <1>2, WordIs
<1> HIDE DEF n
<1>4. /\ U(w) = (IF w < 0 THEN w + Full ELSE w) /\ U(w) \in 0 .. Full - 1
      /\ U(n) = (IF n < 0 THEN n + Full ELSE n) /\ U(n) \in 0 .. Full - 1
  BY <1>3, UIs
<1> DEFINE u == U(w)
           v == U(n)
<1> HIDE DEF u, v
<1>5. u \in 0 .. Full - 1 /\ v = Full - 1 - u
  BY <1>1, <1>2, <1>4 DEF u, v
<1>6. ASSUME NEW i \in 0 .. Width - 1 PROVE (v \div Pow2[i]) % 2 = 1 - ((u \div Pow2[i]) % 2)
  <2> DEFINE p == Pow2[i]
             c == Pow2[Width - i - 1]
             q == u \div p
             r == u % p
  <2>1. i \in Nat /\ Width - i - 1 \in Nat /\ (i + 1) + (Width - i - 1) = Width /\ i + 1 \in Nat
    BY WordFacts
  <2>2. p \in Nat \ {0} /\ c \in Nat \ {0} /\ Pow2[i + 1] = 2 * p
    BY <2>1, Pow2Next
  <2>3. Full = (2 * p) * c
    BY <2>1, <2>2, Pow2Sum DEF Full
  <2> HIDE DEF p, c
  <2>4. u \in Int /\ Full \in Int
    BY <1>5, Whole
  <2>5. q \in Int /\ r \in 0 .. p - 1 /\ u = p * q + r
    BY <2>2, <2>4, Divides
  <2> HIDE DEF q, r
  <2>6. p * (2 * c) = Full
    BY <2>2, <2>3
  <2>7. p * ((2 * c - q) - 1) = p * (2 * c) - p * q - p
    <3>1. 2 * c \in Int /\ 2 * c - q \in Int
      BY <2>2, <2>5
    <3>2. p * (2 * c - q) = p * (2 * c) - p * q
      BY <2>2, <2>5, <3>1, Order
    <3>3. p * ((2 * c - q) - 1) = p * (2 * c - q) - p * 1
      BY <2>2, <3>1, Order
    <3>4. p * 1 = p
      BY <2>2
    <3> QED
      BY <3>2, <3>3, <3>4
  <2> DEFINE k == (2 * c - q) - 1
             s == p - 1 - r
  <2>8. v = p * k + s
    <3> DEFINE x == p * q
               y == p * k
    <3>1. x \in Int /\ y \in Int /\ r \in Int
      BY <2>2, <2>5
    <3>2. y = Full - x - p
      BY <2>6, <2>7
    <3> HIDE DEF x, y, k
    <3>3. u = x + r /\ y = Full - x - p
      BY <2>5, <3>2 DEF x
    <3>4. v = y + s
      BY <1>5, <2>2, <2>4, <3>1, <3>3
    <3> QED
      BY <3>4 DEF y
  <2>9. k \in Int /\ s \in 0 .. p - 1
    BY <2>2, <2>5
  <2>10. k % 2 = 1 - (q % 2)
    <3>1. k = (1 - q) + 2 * (c - 1)
      BY <2>2, <2>5
    <3>2. ((1 - q) + 2 * (c - 1)) % 2 = (1 - q) % 2
      <4>1. 1 - q \in Int /\ c - 1 \in Int
        BY <2>2, <2>5
      <4> QED
        BY <4>1, ParityKept
    <3>3. (1 - q) % 2 = 1 - (q % 2)
      BY <2>5
    <3> HIDE DEF k
    <3> QED
      BY <3>1, <3>2, <3>3, Zenon
  <2> HIDE DEF k, s
  <2>11. (p * k + s) \div p = k
    BY <2>2, <2>9, QuotientIs
  <2>12. v \div p = k
    BY <2>8, <2>11, Zenon
  <2>13. (v \div p) % 2 = 1 - (q % 2)
    BY <2>10, <2>12, Zenon
  <2> QED
    BY <2>13 DEF p, q
<1>7. ASSUME NEW i \in 0 .. Width - 1 PROVE Bit(n, i) = 1 - Bit(w, i)
  BY <1>6, Zenon DEF Bit, u, v
<1> QED
  BY <1>3, <1>7 DEF n

LEMMA BitAndIs ==
  ASSUME NEW a \in Int, NEW b \in Int
  PROVE  /\ BitAnd(a, b) \in Word
         /\ \A i \in 0 .. Width - 1 : Bit(BitAnd(a, b), i) = Bit(a, i) * Bit(b, i)
<1> DEFINE f == [i \in 0 .. Width - 1 |-> Bit(a, i) * Bit(b, i)]
<1>1. ASSUME NEW i \in 0 .. Width - 1 PROVE Bit(a, i) * Bit(b, i) \in {0, 1}
  <2>1. i \in Nat
    BY WordFacts
  <2>2. Bit(a, i) \in {0, 1} /\ Bit(b, i) \in {0, 1}
    BY <2>1, BitIs
  <2> QED
    BY <2>2
<1>2. f \in [0 .. Width - 1 -> {0, 1}]
  BY <1>1
<1> HIDE DEF f
<1>3. FromBits(f) \in Word /\ \A i \in 0 .. Width - 1 : Bit(FromBits(f), i) = f[i]
  BY <1>2, FromBitsIs
<1>4. BitAnd(a, b) = FromBits(f)
  BY DEF BitAnd, f
<1> QED
  BY <1>3, <1>4 DEF f

LEMMA BitXorIs ==
  ASSUME NEW a \in Int, NEW b \in Int
  PROVE  /\ BitXor(a, b) \in Word
         /\ \A i \in 0 .. Width - 1 : Bit(BitXor(a, b), i) = (Bit(a, i) + Bit(b, i)) % 2
<1> DEFINE f == [i \in 0 .. Width - 1 |-> (Bit(a, i) + Bit(b, i)) % 2]
<1>1. ASSUME NEW i \in 0 .. Width - 1 PROVE (Bit(a, i) + Bit(b, i)) % 2 \in {0, 1}
  <2>1. i \in Nat
    BY WordFacts
  <2>2. Bit(a, i) \in {0, 1} /\ Bit(b, i) \in {0, 1}
    BY <2>1, BitIs
  <2> QED
    BY <2>2
<1>2. f \in [0 .. Width - 1 -> {0, 1}]
  BY <1>1
<1> HIDE DEF f
<1>3. FromBits(f) \in Word /\ \A i \in 0 .. Width - 1 : Bit(FromBits(f), i) = f[i]
  BY <1>2, FromBitsIs
<1>4. BitXor(a, b) = FromBits(f)
  BY DEF BitXor, f
<1> QED
  BY <1>3, <1>4 DEF f

LEMMA BitNotInt ==
  ASSUME NEW a \in Int
  PROVE  BitNot(a) \in Int
BY DEF BitNot

LEMMA BitOrIs ==
  ASSUME NEW a \in Int, NEW b \in Int
  PROVE  /\ BitOr(a, b) \in Word /\ BitNot(BitOr(a, b)) \in Word
         /\ a \in Word /\ b \in Word =>
              \A i \in 0 .. Width - 1 :
                Bit(BitOr(a, b), i) = 1 - (1 - Bit(a, i)) * (1 - Bit(b, i))
<1> DEFINE x == BitNot(a)
           y == BitNot(b)
           z == BitAnd(x, y)
<1>1. x \in Int /\ y \in Int
  BY BitNotInt
<1>2. /\ a \in Word => \A i \in 0 .. Width - 1 : Bit(x, i) = 1 - Bit(a, i)
      /\ b \in Word => \A i \in 0 .. Width - 1 : Bit(y, i) = 1 - Bit(b, i)
  BY BitNotIs
<1>3. BitOr(a, b) = BitNot(z)
  BY DEF BitOr
<1> HIDE DEF x, y
<1>4. z \in Word /\ \A i \in 0 .. Width - 1 : Bit(z, i) = Bit(x, i) * Bit(y, i)
  BY <1>1, BitAndIs
<1> HIDE DEF z
<1>5. BitNot(z) \in Word /\ \A i \in 0 .. Width - 1 : Bit(BitNot(z), i) = 1 - Bit(z, i)
  BY <1>4, BitNotIs
<1>6. BitNot(BitNot(z)) \in Word
  BY <1>5, BitNotIs
<1>7. ASSUME a \in Word, b \in Word, NEW i \in 0 .. Width - 1
      PROVE  Bit(BitNot(z), i) = 1 - (1 - Bit(a, i)) * (1 - Bit(b, i))
  <2>1. Bit(x, i) = 1 - Bit(a, i) /\ Bit(y, i) = 1 - Bit(b, i)
    BY <1>2, <1>7
  <2>2. Bit(z, i) = Bit(x, i) * Bit(y, i) /\ Bit(BitNot(z), i) = 1 - Bit(z, i)
    BY <1>4, <1>5
  <2> QED
    BY <2>1, <2>2, Zenon
<1> QED
  BY <1>3, <1>5, <1>6, <1>7

\* The bitwise instructions work on each bit for itself.
LEMMA BitwiseIs ==
  ASSUME NEW op \in {"AND", "OR", "XOR", "NOR"}, NEW a \in Word, NEW b \in Word, NEW extra,
         NEW i \in 0 .. Width - 1
  PROVE  LET p == Bit(a, i) = 1
             q == Bit(b, i) = 1
         IN Bit(Computed(op, a, b, extra), i) = Flag(CASE op = "AND" -> p /\ q
                                                       [] op = "OR"  -> p \/ q
                                                       [] op = "XOR" -> p # q
                                                       [] op = "NOR" -> ~(p \/ q))
<1>1. a \in Int /\ b \in Int /\ i \in Nat
  BY UIs, WordFacts
<1> DEFINE x == Bit(a, i)
           y == Bit(b, i)
<1>2. x \in {0, 1} /\ y \in {0, 1}
  BY <1>1, BitIs
<1>3. /\ Bit(BitAnd(a, b), i) = x * y
      /\ Bit(BitXor(a, b), i) = (x + y) % 2
      /\ Bit(BitOr(a, b), i) = 1 - (1 - x) * (1 - y)
      /\ BitOr(a, b) \in Word
  BY <1>1, BitAndIs, BitXorIs, BitOrIs
<1>4. Bit(BitNot(BitOr(a, b)), i) = 1 - Bit(BitOr(a, b), i)
  BY <1>3, BitNotIs
<1> HIDE DEF x, y
<1>5. /\ x * y = Flag(x = 1 /\ y = 1)
      /\ (x + y) % 2 = Flag((x = 1) # (y = 1))
      /\ 1 - (1 - x) * (1 - y) = Flag(x = 1 \/ y = 1)
      /\ 1 - (1 - (1 - x) * (1 - y)) = Flag(~(x = 1 \/ y = 1))
  BY <1>2 DEF Flag
<1> SUFFICES Bit(Computed(op, a, b, extra), i) = Flag(CASE op = "AND" -> x = 1 /\ y = 1
                                                       [] op = "OR"  -> x = 1 \/ y = 1
                                                       [] op = "XOR" -> (x = 1) # (y = 1)
                                                       [] op = "NOR" -> ~(x = 1 \/ y = 1))
  BY Zenon DEF x, y
<1>6. CASE op = "AND"
  <2>1. Computed(op, a, b, extra) = BitAnd(a, b)
    BY <1>6 DEF Computed
  <2> QED
    BY <1>3, <1>5, <1>6, <2>1
<1>7. CASE op = "OR"
  <2>1. Computed(op, a, b, extra) = BitOr(a, b)
    BY <1>7 DEF Computed
  <2> QED
    BY <1>3, <1>5, <1>7, <2>1
<1>8. CASE op = "XOR"
  <2>1. Computed(op, a, b, extra) = BitXor(a, b)
    BY <1>8 DEF Computed
  <2> QED
    BY <1>3, <1>5, <1>8, <2>1
<1>9. CASE op = "NOR"
  <2>1. Computed(op, a, b, extra) = BitNot(BitOr(a, b))
    BY <1>9 DEF Computed
  <2> QED
    BY <1>3, <1>4, <1>5, <1>9, <2>1
<1> QED
  BY <1>6, <1>7, <1>8, <1>9

-----------------------------------------------------------------------------
(* What fits a word *)

LEMMA ShiftRightFits ==
  ASSUME NEW b \in Word, NEW n \in Nat
  PROVE  ShiftRight(b, n) \in Word
<1> DEFINE p == Pow2[n]
           q == b \div p
           r == b % p
<1>1. p \in Nat \ {0}
  BY Pow2Next
<1> HIDE DEF p
<1>2. b \in Int /\ -Half <= b /\ b < Half /\ Half \in Nat /\ Half >= 8
  BY WordFacts, WordIs
<1>3. q \in Int /\ r \in 0 .. p - 1 /\ b = p * q + r
  BY <1>1, <1>2, Divides
<1> HIDE DEF q, r
<1>4. -Half <= q /\ q < Half
  <2>1. CASE q >= 0
    <3>1. q * 1 <= q * p
      <4>1. CASE q = 0
        BY <1>1, <4>1
      <4>2. CASE q # 0
        <5>1. q \in Nat \ {0}
          BY <1>3, <2>1, <4>2
        <5> QED
          BY <1>1, <5>1, Order
      <4> QED
        BY <4>1, <4>2
    <3> DEFINE x == p * q
    <3>2. x \in Int /\ q * p = x /\ q * 1 = q
      BY <1>1, <1>3
    <3> HIDE DEF x
    <3>3. b = x + r /\ q <= x
      BY <1>3, <3>1, <3>2 DEF x
    <3> QED
      BY <1>1, <1>2, <1>3, <2>1, <3>2, <3>3
  <2>2. CASE ~ (q >= 0)
    <3> DEFINE m == -q - 1
    <3>1. m \in Nat /\ q = -1 - m
      BY <1>3, <2>2
    <3>2. m * 1 <= m * p
      <4>1. CASE m = 0
        BY <1>1, <4>1
      <4>2. CASE m # 0
        <5> HIDE DEF m
        <5>1. m \in Nat \ {0}
          BY <3>1, <4>2
        <5> QED
          BY <1>1, <5>1, Order
      <4> QED
        BY <4>1, <4>2
    <3> HIDE DEF m
    <3> DEFINE x == p * m
    <3>3. x \in Int /\ m * p = x /\ m * 1 = m /\ p * q = -x - p
      BY <1>1, <3>1
    <3> HIDE DEF x
    <3>4. b = -x - p + r /\ m <= x
      BY <1>3, <3>2, <3>3
    <3>5. x + 1 <= -b
      BY <1>1, <1>2, <1>3, <3>3, <3>4
    <3> QED
      BY <1>2, <1>3, <3>1, <3>3, <3>4, <3>5
  <2> QED
    BY <2>1, <2>2
<1>5. q \in Word
  BY <1>3, <1>4, WordIs
<1> QED
  BY <1>5 DEF ShiftRight, p, q

LEMMA PartsInt ==
  ASSUME NEW w \in Int, NEW n \in Nat
  PROVE  /\ Low(w, n) \in Nat /\ High(w, n) \in Int /\ Up(w, n) \in Word /\ Down(w, n) \in Int
         /\ Pow2[ByteBits * n] \in Nat \ {0} /\ ByteBits * n \in Nat
<1>1. ByteBits * n \in Nat
  BY WordFacts
<1>2. Pow2[ByteBits * n] \in Nat \ {0}
  BY <1>1, Pow2Next
<1> DEFINE p == Pow2[ByteBits * n]
<1> HIDE DEF p
<1>3. U(w) \in Int
  BY Whole, Divides DEF U
<1> DEFINE u == U(w)
<1> HIDE DEF u
<1>4. u % p \in Nat /\ u - (u % p) \in Int /\ u \div p \in Int /\ w * p \in Int
  <2>1. u \in Int /\ p \in Nat \ {0}
    BY <1>2, <1>3 DEF u, p
  <2>2. u % p \in 0 .. p - 1 /\ u \div p \in Int
    BY <2>1, Divides
  <2> QED
    BY <2>1, <2>2
<1>5. Wrap(w * p) \in Word
  BY <1>4, WrapIs
<1> QED
  BY <1>1, <1>2, <1>4, <1>5 DEF Low, High, Up, Down, u, p

LEMMA ComputedFits ==
  ASSUME NEW op \in RegisterOps \cup ImmediateOps, NEW a \in Word, NEW b \in Word,
         NEW extra \in Word, op \in {"SLL", "SRA", "SRL"} => extra \in 0 .. Width - 1
  PROVE  Computed(op, a, b, extra) \in Word
<1>1. a \in Int /\ b \in Int /\ extra \in Int
  BY UIs
<1>2. a % Width \in Nat
  BY <1>1, WordFacts, Divides
<1>3. Low(extra, 2) \in Int
  BY <1>1, PartsInt
<1>4. \A c \in BOOLEAN : Flag(c) \in Word
  BY FlagIs
<1>5. \A x \in Int : Wrap(x) \in Word
  BY WrapIs
<1>6. /\ Wrap(a + b) \in Word /\ Wrap(a - b) \in Word /\ Wrap(a + extra) \in Word
      /\ Up(extra, 2) \in Word
  BY <1>1, <1>5, PartsInt
<1>7. /\ BitAnd(a, b) \in Word /\ BitOr(a, b) \in Word /\ BitXor(a, b) \in Word
      /\ BitNot(BitOr(a, b)) \in Word
  BY <1>1, BitAndIs, BitOrIs, BitXorIs
<1>8. /\ BitAnd(a, Low(extra, 2)) \in Word /\ BitOr(a, Low(extra, 2)) \in Word
      /\ BitXor(a, Low(extra, 2)) \in Word
  BY <1>1, <1>3, BitAndIs, BitOrIs, BitXorIs
<1>9. /\ Flag(a < b) \in Word /\ Flag(U(a) < U(b)) \in Word
      /\ Flag(a < extra) \in Word /\ Flag(U(a) < U(extra)) \in Word
  <2>1. /\ (a < b) \in BOOLEAN /\ (U(a) < U(b)) \in BOOLEAN
        /\ (a < extra) \in BOOLEAN /\ (U(a) < U(extra)) \in BOOLEAN
    OBVIOUS
  <2> QED
    BY <1>4, <2>1, Zenon
<1>10. /\ ShiftRight(b, a % Width) \in Word /\ Wrap(b * Pow2[a % Width]) \in Word
  <2>1. Pow2[a % Width] \in Nat
    BY <1>2, Pow2Next
  <2>2. b * Pow2[a % Width] \in Int
    BY <1>1, <2>1
  <2> QED
    BY <1>2, <1>5, <2>2, ShiftRightFits
<1>11. op \in {"SLL", "SRA", "SRL"} =>
         ShiftRight(b, extra) \in Word /\ Wrap(b * Pow2[extra]) \in Word
  <2> SUFFICES ASSUME op \in {"SLL", "SRA", "SRL"}
               PROVE  ShiftRight(b, extra) \in Word /\ Wrap(b * Pow2[extra]) \in Word
    OBVIOUS
  <2>1. extra \in Nat
    BY WordFacts
  <2>2. Pow2[extra] \in Nat
    BY <2>1, Pow2Next
  <2>3. b * Pow2[extra] \in Int
    BY <1>1, <2>2
  <2> QED
    BY <1>5, <2>1, <2>3, ShiftRightFits
<1>12. CASE op \in {"SLL", "SRA", "SRL"}
  BY <1>11, <1>12 DEF Computed
<1>13. CASE op \in {"SLLV", "SRAV", "SRLV"}
  BY <1>10, <1>13 DEF Computed
<1>14. CASE op \in {"ADDU", "SUBU", "ADDIU", "LUI"}
  BY <1>6, <1>14 DEF Computed
<1>15. CASE op \in {"AND", "OR", "XOR", "NOR"}
  BY <1>7, <1>15 DEF Computed
<1>16. CASE op \in {"ANDI", "ORI", "XORI"}
  BY <1>8, <1>16 DEF Computed
<1>17. CASE op \in {"SLT", "SLTU", "SLTI", "SLTIU"}
  BY <1>9, <1>17 DEF Computed
<1> QED
  BY <1>12, <1>13, <1>14, <1>15, <1>16, <1>17 DEF RegisterOps, ImmediateOps
-----------------------------------------------------------------------------
(* Types *)

\* What s keeps fits, and no frame is written through two pages.
Typed(s) ==
  /\ Formed(s)
  /\ s.r \in Registers
  /\ s.m \in [0 .. NumPhysPages * PageSize - 1 -> Byte]
  /\ s.p \in [DOMAIN s.p -> PageEntry] /\ PagesApart(s.p)

\* The memory and the page table of s.
MemoryTyped(m, p) ==
  /\ m \in [0 .. NumPhysPages * PageSize - 1 -> Byte]
  /\ p \in [DOMAIN p -> PageEntry] /\ PagesApart(p)

LEMMA TypedParts ==
  ASSUME NEW s, Formed(s)
  PROVE  Typed(s) <=>
           /\ \A n \in GPR : s.r.gen[n] \in Word
           /\ s.r.Hi \in Word /\ s.r.Lo \in Word
           /\ s.r.PC \in Word /\ s.r.NextPC \in Word /\ s.r.PrevPC \in Word
           /\ s.r.BadVAddr \in Word /\ s.r.LoadValue \in Word
           /\ MemoryTyped(s.m, s.p)
<1> DEFINE r == s.r
<1>1. /\ r = [gen |-> r.gen, Hi |-> r.Hi, Lo |-> r.Lo, PC |-> r.PC, NextPC |-> r.NextPC,
              PrevPC |-> r.PrevPC, BadVAddr |-> r.BadVAddr, LoadReg |-> r.LoadReg,
              LoadValue |-> r.LoadValue]
      /\ r.gen = [n \in GPR |-> r.gen[n]] /\ r.LoadReg \in GPR
  BY DEF Formed
<1> HIDE DEF r
<1>2. r.gen \in [GPR -> Word] <=> \A n \in GPR : r.gen[n] \in Word
  BY <1>1
<1>3. r \in Registers <=>
        /\ r.gen \in [GPR -> Word]
        /\ r.Hi \in Word /\ r.Lo \in Word
        /\ r.PC \in Word /\ r.NextPC \in Word /\ r.PrevPC \in Word
        /\ r.BadVAddr \in Word /\ r.LoadReg \in GPR /\ r.LoadValue \in Word
  BY <1>1 DEF Registers
<1> QED
  BY <1>1, <1>2, <1>3 DEF Typed, MemoryTyped, r

LEMMA ZeroWord == 0 \in Word /\ "r0" \in GPR /\ "r31" \in GPR
BY WordFacts, WordIs, MipsSimAssumption

LEMMA HoldsTyped ==
  ASSUME NEW s, Typed(s), NEW n \in GPR
  PROVE  Holds(s, n) \in Word
<1>1. s.r.gen[n] \in Word /\ s.r.LoadValue \in Word
  BY TypedParts DEF Typed
<1> QED
  BY <1>1, ZeroWord DEF Holds

LEMMA DelayedTyped ==
  ASSUME NEW s, Typed(s), NEW reg \in GPR, NEW value \in Word
  PROVE  Typed(DelayedLoad(s, reg, value))
<1> DEFINE d == DelayedLoad(s, reg, value)
<1>1. /\ Formed(d)
      /\ d.m = s.m /\ d.p = s.p
      /\ d.r.Hi = s.r.Hi /\ d.r.Lo = s.r.Lo
      /\ d.r.PC = s.r.PC /\ d.r.NextPC = s.r.NextPC
      /\ d.r.PrevPC = s.r.PrevPC /\ d.r.BadVAddr = s.r.BadVAddr
      /\ d.r.LoadReg = reg /\ d.r.LoadValue = value
      /\ \A n \in GPR : d.r.gen[n] = Holds(s, n)
  BY DelayedLeaves DEF Typed
<1> HIDE DEF d
<1>2. \A n \in GPR : d.r.gen[n] \in Word
  BY <1>1, HoldsTyped
<1>3. /\ s.r.Hi \in Word /\ s.r.Lo \in Word
      /\ s.r.PC \in Word /\ s.r.NextPC \in Word /\ s.r.PrevPC \in Word
      /\ s.r.BadVAddr \in Word /\ MemoryTyped(s.m, s.p)
  BY TypedParts DEF Typed
<1>4. Typed(d)
  BY <1>1, <1>2, <1>3, TypedParts
<1> QED
  BY <1>4 DEF d

LEMMA SetsTyped ==
  ASSUME NEW s, Typed(s), NEW n \in GPR, NEW value \in Word
  PROVE  Typed(Sets(s, n, value))
<1> DEFINE d == Sets(s, n, value)
<1>1. /\ Formed(d)
      /\ d.m = s.m /\ d.p = s.p
      /\ d.r.Hi = s.r.Hi /\ d.r.Lo = s.r.Lo
      /\ d.r.PC = s.r.PC /\ d.r.NextPC = s.r.NextPC
      /\ d.r.PrevPC = s.r.PrevPC /\ d.r.BadVAddr = s.r.BadVAddr
      /\ d.r.LoadReg = s.r.LoadReg /\ d.r.LoadValue = s.r.LoadValue
      /\ \A k \in GPR : d.r.gen[k] = IF k = n THEN value ELSE s.r.gen[k]
  BY SetsLeaves DEF Typed
<1> HIDE DEF d
<1>2. /\ \A k \in GPR : s.r.gen[k] \in Word
      /\ s.r.Hi \in Word /\ s.r.Lo \in Word
      /\ s.r.PC \in Word /\ s.r.NextPC \in Word /\ s.r.PrevPC \in Word
      /\ s.r.BadVAddr \in Word /\ s.r.LoadValue \in Word /\ MemoryTyped(s.m, s.p)
  BY TypedParts DEF Typed
<1>3. \A k \in GPR : d.r.gen[k] \in Word
  BY <1>1, <1>2
<1>4. Typed(d)
  BY <1>1, <1>2, <1>3, TypedParts
<1> QED
  BY <1>4 DEF d

LEMMA FinishedTyped ==
  ASSUME NEW s, Typed(s), NEW reg \in GPR, NEW value \in Word, NEW pcAfter \in Word
  PROVE  Typed(Finished(s, reg, value, pcAfter).s)
<1> DEFINE d == Finished(s, reg, value, pcAfter).s
<1>1. /\ Formed(d)
      /\ d.m = s.m /\ d.p = s.p
      /\ d.r.Hi = s.r.Hi /\ d.r.Lo = s.r.Lo
      /\ d.r.PC = s.r.NextPC /\ d.r.NextPC = pcAfter
      /\ d.r.PrevPC = s.r.PC /\ d.r.BadVAddr = s.r.BadVAddr
      /\ d.r.LoadReg = reg /\ d.r.LoadValue = value
      /\ \A n \in GPR : d.r.gen[n] = Holds(s, n)
  BY FinishedLeaves DEF Typed
<1> HIDE DEF d
<1>2. \A n \in GPR : d.r.gen[n] \in Word
  BY <1>1, HoldsTyped
<1>3. /\ s.r.Hi \in Word /\ s.r.Lo \in Word
      /\ s.r.PC \in Word /\ s.r.NextPC \in Word
      /\ s.r.BadVAddr \in Word /\ MemoryTyped(s.m, s.p)
  BY TypedParts DEF Typed
<1>4. Typed(d)
  BY <1>1, <1>2, <1>3, TypedParts
<1> QED
  BY <1>4 DEF d

LEMMA RaisedTyped ==
  ASSUME NEW s, Typed(s), NEW which, NEW addr \in Word
  PROVE  Typed(Raised(s, which, addr).s)
<1> DEFINE d == Raised(s, which, addr).s
<1>1. /\ Formed(d)
      /\ d.m = s.m /\ d.p = s.p
      /\ d.r.Hi = s.r.Hi /\ d.r.Lo = s.r.Lo
      /\ d.r.PC = s.r.PC /\ d.r.NextPC = s.r.NextPC
      /\ d.r.PrevPC = s.r.PrevPC /\ d.r.BadVAddr = addr
      /\ d.r.LoadReg = "r0" /\ d.r.LoadValue = 0
      /\ \A n \in GPR : d.r.gen[n] = Holds(s, n)
  BY RaisedLeaves DEF Typed
<1> HIDE DEF d
<1>2. \A n \in GPR : d.r.gen[n] \in Word
  BY <1>1, HoldsTyped
<1>3. /\ s.r.Hi \in Word /\ s.r.Lo \in Word
      /\ s.r.PC \in Word /\ s.r.NextPC \in Word /\ s.r.PrevPC \in Word
      /\ MemoryTyped(s.m, s.p)
  BY TypedParts DEF Typed
<1>4. Typed(d)
  BY <1>1, <1>2, <1>3, TypedParts, ZeroWord
<1> QED
  BY <1>4 DEF d

-----------------------------------------------------------------------------
(* Memory keeps its type *)

LEMMA TurnedTyped ==
  ASSUME NEW s, Typed(s), NEW m, NEW p, MemoryTyped(m, p)
  PROVE  Typed(Turned(s, m, p)) /\ Turned(s, m, p).r = s.r
<1> DEFINE d == Turned(s, m, p)
<1>1. d = [r |-> s.r, m |-> m, p |-> p]
  BY TurnedIs DEF Typed
<1> HIDE DEF d
<1>2. d.r = s.r /\ d.m = m /\ d.p = p /\ d = [r |-> d.r, m |-> d.m, p |-> d.p]
  BY <1>1
<1>3. Formed(d)
  BY <1>2, Zenon DEF Formed, Typed
<1> QED
  BY <1>2, <1>3 DEF Typed, MemoryTyped, d

\* Multiples of n stay multiples modulo a multiple.
Scales(n, k, q) == (n * k) % (n * q) = n * (k % q)

LEMMA MultipleModulo ==
  ASSUME NEW n \in Nat \ {0}, NEW k \in Int, NEW q \in Nat \ {0}
  PROVE  Scales(n, k, q)
<1> DEFINE d == k \div q
           r == k % q
           b == n * q
<1>1. d \in Int /\ r \in 0 .. q - 1 /\ k = q * d + r
  BY Divides
<1> HIDE DEF d, r
<1>2. b \in Nat \ {0}
  BY Product
<1>3. n * r \in 0 .. b - 1
  <2>1. r \in Int /\ r + 1 \in Int /\ r >= 0 /\ r + 1 <= q
    BY <1>1
  <2>2. n * (r + 1) <= n * q /\ n * (r + 1) = n * r + n /\ n * r >= 0 /\ n * r \in Int
    BY <2>1, Order, Product
  <2> DEFINE x == n * r
             y == n * (r + 1)
  <2> HIDE DEF x, y, b
  <2>3. y <= b /\ y = x + n /\ x >= 0 /\ x \in Int
    BY <2>2 DEF x, y, b
  <2>4. x \in 0 .. b - 1
    BY <1>2, <2>3
  <2> QED
    BY <2>4 DEF x
<1>4. n * k = b * d + n * r
  <2>1. n * (q * d + r) = n * (q * d) + n * r
    BY <1>1, Order
  <2>2. n * (q * d) = (n * q) * d
    BY <1>1
  <2> QED
    BY <1>1, <2>1, <2>2
<1> DEFINE x == n * r
<1> HIDE DEF b, x
<1>5. (b * d + x) % b = x
  BY <1>1, <1>2, <1>3, QuotientIs DEF x
<1>6. n * k = b * d + x
  BY <1>4 DEF x
<1> QED
  BY <1>5, <1>6, Zenon DEF Scales, b, x, r

\* An aligned piece of memory does not reach over a page.
LEMMA AlignedInPage ==
  ASSUME NEW addr \in Int, NEW size \in {1, 2, 4}, addr % size = 0
  PROVE  U(addr) % PageSize \in Nat /\ (U(addr) % PageSize) + size <= PageSize
<1> DEFINE Q == Pow2[Width - 2]
<1>1. Q \in Nat \ {0} /\ Full = 4 * Q
  BY Quarter
<1> HIDE DEF Q
<1>2. size \in Nat \ {0}
  OBVIOUS
<1>3. PICK f \in Nat \ {0} : Full = size * f
  <2>1. Full = 1 * (4 * Q) /\ Full = 2 * (2 * Q) /\ Full = 4 * Q
    BY <1>1
  <2>2. 4 * Q \in Nat \ {0} /\ 2 * Q \in Nat \ {0} /\ Q \in Nat \ {0}
    BY <1>1
  <2> QED
    BY <2>1, <2>2
<1>4. PICK g \in Nat \ {0} : PageSize = size * g
  <2> DEFINE P == PageSize \div 4
  <2>1. P \in Nat \ {0} /\ PageSize = 4 * P
    BY MipsSimAssumption
  <2> HIDE DEF P
  <2>2. PageSize = 1 * (4 * P) /\ PageSize = 2 * (2 * P) /\ PageSize = 4 * P
    BY <2>1
  <2>3. 4 * P \in Nat \ {0} /\ 2 * P \in Nat \ {0} /\ P \in Nat \ {0}
    BY <2>1
  <2> QED
    BY <2>2, <2>3
<1> DEFINE k == addr \div size
<1>5. k \in Int /\ addr = size * k
  <2>1. addr = size * (addr \div size) + (addr % size) /\ k \in Int
    BY <1>2, Divides
  <2> QED
    BY <1>2, <2>1
<1> HIDE DEF k
<1>6. U(addr) = size * (k % f)
  <2>0. k \in Int /\ f \in Nat \ {0}
    BY <1>5
  <2>1. (size * k) % (size * f) = size * (k % f)
    <3>1. Scales(size, k, f)
      BY <1>2, <2>0, MultipleModulo, Zenon
    <3> QED
      BY <3>1, Zenon DEF Scales
  <2>2. addr % Full = (size * k) % (size * f)
    BY <1>3, <1>5, Zenon
  <2> QED
    BY <2>1, <2>2, Zenon DEF U
<1>7. k % f \in Int
  BY <1>3, <1>5, Divides
<1> DEFINE h == k % f
<1> HIDE DEF h
<1>8. U(addr) % PageSize = size * (h % g)
  <2>1. (size * h) % (size * g) = size * (h % g)
    <3>1. size \in Nat \ {0} /\ h \in Int /\ g \in Nat \ {0}
      BY <1>2, <1>4, <1>7 DEF h
    <3>2. Scales(size, h, g)
      BY <3>1, MultipleModulo, Zenon
    <3> QED
      BY <3>2, Zenon DEF Scales
  <2>2. U(addr) % PageSize = (size * h) % (size * g)
    BY <1>4, <1>6, Zenon DEF h
  <2> QED
    BY <2>1, <2>2, Zenon
<1>9. h % g \in 0 .. g - 1
  BY <1>4, <1>7, Divides DEF h
<1> DEFINE e == h % g
<1> HIDE DEF e
<1>10. e \in Nat /\ e + 1 \in Int /\ e + 1 <= g
  BY <1>4, <1>9 DEF e
<1>11. size * e \in Nat /\ size * (e + 1) = size * e + size /\ size * (e + 1) <= size * g
  BY <1>2, <1>4, <1>10, Order, Product
<1> DEFINE x == size * e
           y == size * (e + 1)
<1> HIDE DEF x, y
<1>12. x \in Nat /\ y = x + size /\ y <= PageSize
  BY <1>4, <1>11 DEF x, y
<1>13. x + size <= PageSize
  BY <1>2, <1>12, MipsSimAssumption
<1>14. U(addr) % PageSize = x
  BY <1>8 DEF x, e
<1> QED
  BY <1>12, <1>13, <1>14

\* The same pages are mapped to the same frames.
SameMap(p, q) ==
  /\ DOMAIN p = DOMAIN q
  /\ \A v \in DOMAIN p : /\ p[v].valid = q[v].valid /\ p[v].frame = q[v].frame
                          /\ p[v].readOnly = q[v].readOnly

LEMMA SameApart ==
  ASSUME NEW p, NEW q, SameMap(p, q), PagesApart(p)
  PROVE  PagesApart(q)
<1> SUFFICES ASSUME NEW v \in DOMAIN q, NEW w \in DOMAIN q,
                    \A x \in {v, w} : q[x].valid /\ ~q[x].readOnly, q[v].frame = q[w].frame
             PROVE  v = w
  BY DEF PagesApart
<1>1. v \in DOMAIN p /\ w \in DOMAIN p
  BY DEF SameMap
<1>2. p[v].frame = p[w].frame
  BY <1>1 DEF SameMap
<1>3. \A x \in {v, w} : p[x].valid /\ ~p[x].readOnly
  BY <1>1 DEF SameMap
<1> QED
  BY <1>1, <1>2, <1>3 DEF PagesApart

\* Translate marks pages, and maps none.
LEMMA TranslateKeepsMap ==
  ASSUME NEW p, p \in [DOMAIN p -> PageEntry], NEW addr, NEW size, NEW writing \in BOOLEAN
  PROVE  SameMap(p, Translate(p, addr, size, writing).p)
<1> DEFINE vpn == U(addr) \div PageSize
           t == Translate(p, addr, size, writing)
           u == [p EXCEPT ![vpn].use = TRUE]
           d == u[vpn].dirty \/ writing
           q == [u EXCEPT ![vpn].dirty = d]
<1>1. t.p = p \/ (vpn \in DOMAIN p /\ t.p = q)
  BY DEF Translate
<1> HIDE DEF t, vpn
<1>2. SameMap(p, p)
  BY DEF SameMap
<1>3. ASSUME vpn \in DOMAIN p PROVE SameMap(p, q)
  <2> HIDE DEF d
  <2>1. p[vpn] \in PageEntry /\ DOMAIN u = DOMAIN p /\ DOMAIN q = DOMAIN p
    BY <1>3
  <2>2. ASSUME NEW v \in DOMAIN p
        PROVE  u[v].valid = p[v].valid /\ u[v].frame = p[v].frame /\ u[v].readOnly = p[v].readOnly
    BY <2>1 DEF PageEntry
  <2>3. ASSUME NEW v \in DOMAIN p
        PROVE  q[v].valid = u[v].valid /\ q[v].frame = u[v].frame /\ q[v].readOnly = u[v].readOnly
    <3>1. u[vpn] = [p[vpn] EXCEPT !.use = TRUE]
      BY <1>3
    <3>2. u[vpn] \in PageEntry
      <4> DEFINE e == p[vpn]
                 h == u[vpn]
      <4>1. e \in PageEntry /\ h = [e EXCEPT !.use = TRUE]
        BY <2>1, <3>1
      <4> HIDE DEF e, h
      <4>2. h \in PageEntry
        BY <4>1 DEF PageEntry
      <4> QED
        BY <4>2, Zenon DEF h
    <3> HIDE DEF u
    <3> QED
      BY <2>1, <3>2 DEF PageEntry
  <2> HIDE DEF u, q
  <2> QED
    BY <2>1, <2>2, <2>3 DEF SameMap
<1> HIDE DEF q
<1> QED
  BY <1>1, <1>2, <1>3 DEF t

LEMMA TranslateTyped ==
  ASSUME NEW p, p \in [DOMAIN p -> PageEntry], NEW addr \in Int, NEW size \in {1, 2, 4},
         NEW writing \in BOOLEAN
  PROVE  LET t == Translate(p, addr, size, writing)
         IN /\ t.p \in [DOMAIN t.p -> PageEntry]
            /\ t.trap = "none" =>
                 /\ t.phys \in Nat /\ t.phys + size <= NumPhysPages * PageSize
                 /\ addr % size = 0
<1> DEFINE vpn == U(addr) \div PageSize
           off == U(addr) % PageSize
           e == p[vpn]
           t == Translate(p, addr, size, writing)
<1>1. \/ t.trap # "none" /\ t.p = p
      \/ /\ t.trap = "none" /\ addr % size = 0 /\ vpn \in DOMAIN p /\ ~ (e.frame >= NumPhysPages)
         /\ t.phys = e.frame * PageSize + off
         /\ t.p = [[p EXCEPT ![vpn].use = TRUE] EXCEPT ![vpn].dirty = @ \/ writing]
  BY DEF Translate
<1> HIDE DEF t
<1>2. CASE t.trap # "none" /\ t.p = p
  BY <1>2 DEF t
<1>3. CASE /\ t.trap = "none" /\ addr % size = 0 /\ vpn \in DOMAIN p /\ ~ (e.frame >= NumPhysPages)
           /\ t.phys = e.frame * PageSize + off
           /\ t.p = [[p EXCEPT ![vpn].use = TRUE] EXCEPT ![vpn].dirty = @ \/ writing]
  <2>1. off \in Nat /\ off + size <= PageSize
    BY <1>3, AlignedInPage
  <2> HIDE DEF vpn, off
  <2>2. e \in PageEntry
    BY <1>3
  <2>3. t.p \in [DOMAIN t.p -> PageEntry]
    <3> DEFINE u == [p EXCEPT ![vpn].use = TRUE]
               d == e.dirty \/ writing
    <3>1. [e EXCEPT !.use = TRUE] \in PageEntry
      BY <2>2 DEF PageEntry
    <3>2. u \in [DOMAIN p -> PageEntry] /\ u[vpn] \in PageEntry
      BY <1>3, <3>1
    <3>3. t.p = [u EXCEPT ![vpn].dirty = u[vpn].dirty \/ writing]
      BY <1>3, Zenon
    <3> HIDE DEF u
    <3>4. [u[vpn] EXCEPT !.dirty = u[vpn].dirty \/ writing] \in PageEntry
      <4>1. (u[vpn].dirty \/ writing) \in BOOLEAN
        OBVIOUS
      <4> DEFINE z == u[vpn].dirty \/ writing
      <4> HIDE DEF z
      <4>2. [u[vpn] EXCEPT !.dirty = z] \in PageEntry
        BY <3>2, <4>1 DEF PageEntry, z
      <4> QED
        BY <4>2 DEF z
    <3> QED
      BY <1>3, <3>2, <3>3, <3>4
  <2>4. e.frame \in Nat /\ e.frame + 1 <= NumPhysPages
    BY <1>3, <2>2, MipsSimAssumption DEF PageEntry
  <2> DEFINE f == e.frame
  <2> HIDE DEF e, f
  <2>5. PageSize \in Nat \ {0} /\ NumPhysPages \in Nat
    BY MipsSimAssumption
  <2>6. PageSize * f + PageSize <= PageSize * NumPhysPages /\ PageSize * f \in Nat
    <3>1. f \in Nat /\ f + 1 \in Int /\ f + 1 <= NumPhysPages
      BY <2>4 DEF f
    <3>2. PageSize * (f + 1) <= PageSize * NumPhysPages
      BY <2>5, <3>1, Order
    <3>3. PageSize * (f + 1) = PageSize * f + PageSize
      BY <2>5, <3>1
    <3>4. PageSize * f \in Nat
      BY <2>5, <3>1
    <3> QED
      BY <3>2, <3>3, <3>4
  <2>7. f * PageSize = PageSize * f /\ NumPhysPages * PageSize = PageSize * NumPhysPages
    BY <2>4, <2>5 DEF f
  <2> DEFINE x == PageSize * f
             y == PageSize * NumPhysPages
  <2>8. y \in Nat
    BY <2>5
  <2> HIDE DEF x, y
  <2>9. x \in Nat /\ x + PageSize <= y /\ t.phys = x + off
    BY <1>3, <2>6, <2>7 DEF x, y, f
  <2>10. t.phys \in Nat /\ t.phys + size <= y
    BY <2>1, <2>5, <2>8, <2>9
  <2>11. t.phys + size <= NumPhysPages * PageSize
    BY <2>7, <2>10 DEF y
  <2> QED
    BY <1>3, <2>3, <2>10, <2>11 DEF t
<1> QED
  BY <1>1, <1>2, <1>3

LEMMA ByteInt ==
  ASSUME NEW b \in Byte
  PROVE  b \in Nat
<1>1. Pow2[ByteBits] \in Nat
  BY Pow2Next, WordFacts
<1> QED
  BY <1>1 DEF Byte

\* The sums of BytesAt.
ByteSums(g, m, phys, size) ==
  /\ g[0] = 0
  /\ \A n \in 1 .. size : g[n] = g[n - 1] + m[phys + n - 1] * Pow2[ByteBits * (n - 1)]

LEMMA BytesAtSums ==
  ASSUME NEW m, NEW phys \in Nat, NEW size \in Nat,
         \A a \in phys .. phys + size - 1 : m[a] \in Byte
  PROVE  \E g : ByteSums(g, m, phys, size) /\ BytesAt(m, phys, size) = g[size]
<1> DEFINE plus(n, v) == v + m[phys + n - 1] * Pow2[ByteBits * (n - 1)]
           step == [x \in Nat \X Int |-> IF x[1] \in 1 .. size THEN plus(x[1], x[2]) ELSE 0]
           F(g) == [i \in 0 .. size |-> IF i = 0 THEN 0 ELSE plus(i, g[i - 1])]
           g == CHOOSE g : g = F(g)
<1>1. ASSUME NEW n \in 1 .. size, NEW v \in Int PROVE plus(n, v) \in Int
  <2>1. n - 1 \in Nat /\ phys + n - 1 \in phys .. phys + size - 1
    OBVIOUS
  <2>2. m[phys + n - 1] \in Byte
    BY <2>1
  <2>3. m[phys + n - 1] \in Int
    BY <2>2, ByteInt
  <2>4. Pow2[ByteBits * (n - 1)] \in Nat
    BY <2>1, PartsInt
  <2>5. m[phys + n - 1] * Pow2[ByteBits * (n - 1)] \in Int
    BY <2>3, <2>4
  <2> QED
    BY <2>5
<1> HIDE DEF plus
<1>2. step \in [Nat \X Int -> Int]
  BY <1>1
<1>3. \A n \in 1 .. size, v \in Int : step[<<n, v>>] = plus(n, v)
  OBVIOUS
<1> HIDE DEF step
<1>4. PICK h \in [0 .. size -> Int] : Iterates(h, size, 0, step)
  <2>1. 0 \in Int
    OBVIOUS
  <2> QED
    BY <1>2, <2>1, IterationExists
<1>5. h = F(h)
  <2>1. ASSUME NEW i \in 0 .. size PROVE h[i] = IF i = 0 THEN 0 ELSE plus(i, h[i - 1])
    <3>1. CASE i = 0
      BY <1>4, <3>1 DEF Iterates
    <3>2. CASE i # 0
      <4>1. i \in 1 .. size /\ i - 1 \in 0 .. size
        BY <3>2
      <4> QED
        BY <1>3, <1>4, <3>2, <4>1 DEF Iterates
    <3> QED
      BY <3>1, <3>2
  <2> QED
    BY <1>4, <2>1
<1>6. g = F(g)
  <2>1. \E k : k = F(k)
    BY <1>5, Zenon
  <2> QED
    BY <2>1, Zenon
<1>7. BytesAt(m, phys, size) = g[size]
  BY Zenon DEF BytesAt, plus
<1> HIDE DEF g
<1>8. ASSUME NEW i \in 0 .. size PROVE g[i] = IF i = 0 THEN 0 ELSE plus(i, g[i - 1])
  BY <1>6, Zenon
<1>9. g[0] = 0
  BY <1>8
<1>10. ASSUME NEW n \in 1 .. size PROVE g[n] = plus(n, g[n - 1])
  <2>1. n \in 0 .. size /\ n # 0
    OBVIOUS
  <2> QED
    BY <1>8, <2>1
<1> QED
  BY <1>7, <1>9, <1>10 DEF ByteSums, plus

\* A byte added before n of them.
LEMMA ByteAdded ==
  ASSUME NEW n \in Nat, NEW s \in 0 .. Pow2[ByteBits * n] - 1, NEW d \in Byte
  PROVE  s + d * Pow2[ByteBits * n] \in 0 .. Pow2[ByteBits * (n + 1)] - 1
<1> DEFINE P == Pow2[ByteBits * n]
           B == Pow2[ByteBits]
<1>1. P \in Nat \ {0} /\ B \in Nat \ {0} /\ ByteBits * n \in Nat /\ ByteBits \in Nat
  BY PartsInt, Pow2Next, WordFacts
<1>2. Pow2[ByteBits * (n + 1)] = P * B
  <2>1. ByteBits * (n + 1) = ByteBits * n + ByteBits
    BY <1>1
  <2> DEFINE z == ByteBits * n
  <2> HIDE DEF z
  <2>2. Pow2[z + ByteBits] = Pow2[z] * Pow2[ByteBits]
    BY <1>1, Pow2Sum DEF z
  <2> QED
    BY <2>1, <2>2 DEF z
<1> HIDE DEF P, B
<1>3. d \in Nat /\ d + 1 <= B
  BY <1>1 DEF Byte, B
<1>4. P * (d + 1) <= P * B /\ P * (d + 1) = P * d + P /\ P * d \in Nat /\ d * P = P * d
  <2>1. d + 1 \in Int
    BY <1>3
  <2>2. P * (d + 1) <= P * B
    BY <1>1, <1>3, <2>1, Order
  <2> QED
    BY <1>1, <1>3, <2>2
<1> DEFINE x == P * d
           y == P * B
           z == P * (d + 1)
<1>5. y \in Int
  BY <1>1
<1> HIDE DEF x, y, z
<1>6. z <= y /\ z = x + P /\ x \in Nat /\ d * P = x
  BY <1>4 DEF x, y, z
<1>7. s \in 0 .. P - 1
  BY DEF P
<1>8. s + x \in 0 .. y - 1
  BY <1>1, <1>5, <1>6, <1>7
<1>9. s + d * P \in 0 .. P * B - 1
  BY <1>6, <1>8 DEF y
<1> QED
  BY <1>2, <1>9 DEF P

\* n bytes are a number of so many digits.
LEMMA BytesAtFits ==
  ASSUME NEW m, NEW phys \in Nat, NEW size \in Nat,
         \A a \in phys .. phys + size - 1 : m[a] \in Byte
  PROVE  BytesAt(m, phys, size) \in 0 .. Pow2[ByteBits * size] - 1
<1>1. PICK g : ByteSums(g, m, phys, size) /\ BytesAt(m, phys, size) = g[size]
  BY BytesAtSums
<1> DEFINE T == {n \in Nat : n <= size => g[n] \in 0 .. Pow2[ByteBits * n] - 1}
<1>2. 0 \in T
  <2>1. ByteBits * 0 = 0
    BY WordFacts
  <2>2. g[0] = 0 /\ Pow2[ByteBits * 0] = 1
    BY <1>1, <2>1, Pow2Steps DEF ByteSums
  <2> QED
    BY <2>2
<1>3. ASSUME NEW n \in Nat \ {0}, n - 1 \in T PROVE n \in T
  <2> SUFFICES ASSUME n <= size PROVE g[n] \in 0 .. Pow2[ByteBits * n] - 1
    OBVIOUS
  <2> DEFINE k == n - 1
  <2>1. k \in Nat /\ k + 1 = n /\ k <= size /\ n \in 1 .. size
        /\ phys + n - 1 \in phys .. phys + size - 1
    OBVIOUS
  <2>2. g[k] \in 0 .. Pow2[ByteBits * k] - 1
    BY <1>3, <2>1
  <2>3. g[n] = g[k] + m[phys + n - 1] * Pow2[ByteBits * k] /\ m[phys + n - 1] \in Byte
    BY <1>1, <2>1 DEF ByteSums
  <2> HIDE DEF k
  <2>4. g[n] \in 0 .. Pow2[ByteBits * (k + 1)] - 1
    BY <2>1, <2>2, <2>3, ByteAdded
  <2> QED
    BY <2>1, <2>4
<1>4. Nat \subseteq T
  <2> HIDE DEF T
  <2> QED
    BY <1>2, <1>3, AllAlong
<1> QED
  BY <1>1, <1>4

\* The sign is that of the word when all four bytes are read, else it fits.
LEMMA ExtendedFits ==
  ASSUME NEW size \in {1, 2, 4}, NEW v \in 0 .. Pow2[ByteBits * size] - 1
  PROVE  /\ Extended(v, size) \in Word
         /\ size # 4 => v \in Word
<1> DEFINE k == ByteBits * size - 1
           h == Pow2[k]
           f == Pow2[ByteBits * size]
<1>1. k \in Nat /\ k + 1 = ByteBits * size /\ k <= Width - 1 /\ ByteBits * size \in Nat
      /\ Width - 1 \in Nat
  BY WordFacts DEF Width
<1> HIDE DEF k
<1>2. h \in Nat \ {0} /\ f = 2 * h
  BY <1>1, Pow2Next
<1>3. h <= Half
  BY <1>1, Pow2Grows DEF Half
<1> HIDE DEF h, f
<1>4. v \in 0 .. f - 1 /\ v \in Int
  BY <1>2 DEF f
<1>5. Extended(v, size) = IF v >= h THEN v - f ELSE v
  BY Zenon DEF Extended, h, f, k
<1>6. Half \in Nat
  BY WordFacts
<1>7. Extended(v, size) \in Word
  <2>1. Extended(v, size) \in Int /\ -Half <= Extended(v, size) /\ Extended(v, size) < Half
    BY <1>2, <1>3, <1>4, <1>5, <1>6
  <2> QED
    BY <2>1, WordIs
<1>8. ASSUME size # 4 PROVE v \in Word
  <2>1. ByteBits * size <= Width - 1
    BY <1>8, WordFacts DEF Width
  <2>2. f <= Half
    BY <1>1, <2>1, Pow2Grows DEF f, Half
  <2>3. v \in Int /\ -Half <= v /\ v < Half
    BY <1>2, <1>4, <1>6, <2>2
  <2> QED
    BY <2>3, WordIs
<1> QED
  BY <1>7, <1>8

LEMMA ReadTyped ==
  ASSUME NEW s, Typed(s), NEW addr \in Int, NEW size \in {1, 2, 4}
  PROVE  LET x == ReadMem(s, addr, size)
         IN /\ Typed(x.s) /\ x.s.r = s.r
            /\ x.value \in Int
            /\ x.trap = "none" => x.value \in 0 .. Pow2[ByteBits * size] - 1
<1> DEFINE t == Translate(s.p, addr, size, FALSE)
           x == ReadMem(s, addr, size)
           v == IF t.trap = "none" THEN BytesAt(s.m, t.phys, size) ELSE 0
<1>1. x = [trap |-> t.trap, s |-> Turned(s, s.m, t.p), value |-> v]
  BY ReadIs DEF Typed
<1>2. /\ t.p \in [DOMAIN t.p -> PageEntry] /\ PagesApart(t.p)
      /\ t.trap = "none" => t.phys \in Nat /\ t.phys + size <= NumPhysPages * PageSize
  BY TranslateTyped, TranslateKeepsMap, SameApart DEF Typed
<1>3. s.m \in [0 .. NumPhysPages * PageSize - 1 -> Byte] /\ NumPhysPages * PageSize \in Int
  BY MipsSimAssumption DEF Typed
<1> HIDE DEF t
<1>4. Typed(Turned(s, s.m, t.p)) /\ Turned(s, s.m, t.p).r = s.r
  BY <1>2, <1>3, TurnedTyped DEF MemoryTyped
<1>5. t.trap = "none" => v \in 0 .. Pow2[ByteBits * size] - 1
  <2> SUFFICES ASSUME t.trap = "none"
               PROVE  BytesAt(s.m, t.phys, size) \in 0 .. Pow2[ByteBits * size] - 1
    OBVIOUS
  <2> DEFINE y == NumPhysPages * PageSize
  <2> HIDE DEF y
  <2>1. y \in Int /\ t.phys \in Nat /\ t.phys + size <= y
    BY <1>2, <1>3 DEF y
  <2>2. t.phys .. t.phys + size - 1 \subseteq 0 .. y - 1
    BY <2>1
  <2>3. \A a \in t.phys .. t.phys + size - 1 : s.m[a] \in Byte
    BY <1>3, <2>2 DEF y
  <2> QED
    BY <2>1, <2>3, BytesAtFits
<1>6. v \in Int
  <2>1. Pow2[ByteBits * size] \in Nat
    BY PartsInt
  <2> QED
    BY <1>5, <2>1
<1> HIDE DEF v, x
<1>7. x.s = Turned(s, s.m, t.p) /\ x.trap = t.trap /\ x.value = v
  BY <1>1
<1> QED
  BY <1>4, <1>5, <1>6, <1>7 DEF x

LEMMA WriteTyped ==
  ASSUME NEW s, Typed(s), NEW addr \in Int, NEW size \in {1, 2, 4}, NEW value \in Int
  PROVE  LET x == WriteMem(s, addr, size, value)
         IN x.trap = "none" => Typed(x.s) /\ x.s.r = s.r
<1> DEFINE t == Translate(s.p, addr, size, TRUE)
           x == WriteMem(s, addr, size, value)
           m == [a \in DOMAIN s.m |->
                   IF a \in t.phys .. t.phys + size - 1
                   THEN (Low(value, size) \div Pow2[ByteBits * (a - t.phys)]) % Pow2[ByteBits]
                   ELSE s.m[a]]
<1>1. x = [trap |-> t.trap, s |-> IF t.trap # "none" THEN s ELSE Turned(s, m, t.p)]
  BY Zenon DEF WriteMem, Turned
<1>2. /\ t.p \in [DOMAIN t.p -> PageEntry] /\ PagesApart(t.p)
      /\ t.trap = "none" => t.phys \in Nat
  BY TranslateTyped, TranslateKeepsMap, SameApart DEF Typed
<1>3. s.m \in [0 .. NumPhysPages * PageSize - 1 -> Byte] /\ DOMAIN s.m = 0 .. NumPhysPages * PageSize - 1
  BY DEF Typed
<1> HIDE DEF t
<1>4. ASSUME t.trap = "none", NEW a \in t.phys .. t.phys + size - 1
      PROVE  (Low(value, size) \div Pow2[ByteBits * (a - t.phys)]) % Pow2[ByteBits] \in Byte
  <2>1. a - t.phys \in Nat
    BY <1>2, <1>4
  <2> DEFINE p == Pow2[ByteBits * (a - t.phys)]
             b == Pow2[ByteBits]
             w == Low(value, size)
  <2>2. p \in Nat \ {0}
    BY <2>1, PartsInt
  <2>3. b \in Nat \ {0}
    BY Pow2Next, WordFacts
  <2>4. w \in Int
    BY PartsInt
  <2> HIDE DEF p, b, w
  <2> DEFINE q == w \div p
  <2>5. q \in Int
    BY <2>2, <2>4, Divides
  <2> HIDE DEF q
  <2>6. q % b \in 0 .. b - 1
    BY <2>3, <2>5, Divides
  <2> QED
    BY <2>6 DEF Byte, p, b, w, q
<1>5. t.trap = "none" => m \in [0 .. NumPhysPages * PageSize - 1 -> Byte]
  BY <1>3, <1>4
<1> HIDE DEF m
<1>6. t.trap = "none" => Typed(Turned(s, m, t.p)) /\ Turned(s, m, t.p).r = s.r
  BY <1>2, <1>5, TurnedTyped DEF MemoryTyped
<1> HIDE DEF x
<1>7. x.trap = t.trap /\ (t.trap = "none" => x.s = Turned(s, m, t.p))
  BY <1>1
<1> QED
  BY <1>6, <1>7 DEF x

-----------------------------------------------------------------------------
(* Every instruction keeps the types *)

\* The immediate value fits, and so does the amount of a shift.
Fitting(ins) ==
  /\ Decoded(ins)
  /\ ins.extra \in Word
  /\ ins.op \in {"SLL", "SRA", "SRL"} => ins.extra \in 0 .. Width - 1

LEMMA RegTyped ==
  ASSUME NEW s, Typed(s)
  PROVE  /\ \A n \in GPR : Reg(s, n) \in Word
         /\ s.r.Hi \in Word /\ s.r.Lo \in Word
         /\ s.r.PC \in Word /\ s.r.NextPC \in Word /\ s.r.LoadValue \in Word
         /\ Sequential(s) \in Word
<1>1. /\ \A n \in GPR : Reg(s, n) \in Word
      /\ s.r.Hi \in Word /\ s.r.Lo \in Word
      /\ s.r.PC \in Word /\ s.r.NextPC \in Word /\ s.r.LoadValue \in Word
  BY TypedParts DEF Typed, Reg
<1>2. s.r.NextPC + 4 \in Int
  BY <1>1, UIs
<1>3. Wrap(s.r.NextPC + 4) \in Word
  BY <1>2, WrapIs
<1> QED
  BY <1>1, <1>3 DEF Sequential

LEMMA GivesTyped ==
  ASSUME NEW s, Typed(s), NEW n \in GPR, NEW value \in Word
  PROVE  Typed(Gives(s, n, value).s)
<1>1. Typed(Sets(s, n, value))
  BY SetsTyped
<1> QED
  BY <1>1, ZeroWord, RegTyped, FinishedTyped DEF Gives

LEMMA BothTyped ==
  ASSUME NEW s, Typed(s), NEW hi \in Word, NEW lo \in Word
  PROVE  Typed(Finished(Both(s, hi, lo), "r0", 0, Sequential(s)).s)
<1> DEFINE d == Both(s, hi, lo)
<1>1. /\ Formed(d)
      /\ d.m = s.m /\ d.p = s.p
      /\ d.r.Hi = hi /\ d.r.Lo = lo
      /\ d.r.PC = s.r.PC /\ d.r.NextPC = s.r.NextPC
      /\ d.r.PrevPC = s.r.PrevPC /\ d.r.BadVAddr = s.r.BadVAddr
      /\ d.r.LoadReg = s.r.LoadReg /\ d.r.LoadValue = s.r.LoadValue
      /\ \A n \in GPR : d.r.gen[n] = s.r.gen[n]
  BY BothLeaves DEF Typed
<1> HIDE DEF d
<1>2. /\ \A k \in GPR : s.r.gen[k] \in Word
      /\ s.r.PC \in Word /\ s.r.NextPC \in Word /\ s.r.PrevPC \in Word
      /\ s.r.BadVAddr \in Word /\ s.r.LoadValue \in Word /\ MemoryTyped(s.m, s.p)
  BY TypedParts DEF Typed
<1>3. Typed(d)
  BY <1>1, <1>2, TypedParts
<1> QED
  BY <1>3, ZeroWord, RegTyped, FinishedTyped DEF d

LEMMA ComputeTyped ==
  ASSUME NEW s, Typed(s), NEW ins, Fitting(ins), ins.op \in RegisterOps \cup ImmediateOps
  PROVE  Typed(Compute(s, ins).s)
<1> DEFINE n == IF ins.op \in RegisterOps THEN ins.rd ELSE ins.rt
           v == Computed(ins.op, Reg(s, ins.rs), Reg(s, ins.rt), ins.extra)
<1>1. n \in GPR /\ Reg(s, ins.rs) \in Word /\ Reg(s, ins.rt) \in Word
  BY RegTyped DEF Fitting, Decoded
<1>2. v \in Word
  BY <1>1, ComputedFits DEF Fitting
<1>3. Compute(s, ins) = Gives(s, n, v)
  BY DEF Compute
<1> HIDE DEF n, v
<1> QED
  BY <1>1, <1>2, <1>3, GivesTyped

LEMMA CheckedTyped ==
  ASSUME NEW s, Typed(s), NEW ins, Fitting(ins)
  PROVE  Typed(CheckedArithmetic(s, ins).s)
<1> DEFINE n == IF ins.op = "ADDI" THEN ins.rt ELSE ins.rd
           a == Reg(s, ins.rs)
           b == IF ins.op = "ADDI" THEN ins.extra ELSE Reg(s, ins.rt)
           over == IF ins.op = "SUB" THEN DifferenceOverflows(a, b) ELSE SumOverflows(a, b)
           x == IF ins.op = "SUB" THEN a - b ELSE a + b
<1>1. CheckedArithmetic(s, ins) = IF over THEN Raised(s, "Overflow", 0) ELSE Gives(s, n, Wrap(x))
  BY DEF CheckedArithmetic
<1>2. n \in GPR /\ a \in Word /\ b \in Word
  BY RegTyped DEF Fitting, Decoded
<1>3. a \in Int /\ b \in Int
  BY <1>2, UIs
<1> HIDE DEF n, a, b, over
<1>4. x \in Int
  BY <1>3
<1>5. Wrap(x) \in Word
  BY <1>4, WrapIs
<1> HIDE DEF x
<1>6. Typed(Raised(s, "Overflow", 0).s) /\ Typed(Gives(s, n, Wrap(x)).s)
  BY <1>2, <1>5, ZeroWord, RaisedTyped, GivesTyped
<1> QED
  BY <1>1, <1>6

LEMMA HiLoTyped ==
  ASSUME NEW s, Typed(s), NEW ins, Fitting(ins), ins.op \in HiLoOps
  PROVE  Typed(HiLo(s, ins).s)
<1> DEFINE a == Reg(s, ins.rs)
           b == Reg(s, ins.rt)
           both(hi, lo) == Finished(Both(s, hi, lo), "r0", 0, Sequential(s))
<1>1. \A hi, lo \in Word : Typed(both(hi, lo).s)
  BY BothTyped
<1>2. \A v \in Word : Typed(Gives(s, ins.rd, v).s)
  BY GivesTyped DEF Fitting, Decoded
<1>3. a \in Word /\ b \in Word /\ s.r.Hi \in Word /\ s.r.Lo \in Word
  BY RegTyped DEF Fitting, Decoded
<1> HIDE DEF both, a, b
<1>4. CASE ins.op \in {"MULT", "MULTU"}
  <2> DEFINE p == Mult(a, b, ins.op = "MULT")
  <2>1. HiLo(s, ins) = both(p.hi, p.lo)
    BY <1>4 DEF HiLo, both, Both, a, b
  <2>2. (ins.op = "MULT") \in BOOLEAN
    OBVIOUS
  <2>3. p.hi \in Word /\ p.lo \in Word
    BY <1>3, <2>2, MultMultiplies, Zenon
  <2> HIDE DEF p
  <2> QED
    BY <1>1, <2>1, <2>3
<1>5. CASE ins.op \in {"DIV", "DIVU"} /\ b = 0
  <2>1. HiLo(s, ins) = both(0, 0)
    BY <1>5 DEF HiLo, both, Both, b
  <2> QED
    BY <1>1, <2>1, ZeroWord
<1>6. CASE ins.op = "DIV" /\ b # 0 /\ Quotient(a, b) \in Word
  <2>1. HiLo(s, ins) = both(Remainder(a, b), Quotient(a, b))
    BY <1>6 DEF HiLo, both, Both, a, b
  <2>2. Remainder(a, b) \in Word
    BY <1>3, <1>6, DivisionDivides
  <2> QED
    BY <1>1, <1>6, <2>1, <2>2
<1>7. CASE ins.op = "DIV" /\ b # 0 /\ Quotient(a, b) \notin Word
  <2>1. HiLo(s, ins) = [s |-> s, trap |-> "HostFault"]
    BY <1>7 DEF HiLo, a, b
  <2> QED
    BY <2>1
<1>8. CASE ins.op = "DIVU" /\ b # 0
  <2> DEFINE hi == Wrap(U(a) % U(b))
             lo == Wrap(U(a) \div U(b))
  <2>1. HiLo(s, ins) = both(hi, lo)
    BY <1>8 DEF HiLo, both, Both, a, b
  <2>2. hi \in Word /\ lo \in Word
    BY <1>3, <1>8, UnsignedDivides
  <2> HIDE DEF hi, lo
  <2> QED
    BY <1>1, <2>1, <2>2
<1>9. CASE ins.op = "MFHI"
  BY <1>2, <1>3, <1>9 DEF HiLo
<1>10. CASE ins.op = "MFLO"
  BY <1>2, <1>3, <1>10 DEF HiLo
<1>11. CASE ins.op = "MTHI"
  <2>1. HiLo(s, ins) = both(a, s.r.Lo)
    BY <1>11 DEF HiLo, both, Both, a
  <2> QED
    BY <1>1, <1>3, <2>1
<1>12. CASE ins.op = "MTLO"
  <2>1. HiLo(s, ins) = both(s.r.Hi, a)
    BY <1>12 DEF HiLo, both, Both, a
  <2> QED
    BY <1>1, <1>3, <2>1
<1> QED
  BY <1>4, <1>5, <1>6, <1>7, <1>8, <1>9, <1>10, <1>11, <1>12 DEF HiLoOps

LEMMA LinkedTyped ==
  ASSUME NEW s, Typed(s), NEW ins, Fitting(ins)
  PROVE  Typed(Linked(s, ins))
<1>1. Wrap(s.r.NextPC + 4) \in Word
  BY RegTyped DEF Sequential
<1>2. "r31" \in GPR /\ ins.rd \in GPR
  BY ZeroWord DEF Fitting, Decoded
<1> QED
  BY <1>1, <1>2, SetsTyped DEF Linked

LEMMA BranchTyped ==
  ASSUME NEW s, Typed(s), NEW ins, Fitting(ins)
  PROVE  Typed(Branch(s, ins).s)
<1> DEFINE t == Linked(s, ins)
           taken == Taken(ins.op, Reg(t, ins.rs), Reg(t, ins.rt))
           to == Wrap(s.r.NextPC + 4 * ins.extra)
           pc == IF taken THEN to ELSE Sequential(s)
<1>1. Branch(s, ins) = Finished(t, "r0", 0, pc)
  BY DEF Branch
<1>2. s.r.NextPC \in Int /\ ins.extra \in Int
  BY RegTyped, UIs DEF Fitting
<1>3. s.r.NextPC + 4 * ins.extra \in Int
  BY <1>2
<1>4. to \in Word /\ Sequential(s) \in Word
  BY <1>3, WrapIs, RegTyped
<1>5. Typed(t)
  BY LinkedTyped
<1> HIDE DEF t, taken, to
<1>6. pc \in Word
  BY <1>4
<1> HIDE DEF pc
<1> QED
  BY <1>1, <1>5, <1>6, ZeroWord, FinishedTyped

LEMMA JumpTyped ==
  ASSUME NEW s, Typed(s), NEW ins, Fitting(ins)
  PROVE  Typed(Jump(s, ins).s)
<1> DEFINE t == Linked(s, ins)
           region == Pow2[Width - Width \div 8]
           top == U(Sequential(s)) - (U(Sequential(s)) % region)
           to == Wrap(top + ((4 * ins.extra) % region))
           pc == IF ins.op \in {"JR", "JALR"} THEN Reg(t, ins.rs) ELSE to
<1>1. Jump(s, ins) = Finished(t, "r0", 0, pc)
  BY DEF Jump
<1>2. Typed(t)
  BY LinkedTyped
<1>3. Reg(t, ins.rs) \in Word
  BY <1>2, RegTyped DEF Fitting, Decoded
<1>4. region \in Nat \ {0}
  <2>1. Width - Width \div 8 \in Nat
    BY WordFacts
  <2> QED
    BY <2>1, Pow2Next
<1>5. U(Sequential(s)) \in Int /\ 4 * ins.extra \in Int
  <2>1. Sequential(s) \in Word /\ ins.extra \in Word
    BY RegTyped DEF Fitting
  <2>2. U(Sequential(s)) \in 0 .. Full - 1 /\ ins.extra \in Int
    BY <2>1, UIs
  <2> QED
    BY <2>2, Whole
<1> HIDE DEF t, region
<1>6. to \in Word
  <2>1. U(Sequential(s)) % region \in Int /\ (4 * ins.extra) % region \in Int
    <3>1. U(Sequential(s)) % region \in 0 .. region - 1 /\ (4 * ins.extra) % region \in 0 .. region - 1
      BY <1>4, <1>5, Divides
    <3> QED
      BY <1>4, <3>1
  <2>2. top + ((4 * ins.extra) % region) \in Int
    BY <1>5, <2>1
  <2> HIDE DEF top
  <2> QED
    BY <2>2, WrapIs
<1> HIDE DEF to
<1>7. pc \in Word
  BY <1>3, <1>6
<1> HIDE DEF pc
<1> QED
  BY <1>1, <1>2, <1>7, ZeroWord, FinishedTyped

\* The address of a word that an unaligned access is in.
LEMMA AlignedWord ==
  ASSUME NEW addr \in Word
  PROVE  /\ addr % 4 \in 0 .. 3 /\ addr - (addr % 4) \in Word
         /\ (addr - (addr % 4)) % 4 = 0
<1> DEFINE q == Pow2[Width - 2]
           byte == addr % 4
           k == addr \div 4
<1>1. q \in Nat \ {0} /\ Half = 2 * q
  BY Quarter
<1>2. PICK h \in Nat : Half = 4 * h
  <2>1. Width - 3 \in Nat /\ (Width - 3) + 1 = Width - 2
    BY WordFacts
  <2>2. Pow2[Width - 3] \in Nat /\ q = 2 * Pow2[Width - 3]
    BY <2>1, Pow2Next
  <2> HIDE DEF q
  <2>3. Half = 4 * Pow2[Width - 3]
    BY <1>1, <2>2
  <2> QED
    BY <2>2, <2>3
<1>3. addr \in Int /\ -Half <= addr /\ addr < Half
  BY WordIs
<1>4. k \in Int /\ byte \in 0 .. 3 /\ addr = 4 * k + byte
  BY <1>3
<1> HIDE DEF byte, k
<1>5. addr - byte \in Int /\ -Half <= addr - byte /\ addr - byte < Half
  BY <1>2, <1>3, <1>4
<1>6. (addr - byte) % 4 = 0
  <2>1. addr - byte = 4 * k
    BY <1>3, <1>4
  <2>2. (4 * k) % 4 = 0
    BY <1>4
  <2> QED
    BY <2>1, <2>2, Zenon
<1> QED
  BY <1>4, <1>5, <1>6, WordIs DEF byte

LEMMA AddressFits ==
  ASSUME NEW s, Typed(s), NEW ins, Fitting(ins)
  PROVE  Wrap(Reg(s, ins.rs) + ins.extra) \in Word
<1>1. Reg(s, ins.rs) \in Int /\ ins.extra \in Int
  BY RegTyped, UIs DEF Fitting, Decoded
<1>2. Reg(s, ins.rs) + ins.extra \in Int
  BY <1>1
<1> QED
  BY <1>2, WrapIs

LEMMA SizeIs ==
  ASSUME NEW op
  PROVE  /\ SizeOf(op) \in {1, 2, 4}
         /\ op \in {"LBU", "LHU"} => SizeOf(op) # 4
BY DEF SizeOf

LEMMA LoadTyped ==
  ASSUME NEW s, Typed(s), NEW ins, Fitting(ins)
  PROVE  Typed(Load(s, ins).s)
<1> DEFINE addr == Wrap(Reg(s, ins.rs) + ins.extra)
           n    == SizeOf(ins.op)
           x    == ReadMem(s, addr, n)
           v    == IF ins.op \in {"LBU", "LHU"} THEN x.value ELSE Extended(x.value, n)
<1>1. Load(s, ins) = IF n > 1 /\ addr % n # 0 THEN Raised(s, "AddressError", addr)
                     ELSE IF x.trap # "none" THEN Raised(s, x.trap, addr)
                     ELSE Finished(x.s, ins.rt, v, Sequential(s))
  BY DEF Load
<1>2. addr \in Word
  BY AddressFits
<1>3. addr \in Int
  BY <1>2, UIs
<1>4. n \in {1, 2, 4} /\ (ins.op \in {"LBU", "LHU"} => n # 4)
  BY SizeIs
<1> HIDE DEF addr, n
<1>5. Typed(x.s) /\ (x.trap = "none" => x.value \in 0 .. Pow2[ByteBits * n] - 1)
  BY <1>3, <1>4, ReadTyped
<1> HIDE DEF x
<1>6. x.trap = "none" => v \in Word
  BY <1>4, <1>5, ExtendedFits
<1> HIDE DEF v
<1>7. ins.rt \in GPR /\ Sequential(s) \in Word
  BY RegTyped DEF Fitting, Decoded
<1> QED
  BY <1>1, <1>2, <1>5, <1>6, <1>7, RaisedTyped, FinishedTyped

LEMMA OldValueTyped ==
  ASSUME NEW s, Typed(s), NEW n \in GPR
  PROVE  OldValue(s, n) \in Word
BY RegTyped DEF OldValue

LEMMA LoadPartTyped ==
  ASSUME NEW s, Typed(s), NEW ins, Fitting(ins)
  PROVE  Typed(LoadPart(s, ins).s)
<1> DEFINE addr == Wrap(Reg(s, ins.rs) + ins.extra)
           byte == addr % 4
           x    == ReadMem(s, addr - byte, 4)
           old  == OldValue(s, ins.rt)
           v    == IF ins.op = "LWL"
                   THEN Wrap(Low(old, 3 - byte) + Up(x.value, 3 - byte))
                   ELSE Wrap(High(old, 4 - byte) + Down(x.value, byte))
<1>1. LoadPart(s, ins) = IF x.trap # "none" THEN Raised(s, x.trap, addr - byte)
                         ELSE Finished(x.s, ins.rt, v, Sequential(s))
  BY Zenon DEF LoadPart
<1>2. byte \in 0 .. 3 /\ addr - byte \in Word
  BY AddressFits, AlignedWord
<1>3. addr - byte \in Int
  BY <1>2, UIs
<1> HIDE DEF addr, byte
<1>4. Typed(x.s) /\ x.value \in Int
  BY <1>3, ReadTyped
<1> HIDE DEF x
<1>5. old \in Int
  BY OldValueTyped, UIs DEF Fitting, Decoded
<1> HIDE DEF old
<1>6. v \in Word
  <2>1. byte \in Nat /\ 3 - byte \in Nat /\ 4 - byte \in Nat
    BY <1>2
  <2>2. /\ Low(old, 3 - byte) \in Int /\ High(old, 4 - byte) \in Int
        /\ Up(x.value, 3 - byte) \in Word /\ Down(x.value, byte) \in Int
    <3>1. \A w1 \in Int, n \in Nat :
            Low(w1, n) \in Int /\ High(w1, n) \in Int /\ Up(w1, n) \in Word /\ Down(w1, n) \in Int
      <4>1. \A k \in Nat : k \in Int
        OBVIOUS
      <4> QED
        BY <4>1, PartsInt, Zenon
    <3> QED
      BY <1>4, <1>5, <2>1, <3>1, Zenon
  <2>3. Up(x.value, 3 - byte) \in Int
    <3>1. \A z \in Word : z \in Int
      BY UIs
    <3> QED
      BY <2>2, <3>1, Zenon
  <2>4. /\ Low(old, 3 - byte) + Up(x.value, 3 - byte) \in Int
        /\ High(old, 4 - byte) + Down(x.value, byte) \in Int
    BY <2>2, <2>3
  <2> QED
    BY <2>4, WrapIs
<1> HIDE DEF v
<1>7. ins.rt \in GPR /\ Sequential(s) \in Word
  BY RegTyped DEF Fitting, Decoded
<1> QED
  BY <1>1, <1>2, <1>4, <1>6, <1>7, RaisedTyped, FinishedTyped

LEMMA StorePartTyped ==
  ASSUME NEW s, Typed(s), NEW ins, Fitting(ins)
  PROVE  Typed(StorePart(s, ins).s)
<1> DEFINE addr == Wrap(Reg(s, ins.rs) + ins.extra)
           byte == addr % 4
           w    == Reg(s, ins.rt)
           x    == ReadMem(s, addr - byte, 4)
           v    == IF ins.op = "SWL" THEN Wrap(High(x.value, byte + 1) + Down(w, 3 - byte))
                   ELSE Wrap(Low(x.value, byte) + Up(w, byte))
           put  == WriteMem(x.s, addr - byte, 4, v)
<1>1. StorePart(s, ins) = IF x.trap # "none" THEN Raised(s, x.trap, addr - byte)
                          ELSE IF put.trap # "none" THEN Raised(x.s, put.trap, addr - byte)
                          ELSE Finished(put.s, "r0", 0, Sequential(s))
  BY Zenon DEF StorePart
<1>2. byte \in 0 .. 3 /\ addr - byte \in Word
  BY AddressFits, AlignedWord
<1>3. addr - byte \in Int
  BY <1>2, UIs
<1> HIDE DEF addr, byte
<1>4. Typed(x.s) /\ x.value \in Int
  BY <1>3, ReadTyped
<1> HIDE DEF x
<1>5. w \in Int
  BY RegTyped, UIs DEF Fitting, Decoded
<1> HIDE DEF w
<1>6. v \in Int
  <2>1. byte \in Nat /\ byte + 1 \in Nat /\ 3 - byte \in Nat
    BY <1>2
  <2>2. /\ Low(x.value, byte) \in Int /\ High(x.value, byte + 1) \in Int
        /\ Up(w, byte) \in Word /\ Down(w, 3 - byte) \in Int
    <3>1. \A w1 \in Int, n \in Nat :
            Low(w1, n) \in Int /\ High(w1, n) \in Int /\ Up(w1, n) \in Word /\ Down(w1, n) \in Int
      <4>1. \A k \in Nat : k \in Int
        OBVIOUS
      <4> QED
        BY <4>1, PartsInt, Zenon
    <3> QED
      BY <1>4, <1>5, <2>1, <3>1, Zenon
  <2>3. Up(w, byte) \in Int
    <3>1. \A z \in Word : z \in Int
      BY UIs
    <3> QED
      BY <2>2, <3>1, Zenon
  <2>4. /\ High(x.value, byte + 1) + Down(w, 3 - byte) \in Int
        /\ Low(x.value, byte) + Up(w, byte) \in Int
    BY <2>2, <2>3
  <2>5. v \in Word
    BY <2>4, WrapIs
  <2> QED
    BY <2>5, UIs
<1> HIDE DEF v
<1>7. put.trap = "none" => Typed(put.s)
  BY <1>3, <1>4, <1>6, WriteTyped
<1> HIDE DEF put
<1>8. Sequential(s) \in Word
  BY RegTyped
<1> QED
  BY <1>1, <1>2, <1>4, <1>7, <1>8, ZeroWord, RaisedTyped, FinishedTyped

LEMMA StoreTyped ==
  ASSUME NEW s, Typed(s), NEW ins, Fitting(ins)
  PROVE  Typed(Store(s, ins).s)
<1> DEFINE addr == Wrap(Reg(s, ins.rs) + ins.extra)
           n    == SizeOf(ins.op)
           w    == Reg(s, ins.rt)
           x    == WriteMem(s, addr, n, w)
<1>1. Store(s, ins) = IF x.trap # "none" THEN Raised(s, x.trap, addr)
                      ELSE Finished(x.s, "r0", 0, Sequential(s))
  BY DEF Store
<1>2. addr \in Word
  BY AddressFits
<1>3. addr \in Int /\ n \in {1, 2, 4} /\ w \in Int
  BY <1>2, UIs, SizeIs, RegTyped DEF Fitting, Decoded
<1> HIDE DEF addr, n, w
<1>4. x.trap = "none" => Typed(x.s)
  BY <1>3, WriteTyped
<1> HIDE DEF x
<1>5. Sequential(s) \in Word
  BY RegTyped
<1> QED
  BY <1>1, <1>2, <1>4, <1>5, ZeroWord, RaisedTyped, FinishedTyped

LEMMA ExecuteTyped ==
  ASSUME NEW s, Typed(s), NEW ins, Fitting(ins)
  PROVE  Typed(Execute(s, ins).s)
<1>1. ins.op \in RegisterOps \cup ImmediateOps => Typed(Compute(s, ins).s)
  BY ComputeTyped
<1>2. ins.op \in HiLoOps => Typed(HiLo(s, ins).s)
  BY HiLoTyped
<1>3. /\ Typed(CheckedArithmetic(s, ins).s)
      /\ Typed(Branch(s, ins).s) /\ Typed(Jump(s, ins).s)
      /\ Typed(Load(s, ins).s) /\ Typed(LoadPart(s, ins).s)
      /\ Typed(StorePart(s, ins).s) /\ Typed(Store(s, ins).s)
  BY CheckedTyped, BranchTyped, JumpTyped, LoadTyped, LoadPartTyped, StorePartTyped, StoreTyped
<1>4. Typed(Raised(s, "Syscall", 0).s) /\ Typed(Raised(s, "IllegalInstr", 0).s)
  BY ZeroWord, RaisedTyped
<1> QED
  BY <1>1, <1>2, <1>3, <1>4, Dispatch

LEMMA InstructionTyped ==
  ASSUME NEW s, Typed(s), NEW ins, Fitting(ins)
  PROVE  Typed(OneInstruction(s, ins).s)
<1> DEFINE x == ReadMem(s, s.r.PC, 4)
<1>1. s.r.PC \in Word
  BY RegTyped
<1>2. s.r.PC \in Int
  BY <1>1, UIs
<1>3. Typed(x.s)
  BY <1>2, ReadTyped
<1>4. OneInstruction(s, ins) = IF x.trap # "none" THEN Raised(s, x.trap, s.r.PC) ELSE Execute(x.s, ins)
  BY DEF OneInstruction
<1> HIDE DEF x
<1> QED
  BY <1>1, <1>3, <1>4, RaisedTyped, ExecuteTyped

LEMMA HandledTyped ==
  ASSUME NEW s, Typed(s), NEW answer \in Answers
  PROVE  Typed(Handled(s, answer))
<1>1. ASSUME NEW t, Typed(t) PROVE Typed(IncreasePC(t))
  <2> DEFINE d == IncreasePC(t)
  <2>1. /\ Formed(d)
        /\ d.m = t.m /\ d.p = t.p
        /\ d.r.gen = t.r.gen /\ d.r.Hi = t.r.Hi /\ d.r.Lo = t.r.Lo
        /\ d.r.PC = Wrap(t.r.PC + 4) /\ d.r.NextPC = Wrap(t.r.PC + 8) /\ d.r.PrevPC = t.r.PC
        /\ d.r.BadVAddr = t.r.BadVAddr
        /\ d.r.LoadReg = t.r.LoadReg /\ d.r.LoadValue = t.r.LoadValue
    BY <1>1, IncreaseLeaves DEF Typed
  <2> HIDE DEF d
  <2>2. /\ \A k \in GPR : t.r.gen[k] \in Word
        /\ t.r.Hi \in Word /\ t.r.Lo \in Word /\ t.r.PC \in Word
        /\ t.r.BadVAddr \in Word /\ t.r.LoadValue \in Word /\ MemoryTyped(t.m, t.p)
    BY <1>1, TypedParts DEF Typed
  <2>3. t.r.PC \in Int
    BY <2>2, UIs
  <2>4. Wrap(t.r.PC + 4) \in Word /\ Wrap(t.r.PC + 8) \in Word
    <3>1. t.r.PC + 4 \in Int /\ t.r.PC + 8 \in Int
      BY <2>3
    <3> QED
      BY <3>1, WrapIs
  <2>5. Typed(d)
    BY <2>1, <2>2, <2>4, TypedParts
  <2> QED
    BY <2>5 DEF d
<1>2. CASE answer.how = "return"
  <2>1. answer.value \in Word /\ "r2" \in GPR
    BY <1>2, ProcessorAssumption DEF Answers
  <2>2. Typed(Sets(s, "r2", answer.value))
    BY <2>1, SetsTyped
  <2> QED
    BY <1>1, <1>2, <2>2 DEF Handled
<1>3. CASE answer.how # "return"
  BY <1>1, <1>3 DEF Handled
<1> QED
  BY <1>2, <1>3

-----------------------------------------------------------------------------
(* What the instructions compute *)

LEMMA GivesLands ==
  ASSUME NEW s, Formed(s), s.r.LoadReg = "r0", NEW n \in GPR, NEW value
  PROVE  LET o == Gives(s, n, value)
         IN o.trap = "none" /\ o.s.r.LoadReg = "r0" /\ (n # "r0" => Reg(o.s, n) = value)
<1> DEFINE t == Sets(s, n, value)
           o == Finished(t, "r0", 0, Sequential(s))
<1>1. Formed(t) /\ t.r.LoadReg = "r0" /\ t.r.gen[n] = value
  BY SetsLeaves
<1> HIDE DEF t
<1>2. o.trap = "none" /\ o.s.r.LoadReg = "r0" /\ o.s.r.gen[n] = Holds(t, n)
  BY <1>1, ZeroWord, FinishedLeaves
<1>3. n # "r0" => Holds(t, n) = value
  BY <1>1 DEF Holds
<1> QED
  BY <1>2, <1>3 DEF Gives, Reg, t

LEMMA BothLands ==
  ASSUME NEW s, Formed(s), NEW hi, NEW lo
  PROVE  LET o == Finished(Both(s, hi, lo), "r0", 0, Sequential(s))
         IN o.trap = "none" /\ o.s.r.LoadReg = "r0" /\ o.s.r.Hi = hi /\ o.s.r.Lo = lo
<1> DEFINE t == Both(s, hi, lo)
<1>1. Formed(t) /\ t.r.Hi = hi /\ t.r.Lo = lo
  BY BothLeaves
<1> HIDE DEF t
<1>2. LET o == Finished(t, "r0", 0, Sequential(s))
      IN o.trap = "none" /\ o.s.r.LoadReg = "r0" /\ o.s.r.Hi = t.r.Hi /\ o.s.r.Lo = t.r.Lo
  BY <1>1, ZeroWord, FinishedLeaves
<1> QED
  BY <1>1, <1>2 DEF t

\* Addition and subtraction trap just when the result does not fit.
LEMMA CheckedRight ==
  ASSUME NEW s, Typed(s), s.r.LoadReg = "r0", NEW ins, Fitting(ins), ins.op \in CheckedOps
  PROVE  LET o     == CheckedArithmetic(s, ins)
             a     == Reg(s, ins.rs)
             b     == Reg(s, ins.rt)
             to    == IF ins.op = "ADDI" THEN ins.rt ELSE ins.rd
             exact == CASE ins.op = "ADD" -> a + b [] ins.op = "ADDI" -> a + ins.extra
                        [] OTHER -> a - b
         IN /\ o.trap = "none" <=> exact \in Word
            /\ o.trap = "none" => o.s.r.LoadReg = "r0" /\ (to # "r0" => Reg(o.s, to) = exact)
<1> DEFINE n == IF ins.op = "ADDI" THEN ins.rt ELSE ins.rd
           a == Reg(s, ins.rs)
           c == Reg(s, ins.rt)
           b == IF ins.op = "ADDI" THEN ins.extra ELSE Reg(s, ins.rt)
           over == IF ins.op = "SUB" THEN DifferenceOverflows(a, b) ELSE SumOverflows(a, b)
           x == IF ins.op = "SUB" THEN a - b ELSE a + b
           exact == CASE ins.op = "ADD" -> a + c [] ins.op = "ADDI" -> a + ins.extra
                      [] OTHER -> a - c
           o == CheckedArithmetic(s, ins)
<1>1. o = IF over THEN Raised(s, "Overflow", 0) ELSE Gives(s, n, Wrap(x))
  BY DEF CheckedArithmetic
<1>2. n \in GPR /\ a \in Word /\ b \in Word
  BY RegTyped DEF Fitting, Decoded
<1>3. exact = x
  BY DEF CheckedOps
<1> HIDE DEF n, a, b, c, o
<1>4. over <=> x \notin Word
  BY <1>2, OverflowIs
<1> HIDE DEF over, x, exact
<1>5. CASE over
  <2>1. Raised(s, "Overflow", 0).trap = "Overflow"
    BY DEF Raised
  <2>2. o.trap # "none"
    BY <1>1, <1>5, <2>1
  <2> QED
    BY <1>3, <1>4, <1>5, <2>2 DEF o, n, a, c, exact
<1>6. CASE ~over
  <2>1. x \in Word /\ Wrap(x) = x
    BY <1>4, <1>6, WrapWord
  <2>2. o = Gives(s, n, x)
    BY <1>1, <1>6, <2>1
  <2>3. Formed(s)
    BY DEF Typed
  <2>4. o.trap = "none" /\ o.s.r.LoadReg = "r0" /\ (n # "r0" => Reg(o.s, n) = x)
    BY <1>2, <2>2, <2>3, GivesLands
  <2> QED
    BY <1>3, <2>1, <2>4 DEF o, n, a, c, exact
<1> QED
  BY <1>5, <1>6

\* Products and quotients.
LEMMA HiLoRight ==
  ASSUME NEW s, Typed(s), s.r.LoadReg = "r0", NEW ins, Fitting(ins), ins.op \in HiLoOps,
         HiLo(s, ins).trap = "none"
  PROVE  LET t  == HiLo(s, ins).s
             a  == Reg(s, ins.rs)
             b  == Reg(s, ins.rt)
             hi == t.r.Hi
             lo == t.r.Lo
         IN /\ t.r.LoadReg = "r0"
            /\ ins.op = "MULT"  => hi * Full + U(lo) = a * b
            /\ ins.op = "MULTU" => U(hi) * Full + U(lo) = U(a) * U(b)
            /\ ins.op = "DIV" /\ b # 0 => lo * b + hi = a /\ hi * hi < b * b /\ hi * a >= 0
            /\ ins.op = "DIVU" /\ b # 0 => U(lo) * U(b) + U(hi) = U(a) /\ U(hi) < U(b)
<1> DEFINE a == Reg(s, ins.rs)
           b == Reg(s, ins.rt)
           both(hi, lo) == Finished(Both(s, hi, lo), "r0", 0, Sequential(s))
           t == HiLo(s, ins).s
<1>1. \A hi, lo : both(hi, lo).s.r.LoadReg = "r0" /\ both(hi, lo).s.r.Hi = hi /\ both(hi, lo).s.r.Lo = lo
  BY BothLands DEF Typed
<1>2. \A v : Gives(s, ins.rd, v).s.r.LoadReg = "r0"
  BY GivesLands DEF Fitting, Decoded, Typed
<1>3. a \in Word /\ b \in Word
  BY RegTyped DEF Fitting, Decoded
<1> HIDE DEF both, a, b
<1>4. CASE ins.op \in {"MULT", "MULTU"}
  <2> DEFINE p == Mult(a, b, ins.op = "MULT")
  <2>1. HiLo(s, ins) = both(p.hi, p.lo)
    BY <1>4 DEF HiLo, both, Both, a, b
  <2>2. (ins.op = "MULT") \in BOOLEAN
    OBVIOUS
  <2>3. /\ ins.op = "MULT"  => p.hi * Full + U(p.lo) = a * b
        /\ ~(ins.op = "MULT") => U(p.hi) * Full + U(p.lo) = U(a) * U(b)
    BY <1>3, <2>2, MultMultiplies, Zenon
  <2> HIDE DEF p
  <2>4. t.r.LoadReg = "r0" /\ t.r.Hi = p.hi /\ t.r.Lo = p.lo
    BY <1>1, <2>1
  <2> HIDE DEF t
  <2>5. /\ ins.op = "MULT"  => t.r.Hi * Full + U(t.r.Lo) = a * b
        /\ ~(ins.op = "MULT") => U(t.r.Hi) * Full + U(t.r.Lo) = U(a) * U(b)
    BY <2>3, <2>4, Zenon
  <2>6. ins.op # "DIV" /\ ins.op # "DIVU" /\ (ins.op = "MULTU" => ~(ins.op = "MULT"))
    BY <1>4
  <2> QED
    BY <2>4, <2>5, <2>6, Zenon DEF t, a, b
<1>5. CASE ins.op \in {"DIV", "DIVU"} /\ b = 0
  <2>1. HiLo(s, ins) = both(0, 0)
    BY <1>5 DEF HiLo, both, Both, b
  <2>2. t.r.LoadReg = "r0"
    BY <1>1, <2>1
  <2>3. ins.op # "MULT" /\ ins.op # "MULTU"
    BY <1>5
  <2> QED
    BY <1>5, <2>2, <2>3, Zenon DEF b
<1>6. CASE ins.op = "DIV" /\ b # 0
  <2>1. HiLo(s, ins) = IF Quotient(a, b) \in Word THEN both(Remainder(a, b), Quotient(a, b))
                       ELSE [s |-> s, trap |-> "HostFault"]
    BY <1>6 DEF HiLo, both, Both, a, b
  <2>2. HiLo(s, ins) = both(Remainder(a, b), Quotient(a, b))
    BY <2>1
  <2>3. t.r.LoadReg = "r0" /\ t.r.Hi = Remainder(a, b) /\ t.r.Lo = Quotient(a, b)
    BY <1>1, <2>2
  <2> HIDE DEF t
  <2>4. t.r.Lo * b + t.r.Hi = a /\ t.r.Hi * t.r.Hi < b * b /\ t.r.Hi * a >= 0
    BY <1>3, <1>6, <2>3, DivisionDivides, Zenon
  <2>5. ins.op # "MULT" /\ ins.op # "MULTU" /\ ins.op # "DIVU"
    BY <1>6
  <2> QED
    BY <2>3, <2>4, <2>5, Zenon DEF t, a, b
<1>7. CASE ins.op = "DIVU" /\ b # 0
  <2> DEFINE hi == Wrap(U(a) % U(b))
             lo == Wrap(U(a) \div U(b))
  <2>1. HiLo(s, ins) = both(hi, lo)
    BY <1>7 DEF HiLo, both, Both, a, b
  <2>2. U(lo) * U(b) + U(hi) = U(a) /\ U(hi) < U(b)
    BY <1>3, <1>7, UnsignedDivides, Zenon
  <2> HIDE DEF hi, lo
  <2>3. t.r.LoadReg = "r0" /\ t.r.Hi = hi /\ t.r.Lo = lo
    BY <1>1, <2>1
  <2> HIDE DEF t
  <2>4. U(t.r.Lo) * U(b) + U(t.r.Hi) = U(a) /\ U(t.r.Hi) < U(b)
    BY <2>2, <2>3, Zenon
  <2>5. ins.op # "MULT" /\ ins.op # "MULTU" /\ ins.op # "DIV"
    BY <1>7
  <2> QED
    BY <2>3, <2>4, <2>5, Zenon DEF t, a, b
<1>8. CASE ins.op \in {"MFHI", "MFLO", "MTHI", "MTLO"}
  <2>1. \/ HiLo(s, ins) = Gives(s, ins.rd, s.r.Hi)
        \/ HiLo(s, ins) = Gives(s, ins.rd, s.r.Lo)
        \/ HiLo(s, ins) = both(a, s.r.Lo)
        \/ HiLo(s, ins) = both(s.r.Hi, a)
    BY <1>8 DEF HiLo, both, Both, a
  <2>2. t.r.LoadReg = "r0"
    BY <1>1, <1>2, <2>1
  <2>3. ins.op # "MULT" /\ ins.op # "MULTU" /\ ins.op # "DIV" /\ ins.op # "DIVU"
    BY <1>8
  <2> QED
    BY <2>2, <2>3, Zenon
<1> QED
  BY <1>4, <1>5, <1>6, <1>7, <1>8, Zenon DEF HiLoOps

\* Bit by bit.
LEMMA ComputeRight ==
  ASSUME NEW s, Typed(s), s.r.LoadReg = "r0", NEW ins, Fitting(ins), ins.op \in RegisterOps
  PROVE  LET t == Compute(s, ins).s
             a == Reg(s, ins.rs)
             b == Reg(s, ins.rt)
         IN /\ t.r.LoadReg = "r0"
            /\ ins.op \in {"AND", "OR", "XOR", "NOR"} /\ ins.rd # "r0" =>
                 \A i \in 0 .. Width - 1 :
                   LET p == Bit(a, i) = 1
                       q == Bit(b, i) = 1
                   IN Bit(Reg(t, ins.rd), i) = Flag(CASE ins.op = "AND" -> p /\ q
                                                      [] ins.op = "OR"  -> p \/ q
                                                      [] ins.op = "XOR" -> p # q
                                                      [] ins.op = "NOR" -> ~(p \/ q))
<1> DEFINE t == Compute(s, ins).s
           a == Reg(s, ins.rs)
           b == Reg(s, ins.rt)
           v == Computed(ins.op, a, b, ins.extra)
<1>1. t = Gives(s, ins.rd, v).s
  BY DEF Compute
<1>2. ins.rd \in GPR /\ a \in Word /\ b \in Word
  BY RegTyped DEF Fitting, Decoded
<1>3. t.r.LoadReg = "r0" /\ (ins.rd # "r0" => Reg(t, ins.rd) = v)
  <2> HIDE DEF v
  <2> QED
    BY <1>1, <1>2, GivesLands DEF Typed
<1> HIDE DEF t, a, b
<1>4. ASSUME ins.op \in {"AND", "OR", "XOR", "NOR"}, NEW i \in 0 .. Width - 1
      PROVE  LET p == Bit(a, i) = 1
                 q == Bit(b, i) = 1
             IN Bit(v, i) = Flag(CASE ins.op = "AND" -> p /\ q
                                   [] ins.op = "OR"  -> p \/ q
                                   [] ins.op = "XOR" -> p # q
                                   [] ins.op = "NOR" -> ~(p \/ q))
  BY <1>2, <1>4, BitwiseIs
<1> HIDE DEF v
<1>5. ASSUME ins.op \in {"AND", "OR", "XOR", "NOR"}, ins.rd # "r0", NEW i \in 0 .. Width - 1
      PROVE  LET p == Bit(a, i) = 1
                 q == Bit(b, i) = 1
             IN Bit(Reg(t, ins.rd), i) = Flag(CASE ins.op = "AND" -> p /\ q
                                                [] ins.op = "OR"  -> p \/ q
                                                [] ins.op = "XOR" -> p # q
                                                [] ins.op = "NOR" -> ~(p \/ q))
  <2>1. Reg(t, ins.rd) = v
    BY <1>3, <1>5
  <2> QED
    BY <1>4, <1>5, <2>1
<1> QED
  BY <1>3, <1>5, Zenon DEF t, a, b

ArithmeticOps == RegisterOps \cup CheckedOps \cup HiLoOps

\* What arithmetic says of an instruction that trapped, or is no arithmetic.
LEMMA NothingSaid ==
  ASSUME NEW e, NEW s,
         e.trap = "none" => e.ins.op \notin ArithmeticOps,
         e.trap # "Overflow" \/ e.ins.op \notin CheckedOps
  PROVE  ArithmeticRight(e, s)
<1>1. e.trap = "none" =>
        /\ e.ins.op \notin CheckedOps
        /\ e.ins.op # "MULT" /\ e.ins.op # "MULTU" /\ e.ins.op # "DIV" /\ e.ins.op # "DIVU"
        /\ e.ins.op \notin {"AND", "OR", "XOR", "NOR"}
  BY DEF ArithmeticOps, RegisterOps, HiLoOps
<1>2. ~(e.ins.op \in CheckedOps /\ e.trap \in {"none", "Overflow"})
  BY <1>1
<1> QED
  BY <1>1, <1>2, Zenon DEF ArithmeticRight

\* It is said of the registers that the instruction gives a value.
LEMMA SaidOf ==
  ASSUME NEW e, NEW s, NEW t, ArithmeticRight(e, s),
         e.trap = "none" /\ e.ins.op \in ArithmeticOps =>
           /\ t.r.Hi = s.r.Hi /\ t.r.Lo = s.r.Lo
           /\ \A n \in GPR : n # "r0" => Reg(t, n) = Reg(s, n),
         Decoded(e.ins)
  PROVE  ArithmeticRight(e, t)
<1> DEFINE ins   == e.ins
           done  == e.trap = "none"
           a     == Reg(e.before, ins.rs)
           b     == Reg(e.before, ins.rt)
           to    == IF ins.op = "ADDI" THEN ins.rt ELSE ins.rd
           exact == CASE ins.op = "ADD" -> a + b [] ins.op = "ADDI" -> a + ins.extra
                      [] OTHER -> a - b
<1>1. to \in GPR /\ ins.rd \in GPR
  BY DEF Decoded
<1>2. done /\ ins.op \in ArithmeticOps =>
        /\ t.r.Hi = s.r.Hi /\ t.r.Lo = s.r.Lo
        /\ to # "r0" => Reg(t, to) = Reg(s, to)
        /\ ins.rd # "r0" => Reg(t, ins.rd) = Reg(s, ins.rd)
  BY <1>1
<1>3. /\ ins.op \in CheckedOps => ins.op \in ArithmeticOps
      /\ ins.op = "MULT" => ins.op \in ArithmeticOps
      /\ ins.op = "MULTU" => ins.op \in ArithmeticOps
      /\ ins.op = "DIV" => ins.op \in ArithmeticOps
      /\ ins.op = "DIVU" => ins.op \in ArithmeticOps
      /\ ins.op \in {"AND", "OR", "XOR", "NOR"} => ins.op \in ArithmeticOps
  BY DEF ArithmeticOps, RegisterOps, HiLoOps
<1> HIDE DEF exact
<1>4. /\ ins.op \in CheckedOps /\ e.trap \in {"none", "Overflow"} =>
           /\ done <=> exact \in Word
           /\ done /\ to # "r0" => Reg(t, to) = exact
  <2>1. ins.op \in CheckedOps /\ e.trap \in {"none", "Overflow"} =>
           /\ done <=> exact \in Word
           /\ done /\ to # "r0" => Reg(s, to) = exact
    BY Zenon DEF ArithmeticRight, exact
  <2> QED
    BY <1>2, <1>3, <2>1
<1> HIDE DEF done, a, b
<1>5. done /\ ins.op = "MULT"  => t.r.Hi * Full + U(t.r.Lo) = a * b
  BY <1>2, <1>3, Zenon DEF ArithmeticRight, done, a, b
<1>6. done /\ ins.op = "MULTU" => U(t.r.Hi) * Full + U(t.r.Lo) = U(a) * U(b)
  BY <1>2, <1>3, Zenon DEF ArithmeticRight, done, a, b
<1>7. done /\ ins.op = "DIV" /\ b # 0 =>
        t.r.Lo * b + t.r.Hi = a /\ t.r.Hi * t.r.Hi < b * b /\ t.r.Hi * a >= 0
  BY <1>2, <1>3, Zenon DEF ArithmeticRight, done, a, b
<1>8. done /\ ins.op = "DIVU" /\ b # 0 =>
        U(t.r.Lo) * U(b) + U(t.r.Hi) = U(a) /\ U(t.r.Hi) < U(b)
  BY <1>2, <1>3, Zenon DEF ArithmeticRight, done, a, b
<1>9. done /\ ins.op \in {"AND", "OR", "XOR", "NOR"} /\ ins.rd # "r0" =>
          \A i \in 0 .. Width - 1 :
            LET p == Bit(a, i) = 1
                q == Bit(b, i) = 1
            IN Bit(Reg(t, ins.rd), i) = Flag(CASE ins.op = "AND" -> p /\ q
                                               [] ins.op = "OR"  -> p \/ q
                                               [] ins.op = "XOR" -> p # q
                                               [] ins.op = "NOR" -> ~(p \/ q))
  <2>1. CASE done /\ ins.op \in {"AND", "OR", "XOR", "NOR"} /\ ins.rd # "r0"
    <3>1. Reg(t, ins.rd) = Reg(s, ins.rd)
      BY <1>2, <1>3, <2>1
    <3> QED
      BY <2>1, <3>1, Zenon DEF ArithmeticRight, done, a, b
  <2> QED
    BY <2>1, Zenon
<1> QED
  BY <1>4, <1>5, <1>6, <1>7, <1>8, <1>9, Zenon DEF ArithmeticRight, done, a, b, exact

\* After no load, an instruction does what arithmetic says, and leaves no load.
LEMMA InstructionRight ==
  ASSUME NEW s, Typed(s), s.r.LoadReg = "r0", NEW ins, Fitting(ins), NEW e,
         e = [ins |-> ins, before |-> s, trap |-> OneInstruction(s, ins).trap]
  PROVE  LET o == OneInstruction(s, ins)
         IN /\ ArithmeticRight(e, o.s)
            /\ o.trap = "none" /\ ins.op \in ArithmeticOps => o.s.r.LoadReg = "r0"
<1> DEFINE x == ReadMem(s, s.r.PC, 4)
           o == OneInstruction(s, ins)
<1>1. o = IF x.trap # "none" THEN Raised(s, x.trap, s.r.PC) ELSE Execute(x.s, ins)
  BY DEF OneInstruction
<1>2. s.r.PC \in Word
  BY RegTyped
<1>3. s.r.PC \in Int
  BY <1>2, UIs
<1>4. Typed(x.s) /\ x.s.r = s.r
  BY <1>3, ReadTyped
<1>5. x.trap # "Overflow"
  BY TrapNames DEF ReadMem
<1>6. e.ins = ins /\ e.before = s /\ e.trap = o.trap
  OBVIOUS
<1> HIDE DEF x, o
<1>7. CASE x.trap # "none"
  <2>1. o.trap = x.trap
    BY <1>1, <1>7 DEF Raised
  <2> QED
    BY <1>5, <1>6, <1>7, <2>1, NothingSaid DEF o
<1> DEFINE t == x.s
<1>8. \A n : Reg(t, n) = Reg(s, n)
  BY <1>4 DEF Reg
<1>9. t.r.LoadReg = "r0" /\ Typed(t)
  BY <1>4
<1> HIDE DEF t
<1> DEFINE a     == Reg(s, ins.rs)
           b     == Reg(s, ins.rt)
           to    == IF ins.op = "ADDI" THEN ins.rt ELSE ins.rd
           exact == CASE ins.op = "ADD" -> a + b [] ins.op = "ADDI" -> a + ins.extra
                      [] OTHER -> a - b
<1>10. CASE x.trap = "none" /\ ins.op \in CheckedOps
  <2>1. o = CheckedArithmetic(t, ins)
    BY <1>1, <1>10, Dispatch DEF t
  <2>2. /\ o.trap = "none" <=> exact \in Word
        /\ o.trap = "none" => o.s.r.LoadReg = "r0" /\ (to # "r0" => Reg(o.s, to) = exact)
    <3>1. LET q  == CheckedArithmetic(t, ins)
              c  == Reg(t, ins.rs)
              d  == Reg(t, ins.rt)
              ex == CASE ins.op = "ADD" -> c + d [] ins.op = "ADDI" -> c + ins.extra
                      [] OTHER -> c - d
          IN /\ q.trap = "none" <=> ex \in Word
             /\ q.trap = "none" => q.s.r.LoadReg = "r0" /\ (to # "r0" => Reg(q.s, to) = ex)
      BY <1>9, <1>10, CheckedRight, Zenon
    <3>2. Reg(t, ins.rs) = a /\ Reg(t, ins.rt) = b
      BY <1>8
    <3> QED
      BY <2>1, <3>1, <3>2, Zenon
  <2>3. /\ ins.op # "MULT" /\ ins.op # "MULTU" /\ ins.op # "DIV" /\ ins.op # "DIVU"
        /\ ins.op \notin {"AND", "OR", "XOR", "NOR"}
    BY <1>10 DEF CheckedOps
  <2> HIDE DEF exact, to, a, b
  <2>4. ArithmeticRight(e, o.s)
    BY <1>6, <2>2, <2>3, Zenon DEF ArithmeticRight, exact, to, a, b
  <2> QED
    BY <2>2, <2>4 DEF o
<1>11. CASE x.trap = "none" /\ ins.op \in HiLoOps
  <2>1. o = HiLo(t, ins)
    BY <1>1, <1>11, Dispatch DEF t
  <2>2. ins.op \notin CheckedOps /\ ins.op \notin {"AND", "OR", "XOR", "NOR"}
    BY <1>11 DEF CheckedOps, HiLoOps
  <2>3. CASE o.trap # "none"
    BY <1>6, <2>2, <2>3, NothingSaid DEF o
  <2>4. CASE o.trap = "none"
    <3>1. Reg(t, ins.rs) = a /\ Reg(t, ins.rt) = b
      BY <1>8
    <3>2. LET u  == HiLo(t, ins).s
              c  == Reg(t, ins.rs)
              d  == Reg(t, ins.rt)
          IN /\ u.r.LoadReg = "r0"
             /\ ins.op = "MULT"  => u.r.Hi * Full + U(u.r.Lo) = c * d
             /\ ins.op = "MULTU" => U(u.r.Hi) * Full + U(u.r.Lo) = U(c) * U(d)
             /\ ins.op = "DIV" /\ d # 0 =>
                  u.r.Lo * d + u.r.Hi = c /\ u.r.Hi * u.r.Hi < d * d /\ u.r.Hi * c >= 0
             /\ ins.op = "DIVU" /\ d # 0 => U(u.r.Lo) * U(d) + U(u.r.Hi) = U(c) /\ U(u.r.Hi) < U(d)
      BY <1>9, <1>11, <2>1, <2>4, HiLoRight, Zenon
    <3> HIDE DEF a, b
    <3>3. LET u  == o.s
          IN /\ u.r.LoadReg = "r0"
             /\ ins.op = "MULT"  => u.r.Hi * Full + U(u.r.Lo) = a * b
             /\ ins.op = "MULTU" => U(u.r.Hi) * Full + U(u.r.Lo) = U(a) * U(b)
             /\ ins.op = "DIV" /\ b # 0 =>
                  u.r.Lo * b + u.r.Hi = a /\ u.r.Hi * u.r.Hi < b * b /\ u.r.Hi * a >= 0
             /\ ins.op = "DIVU" /\ b # 0 => U(u.r.Lo) * U(b) + U(u.r.Hi) = U(a) /\ U(u.r.Hi) < U(b)
      BY <2>1, <3>1, <3>2, Zenon
    <3>4. ArithmeticRight(e, o.s)
      BY <1>6, <2>2, <3>3, Zenon DEF ArithmeticRight, a, b
    <3> QED
      BY <3>3, <3>4 DEF o
  <2> QED
    BY <2>3, <2>4
<1>12. CASE x.trap = "none" /\ ins.op \in RegisterOps
  <2>1. o = Compute(t, ins)
    BY <1>1, <1>12, Dispatch DEF t
  <2>2. /\ ins.op \notin CheckedOps
        /\ ins.op # "MULT" /\ ins.op # "MULTU" /\ ins.op # "DIV" /\ ins.op # "DIVU"
    BY <1>12 DEF CheckedOps, RegisterOps
  <2>3. Reg(t, ins.rs) = a /\ Reg(t, ins.rt) = b
    BY <1>8
  <2> DEFINE said(u, c, d) ==
        ins.op \in {"AND", "OR", "XOR", "NOR"} /\ ins.rd # "r0" =>
          \A i \in 0 .. Width - 1 :
            LET p == Bit(c, i) = 1
                q == Bit(d, i) = 1
            IN Bit(Reg(u, ins.rd), i) = Flag(CASE ins.op = "AND" -> p /\ q
                                               [] ins.op = "OR"  -> p \/ q
                                               [] ins.op = "XOR" -> p # q
                                               [] ins.op = "NOR" -> ~(p \/ q))
  <2>4. o.s.r.LoadReg = "r0" /\ said(o.s, Reg(t, ins.rs), Reg(t, ins.rt))
    BY <1>9, <1>12, <2>1, ComputeRight, Zenon
  <2>5. said(o.s, a, b)
    <3> HIDE DEF said
    <3> QED
      BY <2>3, <2>4
  <2> HIDE DEF a, b
  <2>6. ArithmeticRight(e, o.s)
    BY <1>6, <2>2, <2>5, Zenon DEF ArithmeticRight, a, b
  <2> QED
    BY <2>4, <2>6 DEF o
<1>13. CASE ins.op \notin ArithmeticOps
  <2>1. ins.op \notin CheckedOps
    BY <1>13 DEF ArithmeticOps
  <2> QED
    BY <1>6, <1>13, <2>1, NothingSaid DEF o
<1> QED
  BY <1>7, <1>10, <1>11, <1>12, <1>13 DEF ArithmeticOps

-----------------------------------------------------------------------------
(* The invariant of arithmetic *)

\* Until the next instruction an arithmetic one leaves nothing pending, so
\* that an interrupt changes none of the registers it gave a value.
ArithmeticInv ==
  /\ ProcessorInv
  /\ Typed(cpu) /\ mode \in Stops \cup {"user"}
  /\ trace # <<>> /\ Latest.before.r.LoadReg = "r0" =>
       /\ Decoded(Latest.ins)
       /\ ArithmeticRight(Latest, cpu)
       /\ Latest.trap = "none" /\ Latest.ins.op \in ArithmeticOps => cpu.r.LoadReg = "r0"

LEMMA ArithmeticInvInit == ProcessorInit => ArithmeticInv
<1> SUFFICES ASSUME ProcessorInit PROVE ArithmeticInv
  OBVIOUS
<1>1. ProcessorInv
  BY ProcessorInvInit
<1>2. Typed(cpu)
  BY <1>1, ProcessorAssumption DEF ProcessorInit, ProcessorInv, Typed
<1> QED
  BY <1>1, <1>2 DEF ProcessorInit, ArithmeticInv

LEMMA RunArithmetic ==
  ASSUME ArithmeticInv, NEW ins, Fitting(ins), RunInstruction(ins), ProcessorInv'
  PROVE  ArithmeticInv'
<1> DEFINE o == OneInstruction(cpu, ins)
           e == [ins |-> ins, before |-> cpu, trap |-> o.trap]
<1>1. /\ cpu' = o.s /\ o.trap # "Syscall"
      /\ mode' = IF o.trap = "none" THEN "user" ELSE o.trap
      /\ Recorded(ins, o.trap)
  BY DEF RunInstruction
<1>2. Latest' = e
  BY <1>1, RecordedLast DEF ArithmeticInv
<1>3. Typed(o.s)
  BY InstructionTyped DEF ArithmeticInv
<1>4. cpu.r.LoadReg = "r0" =>
        /\ ArithmeticRight(e, o.s)
        /\ o.trap = "none" /\ ins.op \in ArithmeticOps => o.s.r.LoadReg = "r0"
  BY InstructionRight DEF ArithmeticInv
<1>5. o.trap \in Traps \cup {"none", "HostFault"}
  <2>1. Formed(cpu) /\ Decoded(ins)
    BY DEF ArithmeticInv, Typed, Fitting
  <2>2. Outcome(cpu, o)
    BY <2>1, InstructionOutcome
  <2> HIDE DEF o
  <2> QED
    BY <2>1, <2>2, OutcomePrecise
<1> HIDE DEF o
<1>6. mode' \in Stops \cup {"user"}
  BY <1>1, <1>5 DEF Traps, Stops
<1>7. Typed(cpu)'
  BY <1>1, <1>3
<1>8. e.ins = ins /\ e.before = cpu /\ e.trap = o.trap /\ Decoded(ins)
  BY DEF Fitting
<1> HIDE DEF e
<1>9. Latest'.before.r.LoadReg = "r0" =>
       /\ Decoded(Latest'.ins)
       /\ ArithmeticRight(Latest', cpu')
       /\ Latest'.trap = "none" /\ Latest'.ins.op \in ArithmeticOps => cpu'.r.LoadReg = "r0"
  BY <1>1, <1>2, <1>4, <1>8
<1> QED
  BY <1>6, <1>7, <1>9 DEF ArithmeticInv

LEMMA SyscallArithmetic ==
  ASSUME ArithmeticInv, NEW ins, Fitting(ins), Syscall(ins), ProcessorInv'
  PROVE  ArithmeticInv'
<1> DEFINE o == OneInstruction(cpu, ins)
           e == [ins |-> ins, before |-> cpu, trap |-> o.trap]
<1>1. /\ mode = "user" /\ o.trap = "Syscall" /\ Recorded(ins, o.trap)
      /\ \/ \E answer \in Answers : cpu' = Handled(o.s, answer) /\ mode' = mode
         \/ cpu' = o.s /\ mode' = "BadCall"
  BY DEF Syscall, MayGoOn
<1>2. Latest' = e
  BY <1>1, RecordedLast DEF ArithmeticInv
<1>3. Typed(o.s)
  BY InstructionTyped DEF ArithmeticInv
<1>4. e.ins = ins /\ e.trap = "Syscall" /\ Decoded(ins)
  BY <1>1 DEF Fitting
<1> HIDE DEF o, e
<1>5. Typed(cpu') /\ mode' \in Stops \cup {"user"}
  BY <1>1, <1>3, HandledTyped DEF Stops
<1>6. ArithmeticRight(e, cpu')
  BY <1>4, NothingSaid
<1> QED
  BY <1>2, <1>4, <1>5, <1>6 DEF ArithmeticInv

LEMMA InterruptArithmetic ==
  ASSUME ArithmeticInv, Interrupt, ProcessorInv'
  PROVE  ArithmeticInv'
<1>1. cpu' = DelayedLoad(cpu, "r0", 0) /\ mode' = mode /\ trace' = trace
  BY DEF Interrupt
<1>2. Typed(cpu) /\ Formed(cpu)
  BY DEF ArithmeticInv, Typed
<1>3. /\ cpu'.r.Hi = cpu.r.Hi /\ cpu'.r.Lo = cpu.r.Lo /\ cpu'.r.LoadReg = "r0"
      /\ \A n \in GPR : cpu'.r.gen[n] = Holds(cpu, n)
  BY <1>1, <1>2, ZeroWord, DelayedLeaves
<1>4. Typed(cpu')
  BY <1>1, <1>2, ZeroWord, DelayedTyped
<1>5. Latest' = Latest
  BY <1>1 DEF Latest
<1>6. ASSUME trace # <<>>, Latest.before.r.LoadReg = "r0" PROVE ArithmeticRight(Latest, cpu')
  <2>1. /\ Decoded(Latest.ins) /\ ArithmeticRight(Latest, cpu)
        /\ Latest.trap = "none" /\ Latest.ins.op \in ArithmeticOps => cpu.r.LoadReg = "r0"
    BY <1>6 DEF ArithmeticInv
  <2>2. cpu.r.LoadReg = "r0" => \A n \in GPR : n # "r0" => Reg(cpu', n) = Reg(cpu, n)
    BY <1>3 DEF Holds, Reg
  <2> QED
    BY <1>3, <2>1, <2>2, SaidOf
<1> QED
  BY <1>1, <1>3, <1>4, <1>5, <1>6 DEF ArithmeticInv

LEMMA ArithmeticInvNext == ArithmeticInv /\ [ProcessorNext]_processorVars => ArithmeticInv'
<1> SUFFICES ASSUME ArithmeticInv, [ProcessorNext]_processorVars PROVE ArithmeticInv'
  OBVIOUS
<1>1. ProcessorInv'
  BY ProcessorInvNext DEF ArithmeticInv
<1>2. ASSUME NEW ins \in Programs[repertoire] PROVE Fitting(ins)
  BY ProcessorAssumption DEF ArithmeticInv, ProcessorInv, Fitting, Decoded
<1>3. CASE Interrupt
  BY <1>1, <1>3, InterruptArithmetic
<1>4. CASE \E ins \in Programs[repertoire] : RunInstruction(ins)
  BY <1>1, <1>2, <1>4, RunArithmetic
<1>5. CASE \E ins \in Programs[repertoire] : Syscall(ins)
  BY <1>1, <1>2, <1>5, SyscallArithmetic
<1>6. CASE UNCHANGED processorVars
  BY <1>1, <1>6 DEF ArithmeticInv, processorVars, Latest
<1> QED
  BY <1>3, <1>4, <1>5, <1>6 DEF ProcessorNext

\* What the arithmetic instructions compute is what arithmetic says, for every
\* operand and every width of a word: they trap just when the sum or the
\* difference does not fit (mipssim.cc:158, mipssim.cc:550), the loop of Mult
\* and the complement after it give the product over both words
\* (mipssim.cc:773), quotient and remainder are those of C, and no register or
\* byte ever holds more than it has bits for.
THEOREM ArithmeticCorrectProved == ProcessorSpec => []ArithmeticCorrect
<1>1. ArithmeticInv => ArithmeticCorrect
  <2> SUFFICES ASSUME ArithmeticInv PROVE ArithmeticCorrect
    OBVIOUS
  <2>1. cpu.m \in [0 .. NumPhysPages * PageSize - 1 -> Byte] /\ cpu.r \in Registers
    BY DEF ArithmeticInv, Typed
  <2>2. \A a \in DOMAIN cpu.m : cpu.m[a] \in Byte
    BY <2>1
  <2>3. ProcessorTypeOK
    BY <2>1, <2>2 DEF ArithmeticInv, ProcessorTypeOK
  <2> QED
    BY <2>3 DEF ArithmeticInv, ArithmeticCorrect
<1> QED
  BY <1>1, ArithmeticInvInit, ArithmeticInvNext, PTL DEF ProcessorSpec
-----------------------------------------------------------------------------
(* The bytes of a word *)

\* Byte i of a number.
Digit(x, i) == (x \div Pow2[ByteBits * i]) % Pow2[ByteBits]

LEMMA Nested ==
  ASSUME NEW a \in Int, NEW p \in Nat \ {0}, NEW q \in Nat \ {0}
  PROVE  (a \div p) \div q = a \div (p * q)
<1> DEFINE d == a \div p
           r == a % p
           h == d \div q
           s == d % q
           b == p * q
<1>1. d \in Int /\ r \in 0 .. p - 1 /\ a = p * d + r
  BY Divides
<1> HIDE DEF d, r
<1>2. h \in Int /\ s \in 0 .. q - 1 /\ d = q * h + s
  BY <1>1, Divides
<1> HIDE DEF h, s
<1>3. q * h \in Int /\ s \in Int /\ 0 <= s /\ s + 1 <= q
  BY <1>2
<1>4. p * d = p * (q * h) + p * s
  <2> DEFINE x == q * h
  <2> HIDE DEF x
  <2>1. x \in Int /\ d = x + s
    BY <1>2, <1>3 DEF x
  <2> QED
    BY <1>3, <2>1, Order DEF x
<1>5. p * (q * h) = b * h
  BY <1>2
<1>6. b \in Nat \ {0} /\ p * s \in Nat /\ p * s + p <= b
  <2>1. p * (s + 1) <= p * q
    BY <1>3, Order
  <2>2. p * (s + 1) = p * s + p
    BY <1>3, Product
  <2>3. p * s >= 0 /\ p * s \in Int
    BY <1>3, Product
  <2>4. p * q >= p /\ p * q \in Int
    BY Product
  <2> DEFINE x == p * s
  <2> HIDE DEF x, b
  <2> QED
    BY <2>1, <2>2, <2>3, <2>4 DEF x, b
<1> DEFINE x == p * s
           t == x + r
           y == b * h
<1>7. y \in Int
  BY <1>2, <1>6
<1> HIDE DEF b, x, y
<1>8. t \in 0 .. b - 1 /\ a = y + t
  BY <1>1, <1>4, <1>5, <1>6, <1>7 DEF x, y
<1> HIDE DEF t
<1>9. (b * h + t) \div b = h
  BY <1>2, <1>6, <1>8, QuotientIs
<1> QED
  BY <1>8, <1>9, Zenon DEF y, h, d, b

LEMMA Places ==
  ASSUME NEW i \in Nat, NEW k \in Nat
  PROVE  /\ Pow2[ByteBits * i] \in Nat \ {0} /\ Pow2[ByteBits] \in Nat \ {0}
         /\ Pow2[ByteBits * (i + k)] = Pow2[ByteBits * i] * Pow2[ByteBits * k]
         /\ Pow2[ByteBits * (i + 1)] = Pow2[ByteBits * i] * Pow2[ByteBits]
         /\ Pow2[ByteBits * 0] = 1 /\ Pow2[ByteBits * 4] = Full
<1>1. ByteBits \in Nat
  BY WordFacts
<1>2. \A n \in Nat : ByteBits * n \in Nat
  BY PartsInt
<1>3. ByteBits * (i + k) = ByteBits * i + ByteBits * k /\ ByteBits * (i + 1) = ByteBits * i + ByteBits
  BY <1>1
<1>4. ByteBits * 0 = 0 /\ ByteBits * 4 = Width
  BY <1>1 DEF Width
<1>5. \A n \in Nat : Pow2[n] \in Nat \ {0}
  BY Pow2Next
<1>6. Pow2[0] = 1
  BY Pow2Steps
<1>7. Pow2[ByteBits * i + ByteBits * k] = Pow2[ByteBits * i] * Pow2[ByteBits * k]
  BY <1>2, Pow2Sum
<1>8. Pow2[ByteBits * i + ByteBits] = Pow2[ByteBits * i] * Pow2[ByteBits]
  BY <1>1, <1>2, Pow2Sum
<1> QED
  BY <1>1, <1>2, <1>3, <1>4, <1>5, <1>6, <1>7, <1>8, Zenon DEF Full

\* Shifted to the right.
LEMMA DigitDown ==
  ASSUME NEW x \in Int, NEW k \in Nat, NEW i \in Nat
  PROVE  Digit(x \div Pow2[ByteBits * k], i) = Digit(x, k + i)
<1> DEFINE P == Pow2[ByteBits * k]
           Q == Pow2[ByteBits * i]
<1>0. P \in Nat \ {0} /\ Q \in Nat \ {0}
  BY Places, Zenon
<1> HIDE DEF P, Q
<1>a. (x \div P) \div Q = x \div (P * Q)
  BY <1>0, Nested, Zenon
<1>1. (x \div Pow2[ByteBits * k]) \div Pow2[ByteBits * i] = x \div (Pow2[ByteBits * k] * Pow2[ByteBits * i])
  BY <1>a DEF P, Q
<1>2. Pow2[ByteBits * (k + i)] = Pow2[ByteBits * k] * Pow2[ByteBits * i]
  BY Places
<1> QED
  BY <1>1, <1>2, Zenon DEF Digit

\* A number with k bytes from lo, and the others from hi.
LEMMA DigitJoined ==
  ASSUME NEW k \in Nat, NEW lo \in 0 .. Pow2[ByteBits * k] - 1, NEW hi \in Int, NEW i \in Nat
  PROVE  Digit(Pow2[ByteBits * k] * hi + lo, i) = IF i < k THEN Digit(lo, i) ELSE Digit(hi, i - k)
<1> DEFINE P == Pow2[ByteBits * k]
           x == P * hi + lo
<1>1. P \in Nat \ {0}
  BY Places
<1>2. CASE i >= k
  <2>1. i - k \in Nat /\ k + (i - k) = i
    BY <1>2
  <2>2. x \div P = hi
    <3> HIDE DEF P
    <3>1. lo \in 0 .. P - 1
      BY DEF P
    <3> QED
      BY <1>1, <3>1, QuotientIs
  <2>3. x \in Int
    <3>1. P * hi \in Int /\ lo \in Int
      BY <1>1
    <3> HIDE DEF P
    <3> QED
      BY <3>1
  <2> HIDE DEF x
  <2>4. Digit(x \div P, i - k) = Digit(x, k + (i - k))
    BY <2>1, <2>3, DigitDown
  <2> QED
    BY <1>2, <2>1, <2>2, <2>4, ~(i < k) DEF x, P
<1>3. CASE i < k
  <2> DEFINE R == Pow2[ByteBits * i]
             B == Pow2[ByteBits]
             j == k - i - 1
             S == Pow2[ByteBits * j]
             q == lo \div R
             r == lo % R
  <2>1. j \in Nat /\ (i + 1) + j = k /\ i + 1 \in Nat
    BY <1>3
  <2>2. R \in Nat \ {0} /\ B \in Nat \ {0} /\ S \in Nat \ {0}
    BY <2>1, Places
  <2>3. P = (R * B) * S
    <3>1. Pow2[ByteBits * ((i + 1) + j)] = Pow2[ByteBits * (i + 1)] * S
      BY <2>1, Places
    <3>2. Pow2[ByteBits * (i + 1)] = R * B
      BY Places
    <3> QED
      BY <2>1, <3>1, <3>2, Zenon
  <2>4. lo \in Int
    BY <1>1
  <2> HIDE DEF P, R, B, S, j
  <2>5. q \in Int /\ r \in 0 .. R - 1 /\ lo = R * q + r
    BY <2>2, <2>4, Divides
  <2> HIDE DEF q, r
  <2> DEFINE z == S * hi
             y == B * z
  <2>6. z \in Int
    BY <2>2
  <2>7. P * hi = R * y
    <3>1. P * hi = ((R * B) * S) * hi
      BY <2>3
    <3>2. ((R * B) * S) * hi = R * (B * (S * hi))
      BY <2>2
    <3> QED
      BY <3>1, <3>2
  <2> HIDE DEF z
  <2>8. y \in Int
    BY <2>2, <2>6
  <2> HIDE DEF y
  <2>9. R * (y + q) = R * y + R * q /\ R * y \in Int /\ R * q \in Int
    BY <2>2, <2>5, <2>8, Order, Product
  <2> DEFINE c == R * y
             d == R * q
  <2>10. x = R * (y + q) + r
    <3>1. c \in Int /\ d \in Int /\ r \in Int /\ x = c + (d + r) /\ R * (y + q) = c + d
      BY <2>5, <2>7, <2>9
    <3> HIDE DEF c, d, x
    <3> QED
      BY <3>1
  <2> HIDE DEF x
  <2>11. x \div R = y + q
    <3>1. y + q \in Int
      BY <2>5, <2>8
    <3>2. (R * (y + q) + r) \div R = y + q
      BY <2>2, <2>5, <3>1, QuotientIs
    <3> QED
      BY <2>10, <3>2, Zenon
  <2>12. (y + q) % B = q % B
    <3> DEFINE e == q \div B
               f == q % B
    <3>1. e \in Int /\ f \in 0 .. B - 1 /\ q = B * e + f
      BY <2>2, <2>5, Divides
    <3> HIDE DEF e, f
    <3>2. B * (z + e) = B * z + B * e /\ B * z \in Int /\ B * e \in Int
      BY <2>2, <2>6, <3>1, Order, Product
    <3> DEFINE g == B * z
               h == B * e
               w == B * (z + e)
    <3>3. y + q = w + f
      <4>1. g \in Int /\ h \in Int /\ f \in Int /\ y = g /\ q = h + f /\ w = g + h
        BY <3>1, <3>2 DEF y
      <4> HIDE DEF g, h, w
      <4> QED
        BY <4>1
    <3>4. z + e \in Int
      BY <2>6, <3>1
    <3> HIDE DEF w
    <3>5. (B * (z + e) + f) % B = f
      BY <2>2, <3>1, <3>4, QuotientIs
    <3> QED
      BY <3>3, <3>5, Zenon DEF w, f
  <2> QED
    BY <1>3, <2>11, <2>12, Zenon DEF Digit, x, P, R, B, q
<1> QED
  BY <1>2, <1>3

\* Multiples of the modulus do not count.
LEMMA ModuloShift ==
  ASSUME NEW F \in Nat \ {0}, NEW q \in Int, NEW z \in Int
  PROVE  (F * q + z) % F = z % F
<1> DEFINE d == z \div F
           r == z % F
<1>1. d \in Int /\ r \in 0 .. F - 1 /\ z = F * d + r
  BY Divides
<1> HIDE DEF d, r
<1>2. F * (q + d) = F * q + F * d /\ F * q \in Int /\ F * d \in Int
  BY <1>1, Order, Product
<1> DEFINE x == F * q
           y == F * d
           w == F * (q + d)
<1>3. F * q + z = w + r
  <2>1. x \in Int /\ y \in Int /\ r \in Int /\ z = y + r /\ w = x + y
    BY <1>1, <1>2
  <2> HIDE DEF x, y, w
  <2>2. x + z = w + r
    BY <2>1
  <2> QED
    BY <2>2 DEF x
<1>4. q + d \in Int
  BY <1>1
<1> HIDE DEF w
<1>5. (F * (q + d) + r) % F = r
  BY <1>1, <1>4, QuotientIs
<1> QED
  BY <1>3, <1>5, Zenon DEF w, r

LEMMA ModuloAdds ==
  ASSUME NEW F \in Nat \ {0}, NEW a \in Int, NEW b \in Int, NEW x \in Int, a % F = b % F
  PROVE  (x + a) % F = (x + b) % F
<1> DEFINE p == a \div F
           q == b \div F
           r == a % F
<1>1. p \in Int /\ q \in Int /\ r \in 0 .. F - 1 /\ a = F * p + r /\ b = F * q + r
  BY Divides
<1> HIDE DEF p, q, r
<1>2. F * p \in Int /\ F * q \in Int
  BY <1>1, Product
<1> DEFINE g == F * p
           h == F * q
           z == x + r
<1>3. x + a = g + z /\ x + b = h + z /\ z \in Int
  <2>1. g \in Int /\ h \in Int /\ r \in Int /\ a = g + r /\ b = h + r
    BY <1>1, <1>2
  <2> HIDE DEF g, h
  <2> QED
    BY <2>1
<1> HIDE DEF z
<1>4. (F * p + z) % F = z % F /\ (F * q + z) % F = z % F
  BY <1>1, <1>3, ModuloShift
<1> QED
  BY <1>3, <1>4, Zenon

\* Words wrap once, whenever they do.
LEMMA WrapInside ==
  ASSUME NEW x \in Int, NEW y \in Int
  PROVE  Wrap(x + Wrap(y)) = Wrap(x + y)
<1>1. Wrap(y) \in Word
  BY WrapIs
<1>2. Wrap(y) \in Int
  BY <1>1, UIs
<1>3. Wrap(y) % Full = y % Full
  BY WrapIs DEF U
<1>4. (x + Wrap(y)) % Full = (x + y) % Full
  BY <1>2, <1>3, Whole, ModuloAdds
<1>5. x + Wrap(y) \in Int /\ x + y \in Int
  BY <1>2
<1>6. Wrap(x + Wrap(y)) = Wrap((x + Wrap(y)) % Full) /\ Wrap(x + y) = Wrap((x + y) % Full)
  BY <1>5, WrapIs
<1> QED
  BY <1>4, <1>6, Zenon

\* The low bytes.
LEMMA DigitLow ==
  ASSUME NEW x \in Int, NEW k \in Nat, NEW i \in Nat, i < k
  PROVE  Digit(x % Pow2[ByteBits * k], i) = Digit(x, i)
<1> DEFINE P == Pow2[ByteBits * k]
           d == x \div P
           r == x % P
<1>1. P \in Nat \ {0}
  BY Places
<1>2. d \in Int /\ r \in 0 .. P - 1 /\ x = P * d + r
  <2> HIDE DEF P
  <2> QED
    BY <1>1, Divides
<1> HIDE DEF d, r
<1>3. Digit(P * d + r, i) = Digit(r, i)
  BY <1>2, DigitJoined
<1> HIDE DEF P
<1> QED
  BY <1>2, <1>3, Zenon DEF P, r

LEMMA DigitFull ==
  ASSUME NEW x \in Int, NEW i \in 0 .. 3
  PROVE  /\ Digit(U(x), i) = Digit(x, i) /\ Digit(Wrap(x), i) = Digit(x, i)
<1>1. i \in Nat /\ i < 4 /\ 4 \in Nat
  OBVIOUS
<1>2. Pow2[ByteBits * 4] = Full
  BY <1>1, Places
<1>3. ASSUME NEW z \in Int PROVE Digit(z % Full, i) = Digit(z, i)
  <2>1. Digit(z % Pow2[ByteBits * 4], i) = Digit(z, i)
    BY <1>1, DigitLow
  <2> QED
    BY <1>2, <2>1, Zenon
<1>4. Wrap(x) \in Word /\ Wrap(x) % Full = x % Full
  BY WrapIs DEF U
<1>5. Wrap(x) \in Int
  BY <1>4, UIs
<1> QED
  BY <1>3, <1>4, <1>5, Zenon DEF U

LEMMA ByteIs ==
  ASSUME NEW w \in Int, NEW i \in 0 .. 3
  PROVE  Low(Down(w, i), 1) = Digit(w, i)
<1> DEFINE P == Pow2[ByteBits * i]
           u == U(w)
           d == u \div P
<1>1. P \in Nat \ {0} /\ u \in 0 .. Full - 1 /\ Full \in Nat \ {0}
  <2>1. i \in Nat /\ 0 \in Nat
    OBVIOUS
  <2>2. P \in Nat \ {0}
    BY <2>1, Places
  <2>3. u \in 0 .. Full - 1
    BY WrapIs DEF U
  <2> QED
    BY <2>2, <2>3, Whole
<1> HIDE DEF P, u
<1>2. d \in 0 .. Full - 1
  <2> DEFINE r == u % P
  <2>1. u \in Int /\ 0 <= u /\ u <= Full - 1
    BY <1>1
  <2>2. d \in Int /\ r \in 0 .. P - 1 /\ u = P * d + r
    BY <1>1, <2>1, Divides
  <2> HIDE DEF d, r
  <2>3. P * d \in Int /\ (d >= 0 => d <= P * d) /\ (d <= -1 => P * d <= -P)
    <3>1. d >= 1 => d <= P * d
      <4> SUFFICES ASSUME d >= 1 PROVE d <= P * d
        OBVIOUS
      <4>1. d \in Nat \ {0} /\ P \in Int /\ P >= 1
        BY <1>1, <2>2
      <4>2. d * P >= d /\ d * P = P * d
        BY <4>1, Product
      <4> QED
        BY <4>2, <4>1
    <3>2. P * 0 = 0
      BY <1>1
    <3>3. P * d \in Int /\ (d <= -1 => P * d <= -P)
      BY <1>1, <2>2, Product
    <3> QED
      BY <2>2, <3>1, <3>2, <3>3
  <2> DEFINE x == P * d
  <2> HIDE DEF x
  <2>4. x \in Int /\ (d >= 0 => d <= x) /\ (d <= -1 => x <= -P) /\ u = x + r
    BY <2>2, <2>3 DEF x
  <2> QED
    BY <1>1, <2>1, <2>2, <2>4
<1>3. Down(w, i) = d
  BY DEF Down, d, u, P
<1> HIDE DEF d
<1>4. d % Full = d
  <2>1. Full * 0 + d = d /\ 0 \in Int
    BY <1>1, <1>2
  <2>2. (Full * 0 + d) % Full = d
    BY <1>1, <1>2, <2>1, QuotientIs
  <2> QED
    BY <2>1, <2>2, Zenon
<1>5. ByteBits * 1 = ByteBits
  BY WordFacts
<1>6. Low(Down(w, i), 1) = d % Pow2[ByteBits]
  BY <1>3, <1>4, <1>5, Zenon DEF Low, U
<1>7. Digit(u, i) = Digit(w, i)
  BY DigitFull DEF u
<1> QED
  BY <1>6, <1>7, Zenon DEF Digit, d, P

\* k bytes of old, and after them those of value from its first one on.
LEMMA MergedLow ==
  ASSUME NEW old \in Int, NEW value \in Int, NEW k \in 0 .. 3, NEW i \in 0 .. 3
  PROVE  Digit(Wrap(Low(old, k) + Up(value, k)), i) =
           IF i < k THEN Digit(old, i) ELSE Digit(value, i - k)
<1> DEFINE P == Pow2[ByteBits * k]
           lo == Low(old, k)
           y == value * P
           x == P * value + lo
<1>0. k \in Nat /\ i \in Nat
  OBVIOUS
<1>1. P \in Nat \ {0}
  BY <1>0, Places
<1>2. U(old) \in Int
  BY WrapIs DEF U
<1>3. lo \in 0 .. P - 1
  <2> DEFINE u == U(old)
  <2>1. lo = u % P /\ u \in Int
    BY <1>2 DEF Low
  <2> HIDE DEF u, P, lo
  <2> QED
    BY <1>1, <2>1, Divides
<1>4. lo \in Int /\ y \in Int /\ P * value = y /\ x \in Int /\ lo + y = x
  <2> HIDE DEF lo, P
  <2>1. y \in Int /\ P * value = y
    BY <1>1
  <2>2. lo \in Int
    BY <1>1, <1>3
  <2> HIDE DEF y
  <2> QED
    BY <2>1, <2>2
<1>5. Wrap(lo + Up(value, k)) = Wrap(x)
  <2>1. Up(value, k) = Wrap(y)
    BY DEF Up
  <2> HIDE DEF lo, y, x
  <2>2. Wrap(lo + Wrap(y)) = Wrap(lo + y)
    BY <1>4, WrapInside
  <2> QED
    BY <1>4, <2>1, <2>2, Zenon
<1>6. Digit(Wrap(x), i) = Digit(x, i)
  <2> HIDE DEF x
  <2> QED
    BY <1>4, DigitFull
<1>7. Digit(x, i) = IF i < k THEN Digit(lo, i) ELSE Digit(value, i - k)
  <2> HIDE DEF lo
  <2> QED
    BY <1>0, <1>3, DigitJoined
<1>8. i < k => Digit(lo, i) = Digit(old, i)
  <2> SUFFICES ASSUME i < k PROVE Digit(lo, i) = Digit(old, i)
    OBVIOUS
  <2>1. Digit(U(old) % P, i) = Digit(U(old), i)
    BY <1>0, <1>2, DigitLow
  <2>2. Digit(U(old), i) = Digit(old, i)
    BY DigitFull
  <2> QED
    BY <2>1, <2>2, Zenon DEF Low
<1> HIDE DEF lo, x
<1> QED
  BY <1>5, <1>6, <1>7, <1>8 DEF lo

\* The last k bytes of value, and after them those of old.
LEMMA MergedHigh ==
  ASSUME NEW old \in Int, NEW value \in Int, NEW k \in 1 .. 4, NEW i \in 0 .. 3
  PROVE  Digit(Wrap(High(old, k) + Down(value, 4 - k)), i) =
           IF i < k THEN Digit(value, (4 - k) + i) ELSE Digit(old, i)
<1> DEFINE P == Pow2[ByteBits * k]
           Q == Pow2[ByteBits * (4 - k)]
           lo == Down(value, 4 - k)
           u == U(old)
           v == U(value)
           hi == u \div P
           x == P * hi + lo
<1>0. k \in Nat /\ i \in Nat /\ 4 - k \in Nat /\ 4 - k + k = 4
  OBVIOUS
<1>1. P \in Nat \ {0} /\ Q \in Nat \ {0}
  BY <1>0, Places
<1>2. Full = Q * P
  <2>1. Pow2[ByteBits * ((4 - k) + k)] = Q * P
    BY <1>0, Places
  <2>2. Pow2[ByteBits * 4] = Full
    BY <1>0, Places
  <2> QED
    BY <1>0, <2>1, <2>2
<1>3. u \in Int /\ v \in 0 .. Full - 1
  BY WrapIs DEF U
<1>4. hi \in Int /\ u = P * hi + (u % P)
  <2> HIDE DEF u, P
  <2> QED
    BY <1>1, <1>3, Divides
<1>5. lo \in 0 .. P - 1
  <2>1. lo = v \div Q
    BY DEF Down
  <2> HIDE DEF lo, v, Q, P
  <2> DEFINE r == v % Q
  <2>2. v \in Int /\ v >= 0 /\ v + 1 <= Q * P
    BY <1>2, <1>3, Whole
  <2>3. lo \in Int /\ r \in 0 .. Q - 1 /\ v = Q * lo + r
    BY <1>1, <2>1, <2>2, Divides
  <2> HIDE DEF r
  <2>4. Q * lo \in Int /\ Q * P \in Int /\ (lo <= -1 => Q * lo <= -Q) /\ (P <= lo <=> Q * P <= Q * lo)
    <3>1. P \in Int
      BY <1>1
    <3> QED
      BY <1>1, <2>3, <3>1, Product, Order
  <2> DEFINE a == Q * lo
             b == Q * P
  <2> HIDE DEF a, b
  <2>5. a \in Int /\ b \in Int /\ (lo <= -1 => a <= -Q) /\ (P <= lo <=> b <= a) /\ v = a + r /\ v + 1 <= b
    BY <2>2, <2>3, <2>4 DEF a, b
  <2> QED
    BY <1>1, <2>2, <2>3, <2>5
<1>6. High(old, k) = P * hi
  <2> DEFINE r == u % P
             a == P * hi
  <2>1. a \in Int /\ u = a + r
    <3> HIDE DEF P, hi
    <3> QED
      BY <1>1, <1>4
  <2>2. r \in Int
    <3> HIDE DEF P, u
    <3> QED
      BY <1>1, <1>3, Divides
  <2>3. High(old, k) = u - r
    BY Zenon DEF High, Low
  <2> HIDE DEF u, r, a
  <2>4. u - r = a
    BY <2>1, <2>2
  <2> QED
    BY <2>3, <2>4 DEF a
<1>7. x \in Int
  <2>1. P * hi \in Int
    BY <1>1, <1>4, Product
  <2>2. lo \in Int
    BY <1>1, <1>5
  <2> DEFINE a == P * hi
  <2> HIDE DEF a, lo
  <2> QED
    BY <2>1, <2>2 DEF a
<1>8. Digit(Wrap(x), i) = Digit(x, i)
  <2> HIDE DEF x
  <2> QED
    BY <1>7, DigitFull
<1>9. Digit(x, i) = IF i < k THEN Digit(lo, i) ELSE Digit(hi, i - k)
  <2> HIDE DEF lo, hi
  <2> QED
    BY <1>0, <1>4, <1>5, DigitJoined
<1>10. ASSUME i < k PROVE Digit(lo, i) = Digit(value, (4 - k) + i)
  <2>1. lo = v \div Q /\ v \in Int
    BY <1>3, Whole DEF Down
  <2>2. Digit(v \div Q, i) = Digit(v, (4 - k) + i)
    <3> HIDE DEF v
    <3> QED
      BY <1>0, <2>1, DigitDown
  <2>3. (4 - k) + i \in 0 .. 3
    BY <1>0, <1>10
  <2>4. Digit(v, (4 - k) + i) = Digit(value, (4 - k) + i)
    BY <2>3, DigitFull
  <2> QED
    BY <2>1, <2>2, <2>4, Zenon
<1>11. ASSUME ~(i < k) PROVE Digit(hi, i - k) = Digit(old, i)
  <2>1. i - k \in Nat /\ k + (i - k) = i
    BY <1>0, <1>11
  <2>2. Digit(u \div P, i - k) = Digit(u, k + (i - k))
    <3> HIDE DEF u
    <3> QED
      BY <1>0, <1>3, <2>1, DigitDown
  <2>3. Digit(u, i) = Digit(old, i)
    BY DigitFull
  <2> QED
    BY <2>1, <2>2, <2>3, Zenon
<1>12. Digit(Wrap(High(old, k) + lo), i) = Digit(Wrap(x), i)
  BY <1>6, Zenon
<1> HIDE DEF lo, hi, x
<1> QED
  BY <1>8, <1>9, <1>10, <1>11, <1>12 DEF lo

\* The bytes of a word in memory.
LEMMA BytesDigits ==
  ASSUME NEW m, NEW phys \in Nat, NEW size \in Nat,
         \A a \in phys .. phys + size - 1 : m[a] \in Byte,
         NEW i \in 0 .. size - 1
  PROVE  Digit(BytesAt(m, phys, size), i) = m[phys + i]
<1>1. PICK g : ByteSums(g, m, phys, size) /\ BytesAt(m, phys, size) = g[size]
  BY BytesAtSums
<1> DEFINE T == {n \in Nat : n <= size =>
                    /\ g[n] \in 0 .. Pow2[ByteBits * n] - 1
                    /\ \A j \in 0 .. n - 1 : Digit(g[n], j) = m[phys + j]}
<1>2. 0 \in T
  <2>1. ByteBits * 0 = 0
    BY WordFacts
  <2>2. g[0] = 0 /\ Pow2[ByteBits * 0] = 1
    BY <1>1, <2>1, Pow2Steps DEF ByteSums
  <2> QED
    BY <2>2
<1>3. ASSUME NEW n \in Nat \ {0}, n - 1 \in T PROVE n \in T
  <2> SUFFICES ASSUME n <= size
               PROVE  /\ g[n] \in 0 .. Pow2[ByteBits * n] - 1
                      /\ \A j \in 0 .. n - 1 : Digit(g[n], j) = m[phys + j]
    OBVIOUS
  <2> DEFINE k == n - 1
             P == Pow2[ByteBits * k]
             b == m[phys + k]
  <2>1. k \in Nat /\ k + 1 = n /\ k <= size /\ n \in 1 .. size
        /\ phys + k \in phys .. phys + size - 1 /\ phys + n - 1 = phys + k
    OBVIOUS
  <2>2. g[k] \in 0 .. P - 1 /\ \A j \in 0 .. k - 1 : Digit(g[k], j) = m[phys + j]
    BY <1>3, <2>1
  <2>3. g[n] = g[k] + b * P /\ b \in Byte
    BY <1>1, <2>1 DEF ByteSums
  <2> HIDE DEF k, b
  <2>4. g[n] \in 0 .. Pow2[ByteBits * (k + 1)] - 1
    BY <2>1, <2>2, <2>3, ByteAdded
  <2>5. b \in Int
    BY <2>3, ByteInt
  <2>6. g[n] = P * b + g[k]
    <3> DEFINE c == b * P
    <3>1. P \in Nat \ {0}
      BY <2>1, Places
    <3> HIDE DEF P
    <3>2. c \in Int /\ P * b = c /\ g[k] \in Int
      BY <2>2, <2>5, <3>1
    <3> HIDE DEF c
    <3>3. g[n] = g[k] + c
      BY <2>3 DEF c
    <3> QED
      BY <3>2, <3>3
  <2>7. ASSUME NEW j \in 0 .. n - 1 PROVE Digit(g[n], j) = m[phys + j]
    <3>0. j \in Nat
      OBVIOUS
    <3>1. Digit(P * b + g[k], j) = IF j < k THEN Digit(g[k], j) ELSE Digit(b, j - k)
      BY <2>1, <2>2, <2>5, <3>0, DigitJoined
    <3>2. CASE j < k
      <4>1. j \in 0 .. k - 1
        BY <2>1, <3>2
      <4> QED
        BY <2>2, <2>6, <3>1, <3>2, <4>1
    <3>3. CASE ~(j < k)
      <4>1. j = k /\ j - k = 0
        BY <2>1, <3>3
      <4>2. Digit(b, 0) = b
        <5>1. Pow2[ByteBits * 0] = 1 /\ Pow2[ByteBits] \in Nat \ {0}
          BY <2>1, Places
        <5> DEFINE B == Pow2[ByteBits]
        <5>2. b \in 0 .. B - 1
          BY <2>3 DEF Byte
        <5> HIDE DEF B
        <5>3. b \div 1 = b /\ b % B = b
          BY <2>5, <5>1, <5>2 DEF B
        <5> QED
          BY <5>1, <5>3 DEF Digit, B
      <4> QED
        BY <2>6, <3>1, <3>3, <4>1, <4>2 DEF b
    <3> QED
      BY <3>2, <3>3
  <2> QED
    BY <2>1, <2>4, <2>7
<1>4. Nat \subseteq T
  <2> HIDE DEF T
  <2> QED
    BY <1>2, <1>3, AllAlong
<1> QED
  BY <1>1, <1>4

LEMMA WrittenDigit ==
  ASSUME NEW value \in Int, NEW j \in 0 .. 3
  PROVE  (Low(value, 4) \div Pow2[ByteBits * j]) % Pow2[ByteBits] = Digit(value, j)
<1>1. U(value) \in Int /\ j \in Nat /\ 4 \in Nat /\ j < 4
  BY WrapIs DEF U
<1>2. Digit(U(value) % Pow2[ByteBits * 4], j) = Digit(U(value), j)
  BY <1>1, DigitLow
<1>3. Digit(U(value), j) = Digit(value, j)
  BY DigitFull
<1> QED
  BY <1>2, <1>3, Zenon DEF Digit, Low

-----------------------------------------------------------------------------
(* Where the bytes of a word are *)

\* A byte of an aligned word.
LEMMA WordOffset ==
  ASSUME NEW w \in Int, w % 4 = 0, NEW j \in 0 .. 3
  PROVE  (w + j) % Full = U(w) + j
<1> DEFINE Q == Pow2[Width - 2]
           k == w \div 4
<1>1. Q \in Nat \ {0} /\ Full = 4 * Q
  BY Quarter
<1>2. k \in Int /\ w = 4 * k
  OBVIOUS
<1> HIDE DEF Q, k
<1> DEFINE d == k \div Q
           e == k % Q
<1>3. d \in Int /\ e \in 0 .. Q - 1 /\ k = Q * d + e
  BY <1>1, <1>2, Divides
<1> HIDE DEF d, e
<1> DEFINE x == Q * d
           r == 4 * e
<1>4. x \in Int /\ Full * d = 4 * x
  BY <1>1, <1>3
<1> HIDE DEF x
<1>5. w = Full * d + r /\ w + j = Full * d + (r + j)
  BY <1>2, <1>3, <1>4 DEF x
<1>6. r \in 0 .. Full - 1 /\ r + j \in 0 .. Full - 1
  BY <1>1, <1>3
<1> HIDE DEF r
<1>7. (Full * d + r) % Full = r
  BY <1>3, <1>6, Whole, QuotientIs
<1>8. (Full * d + (r + j)) % Full = r + j
  BY <1>3, <1>6, Whole, QuotientIs
<1> QED
  BY <1>5, <1>7, <1>8, Zenon DEF U

\* Where Translate finds a byte.
LEMMA ByteFound ==
  ASSUME NEW p, NEW a \in Int, NEW writing \in BOOLEAN
  PROVE  LET v == U(a) \div PageSize
             t == Translate(p, a, 1, writing)
         IN /\ t.trap = "none" <=> /\ v \in DOMAIN p /\ p[v].valid /\ ~(p[v].readOnly /\ writing)
                                   /\ ~(p[v].frame >= NumPhysPages)
            /\ t.phys = IF t.trap = "none" THEN p[v].frame * PageSize + (U(a) % PageSize) ELSE 0
<1> DEFINE v == U(a) \div PageSize
           t == Translate(p, a, 1, writing)
           off == U(a) % PageSize
<1>1. a % 1 = 0
  OBVIOUS
<1>2. /\ v \notin DOMAIN p => t.trap = "AddressError" /\ t.phys = 0
      /\ v \in DOMAIN p /\ ~p[v].valid => t.trap = "PageFault" /\ t.phys = 0
      /\ v \in DOMAIN p /\ p[v].valid /\ p[v].readOnly /\ writing => t.trap = "ReadOnly" /\ t.phys = 0
      /\ v \in DOMAIN p /\ p[v].valid /\ ~(p[v].readOnly /\ writing) /\ p[v].frame >= NumPhysPages =>
           t.trap = "BusError" /\ t.phys = 0
      /\ v \in DOMAIN p /\ p[v].valid /\ ~(p[v].readOnly /\ writing) /\ ~(p[v].frame >= NumPhysPages) =>
           t.trap = "none" /\ t.phys = p[v].frame * PageSize + off
  BY <1>1 DEF Translate
<1> HIDE DEF t, v, off
<1>3. QED
  BY <1>2 DEF t, v, off

\* A table with the same map finds the same.
LEMMA FoundAlike ==
  ASSUME NEW p, NEW q, SameMap(p, q), NEW a \in Int, NEW writing \in BOOLEAN
  PROVE  /\ Translate(p, a, 1, writing).trap = "none" <=> Translate(q, a, 1, writing).trap = "none"
         /\ Translate(p, a, 1, writing).phys = Translate(q, a, 1, writing).phys
<1> DEFINE v == U(a) \div PageSize
           t == Translate(p, a, 1, writing)
           u == Translate(q, a, 1, writing)
           off == U(a) % PageSize
<1>1. /\ t.trap = "none" <=> /\ v \in DOMAIN p /\ p[v].valid /\ ~(p[v].readOnly /\ writing)
                             /\ ~(p[v].frame >= NumPhysPages)
      /\ t.phys = IF t.trap = "none" THEN p[v].frame * PageSize + off ELSE 0
  BY ByteFound
<1>2. /\ u.trap = "none" <=> /\ v \in DOMAIN q /\ q[v].valid /\ ~(q[v].readOnly /\ writing)
                             /\ ~(q[v].frame >= NumPhysPages)
      /\ u.phys = IF u.trap = "none" THEN q[v].frame * PageSize + off ELSE 0
  BY ByteFound
<1> HIDE DEF t, u, v, off
<1>3. DOMAIN p = DOMAIN q
  BY DEF SameMap
<1>4. v \in DOMAIN p => p[v].valid = q[v].valid /\ p[v].frame = q[v].frame /\ p[v].readOnly = q[v].readOnly
  BY DEF SameMap
<1>5. t.trap = "none" <=> u.trap = "none"
  BY <1>1, <1>2, <1>3, <1>4
<1>6. t.phys = u.phys
  BY <1>1, <1>2, <1>3, <1>4, <1>5
<1> QED
  BY <1>5, <1>6 DEF t, u

\* Bytes that may be written are in different places.
LEMMA FoundApart ==
  ASSUME NEW p, p \in [DOMAIN p -> PageEntry], PagesApart(p), NEW a \in Int, NEW b \in Int,
         Translate(p, a, 1, TRUE).trap = "none", Translate(p, b, 1, TRUE).trap = "none",
         Translate(p, a, 1, TRUE).phys = Translate(p, b, 1, TRUE).phys
  PROVE  U(a) = U(b)
<1> DEFINE v == U(a) \div PageSize
           x == U(a) % PageSize
           w == U(b) \div PageSize
           y == U(b) % PageSize
           f == p[v].frame
           g == p[w].frame
<1>1. /\ v \in DOMAIN p /\ p[v].valid /\ ~p[v].readOnly
      /\ Translate(p, a, 1, TRUE).phys = f * PageSize + x
  BY ByteFound
<1>2. /\ w \in DOMAIN p /\ p[w].valid /\ ~p[w].readOnly
      /\ Translate(p, b, 1, TRUE).phys = g * PageSize + y
  BY ByteFound
<1>3. PageSize \in Nat \ {0}
  BY MipsSimAssumption
<1>4. U(a) \in Int /\ U(b) \in Int
  BY WrapIs DEF U
<1>5. /\ v \in Int /\ x \in 0 .. PageSize - 1 /\ U(a) = PageSize * v + x
      /\ w \in Int /\ y \in 0 .. PageSize - 1 /\ U(b) = PageSize * w + y
  <2> DEFINE m == U(a)
             n == U(b)
  <2> HIDE DEF m, n
  <2>1. m \in Int /\ n \in Int
    BY <1>4 DEF m, n
  <2>2. m \div PageSize \in Int /\ m % PageSize \in 0 .. PageSize - 1
        /\ m = PageSize * (m \div PageSize) + (m % PageSize)
    BY <1>3, <2>1, Divides
  <2>3. n \div PageSize \in Int /\ n % PageSize \in 0 .. PageSize - 1
        /\ n = PageSize * (n \div PageSize) + (n % PageSize)
    BY <1>3, <2>1, Divides
  <2> QED
    BY <2>2, <2>3, Zenon DEF m, n
<1> HIDE DEF v, w, x, y
<1>6. p[v] \in PageEntry /\ p[w] \in PageEntry
  BY <1>1, <1>2
<1>7. f \in Nat /\ g \in Nat
  BY <1>6 DEF PageEntry
<1>8. f * PageSize + x = g * PageSize + y
  BY <1>1, <1>2
<1> HIDE DEF f, g
<1>9. PageSize * f + x = PageSize * g + y
  BY <1>3, <1>7, <1>8
<1>10. f = g /\ x = y
  <2>1. (PageSize * f + x) \div PageSize = f /\ (PageSize * f + x) % PageSize = x
    BY <1>3, <1>5, <1>7, QuotientIs
  <2>2. (PageSize * g + y) \div PageSize = g /\ (PageSize * g + y) % PageSize = y
    BY <1>3, <1>5, <1>7, QuotientIs
  <2> QED
    BY <1>9, <2>1, <2>2, Zenon
<1>11. v = w
  <2>1. \A z \in {v, w} : p[z].valid /\ ~p[z].readOnly
    BY <1>1, <1>2
  <2> QED
    BY <1>1, <1>2, <1>10, <2>1, Zenon DEF PagesApart, f, g
<1> QED
  BY <1>5, <1>10, <1>11

Table(p) == p \in [DOMAIN p -> PageEntry]

\* The byte at a is j bytes after the word at w, whether it is accessed as the
\* word is (writing) or in the other way (reading).
WordAt(p, w, j, a, writing, reading) ==
  /\ Translate(p, a, 1, writing).trap = "none" /\ Translate(p, a, 1, reading).trap = "none"
  /\ Translate(p, a, 1, writing).phys = Translate(p, w, 4, writing).phys + j
  /\ Translate(p, a, 1, reading).phys = Translate(p, w, 4, writing).phys + j

\* The bytes of an aligned word are side by side.
LEMMA WordFound ==
  ASSUME NEW p, Table(p), NEW w \in Int, NEW writing \in BOOLEAN, NEW no \in BOOLEAN, ~no,
         Translate(p, w, 4, writing).trap = "none",
         NEW j \in 0 .. 3, NEW a \in Int, U(a) = U(w) + j
  PROVE  WordAt(p, w, j, a, writing, no)
<1> DEFINE v == U(w) \div PageSize
           x == U(w) % PageSize
           t == Translate(p, w, 4, writing)
           f == p[v].frame * PageSize
<1>1. /\ w % 4 = 0 /\ v \in DOMAIN p /\ p[v].valid /\ ~(p[v].readOnly /\ writing)
      /\ ~(p[v].frame >= NumPhysPages) /\ t.phys = f + x
  BY DEF Translate
<1>2. x \in Nat /\ x + 4 <= PageSize
  BY <1>1, AlignedInPage
<1>3. PageSize \in Nat \ {0}
  BY MipsSimAssumption
<1>4. U(w) \in Int
  BY WrapIs DEF U
<1>5. v \in Int /\ U(w) = PageSize * v + x
  <2> DEFINE m == U(w)
  <2> HIDE DEF m
  <2>1. m \in Int
    BY <1>4 DEF m
  <2>2. m \div PageSize \in Int /\ m = PageSize * (m \div PageSize) + (m % PageSize)
    BY <1>3, <2>1, Divides
  <2> QED
    BY <2>2, Zenon DEF m
<1>0. f \in Int
  <2>1. p[v] \in PageEntry
    BY <1>1 DEF Table
  <2>2. p[v].frame \in Nat
    BY <2>1 DEF PageEntry
  <2> QED
    BY <1>3, <2>2
<1> HIDE DEF v, x, t, f
<1>6. U(a) \div PageSize = v /\ U(a) % PageSize = x + j
  <2>1. x + j \in 0 .. PageSize - 1
    BY <1>2, <1>3
  <2>2. (PageSize * v + (x + j)) \div PageSize = v /\ (PageSize * v + (x + j)) % PageSize = x + j
    BY <1>3, <1>5, <2>1, QuotientIs
  <2>3. U(a) = PageSize * v + (x + j)
    <3> DEFINE c == PageSize * v
    <3>1. c \in Int
      BY <1>3, <1>5
    <3> HIDE DEF c
    <3>2. U(w) = c + x
      BY <1>5 DEF c
    <3>3. U(a) = c + (x + j)
      BY <1>2, <3>1, <3>2
    <3> QED
      BY <3>3 DEF c
  <2> QED
    BY <2>2, <2>3, Zenon
<1>7. ASSUME NEW also \in BOOLEAN, also => writing
      PROVE  Translate(p, a, 1, also).trap = "none" /\ Translate(p, a, 1, also).phys = t.phys + j
  <2> DEFINE u == Translate(p, a, 1, also)
  <2>1. LET z == U(a) \div PageSize
        IN /\ u.trap = "none" <=> /\ z \in DOMAIN p /\ p[z].valid /\ ~(p[z].readOnly /\ also)
                                  /\ ~(p[z].frame >= NumPhysPages)
           /\ u.phys = IF u.trap = "none" THEN p[z].frame * PageSize + (U(a) % PageSize) ELSE 0
    BY ByteFound
  <2> HIDE DEF u
  <2>2. /\ u.trap = "none" <=> /\ v \in DOMAIN p /\ p[v].valid /\ ~(p[v].readOnly /\ also)
                               /\ ~(p[v].frame >= NumPhysPages)
        /\ u.phys = IF u.trap = "none" THEN f + (x + j) ELSE 0
    BY <1>6, <2>1, Zenon DEF f
  <2>3. u.trap = "none" /\ u.phys = f + (x + j)
    BY <1>1, <1>7, <2>2
  <2>4. f + (x + j) = t.phys + j
    BY <1>0, <1>1, <1>2
  <2> QED
    BY <2>3, <2>4, Zenon DEF u
<1>8. (no => writing) /\ (writing => writing)
  OBVIOUS
<1>9. Translate(p, a, 1, no).trap = "none" /\ Translate(p, a, 1, no).phys = t.phys + j
  BY <1>7, <1>8, Zenon
<1>10. Translate(p, a, 1, writing).trap = "none" /\ Translate(p, a, 1, writing).phys = t.phys + j
  BY <1>7, <1>8, Zenon
<1> QED
  BY <1>9, <1>10, Zenon DEF WordAt, t

\* Translate for an access that reads, and for one that writes.
ReadAt(p, a, size)  == Translate(p, a, size, FALSE)
WriteAt(p, a, size) == Translate(p, a, size, TRUE)

\* z is j bytes after w.
Behind(z, w, j) == z \in Int /\ w \in Int /\ j \in 0 .. 3 /\ U(z) = U(w) + j

LEMMA WordReadAt ==
  ASSUME NEW p, Table(p), NEW w, NEW j, NEW a, Behind(a, w, j), ReadAt(p, w, 4).trap = "none"
  PROVE  ReadAt(p, a, 1).phys = ReadAt(p, w, 4).phys + j
<1> DEFINE no == FALSE
<1>1. no \in BOOLEAN /\ ~no
  OBVIOUS
<1>2. Translate(p, w, 4, no).trap = "none" /\ w \in Int /\ j \in 0 .. 3 /\ a \in Int /\ U(a) = U(w) + j
  BY DEF ReadAt, Behind
<1> HIDE DEF no
<1>3. WordAt(p, w, j, a, no, no)
  BY <1>1, <1>2, WordFound, Zenon
<1> QED
  BY <1>3 DEF WordAt, ReadAt, no

LEMMA WordWrittenAt ==
  ASSUME NEW p, Table(p), NEW w, NEW j, NEW a, Behind(a, w, j), WriteAt(p, w, 4).trap = "none"
  PROVE  /\ WriteAt(p, a, 1).trap = "none"
         /\ WriteAt(p, a, 1).phys = WriteAt(p, w, 4).phys + j
         /\ ReadAt(p, a, 1).phys = WriteAt(p, w, 4).phys + j
<1> DEFINE yes == TRUE
           no  == FALSE
<1>1. yes \in BOOLEAN /\ no \in BOOLEAN /\ ~no
  OBVIOUS
<1>2. Translate(p, w, 4, yes).trap = "none" /\ w \in Int /\ j \in 0 .. 3 /\ a \in Int /\ U(a) = U(w) + j
  BY DEF WriteAt, Behind
<1> HIDE DEF yes, no
<1>3. WordAt(p, w, j, a, yes, no)
  BY <1>1, <1>2, WordFound, Zenon
<1> QED
  BY <1>3 DEF WordAt, ReadAt, WriteAt, yes, no

LEMMA AtAlike ==
  ASSUME NEW p, NEW q, SameMap(p, q), NEW a \in Int
  PROVE  /\ ReadAt(p, a, 1).phys = ReadAt(q, a, 1).phys
         /\ WriteAt(p, a, 1).trap = "none" <=> WriteAt(q, a, 1).trap = "none"
         /\ WriteAt(p, a, 1).phys = WriteAt(q, a, 1).phys
<1> DEFINE no == FALSE
           yes == TRUE
<1>1. no \in BOOLEAN /\ yes \in BOOLEAN
  OBVIOUS
<1> HIDE DEF no, yes
<1>2. Translate(p, a, 1, no).phys = Translate(q, a, 1, no).phys
  BY <1>1, FoundAlike
<1>3. /\ Translate(p, a, 1, yes).trap = "none" <=> Translate(q, a, 1, yes).trap = "none"
      /\ Translate(p, a, 1, yes).phys = Translate(q, a, 1, yes).phys
  BY <1>1, FoundAlike
<1> QED
  BY <1>2, <1>3 DEF ReadAt, WriteAt, no, yes

-----------------------------------------------------------------------------
(* What the parts of a transfer move *)

\* Where the byte i places after a is.
Place(p, a, i) == ReadAt(p, Wrap(a + i), 1).phys

Left(op) == op \in {"LWL", "SWL"}

\* The address at which op takes part in the transfer of the word at a; the
\* bytes it moves, when that is b places after an aligned word; where among
\* those of the aligned word it finds them.
PartAt(op, a)      == IF Left(op) THEN Wrap(a + 3) ELSE a
Moves(op, b, i)    == IF Left(op) THEN i >= 3 - b ELSE i <= 3 - b
Within(op, b, i)   == IF Left(op) THEN b + i - 3 ELSE b + i

LEMMA Offsets ==
  ASSUME NEW a \in Int, NEW b \in Int, NEW i \in Int
  PROVE  /\ (a - b) + (b + i - 3) = (i - 3) + a
         /\ i - 3 \in Int /\ a + 3 \in Int /\ (i - 3) + (a + 3) = a + i
OBVIOUS

\* At A, which is b places after an aligned word, op moves byte i of the word
\* at a.
Part(op, a, A, b, i) ==
  /\ a \in Int /\ A \in Int /\ A = PartAt(op, a)
  /\ b \in 0 .. 3 /\ (A - b) % 4 = 0
  /\ i \in 0 .. 3 /\ Moves(op, b, i)

LEMMA PartPlaced ==
  ASSUME NEW op, NEW a, NEW A, NEW b, NEW i, Part(op, a, A, b, i)
  PROVE  Behind(Wrap(a + i), A - b, Within(op, b, i))
<1> DEFINE w == A - b
           j == Within(op, b, i)
           z == Wrap(a + i)
<1>0. a \in Int /\ A \in Int /\ b \in Int /\ i \in Int /\ a + i \in Int
  BY DEF Part
<1>1. w \in Int /\ w % 4 = 0
  BY DEF Part
<1>2. j \in 0 .. 3
  <2>1. CASE Left(op)
    BY <2>1 DEF Within, Moves, Part
  <2>2. CASE ~Left(op)
    BY <2>2 DEF Within, Moves, Part
  <2> QED
    BY <2>1, <2>2
<1>3. (a + i) % Full = (w + j) % Full
  <2>1. CASE Left(op)
    <3>1. A = Wrap(a + 3) /\ j = b + i - 3
      BY <2>1 DEF PartAt, Within, Part
    <3>2. /\ (A - b) + (b + i - 3) = (i - 3) + A
          /\ i - 3 \in Int /\ a + 3 \in Int /\ (i - 3) + (a + 3) = a + i
      BY <1>0, Offsets
    <3>3. A % Full = (a + 3) % Full
      BY <3>1, <3>2, WrapIs DEF U
    <3>4. ((i - 3) + A) % Full = ((i - 3) + (a + 3)) % Full
      <4> DEFINE c == i - 3
                 d == a + 3
      <4>1. c \in Int /\ d \in Int /\ A % Full = d % Full /\ A \in Int
        BY <1>0, <3>2, <3>3
      <4> HIDE DEF c, d
      <4>2. (c + A) % Full = (c + d) % Full
        BY <4>1, Whole, ModuloAdds
      <4> QED
        BY <4>2, Zenon DEF c, d
    <3>5. w + j = (i - 3) + A
      BY <3>1, <3>2, Zenon
    <3> QED
      BY <3>2, <3>4, <3>5, Zenon
  <2>2. CASE ~Left(op)
    <3>1. w + j = a + i
      BY <2>2 DEF PartAt, Within, Part
    <3> QED
      BY <3>1
  <2> QED
    BY <2>1, <2>2
<1>4. z \in Int /\ U(z) = (a + i) % Full
  <2>1. z \in Word /\ U(z) = (a + i) % Full
    BY <1>0, WrapIs
  <2> QED
    BY <2>1, UIs
<1>5. (w + j) % Full = U(w) + j
  BY <1>1, <1>2, WordOffset
<1> HIDE DEF w, j, z
<1> QED
  BY <1>1, <1>2, <1>3, <1>4, <1>5, Zenon DEF Behind, w, j, z

LEMMA PartRead ==
  ASSUME NEW p, Table(p), NEW op, NEW a, NEW A, NEW b, NEW i, Part(op, a, A, b, i),
         ReadAt(p, A - b, 4).trap = "none"
  PROVE  /\ Within(op, b, i) \in 0 .. 3
         /\ Place(p, a, i) = ReadAt(p, A - b, 4).phys + Within(op, b, i)
<1> DEFINE w == A - b
           j == Within(op, b, i)
           z == Wrap(a + i)
<1>1. Behind(z, w, j)
  BY PartPlaced, Zenon
<1>2. ReadAt(p, w, 4).trap = "none"
  OBVIOUS
<1> HIDE DEF w, j, z
<1>3. ReadAt(p, z, 1).phys = ReadAt(p, w, 4).phys + j
  BY <1>1, <1>2, WordReadAt, Zenon
<1> QED
  BY <1>1, <1>3, Zenon DEF Behind, Place, w, j, z

LEMMA PartWritten ==
  ASSUME NEW p, Table(p), NEW op, NEW a, NEW A, NEW b, NEW i, Part(op, a, A, b, i),
         WriteAt(p, A - b, 4).trap = "none"
  PROVE  /\ Within(op, b, i) \in 0 .. 3
         /\ Place(p, a, i) = WriteAt(p, A - b, 4).phys + Within(op, b, i)
         /\ WriteAt(p, Wrap(a + i), 1).trap = "none"
         /\ WriteAt(p, Wrap(a + i), 1).phys = Place(p, a, i)
<1> DEFINE w == A - b
           j == Within(op, b, i)
           z == Wrap(a + i)
<1>1. Behind(z, w, j)
  BY PartPlaced, Zenon
<1>2. WriteAt(p, w, 4).trap = "none"
  OBVIOUS
<1> HIDE DEF w, j, z
<1>3. /\ WriteAt(p, z, 1).trap = "none"
      /\ WriteAt(p, z, 1).phys = WriteAt(p, w, 4).phys + j
      /\ ReadAt(p, z, 1).phys = WriteAt(p, w, 4).phys + j
  BY <1>1, <1>2, WordWrittenAt, Zenon
<1> QED
  BY <1>1, <1>3, Zenon DEF Behind, Place, w, j, z

\* x is what reading the aligned word at w gives in the state s, where t has
\* found it.
WordOf(s, w, x, t) ==
  /\ Typed(x.s) /\ x.s.r = s.r /\ x.s.m = s.m /\ SameMap(s.p, x.s.p)
  /\ t.trap = "none" /\ w % 4 = 0 /\ t.phys \in Nat
  /\ \A j \in 0 .. 3 : t.phys + j \in DOMAIN s.m /\ Digit(x.value, j) = s.m[t.phys + j]

\* An aligned word is read.
LEMMA WordRead ==
  ASSUME NEW s, Typed(s), NEW w \in Int, ReadMem(s, w, 4).trap = "none"
  PROVE  WordOf(s, w, ReadMem(s, w, 4), ReadAt(s.p, w, 4))
<1> DEFINE x == ReadMem(s, w, 4)
           t == ReadAt(s.p, w, 4)
           N == NumPhysPages * PageSize
<1>1. x = [trap |-> t.trap, s |-> Turned(s, s.m, t.p),
           value |-> IF t.trap = "none" THEN BytesAt(s.m, t.phys, 4) ELSE 0]
  BY ReadIs DEF Typed, ReadAt
<1>2. Turned(s, s.m, t.p) = [r |-> s.r, m |-> s.m, p |-> t.p]
  BY TurnedIs DEF Typed
<1>3. s.p \in [DOMAIN s.p -> PageEntry] /\ s.m \in [0 .. N - 1 -> Byte] /\ N \in Int
  BY MipsSimAssumption DEF Typed
<1>4. SameMap(s.p, t.p)
  BY <1>3, TranslateKeepsMap DEF ReadAt
<1>5. t.trap = "none" => t.phys \in Nat /\ t.phys + 4 <= N /\ w % 4 = 0
  BY <1>3, TranslateTyped DEF ReadAt
<1>6. Typed(x.s) /\ x.s.r = s.r
  BY ReadTyped
<1> HIDE DEF t
<1>7. t.trap = "none" /\ x.s.m = s.m /\ x.s.p = t.p /\ x.value = BytesAt(s.m, t.phys, 4)
  BY <1>1, <1>2
<1> HIDE DEF x, N
<1>8. ASSUME NEW j \in 0 .. 3
      PROVE  t.phys + j \in DOMAIN s.m /\ Digit(x.value, j) = s.m[t.phys + j]
  <2>1. t.phys .. t.phys + 4 - 1 \subseteq 0 .. N - 1 /\ t.phys + j \in t.phys .. t.phys + 4 - 1
    BY <1>3, <1>5, <1>7
  <2>2. \A a \in t.phys .. t.phys + 4 - 1 : s.m[a] \in Byte
    BY <1>3, <2>1
  <2>3. j \in 0 .. 4 - 1
    OBVIOUS
  <2>4. Digit(BytesAt(s.m, t.phys, 4), j) = s.m[t.phys + j]
    <3>1. t.phys \in Nat /\ 4 \in Nat
      BY <1>5, <1>7
    <3> QED
      BY <2>2, <2>3, <3>1, BytesDigits, Zenon
  <2> QED
    BY <1>3, <1>7, <2>1, <2>4
<1>9. SameMap(s.p, x.s.p) /\ t.phys \in Nat /\ w % 4 = 0
  BY <1>4, <1>5, <1>7
<1>10. WordOf(s, w, x, t)
  BY <1>6, <1>7, <1>8, <1>9, Zenon DEF WordOf
<1> QED
  BY <1>10, Zenon DEF x, t

\* LWL and LWR leave memory alone, and read their bytes of the word at a.
LEMMA LoadPartMoves ==
  ASSUME NEW s, Typed(s), NEW ins, Fitting(ins), ins.op \in {"LWL", "LWR"},
         LoadPart(s, ins).trap = "none",
         NEW A \in Int, A = Wrap(Reg(s, ins.rs) + ins.extra)
  PROVE  LET o == LoadPart(s, ins).s
         IN /\ o.m = s.m /\ SameMap(s.p, o.p) /\ o.r.LoadReg = ins.rt
            /\ \A a \in Int : A = PartAt(ins.op, a) =>
                 \A i \in 0 .. 3 :
                   Digit(o.r.LoadValue, i) =
                     IF Moves(ins.op, A % 4, i) THEN s.m[Place(s.p, a, i)]
                     ELSE Digit(OldValue(s, ins.rt), i)
<1> DEFINE b   == A % 4
           w   == A - b
           x   == ReadMem(s, w, 4)
           t   == ReadAt(s.p, w, 4)
           old == OldValue(s, ins.rt)
           new == IF ins.op = "LWL" THEN Wrap(Low(old, 3 - b) + Up(x.value, 3 - b))
                  ELSE Wrap(High(old, 4 - b) + Down(x.value, b))
           o   == LoadPart(s, ins)
<1>1. o = IF x.trap # "none" THEN Raised(s, x.trap, w) ELSE Finished(x.s, ins.rt, new, Sequential(s))
  BY Zenon DEF LoadPart
<1>2. b \in 0 .. 3 /\ w \in Int /\ w % 4 = 0
  OBVIOUS
<1>3. Formed(s) /\ ins.rt \in GPR
  BY DEF Typed, Fitting, Decoded
<1> HIDE DEF b, w, x, new
<1>4. x.trap = "none" /\ o = Finished(x.s, ins.rt, new, Sequential(s))
  <2>1. Raised(s, x.trap, w).trap = x.trap
    BY <1>3, RaisedLeaves
  <2> QED
    BY <1>1, <2>1
<1>5. /\ Typed(x.s) /\ x.s.m = s.m /\ SameMap(s.p, x.s.p)
      /\ t.trap = "none"
      /\ \A j \in 0 .. 3 : Digit(x.value, j) = s.m[t.phys + j]
  <2>1. WordOf(s, w, x, t)
    BY <1>2, <1>4, WordRead, Zenon DEF x
  <2> QED
    BY <2>1, Zenon DEF WordOf
<1>6. o.s.m = x.s.m /\ o.s.p = x.s.p /\ o.s.r.LoadReg = ins.rt /\ o.s.r.LoadValue = new
  BY <1>3, <1>4, <1>5, FinishedLeaves DEF Typed
<1>7. x.value \in Int /\ old \in Int
  <2>1. x.value \in Int
    BY <1>2, ReadTyped DEF x
  <2> QED
    BY <2>1, OldValueTyped, UIs DEF Fitting, Decoded
<1>8. Table(s.p)
  BY DEF Typed, Table
<1>9. ASSUME NEW a \in Int, A = PartAt(ins.op, a), NEW i \in 0 .. 3
      PROVE  Digit(new, i) = IF Moves(ins.op, b, i) THEN s.m[Place(s.p, a, i)] ELSE Digit(old, i)
  <2>1. Digit(new, i) = IF Moves(ins.op, b, i) THEN Digit(x.value, Within(ins.op, b, i)) ELSE Digit(old, i)
    <3> HIDE DEF old
    <3>1. CASE ins.op = "LWL"
      <4>1. 3 - b \in 0 .. 3 /\ i - (3 - b) = b + i - 3 /\ (i < 3 - b <=> ~(i >= 3 - b))
        BY <1>2
      <4>2. Digit(Wrap(Low(old, 3 - b) + Up(x.value, 3 - b)), i) =
              IF i < 3 - b THEN Digit(old, i) ELSE Digit(x.value, i - (3 - b))
        BY <1>7, <4>1, MergedLow
      <4>3. Left(ins.op)
        BY <3>1 DEF Left
      <4> QED
        BY <3>1, <4>1, <4>2, <4>3 DEF new, Moves, Within
    <3>2. CASE ins.op = "LWR"
      <4>1. 4 - b \in 1 .. 4 /\ 4 - (4 - b) = b /\ (i < 4 - b <=> i <= 3 - b)
        BY <1>2
      <4>2. Digit(Wrap(High(old, 4 - b) + Down(x.value, 4 - (4 - b))), i) =
              IF i < 4 - b THEN Digit(x.value, (4 - (4 - b)) + i) ELSE Digit(old, i)
        BY <1>7, <4>1, MergedHigh
      <4>3. ~Left(ins.op) /\ ins.op # "LWL"
        BY <3>2 DEF Left
      <4>4. new = Wrap(High(old, 4 - b) + Down(x.value, b))
        BY <4>3 DEF new
      <4> QED
        BY <4>1, <4>2, <4>3, <4>4 DEF Moves, Within
    <3> QED
      BY <3>1, <3>2
  <2>2. ASSUME Moves(ins.op, b, i)
        PROVE  Within(ins.op, b, i) \in 0 .. 3 /\ Place(s.p, a, i) = t.phys + Within(ins.op, b, i)
    <3>1. ReadAt(s.p, A - b, 4).trap = "none" /\ Part(ins.op, a, A, b, i)
      BY <1>2, <1>5, <1>9, <2>2 DEF w, Part
    <3>2. /\ Within(ins.op, b, i) \in 0 .. 3
          /\ Place(s.p, a, i) = ReadAt(s.p, A - b, 4).phys + Within(ins.op, b, i)
      BY <1>8, <3>1, PartRead
    <3> QED
      BY <3>2, Zenon DEF w
  <2> HIDE DEF t
  <2> QED
    BY <1>5, <2>1, <2>2
<1> HIDE DEF o, old
<1> QED
  BY <1>5, <1>6, <1>9, Zenon DEF o, b, old

\* d is the state s with value in the four bytes of the aligned word at w, which
\* t has found.
Written(s, w, value, d, t) ==
  /\ Formed(d) /\ d.r = s.r /\ SameMap(s.p, d.p) /\ DOMAIN d.m = DOMAIN s.m
  /\ t.trap = "none" /\ w % 4 = 0 /\ t.phys \in Nat
  /\ \A j \in 0 .. 3 : /\ t.phys + j \in DOMAIN s.m
                       /\ d.m[t.phys + j] = Digit(value, j)
  /\ \A c \in DOMAIN s.m : (\A j \in 0 .. 3 : c # t.phys + j) => d.m[c] = s.m[c]

\* A word is written over one that was read at the same address.
LEMMA WordWritten ==
  ASSUME NEW s, Typed(s), NEW w \in Int, NEW value \in Int, WriteMem(s, w, 4, value).trap = "none"
  PROVE  Written(s, w, value, WriteMem(s, w, 4, value).s, WriteAt(s.p, w, 4))
<1> DEFINE x == WriteMem(s, w, 4, value)
           t == WriteAt(s.p, w, 4)
           N == NumPhysPages * PageSize
           m == [a \in DOMAIN s.m |->
                   IF a \in t.phys .. t.phys + 4 - 1
                   THEN (Low(value, 4) \div Pow2[ByteBits * (a - t.phys)]) % Pow2[ByteBits]
                   ELSE s.m[a]]
<1>1. x = [trap |-> t.trap, s |-> IF t.trap # "none" THEN s ELSE Turned(s, m, t.p)]
  BY Zenon DEF WriteMem, Turned, WriteAt
<1>2. Turned(s, m, t.p) = [r |-> s.r, m |-> m, p |-> t.p]
  <2> HIDE DEF m, t
  <2> QED
    BY TurnedIs DEF Typed
<1>3. s.p \in [DOMAIN s.p -> PageEntry] /\ s.m \in [0 .. N - 1 -> Byte] /\ N \in Int
  BY MipsSimAssumption DEF Typed
<1>4. SameMap(s.p, t.p)
  BY <1>3, TranslateKeepsMap DEF WriteAt
<1>5. t.trap = "none" => t.phys \in Nat /\ t.phys + 4 <= N /\ w % 4 = 0
  BY <1>3, TranslateTyped DEF WriteAt
<1>6. Typed(x.s)
  BY WriteTyped
<1> HIDE DEF t
<1>7. DOMAIN m = DOMAIN s.m
  OBVIOUS
<1>8. ASSUME t.trap = "none", NEW j \in 0 .. 3
      PROVE  t.phys + j \in DOMAIN s.m /\ m[t.phys + j] = Digit(value, j)
  <2> DEFINE a == t.phys + j
  <2>1. a \in t.phys .. t.phys + 4 - 1 /\ a - t.phys = j /\ a \in 0 .. N - 1
    <3> HIDE DEF N
    <3> QED
      BY <1>3, <1>5, <1>8
  <2> HIDE DEF a
  <2>2. a \in DOMAIN s.m
    BY <1>3, <2>1
  <2>3. m[a] = (Low(value, 4) \div Pow2[ByteBits * j]) % Pow2[ByteBits]
    <3>1. m[a] = (Low(value, 4) \div Pow2[ByteBits * (a - t.phys)]) % Pow2[ByteBits]
      BY <2>1, <2>2, Zenon
    <3> HIDE DEF m
    <3> QED
      BY <2>1, <3>1, Zenon
  <2>4. m[a] = Digit(value, j)
    <3> HIDE DEF m
    <3> QED
      BY <2>3, WrittenDigit
  <2> QED
    BY <2>2, <2>4 DEF a
<1>9. ASSUME t.trap = "none", NEW c \in DOMAIN s.m, \A j \in 0 .. 3 : c # t.phys + j
      PROVE  m[c] = s.m[c]
  <2>1. c \notin t.phys .. t.phys + 4 - 1
    <3> SUFFICES ASSUME c \in t.phys .. t.phys + 4 - 1 PROVE FALSE
      OBVIOUS
    <3>1. c - t.phys \in 0 .. 3 /\ c = t.phys + (c - t.phys)
      BY <1>5, <1>9
    <3> QED
      BY <1>9, <3>1
  <2> QED
    BY <2>1
<1> HIDE DEF x, m
<1>10. t.trap = "none" /\ x.s = [r |-> s.r, m |-> m, p |-> t.p]
  BY <1>1, <1>2 DEF x
<1>11. x.s.r = s.r /\ x.s.m = m /\ x.s.p = t.p
  BY <1>10
<1> QED
  <2>1. Formed(x.s) /\ DOMAIN x.s.m = DOMAIN s.m /\ SameMap(s.p, x.s.p)
    BY <1>4, <1>6, <1>7, <1>11 DEF Typed
  <2>2. t.phys \in Nat /\ w % 4 = 0
    BY <1>5, <1>10
  <2>3. /\ \A j \in 0 .. 3 : t.phys + j \in DOMAIN s.m /\ x.s.m[t.phys + j] = Digit(value, j)
        /\ \A c \in DOMAIN s.m : (\A j \in 0 .. 3 : c # t.phys + j) => x.s.m[c] = s.m[c]
    BY <1>8, <1>9, <1>10, <1>11, Zenon
  <2>4. Written(s, w, value, x.s, t)
    BY <1>10, <1>11, <2>1, <2>2, <2>3, Zenon DEF Written
  <2> QED
    BY <2>4, Zenon DEF x, t

\* The bytes of the aligned word that op moves, and which of the other word
\* they are.
Hits(op, b, j) == IF Left(op) THEN j <= b ELSE j >= b
Onto(op, b, j) == IF Left(op) THEN j + 3 - b ELSE j - b

LEMMA HitsMoves ==
  ASSUME NEW op, NEW b \in 0 .. 3, NEW j \in 0 .. 3
  PROVE  /\ Hits(op, b, j) => /\ Onto(op, b, j) \in 0 .. 3 /\ Moves(op, b, Onto(op, b, j))
                              /\ Within(op, b, Onto(op, b, j)) = j
         /\ Moves(op, b, j) => /\ Within(op, b, j) \in 0 .. 3 /\ Hits(op, b, Within(op, b, j))
                               /\ Onto(op, b, Within(op, b, j)) = j
<1>1. CASE Left(op)
  BY <1>1 DEF Hits, Onto, Moves, Within
<1>2. CASE ~Left(op)
  BY <1>2 DEF Hits, Onto, Moves, Within
<1> QED
  BY <1>1, <1>2

LEMMA SamePlace ==
  ASSUME NEW p, NEW q, Table(p), Table(q), SameMap(p, q), NEW w \in Int,
         ReadAt(p, w, 4).trap = "none", WriteAt(q, w, 4).trap = "none",
         ReadAt(p, w, 4).phys \in Nat, WriteAt(q, w, 4).phys \in Nat
  PROVE  ReadAt(p, w, 4).phys = WriteAt(q, w, 4).phys
<1>1. U(w) \in Int
  BY WrapIs DEF U
<1>2. Behind(w, w, 0)
  BY <1>1 DEF Behind
<1>3. ReadAt(p, w, 1).phys = ReadAt(p, w, 4).phys + 0
  BY <1>2, WordReadAt, Zenon
<1>4. ReadAt(q, w, 1).phys = WriteAt(q, w, 4).phys + 0
  BY <1>2, WordWrittenAt, Zenon
<1>5. ReadAt(p, w, 1).phys = ReadAt(q, w, 1).phys
  BY AtAlike, Zenon
<1> QED
  BY <1>3, <1>4, <1>5

\* SWL and SWR write their bytes of the word at a, and nothing else.
LEMMA StorePartMoves ==
  ASSUME NEW s, Typed(s), NEW ins, Fitting(ins), ins.op \in {"SWL", "SWR"},
         StorePart(s, ins).trap = "none",
         NEW A \in Int, A = Wrap(Reg(s, ins.rs) + ins.extra)
  PROVE  LET o == StorePart(s, ins).s
         IN /\ o.r.LoadReg = "r0" /\ \A n \in GPR : o.r.gen[n] = Holds(s, n)
            /\ SameMap(s.p, o.p) /\ DOMAIN o.m = DOMAIN s.m
            /\ \A a \in Int : A = PartAt(ins.op, a) =>
                 /\ \A i \in 0 .. 3 : Moves(ins.op, A % 4, i) =>
                      /\ WriteAt(s.p, Wrap(a + i), 1).trap = "none"
                      /\ WriteAt(s.p, Wrap(a + i), 1).phys = Place(s.p, a, i)
                      /\ o.m[Place(s.p, a, i)] = Digit(Reg(s, ins.rt), i)
                 /\ \A c \in DOMAIN s.m :
                      (\A i \in 0 .. 3 : Moves(ins.op, A % 4, i) => c # Place(s.p, a, i)) =>
                        o.m[c] = s.m[c]
<1> DEFINE b   == A % 4
           w   == A - b
           v   == Reg(s, ins.rt)
           x   == ReadMem(s, w, 4)
           new == IF ins.op = "SWL" THEN Wrap(High(x.value, b + 1) + Down(v, 3 - b))
                  ELSE Wrap(Low(x.value, b) + Up(v, b))
           put == WriteMem(x.s, w, 4, new)
           r   == ReadAt(s.p, w, 4)
           t   == WriteAt(x.s.p, w, 4)
           o   == StorePart(s, ins)
<1>1. o = IF x.trap # "none" THEN Raised(s, x.trap, w)
          ELSE IF put.trap # "none" THEN Raised(x.s, put.trap, w)
          ELSE Finished(put.s, "r0", 0, Sequential(s))
  BY Zenon DEF StorePart
<1>2. b \in 0 .. 3 /\ w \in Int /\ w % 4 = 0 /\ o.trap = "none"
  OBVIOUS
<1>3. Formed(s) /\ ins.rt \in GPR /\ ins.rs \in GPR
  BY DEF Typed, Fitting, Decoded
<1>4. v \in Int
  BY <1>3, RegTyped, UIs
<1> HIDE DEF b, w, v, x, new, put, r, t, o
<1>5. x.trap = "none"
  <2>1. Raised(s, x.trap, w).trap = x.trap
    BY <1>3, RaisedLeaves
  <2> QED
    BY <1>1, <1>2, <2>1
<1>6. /\ Typed(x.s) /\ x.s.r = s.r /\ x.s.m = s.m /\ SameMap(s.p, x.s.p)
      /\ r.trap = "none" /\ r.phys \in Nat
      /\ \A j \in 0 .. 3 : Digit(x.value, j) = s.m[r.phys + j]
  <2>1. WordOf(s, w, x, r)
    BY <1>2, <1>5, WordRead, Zenon DEF x, r
  <2> QED
    BY <2>1, Zenon DEF WordOf
<1>7. x.value \in Int
  BY <1>2, ReadTyped DEF x
<1>8. put.trap = "none" /\ o = Finished(put.s, "r0", 0, Sequential(s))
  <2>1. Raised(x.s, put.trap, w).trap = put.trap
    BY <1>6, RaisedLeaves DEF Typed
  <2> QED
    BY <1>1, <1>2, <1>5, <2>1
<1>9. /\ new \in Int
      /\ \A j \in 0 .. 3 :
           Digit(new, j) = IF Hits(ins.op, b, j) THEN Digit(v, Onto(ins.op, b, j)) ELSE Digit(x.value, j)
  <2>1. CASE ins.op = "SWL"
    <3>1. Left(ins.op) /\ new = Wrap(High(x.value, b + 1) + Down(v, 3 - b))
      BY <2>1 DEF Left, new
    <3>2. b + 1 \in 1 .. 4 /\ 4 - (b + 1) = 3 - b
      BY <1>2
    <3>3. ASSUME NEW j \in 0 .. 3
          PROVE  Digit(new, j) = IF Hits(ins.op, b, j) THEN Digit(v, Onto(ins.op, b, j)) ELSE Digit(x.value, j)
      <4>1. Digit(Wrap(High(x.value, b + 1) + Down(v, 4 - (b + 1))), j) =
              IF j < b + 1 THEN Digit(v, (4 - (b + 1)) + j) ELSE Digit(x.value, j)
        BY <1>4, <1>7, <3>2, MergedHigh
      <4>2. (4 - (b + 1)) + j = j + 3 - b /\ (j < b + 1 <=> j <= b)
        BY <1>2
      <4>3. (Hits(ins.op, b, j) <=> j <= b) /\ Onto(ins.op, b, j) = j + 3 - b
        BY <3>1, Zenon DEF Hits, Onto
      <4> QED
        BY <3>1, <3>2, <4>1, <4>2, <4>3, Zenon
    <3>4. High(x.value, b + 1) + Down(v, 3 - b) \in Int
      <4>1. b + 1 \in Nat /\ 3 - b \in Nat
        BY <1>2
      <4>2. High(x.value, b + 1) \in Int /\ Down(v, 3 - b) \in Int
        BY <1>4, <1>7, <4>1, PartsInt, Zenon
      <4> QED
        BY <4>2
    <3>5. new \in Word
      BY <3>1, <3>4, WrapIs
    <3> QED
      BY <3>3, <3>5, UIs
  <2>2. CASE ins.op = "SWR"
    <3>1. ~Left(ins.op) /\ new = Wrap(Low(x.value, b) + Up(v, b))
      BY <2>2 DEF Left, new
    <3>2. ASSUME NEW j \in 0 .. 3
          PROVE  Digit(new, j) = IF Hits(ins.op, b, j) THEN Digit(v, Onto(ins.op, b, j)) ELSE Digit(x.value, j)
      <4>1. Digit(Wrap(Low(x.value, b) + Up(v, b)), j) =
              IF j < b THEN Digit(x.value, j) ELSE Digit(v, j - b)
        BY <1>2, <1>4, <1>7, MergedLow
      <4>2. j < b <=> ~(j >= b)
        BY <1>2
      <4> QED
        BY <3>1, <4>1, <4>2 DEF Hits, Onto
    <3>3. Low(x.value, b) + Up(v, b) \in Int
      <4>1. b \in Nat
        BY <1>2
      <4>2. Low(x.value, b) \in Nat /\ Up(v, b) \in Word
        BY <1>4, <1>7, <4>1, PartsInt
      <4> QED
        BY <4>2, UIs
    <3>4. new \in Word
      BY <3>1, <3>3, WrapIs
    <3> QED
      BY <3>2, <3>4, UIs
  <2> QED
    BY <2>1, <2>2
<1>10. /\ Formed(put.s) /\ put.s.r = s.r /\ SameMap(x.s.p, put.s.p) /\ DOMAIN put.s.m = DOMAIN s.m
       /\ t.trap = "none" /\ t.phys \in Nat
       /\ \A j \in 0 .. 3 : put.s.m[t.phys + j] = Digit(new, j)
       /\ \A c \in DOMAIN s.m : (\A j \in 0 .. 3 : c # t.phys + j) => put.s.m[c] = s.m[c]
  <2> DEFINE e == x.s
  <2>1. Typed(e) /\ new \in Int
    BY <1>6, <1>9
  <2>2. put = WriteMem(e, w, 4, new) /\ t = WriteAt(e.p, w, 4)
    BY DEF put, t
  <2> HIDE DEF e
  <2>3. Written(e, w, new, put.s, t)
    BY <1>2, <1>8, <2>1, <2>2, WordWritten, Zenon
  <2>4. e.r = s.r /\ e.m = s.m /\ e.p = x.s.p
    BY <1>6 DEF e
  <2> QED
    BY <2>3, <2>4 DEF Written
<1>11. /\ o.s.m = put.s.m /\ o.s.p = put.s.p /\ o.s.r.LoadReg = "r0"
       /\ \A n \in GPR : o.s.r.gen[n] = Holds(s, n)
  <2>1. /\ o.s.m = put.s.m /\ o.s.p = put.s.p /\ o.s.r.LoadReg = "r0"
        /\ \A n \in GPR : o.s.r.gen[n] = Holds(put.s, n)
    BY <1>8, <1>10, ZeroWord, FinishedLeaves
  <2> QED
    BY <1>10, <2>1, Zenon DEF Holds
<1>12. Table(s.p) /\ Table(x.s.p)
  BY <1>6 DEF Typed, Table
<1>13. r.phys = t.phys
  <2> DEFINE p == s.p
             q == x.s.p
  <2>1. Table(p) /\ Table(q) /\ SameMap(p, q)
    BY <1>6, <1>12, Zenon
  <2>2. r = ReadAt(p, w, 4) /\ t = WriteAt(q, w, 4)
    BY Zenon DEF r, t
  <2> HIDE DEF p, q
  <2>3. /\ ReadAt(p, w, 4).trap = "none" /\ ReadAt(p, w, 4).phys \in Nat
        /\ WriteAt(q, w, 4).trap = "none" /\ WriteAt(q, w, 4).phys \in Nat
    BY <1>6, <1>10, <2>2
  <2>4. w \in Int
    BY <1>2
  <2> QED
    BY <2>1, <2>2, <2>3, <2>4, SamePlace, Zenon
<1>14. SameMap(s.p, o.s.p)
  BY <1>6, <1>10, <1>11 DEF SameMap
<1>15. ASSUME NEW a \in Int, A = PartAt(ins.op, a), NEW i \in 0 .. 3, Moves(ins.op, b, i)
       PROVE  /\ WriteAt(s.p, Wrap(a + i), 1).trap = "none"
              /\ WriteAt(s.p, Wrap(a + i), 1).phys = Place(s.p, a, i)
              /\ Place(s.p, a, i) = t.phys + Within(ins.op, b, i)
  <2>1. Part(ins.op, a, A, b, i)
    BY <1>2, <1>15 DEF Part, w
  <2>2. WriteAt(x.s.p, A - b, 4).trap = "none"
    BY <1>10, Zenon DEF t, w
  <2>3. /\ Place(x.s.p, a, i) = WriteAt(x.s.p, A - b, 4).phys + Within(ins.op, b, i)
        /\ WriteAt(x.s.p, Wrap(a + i), 1).trap = "none"
        /\ WriteAt(x.s.p, Wrap(a + i), 1).phys = Place(x.s.p, a, i)
    BY <1>12, <2>1, <2>2, PartWritten
  <2>4. Wrap(a + i) \in Int
    BY <2>1, PartPlaced DEF Behind
  <2>5. /\ ReadAt(s.p, Wrap(a + i), 1).phys = ReadAt(x.s.p, Wrap(a + i), 1).phys
        /\ WriteAt(s.p, Wrap(a + i), 1).trap = "none" <=> WriteAt(x.s.p, Wrap(a + i), 1).trap = "none"
        /\ WriteAt(s.p, Wrap(a + i), 1).phys = WriteAt(x.s.p, Wrap(a + i), 1).phys
    BY <1>6, <2>4, AtAlike
  <2> QED
    BY <2>3, <2>5, Zenon DEF Place, t, w
<1>16. ASSUME NEW a \in Int, A = PartAt(ins.op, a), NEW i \in 0 .. 3, Moves(ins.op, b, i)
       PROVE  o.s.m[Place(s.p, a, i)] = Digit(v, i)
  <2> DEFINE j == Within(ins.op, b, i)
  <2>1. j \in 0 .. 3 /\ Hits(ins.op, b, j) /\ Onto(ins.op, b, j) = i
    BY <1>2, <1>16, HitsMoves
  <2>2. Place(s.p, a, i) = t.phys + j
    BY <1>15, <1>16
  <2> HIDE DEF j
  <2>3. Digit(new, j) = Digit(v, i)
    BY <1>9, <2>1
  <2>4. put.s.m[t.phys + j] = Digit(new, j)
    BY <1>10, <2>1
  <2> QED
    BY <1>11, <2>2, <2>3, <2>4, Zenon
<1>17. ASSUME NEW a \in Int, A = PartAt(ins.op, a), NEW c \in DOMAIN s.m,
              \A i \in 0 .. 3 : Moves(ins.op, b, i) => c # Place(s.p, a, i)
       PROVE  o.s.m[c] = s.m[c]
  <2>1. CASE \A j \in 0 .. 3 : c # t.phys + j
    BY <1>10, <1>11, <2>1
  <2>2. CASE \E j \in 0 .. 3 : c = t.phys + j
    <3>1. PICK j \in 0 .. 3 : c = t.phys + j
      BY <2>2
    <3> DEFINE i == Onto(ins.op, b, j)
    <3>2. ~Hits(ins.op, b, j)
      <4> SUFFICES ASSUME Hits(ins.op, b, j) PROVE FALSE
        OBVIOUS
      <4>1. i \in 0 .. 3 /\ Moves(ins.op, b, i) /\ Within(ins.op, b, i) = j
        BY <1>2, HitsMoves
      <4> HIDE DEF i
      <4>2. Place(s.p, a, i) = t.phys + Within(ins.op, b, i)
        BY <1>15, <1>17, <4>1
      <4>3. c # Place(s.p, a, i)
        BY <1>17, <4>1
      <4> QED
        BY <3>1, <4>1, <4>2, <4>3, Zenon
    <3> HIDE DEF i
    <3>3. Digit(new, j) = Digit(x.value, j)
      BY <1>9, <3>2
    <3>4. put.s.m[t.phys + j] = Digit(new, j) /\ Digit(x.value, j) = s.m[r.phys + j]
      BY <1>6, <1>10
    <3> QED
      BY <1>11, <1>13, <3>1, <3>3, <3>4, Zenon
  <2> QED
    BY <2>1, <2>2
<1> QED
  BY <1>10, <1>11, <1>14, <1>15, <1>16, <1>17, Zenon DEF o, b, v

-----------------------------------------------------------------------------
(* What the instructions move *)

\* The address of the instruction of e, an entry of the trace.
Target(e) == Wrap(Reg(e.before, e.ins.rs) + e.ins.extra)

\* e has led to s, but for loads that have landed since.
Follows(e, s) ==
  /\ Fitting(e.ins) /\ Typed(e.before) /\ Zeroed(e.before)
  /\ e.trap = OneInstruction(e.before, e.ins).trap
  /\ e.trap = "none" => Together(s, OneInstruction(e.before, e.ins).s)

\* To fetch an instruction changes nothing that it or the program sees.
LEMMA Fetched ==
  ASSUME NEW s, Typed(s), NEW ins, OneInstruction(s, ins).trap = "none"
  PROVE  LET x == ReadMem(s, s.r.PC, 4).s
         IN /\ OneInstruction(s, ins) = Execute(x, ins)
            /\ Typed(x) /\ x.r = s.r /\ x.m = s.m /\ SameMap(s.p, x.p)
            /\ \A n : Reg(x, n) = Reg(s, n) /\ Holds(x, n) = Holds(s, n)
<1> DEFINE x == ReadMem(s, s.r.PC, 4)
<1>1. s.r.PC \in Int
  <2>1. s.r.PC \in Word
    BY RegTyped
  <2> QED
    BY <2>1, UIs
<1>2. OneInstruction(s, ins) = IF x.trap # "none" THEN Raised(s, x.trap, s.r.PC)
                               ELSE Execute(x.s, ins)
  BY Zenon DEF OneInstruction
<1>3. x.trap = "none"
  <2>1. Raised(s, x.trap, s.r.PC).trap = x.trap
    BY RaisedLeaves DEF Typed
  <2> QED
    BY <1>2, <2>1
<1>4. Typed(x.s) /\ x.s.r = s.r /\ x.s.m = s.m /\ SameMap(s.p, x.s.p)
  <2>1. WordOf(s, s.r.PC, x, ReadAt(s.p, s.r.PC, 4))
    BY <1>1, <1>3, WordRead, Zenon
  <2> QED
    BY <2>1, Zenon DEF WordOf
<1>5. \A n : Reg(x.s, n) = Reg(s, n) /\ Holds(x.s, n) = Holds(s, n)
  BY <1>4, Zenon DEF Reg, Holds
<1> QED
  BY <1>2, <1>3, <1>4, <1>5, Zenon

LEMMA PlaceAlike ==
  ASSUME NEW p, NEW q, SameMap(p, q), NEW a \in Int, NEW i \in 0 .. 3
  PROVE  /\ Place(p, a, i) = Place(q, a, i)
         /\ WriteAt(p, Wrap(a + i), 1).trap = "none" <=> WriteAt(q, Wrap(a + i), 1).trap = "none"
         /\ WriteAt(p, Wrap(a + i), 1).phys = WriteAt(q, Wrap(a + i), 1).phys
<1>1. a + i \in Int
  OBVIOUS
<1>2. Wrap(a + i) \in Word
  BY <1>1, WrapIs
<1>3. Wrap(a + i) \in Int
  BY <1>2, UIs
<1> QED
  BY <1>3, AtAlike DEF Place

LEMMA SameTwice ==
  ASSUME NEW p, NEW q, NEW t, SameMap(p, q), SameMap(q, t)
  PROVE  SameMap(p, t) /\ SameMap(q, p)
BY DEF SameMap

LEMMA LoadMoves ==
  ASSUME NEW e, NEW s, Follows(e, s), e.trap = "none",
         e.ins.op \in {"LWL", "LWR"}, e.ins.rt # "r0",
         NEW a \in Int, Target(e) = PartAt(e.ins.op, a)
  PROVE  /\ s.m = e.before.m /\ SameMap(e.before.p, s.p)
         /\ \A i \in 0 .. 3 :
              Digit(Holds(s, e.ins.rt), i) =
                IF Moves(e.ins.op, Target(e) % 4, i) THEN e.before.m[Place(e.before.p, a, i)]
                ELSE Digit(Holds(e.before, e.ins.rt), i)
<1> DEFINE ins == e.ins
           c   == e.before
           x   == ReadMem(c, c.r.PC, 4).s
           A   == Target(e)
           o   == OneInstruction(c, ins)
<1>1. Typed(c) /\ Zeroed(c) /\ Fitting(ins) /\ o.trap = "none" /\ Together(s, o.s)
  BY DEF Follows
<1>2. /\ o = Execute(x, ins)
      /\ Typed(x) /\ x.r = c.r /\ x.m = c.m /\ SameMap(c.p, x.p)
      /\ \A n : Reg(x, n) = Reg(c, n) /\ Holds(x, n) = Holds(c, n)
  BY <1>1, Fetched
<1>3. A \in Word
  BY <1>1, AddressFits DEF Target
<1>4. A \in Int
  BY <1>3, UIs
<1>5. ins.rt \in GPR /\ ins.rt # "r0"
  BY <1>1 DEF Fitting, Decoded
<1>6. A = Wrap(Reg(x, ins.rs) + ins.extra)
  BY <1>2, Zenon DEF Target
<1>7. Execute(x, ins) = LoadPart(x, ins)
  BY Dispatch
<1>8. ins.op \in {"LWL", "LWR"} /\ A = PartAt(ins.op, a)
  OBVIOUS
<1> HIDE DEF ins, c, x, A, o
<1>9. LoadPart(x, ins).trap = "none" /\ o.s = LoadPart(x, ins).s
  BY <1>1, <1>2, <1>7, Zenon
<1>10. /\ o.s.m = x.m /\ SameMap(x.p, o.s.p) /\ o.s.r.LoadReg = ins.rt
       /\ \A i \in 0 .. 3 :
            Digit(o.s.r.LoadValue, i) =
              IF Moves(ins.op, A % 4, i) THEN x.m[Place(x.p, a, i)]
              ELSE Digit(OldValue(x, ins.rt), i)
  BY <1>1, <1>2, <1>4, <1>6, <1>8, <1>9, LoadPartMoves
<1>11. s.m = o.s.m /\ s.p = o.s.p /\ Holds(s, ins.rt) = Holds(o.s, ins.rt)
  BY <1>1, <1>5 DEF Together, Alike
<1>12. Holds(o.s, ins.rt) = o.s.r.LoadValue
  BY <1>5, <1>10 DEF Holds
<1>13. OldValue(x, ins.rt) = Holds(c, ins.rt)
  <2>1. OldValue(x, ins.rt) = Holds(x, ins.rt)
    BY <1>5 DEF OldValue, Holds, Reg
  <2> QED
    BY <1>2, <2>1
<1>14. ASSUME NEW i \in 0 .. 3
       PROVE  Digit(Holds(s, ins.rt), i) =
                IF Moves(ins.op, A % 4, i) THEN c.m[Place(c.p, a, i)]
                ELSE Digit(Holds(c, ins.rt), i)
  <2>1. Place(c.p, a, i) = Place(x.p, a, i)
    BY <1>2, PlaceAlike
  <2> QED
    BY <1>2, <1>10, <1>11, <1>12, <1>13, <2>1, Zenon
<1>15. s.m = c.m /\ SameMap(c.p, s.p)
  BY <1>2, <1>10, <1>11, SameTwice
<1> QED
  BY <1>14, <1>15 DEF ins, c, A

LEMMA StoreMoves ==
  ASSUME NEW e, NEW s, Follows(e, s), e.trap = "none",
         e.ins.op \in {"SWL", "SWR"},
         NEW a \in Int, Target(e) = PartAt(e.ins.op, a)
  PROVE  /\ DOMAIN s.m = DOMAIN e.before.m /\ SameMap(e.before.p, s.p)
         /\ \A n \in GPR : Reg(s, n) = Holds(e.before, n)
         /\ s.r.LoadReg = "r0"
         /\ \A i \in 0 .. 3 : Moves(e.ins.op, Target(e) % 4, i) =>
              /\ WriteAt(e.before.p, Wrap(a + i), 1).trap = "none"
              /\ WriteAt(e.before.p, Wrap(a + i), 1).phys = Place(e.before.p, a, i)
              /\ s.m[Place(e.before.p, a, i)] = Digit(Reg(e.before, e.ins.rt), i)
         /\ \A c \in DOMAIN s.m :
              (\A i \in 0 .. 3 : Moves(e.ins.op, Target(e) % 4, i) => c # Place(e.before.p, a, i)) =>
                s.m[c] = e.before.m[c]
<1> DEFINE ins == e.ins
           d   == e.before
           x   == ReadMem(d, d.r.PC, 4).s
           A   == Target(e)
           o   == OneInstruction(d, ins)
<1>1. Typed(d) /\ Zeroed(d) /\ Fitting(ins) /\ o.trap = "none" /\ Together(s, o.s)
  BY DEF Follows
<1>2. /\ o = Execute(x, ins)
      /\ Typed(x) /\ x.r = d.r /\ x.m = d.m /\ SameMap(d.p, x.p)
      /\ \A n : Reg(x, n) = Reg(d, n) /\ Holds(x, n) = Holds(d, n)
  BY <1>1, Fetched
<1>3. A \in Word
  BY <1>1, AddressFits DEF Target
<1>4. A \in Int
  BY <1>3, UIs
<1>5. A = Wrap(Reg(x, ins.rs) + ins.extra)
  BY <1>2, Zenon DEF Target
<1>6. Execute(x, ins) = StorePart(x, ins)
  BY Dispatch
<1>7. ins.op \in {"SWL", "SWR"} /\ A = PartAt(ins.op, a)
  OBVIOUS
<1> HIDE DEF ins, d, x, A, o
<1>8. StorePart(x, ins).trap = "none" /\ o.s = StorePart(x, ins).s
  BY <1>1, <1>2, <1>6, Zenon
<1> DEFINE t == o.s
<1>9. /\ t.r.LoadReg = "r0" /\ \A n \in GPR : t.r.gen[n] = Holds(x, n)
      /\ SameMap(x.p, t.p) /\ DOMAIN t.m = DOMAIN x.m
      /\ \A i \in 0 .. 3 : Moves(ins.op, A % 4, i) =>
           /\ WriteAt(x.p, Wrap(a + i), 1).trap = "none"
           /\ WriteAt(x.p, Wrap(a + i), 1).phys = Place(x.p, a, i)
           /\ t.m[Place(x.p, a, i)] = Digit(Reg(x, ins.rt), i)
      /\ \A c \in DOMAIN x.m :
           (\A i \in 0 .. 3 : Moves(ins.op, A % 4, i) => c # Place(x.p, a, i)) =>
             t.m[c] = x.m[c]
  BY <1>1, <1>2, <1>4, <1>5, <1>7, <1>8, StorePartMoves
<1> HIDE DEF t
<1>10. /\ s.m = t.m /\ s.p = t.p /\ s.r.LoadReg \in {t.r.LoadReg, "r0"} /\ Zeroed(s) /\ Zeroed(t)
       /\ \A n \in GPR : Holds(s, n) = Holds(t, n)
  BY <1>1 DEF Together, Alike, t
<1>11. s.r.LoadReg = "r0"
  BY <1>9, <1>10
<1>12. ASSUME NEW n \in GPR PROVE Reg(s, n) = Holds(d, n)
  <2>1. Reg(s, n) = Holds(s, n) /\ Reg(t, n) = Holds(t, n)
    BY <1>9, <1>10, <1>11 DEF Holds, Zeroed, Reg
  <2> QED
    BY <1>2, <1>9, <1>10, <2>1, Zenon DEF Reg
<1>13. \A i \in 0 .. 3 :
         /\ Place(d.p, a, i) = Place(x.p, a, i)
         /\ WriteAt(d.p, Wrap(a + i), 1).trap = "none" <=> WriteAt(x.p, Wrap(a + i), 1).trap = "none"
         /\ WriteAt(d.p, Wrap(a + i), 1).phys = WriteAt(x.p, Wrap(a + i), 1).phys
  BY <1>2, PlaceAlike
<1>14. ASSUME NEW i \in 0 .. 3, Moves(ins.op, A % 4, i)
       PROVE  /\ WriteAt(d.p, Wrap(a + i), 1).trap = "none"
              /\ WriteAt(d.p, Wrap(a + i), 1).phys = Place(d.p, a, i)
              /\ s.m[Place(d.p, a, i)] = Digit(Reg(d, ins.rt), i)
  <2>1. Reg(x, ins.rt) = Reg(d, ins.rt)
    BY <1>2
  <2> QED
    BY <1>9, <1>10, <1>13, <1>14, <2>1, Zenon
<1>15. ASSUME NEW c \in DOMAIN s.m,
              \A i \in 0 .. 3 : Moves(ins.op, A % 4, i) => c # Place(d.p, a, i)
       PROVE  s.m[c] = d.m[c]
  BY <1>2, <1>9, <1>10, <1>13, <1>15, Zenon
<1>16. DOMAIN s.m = DOMAIN d.m /\ SameMap(d.p, s.p)
  BY <1>2, <1>9, <1>10, SameTwice
<1> QED
  BY <1>11, <1>12, <1>14, <1>15, <1>16, Zenon DEF ins, d, A

-----------------------------------------------------------------------------
(* The two parts of a transfer *)

LEMMA WrapFour ==
  ASSUME NEW x \in Int
  PROVE  Wrap(x) % 4 = x % 4
<1> DEFINE Q == Pow2[Width - 2]
           y == Wrap(x)
           d == x \div Full
           u == x % Full
<1>1. Q \in Nat \ {0} /\ Full = 4 * Q
  BY Quarter
<1>2. Full \in Nat \ {0}
  BY <1>1
<1>3. d \in Int /\ u \in Int /\ x = Full * d + u
  BY <1>2, Divides
<1>4. y = u \/ y = u - Full
  BY DEF Wrap
<1> HIDE DEF Q, y, d, u
<1> DEFINE k == Q * d
<1>5. k \in Int /\ Full * d = 4 * k
  BY <1>1, <1>3
<1> HIDE DEF k
<1>6. x % 4 = u % 4
  BY <1>3, <1>5
<1>7. (u - Full) % 4 = u % 4
  BY <1>1, <1>3
<1> QED
  BY <1>4, <1>6, <1>7 DEF y

\* Between them the parts move every byte.
LEMMA PartsCover ==
  ASSUME NEW a \in Int, NEW l, NEW r, Left(l), ~Left(r), NEW i \in 0 .. 3
  PROVE  Moves(l, PartAt(l, a) % 4, i) \/ Moves(r, PartAt(r, a) % 4, i)
<1>1. PartAt(l, a) = Wrap(a + 3) /\ PartAt(r, a) = a
  BY DEF PartAt
<1>2. Wrap(a + 3) % 4 = (a + 3) % 4
  <2>1. a + 3 \in Int
    OBVIOUS
  <2> QED
    BY <2>1, WrapFour
<1>3. PartAt(l, a) % 4 = (a + 3) % 4 /\ PartAt(r, a) % 4 = a % 4
  BY <1>1, <1>2, Zenon
<1> DEFINE b == PartAt(l, a) % 4
           c == PartAt(r, a) % 4
<1> HIDE DEF b, c
<1>4. b = (a + 3) % 4 /\ c = a % 4
  BY <1>3 DEF b, c
<1>5. b \in 0 .. 3 /\ c \in 0 .. 3 /\ (b = 3 \/ b = c - 1)
  BY <1>4
<1>6. i >= 3 - b \/ i <= 3 - c
  BY <1>5
<1>7. (Moves(l, b, i) <=> i >= 3 - b) /\ (Moves(r, c, i) <=> i <= 3 - c)
  BY Zenon DEF Moves
<1> QED
  BY <1>6, <1>7 DEF b, c

\* One of e and f is left and the other right, and they are parts of the
\* transfer of the word at a.
Halves(e, f, a) ==
  /\ Left(e.ins.op) # Left(f.ins.op)
  /\ Target(e) = PartAt(e.ins.op, a) /\ Target(f) = PartAt(f.ins.op, a)
  /\ e.trap = "none" /\ f.trap = "none" /\ e.ins.rt = f.ins.rt

LEMMA HalvesCover ==
  ASSUME NEW e, NEW f, NEW a \in Int, Halves(e, f, a), NEW i \in 0 .. 3
  PROVE  Moves(e.ins.op, Target(e) % 4, i) \/ Moves(f.ins.op, Target(f) % 4, i)
<1>1. CASE Left(e.ins.op) /\ ~Left(f.ins.op)
  <2>1. Moves(e.ins.op, PartAt(e.ins.op, a) % 4, i) \/ Moves(f.ins.op, PartAt(f.ins.op, a) % 4, i)
    BY <1>1, PartsCover
  <2> QED
    BY <2>1, Zenon DEF Halves
<1>2. CASE ~Left(e.ins.op) /\ Left(f.ins.op)
  <2>1. Moves(e.ins.op, PartAt(e.ins.op, a) % 4, i) \/ Moves(f.ins.op, PartAt(f.ins.op, a) % 4, i)
    BY <1>2, PartsCover
  <2> QED
    BY <2>1, Zenon DEF Halves
<1>3. Left(e.ins.op) \in BOOLEAN /\ Left(f.ins.op) \in BOOLEAN
  BY DEF Left
<1> QED
  BY <1>1, <1>2, <1>3 DEF Halves

\* Both parts load, a register other than r0.
BothLoad(e, f) == {e.ins.op, f.ins.op} \subseteq {"LWL", "LWR"} /\ f.ins.rt # "r0"

\* The register n of s, with its load done, holds the word at a.
HoldsWord(s, n, a) == \A i \in 0 .. 3 : Digit(Holds(s, n), i) = s.m[Place(s.p, a, i)]

LEMMA LoadPair ==
  ASSUME NEW e, NEW f, NEW s, Follows(e, f.before), Follows(f, s),
         NEW a \in Int, Halves(e, f, a), BothLoad(e, f)
  PROVE  HoldsWord(s, f.ins.rt, a) /\ s.m = e.before.m
<1> DEFINE c  == e.before
           d  == f.before
           rt == f.ins.rt
<1>1. /\ e.trap = "none" /\ f.trap = "none" /\ e.ins.rt = f.ins.rt
      /\ Target(e) = PartAt(e.ins.op, a) /\ Target(f) = PartAt(f.ins.op, a)
      /\ e.ins.op \in {"LWL", "LWR"} /\ f.ins.op \in {"LWL", "LWR"} /\ rt # "r0"
  BY DEF Halves, BothLoad
<1>2. /\ d.m = c.m /\ SameMap(c.p, d.p)
      /\ \A i \in 0 .. 3 :
           Digit(Holds(d, rt), i) =
             IF Moves(e.ins.op, Target(e) % 4, i) THEN c.m[Place(c.p, a, i)]
             ELSE Digit(Holds(c, rt), i)
  BY <1>1, LoadMoves
<1>3. /\ s.m = d.m /\ SameMap(d.p, s.p)
      /\ \A i \in 0 .. 3 :
           Digit(Holds(s, rt), i) =
             IF Moves(f.ins.op, Target(f) % 4, i) THEN d.m[Place(d.p, a, i)]
             ELSE Digit(Holds(d, rt), i)
  BY <1>1, LoadMoves
<1> HIDE DEF c, d, rt
<1>4. SameMap(c.p, s.p)
  BY <1>2, <1>3, SameTwice
<1>5. ASSUME NEW i \in 0 .. 3 PROVE Digit(Holds(s, rt), i) = s.m[Place(s.p, a, i)]
  <2>1. Place(c.p, a, i) = Place(s.p, a, i) /\ Place(d.p, a, i) = Place(s.p, a, i)
    BY <1>3, <1>4, PlaceAlike
  <2>2. Moves(e.ins.op, Target(e) % 4, i) \/ Moves(f.ins.op, Target(f) % 4, i)
    BY HalvesCover
  <2>3. /\ Moves(f.ins.op, Target(f) % 4, i) => Digit(Holds(s, rt), i) = d.m[Place(d.p, a, i)]
        /\ ~Moves(f.ins.op, Target(f) % 4, i) => Digit(Holds(s, rt), i) = Digit(Holds(d, rt), i)
        /\ Moves(e.ins.op, Target(e) % 4, i) => Digit(Holds(d, rt), i) = c.m[Place(c.p, a, i)]
    BY <1>2, <1>3, Zenon
  <2>4. s.m = d.m /\ s.m = c.m
    BY <1>2, <1>3
  <2> QED
    BY <2>1, <2>2, <2>3, <2>4, Zenon
<1> QED
  BY <1>2, <1>3, <1>5 DEF c, rt, HoldsWord

\* The bytes of a word are different places, where they can be written.
LEMMA PlacesApart ==
  ASSUME NEW p, p \in [DOMAIN p -> PageEntry], PagesApart(p), NEW a \in Int,
         NEW i \in 0 .. 3, NEW j \in 0 .. 3,
         WriteAt(p, Wrap(a + i), 1).trap = "none", WriteAt(p, Wrap(a + i), 1).phys = Place(p, a, i),
         WriteAt(p, Wrap(a + j), 1).trap = "none", WriteAt(p, Wrap(a + j), 1).phys = Place(p, a, j),
         Place(p, a, i) = Place(p, a, j)
  PROVE  i = j
<1> DEFINE x == Wrap(a + i)
           y == Wrap(a + j)
<1>1. a + i \in Int /\ a + j \in Int
  OBVIOUS
<1>2. x \in Word /\ y \in Word /\ U(x) = (a + i) % Full /\ U(y) = (a + j) % Full
  BY <1>1, WrapIs
<1>3. x \in Int /\ y \in Int
  BY <1>2, UIs
<1> HIDE DEF x, y
<1> DEFINE yes == TRUE
<1>4. /\ Translate(p, x, 1, yes).trap = "none" /\ Translate(p, y, 1, yes).trap = "none"
      /\ Translate(p, x, 1, yes).phys = Translate(p, y, 1, yes).phys
  BY Zenon DEF WriteAt, x, y
<1>5. U(x) = U(y)
  BY <1>3, <1>4, FoundApart
<1>6. (a + i) % Full = (a + j) % Full
  BY <1>2, <1>5, Zenon
<1>7. Full \in Nat \ {0} /\ Full > 3
  BY WordFacts
<1> DEFINE m == (a + i) \div Full
           n == (a + j) \div Full
           z == (a + i) % Full
<1>8. m \in Int /\ n \in Int /\ z \in Int /\ a + i = Full * m + z /\ a + j = Full * n + z
  BY <1>1, <1>6, <1>7, Divides
<1> HIDE DEF m, n, z
<1> DEFINE k == m - n
<1>9. k \in Int /\ i - j = Full * k
  BY <1>7, <1>8
<1> HIDE DEF k
<1>10. k = 0
  <2>1. k >= 1 => Full * k >= Full
    BY <1>7, <1>9, Product
  <2>2. k <= -1 => Full * k <= -Full
    BY <1>7, <1>9, Product
  <2> DEFINE g == Full * k
  <2>3. g \in Int /\ i - j = g
    BY <1>7, <1>9
  <2> HIDE DEF g
  <2> QED
    BY <1>7, <1>9, <2>1, <2>2, <2>3 DEF g
<1> QED
  BY <1>7, <1>9, <1>10

LEMMA InMemory ==
  ASSUME NEW s, Typed(s), NEW z \in Int, WriteAt(s.p, z, 1).trap = "none"
  PROVE  WriteAt(s.p, z, 1).phys \in DOMAIN s.m
<1> DEFINE yes == TRUE
           n == 1
           t == Translate(s.p, z, n, yes)
           N == NumPhysPages * PageSize
<1>1. n \in {1, 2, 4} /\ yes \in BOOLEAN /\ s.p \in [DOMAIN s.p -> PageEntry]
  BY DEF Typed
<1>2. t.trap = "none"
  BY Zenon DEF WriteAt
<1> HIDE DEF yes
<1>3. t.phys \in Nat /\ t.phys + n <= N
  <2> HIDE DEF n
  <2> QED
    BY <1>1, <1>2, TranslateTyped
<1>4. DOMAIN s.m = 0 .. N - 1
  BY DEF Typed
<1>5. N \in Int
  BY MipsSimAssumption
<1>6. WriteAt(s.p, z, 1).phys = t.phys
  BY Zenon DEF WriteAt, yes
<1> HIDE DEF t, N
<1> QED
  BY <1>3, <1>4, <1>5, <1>6

LEMMA StorePair ==
  ASSUME NEW e, NEW f, NEW s, Follows(e, f.before), Follows(f, s),
         NEW a \in Int, Halves(e, f, a),
         e.ins.op \in {"SWL", "SWR"}, f.ins.op \in {"SWL", "SWR"},
         e.before.r.LoadReg # f.ins.rt
  PROVE  /\ \A i \in 0 .. 3 : Digit(Reg(s, f.ins.rt), i) = s.m[Place(s.p, a, i)]
         /\ \A b \in DOMAIN s.m : (\A i \in 0 .. 3 : b # Place(s.p, a, i)) => s.m[b] = e.before.m[b]
<1> DEFINE c  == e.before
           d  == f.before
           rt == f.ins.rt
           first(i)  == Moves(e.ins.op, Target(e) % 4, i)
           second(i) == Moves(f.ins.op, Target(f) % 4, i)
           spot(i) == Place(s.p, a, i)
           v == Reg(c, rt)
<1>1. /\ e.trap = "none" /\ f.trap = "none" /\ e.ins.rt = rt /\ rt \in GPR
      /\ Target(e) = PartAt(e.ins.op, a) /\ Target(f) = PartAt(f.ins.op, a)
  BY DEF Halves, Follows, Fitting, Decoded
<1>2. Typed(c) /\ Zeroed(c) /\ Typed(d) /\ Zeroed(d)
  BY DEF Follows
<1>3. /\ DOMAIN d.m = DOMAIN c.m /\ SameMap(c.p, d.p)
      /\ \A n \in GPR : Reg(d, n) = Holds(c, n)
      /\ d.r.LoadReg = "r0"
      /\ \A i \in 0 .. 3 : first(i) =>
           /\ WriteAt(c.p, Wrap(a + i), 1).trap = "none"
           /\ WriteAt(c.p, Wrap(a + i), 1).phys = Place(c.p, a, i)
           /\ d.m[Place(c.p, a, i)] = Digit(Reg(c, rt), i)
      /\ \A b \in DOMAIN d.m : (\A i \in 0 .. 3 : first(i) => b # Place(c.p, a, i)) =>
           d.m[b] = c.m[b]
  BY <1>1, StoreMoves
<1>4. /\ DOMAIN s.m = DOMAIN d.m /\ SameMap(d.p, s.p)
      /\ \A n \in GPR : Reg(s, n) = Holds(d, n)
      /\ \A i \in 0 .. 3 : second(i) =>
           /\ WriteAt(d.p, Wrap(a + i), 1).trap = "none"
           /\ WriteAt(d.p, Wrap(a + i), 1).phys = Place(d.p, a, i)
           /\ s.m[Place(d.p, a, i)] = Digit(Reg(d, rt), i)
      /\ \A b \in DOMAIN s.m : (\A i \in 0 .. 3 : second(i) => b # Place(d.p, a, i)) =>
           s.m[b] = d.m[b]
  BY <1>1, StoreMoves
<1>5. c.r.LoadReg # rt
  OBVIOUS
<1>6. \A i \in 0 .. 3 : first(i) \/ second(i)
  BY HalvesCover
<1>7. SameMap(c.p, s.p)
  BY <1>3, <1>4, SameTwice
<1> HIDE DEF c, d, rt, first, second, spot, v
<1>8. Reg(d, rt) = v /\ Reg(s, rt) = v
  <2>1. Holds(c, rt) = Reg(c, rt)
    BY <1>2, <1>5 DEF Holds, Zeroed, Reg
  <2>2. Holds(d, rt) = Reg(d, rt)
    BY <1>2, <1>3 DEF Holds, Zeroed, Reg
  <2> QED
    BY <1>1, <1>3, <1>4, <2>1, <2>2, Zenon DEF v
<1>9. ASSUME NEW i \in 0 .. 3
      PROVE  /\ Place(c.p, a, i) = spot(i) /\ Place(d.p, a, i) = spot(i)
             /\ first(i) => /\ WriteAt(s.p, Wrap(a + i), 1).trap = "none"
                            /\ WriteAt(s.p, Wrap(a + i), 1).phys = spot(i)
                            /\ d.m[spot(i)] = Digit(v, i) /\ spot(i) \in DOMAIN s.m
             /\ second(i) => /\ WriteAt(s.p, Wrap(a + i), 1).trap = "none"
                             /\ WriteAt(s.p, Wrap(a + i), 1).phys = spot(i)
                             /\ s.m[spot(i)] = Digit(v, i)
  <2>1. /\ Place(c.p, a, i) = spot(i)
        /\ WriteAt(c.p, Wrap(a + i), 1).trap = "none" <=> WriteAt(s.p, Wrap(a + i), 1).trap = "none"
        /\ WriteAt(c.p, Wrap(a + i), 1).phys = WriteAt(s.p, Wrap(a + i), 1).phys
    BY <1>7, PlaceAlike DEF spot
  <2>2. /\ Place(d.p, a, i) = spot(i)
        /\ WriteAt(d.p, Wrap(a + i), 1).trap = "none" <=> WriteAt(s.p, Wrap(a + i), 1).trap = "none"
        /\ WriteAt(d.p, Wrap(a + i), 1).phys = WriteAt(s.p, Wrap(a + i), 1).phys
    BY <1>4, PlaceAlike DEF spot
  <2>3. ASSUME first(i) PROVE spot(i) \in DOMAIN s.m
    <3>1. WriteAt(c.p, Wrap(a + i), 1).trap = "none" /\ WriteAt(c.p, Wrap(a + i), 1).phys = spot(i)
      BY <1>3, <2>1, <2>3
    <3>2. a + i \in Int
      OBVIOUS
    <3>3. Wrap(a + i) \in Word
      BY <3>2, WrapIs
    <3>4. Wrap(a + i) \in Int
      BY <3>3, UIs
    <3>5. spot(i) \in DOMAIN c.m
      BY <1>2, <3>1, <3>4, InMemory
    <3> QED
      BY <1>3, <1>4, <3>5
  <2>4. ASSUME first(i)
        PROVE  /\ WriteAt(s.p, Wrap(a + i), 1).trap = "none"
               /\ WriteAt(s.p, Wrap(a + i), 1).phys = spot(i)
               /\ d.m[spot(i)] = Digit(v, i)
    <3>1. /\ WriteAt(c.p, Wrap(a + i), 1).trap = "none"
          /\ WriteAt(c.p, Wrap(a + i), 1).phys = Place(c.p, a, i)
          /\ d.m[Place(c.p, a, i)] = Digit(v, i)
      BY <1>3, <2>4 DEF v
    <3> QED
      BY <2>1, <3>1, Zenon
  <2>5. ASSUME second(i)
        PROVE  /\ WriteAt(s.p, Wrap(a + i), 1).trap = "none"
               /\ WriteAt(s.p, Wrap(a + i), 1).phys = spot(i)
               /\ s.m[spot(i)] = Digit(v, i)
    <3>1. /\ WriteAt(d.p, Wrap(a + i), 1).trap = "none"
          /\ WriteAt(d.p, Wrap(a + i), 1).phys = Place(d.p, a, i)
          /\ s.m[Place(d.p, a, i)] = Digit(Reg(d, rt), i)
      BY <1>4, <2>5
    <3> QED
      BY <1>8, <2>2, <3>1, Zenon
  <2> QED
    BY <2>1, <2>2, <2>3, <2>4, <2>5, Zenon
<1>10. s.p \in [DOMAIN s.p -> PageEntry] /\ PagesApart(s.p)
  <2>1. PagesApart(s.p)
    BY <1>2, <1>7, SameApart DEF Typed
  <2>2. Together(s, OneInstruction(d, f.ins).s) /\ Fitting(f.ins)
    BY <1>1 DEF Follows, d
  <2>3. Typed(OneInstruction(d, f.ins).s)
    BY <1>2, <2>2, InstructionTyped
  <2> QED
    BY <2>1, <2>2, <2>3 DEF Typed, Together, Alike
<1>11. ASSUME NEW i \in 0 .. 3 PROVE Digit(Reg(s, rt), i) = s.m[spot(i)]
  <2>1. CASE second(i)
    BY <1>8, <1>9, <2>1
  <2>2. CASE ~second(i)
    <3>1. first(i)
      BY <1>6, <2>2
    <3>2. ASSUME NEW j \in 0 .. 3, second(j) PROVE spot(i) # spot(j)
      <4> SUFFICES ASSUME spot(i) = spot(j) PROVE FALSE
        OBVIOUS
      <4>1. /\ WriteAt(s.p, Wrap(a + i), 1).trap = "none" /\ WriteAt(s.p, Wrap(a + i), 1).phys = spot(i)
            /\ WriteAt(s.p, Wrap(a + j), 1).trap = "none" /\ WriteAt(s.p, Wrap(a + j), 1).phys = spot(j)
        BY <1>9, <3>1, <3>2
      <4>2. i = j
        BY <1>10, <4>1, PlacesApart DEF spot
      <4> QED
        BY <2>2, <3>2, <4>2
    <3>3. spot(i) \in DOMAIN s.m /\ d.m[spot(i)] = Digit(v, i)
      BY <1>9, <3>1
    <3>4. \A j \in 0 .. 3 : second(j) => spot(i) # Place(d.p, a, j)
      BY <1>9, <3>2
    <3>5. s.m[spot(i)] = d.m[spot(i)]
      BY <1>4, <3>3, <3>4, Zenon
    <3> QED
      BY <1>8, <3>3, <3>5
  <2> QED
    BY <2>1, <2>2
<1>12. ASSUME NEW b \in DOMAIN s.m, \A i \in 0 .. 3 : b # spot(i) PROVE s.m[b] = c.m[b]
  <2>1. /\ \A i \in 0 .. 3 : second(i) => b # Place(d.p, a, i)
        /\ \A i \in 0 .. 3 : first(i) => b # Place(c.p, a, i)
    BY <1>9, <1>12, Zenon
  <2>2. s.m[b] = d.m[b]
    BY <1>4, <2>1, Zenon
  <2>3. b \in DOMAIN d.m
    BY <1>4
  <2>4. d.m[b] = c.m[b]
    BY <1>3, <2>1, <2>3, Zenon
  <2> QED
    BY <2>2, <2>4
<1> QED
  BY <1>11, <1>12, Zenon DEF spot, rt, c

-----------------------------------------------------------------------------
(* The invariant of the pairs *)

Previous == trace[Len(trace) - 1]

\* The processor is where its last instruction led from where the one before
\* it led from, but for loads that an interrupt has landed.
PairsInv ==
  /\ ArithmeticInv
  /\ trace # <<>> => Follows(Latest, cpu)
  /\ Len(trace) > 1 => Follows(Previous, Latest.before)

LEMMA PairsInvInit == ProcessorInit => PairsInv
<1> SUFFICES ASSUME ProcessorInit PROVE PairsInv
  OBVIOUS
<1>1. trace = <<>>
  BY DEF ProcessorInit
<1> QED
  BY <1>1, ArithmeticInvInit DEF PairsInv

\* What the history holds after another instruction.
LEMMA RecordedBefore ==
  ASSUME ProcessorInv, NEW ins, NEW trap, Recorded(ins, trap)
  PROVE  Len(trace') > 1 => trace # <<>> /\ Previous' = Latest
<1> DEFINE e == [ins |-> ins, before |-> cpu, trap |-> trap]
<1>1. PICK S : trace \in Seq(S)
  BY DEF ProcessorInv
<1>2. trace \in Seq(S \cup {e}) /\ e \in S \cup {e} /\ trace' = Append(trace, e)
  BY <1>1 DEF Recorded
<1> HIDE DEF e
<1>3. Len(trace') = Len(trace) + 1 /\ Len(trace) \in Nat
  BY <1>2
<1>4. Len(trace') > 1 => trace # <<>> /\ trace'[Len(trace)] = trace[Len(trace)]
  BY <1>2, <1>3
<1>5. Len(trace') - 1 = Len(trace)
  BY <1>3
<1> QED
  BY <1>4, <1>5 DEF Previous, Latest

LEMMA InstructionPairs ==
  ASSUME PairsInv, ArithmeticInv', NEW ins, Fitting(ins), RunInstruction(ins) \/ Syscall(ins)
  PROVE  PairsInv'
<1> DEFINE o == OneInstruction(cpu, ins)
           e == [ins |-> ins, before |-> cpu, trap |-> o.trap]
<1>1. Recorded(ins, o.trap) /\ (o.trap = "none" => cpu' = o.s)
  <2>1. CASE RunInstruction(ins)
    BY <2>1 DEF RunInstruction
  <2>2. CASE Syscall(ins)
    <3>1. o.trap = "Syscall" /\ Recorded(ins, o.trap)
      BY <2>2, Zenon DEF Syscall
    <3> QED
      BY <3>1
  <2> QED
    BY <2>1, <2>2
<1>2. ProcessorInv /\ Typed(cpu) /\ Zeroed(cpu) /\ Zeroed(cpu') /\ Formed(cpu')
  BY DEF PairsInv, ArithmeticInv, ProcessorInv
<1>3. Latest' = e
  BY <1>1, <1>2, RecordedLast
<1>4. Len(trace') > 1 => trace # <<>> /\ Previous' = Latest
  BY <1>1, <1>2, RecordedBefore
<1>5. e.ins = ins /\ e.before = cpu /\ e.trap = OneInstruction(cpu, ins).trap
  OBVIOUS
<1>6. o.trap = "none" => Together(cpu', o.s)
  <2>1. Together(cpu', cpu')
    BY <1>2 DEF Together, Alike
  <2> QED
    BY <1>1, <2>1
<1> HIDE DEF e
<1>7. Follows(e, cpu')
  BY <1>2, <1>5, <1>6, Zenon DEF Follows
<1>8. Len(trace') > 1 => Follows(Previous', Latest'.before)
  BY <1>3, <1>4, <1>5 DEF PairsInv
<1> HIDE DEF o
<1> QED
  BY <1>3, <1>7, <1>8 DEF PairsInv

LEMMA InterruptPairs ==
  ASSUME PairsInv, ArithmeticInv', Interrupt
  PROVE  PairsInv'
<1>1. cpu' = DelayedLoad(cpu, "r0", 0) /\ trace' = trace
  BY DEF Interrupt
<1>2. Formed(cpu)
  BY DEF PairsInv, ArithmeticInv, ProcessorInv
<1>3. /\ Formed(cpu')
      /\ cpu'.m = cpu.m /\ cpu'.p = cpu.p
      /\ cpu'.r.Hi = cpu.r.Hi /\ cpu'.r.Lo = cpu.r.Lo
      /\ cpu'.r.PC = cpu.r.PC /\ cpu'.r.NextPC = cpu.r.NextPC
      /\ cpu'.r.PrevPC = cpu.r.PrevPC /\ cpu'.r.BadVAddr = cpu.r.BadVAddr
      /\ cpu'.r.LoadReg = "r0" /\ cpu'.r.LoadValue = 0
      /\ \A n \in GPR : cpu'.r.gen[n] = Holds(cpu, n)
  BY <1>1, <1>2, ZeroWord, DelayedLeaves
<1>4. Zeroed(cpu')
  BY DEF ArithmeticInv, ProcessorInv
<1>5. ASSUME NEW d, Together(cpu, d) PROVE Together(cpu', d)
  <2>1. \A n \in GPR : Holds(cpu', n) = Holds(cpu, n)
    BY <1>3 DEF Holds
  <2>2. Alike(cpu', d)
    BY <1>3, <1>5, <2>1 DEF Together, Alike
  <2> QED
    BY <1>3, <1>4, <1>5, <2>2 DEF Together
<1>6. Latest' = Latest /\ Previous' = Previous
  BY <1>1 DEF Latest, Previous
<1>7. trace # <<>> => Follows(Latest, cpu')
  BY <1>5, Zenon DEF PairsInv, Follows
<1>8. Len(trace) > 1 => Follows(Previous, Latest.before)
  BY DEF PairsInv
<1> QED
  BY <1>1, <1>6, <1>7, <1>8, Zenon DEF PairsInv

LEMMA PairsInvNext == PairsInv /\ [ProcessorNext]_processorVars => PairsInv'
<1> SUFFICES ASSUME PairsInv, [ProcessorNext]_processorVars PROVE PairsInv'
  OBVIOUS
<1>1. ArithmeticInv'
  BY ArithmeticInvNext DEF PairsInv
<1>2. ASSUME NEW ins \in Programs[repertoire] PROVE Fitting(ins)
  BY ProcessorAssumption DEF PairsInv, ArithmeticInv, ProcessorInv, Fitting, Decoded
<1>3. CASE Interrupt
  BY <1>1, <1>3, InterruptPairs
<1>4. CASE \E ins \in Programs[repertoire] : RunInstruction(ins) \/ Syscall(ins)
  BY <1>1, <1>2, <1>4, InstructionPairs
<1>5. CASE UNCHANGED processorVars
  BY <1>1, <1>5 DEF PairsInv, processorVars, Latest, Previous
<1> QED
  BY <1>3, <1>4, <1>5 DEF ProcessorNext

LEMMA PairHalves ==
  ASSUME PairsInv, trace # <<>>, NEW a, NEW left, NEW right, IsPair(left, right, a),
         Left(left), ~Left(right)
  PROVE  /\ Follows(Previous, Latest.before) /\ Follows(Latest, cpu)
         /\ Halves(Previous, Latest, a)
         /\ Previous.ins.op \in {left, right} /\ Latest.ins.op \in {left, right}
<1> DEFINE n == Len(trace)
<1>1. /\ n > 1 /\ Previous.trap = "none" /\ Latest.trap = "none"
      /\ Previous.ins.rt = Latest.ins.rt
  BY DEF IsPair, Previous, Latest
<1>2. PICK l \in {n - 1, n}, k \in {n - 1, n} :
        /\ trace[l].ins.op = left  /\ Address(l) = Wrap(a + 3)
        /\ trace[k].ins.op = right /\ Address(k) = a
  BY DEF IsPair
<1>3. /\ Target(trace[l]) = PartAt(left, a) /\ Target(trace[k]) = PartAt(right, a)
  BY <1>2, Zenon DEF Target, Address, PartAt
<1>4. l # k
  BY <1>2
<1>5. \/ trace[l] = Previous /\ trace[k] = Latest
      \/ trace[l] = Latest /\ trace[k] = Previous
  BY <1>4 DEF Previous, Latest
<1> HIDE DEF n
<1>6. Left(Previous.ins.op) # Left(Latest.ins.op)
  BY <1>2, <1>5
<1>7. Target(Previous) = PartAt(Previous.ins.op, a) /\ Target(Latest) = PartAt(Latest.ins.op, a)
  BY <1>2, <1>3, <1>5, Zenon
<1>8. Follows(Previous, Latest.before) /\ Follows(Latest, cpu)
  BY <1>1 DEF PairsInv, n
<1> QED
  BY <1>1, <1>2, <1>5, <1>6, <1>7, <1>8 DEF Halves

\* LWL and LWR, and SWL and SWR, together move the word at any address,
\* aligned or not, in either order, whatever interrupts come between them, and
\* touch nothing else (mipssim.cc:315, mipssim.cc:625): for every width of a
\* byte, every page table that gives no frame to two pages that are written,
\* and a word on two pages.
THEOREM PairsWholeCorrect == ProcessorSpec => []PairsWhole
<1>1. PairsInv => PairsWhole
  <2> SUFFICES ASSUME PairsInv, trace # <<>>, mode = "user" PROVE PairsWhole
    BY DEF PairsWhole
  <2> DEFINE n  == Len(trace)
             rt == Latest.ins.rt
             a0 == Address(n)
             word(w) == [i \in 0 .. 3 |-> Low(Down(w, i), 1)]
  <2>1. Follows(Latest, cpu) /\ Typed(cpu) /\ Formed(cpu)
    BY DEF PairsInv, ArithmeticInv, Typed
  <2>2. rt \in GPR
    BY <2>1 DEF Follows, Fitting, Decoded
  <2>3. a0 \in Word
    BY <2>1, AddressFits DEF Follows, Address, Latest
  <2>4. a0 \in Int /\ Wrap(a0 - 3) \in Int
    <3>1. a0 \in Int
      BY <2>3, UIs
    <3> HIDE DEF a0
    <3>2. a0 - 3 \in Int
      BY <3>1
    <3>3. Wrap(a0 - 3) \in Word
      BY <3>2, WrapIs
    <3> QED
      BY <3>1, <3>3, UIs
  <2> HIDE DEF n, rt, a0
  <2>5. Previous = trace[n - 1]
    BY DEF Previous, n
  <2>6. Reg(Settled(cpu), rt) = Holds(cpu, rt)
    BY <2>1, <2>2, ZeroWord, DelayedLeaves DEF Settled, Reg
  <2>7. ASSUME NEW w \in Word, NEW a \in Int,
               \A i \in 0 .. 3 : Digit(w, i) = cpu.m[Place(cpu.p, a, i)]
        PROVE  word(w) = [i \in 0 .. 3 |-> VirtualByte(cpu, Wrap(a + i))]
    <3>1. w \in Int
      BY <2>7, UIs
    <3>2. ASSUME NEW i \in 0 .. 3 PROVE Low(Down(w, i), 1) = VirtualByte(cpu, Wrap(a + i))
      <4>1. Low(Down(w, i), 1) = Digit(w, i)
        BY <3>1, ByteIs
      <4>2. VirtualByte(cpu, Wrap(a + i)) = cpu.m[Place(cpu.p, a, i)]
        BY Zenon DEF VirtualByte, Place, ReadAt
      <4> QED
        BY <2>7, <4>1, <4>2, Zenon
    <3> QED
      BY <3>2
  <2>8. ASSUME NEW a \in Int, IsPair("LWL", "LWR", a), rt # "r0"
        PROVE  /\ word(Reg(Settled(cpu), rt)) = [i \in 0 .. 3 |-> VirtualByte(cpu, Wrap(a + i))]
               /\ cpu.m = trace[n - 1].before.m
    <3>1. Left("LWL") /\ ~Left("LWR")
      BY DEF Left
    <3>2. /\ Follows(Previous, Latest.before) /\ Halves(Previous, Latest, a)
          /\ Previous.ins.op \in {"LWL", "LWR"} /\ Latest.ins.op \in {"LWL", "LWR"}
      BY <2>8, <3>1, PairHalves
    <3>3. BothLoad(Previous, Latest)
      BY <2>8, <3>2 DEF BothLoad, rt
    <3>4. HoldsWord(cpu, Latest.ins.rt, a) /\ cpu.m = Previous.before.m
      BY <2>1, <2>8, <3>2, <3>3, LoadPair, Zenon
    <3>5. \A i \in 0 .. 3 : Digit(Holds(cpu, rt), i) = cpu.m[Place(cpu.p, a, i)]
      BY <3>4 DEF HoldsWord, rt
    <3>6. Holds(cpu, rt) \in Word
      BY <2>1, <2>2, HoldsTyped
    <3> QED
      BY <2>5, <2>6, <2>7, <3>4, <3>5, <3>6
  <2>9. ASSUME NEW a \in Int, IsPair("SWL", "SWR", a), trace[n - 1].before.r.LoadReg # rt
        PROVE  /\ word(Reg(cpu, rt)) = [i \in 0 .. 3 |-> VirtualByte(cpu, Wrap(a + i))]
               /\ \A b \in DOMAIN cpu.m \ {Translate(cpu.p, Wrap(a + i), 1, FALSE).phys : i \in 0 .. 3} :
                    cpu.m[b] = trace[n - 1].before.m[b]
    <3>1. Left("SWL") /\ ~Left("SWR")
      BY DEF Left
    <3>2. /\ Follows(Previous, Latest.before) /\ Halves(Previous, Latest, a)
          /\ Previous.ins.op \in {"SWL", "SWR"} /\ Latest.ins.op \in {"SWL", "SWR"}
      BY <2>9, <3>1, PairHalves
    <3>3. Previous.before.r.LoadReg # rt
      BY <2>5, <2>9
    <3>4. /\ \A i \in 0 .. 3 : Digit(Reg(cpu, rt), i) = cpu.m[Place(cpu.p, a, i)]
          /\ \A b \in DOMAIN cpu.m :
               (\A i \in 0 .. 3 : b # Place(cpu.p, a, i)) => cpu.m[b] = Previous.before.m[b]
      BY <2>1, <2>9, <3>2, <3>3, StorePair DEF rt
    <3>5. Reg(cpu, rt) \in Word
      BY <2>1, <2>2, RegTyped
    <3>6. word(Reg(cpu, rt)) = [i \in 0 .. 3 |-> VirtualByte(cpu, Wrap(a + i))]
      BY <2>7, <2>9, <3>4, <3>5
    <3>7. ASSUME NEW b \in DOMAIN cpu.m \ {Translate(cpu.p, Wrap(a + i), 1, FALSE).phys : i \in 0 .. 3}
          PROVE  cpu.m[b] = trace[n - 1].before.m[b]
      <4> DEFINE byte(i) == Translate(cpu.p, Wrap(a + i), 1, FALSE).phys
      <4>0. \A i \in 0 .. 3 : byte(i) = Place(cpu.p, a, i)
        BY Zenon DEF Place, ReadAt
      <4>1. \A i \in 0 .. 3 : b # Place(cpu.p, a, i)
        <5>1. b \notin {byte(i) : i \in 0 .. 3}
          BY <3>7
        <5> HIDE DEF byte
        <5> QED
          BY <4>0, <5>1
      <4> QED
        BY <2>5, <3>4, <4>1
    <3> QED
      BY <3>6, <3>7
  <2> HIDE DEF word
  <2>10. ASSUME NEW a \in {a0, Wrap(a0 - 3)} PROVE a \in Int
    BY <2>4
  <2> QED
    BY <2>8, <2>9, <2>10, Zenon DEF PairsWhole, n, rt, a0, word
<1> QED
  BY <1>1, PairsInvInit, PairsInvNext, PTL DEF ProcessorSpec
=============================================================================
