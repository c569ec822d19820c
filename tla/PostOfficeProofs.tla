-------------------------- MODULE PostOfficeProofs --------------------------
(***************************************************************************)
(* Theorems about PostOffice, for every set of machines, boxes and         *)
(* senders and any number of letters.                                      *)
(***************************************************************************)
EXTENDS PostOffice, SequenceTheorems, TLAPS

-----------------------------------------------------------------------------
(* The inductive invariant *)

Holding == {"locked", "sending", "sent"}

\* What each sender has in hand.
LettersReady ==
  \A s \in Sender : pc[s] # "idle" => letter[s] \in Mail /\ letter[s].from = s

\* Of the senders of a machine one holds the lock, and an interrupt is scheduled
\* or waits to be taken just while that one waits for it.
OneSender ==
  /\ \A s \in Sender : pc[s] \in Holding => sendLock[Home[s]] = 0
  /\ \A s, r \in Sender :
       pc[s] \in Holding /\ pc[r] \in Holding /\ Home[s] = Home[r] => s = r
  /\ \A s \in Sender : pc[s] = "sending" => sendInt[Home[s]] + messageSent[Home[s]] = 1
  /\ \A h \in Host : sendInt[h] + messageSent[h] # 0 =>
       \E s \in Sender : Home[s] = h /\ pc[s] = "sending"

\* The worker was told once of a packet it takes, and holds a letter to put.
WorkerReady ==
  \A h \in Host : /\ worker[h] = "receive" => messageAvailable[h] = 0
                  /\ worker[h] = "put" => hand[h] \in Mail

Inv == TypeOK /\ LettersReady /\ OneSender /\ WorkerReady /\ BufferMatchesWorker

LEMMA InvInit == Init => Inv
<1> SUFFICES ASSUME Init PROVE Inv
  OBVIOUS
<1>1. TypeOK
  BY PostOfficeAssumption DEF Init, TypeOK
<1>2. LettersReady /\ WorkerReady /\ BufferMatchesWorker
  BY DEF Init, LettersReady, WorkerReady, BufferMatchesWorker
<1>3. OneSender
  BY PostOfficeAssumption DEF Init, OneSender, Holding
<1> QED
  BY <1>1, <1>2, <1>3 DEF Inv

\* While no sender of a machine waits for it there is no interrupt.
LEMMA NoInterrupt ==
  ASSUME Inv, NEW s \in Sender, pc[s] \in {"locked", "sent"}
  PROVE  sendInt[Home[s]] = 0 /\ messageSent[Home[s]] = 0
<1> DEFINE h == Home[s]
<1>1. h \in Host
  BY PostOfficeAssumption
<1>2. \A r \in Sender : ~ (Home[r] = h /\ pc[r] = "sending")
  BY DEF Inv, OneSender, Holding
<1>3. ~ (sendInt[h] + messageSent[h] # 0)
  BY <1>1, <1>2 DEF Inv, OneSender
<1>4. sendInt[h] \in 0 .. 1 /\ messageSent[h] \in 0 .. 1
  BY <1>1 DEF Inv, TypeOK
<1> HIDE DEF h
<1>5. sendInt[h] = 0 /\ messageSent[h] = 0
  BY <1>3, <1>4
<1> QED
  BY <1>5 DEF h

\* Send and the handlers of the sending side.
LEMMA OutSteps ==
  ASSUME Inv, NEW s \in Sender,
         (\E a \in Address : Send(s, a[1], a[2])) \/ Sending(s)
  PROVE  Inv'
<1> USE PostOfficeAssumption DEF Inv
<1> DEFINE h == Home[s]
<1>0. h \in Host
  OBVIOUS
<1>1. CASE \E a \in Address : Send(s, a[1], a[2])
  <2>1. PICK a \in Address : Send(s, a[1], a[2])
    BY <1>1
  <2>2. a[1] \in Host /\ a[2] \in Box
    OBVIOUS
  <2> DEFINE l == [from |-> s, number |-> sent'[s], to |-> a[1], box |-> a[2]]
  <2>3. sent' \in [Sender -> 0 .. MaxSends] /\ sent'[s] \in 1 .. MaxSends
    BY <2>1 DEF Send, TypeOK
  <2>4. l \in Mail /\ l.from = s
    BY <2>2, <2>3 DEF Mail
  <2>5. letter' = [letter EXCEPT ![s] = l]
    BY <2>1 DEF Send
  <2> HIDE DEF l
  <2>6. /\ letter'[s] \in Mail /\ letter'[s].from = s
        /\ letter' \in [Sender -> Mail \cup {NoLetter}]
        /\ \A r \in Sender \ {s} : letter'[r] = letter[r]
    BY <2>4, <2>5 DEF TypeOK
  <2>7. TypeOK'
    BY <2>1, <2>3, <2>6 DEF Send, GoTo, TypeOK, inVars
  <2>8. LettersReady'
    BY <2>1, <2>6 DEF Send, GoTo, TypeOK, LettersReady
  <2>9. OneSender'
    BY <2>1 DEF Send, GoTo, TypeOK, OneSender, Holding
  <2> QED
    BY <2>1, <2>7, <2>8, <2>9
    DEF Send, inVars, WorkerReady, BufferMatchesWorker
<1>2. CASE Acquire(s)
  <2>1. TypeOK'
    BY <1>2 DEF Acquire, GoTo, TypeOK, inVars
  <2>2. LettersReady'
    BY <1>2 DEF Acquire, GoTo, TypeOK, LettersReady
  <2>3. OneSender'
    BY <1>2 DEF Acquire, GoTo, TypeOK, OneSender, Holding
  <2> QED
    BY <1>2, <2>1, <2>2, <2>3 DEF Acquire, inVars, WorkerReady, BufferMatchesWorker
<1>3. CASE Transmit(s)
  <2>1. sendInt[h] = 0 /\ messageSent[h] = 0
    BY <1>3, NoInterrupt DEF Transmit
  <2>2. letter[s] \in Mail /\ letter[s].to \in Host
    BY <1>3 DEF Transmit, LettersReady, Mail
  <2>3. socket' \in [Host -> Seq(Mail)]
    <3>1. Append(socket[letter[s].to], letter[s]) \in Seq(Mail)
      BY <2>2, AppendProperties DEF TypeOK
    <3> QED
      BY <1>3, <2>2, <3>1 DEF Transmit, TypeOK
  <2>4. sendInt' \in [Host -> 0 .. 1]
    BY <1>0, <1>3, <2>1 DEF Transmit, TypeOK
  <2>5. TypeOK'
    BY <1>3, <2>3, <2>4 DEF Transmit, GoTo, TypeOK
  <2>6. LettersReady'
    BY <1>3 DEF Transmit, GoTo, TypeOK, LettersReady
  <2>7. OneSender'
    BY <1>3, <2>1 DEF Transmit, GoTo, TypeOK, OneSender, Holding
  <2> QED
    BY <1>3, <2>5, <2>6, <2>7 DEF Transmit, WorkerReady, BufferMatchesWorker
<1>4. CASE WaitSent(s)
  <2>1. TypeOK'
    BY <1>4 DEF WaitSent, GoTo, TypeOK, inVars
  <2>2. LettersReady'
    BY <1>4 DEF WaitSent, GoTo, TypeOK, LettersReady
  <2>3. sendInt[h] = 0 /\ messageSent[h] = 1
    BY <1>4 DEF WaitSent, TypeOK, OneSender
  <2>4. OneSender'
    BY <1>4, <2>3 DEF WaitSent, GoTo, TypeOK, OneSender, Holding
  <2> QED
    BY <1>4, <2>1, <2>2, <2>4 DEF WaitSent, inVars, WorkerReady, BufferMatchesWorker
<1>5. CASE Release(s)
  <2>1. sendLock[h] = 0
    BY <1>5 DEF Release, OneSender, Holding
  <2>2. TypeOK'
    BY <1>5, <2>1 DEF Release, GoTo, TypeOK, inVars
  <2>3. LettersReady'
    BY <1>5 DEF Release, GoTo, TypeOK, LettersReady
  <2>4. OneSender'
    BY <1>5 DEF Release, GoTo, TypeOK, OneSender, Holding
  <2> QED
    BY <1>5, <2>2, <2>3, <2>4 DEF Release, inVars, WorkerReady, BufferMatchesWorker
<1> QED
  BY <1>1, <1>2, <1>3, <1>4, <1>5 DEF Sending

\* The interrupt of the sending side.
LEMMA SendDoneStep ==
  ASSUME Inv, NEW h \in Host, SendDone(h)
  PROVE  Inv'
<1> USE PostOfficeAssumption DEF Inv
<1>1. PICK s \in Sender : Home[s] = h /\ pc[s] = "sending"
  <2>1. sendInt[h] \in 0 .. 1 /\ messageSent[h] \in 0 .. 1 /\ sendInt[h] > 0
    BY DEF SendDone, TypeOK
  <2>2. sendInt[h] + messageSent[h] # 0
    BY <2>1
  <2> QED
    BY <2>2 DEF OneSender
<1>2. sendInt[h] = 1 /\ messageSent[h] = 0
  BY <1>1 DEF SendDone, TypeOK, OneSender
<1>3. TypeOK'
  BY <1>2 DEF SendDone, TypeOK, inVars
<1>4. LettersReady' /\ WorkerReady' /\ BufferMatchesWorker'
  BY DEF SendDone, inVars, LettersReady, WorkerReady, BufferMatchesWorker
<1>5. OneSender'
  BY <1>1, <1>2 DEF SendDone, TypeOK, OneSender, Holding
<1> QED
  BY <1>3, <1>4, <1>5

\* The steps of the receiving side.
LEMMA InSteps ==
  ASSUME Inv, NEW h \in Host,
         Poll(h) \/ PostalDelivery(h) \/ \E b \in Box : Receive(h, b)
  PROVE  Inv'
<1> USE PostOfficeAssumption DEF Inv
<1>1. LettersReady' /\ OneSender'
  <2>1. UNCHANGED outVars
    BY DEF Poll, PostalDelivery, AwaitMessage, ReceivePacket, Put, Receive
  <2> QED
    BY <2>1 DEF outVars, LettersReady, OneSender
<1>2. CASE Poll(h)
  <2>1. /\ Head(socket[h]) \in Mail /\ Tail(socket[h]) \in Seq(Mail)
        /\ messageAvailable[h] = 0 /\ worker[h] # "receive"
    BY <1>2 DEF Poll, TypeOK, BufferMatchesWorker
  <2>2. TypeOK'
    BY <1>2, <2>1 DEF Poll, TypeOK, outVars
  <2>3. WorkerReady' /\ BufferMatchesWorker'
    BY <1>2, <2>1 DEF Poll, TypeOK, WorkerReady, BufferMatchesWorker
  <2> QED
    BY <1>1, <2>2, <2>3
<1>3. CASE AwaitMessage(h)
  <2>1. TypeOK'
    BY <1>3 DEF AwaitMessage, TypeOK, outVars
  <2>2. WorkerReady' /\ BufferMatchesWorker'
    BY <1>3 DEF AwaitMessage, TypeOK, WorkerReady, BufferMatchesWorker
  <2> QED
    BY <1>1, <2>1, <2>2
<1>4. CASE ReceivePacket(h)
  <2>1. inbox[h] \in Mail /\ messageAvailable[h] = 0
    BY <1>4 DEF ReceivePacket, TypeOK, WorkerReady, BufferMatchesWorker
  <2>2. TypeOK'
    BY <1>4, <2>1 DEF ReceivePacket, TypeOK, outVars
  <2>3. WorkerReady' /\ BufferMatchesWorker'
    BY <1>4, <2>1 DEF ReceivePacket, TypeOK, WorkerReady, BufferMatchesWorker
  <2> QED
    BY <1>1, <2>2, <2>3
<1>5. CASE Put(h)
  <2>1. hand[h] \in Mail /\ hand[h].box \in Box
    BY <1>5 DEF Put, WorkerReady, Mail
  <2>2. boxes' \in [Host -> [Box -> Seq(Mail)]]
    BY <1>5, <2>1 DEF Put, TypeOK
  <2>3. TypeOK'
    BY <1>5, <2>2 DEF Put, TypeOK, outVars
  <2>4. WorkerReady' /\ BufferMatchesWorker'
    BY <1>5 DEF Put, TypeOK, WorkerReady, BufferMatchesWorker
  <2> QED
    BY <1>1, <2>3, <2>4
<1>6. ASSUME NEW b \in Box, Receive(h, b)
      PROVE  Inv'
  <2>1. Head(boxes[h][b]) \in Mail /\ Tail(boxes[h][b]) \in Seq(Mail)
    BY <1>6 DEF Receive, TypeOK
  <2>2. boxes' \in [Host -> [Box -> Seq(Mail)]] /\ taken' \in [Host -> [Box -> Seq(Mail)]]
    BY <1>6, <2>1 DEF Receive, TypeOK
  <2>3. TypeOK'
    BY <1>6, <2>2 DEF Receive, TypeOK, outVars
  <2>4. WorkerReady' /\ BufferMatchesWorker'
    BY <1>6 DEF Receive, WorkerReady, BufferMatchesWorker
  <2> QED
    BY <1>1, <2>3, <2>4
<1> QED
  BY <1>2, <1>3, <1>4, <1>5, <1>6 DEF PostalDelivery

LEMMA InvNext == Inv /\ [Next]_vars => Inv'
<1> SUFFICES ASSUME Inv, [Next]_vars PROVE Inv'
  OBVIOUS
<1>1. CASE UNCHANGED vars
  BY <1>1 DEF vars, inVars, outVars, Inv, TypeOK, LettersReady, OneSender, WorkerReady,
              BufferMatchesWorker
<1> QED
  BY <1>1, OutSteps, SendDoneStep, InSteps DEF Next

\* The inductive invariant holds (what the steps of post.cc and network.cc keep).
THEOREM InvCorrect == Spec => []Inv
BY InvInit, InvNext, PTL DEF Spec
\* A packet is buffered just while the worker has been told of it and has not
\* taken it (network.cc:66, post.cc:200).
THEOREM BufferCorrect == Spec => []BufferMatchesWorker
<1>1. Inv => BufferMatchesWorker
  BY DEF Inv
<1> QED
  BY <1>1, InvCorrect, PTL

\* However many threads send, a packet is handed to the network only after the
\* interrupt of the one before it was taken (post.cc:320-325, network.cc:165).
THEOREM NetworkFreeCorrect == Spec => []NetworkFree
<1>1. Inv => NetworkFree
  BY NoInterrupt DEF NetworkFree
<1> QED
  BY <1>1, InvCorrect, PTL

\* Nothing is overwritten on the way in or handed over too early on the way out,
\* on any machine, and the four counters stay 0 or 1.
THEOREM NetworkSoundCorrect == Spec => []NetworkSound
<1>1. Inv => NetworkSound
  BY NoInterrupt DEF Inv, NetworkSound, NetworkFree
<1> QED
  BY <1>1, InvCorrect, PTL

-----------------------------------------------------------------------------
(* The post office implements the mail service, as far as safety goes *)

\* The letters on their way to h, in the pieces the steps move.
LEMMA TransitTypes ==
  ASSUME Inv, NEW h \in Host
  PROVE  /\ Carried(h) \in Seq(Mail) /\ Buffered(h) \in Seq(Mail)
         /\ socket[h] \in Seq(Mail) /\ OnTheWay(h) \in Seq(Mail)
<1>1. Carried(h) \in Seq(Mail)
  BY DEF Inv, WorkerReady, Carried
<1>2. Buffered(h) \in Seq(Mail)
  BY DEF Inv, TypeOK, Buffered
<1>3. socket[h] \in Seq(Mail)
  BY DEF Inv, TypeOK
<1> QED
  BY <1>1, <1>2, <1>3, ConcatProperties DEF OnTheWay

\* u is v with e behind it.
Longer(u, v, e) == u = Append(v, e)

LEMMA AppendConcat ==
  ASSUME NEW S, NEW p \in Seq(S), NEW q \in Seq(S), NEW r \in Seq(S), NEW e \in S
  PROVE  Longer(p \o (q \o Append(r, e)), p \o (q \o r), e)
<1>1. \A u \in Seq(S) : Append(u, e) = u \o <<e>>
  BY AppendIsConcat
<1>2. q \o r \in Seq(S) /\ p \o (q \o r) \in Seq(S) /\ <<e>> \in Seq(S)
  BY ConcatProperties
<1>3. q \o (r \o <<e>>) = (q \o r) \o <<e>>
  BY <1>2, ConcatAssociative
<1>4. p \o ((q \o r) \o <<e>>) = (p \o (q \o r)) \o <<e>>
  BY <1>2, ConcatAssociative
<1> QED
  BY <1>1, <1>2, <1>3, <1>4 DEF Longer

LEMMA HeadConcat ==
  ASSUME NEW S, NEW r \in Seq(S), r # <<>>
  PROVE  r = <<Head(r)>> \o Tail(r)
  BY HeadTailProperties, ConcatProperties, SeqEqual

\* A step of the sender s, which changes what is unsent.
LEMMA SenderStep ==
  ASSUME Inv, NEW s \in Sender,
         (\E a \in Address : Send(s, a[1], a[2])) \/ Sending(s)
  PROVE  Service!MailNext \/ UNCHANGED Service!mailVars
<1> USE PostOfficeAssumption DEF Inv
<1>1. ASSUME UNCHANGED inVars
      PROVE  UNCHANGED <<[h \in Host |-> OnTheWay(h)], boxes, taken>>
  BY <1>1 DEF inVars, OnTheWay, Carried, Buffered
<1>2. CASE \E a \in Address : Send(s, a[1], a[2])
  <2>1. PICK a \in Address : Send(s, a[1], a[2])
    BY <1>2
  <2>2. /\ UNCHANGED inVars /\ pc[s] = "idle"
        /\ pc' = [pc EXCEPT ![s] = "acquire"]
        /\ \A r \in Sender \ {s} : letter'[r] = letter[r]
    BY <2>1 DEF Send, GoTo, TypeOK
  <2>3. letter'[s] \in Mail /\ letter'[s].from = s
    BY <2>1, <2>2, OutSteps DEF LettersReady, TypeOK
  <2>4. Unsent' = Unsent \cup {letter'[s]}
    <3>1. \A r \in Sender : pc'[r] = IF r = s THEN "acquire" ELSE pc[r]
      BY <2>2 DEF TypeOK
    <3> QED
      BY <2>2, <3>1 DEF Unsent
  <2>5. letter'[s] \notin Unsent
    BY <2>2, <2>3 DEF Unsent, LettersReady
  <2>6. Service!Post(letter'[s])
    BY <1>1, <2>2, <2>4, <2>5 DEF Service!Post
  <2> QED
    BY <2>3, <2>6 DEF Service!MailNext
<1>3. CASE Acquire(s) \/ WaitSent(s) \/ Release(s)
  <2>1. UNCHANGED inVars
    BY <1>3 DEF Acquire, WaitSent, Release
  <2>2. Unsent' = Unsent
    BY <1>3 DEF Acquire, WaitSent, Release, GoTo, Unsent, TypeOK
  <2> QED
    BY <1>1, <2>1, <2>2 DEF Service!mailVars
<1>4. CASE Transmit(s)
  <2> DEFINE l == letter[s]
  <2>1. l \in Mail /\ l.from = s /\ l.to \in Host
    BY <1>4 DEF Transmit, LettersReady, Mail
  <2>2. l \in Unsent /\ Unsent' = Unsent \ {l}
    <3>1. /\ pc[s] = "locked" /\ letter' = letter
          /\ \A r \in Sender : pc'[r] = IF r = s THEN "sending" ELSE pc[r]
      BY <1>4 DEF Transmit, GoTo, TypeOK
    <3>2. \A r \in Sender \ {s} : pc[r] # "idle" => letter[r] # l
      BY <2>1 DEF LettersReady
    <3> QED
      BY <3>1, <3>2 DEF Unsent
  <2>3. UNCHANGED <<boxes, taken, worker, hand, inbox>>
    BY <1>4 DEF Transmit
  <2>4. CASE UNCHANGED socket
    <3>1. [h \in Host |-> OnTheWay(h)]' = [h \in Host |-> OnTheWay(h)]
      BY <2>3, <2>4 DEF OnTheWay, Carried, Buffered
    <3>2. Service!Lose(l)
      BY <2>2, <2>3, <3>1 DEF Service!Lose
    <3> QED
      BY <2>1, <3>2 DEF Service!MailNext
  <2>5. CASE socket' = [socket EXCEPT ![l.to] = Append(@, l)]
    <3> PICK m \in Host : m = l.to
      BY <2>1
    <3>1. \A h \in Host : socket'[h] = IF h = m THEN Append(socket[h], l) ELSE socket[h]
      BY <2>5 DEF TypeOK
    <3>2. \A h \in Host : Carried(h)' = Carried(h) /\ Buffered(h)' = Buffered(h)
      BY <2>3 DEF Carried, Buffered
    <3>3. OnTheWay(m)' = Append(OnTheWay(m), l)
      <4>1. /\ Carried(m) \in Seq(Mail) /\ Buffered(m) \in Seq(Mail)
            /\ socket[m] \in Seq(Mail)
        BY TransitTypes
      <4>2. OnTheWay(m)' = Carried(m) \o (Buffered(m) \o Append(socket[m], l))
        BY <3>1, <3>2 DEF OnTheWay
      <4>3. l \in Mail
        BY <2>1
      <4>4. Carried(m) \o (Buffered(m) \o Append(socket[m], l))
              = Append(Carried(m) \o (Buffered(m) \o socket[m]), l)
        <5> DEFINE p == Carried(m)
                   q == Buffered(m)
                   r == socket[m]
        <5>1. p \in Seq(Mail) /\ q \in Seq(Mail) /\ r \in Seq(Mail)
          BY <4>1, Zenon
        <5> HIDE DEF p, q, r
        <5>2. Longer(p \o (q \o Append(r, l)), p \o (q \o r), l)
          BY <4>3, <5>1, AppendConcat, Zenon
        <5> QED
          BY <5>2, Zenon DEF Longer, p, q, r
      <4> QED
        BY <4>2, <4>4 DEF OnTheWay
    <3>4. \A h \in Host : h # m => OnTheWay(h)' = OnTheWay(h)
      BY <3>1, <3>2 DEF OnTheWay
    <3>5. [h \in Host |-> OnTheWay(h)]'
            = [[h \in Host |-> OnTheWay(h)] EXCEPT ![m] = Append(@, l)]
      BY <3>3, <3>4
    <3>6. Service!Carry(l)
      BY <2>2, <2>3, <3>5 DEF Service!Carry
    <3> QED
      BY <2>1, <3>6 DEF Service!MailNext
  <2> QED
    BY <1>4, <2>4, <2>5 DEF Transmit
<1> QED
  BY <1>2, <1>3, <1>4 DEF Sending

\* A step of the receiving side of h: only Put and Receive show.
LEMMA ReceiverStep ==
  ASSUME Inv, NEW h \in Host,
         Poll(h) \/ PostalDelivery(h) \/ \E b \in Box : Receive(h, b)
  PROVE  Service!MailNext \/ UNCHANGED Service!mailVars
<1> USE DEF Inv
<1>0. Unsent' = Unsent
  BY DEF Poll, PostalDelivery, AwaitMessage, ReceivePacket, Put, Receive, outVars, Unsent
<1>1. \A m \in Host \ {h} : OnTheWay(m)' = OnTheWay(m)
  BY DEF Poll, PostalDelivery, AwaitMessage, ReceivePacket, Put, Receive, TypeOK,
         OnTheWay, Carried, Buffered
<1>2. ASSUME OnTheWay(h)' = OnTheWay(h), UNCHANGED <<boxes, taken>>
      PROVE  UNCHANGED Service!mailVars
  BY <1>0, <1>1, <1>2 DEF Service!mailVars
<1>3. CASE Poll(h)
  <2>1. /\ socket[h] \in Seq(Mail) /\ socket[h] # <<>> /\ Head(socket[h]) \in Mail
        /\ Carried(h)' = Carried(h) /\ Buffered(h) = <<>>
        /\ socket'[h] = Tail(socket[h]) /\ inbox'[h] = Head(socket[h])
    BY <1>3 DEF Poll, TypeOK, Carried, Buffered
  <2>2. Buffered(h)' = <<Head(socket[h])>>
    BY <2>1, PostOfficeAssumption DEF Buffered
  <2>3. Buffered(h)' \o socket'[h] = Buffered(h) \o socket[h]
    BY <2>1, <2>2, HeadConcat, ConcatEmptySeq
  <2> QED
    BY <1>2, <1>3, <2>1, <2>3 DEF OnTheWay, Poll
<1>4. CASE AwaitMessage(h)
  <2>1. OnTheWay(h)' = OnTheWay(h)
    BY <1>4 DEF AwaitMessage, TypeOK, OnTheWay, Carried, Buffered
  <2> QED
    BY <1>2, <1>4, <2>1 DEF AwaitMessage
<1>5. CASE ReceivePacket(h)
  <2>1. inbox[h] \in Mail
    BY <1>5 DEF ReceivePacket, TypeOK, BufferMatchesWorker
  <2>2. /\ Carried(h) = <<>> /\ Buffered(h) = <<inbox[h]>>
        /\ Carried(h)' = <<inbox[h]>> /\ Buffered(h)' = <<>>
        /\ UNCHANGED socket
    BY <1>5, <2>1, PostOfficeAssumption DEF ReceivePacket, TypeOK, Carried, Buffered
  <2>3. OnTheWay(h)' = OnTheWay(h)
    BY <2>2, TransitTypes, ConcatEmptySeq, ConcatProperties DEF OnTheWay
  <2> QED
    BY <1>2, <1>5, <2>3 DEF ReceivePacket
<1>6. CASE Put(h)
  <2> DEFINE l == hand[h]
             rest == Buffered(h) \o socket[h]
  <2>1. l \in Mail /\ l.box \in Box
    BY <1>6 DEF Put, WorkerReady, Mail
  <2>2. rest \in Seq(Mail)
    BY TransitTypes, ConcatProperties
  <2>3. OnTheWay(h) = <<l>> \o rest
    BY <1>6 DEF Put, OnTheWay, Carried
  <2>4. OnTheWay(h)' = rest
    <3>1. Carried(h)' = <<>> /\ Buffered(h)' = Buffered(h) /\ socket' = socket
      BY <1>6 DEF Put, TypeOK, Carried, Buffered
    <3> QED
      BY <2>2, <3>1, ConcatEmptySeq DEF OnTheWay
  <2> HIDE DEF rest
  <2>5. OnTheWay(h) # <<>> /\ Head(OnTheWay(h)) = l /\ Tail(OnTheWay(h)) = rest
    BY <2>1, <2>2, <2>3, ConcatProperties, HeadTailProperties, SeqEqual
  <2>6. [m \in Host |-> OnTheWay(m)]'
          = [[m \in Host |-> OnTheWay(m)] EXCEPT ![h] = Tail(@)]
    BY <1>1, <2>4, <2>5
  <2>7. Service!Deliver(h)
    BY <1>0, <1>6, <2>5, <2>6 DEF Put, Service!Deliver
  <2> QED
    BY <2>7 DEF Service!MailNext
<1>7. ASSUME NEW b \in Box, Receive(h, b)
      PROVE  Service!MailNext
  <2>1. OnTheWay(h)' = OnTheWay(h)
    BY <1>7 DEF Receive, OnTheWay, Carried, Buffered
  <2>2. Service!Fetch(h, b)
    BY <1>0, <1>1, <1>7, <2>1 DEF Receive, Service!Fetch
  <2> QED
    BY <2>2 DEF Service!MailNext
<1> QED
  BY <1>3, <1>4, <1>5, <1>6, <1>7 DEF PostalDelivery

LEMMA MailStep == Inv /\ [Next]_vars => [Service!MailNext]_(Service!mailVars)
<1> SUFFICES ASSUME Inv, [Next]_vars
             PROVE  Service!MailNext \/ UNCHANGED Service!mailVars
  OBVIOUS
<1>1. CASE UNCHANGED vars
  BY <1>1 DEF vars, inVars, outVars, Service!mailVars, Unsent, OnTheWay, Carried, Buffered
<1>2. ASSUME NEW h \in Host, SendDone(h)
      PROVE  UNCHANGED Service!mailVars
  BY <1>2 DEF SendDone, inVars, Service!mailVars, Unsent, OnTheWay, Carried, Buffered
<1> QED
  BY <1>1, <1>2, SenderStep, ReceiverStep DEF Next

\* Buffers, interrupts and the postal worker of every machine together deliver
\* letters as MailService does: each at most once, to its box, in the order in
\* which they were handed to the network.
THEOREM DeliveryRefinement == Spec => Service!MailSafety
<1>1. Init => Service!MailInit
  <2> SUFFICES ASSUME Init PROVE Service!MailInit
    OBVIOUS
  <2>1. Unsent = {}
    BY DEF Init, Unsent
  <2>2. \A h \in Host : OnTheWay(h) = <<>>
    <3> SUFFICES ASSUME NEW h \in Host PROVE OnTheWay(h) = <<>>
      OBVIOUS
    <3>1. Carried(h) = <<>> /\ Buffered(h) = <<>> /\ socket[h] = <<>>
      BY DEF Init, Carried, Buffered
    <3> QED
      BY <3>1, ConcatEmptySeq, EmptySeq DEF OnTheWay
  <2> QED
    BY <2>1, <2>2 DEF Init, Service!MailInit
<1> QED
  BY <1>1, MailStep, InvCorrect, PTL DEF Spec, Service!MailSafety
=============================================================================
