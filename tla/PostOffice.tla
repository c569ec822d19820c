----------------------------- MODULE PostOffice -----------------------------
(***************************************************************************)
(* Machines on a network: the simulated network device of                  *)
(* machine/network.cc and the post office of network/post.cc.              *)
(*                                                                         *)
(* A step of a thread is the code between two points at which interrupts   *)
(* are enabled.  A semaphore's P is a guard on its value (see Threads); a  *)
(* mailbox is a synchronized list whose calls are single steps (see        *)
(* SynchList).  Headers and payload are one letter.                        *)
(***************************************************************************)
EXTENDS Naturals, Sequences, FiniteSets

CONSTANTS
  Host,       \* machines
  Sender,     \* threads that call PostOfficeOutput::Send
  Home,       \* [Sender -> Host]
  Box,        \* mailboxes of a machine
  Address,    \* the pairs <<host, box>> that letters are sent to
  NoLetter,   \* an empty packet buffer
  MaxSends    \* bound: letters of one sender

Mail == [from : Sender, number : 1 .. MaxSends, to : Host, box : Box]

ASSUME PostOfficeAssumption ==
  /\ Home \in [Sender -> Host]
  /\ Address \subseteq Host \X Box
  /\ MaxSends \in Nat
  /\ NoLetter \notin Mail

VARIABLES
  socket,            \* packets in each machine's socket
  inbox,             \* NetworkInput's buffer; NoLetter: inHdr.length = 0
  messageAvailable,  \* value of PostOfficeInput::messageAvailable
  worker,            \* where the postal worker stands
  hand,              \* the worker's buffer
  boxes,             \* the mailboxes
  taken,             \* history: the letters Receive returned
  sendLock,          \* value of the semaphore of PostOfficeOutput::sendLock
  messageSent,       \* value of PostOfficeOutput::messageSent
  sendInt,           \* number of scheduled NetworkSendInts
  pc,                \* where each sender stands
  letter,            \* what it sends
  sent               \* how many Sends it called

inVars  == <<socket, inbox, messageAvailable, worker, hand, boxes, taken>>
outVars == <<sendLock, messageSent, sendInt, pc, letter, sent>>
vars    == <<inVars, outVars>>

TypeOK ==
  /\ socket \in [Host -> Seq(Mail)]
  /\ inbox \in [Host -> Mail \cup {NoLetter}]
  /\ messageAvailable \in [Host -> 0 .. 1]
  /\ worker \in [Host -> {"wait", "receive", "put"}]
  /\ hand \in [Host -> Mail \cup {NoLetter}]
  /\ boxes \in [Host -> [Box -> Seq(Mail)]]
  /\ taken \in [Host -> [Box -> Seq(Mail)]]
  /\ sendLock \in [Host -> 0 .. 1]
  /\ messageSent \in [Host -> 0 .. 1]
  /\ sendInt \in [Host -> 0 .. 1]
  /\ pc \in [Sender -> {"idle", "acquire", "locked", "sending", "sent"}]
  /\ letter \in [Sender -> Mail \cup {NoLetter}]
  /\ sent \in [Sender -> 0 .. MaxSends]

Init ==
  /\ socket = [h \in Host |-> <<>>]
  /\ inbox = [h \in Host |-> NoLetter]
  /\ messageAvailable = [h \in Host |-> 0]
  /\ worker = [h \in Host |-> "wait"]
  /\ hand = [h \in Host |-> NoLetter]
  /\ boxes = [h \in Host |-> [b \in Box |-> <<>>]]
  /\ taken = [h \in Host |-> [b \in Box |-> <<>>]]
  /\ sendLock = [h \in Host |-> 1]
  /\ messageSent = [h \in Host |-> 0]
  /\ sendInt = [h \in Host |-> 0]
  /\ pc = [s \in Sender |-> "idle"]
  /\ letter = [s \in Sender |-> NoLetter]
  /\ sent = [s \in Sender |-> 0]

-----------------------------------------------------------------------------
(* PostOfficeOutput::Send *)

GoTo(s, l) == pc' = [pc EXCEPT ![s] = l]

Send(s, h, b) ==
  /\ pc[s] = "idle"
  /\ sent[s] < MaxSends
  /\ sent' = [sent EXCEPT ![s] = @ + 1]
  /\ letter' = [letter EXCEPT ![s] = [from |-> s, number |-> sent'[s], to |-> h, box |-> b]]
  /\ GoTo(s, "acquire")
  /\ UNCHANGED <<inVars, sendLock, messageSent, sendInt>>

Acquire(s) ==
  /\ pc[s] = "acquire"
  /\ sendLock[Home[s]] > 0
  /\ sendLock' = [sendLock EXCEPT ![Home[s]] = @ - 1]
  /\ GoTo(s, "locked")
  /\ UNCHANGED <<inVars, messageSent, sendInt, letter, sent>>

\* Faulty variant: a dropped packet is given up before its interrupt is scheduled.
TransmitDropsFirst(s) ==
  /\ pc[s] = "locked"
  /\ \/ /\ socket' = [socket EXCEPT ![letter[s].to] = Append(@, letter[s])]
        /\ sendInt' = [sendInt EXCEPT ![Home[s]] = @ + 1]
     \/ UNCHANGED <<socket, sendInt>>
  /\ GoTo(s, "sending")
  /\ UNCHANGED <<inbox, messageAvailable, worker, hand, boxes, taken, sendLock, messageSent, letter, sent>>

\* Faulty variant: the lock is given back before the interrupt came.
TransmitUnlocked(s) ==
  /\ pc[s] = "locked"
  /\ sendInt' = [sendInt EXCEPT ![Home[s]] = @ + 1]
  /\ \/ socket' = [socket EXCEPT ![letter[s].to] = Append(@, letter[s])]
     \/ UNCHANGED socket
  /\ sendLock' = [sendLock EXCEPT ![Home[s]] = 1]
  /\ GoTo(s, "sending")
  /\ UNCHANGED <<inbox, messageAvailable, worker, hand, boxes, taken, messageSent, letter, sent>>

\* NetworkOutput::Send, which may lose the packet.
Transmit(s) ==
  /\ pc[s] = "locked"
  /\ sendInt' = [sendInt EXCEPT ![Home[s]] = @ + 1]
  /\ \/ socket' = [socket EXCEPT ![letter[s].to] = Append(@, letter[s])]
     \/ UNCHANGED socket
  /\ GoTo(s, "sending")
  /\ UNCHANGED <<inbox, messageAvailable, worker, hand, boxes, taken, sendLock, messageSent, letter, sent>>

\* NetworkOutput::CallBack.
SendDone(h) ==
  /\ sendInt[h] > 0
  /\ sendInt' = [sendInt EXCEPT ![h] = @ - 1]
  /\ messageSent' = [messageSent EXCEPT ![h] = @ + 1]
  /\ UNCHANGED <<inVars, sendLock, pc, letter, sent>>

WaitSent(s) ==
  /\ pc[s] = "sending"
  /\ messageSent[Home[s]] > 0
  /\ messageSent' = [messageSent EXCEPT ![Home[s]] = @ - 1]
  /\ GoTo(s, "sent")
  /\ UNCHANGED <<inVars, sendLock, sendInt, letter, sent>>

Release(s) ==
  /\ pc[s] = "sent"
  /\ sendLock' = [sendLock EXCEPT ![Home[s]] = @ + 1]
  /\ GoTo(s, "idle")
  /\ UNCHANGED <<inVars, messageSent, sendInt, letter, sent>>

-----------------------------------------------------------------------------
(* The receiving side *)

\* Faulty variant: a packet that is still buffered is overwritten.
PollOverwrites(h) ==
  /\ socket[h] # <<>>
  /\ inbox' = [inbox EXCEPT ![h] = Head(socket[h])]
  /\ socket' = [socket EXCEPT ![h] = Tail(@)]
  /\ messageAvailable' = [messageAvailable EXCEPT ![h] = 1]
  /\ UNCHANGED <<worker, hand, boxes, taken, outVars>>

\* NetworkInput::CallBack, which polls for ever.
Poll(h) ==
  /\ inbox[h] = NoLetter
  /\ socket[h] # <<>>
  /\ inbox' = [inbox EXCEPT ![h] = Head(socket[h])]
  /\ socket' = [socket EXCEPT ![h] = Tail(@)]
  /\ messageAvailable' = [messageAvailable EXCEPT ![h] = @ + 1]
  /\ UNCHANGED <<worker, hand, boxes, taken, outVars>>

AwaitMessage(h) ==
  /\ worker[h] = "wait"
  /\ messageAvailable[h] > 0
  /\ messageAvailable' = [messageAvailable EXCEPT ![h] = @ - 1]
  /\ worker' = [worker EXCEPT ![h] = "receive"]
  /\ UNCHANGED <<socket, inbox, hand, boxes, taken, outVars>>

\* Faulty variant: the buffer is not marked empty.
ReceivePacketKept(h) ==
  /\ worker[h] = "receive"
  /\ hand' = [hand EXCEPT ![h] = inbox[h]]
  /\ worker' = [worker EXCEPT ![h] = "put"]
  /\ UNCHANGED <<socket, inbox, messageAvailable, boxes, taken, outVars>>

\* NetworkInput::Receive; MailBox::Put then waits for the list's lock.
ReceivePacket(h) ==
  /\ worker[h] = "receive"
  /\ hand' = [hand EXCEPT ![h] = inbox[h]]
  /\ inbox' = [inbox EXCEPT ![h] = NoLetter]
  /\ worker' = [worker EXCEPT ![h] = "put"]
  /\ UNCHANGED <<socket, messageAvailable, boxes, taken, outVars>>

Put(h) ==
  /\ worker[h] = "put"
  /\ boxes' = [boxes EXCEPT ![h][hand[h].box] = Append(@, hand[h])]
  /\ worker' = [worker EXCEPT ![h] = "wait"]
  /\ UNCHANGED <<socket, inbox, messageAvailable, hand, taken, outVars>>

\* PostOfficeInput::Receive by some thread.
Receive(h, b) ==
  /\ boxes[h][b] # <<>>
  /\ boxes' = [boxes EXCEPT ![h][b] = Tail(@)]
  /\ taken' = [taken EXCEPT ![h][b] = Append(@, Head(boxes[h][b]))]
  /\ UNCHANGED <<socket, inbox, messageAvailable, worker, hand, outVars>>

-----------------------------------------------------------------------------
Sending(s) == Acquire(s) \/ Transmit(s) \/ WaitSent(s) \/ Release(s)
PostalDelivery(h) == AwaitMessage(h) \/ ReceivePacket(h) \/ Put(h)

Next ==
  \/ \E s \in Sender : Sending(s) \/ \E a \in Address : Send(s, a[1], a[2])
  \/ \E h \in Host : \/ SendDone(h) \/ Poll(h) \/ PostalDelivery(h)
                     \/ \E b \in Box : Receive(h, b)

Spec == Init /\ [][Next]_vars

\* A thread that can run is run in the end (Threads!ReadyRuns), and a scheduled
\* interrupt comes; nobody has to call Send or Receive.
FairSpec ==
  /\ Spec
  /\ \A s \in Sender : WF_vars(Sending(s))
  /\ \A h \in Host : WF_vars(SendDone(h)) /\ WF_vars(Poll(h)) /\ WF_vars(PostalDelivery(h))

-----------------------------------------------------------------------------
(* Properties *)

\* There is a packet in the buffer exactly while the postal worker has been told
\* of one and has not taken it, so that no packet is overwritten or taken twice
\* (network.cc:66, :98; post.cc:200-201).
BufferMatchesWorker ==
  \A h \in Host :
    (inbox[h] # NoLetter) <=> (messageAvailable[h] = 1 \/ worker[h] = "receive")

\* The network has one packet of a machine at a time: a sender that is about to
\* hand one over finds no interrupt scheduled and none to take for its own
\* (post.cc:320-325, the ASSERT of network.cc:165).
NetworkFree ==
  \A s \in Sender : pc[s] = "locked" => sendInt[Home[s]] = 0 /\ messageSent[Home[s]] = 0

\* The two directions of the network are in order on every machine: nothing is
\* overwritten on the way in, nothing is handed over too early on the way out.
NetworkSound == TypeOK /\ BufferMatchesWorker /\ NetworkFree

\* Every Send returns, also when its packet was dropped, and however the senders
\* of the machine compete, each for a bounded number of letters
\* (post.cc:336, network.cc:169-174).
SendsReturn == \A s \in Sender : pc[s] = "acquire" ~> pc[s] = "idle"

\* Letters nobody has handed to the network yet, and letters on their way to h.
Unsent == {letter[s] : s \in {x \in Sender : pc[x] \in {"acquire", "locked"}}}
Carried(h) == IF worker[h] = "put" THEN <<hand[h]>> ELSE <<>>
Buffered(h) == IF inbox[h] # NoLetter THEN <<inbox[h]>> ELSE <<>>
OnTheWay(h) == Carried(h) \o (Buffered(h) \o socket[h])

Service == INSTANCE MailService WITH
  Machine <- Host, MailBox <- Box, Letter <- Mail,
  sending <- Unsent, inTransit <- [h \in Host |-> OnTheWay(h)],
  inBox <- boxes, got <- taken

\* The post office implements the mail service: no letter is delivered twice, to
\* another box or out of order, and a letter that was not lost is delivered
\* (network.cc:60-103, post.cc:97-137, :190-216, :299-343).
MailDelivered == Service!MailSpec
=============================================================================
