---------------------------- MODULE MailService ----------------------------
(***************************************************************************)
(* What post.h promises: unreliable, ordered delivery of messages to       *)
(* mailboxes.  A message is carried to its machine once or lost; those of  *)
(* a machine arrive in the order they were carried, and wait in their      *)
(* boxes until they are taken.  No packet buffer, no interrupt, no postal  *)
(* worker: the specification that PostOffice implements.                   *)
(***************************************************************************)
EXTENDS Sequences

CONSTANTS Machine, MailBox, Letter   \* a letter names its machine, .to, and its .box

VARIABLES sending,    \* letters whose sender has not handed them over yet
          inTransit,  \* inTransit[m]: letters on their way to m
          inBox,      \* inBox[m][b]: letters that wait in a box
          got         \* got[m][b]: letters taken from it

mailVars == <<sending, inTransit, inBox, got>>

MailInit ==
  /\ sending = {}
  /\ inTransit = [m \in Machine |-> <<>>]
  /\ inBox = [m \in Machine |-> [b \in MailBox |-> <<>>]]
  /\ got = [m \in Machine |-> [b \in MailBox |-> <<>>]]

Post(l) ==
  /\ l \notin sending
  /\ sending' = sending \cup {l}
  /\ UNCHANGED <<inTransit, inBox, got>>

Carry(l) ==
  /\ l \in sending
  /\ sending' = sending \ {l}
  /\ inTransit' = [inTransit EXCEPT ![l.to] = Append(@, l)]
  /\ UNCHANGED <<inBox, got>>

Lose(l) ==
  /\ l \in sending
  /\ sending' = sending \ {l}
  /\ UNCHANGED <<inTransit, inBox, got>>

Deliver(m) ==
  /\ inTransit[m] # <<>>
  /\ inTransit' = [inTransit EXCEPT ![m] = Tail(@)]
  /\ LET l == Head(inTransit[m]) IN inBox' = [inBox EXCEPT ![m][l.box] = Append(@, l)]
  /\ UNCHANGED <<sending, got>>

Fetch(m, b) ==
  /\ inBox[m][b] # <<>>
  /\ inBox' = [inBox EXCEPT ![m][b] = Tail(@)]
  /\ got' = [got EXCEPT ![m][b] = Append(@, Head(inBox[m][b]))]
  /\ UNCHANGED <<sending, inTransit>>

MailNext ==
  \/ \E l \in Letter : Post(l) \/ Carry(l) \/ Lose(l)
  \/ \E m \in Machine : Deliver(m) \/ \E b \in MailBox : Fetch(m, b)

MailSafety == MailInit /\ [][MailNext]_mailVars

\* Every letter is handed over in the end, and every letter in transit delivered;
\* nobody has to fetch.
MailSpec ==
  /\ MailSafety
  /\ \A l \in Letter : WF_mailVars(Carry(l) \/ Lose(l))
  /\ \A m \in Machine : WF_mailVars(Deliver(m))
=============================================================================
