----------------------------- MODULE SharedList -----------------------------
(***************************************************************************)
(* What synchlist.h promises: a list that any number of threads use as if  *)
(* each call were one step.  Append puts an item at the end, RemoveFront   *)
(* takes the first item and waits while there is none.  No lock, no        *)
(* condition: the specification that SynchList implements.                 *)
(***************************************************************************)
EXTENDS Sequences

CONSTANTS User,   \* the threads
          Item,
          NoItem

VARIABLES items,    \* the list
          waiting,  \* the threads inside RemoveFront that got nothing yet
          taken     \* taken[u]: what u's last RemoveFront returned

listVars == <<items, waiting, taken>>

ListInit ==
  /\ items = <<>>
  /\ waiting = {}
  /\ taken = [u \in User |-> NoItem]

Put(x) ==
  /\ items' = Append(items, x)
  /\ UNCHANGED <<waiting, taken>>

Ask(u) ==
  /\ waiting' = waiting \cup {u}
  /\ UNCHANGED <<items, taken>>

Take(u) ==
  /\ u \in waiting
  /\ items # <<>>
  /\ items' = Tail(items)
  /\ taken' = [taken EXCEPT ![u] = Head(items)]
  /\ waiting' = waiting \ {u}

ListNext == \/ \E x \in Item : Put(x)
            \/ \E u \in User : Ask(u) \/ Take(u)

ListSafety == ListInit /\ [][ListNext]_listVars

\* An item does not stay for ever while somebody waits for one.
ListSpec == ListSafety /\ WF_listVars(\E u \in User : Take(u))
=============================================================================
