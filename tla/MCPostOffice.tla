---------------------------- MODULE MCPostOffice ----------------------------
(***************************************************************************)
(* An instance of PostOffice for TLC: two senders on one machine, letters  *)
(* to two boxes of another.                                                *)
(***************************************************************************)
EXTENDS PostOffice, TLC

CONSTANTS h1, h2, s1, s2

MCAddress == {<<h2, 1>>, <<h2, 2>>}
MCHome == s1 :> h1 @@ s2 :> h1
=============================================================================
