---------------------------- MODULE MCAddrSpace ----------------------------
(* Instances of AddrSpace for TLC. *)
EXTENDS AddrSpace, TLC

CONSTANTS a, b, c

\* Every way three segments can end before, at and after a page boundary.
Shapes == [code : 1 .. 3, ro : 0 .. 4, init : {0, 1, 3}, uninit : {1}]

Sym == Permutations(Proc)
=============================================================================
