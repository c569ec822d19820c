----------------------------- MODULE MCThreads -----------------------------
(***************************************************************************)
(* An instance of Threads: main and two forked threads, a mutex (initially *)
(* 1) and a semaphore (initially 0) that a device signals.                 *)
(***************************************************************************)
EXTENDS Threads, TLC

CONSTANTS t1, t2, t3, mutex, device

MCInitialValue == mutex :> 1 @@ device :> 0

=============================================================================
