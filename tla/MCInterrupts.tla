---------------------------- MODULE MCInterrupts ----------------------------
\* A timer at random intervals, a keyboard that polls, and the disk.
EXTENDS DiskDevice, TLC

CONSTANTS t1, t2, timer, keyboard, disk

MCDelay == (timer :> {1, 3}) @@ (keyboard :> {2}) @@ (disk :> 1 .. 20)
=============================================================================
