------------------------------ MODULE SynchDisk ------------------------------
(***************************************************************************)
(* The disk as threads see it: filesys/synchdisk.cc over machine/disk.cc.  *)
(* A request changes the disk's file at once; its interrupt, some time     *)
(* later (DiskDevice), lets the thread go on.  The file survives a crash   *)
(* of the machine, the rest does not.                                      *)
(***************************************************************************)
EXTENDS Naturals

CONSTANTS
  Proc,         \* threads that use the disk
  NoProc,
  NumSectors

ASSUME SynchDiskAssumption ==
  /\ NoProc \notin Proc
  /\ NumSectors \in Nat \ {0}

VARIABLES
  disk,         \* the content of each sector
  active,       \* Disk::active
  lock,         \* holder of SynchDisk::lock
  semaphore,    \* value of SynchDisk::semaphore
  waiting       \* the threads in the P of ReadSector or WriteSector

synchVars == <<active, lock, semaphore, waiting>>

Sectors == 0 .. (NumSectors - 1)

SynchTypeOK ==
  /\ active \in BOOLEAN
  /\ lock \in Proc \cup {NoProc}
  /\ semaphore \in Nat
  /\ waiting \subseteq Proc

\* The constructors of Disk and SynchDisk, when the machine starts.
SynchInit ==
  /\ active = FALSE
  /\ lock = NoProc
  /\ semaphore = 0
  /\ waiting = {}

SynchRestart ==
  /\ active' = FALSE
  /\ lock' = NoProc
  /\ semaphore' = 0
  /\ waiting' = {}

\* Faulty: a request is made without the lock.
BeginUnlocked(p) ==
  /\ p \notin waiting
  /\ active' = TRUE
  /\ waiting' = waiting \cup {p}
  /\ UNCHANGED <<lock, semaphore>>

\* ReadSector and WriteSector as far as the P; what the request reads or writes
\* is up to the caller.
Begin(p) ==
  /\ lock = NoProc
  /\ p \notin waiting
  /\ lock' = p
  /\ active' = TRUE
  /\ waiting' = waiting \cup {p}
  /\ UNCHANGED semaphore

\* The disk's interrupt.
DiskInterrupt ==
  /\ active
  /\ active' = FALSE
  /\ semaphore' = semaphore + 1
  /\ UNCHANGED <<lock, waiting>>

\* The P succeeds and the lock is released.
End(p) ==
  /\ p \in waiting
  /\ semaphore > 0
  /\ semaphore' = semaphore - 1
  /\ lock' = NoProc
  /\ waiting' = waiting \ {p}
  /\ UNCHANGED active

(***************************************************************************)
(* One request at a time (ASSERT of disk.cc: !active), and each thread     *)
(* goes on after the interrupt of its own request, though all wait on one  *)
(* semaphore: whoever waits holds the lock, and its interrupt is either to *)
(* come or counted, never both and never left over for the next.           *)
(***************************************************************************)
OneRequest ==
  /\ waiting = {p \in Proc : lock = p}
  /\ semaphore + (IF active THEN 1 ELSE 0) = IF lock = NoProc THEN 0 ELSE 1
=============================================================================
