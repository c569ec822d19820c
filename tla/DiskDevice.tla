----------------------------- MODULE DiskDevice -----------------------------
(***************************************************************************)
(* The simulated disk, machine/disk.cc: how long a request takes, as a     *)
(* device of the machine of Interrupts.  What is read and written is       *)
(* NachosFS's concern; here a request is its sector and its kind.          *)
(*                                                                         *)
(* active is TRUE exactly while the disk's interrupt is scheduled: the     *)
(* ASSERT of the requests is Scheduled(Disk), and SynchDisk's lock is why  *)
(* it holds.                                                               *)
(***************************************************************************)
EXTENDS Interrupts

CONSTANTS
  Disk,
  NumSectors, SectorsPerTrack,
  RotationTime,   \* ticks for one sector to pass under the head
  SeekTime        \* ticks to move the head by one track

ASSUME DiskAssumption ==
  /\ Disk \in Device \ (Polling \cup {Timer})
  /\ NumSectors \in Nat \ {0} /\ SectorsPerTrack \in Nat \ {0}
  /\ RotationTime \in Nat \ {0} /\ SeekTime \in Nat \ {0}

VARIABLES
  lastSector, bufferInit,   \* Disk's fields
  request                   \* history: the request made last

diskVars == <<lastSector, bufferInit, request>>

Sectors == 0 .. (NumSectors - 1)

Request == [sector : Sectors, asked : Nat, seek : Nat, buffered : BOOLEAN,
            since : Nat, done : Nat]

DiskTypeOK ==
  /\ lastSector \in Sectors
  /\ bufferInit \in Nat
  /\ request \in Request

DiskInit ==
  /\ Init
  /\ lastSector = 0
  /\ bufferInit = 0
  /\ request = [sector |-> 0, asked |-> 0, seek |-> 0, buffered |-> FALSE,
                since |-> 0, done |-> RotationTime]

-----------------------------------------------------------------------------
Track(s) == s \div SectorsPerTrack

Abs(n) == IF n < 0 THEN -n ELSE n

\* The two results of TimeToSeek.
SeekTicks(s) == Abs(Track(s) - Track(lastSector)) * SeekTime

\* Faulty: the rest of the sector is counted from now, not from the seek's end.
RotationNow(s) ==
  LET over == totalTicks % RotationTime
  IN IF over > 0 THEN RotationTime - over ELSE 0

Rotation(s) ==
  LET over == (totalTicks + SeekTicks(s)) % RotationTime
  IN IF over > 0 THEN RotationTime - over ELSE 0

\* Faulty: the distance is measured the wrong way round.
ModuloDiffBack(to, from) ==
  ((from % SectorsPerTrack) - (to % SectorsPerTrack) + SectorsPerTrack) % SectorsPerTrack

ModuloDiff(to, from) ==
  ((to % SectorsPerTrack) - (from % SectorsPerTrack) + SectorsPerTrack) % SectorsPerTrack

TimeAfter(s) == totalTicks + SeekTicks(s) + Rotation(s)

\* The sector has passed under the head since the head came to its track.
InTrackBuffer(s, writing) ==
  /\ ~writing
  /\ SeekTicks(s) = 0
  /\ (TimeAfter(s) - bufferInit) \div RotationTime > ModuloDiff(s, bufferInit \div RotationTime)

ComputeLatency(s, writing) ==
  IF InTrackBuffer(s, writing) THEN RotationTime
  ELSE SeekTicks(s) + Rotation(s)
         + ModuloDiff(s, TimeAfter(s) \div RotationTime) * RotationTime + RotationTime

UpdateLast(s) ==
  /\ lastSector' = s
  /\ bufferInit' = IF SeekTicks(s) # 0 THEN TimeAfter(s) ELSE bufferInit

\* ReadRequest and WriteRequest.
DiskRequest(s, writing) ==
  /\ StartWithin(Disk, ComputeLatency(s, writing))
  /\ UpdateLast(s)
  /\ request' = [sector |-> s, asked |-> totalTicks, seek |-> SeekTicks(s),
                 buffered |-> InTrackBuffer(s, writing), since |-> bufferInit,
                 done |-> totalTicks + ComputeLatency(s, writing)]

DiskNext ==
  \/ \E s \in Sectors, writing \in BOOLEAN : DiskRequest(s, writing)
  \/ (Step \/ \E d \in Device \ {Disk} : StartDevice(d)) /\ UNCHANGED diskVars

DiskSpec == DiskInit /\ [][DiskNext]_<<vars, diskVars>>

-----------------------------------------------------------------------------
\* Reference: the disk turns all the time, and slot k is the time from
\* k * RotationTime on during which one sector of each track passes the head.
Passes(s, slot) == slot % SectorsPerTrack = s % SectorsPerTrack

(***************************************************************************)
(* The disk answers at the right moment, whatever the time of the request: *)
(* at the end of the first pass of the sector after the seek, or for a     *)
(* sector that is in the track buffer after one sector's time; and what is *)
(* taken from the buffer did pass under the head since the last seek, the  *)
(* answer not coming before that pass is over.                             *)
(***************************************************************************)
SectorPassed ==
  LET r == request
      ready == r.asked + r.seek
      last == r.done \div RotationTime - 1   \* the slot that ends with the answer
  IN IF r.buffered
     THEN \E k \in 0 .. last :
            Passes(r.sector, k) /\ r.since <= k * RotationTime
     ELSE /\ r.done % RotationTime = 0
          /\ Passes(r.sector, last) /\ ready <= last * RotationTime
          /\ \A k \in 0 .. last - 1 : ready <= k * RotationTime => ~Passes(r.sector, k)
=============================================================================
