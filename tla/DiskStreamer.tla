---------------------------- MODULE DiskStreamer ----------------------------
(***************************************************************************)
(* Disk streams (src/disk/streamer.c): a position on the disk, and reads   *)
(* that are split at the borders of sectors, one sector per level of the   *)
(* recursion.  The disk answers a sector at a time (src/disk/disk.c); for  *)
(* a sector it does not have it never raises the flag that                 *)
(* disk_read_sector polls, and the kernel waits for good.                  *)
(*                                                                         *)
(* The disk is an array of cells.  Module Fat16 uses the streams; here the *)
(* caller may seek and read whatever it likes.                             *)
(***************************************************************************)
EXTENDS Integers, Sequences

CONSTANTS
  SECTOR_SIZE,  \* PEACHOS_SECTOR_SIZE, in cells
  Streams,
  Disks         \* the contents the disk may have

ASSUME StreamerAssumption ==
  /\ SECTOR_SIZE \in Nat \ {0}
  /\ Streams # {}
  /\ \A d \in Disks :
       /\ DOMAIN d \subseteq Nat
       /\ \A c \in DOMAIN d : d[c] \in Nat
       /\ \A c \in DOMAIN d, i \in 0 .. (SECTOR_SIZE - 1) :  \* in whole sectors
            (c \div SECTOR_SIZE) * SECTOR_SIZE + i \in DOMAIN d

VARIABLES
  disk,  \* the cells
  pos,   \* stream->pos
  call   \* the read in progress: what was asked for, and what is there yet

stream_vars == <<disk, pos, call>>

NoCall ==
  [state |-> "idle", stream |-> CHOOSE s \in Streams : TRUE,
   start |-> 0, total |-> 0, todo |-> 0, out |-> <<>>]

Call ==
  [state : {"idle", "reading", "returned"}, stream : Streams,
   start : Nat, total : Nat, todo : Nat, out : Seq(Nat)]

StreamTypeOK ==
  /\ disk \in Disks
  /\ pos \in [Streams -> Nat]
  /\ call \in Call

StreamInit ==
  /\ disk \in Disks
  /\ pos = [s \in Streams |-> 0]
  /\ call = NoCall

-----------------------------------------------------------------------------

OnDisk(sector) == sector * SECTOR_SIZE \in DOMAIN disk

disk_read_block(lba) == [i \in 0 .. (SECTOR_SIZE - 1) |-> disk[lba * SECTOR_SIZE + i]]

(* A read of total cells from p, where the caller has set the stream.      *)
diskstreamer_read(s, p, total) ==
  /\ call.state = "idle"
  /\ call' = [state |-> "reading", stream |-> s, start |-> p,
              total |-> total, todo |-> total, out |-> <<>>]

(* The stream is moved to p and read from there.                           *)
seek_and_read(s, p, total) ==
  /\ diskstreamer_read(s, p, total)
  /\ pos' = [pos EXCEPT ![s] = p]
  /\ UNCHANGED disk

(* Fault: the offset of the first sector is used for all of them.          *)
Fault_OffsetKept == call.start % SECTOR_SIZE

Offset == pos[call.stream] % SECTOR_SIZE

(* A read that ends at the end of a sector counts as overflow too: it goes *)
(* on with the next sector, for nothing.                                   *)
Overflow == Offset + call.todo >= SECTOR_SIZE

total_to_read == IF Overflow THEN SECTOR_SIZE - Offset ELSE call.todo

(* One level of the recursion.                                             *)
read_sector ==
  LET sector == pos[call.stream] \div SECTOR_SIZE
  IN  /\ call.state = "reading"
      /\ OnDisk(sector)
      /\ pos' = [pos EXCEPT ![call.stream] = @ + total_to_read]
      /\ call' = [call EXCEPT
                    !.out = @ \o [i \in 1 .. total_to_read |->
                                    disk_read_block(sector)[Offset + i - 1]],
                    !.todo = @ - total_to_read,
                    !.state = IF Overflow THEN "reading" ELSE "returned"]
      /\ UNCHANGED disk

(* The caller takes the answer.                                            *)
read_returns ==
  /\ call.state = "returned"
  /\ call' = NoCall

StreamNext ==
  \/ \E s \in Streams, p, total \in Nat : seek_and_read(s, p, total)
  \/ \E s \in Streams, total \in Nat :
       diskstreamer_read(s, pos[s], total) /\ UNCHANGED <<disk, pos>>
  \/ read_sector
  \/ read_returns /\ UNCHANGED <<disk, pos>>

StreamSpec == StreamInit /\ [][StreamNext]_stream_vars

-----------------------------------------------------------------------------

(* What a stream delivers is the disk without its sectors: at any moment   *)
(* the cells from the start of the read up to the position of the stream,  *)
(* in order, and all that were asked for when the read returns.            *)
FlatRead ==
  call.state # "idle" =>
    /\ pos[call.stream] = call.start + Len(call.out)
    /\ Len(call.out) + call.todo = call.total
    /\ \A i \in 1 .. Len(call.out) :
         /\ call.start + i - 1 \in DOMAIN disk
         /\ call.out[i] = disk[call.start + i - 1]
    /\ call.state = "returned" => call.todo = 0

=============================================================================
