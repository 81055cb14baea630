---------------------------- MODULE Fat16Proofs -----------------------------
(***************************************************************************)
(* Proofs about the disk streams, for every size of a sector and every     *)
(* disk of whole sectors, and about the FAT16 driver on top of them, for   *)
(* every formatted disk, every path and every read: types, what the        *)
(* streams deliver, which file fopen opens and what fread reads of it.     *)
(*                                                                         *)
(* The invariant of the driver follows a call through its phases: which    *)
(* read of the disk it waits for, what the mount has counted, what the     *)
(* search has passed, and what the read has delivered.  What a recursive   *)
(* function computes is proved by its least counterexample.                *)
(***************************************************************************)
EXTENDS Fat16, WellFoundedInduction, TLAPS

(* The invariant is inductive together with the types: that the cells a    *)
(* sector adds are the next ones of the disk needs the position to be      *)
(* where the output ends, and the bytes left to read to be a number.       *)
StreamInv == StreamTypeOK /\ FlatRead

(* A position is its sector and its offset in the sector.                  *)
LEMMA PositionSplit ==
  ASSUME NEW p \in Nat
  PROVE  /\ p \div SECTOR_SIZE \in Nat
         /\ p % SECTOR_SIZE \in 0 .. (SECTOR_SIZE - 1)
         /\ p = (p \div SECTOR_SIZE) * SECTOR_SIZE + (p % SECTOR_SIZE)
BY StreamerAssumption DEF StreamerAssumption

(* The first cell of a sector lies in that sector.                         *)
LEMMA SectorStart ==
  ASSUME NEW s \in Nat
  PROVE  (s * SECTOR_SIZE) \div SECTOR_SIZE = s
BY StreamerAssumption DEF StreamerAssumption

(* A sector of which the disk has the first cell is on the disk as a       *)
(* whole, and its cells are numbers.                                       *)
LEMMA WholeSector ==
  ASSUME NEW s \in Nat, disk \in Disks, OnDisk(s), NEW i \in 0 .. (SECTOR_SIZE - 1)
  PROVE  s * SECTOR_SIZE + i \in DOMAIN disk /\ disk[s * SECTOR_SIZE + i] \in Nat
<1>1. (s * SECTOR_SIZE) \div SECTOR_SIZE = s
  BY SectorStart
<1>2. \A c \in DOMAIN disk : (c \div SECTOR_SIZE) * SECTOR_SIZE + i \in DOMAIN disk
  BY StreamerAssumption DEF StreamerAssumption
<1>3. ((s * SECTOR_SIZE) \div SECTOR_SIZE) * SECTOR_SIZE + i \in DOMAIN disk
  BY <1>2 DEF OnDisk
<1>4. s * SECTOR_SIZE + i \in DOMAIN disk
  BY <1>1, <1>3, Zenon
<1> QED BY <1>4, StreamerAssumption DEF StreamerAssumption

(* What one level of the recursion reads fits in the sector and in the     *)
(* request; it ends the sector or the request.                             *)
LEMMA TotalToRead ==
  ASSUME StreamTypeOK
  PROVE  /\ Offset \in 0 .. (SECTOR_SIZE - 1)
         /\ total_to_read \in Nat
         /\ total_to_read <= call.todo
         /\ Offset + total_to_read <= SECTOR_SIZE
         /\ ~Overflow => total_to_read = call.todo
<1>1. call.todo \in Nat /\ pos[call.stream] \in Nat
  BY DEF StreamTypeOK, Call
<1>2. Offset \in 0 .. (SECTOR_SIZE - 1)
  BY <1>1, PositionSplit DEF Offset
<1> QED BY <1>1, <1>2, StreamerAssumption DEF total_to_read, Overflow, StreamerAssumption

(* The cells a level of the recursion takes out of its buffer are the next *)
(* ones behind the position of the stream.                                 *)
LEMMA NextCells ==
  ASSUME StreamTypeOK, OnDisk(pos[call.stream] \div SECTOR_SIZE),
         NEW i \in 1 .. total_to_read
  PROVE  LET p == pos[call.stream]
         IN  /\ p + i - 1 \in DOMAIN disk
             /\ disk[p + i - 1] \in Nat
             /\ disk_read_block(p \div SECTOR_SIZE)[Offset + i - 1] = disk[p + i - 1]
<1> DEFINE p == pos[call.stream]
           s == p \div SECTOR_SIZE
<1>1. p \in Nat /\ disk \in Disks
  BY DEF StreamTypeOK, Call
<1>2. /\ s \in Nat
      /\ Offset \in 0 .. (SECTOR_SIZE - 1)
      /\ p = s * SECTOR_SIZE + Offset
  BY <1>1, PositionSplit DEF Offset
<1>3. Offset + i - 1 \in 0 .. (SECTOR_SIZE - 1)
  BY <1>2, TotalToRead, StreamerAssumption DEF StreamerAssumption
<1>4. s * SECTOR_SIZE \in Nat
  BY <1>2, StreamerAssumption DEF StreamerAssumption
<1> HIDE DEF s
<1>5. s * SECTOR_SIZE + (Offset + i - 1) = p + i - 1
  BY <1>1, <1>2, <1>3, <1>4
<1>6. /\ s * SECTOR_SIZE + (Offset + i - 1) \in DOMAIN disk
      /\ disk[s * SECTOR_SIZE + (Offset + i - 1)] \in Nat
  BY <1>1, <1>2, <1>3, WholeSector DEF s
<1>7. disk_read_block(s)[Offset + i - 1] = disk[s * SECTOR_SIZE + (Offset + i - 1)]
  BY <1>3 DEF disk_read_block
<1> QED BY <1>5, <1>6, <1>7, Zenon DEF s

(* A sequence behind another: length and elements.                         *)
LEMMA Appended ==
  ASSUME NEW a \in Seq(Nat), NEW b \in Seq(Nat)
  PROVE  /\ a \o b \in Seq(Nat)
         /\ Len(a \o b) = Len(a) + Len(b)
         /\ \A i \in 1 .. Len(a) : (a \o b)[i] = a[i]
         /\ \A i \in (Len(a) + 1) .. (Len(a) + Len(b)) : (a \o b)[i] = b[i - Len(a)]
OBVIOUS

-----------------------------------------------------------------------------

(* A read that starts has delivered nothing yet.                           *)
LEMMA ReadStarts ==
  ASSUME StreamInv, NEW s \in Streams, NEW p \in Nat, NEW total \in Nat,
         diskstreamer_read(s, p, total), pos' \in [Streams -> Nat], pos'[s] = p,
         UNCHANGED disk
  PROVE  StreamInv'
<1>1. call' = [state |-> "reading", stream |-> s, start |-> p,
               total |-> total, todo |-> total, out |-> <<>>]
  BY DEF diskstreamer_read
<1>2. call' \in Call
  BY <1>1 DEF Call
<1>3. FlatRead'
  BY <1>1 DEF FlatRead
<1> QED BY <1>2, <1>3 DEF StreamInv, StreamTypeOK

(* A sector adds the next cells of the disk to what was read.              *)
LEMMA SectorRead ==
  ASSUME StreamInv, read_sector
  PROVE  StreamInv'
<1> DEFINE p == pos[call.stream]
           t == total_to_read
           piece == [i \in 1 .. t |-> disk_read_block(p \div SECTOR_SIZE)[Offset + i - 1]]
<1>1. /\ StreamTypeOK
      /\ FlatRead
      /\ call.state = "reading"
      /\ OnDisk(p \div SECTOR_SIZE)
  BY DEF StreamInv, read_sector
<1>2. /\ p \in Nat
      /\ call \in Call
      /\ call.out \in Seq(Nat)
      /\ call.start \in Nat
      /\ call.todo \in Nat
      /\ call.total \in Nat
      /\ call.stream \in Streams
  BY <1>1 DEF StreamTypeOK, Call
<1>3. /\ t \in Nat
      /\ t <= call.todo
      /\ ~Overflow => t = call.todo
  BY <1>1, TotalToRead
<1>4. \A i \in 1 .. t : /\ p + i - 1 \in DOMAIN disk
                        /\ disk[p + i - 1] \in Nat
                        /\ piece[i] = disk[p + i - 1]
  BY <1>1, NextCells
<1>5. /\ call' = [call EXCEPT !.out = @ \o piece, !.todo = @ - t,
                              !.state = IF Overflow THEN "reading" ELSE "returned"]
      /\ pos' = [pos EXCEPT ![call.stream] = @ + t]
      /\ disk' = disk
  BY DEF read_sector
<1>6. piece \in Seq(Nat) /\ Len(piece) = t
  <2>1. piece \in [1 .. t -> Nat]
    BY <1>4
  <2> HIDE DEF piece, t
  <2> QED BY <2>1, <1>3
<1> HIDE DEF piece, t, p
<1>7. /\ call.out \o piece \in Seq(Nat)
      /\ Len(call.out \o piece) = Len(call.out) + t
      /\ \A i \in 1 .. Len(call.out) : (call.out \o piece)[i] = call.out[i]
      /\ \A i \in (Len(call.out) + 1) .. (Len(call.out) + t) :
           (call.out \o piece)[i] = piece[i - Len(call.out)]
  BY <1>2, <1>6, Appended
<1>8. /\ call'.out = call.out \o piece
      /\ call'.todo = call.todo - t
      /\ call'.state = IF Overflow THEN "reading" ELSE "returned"
      /\ call'.stream = call.stream
      /\ call'.start = call.start
      /\ call'.total = call.total
  BY <1>2, <1>5 DEF Call
<1>9. call' \in Call
  <2> DEFINE st == IF Overflow THEN "reading" ELSE "returned"
             todo == call.todo - t
             out == call.out \o piece
  <2>1. st \in {"reading", "returned"} /\ todo \in Nat /\ out \in Seq(Nat)
    BY <1>2, <1>3, <1>7
  <2>2. call' = [call EXCEPT !.out = out, !.todo = todo, !.state = st]
    BY <1>5, Zenon
  <2> HIDE DEF st, todo, out
  <2> QED BY <2>1, <2>2, <1>2 DEF Call
<1>10. pos' \in [Streams -> Nat] /\ pos'[call.stream] = p + t
  BY <1>1, <1>2, <1>3, <1>5 DEF StreamTypeOK, p
<1>11. /\ p = call.start + Len(call.out)
       /\ Len(call.out) + call.todo = call.total
       /\ \A i \in 1 .. Len(call.out) : /\ call.start + i - 1 \in DOMAIN disk
                                        /\ call.out[i] = disk[call.start + i - 1]
  BY <1>1 DEF FlatRead, p
<1>12. Len(call.out) \in Nat /\ Len(call'.out) = Len(call.out) + t
  BY <1>2, <1>7, <1>8
<1>13. ASSUME NEW i \in 1 .. Len(call'.out)
       PROVE  /\ call.start + i - 1 \in DOMAIN disk
              /\ call'.out[i] = disk[call.start + i - 1]
  <2>1. CASE i <= Len(call.out)
    <3>1. i \in 1 .. Len(call.out)
      BY <2>1, <1>3, <1>12
    <3>2. call'.out[i] = call.out[i]
      BY <3>1, <1>7, <1>8
    <3> QED BY <3>1, <3>2, <1>11
  <2>2. CASE i > Len(call.out)
    <3> DEFINE j == i - Len(call.out)
    <3>1. j \in 1 .. t /\ p + j - 1 = call.start + i - 1
      BY <2>2, <1>2, <1>3, <1>11, <1>12
    <3>2. call'.out[i] = piece[j]
      <4>1. i \in (Len(call.out) + 1) .. (Len(call.out) + t)
        BY <2>2, <1>3, <1>12
      <4> QED BY <4>1, <1>7, <1>8, Zenon
    <3> HIDE DEF j
    <3> QED BY <3>1, <3>2, <1>4, Zenon
  <2> QED BY <2>1, <2>2, <1>3, <1>12
<1>14. FlatRead'
  <2>1. pos'[call'.stream] = call'.start + Len(call'.out)
    BY <1>2, <1>3, <1>7, <1>8, <1>10, <1>11
  <2>2. Len(call'.out) + call'.todo = call'.total
    BY <1>2, <1>3, <1>7, <1>8, <1>11
  <2>3. call'.state = "returned" => call'.todo = 0
    BY <1>2, <1>3, <1>8
  <2> QED BY <2>1, <2>2, <2>3, <1>5, <1>8, <1>13 DEF FlatRead
<1> QED BY <1>1, <1>5, <1>9, <1>10, <1>14 DEF StreamInv, StreamTypeOK

(* The record of a stream without a read in progress.                      *)
LEMMA NoCallTyped == NoCall \in Call /\ NoCall.state = "idle"
BY StreamerAssumption DEF NoCall, Call, StreamerAssumption

(* What the disk streams deliver is the disk without its sectors, for      *)
(* every size of a sector, every disk and every sequence of seeks and      *)
(* reads (streamer.c, diskstreamer_seek and diskstreamer_read).            *)
THEOREM StreamsReadFlat == StreamSpec => []FlatRead
<1>1. StreamInit => StreamInv
  BY NoCallTyped DEF StreamInit, StreamInv, StreamTypeOK, FlatRead
<1>2. StreamInv /\ [StreamNext]_stream_vars => StreamInv'
  <2> SUFFICES ASSUME StreamInv, [StreamNext]_stream_vars PROVE StreamInv'
    OBVIOUS
  <2>1. ASSUME NEW s \in Streams, NEW p \in Nat, NEW total \in Nat,
               seek_and_read(s, p, total)
        PROVE  StreamInv'
    <3>1. pos' \in [Streams -> Nat] /\ pos'[s] = p
      BY <2>1 DEF seek_and_read, StreamInv, StreamTypeOK
    <3> QED BY <2>1, <3>1, ReadStarts DEF seek_and_read
  <2>2. ASSUME NEW s \in Streams, NEW total \in Nat,
               diskstreamer_read(s, pos[s], total), UNCHANGED <<disk, pos>>
        PROVE  StreamInv'
    <3>1. pos' \in [Streams -> Nat] /\ pos[s] \in Nat /\ pos'[s] = pos[s]
      BY <2>2 DEF StreamInv, StreamTypeOK
    <3> QED BY <2>2, <3>1, ReadStarts
  <2>3. CASE read_sector
    BY <2>3, SectorRead
  <2>4. CASE read_returns /\ UNCHANGED <<disk, pos>>
    BY <2>4, NoCallTyped DEF read_returns, StreamInv, StreamTypeOK, FlatRead
  <2>5. CASE UNCHANGED stream_vars
    BY <2>5 DEF stream_vars, StreamInv, StreamTypeOK, FlatRead
  <2> QED BY <2>1, <2>2, <2>3, <2>4, <2>5 DEF StreamNext
<1>3. StreamInv => FlatRead
  BY DEF StreamInv
<1> QED BY <1>1, <1>2, <1>3, PTL DEF StreamSpec

-----------------------------------------------------------------------------
(***************************************************************************)
(* The driver.  Its invariant has a part for each thing it works on.       *)
(***************************************************************************)

(* The header in memory is that of the disk.                               *)
HeaderKnown == Mounted => root.header = HeaderOf(disk)

(* What the variables of the mount hold.                                   *)
HeaderFields ==
  [sectors_per_cluster : Nat, reserved_sectors : Nat, fat_copies : Nat,
   root_dir_entries : Nat, sectors_per_fat : Nat, signature : Nat]

RootTyped ==
  root \in [header : HeaderFields, item : Seq(DOMAIN Items), total : Nat]

(* Which call is at which place.                                           *)
Phases ==
  /\ job.pc = "idle" => job = Idle
  /\ job.pc \in {"boot", "header", "loaded"} => job.op = "mount"
  /\ job.pc \in {"boot", "header"} => root = NotMounted /\ job.n = 0
  /\ job.pc \in {"count", "item", "load"} => job.op \in {"mount", "fopen"}
  /\ job.pc = "find" => job.op = "fopen"
  /\ job.pc \in {"read", "walk", "entry", "data", "done"} => job.op \in {"fopen", "fread"}
  /\ job.pc \notin {"boot", "header", "idle", "done"} => Mounted
  /\ job.op = "mount" => desc = Closed
  /\ ~Mounted => desc = Closed
  /\ job.op = "fread" => Mounted

(* The read of the disk that is in progress is the one the driver waits    *)
(* for.                                                                    *)
ReadOfJob ==
  /\ call.state # "idle" <=> job.pc \in {"header", "item", "loaded", "entry", "data"}
  /\ job.pc = "header" => call.start = 0 /\ call.total = HEADER
  /\ job.pc = "item" => call.stream = "directory" /\ call.total = 1
  /\ job.pc = "loaded" => /\ call.start = RootSector(root.header) * SECTOR_SIZE
                          /\ call.total = root.header.root_dir_entries
  /\ job.pc = "entry" => call.total = 1
  /\ job.pc = "data" =>
       /\ call.start = fat16_cluster_to_sector(job.cluster) * SECTOR_SIZE
                         + (job.offset % size_of_cluster_bytes)
       /\ call.total = chunk

(* A table entry is read when there is one to follow; the data, when the   *)
(* walk is over.                                                           *)
Walking ==
  /\ job.pc = "entry" => job.ahead > 0
  /\ job.pc = "data" => job.ahead = 0

(* Of the root directory r items were read, none of them blank.            *)
Counted(r) ==
  LET first == RootSector(root.header) * SECTOR_SIZE
      entries == root.header.root_dir_entries
  IN  /\ \A c \in first .. (first + r - 1) : disk[c] # 0
      /\ job.n <= r
      /\ RootCompact => IF r <= entries THEN job.n = r ELSE job.n >= entries

CountingRoot ==
  LET first == RootSector(root.header) * SECTOR_SIZE
  IN  job.op = "mount" =>
        /\ job.pc = "count" =>
             first <= pos["directory"] /\ Counted(pos["directory"] - first)
        /\ job.pc = "item" =>
             first <= call.start /\ Counted(call.start - first)
        /\ job.pc \in {"load", "loaded"} =>
             \E c \in DOMAIN disk : first <= c /\ disk[c] = 0 /\ Counted(c - first)

(* The search stays in the array of items.                                 *)
InArray == root.total <= root.header.root_dir_entries

(* The root directory in memory is the one on the disk, and its items are  *)
(* those that the search looks at.                                         *)
RootKnown ==
  Mounted /\ job.op # "mount" =>
    /\ root.item = RootCells
    /\ \A k \in DOMAIN RootCells : k <= root.total => RootCells[k] # 0
    /\ RootEnds => InArray
    /\ RootCompact => \A k \in DOMAIN RootCells : RootCells[k] # 0 => k <= root.total

(* The places of the root directory up to i that bear the name.            *)
NamesakesUpTo(i) ==
  {k \in DOMAIN root.item :
     /\ k <= i
     /\ k <= root.total
     /\ istrncmp(fat16_get_full_relative_filename(Items[root.item[k]]), job.parts[1])}

(* The search has found a namesake as soon as it passed one, and opens it, *)
(* unless memory behind the array is searched as well.                     *)
Searching ==
  job.op = "fopen" =>
    /\ job.parts = pathparser_parse(job.path).parts
    /\ job.pc # "done" => /\ Admissible(job.path, job.mode)
                          /\ job.ret = 0
                          /\ desc = Closed
                          /\ job.found # 0 /\ InArray =>
                               \E k \in NamesakesUpTo(job.i) : job.found = root.item[k]
                          /\ job.found = 0 => NamesakesUpTo(job.i) = {}
    /\ job.pc = "done" =>
         /\ job.ret # 0 => /\ desc.item # 0
                           /\ InArray => \E k \in NamesakesUpTo(root.total) : desc.item = root.item[k]
         /\ job.ret = 0 /\ Admissible(job.path, job.mode) /\ Len(job.parts) = 1 =>
              NamesakesUpTo(root.total) = {}

(* The cell of the file at the offset, in its first cluster.               *)
FirstCell == fat16_cluster_to_sector(Items[desc.item].cluster) * SECTOR_SIZE

(* What a read has delivered: the members before this one, and the chunks  *)
(* of this one.                                                            *)
Reading ==
  job.op = "fread" =>
    /\ job.size > 0 /\ job.n > 0
    /\ job.first = Items[desc.item].cluster
    /\ job.pc \in {"read", "walk", "entry", "data", "done"}
    /\ job.pc # "done" =>
         /\ job.members \in 1 .. job.n
         /\ job.offset = desc.pos + Len(job.out)
         /\ Len(job.out) = (job.n - job.members) * job.size
                             + IF job.pc = "read" THEN 0 ELSE job.size - job.total
         /\ job.pc # "read" => job.total \in 1 .. job.size
    /\ InFirstCluster =>
         /\ job.pc # "entry"
         /\ job.pc \in {"walk", "data"} => job.ahead = 0 /\ job.cluster = job.first
         /\ job.pc = "done" => job.ret = job.n /\ Len(job.out) = job.size * job.n
         /\ \A k \in 1 .. Len(job.out) : job.out[k] = disk[FirstCell + desc.pos + k - 1]

Inv ==
  /\ TypeOK
  /\ FlatRead
  /\ HeaderKnown
  /\ RootTyped
  /\ Phases
  /\ ReadOfJob
  /\ Walking
  /\ CountingRoot
  /\ RootKnown
  /\ Searching
  /\ Reading

-----------------------------------------------------------------------------
(* Numbers and geometry.                                                   *)

(* A sector has a size.                                                    *)
LEMMA SectorSize == SECTOR_SIZE \in Nat \ {0}
BY StreamerAssumption DEF StreamerAssumption

(* A product of numbers is one.                                            *)
LEMMA Product ==
  ASSUME NEW a \in Nat, NEW b \in Nat
  PROVE  a * b \in Nat
OBVIOUS

(* The streams of the driver are streams.                                  *)
LEMMA StreamNames ==
  /\ "header" \in Streams /\ "directory" \in Streams
  /\ "fat" \in Streams /\ "cluster" \in Streams
BY Fat16Assumption DEF Fat16Assumption

(* Quotient and remainder.                                                 *)
LEMMA DivMod ==
  ASSUME NEW a \in Nat, NEW b \in Nat \ {0}
  PROVE  /\ a \div b \in Nat /\ a % b \in 0 .. (b - 1) /\ a % b \in Nat
         /\ a < b => a \div b = 0 /\ a % b = a
         /\ a \div b = 0 => a < b
<1>1. a \div b \in Nat /\ a % b \in 0 .. (b - 1) /\ a = (a \div b) * b + (a % b)
  OBVIOUS
<1>2. a \div b > 0 => a >= b
  BY <1>1
<1> QED BY <1>1, <1>2

(* A place two sizes or more behind the start, so that it may be counted   *)
(* from 2 on.                                                              *)
LEMMA ClusterPlace ==
  ASSUME NEW c \in Nat, NEW s \in Nat, NEW e \in Nat, 2 * s <= e
  PROVE  e + (c - 2) * s \in Nat
<1>1. c * s \in Nat
  BY Product
<1>2. (c - 2) * s = c * s - 2 * s
  OBVIOUS
<1> QED BY <1>1, <1>2

(* The clusters of a mounted disk have a size, and none lies before the    *)
(* disk.                                                                   *)
LEMMA Geometry ==
  ASSUME TypeOK, HeaderKnown, RootTyped, Mounted
  PROVE  /\ size_of_cluster_bytes \in Nat \ {0}
         /\ RootSector(root.header) * SECTOR_SIZE \in Nat
         /\ RootSector(root.header) \in Nat
         /\ root.header.root_dir_entries \in Nat
         /\ root.header.reserved_sectors \in Nat
         /\ \A c \in Nat : fat16_cluster_to_sector(c) \in Nat
         /\ Formatted(disk)
<1> DEFINE h == root.header
<1>1. /\ h.sectors_per_cluster \in Nat /\ h.reserved_sectors \in Nat
      /\ h.fat_copies \in Nat /\ h.root_dir_entries \in Nat /\ h.sectors_per_fat \in Nat
  BY DEF RootTyped, HeaderFields
<1>2. disk \in Disks /\ h = HeaderOf(disk) /\ h.signature = 41
  BY DEF TypeOK, StreamTypeOK, HeaderKnown, Mounted
<1>3. Formatted(disk)
  BY <1>2, Fat16Assumption DEF Fat16Assumption
<1>4. /\ h.sectors_per_cluster > 0
      /\ 2 * h.sectors_per_cluster <= RootSector(h) + h.root_dir_entries \div SECTOR_SIZE
  BY <1>2, <1>3 DEF Formatted
<1> HIDE DEF h
<1>5. h.fat_copies * h.sectors_per_fat \in Nat
  BY <1>1, Product
<1>6. RootSector(h) \in Nat
  BY <1>1, <1>5 DEF RootSector
<1>7. RootSector(h) * SECTOR_SIZE \in Nat
  BY <1>6, SectorSize, Product
<1>8. h.root_dir_entries \div SECTOR_SIZE \in Nat
  BY <1>1, SectorSize, DivMod
<1>9. ending_sector_pos \in Nat /\ 2 * h.sectors_per_cluster <= ending_sector_pos
  BY <1>4, <1>6, <1>8 DEF ending_sector_pos, h
<1>10. size_of_cluster_bytes \in Nat \ {0}
  <2>1. \A a, b \in Nat \ {0} : a * b \in Nat \ {0}
    OBVIOUS
  <2>2. h.sectors_per_cluster \in Nat \ {0}
    BY <1>1, <1>4
  <2> QED BY <2>1, <2>2, SectorSize DEF size_of_cluster_bytes, h
<1>11. \A c \in Nat : fat16_cluster_to_sector(c) \in Nat
  <2> TAKE c \in Nat
  <2>1. ending_sector_pos + (c - 2) * h.sectors_per_cluster \in Nat
    <3> HIDE DEF ending_sector_pos
    <3> QED BY <1>1, <1>9, ClusterPlace
  <2> QED BY <2>1 DEF fat16_cluster_to_sector, h
<1> QED BY <1>1, <1>3, <1>6, <1>7, <1>10, <1>11 DEF h

(* The least of two numbers.                                               *)
LEMMA MinOfTwo ==
  ASSUME NEW a \in Nat, NEW b \in Nat
  PROVE  Min({a, b}) = IF a <= b THEN a ELSE b
<1> DEFINE m == IF a <= b THEN a ELSE b
<1>1. m \in {a, b} /\ \A y \in {a, b} : m <= y
  OBVIOUS
<1>2. \A x \in {a, b} : (\A y \in {a, b} : x <= y) => x = m
  OBVIOUS
<1> QED BY <1>1, <1>2 DEF Min

(* A chunk is no longer than what is left, and than a cluster.             *)
LEMMA Chunk ==
  ASSUME TypeOK, HeaderKnown, RootTyped, Mounted
  PROVE  /\ chunk \in Nat
         /\ chunk = IF job.total <= size_of_cluster_bytes THEN job.total ELSE size_of_cluster_bytes
         /\ job.total \in Nat
         /\ job.total - chunk \in Nat
<1>1. job.total \in Nat
  BY DEF TypeOK, Job
<1>2. size_of_cluster_bytes \in Nat \ {0}
  BY Geometry
<1>3. chunk = IF job.total <= size_of_cluster_bytes THEN job.total ELSE size_of_cluster_bytes
  BY <1>1, <1>2, MinOfTwo DEF chunk
<1> QED BY <1>1, <1>2, <1>3

-----------------------------------------------------------------------------
(* What a read that has returned delivered.                                *)

(* What was asked for, and with it the cells of the disk from the start of *)
(* the read on.                                                            *)
LEMMA Delivered ==
  ASSUME StreamTypeOK, FlatRead, call.state = "returned"
  PROVE  /\ call.out \in Seq(Nat) /\ Len(call.out) = call.total
         /\ call.start \in Nat /\ call.total \in Nat
         /\ pos[call.stream] = call.start + call.total
         /\ \A i \in 1 .. call.total : /\ call.start + i - 1 \in DOMAIN disk
                                       /\ call.out[i] = disk[call.start + i - 1]
                                       /\ call.out[i] \in Nat
<1>1. /\ call.out \in Seq(Nat) /\ call.start \in Nat /\ call.total \in Nat /\ call.todo \in Nat
      /\ Len(call.out) \in Nat
  BY DEF StreamTypeOK, Call
<1>2. /\ pos[call.stream] = call.start + Len(call.out)
      /\ Len(call.out) + call.todo = call.total
      /\ call.todo = 0
      /\ \A i \in 1 .. Len(call.out) : /\ call.start + i - 1 \in DOMAIN disk
                                       /\ call.out[i] = disk[call.start + i - 1]
  BY DEF FlatRead
<1>3. Len(call.out) = call.total
  BY <1>1, <1>2
<1>4. \A i \in 1 .. Len(call.out) : call.out[i] \in Nat
  BY <1>1
<1> QED BY <1>1, <1>2, <1>3, <1>4

(* A read that is over, or none at all, allows any position.               *)
LEMMA NoRead ==
  ASSUME StreamInv, call' \in Call, call'.state = "idle", pos' \in [Streams -> Nat], disk' = disk
  PROVE  StreamInv'
BY DEF StreamInv, StreamTypeOK, FlatRead

-----------------------------------------------------------------------------
(* The path parser yields sequences of characters.                         *)

(* A non-empty set of naturals has a least element, and Min denotes it.    *)
LEMMA MinOfNaturals ==
  ASSUME NEW S \in SUBSET Nat, S # {}
  PROVE  Min(S) \in S /\ \A y \in S : Min(S) <= y
<1> DEFINE Less == {p \in Nat \X Nat : p[1] < p[2]}
<1>1. OpToRel(<, Nat) = Less
  BY Zenon DEF OpToRel
<1>2. IsWellFoundedOn(Less, Nat)
  BY <1>1, NatLessThanWellFounded, Zenon
<1> HIDE DEF Less
<1>3. PICK x \in S : \A y \in S : ~ (<<y, x>> \in Less)
  BY <1>2, WFMin, Zenon
<1>4. \A y \in S : x <= y
  <2> TAKE y \in S
  <2>1. <<y, x>> \in Nat \X Nat
    OBVIOUS
  <2>2. <<y, x>>[1] = y /\ <<y, x>>[2] = x
    OBVIOUS
  <2>3. ~(y < x)
    BY <1>3, <2>1, <2>2, Zenon DEF Less
  <2> QED BY <2>3
<1> QED BY <1>4 DEF Min

(* A part lies in the path, and the next one behind it.                    *)
LEMMA PathPart ==
  ASSUME NEW path \in Seq(STRING), NEW i \in 1 .. (Len(path) + 1)
  PROVE  LET p == pathparser_get_path_part(path, i)
         IN  /\ p.part \in Seq(STRING)
             /\ p.next \in 1 .. (Len(path) + 1)
             /\ p.part # <<>> => p.next > i
             /\ i = Len(path) + 1 => p.part = <<>>
<1> DEFINE n == Len(path)
           slashes == {j \in i .. n : path[j] = "/"}
           ends == {n} \cup {k - 1 : k \in slashes}
           e == PartEnd(path, i)
<1>1. n \in Nat
  OBVIOUS
<1>2. ends \in SUBSET Nat /\ n \in ends /\ \A x \in ends : x >= i - 1
  BY <1>1
<1>3. e \in ends /\ \A x \in ends : e <= x
  <2>1. e = Min(ends)
    BY DEF PartEnd
  <2> HIDE DEF ends, e
  <2> QED BY <1>2, <2>1, MinOfNaturals
<1>4. e \in (i - 1) .. n
  <2> HIDE DEF ends, e, n
  <2> QED BY <1>1, <1>2, <1>3
<1> HIDE DEF e, ends, slashes
<1>5. SubSeq(path, i, e) \in Seq(STRING) /\ (e < i => SubSeq(path, i, e) = <<>>)
  BY <1>1, <1>4
<1>6. Min({e + 2, n + 1}) = IF e + 2 <= n + 1 THEN e + 2 ELSE n + 1
  BY <1>1, <1>4, MinOfTwo
<1>7. pathparser_get_path_part(path, i) = [part |-> SubSeq(path, i, e), next |-> Min({e + 2, n + 1})]
  BY DEF pathparser_get_path_part, e
<1> QED BY <1>1, <1>4, <1>5, <1>6, <1>7

(* One level of the parser's recursion, over the results g of the deeper   *)
(* ones.                                                                   *)
PartsFrom(path, g, i) ==
  LET p == pathparser_get_path_part(path, i)
  IN  IF p.part = <<>> THEN <<>> ELSE <<p.part>> \o g[p.next]

(* The recursion is well founded: from every place of the path on there    *)
(* are results.  By the least number of places for which there are none.   *)
LEMMA PartsExist ==
  ASSUME NEW path \in Seq(STRING)
  PROVE  \E g : g = [i \in 1 .. (Len(path) + 1) |-> PartsFrom(path, g, i)]
<1> DEFINE n == Len(path)
           Good(m) == \E g : g = [i \in (n + 1 - m) .. (n + 1) |-> PartsFrom(path, g, i)]
           bad == {m \in 0 .. n : ~Good(m)}
<1>1. n \in Nat
  OBVIOUS
<1>2. SUFFICES bad = {}
  <2>1. Good(n)
    BY <1>1, <1>2
  <2>2. n + 1 - n = 1
    BY <1>1
  <2> QED BY <2>1, <2>2
<1>3. SUFFICES ASSUME bad # {} PROVE FALSE
  OBVIOUS
<1>4. bad \in SUBSET Nat
  BY <1>1
<1>5. PICK m \in bad : \A y \in bad : m <= y
  <2> HIDE DEF bad
  <2> QED BY <1>3, <1>4, MinOfNaturals
<1>6. m \in 0 .. n /\ ~Good(m)
  BY <1>5
<1>7. CASE m = 0
  <2> DEFINE g == [i \in (n + 1) .. (n + 1) |-> <<>>]
  <2>1. \A i \in (n + 1) .. (n + 1) : i \in 1 .. (n + 1) /\ i = n + 1
    BY <1>1
  <2>2. \A i \in (n + 1) .. (n + 1) : pathparser_get_path_part(path, i).part = <<>>
    BY <2>1, PathPart
  <2>3. \A i \in (n + 1) .. (n + 1) : PartsFrom(path, g, i) = <<>>
    BY <2>2, Zenon DEF PartsFrom
  <2>4. g = [i \in (n + 1) .. (n + 1) |-> PartsFrom(path, g, i)]
    BY <2>3, Zenon
  <2>5. n + 1 - m = n + 1
    BY <1>1, <1>7
  <2> QED BY <1>6, <2>4, <2>5, Zenon
<1>8. CASE m > 0
  <2>1. m - 1 \in 0 .. n /\ ~(m <= m - 1)
    BY <1>1, <1>6, <1>8
  <2>2. Good(m - 1)
    BY <1>5, <2>1
  <2> DEFINE a == n + 1 - m
  <2>3. n + 1 - (m - 1) = a + 1 /\ a \in 1 .. n
    BY <1>1, <1>6, <1>8
  <2>4. PICK g : g = [i \in (a + 1) .. (n + 1) |-> PartsFrom(path, g, i)]
    BY <2>2, <2>3, Zenon
  <2> HIDE DEF a
  <2> DEFINE f == [i \in a .. (n + 1) |-> IF i = a THEN PartsFrom(path, g, a) ELSE g[i]]
  <2>5. \A k \in (a + 1) .. (n + 1) : k \in a .. (n + 1) /\ k # a
    BY <1>1, <2>3
  <2>6. \A k \in (a + 1) .. (n + 1) : f[k] = g[k]
    BY <2>5, Zenon
  <2>7. \A i \in a .. (n + 1) : PartsFrom(path, f, i) = PartsFrom(path, g, i)
    <3> TAKE i \in a .. (n + 1)
    <3> DEFINE p == pathparser_get_path_part(path, i)
    <3>1. i \in 1 .. (n + 1)
      BY <1>1, <2>3
    <3>2. p.part # <<>> => p.next \in 1 .. (n + 1) /\ p.next > i
      BY <3>1, PathPart
    <3> HIDE DEF p, f
    <3>3. p.part # <<>> => p.next \in (a + 1) .. (n + 1)
      BY <1>1, <2>3, <3>1, <3>2
    <3>4. p.part # <<>> => f[p.next] = g[p.next]
      BY <2>6, <3>3
    <3> QED BY <3>4, Zenon DEF PartsFrom, p
  <2>8. \A i \in a .. (n + 1) : f[i] = PartsFrom(path, g, i)
    <3> TAKE i \in a .. (n + 1)
    <3>1. CASE i = a
      BY <3>1
    <3>2. CASE i # a
      <4>1. i \in (a + 1) .. (n + 1)
        BY <1>1, <2>3, <3>2
      <4>2. g[i] = PartsFrom(path, g, i)
        BY <2>4, <4>1, Zenon
      <4> QED BY <3>2, <4>2, Zenon
    <3> QED BY <3>1, <3>2
  <2>9. f = [i \in a .. (n + 1) |-> f[i]]
    OBVIOUS
  <2> HIDE DEF f
  <2>10. f = [i \in a .. (n + 1) |-> PartsFrom(path, f, i)]
    BY <2>7, <2>8, <2>9, Zenon
  <2> QED BY <1>6, <2>10, Zenon DEF a
<1> QED BY <1>1, <1>6, <1>7, <1>8

(* Its results are sequences of parts, by the last place of which they are *)
(* not.                                                                    *)
PartsOf(path) == CHOOSE g : g = [i \in 1 .. (Len(path) + 1) |-> PartsFrom(path, g, i)]

LEMMA PartsTyped ==
  ASSUME NEW path \in Seq(STRING)
  PROVE  /\ PartsOf(path) = [i \in 1 .. (Len(path) + 1) |-> PartsFrom(path, PartsOf(path), i)]
         /\ pathparser_parse_path_part(path, 4) = PartsOf(path)[4]
         /\ \A i \in 1 .. (Len(path) + 1) : PartsOf(path)[i] \in Seq(Seq(STRING))
<1> DEFINE n == Len(path)
           f == PartsOf(path)
           bad == {m \in 0 .. n : f[n + 1 - m] \notin Seq(Seq(STRING))}
<1>1. n \in Nat
  OBVIOUS
<1>2. f = [i \in 1 .. (n + 1) |-> PartsFrom(path, f, i)]
  BY PartsExist, Zenon DEF PartsOf
<1>3. pathparser_parse_path_part(path, 4) = f[4]
  BY Zenon DEF pathparser_parse_path_part, PartsFrom, PartsOf
<1> HIDE DEF f
<1>4. bad = {}
  <2> SUFFICES ASSUME bad # {} PROVE FALSE
    OBVIOUS
  <2>1. bad \in SUBSET Nat
    BY <1>1
  <2>2. PICK m \in bad : \A y \in bad : m <= y
    <3> HIDE DEF bad
    <3> QED BY <2>1, MinOfNaturals
  <2> DEFINE i == n + 1 - m
             p == pathparser_get_path_part(path, i)
  <2>3. m \in 0 .. n /\ i \in 1 .. (n + 1) /\ f[i] \notin Seq(Seq(STRING))
    BY <1>1, <2>2
  <2>4. /\ p.part \in Seq(STRING) /\ p.next \in 1 .. (n + 1)
        /\ p.part # <<>> => p.next > i
    <3> HIDE DEF i
    <3> QED BY <2>3, PathPart
  <2>5. f[i] = IF p.part = <<>> THEN <<>> ELSE <<p.part>> \o f[p.next]
    <3>1. f[i] = PartsFrom(path, f, i)
      BY <1>2, <2>3, Zenon
    <3> QED BY <3>1, Zenon DEF PartsFrom
  <2>6. CASE p.part = <<>>
    <3>1. <<>> \in Seq(Seq(STRING))
      OBVIOUS
    <3> QED BY <2>3, <2>5, <2>6, <3>1, Zenon
  <2>7. CASE p.part # <<>>
    <3> DEFINE y == n + 1 - p.next
    <3> HIDE DEF p
    <3>1. y \in 0 .. n /\ ~(m <= y) /\ n + 1 - y = p.next
      BY <1>1, <2>3, <2>4, <2>7
    <3> HIDE DEF y
    <3>2. f[p.next] \in Seq(Seq(STRING))
      BY <2>2, <3>1
    <3> DEFINE q == p.part
               r == f[p.next]
    <3>3. q \in Seq(STRING) /\ r \in Seq(Seq(STRING))
      BY <2>4, <3>2
    <3>4. f[i] = <<q>> \o r
      BY <2>5, <2>7, Zenon
    <3> HIDE DEF q, r
    <3>5. <<q>> \o r \in Seq(Seq(STRING))
      BY <3>3
    <3> QED BY <2>3, <3>4, <3>5, Zenon
  <2> QED BY <2>6, <2>7
<1>5. \A i \in 1 .. (n + 1) : f[i] \in Seq(Seq(STRING))
  <2> TAKE i \in 1 .. (n + 1)
  <2> DEFINE m == n + 1 - i
  <2>1. m \in 0 .. n /\ n + 1 - m = i
    BY <1>1
  <2> HIDE DEF m
  <2> QED BY <1>4, <2>1
<1> QED BY <1>2, <1>3, <1>5 DEF f

(* So are the results of the whole.                                        *)
LEMMA ParsedTyped ==
  ASSUME NEW path \in Seq(STRING)
  PROVE  pathparser_parse(path).parts \in Seq(Seq(STRING))
<1> DEFINE n == Len(path)
           f == PartsOf(path)
<1>1. n \in Nat
  OBVIOUS
<1>2. pathparser_parse_path_part(path, 4) = f[4] /\ \A i \in 1 .. (n + 1) : f[i] \in Seq(Seq(STRING))
  BY PartsTyped
<1> HIDE DEF f
<1>3. CASE Len(path) > MAX_PATH \/ ~pathparser_path_valid_format(path)
  <2>1. pathparser_parse(path) = NoPath
    BY <1>3, Zenon DEF pathparser_parse
  <2> QED BY <2>1 DEF NoPath
<1>4. CASE ~(Len(path) > MAX_PATH \/ ~pathparser_path_valid_format(path))
  <2>1. pathparser_parse(path).parts = f[4]
    BY <1>2, <1>4 DEF pathparser_parse
  <2>2. Len(path) >= 3
    BY <1>4 DEF pathparser_path_valid_format
  <2>3. 4 \in 1 .. (n + 1)
    BY <1>1, <2>2
  <2> QED BY <1>2, <2>1, <2>3
<1> QED BY <1>3, <1>4

(* A part ends before the first slash from its start on, or with the path. *)
LEMMA PartEndAt ==
  ASSUME NEW path \in Seq(STRING), NEW i \in 4 .. (Len(path) + 1)
  PROVE  LET e == PartEnd(path, i)
         IN  /\ e \in (i - 1) .. Len(path)
             /\ \A j \in i .. e : j \notin Cuts(path)
             /\ e + 1 \in Cuts(path)
<1> DEFINE n == Len(path)
           slashes == {j \in i .. n : path[j] = "/"}
           ends == {n} \cup {k - 1 : k \in slashes}
           e == PartEnd(path, i)
<1>1. n \in Nat
  OBVIOUS
<1>2. ends \in SUBSET Nat /\ n \in ends /\ \A x \in ends : x >= i - 1
  BY <1>1
<1>3. e \in ends /\ \A x \in ends : e <= x
  <2>1. e = Min(ends)
    BY DEF PartEnd
  <2> HIDE DEF ends, e
  <2> QED BY <1>2, <2>1, MinOfNaturals
<1>4. e \in (i - 1) .. n
  <2> HIDE DEF ends, e, n
  <2> QED BY <1>1, <1>2, <1>3
<1>5. ASSUME NEW j \in i .. e, j \in Cuts(path)
      PROVE  FALSE
  <2>1. j \in i .. n /\ j # n + 1 /\ ~(e <= j - 1)
    <3> HIDE DEF e, n, ends
    <3> QED BY <1>1, <1>4, <1>5
  <2>2. path[j] = "/"
    BY <1>5, <2>1 DEF Cuts
  <2>3. j - 1 \in ends
    BY <2>1, <2>2
  <2> HIDE DEF ends, e, n
  <2> QED BY <1>3, <2>1, <2>3
<1>6. e + 1 \in Cuts(path)
  <2>1. CASE e = n
    BY <2>1 DEF Cuts
  <2>2. CASE e # n
    <3>1. PICK k \in slashes : e = k - 1
      <4> HIDE DEF slashes, e
      <4> QED BY <1>3, <2>2
    <3>2. k \in 3 .. n /\ path[k] = "/" /\ e + 1 = k
      <4> HIDE DEF e
      <4> QED BY <1>1, <3>1
    <3> QED BY <3>2 DEF Cuts
  <2> QED BY <2>1, <2>2
<1> QED BY <1>4, <1>5, <1>6

(* A part in front of others.                                              *)
LEMMA InFront ==
  ASSUME NEW q \in Seq(STRING), NEW r \in Seq(Seq(STRING))
  PROVE  LET s == <<q>> \o r
         IN  /\ Len(r) \in Nat /\ Len(s) = Len(r) + 1 /\ s[1] = q
             /\ \A k \in 1 .. Len(r) : s[k + 1] = r[k]
OBVIOUS

(* A component in front of the leading components behind it.               *)
LEMMA OneMoreComponent ==
  ASSUME NEW path \in Seq(STRING), NEW i \in 4 .. (Len(path) + 1), i - 1 \in Cuts(path),
         NEW e \in i .. Len(path), e + 1 \in Cuts(path),
         \A j \in i .. e : j \notin Cuts(path),
         NEW r \in Seq(Seq(STRING)), LeadingComponents(path, e + 2, r)
  PROVE  LeadingComponents(path, i, <<SubSeq(path, i, e)>> \o r)
<1> DEFINE q == SubSeq(path, i, e)
           s == <<q>> \o r
           l == Len(r)
           n == Len(path)
           C == Cuts(path)
<1>1. q \in Seq(STRING) /\ n \in Nat /\ i \in Nat /\ e \in Nat /\ i <= e
  OBVIOUS
<1>2. l \in Nat /\ Len(s) = l + 1 /\ s[1] = q /\ \A k \in 1 .. l : s[k + 1] = r[k]
  <2> HIDE DEF q
  <2> QED BY <1>1, InFront
<1>3. PICK c \in [1 .. (l + 1) -> C] :
        /\ c[1] = (e + 2) - 1
        /\ \A k \in 1 .. l :
             /\ c[k] + 1 < c[k + 1]
             /\ \A j \in (c[k] + 1) .. (c[k + 1] - 1) : j \notin C
             /\ r[k] = SubSeq(path, c[k] + 1, c[k + 1] - 1)
        /\ c[l + 1] = n + 1 \/ c[l + 1] + 1 \in C
  BY DEF LeadingComponents
<1> DEFINE cut == [k \in 1 .. (l + 2) |-> IF k = 1 THEN i - 1 ELSE c[k - 1]]
<1> HIDE DEF q, s, l, n, C
<1>4. i - 1 \in C /\ e + 1 \in C /\ \A j \in i .. e : j \notin C
  BY DEF C
<1>5. \A k \in 1 .. (l + 2) : k # 1 => k - 1 \in 1 .. (l + 1)
  BY <1>2
<1>6. cut \in [1 .. (l + 2) -> C]
  BY <1>3, <1>4, <1>5
<1>7. cut[1] = i - 1
  BY <1>2
<1>8. \A k \in 1 .. (l + 1) : cut[k + 1] = c[k]
  <2> TAKE k \in 1 .. (l + 1)
  <2>1. k + 1 \in 1 .. (l + 2) /\ k + 1 # 1 /\ (k + 1) - 1 = k
    BY <1>2
  <2> QED BY <2>1
<1> HIDE DEF cut
<1>9. cut[2] = e + 1
  <2>1. 1 \in 1 .. (l + 1) /\ 1 + 1 = 2 /\ (e + 2) - 1 = e + 1
    BY <1>1, <1>2
  <2>2. cut[1 + 1] = c[1]
    BY <1>8, <2>1
  <2> QED BY <1>3, <2>1, <2>2
<1>10. \A k \in 1 .. (l + 1) :
         /\ cut[k] + 1 < cut[k + 1]
         /\ \A j \in (cut[k] + 1) .. (cut[k + 1] - 1) : j \notin C
         /\ s[k] = SubSeq(path, cut[k] + 1, cut[k + 1] - 1)
  <2> TAKE k \in 1 .. (l + 1)
  <2>1. CASE k = 1
    <3>1. k + 1 = 2
      BY <2>1
    <3>2. cut[k] = i - 1 /\ cut[k + 1] = e + 1
      BY <1>7, <1>9, <2>1, <3>1, Zenon
    <3>3. s[k] = SubSeq(path, i, e)
      BY <1>2, <2>1 DEF q
    <3>4. (i - 1) + 1 = i /\ (e + 1) - 1 = e /\ i < e + 1
      BY <1>1
    <3>5. cut[k] + 1 = i /\ cut[k + 1] - 1 = e
      BY <3>2, <3>4, Zenon
    <3> QED BY <1>4, <3>2, <3>3, <3>4, <3>5, Zenon
  <2>2. CASE k # 1
    <3> DEFINE h == k - 1
    <3>1. h \in 1 .. l /\ h \in 1 .. (l + 1) /\ h + 1 \in 1 .. (l + 1) /\ k = h + 1
      BY <1>2, <2>2
    <3> HIDE DEF h
    <3>2. cut[k] = c[h] /\ cut[k + 1] = c[h + 1]
      BY <1>8, <3>1
    <3>3. s[k] = r[h]
      BY <1>2, <3>1
    <3> QED BY <1>3, <3>1, <3>2, <3>3
  <2> QED BY <2>1, <2>2
<1>11. cut[l + 2] = n + 1 \/ cut[l + 2] + 1 \in C
  <2>1. l + 1 \in 1 .. (l + 1) /\ (l + 1) + 1 = l + 2
    BY <1>2
  <2>2. cut[l + 2] = c[l + 1]
    BY <1>8, <2>1
  <2> QED BY <1>3, <2>2
<1>12. Len(s) + 1 = l + 2
  BY <1>2
<1>13. LeadingComponents(path, i, s)
  BY <1>2, <1>6, <1>7, <1>10, <1>11, <1>12 DEF LeadingComponents, C, n
<1> QED BY <1>13 DEF s, q

(* A component at the end of the path, and no component.                   *)
LEMMA LastComponent ==
  ASSUME NEW path \in Seq(STRING), NEW i \in 4 .. (Len(path) + 1), i - 1 \in Cuts(path)
  PROVE  /\ i \in Cuts(path) => LeadingComponents(path, i, <<>>)
         /\ i <= Len(path) /\ (\A j \in i .. Len(path) : j \notin Cuts(path)) =>
              LeadingComponents(path, i, <<SubSeq(path, i, Len(path))>>)
<1> DEFINE n == Len(path)
           q == SubSeq(path, i, n)
           C == Cuts(path)
<1>1. n \in Nat /\ i \in Nat /\ i - 1 \in C /\ n + 1 \in C
  BY DEF Cuts
<1>2. ASSUME i \in Cuts(path)
      PROVE  LeadingComponents(path, i, <<>>)
  <2> DEFINE cut == [k \in 1 .. 1 |-> i - 1]
  <2>1. cut \in [1 .. 1 -> C] /\ cut[1] = i - 1 /\ cut[1] + 1 = i
    <3> HIDE DEF C
    <3> QED BY <1>1
  <2>2. Len(<<>>) = 0 /\ 0 + 1 = 1 /\ 1 .. 0 = {}
    OBVIOUS
  <2> HIDE DEF cut
  <2> QED BY <1>2, <2>1, <2>2 DEF LeadingComponents, C
<1>3. ASSUME i <= n, \A j \in i .. n : j \notin C
      PROVE  LeadingComponents(path, i, <<q>>)
  <2> DEFINE cut == [k \in 1 .. 2 |-> IF k = 1 THEN i - 1 ELSE n + 1]
  <2>1. Len(<<q>>) = 1 /\ 1 + 1 = 2 /\ <<q>>[1] = q /\ 1 .. 1 = {1}
    OBVIOUS
  <2> HIDE DEF C, q
  <2>2. cut \in [1 .. 2 -> C] /\ cut[1] = i - 1 /\ cut[2] = n + 1
    <3> HIDE DEF n
    <3> QED BY <1>1
  <2> HIDE DEF cut
  <2>3. /\ cut[1] + 1 = i /\ cut[2] - 1 = n /\ cut[1] + 1 < cut[2]
        /\ \A j \in (cut[1] + 1) .. (cut[2] - 1) : j \notin C
        /\ q = SubSeq(path, cut[1] + 1, cut[2] - 1)
    <3>1. cut[1] + 1 = i /\ cut[2] - 1 = n /\ cut[1] + 1 < cut[2]
      <4> HIDE DEF n
      <4> QED BY <1>1, <1>3, <2>2
    <3> QED BY <1>3, <3>1 DEF q
  <2> QED BY <2>1, <2>2, <2>3 DEF LeadingComponents, C
<1> QED BY <1>2, <1>3

(* The parser gives the leading components, from every place behind a cut. *)
(* By the last place from which it does not.                               *)
LEMMA ParsedComponents ==
  ASSUME NEW path \in Seq(STRING),
         ~(Len(path) > MAX_PATH \/ ~pathparser_path_valid_format(path))
  PROVE  LeadingComponents(path, 4, pathparser_parse(path).parts)
<1> DEFINE n == Len(path)
           f == PartsOf(path)
           C == Cuts(path)
           Bad(m) == (n + 1 - m) - 1 \in C /\ ~LeadingComponents(path, n + 1 - m, f[n + 1 - m])
           bad == {m \in 0 .. (n - 3) : Bad(m)}
<1>1. n \in Nat /\ n >= 3
  BY DEF pathparser_path_valid_format
<1>2. f = [i \in 1 .. (n + 1) |-> PartsFrom(path, f, i)]
  BY PartsTyped, Zenon
<1>3. \A i \in 1 .. (n + 1) : f[i] \in Seq(Seq(STRING))
  BY PartsTyped
<1>4. pathparser_parse(path).parts = f[4]
  <2>1. pathparser_parse_path_part(path, 4) = f[4]
    BY PartsTyped
  <2> HIDE DEF f
  <2> QED BY <2>1 DEF pathparser_parse
<1> HIDE DEF f
<1>5. bad = {}
  <2> SUFFICES ASSUME bad # {} PROVE FALSE
    OBVIOUS
  <2>1. bad \in SUBSET Nat
    <3> HIDE DEF Bad, n
    <3> QED BY <1>1
  <2>2. PICK m \in bad : \A y \in bad : m <= y
    <3> HIDE DEF bad
    <3> QED BY <2>1, MinOfNaturals
  <2> DEFINE i == n + 1 - m
             p == pathparser_get_path_part(path, i)
             e == PartEnd(path, i)
  <2>3. m \in 0 .. (n - 3) /\ Bad(m)
    BY <2>2
  <2>4. i \in 4 .. (n + 1) /\ i \in 1 .. (n + 1)
    <3> HIDE DEF Bad, n
    <3> QED BY <1>1, <2>3
  <2>5. i - 1 \in C /\ ~LeadingComponents(path, i, f[i])
    BY <2>3
  <2>6. e \in (i - 1) .. n /\ e + 1 \in C /\ \A j \in i .. e : j \notin C
    <3> HIDE DEF i
    <3> QED BY <2>4, PartEndAt
  <2>7. f[i] = IF p.part = <<>> THEN <<>> ELSE <<p.part>> \o f[p.next]
    <3>1. f[i] = PartsFrom(path, f, i)
      BY <1>2, <2>4, Zenon
    <3> QED BY <3>1, Zenon DEF PartsFrom
  <2>8. p.part = SubSeq(path, i, e) /\ p.next = IF e + 2 <= n + 1 THEN e + 2 ELSE n + 1
    <3> HIDE DEF i
    <3>1. e + 2 \in Nat /\ n + 1 \in Nat
      <4> HIDE DEF e, n
      <4> QED BY <1>1, <2>4, <2>6
    <3>2. Min({e + 2, n + 1}) = IF e + 2 <= n + 1 THEN e + 2 ELSE n + 1
      BY <3>1, MinOfTwo
    <3> QED BY <3>2 DEF pathparser_get_path_part
  <2>9. i - 1 \in Cuts(path) /\ e + 1 \in Cuts(path) /\ \A j \in i .. e : j \notin Cuts(path)
    BY <2>5, <2>6
  <2> HIDE DEF i, p, e, Bad
  <2>10. CASE e < i
    <3>1. e + 1 = i
      <4> HIDE DEF n
      <4> QED BY <1>1, <2>4, <2>6, <2>10
    <3>2. SubSeq(path, i, e) = <<>>
      BY <1>1, <2>4, <2>6, <2>10
    <3>3. LeadingComponents(path, i, <<>>)
      BY <2>4, <2>9, <3>1, LastComponent
    <3> QED BY <2>5, <2>7, <2>8, <3>2, <3>3
  <2>11. CASE i <= e
    <3> DEFINE q == SubSeq(path, i, e)
    <3>1. q # <<>> /\ q \in Seq(STRING)
      BY <1>1, <2>4, <2>6, <2>11
    <3> HIDE DEF q
    <3>2. f[i] = <<q>> \o f[p.next]
      BY <2>7, <2>8, <3>1 DEF q
    <3>3. CASE e = n
      <4>1. p.next = n + 1
        <5> HIDE DEF n
        <5> QED BY <1>1, <2>8, <3>3
      <4>2. f[n + 1] = <<>>
        <5>1. n + 1 \in 1 .. (n + 1)
          BY <1>1
        <5>2. pathparser_get_path_part(path, n + 1).part = <<>>
          BY <5>1, PathPart
        <5>3. f[n + 1] = PartsFrom(path, f, n + 1)
          BY <1>2, <5>1, Zenon
        <5> QED BY <5>2, <5>3, Zenon DEF PartsFrom
      <4>3. <<q>> \o <<>> = <<q>>
        BY <3>1
      <4>4. f[i] = <<q>>
        BY <3>2, <4>1, <4>2, <4>3, Zenon
      <4>5. q = SubSeq(path, i, Len(path)) /\ i <= Len(path) /\ \A j \in i .. Len(path) : j \notin Cuts(path)
        BY <2>9, <2>11, <3>3 DEF q
      <4>6. LeadingComponents(path, i, <<q>>)
        BY <2>4, <2>9, <4>5, LastComponent
      <4> QED BY <2>5, <4>4, <4>6
    <3>4. CASE e # n
      <4>1. p.next = e + 2 /\ e + 2 \in 1 .. (n + 1) /\ e \in i .. n
        <5> HIDE DEF n
        <5> QED BY <1>1, <2>4, <2>6, <2>8, <2>11, <3>4
      <4> DEFINE y == n + 1 - (e + 2)
      <4>2. y \in 0 .. (n - 3) /\ ~(m <= y) /\ n + 1 - y = e + 2 /\ (e + 2) - 1 = e + 1
        <5> HIDE DEF n
        <5> QED BY <1>1, <2>3, <2>4, <2>6, <2>11, <3>4 DEF i
      <4> HIDE DEF y
      <4>3. ~Bad(y)
        BY <2>2, <4>2
      <4>4. LeadingComponents(path, e + 2, f[e + 2])
        BY <2>6, <4>2, <4>3 DEF Bad
      <4>5. f[e + 2] \in Seq(Seq(STRING))
        BY <1>3, <4>1
      <4>6. LeadingComponents(path, i, <<SubSeq(path, i, e)>> \o f[e + 2])
        BY <2>4, <2>9, <4>1, <4>4, <4>5, OneMoreComponent
      <4> QED BY <2>5, <3>2, <4>1, <4>6, Zenon DEF q
    <3> QED BY <3>3, <3>4
  <2>12. e < i \/ i <= e
    <3> HIDE DEF n
    <3> QED BY <1>1, <2>4, <2>6
  <2> QED BY <2>10, <2>11, <2>12
<1>6. n - 3 \in 0 .. (n - 3) /\ n + 1 - (n - 3) = 4
  <2> HIDE DEF n
  <2> QED BY <1>1
<1>7. ~Bad(n - 3)
  BY <1>5, <1>6
<1>8. 3 \in C
  <2>1. SubSeq(path, 2, 3) = <<":", "/">>
    BY DEF pathparser_path_valid_format
  <2>2. SubSeq(path, 2, 3)[2] = path[3]
    BY <1>1
  <2>3. <<":", "/">>[2] = "/"
    OBVIOUS
  <2>4. path[3] = "/"
    BY <2>1, <2>2, <2>3, Zenon
  <2> QED BY <1>1, <2>4 DEF Cuts
<1>9. LeadingComponents(path, 4, f[4])
  BY <1>6, <1>7, <1>8
<1> QED BY <1>4, <1>9

-----------------------------------------------------------------------------
(* The driver and the streams.                                             *)

(* The number of an item leads to one, whose first cluster and size are    *)
(* numbers.                                                                *)
LEMMA ItemTyped ==
  ASSUME NEW c \in DOMAIN Items
  PROVE  /\ Items[c] \in DirectoryItem
         /\ Items[c].cluster \in Nat /\ Items[c].filesize \in Nat
<1>1. Items[c] \in DirectoryItem
  BY Fat16Assumption DEF Fat16Assumption
<1> QED BY <1>1 DEF DirectoryItem

(* The next match is an item of the root directory.                        *)
LEMMA NextMatch ==
  ASSUME RootTyped, Matches # {}
  PROVE  LET k == Min(Matches)
         IN  /\ k \in Matches /\ k \in Nat
             /\ \A y \in Matches : k <= y
             /\ k \in DOMAIN root.item
             /\ root.item[k] \in DOMAIN Items
             /\ Items[root.item[k]].cluster \in Nat
<1> DEFINE k == Min(Matches)
<1>1. root.item \in Seq(DOMAIN Items)
  BY DEF RootTyped
<1>2. Matches \in SUBSET Nat /\ Matches \subseteq DOMAIN root.item
  BY <1>1 DEF Matches
<1>3. k \in Matches /\ \A y \in Matches : k <= y
  BY <1>2, MinOfNaturals
<1> HIDE DEF k
<1>4. k \in Nat /\ k \in DOMAIN root.item /\ root.item[k] \in DOMAIN Items
  BY <1>1, <1>2, <1>3
<1> QED BY <1>3, <1>4, ItemTyped DEF k

(* What is found is an item of the array, or one that memory behind the    *)
(* array was taken for (fat16_find_item_in_directory).                     *)
FindsItem == fat16_find_item_in_directory \/ fat16_find_item_behind_directory

LEMMA ItemFound ==
  ASSUME RootTyped, FindsItem
  PROVE  /\ job.pc = "find" /\ call' = call /\ root' = root /\ desc' = desc
         /\ \E k \in Nat, copy \in DOMAIN Items, cluster \in Nat :
              \/ /\ count_from(fat16_cluster_to_sector(cluster))
                 /\ job' = [job EXCEPT !.i = k, !.found = copy, !.first = cluster,
                                       !.n = 0, !.pc = "count"]
              \/ /\ job' = [job EXCEPT !.i = k, !.found = copy]
                 /\ UNCHANGED <<disk, pos>>
<1> DEFINE Outcome(k, copy, cluster) ==
             \/ /\ count_from(fat16_cluster_to_sector(cluster))
                /\ job' = [job EXCEPT !.i = k, !.found = copy, !.first = cluster,
                                      !.n = 0, !.pc = "count"]
             \/ /\ job' = [job EXCEPT !.i = k, !.found = copy]
                /\ UNCHANGED <<disk, pos>>
<1>1. ASSUME NEW k \in Nat, NEW seen \in DOMAIN Items, NEW copy \in DOMAIN Items,
             fat16_new_fat_item(k, seen, copy)
      PROVE  \E i \in Nat, c \in DOMAIN Items, cluster \in Nat : Outcome(i, c, cluster)
  <2>1. Items[seen].cluster \in Nat
    BY ItemTyped
  <2>2. Outcome(k, copy, Items[seen].cluster)
    BY <1>1 DEF fat16_new_fat_item
  <2> HIDE DEF Outcome
  <2> QED BY <2>1, <2>2, Zenon
<1>2. CASE fat16_find_item_in_directory
  <2> DEFINE k == Min(Matches)
  <2>1. /\ job.pc = "find" /\ Matches # {} /\ call' = call /\ root' = root /\ desc' = desc
        /\ fat16_new_fat_item(k, root.item[k], root.item[k])
    BY <1>2 DEF fat16_find_item_in_directory
  <2>2. k \in Nat /\ root.item[k] \in DOMAIN Items
    BY <2>1, NextMatch
  <2>3. \E i \in Nat, c \in DOMAIN Items, cluster \in Nat : Outcome(i, c, cluster)
    <3> HIDE DEF k, Outcome
    <3> QED BY <1>1, <2>1, <2>2
  <2> QED BY <2>1, <2>3
<1>3. CASE fat16_find_item_behind_directory
  <2>1. /\ job.pc = "find" /\ call' = call /\ root' = root /\ desc' = desc
        /\ \E k \in BehindArray, seen, copy \in Stray : fat16_new_fat_item(k, seen, copy)
    BY <1>3 DEF fat16_find_item_behind_directory
  <2>2. PICK k \in BehindArray, seen \in Stray, copy \in Stray : fat16_new_fat_item(k, seen, copy)
    BY <2>1, Zenon
  <2>3. k \in Nat
    BY DEF BehindArray
  <2>4. seen \in DOMAIN Items /\ copy \in DOMAIN Items
    BY Fat16Assumption DEF Fat16Assumption
  <2>5. \E i \in Nat, c \in DOMAIN Items, cluster \in Nat : Outcome(i, c, cluster)
    <3> HIDE DEF Outcome
    <3> QED BY <1>1, <2>2, <2>3, <2>4
  <2> QED BY <2>1, <2>5
<1> QED BY <1>2, <1>3 DEF FindsItem

(* The header that the mount reads.                                        *)
LEMMA HeaderRead ==
  ASSUME StreamTypeOK, FlatRead, call.state = "returned", call.start = 0, call.total = HEADER
  PROVE  /\ Header(call.out) \in HeaderFields
         /\ Header(call.out) = HeaderOf(disk)
         /\ RootSector(Header(call.out)) \in Nat
<1>1. \A i \in 1 .. 6 : call.out[i] \in Nat /\ call.out[i] = disk[0 + i - 1]
  BY Delivered DEF HEADER
<1>2. /\ call.out[1] \in Nat /\ call.out[2] \in Nat /\ call.out[3] \in Nat
      /\ call.out[4] \in Nat /\ call.out[5] \in Nat /\ call.out[6] \in Nat
      /\ call.out[1] = disk[0] /\ call.out[2] = disk[1] /\ call.out[3] = disk[2]
      /\ call.out[4] = disk[3] /\ call.out[5] = disk[4] /\ call.out[6] = disk[5]
  BY <1>1
<1>3. Header(call.out) \in HeaderFields
  BY <1>2 DEF Header, HeaderFields
<1>4. Header(call.out) = HeaderOf(disk)
  BY <1>2 DEF Header, HeaderOf, HEADER
<1>5. RootSector(Header(call.out)) = call.out[3] * call.out[5] + call.out[2]
  BY DEF RootSector, Header
<1>6. RootSector(Header(call.out)) \in Nat
  BY <1>2, <1>5, Product
<1> QED BY <1>3, <1>4, <1>6

(* The streams go on reading the disk without its sectors, whatever the    *)
(* driver seeks and reads; it moves a stream only when no read is in       *)
(* progress.                                                               *)
LEMMA StreamsKept ==
  ASSUME Inv, Fat16Next
  PROVE  StreamInv' /\ disk' = disk
<1> DEFINE first == RootSector(root.header) * SECTOR_SIZE
<1>1. StreamInv /\ TypeOK /\ HeaderKnown /\ RootTyped /\ Phases /\ ReadOfJob
  BY DEF Inv, TypeOK, StreamInv
<1>2. job \in Job /\ pos \in [Streams -> Nat] /\ call \in Call
  BY <1>1 DEF TypeOK, StreamTypeOK
<1>3. NoCall \in Call /\ NoCall.state = "idle"
  BY NoCallTyped
<1>4. Mounted => /\ first \in Nat /\ root.header.root_dir_entries \in Nat
                 /\ root.header.reserved_sectors \in Nat
                 /\ size_of_cluster_bytes \in Nat \ {0}
                 /\ \A c \in Nat : fat16_cluster_to_sector(c) \in Nat
                 /\ chunk \in Nat
  BY <1>1, Geometry, Chunk
<1>5. ASSUME NEW s \in Streams, NEW p \in Nat, NEW total \in Nat, seek_and_read(s, p, total)
      PROVE  StreamInv' /\ disk' = disk
  <2>1. pos' \in [Streams -> Nat] /\ pos'[s] = p
    BY <1>2, <1>5 DEF seek_and_read
  <2> QED BY <1>1, <1>5, <2>1, ReadStarts DEF seek_and_read
<1>6. ASSUME read_returns, UNCHANGED <<disk, pos>>
      PROVE  StreamInv' /\ disk' = disk
  BY <1>1, <1>2, <1>3, <1>6, NoRead DEF read_returns
<1>7. ASSUME UNCHANGED <<disk, pos, call>>
      PROVE  StreamInv' /\ disk' = disk
  BY <1>1, <1>7 DEF StreamInv, StreamTypeOK, FlatRead
<1>8. ASSUME NEW sector \in Nat, count_from(sector), call' \in Call, call'.state = "idle"
      PROVE  StreamInv' /\ disk' = disk
  <2>1. sector * SECTOR_SIZE \in Nat
    BY SectorSize, Product
  <2>2. pos' \in [Streams -> Nat] /\ disk' = disk
    BY <1>2, <1>8, <2>1 DEF count_from
  <2> QED BY <1>1, <1>8, <2>2, NoRead
<1>9. CASE stream_step
  BY <1>1, <1>9, SectorRead DEF stream_step, read_sector
<1>10. CASE fat16_resolve
  BY <1>5, <1>10, StreamNames DEF fat16_resolve, HEADER
<1>11. CASE fat16_get_root_directory
  <2> DEFINE h == Header(call.out)
  <2>1. CASE UNCHANGED <<disk, pos>>
    BY <1>6, <1>11, <2>1 DEF fat16_get_root_directory
  <2>2. CASE count_from(RootSector(h))
    <3>1. call' \in Call /\ call'.state = "idle" /\ job.pc = "header" /\ call.state = "returned"
      BY <1>3, <1>11 DEF fat16_get_root_directory, read_returns
    <3>2. call.total = HEADER /\ call.start = 0
      BY <1>1, <3>1 DEF ReadOfJob
    <3>3. RootSector(h) \in Nat
      BY <1>1, <3>1, <3>2, HeaderRead DEF StreamInv
    <3> QED BY <1>8, <2>2, <3>1, <3>3
  <2> QED BY <1>11, <2>1, <2>2 DEF fat16_get_root_directory
<1>12. CASE read_item
  <2>1. pos["directory"] \in Nat /\ pos' = pos /\ disk' = disk
    BY <1>2, <1>12, StreamNames DEF read_item
  <2> QED BY <1>1, <1>2, <1>12, <2>1, StreamNames, ReadStarts DEF read_item
<1>13. CASE fat16_get_total_items_for_directory
  BY <1>6, <1>13 DEF fat16_get_total_items_for_directory
<1>14. CASE load_root
  <2>1. Mounted
    BY <1>1, <1>14 DEF load_root, Phases
  <2> QED BY <1>4, <1>5, <1>14, <2>1, StreamNames DEF load_root
<1>15. CASE root_loaded
  BY <1>6, <1>15 DEF root_loaded
<1>16. CASE FindsItem
  <2>1. /\ job.pc = "find" /\ call' = call
        /\ \E cluster \in Nat : \/ count_from(fat16_cluster_to_sector(cluster))
                               \/ UNCHANGED <<disk, pos>>
    BY <1>1, <1>16, ItemFound, Zenon
  <2>2. CASE UNCHANGED <<disk, pos>>
    BY <1>7, <2>1, <2>2
  <2>3. ASSUME NEW cluster \in Nat, count_from(fat16_cluster_to_sector(cluster))
        PROVE  StreamInv' /\ disk' = disk
    <3>1. Mounted /\ call.state = "idle"
      BY <1>1, <2>1 DEF Phases, ReadOfJob
    <3>2. fat16_cluster_to_sector(cluster) \in Nat
      BY <1>4, <3>1
    <3> QED BY <1>2, <1>8, <2>1, <2>3, <3>1, <3>2
  <2> QED BY <2>1, <2>2, <2>3
<1>17. CASE fat16_get_fat_entry
  <2>1. Mounted
    BY <1>1, <1>17 DEF fat16_get_fat_entry, Phases
  <2>2. job.cluster \in Nat
    BY <1>2 DEF Job
  <2>3. root.header.reserved_sectors * SECTOR_SIZE \in Nat
    BY <1>4, <2>1, SectorSize, Product
  <2>4. root.header.reserved_sectors * SECTOR_SIZE * job.cluster \in Nat
    BY <2>2, <2>3, Product
  <2> QED BY <1>5, <1>17, <2>4, StreamNames DEF fat16_get_fat_entry
<1>18. CASE fat16_get_cluster_for_offset
  BY <1>6, <1>18 DEF fat16_get_cluster_for_offset
<1>19. CASE fat16_read_internal_from_stream
  <2>1. Mounted
    BY <1>1, <1>19 DEF fat16_read_internal_from_stream, Phases
  <2>2. job.cluster \in Nat /\ job.offset \in Nat
    BY <1>2 DEF Job
  <2>3. fat16_cluster_to_sector(job.cluster) * SECTOR_SIZE \in Nat
    BY <1>4, <2>1, <2>2, SectorSize, Product
  <2>4. job.offset % size_of_cluster_bytes \in Nat
    BY <1>4, <2>1, <2>2, DivMod
  <2>5. fat16_cluster_to_sector(job.cluster) * SECTOR_SIZE
          + (job.offset % size_of_cluster_bytes) \in Nat
    BY <2>3, <2>4
  <2> QED BY <1>4, <1>5, <1>19, <2>1, <2>5, StreamNames DEF fat16_read_internal_from_stream
<1>20. CASE chunk_read
  BY <1>6, <1>20 DEF chunk_read
<1>21. CASE fat16_load_fat_directory \/ fat16_open \/ fat16_read_internal
  BY <1>7, <1>21 DEF fat16_load_fat_directory, fat16_open, fat16_read_internal
<1>22. CASE poll \/ call_returns \/ fclose
  BY <1>7, <1>22 DEF poll, vars, call_returns, fclose
<1>23. ASSUME NEW path \in Paths, NEW mode \in Modes, fopen(path, mode)
       PROVE  StreamInv' /\ disk' = disk
  BY <1>7, <1>23 DEF fopen
<1>24. ASSUME NEW size \in Sizes, NEW nmemb \in Counts, fread(size, nmemb)
       PROVE  StreamInv' /\ disk' = disk
  BY <1>7, <1>24 DEF fread
<1>25. ASSUME NEW offset \in 0 .. Items[desc.item].filesize, fseek(offset)
       PROVE  StreamInv' /\ disk' = disk
  BY <1>7, <1>25 DEF fseek
<1> QED BY <1>9, <1>10, <1>11, <1>12, <1>13, <1>14, <1>15, <1>16, <1>17, <1>18, <1>19, <1>20,
           <1>21, <1>22, <1>23, <1>24, <1>25 DEF Fat16Next, Driver, FindsItem

(* A job that has not begun is one.                                        *)
LEMMA IdleTyped == Idle \in Job
BY Fat16Assumption DEF Fat16Assumption, Idle, Job

(* A sequence is one over whatever its elements are in.                    *)
LEMMA Retyped ==
  ASSUME NEW S, NEW s \in Seq(Nat), \A i \in 1 .. Len(s) : s[i] \in S
  PROVE  s \in Seq(S)
<1>1. s \in [1 .. Len(s) -> S] /\ Len(s) \in Nat
  OBVIOUS
<1> QED BY <1>1

(* The variables of the driver keep their types; the header in memory is   *)
(* that of the disk: each handler of fat16.c and file.c in turn.           *)
LEMMA TypesKept ==
  ASSUME Inv, Fat16Next
  PROVE  TypeOK' /\ RootTyped' /\ HeaderKnown'
<1>1. StreamInv /\ TypeOK /\ HeaderKnown /\ RootTyped /\ Phases /\ ReadOfJob
  BY DEF Inv, TypeOK, StreamInv
<1>2. StreamTypeOK' /\ disk' = disk
  BY StreamsKept DEF StreamInv
<1>3. job \in Job /\ desc \in [item : DOMAIN Items, pos : Nat] /\ Idle \in Job
  BY <1>1, IdleTyped DEF TypeOK
<1>4. ASSUME job' \in Job, desc' \in [item : DOMAIN Items, pos : Nat], RootTyped', HeaderKnown'
      PROVE  TypeOK' /\ RootTyped' /\ HeaderKnown'
  BY <1>2, <1>4 DEF TypeOK, RootTyped
<1>5. root' = root => RootTyped' /\ HeaderKnown'
  BY <1>1, <1>2 DEF RootTyped, HeaderKnown, Mounted
<1>6. /\ job.i \in Nat /\ job.n \in Nat /\ job.first \in Nat /\ job.offset \in Nat
      /\ job.size \in Nat /\ job.total \in Nat /\ job.members \in Nat /\ job.ahead \in Nat
      /\ job.cluster \in Nat /\ job.out \in Seq(Nat) /\ job.found \in DOMAIN Items
  BY <1>3 DEF Job
<1>7. CASE stream_step
  BY <1>3, <1>4, <1>5, <1>7 DEF stream_step
<1>8. CASE fat16_resolve
  <2>1. job' \in Job
    BY <1>3, <1>8 DEF fat16_resolve, Job
  <2> QED BY <1>3, <1>4, <1>5, <1>8, <2>1 DEF fat16_resolve
<1>9. CASE fat16_get_root_directory
  <2> DEFINE h == Header(call.out)
  <2>1. call.state = "returned" /\ job.pc = "header"
    BY <1>9 DEF fat16_get_root_directory, read_returns
  <2>2. call.start = 0 /\ call.total = HEADER
    BY <1>1, <2>1 DEF ReadOfJob
  <2>3. h \in HeaderFields /\ h = HeaderOf(disk)
    BY <1>1, <2>1, <2>2, HeaderRead DEF StreamInv
  <2> HIDE DEF h
  <2>4. CASE job' = Idle /\ root' = root
    BY <1>3, <1>4, <1>5, <1>9, <2>4 DEF fat16_get_root_directory
  <2>5. CASE root' = [root EXCEPT !.header = h] /\ job' = [job EXCEPT !.pc = "count"]
    <3>1. job' \in Job
      BY <1>3, <2>5 DEF Job
    <3>2. RootTyped'
      BY <1>1, <2>3, <2>5 DEF RootTyped
    <3>3. root'.header = h
      BY <1>1, <2>5 DEF RootTyped
    <3>4. HeaderKnown'
      BY <1>2, <2>3, <3>3, Zenon DEF HeaderKnown, HeaderOf
    <3> QED BY <1>3, <1>4, <1>9, <3>1, <3>2, <3>4 DEF fat16_get_root_directory
  <2> QED BY <1>9, <2>4, <2>5 DEF fat16_get_root_directory, h
<1>10. CASE read_item
  <2>1. job' \in Job
    BY <1>3, <1>10 DEF read_item, Job
  <2> QED BY <1>3, <1>4, <1>5, <1>10, <2>1 DEF read_item
<1>11. CASE fat16_get_total_items_for_directory
  <2> DEFINE m == IF deleted(call.out[1]) THEN job.n ELSE job.n + 1
  <2>1. m \in Nat
    BY <1>6
  <2>2. \/ job' = [job EXCEPT !.pc = "load"]
        \/ job' = [job EXCEPT !.pc = "count", !.n = m]
    BY <1>11 DEF fat16_get_total_items_for_directory
  <2> HIDE DEF m
  <2>3. [job EXCEPT !.pc = "load"] \in Job /\ [job EXCEPT !.pc = "count", !.n = m] \in Job
    BY <1>3, <2>1 DEF Job
  <2> QED BY <1>3, <1>4, <1>5, <1>11, <2>2, <2>3 DEF fat16_get_total_items_for_directory
<1>12. CASE load_root
  <2>1. job' \in Job
    BY <1>3, <1>12 DEF load_root, Job
  <2> QED BY <1>3, <1>4, <1>5, <1>12, <2>1 DEF load_root
<1>13. CASE root_loaded
  <2>1. /\ root' = [root EXCEPT !.item = call.out, !.total = job.n]
        /\ job' = Idle /\ desc' = desc
        /\ call.state = "returned" /\ job.pc = "loaded"
    BY <1>13 DEF root_loaded, read_returns
  <2>2. /\ call.start = RootSector(root.header) * SECTOR_SIZE
        /\ call.total = root.header.root_dir_entries /\ Mounted
    BY <1>1, <2>1 DEF ReadOfJob, Phases
  <2>3. call.out \in Seq(DOMAIN Items)
    <3> DEFINE first == RootSector(root.header) * SECTOR_SIZE
    <3>1. /\ first \in Nat /\ root.header.root_dir_entries \in Nat /\ Formatted(disk)
          /\ root.header = HeaderOf(disk) /\ root.header.signature = 41
      BY <1>1, <2>2, Geometry DEF HeaderKnown, Mounted
    <3>2. \A c \in DOMAIN disk : first <= c /\ c < first + root.header.root_dir_entries
                                   => disk[c] \in DOMAIN Items
      BY <3>1 DEF Formatted
    <3>3. /\ call.out \in Seq(Nat) /\ Len(call.out) = call.total
          /\ \A i \in 1 .. call.total : /\ call.start + i - 1 \in DOMAIN disk
                                        /\ call.out[i] = disk[call.start + i - 1]
      BY <1>1, <2>1, Delivered DEF StreamInv
    <3> HIDE DEF first
    <3>4. ASSUME NEW i \in 1 .. Len(call.out) PROVE call.out[i] \in DOMAIN Items
      <4> DEFINE c == first + i - 1
      <4>1. c \in DOMAIN disk /\ call.out[i] = disk[c]
        BY <2>2, <3>3, <3>4 DEF first
      <4>2. first <= c /\ c < first + root.header.root_dir_entries
        BY <2>2, <3>1, <3>3, <3>4
      <4> QED BY <3>2, <4>1, <4>2
    <3> QED BY <3>3, <3>4, Retyped
  <2>4. RootTyped' /\ root'.header = root.header
    BY <1>1, <1>6, <2>1, <2>3 DEF RootTyped
  <2>5. HeaderKnown'
    BY <1>1, <1>2, <2>4, Zenon DEF HeaderKnown, Mounted
  <2> QED BY <1>3, <1>4, <2>1, <2>4, <2>5
<1>14. CASE FindsItem
  <2>1. PICK k \in Nat, copy \in DOMAIN Items, cluster \in Nat :
          \/ job' = [job EXCEPT !.i = k, !.found = copy, !.first = cluster, !.n = 0, !.pc = "count"]
          \/ job' = [job EXCEPT !.i = k, !.found = copy]
    BY <1>1, <1>14, ItemFound, Zenon
  <2>2. root' = root /\ desc' = desc
    BY <1>1, <1>14, ItemFound
  <2>3. /\ [job EXCEPT !.i = k, !.found = copy, !.first = cluster, !.n = 0, !.pc = "count"] \in Job
        /\ [job EXCEPT !.i = k, !.found = copy] \in Job
    BY <1>3 DEF Job
  <2> QED BY <1>3, <1>4, <1>5, <2>1, <2>2, <2>3
<1>15. CASE fat16_load_fat_directory
  <2>1. job' \in Job
    BY <1>3, <1>6, <1>15 DEF fat16_load_fat_directory, Job
  <2> QED BY <1>3, <1>4, <1>5, <1>15, <2>1 DEF fat16_load_fat_directory
<1>16. CASE fat16_open
  <2>1. job' \in Job
    <3>1. [job EXCEPT !.pc = "done"] \in Job
      BY <1>3 DEF Job
    <3> DEFINE opened == 1
    <3>2. opened \in Int
      OBVIOUS
    <3> HIDE DEF opened
    <3>3. [job EXCEPT !.pc = "done", !.ret = opened] \in Job
      BY <1>3, <3>2 DEF Job
    <3> QED BY <1>16, <3>1, <3>3 DEF fat16_open, opened
  <2>2. desc' \in [item : DOMAIN Items, pos : Nat]
    BY <1>3, <1>6, <1>16 DEF fat16_open
  <2> QED BY <1>4, <1>5, <1>16, <2>1, <2>2 DEF fat16_open
<1>17. CASE fat16_read_internal
  <2>1. Mounted
    BY <1>1, <1>17 DEF fat16_read_internal, Phases
  <2>2. job.offset \div size_of_cluster_bytes \in Nat
    BY <1>1, <1>6, <2>1, Geometry, DivMod
  <2>3. job' \in Job
    BY <1>3, <1>6, <1>17, <2>2 DEF fat16_read_internal, Job
  <2> QED BY <1>3, <1>4, <1>5, <1>17, <2>3 DEF fat16_read_internal
<1>18. CASE fat16_get_fat_entry
  <2>1. job' \in Job
    BY <1>3, <1>18 DEF fat16_get_fat_entry, Job
  <2> QED BY <1>3, <1>4, <1>5, <1>18, <2>1 DEF fat16_get_fat_entry
<1>19. CASE fat16_get_cluster_for_offset
  <2>1. call.state = "returned" /\ job.pc = "entry"
    BY <1>19 DEF fat16_get_cluster_for_offset, read_returns
  <2>2. call.total = 1
    BY <1>1, <2>1 DEF ReadOfJob
  <2>3. call.out[1] \in Nat
    BY <1>1, <2>1, <2>2, Delivered DEF StreamInv
  <2>4. job.ahead - 1 \in Nat
    BY <1>6, <2>1 DEF Inv, Walking
  <2>5. /\ -EIO \in Int
        /\ \/ job' = [job EXCEPT !.pc = "find"]
           \/ job' = [job EXCEPT !.pc = "done", !.ret = -EIO]
           \/ job' = [job EXCEPT !.pc = "walk", !.cluster = call.out[1], !.ahead = job.ahead - 1]
    BY <1>3, <1>19 DEF fat16_get_cluster_for_offset, Abandon, EIO, Job
  <2> HIDE DEF EIO
  <2>6. /\ [job EXCEPT !.pc = "find"] \in Job
        /\ [job EXCEPT !.pc = "done", !.ret = -EIO] \in Job
        /\ [job EXCEPT !.pc = "walk", !.cluster = call.out[1], !.ahead = job.ahead - 1] \in Job
    BY <1>3, <2>3, <2>4, <2>5 DEF Job
  <2> QED BY <1>3, <1>4, <1>5, <1>19, <2>5, <2>6 DEF fat16_get_cluster_for_offset
<1>20. CASE fat16_read_internal_from_stream
  <2>1. job' \in Job
    BY <1>3, <1>20 DEF fat16_read_internal_from_stream, Job
  <2> QED BY <1>3, <1>4, <1>5, <1>20, <2>1 DEF fat16_read_internal_from_stream
<1>21. CASE chunk_read
  <2> DEFINE total == job.total - chunk
             offset == job.offset + chunk
             ahead == offset \div size_of_cluster_bytes
             out == job.out \o call.out
             then == [job EXCEPT !.out = out, !.offset = offset, !.total = total,
                                 !.cluster = job.first, !.ahead = ahead]
  <2>1. Mounted /\ call.state = "returned"
    BY <1>1, <1>21 DEF chunk_read, Phases, read_returns
  <2>2. total \in Nat /\ offset \in Nat
    BY <1>1, <1>6, <2>1, Chunk
  <2>3. ahead \in Nat
    <3> HIDE DEF offset
    <3> QED BY <1>1, <2>1, <2>2, Geometry, DivMod
  <2>4. out \in Seq(Nat)
    <3>1. call.out \in Seq(Nat)
      BY <1>1, <2>1, Delivered DEF StreamInv
    <3> QED BY <1>6, <3>1
  <2>5. then = [job EXCEPT !.out = @ \o call.out, !.offset = offset, !.total = total,
                           !.cluster = job.first, !.ahead = ahead]
    BY <1>3 DEF Job
  <2>6. \/ job' = [then EXCEPT !.pc = "walk"]
        \/ job' = [then EXCEPT !.pc = "read", !.members = @ - 1] /\ job.members > 1
        \/ job' = [job EXCEPT !.pc = "find"]
        \/ job' = [then EXCEPT !.pc = "done", !.members = 0, !.ret = job.n]
    <3> HIDE DEF total, offset, ahead, then
    <3> QED BY <1>21, <2>5 DEF chunk_read, total, offset, ahead
  <2> HIDE DEF total, offset, ahead, out
  <2>7. then \in Job /\ then.members = job.members
    BY <1>3, <1>6, <2>2, <2>3, <2>4 DEF Job
  <2>8. job.members > 1 => job.members - 1 \in Nat
    BY <1>6
  <2>9. job.n \in Int
    BY <1>6
  <2> HIDE DEF then
  <2>10. /\ [then EXCEPT !.pc = "walk"] \in Job
         /\ job.members > 1 => [then EXCEPT !.pc = "read", !.members = @ - 1] \in Job
         /\ [job EXCEPT !.pc = "find"] \in Job
         /\ [then EXCEPT !.pc = "done", !.members = 0, !.ret = job.n] \in Job
    BY <1>3, <1>6, <2>7, <2>8, <2>9 DEF Job
  <2> QED BY <1>3, <1>4, <1>5, <1>21, <2>6, <2>10 DEF chunk_read
<1>22. CASE poll
  BY <1>3, <1>4, <1>5, <1>22 DEF poll, vars
<1>23. CASE call_returns
  BY <1>3, <1>4, <1>5, <1>23 DEF call_returns
<1>24. CASE fclose
  <2>1. desc' \in [item : DOMAIN Items, pos : Nat]
    BY <1>24, Fat16Assumption DEF fclose, Closed, Fat16Assumption
  <2> QED BY <1>3, <1>4, <1>5, <1>24, <2>1 DEF fclose
<1>25. ASSUME NEW path \in Paths, NEW mode \in Modes, fopen(path, mode)
       PROVE  TypeOK' /\ RootTyped' /\ HeaderKnown'
  <2> DEFINE ps == pathparser_parse(path).parts
             pc == IF Admissible(path, mode) THEN "find" ELSE "done"
  <2>1. path \in Seq(STRING)
    BY Fat16Assumption DEF Fat16Assumption
  <2>2. ps \in Seq(Seq(STRING)) /\ pc \in {"find", "done"}
    BY <2>1, ParsedTyped
  <2>3. job' = [job EXCEPT !.op = "fopen", !.path = path, !.mode = mode, !.parts = ps, !.pc = pc]
    BY <1>25 DEF fopen
  <2> HIDE DEF ps, pc
  <2>4. job' \in Job
    BY <1>3, <2>1, <2>2, <2>3 DEF Job
  <2> QED BY <1>3, <1>4, <1>5, <1>25, <2>4 DEF fopen
<1>26. ASSUME NEW size \in Sizes, NEW nmemb \in Counts, fread(size, nmemb)
       PROVE  TypeOK' /\ RootTyped' /\ HeaderKnown'
  <2>1. size \in Nat /\ nmemb \in Nat
    BY Fat16Assumption DEF Fat16Assumption
  <2>2. Items[desc.item].cluster \in Nat /\ desc.pos \in Nat
    BY <1>3, ItemTyped
  <2>3. job' \in Job
    BY <1>3, <1>26, <2>1, <2>2 DEF fread, Job
  <2> QED BY <1>3, <1>4, <1>5, <1>26, <2>3 DEF fread
<1>27. ASSUME NEW offset \in 0 .. Items[desc.item].filesize, fseek(offset)
       PROVE  TypeOK' /\ RootTyped' /\ HeaderKnown'
  <2>1. Items[desc.item].filesize \in Nat
    BY <1>3, ItemTyped
  <2>2. offset \in Nat
    BY <2>1
  <2>3. desc' \in [item : DOMAIN Items, pos : Nat]
    BY <1>3, <1>27, <2>2 DEF fseek
  <2> QED BY <1>3, <1>4, <1>5, <1>27, <2>3 DEF fseek
<1> QED BY <1>7, <1>8, <1>9, <1>10, <1>11, <1>12, <1>13, <1>14, <1>15, <1>16, <1>17, <1>18,
           <1>19, <1>20, <1>21, <1>22, <1>23, <1>24, <1>25, <1>26, <1>27 DEF Fat16Next, Driver, FindsItem

-----------------------------------------------------------------------------
(* Each call is at its own places (fat16.c, the order of the driver's      *)
(* calls), and reads the disk only where it waits for it.                  *)
LEMMA PhasesKept ==
  ASSUME Inv, Fat16Next
  PROVE  Phases' /\ Walking'
<1>1. job \in Job /\ Phases /\ Walking /\ RootTyped
  BY DEF Inv, TypeOK
<1>2. /\ Idle.pc = "idle" /\ Idle.op = "none"
  BY DEF Idle
<1>3. CASE stream_step \/ poll
  BY <1>1, <1>3 DEF stream_step, poll, vars, Phases, Walking, Mounted
<1>4. CASE fat16_resolve \/ read_item \/ load_root
  <2>1. /\ job'.op = job.op /\ root' = root /\ desc' = desc /\ job'.n = job.n
        /\ \/ job.pc = "boot" /\ job'.pc = "header"
           \/ job.pc = "count" /\ job'.pc = "item"
           \/ job.pc = "load" /\ job'.pc = "loaded" /\ job.op = "mount"
    BY <1>1, <1>4 DEF fat16_resolve, read_item, load_root, Job
  <2> QED BY <1>1, <2>1 DEF Phases, Walking, Mounted
<1>5. CASE fat16_get_root_directory
  <2> DEFINE h == Header(call.out)
  <2>1. job.op = "mount" /\ desc = Closed /\ desc' = desc
    BY <1>1, <1>5 DEF fat16_get_root_directory, Phases
  <2> HIDE DEF h
  <2>2. CASE job' = Idle /\ root' = root
    BY <1>2, <2>1, <2>2 DEF Phases, Walking, Mounted
  <2>3. CASE h.signature = 41 /\ root' = [root EXCEPT !.header = h] /\ job' = [job EXCEPT !.pc = "count"]
    <3>1. root'.header = h /\ job'.pc = "count" /\ job'.op = "mount"
      BY <1>1, <2>1, <2>3 DEF RootTyped, Job
    <3> QED BY <2>1, <2>3, <3>1 DEF Phases, Walking, Mounted
  <2> QED BY <1>5, <2>2, <2>3 DEF fat16_get_root_directory, h
<1>6. CASE fat16_get_total_items_for_directory
  <2>1. /\ job'.pc \in {"load", "count"} /\ job'.op = job.op /\ job.pc = "item"
        /\ root' = root /\ desc' = desc
    BY <1>1, <1>6 DEF fat16_get_total_items_for_directory, Job
  <2> QED BY <1>1, <2>1 DEF Phases, Walking, Mounted
<1>7. CASE root_loaded
  <2>1. root'.header = root.header /\ desc = Closed /\ desc' = desc /\ job' = Idle
    BY <1>1, <1>7 DEF root_loaded, RootTyped, Phases
  <2> QED BY <1>2, <2>1 DEF Phases, Walking, Mounted
<1>8. CASE FindsItem
  <2>1. /\ job'.pc \in {"find", "count"} /\ job'.op = job.op /\ job.pc = "find"
        /\ root' = root /\ desc' = desc
    BY <1>1, <1>8, ItemFound DEF Job
  <2> QED BY <1>1, <2>1 DEF Phases, Walking, Mounted
<1>9. CASE fat16_load_fat_directory \/ fat16_read_internal
  <2>1. /\ job'.pc \in {"read", "walk"} /\ job'.op = job.op /\ job.op \in {"fopen", "fread"}
        /\ job.pc \in {"load", "read"}
        /\ root' = root /\ desc' = desc
    BY <1>1, <1>9 DEF fat16_load_fat_directory, fat16_read_internal, Job, Phases
  <2> QED BY <1>1, <2>1 DEF Phases, Walking, Mounted
<1>10. CASE fat16_open
  <2>1. job'.pc = "done" /\ job'.op = job.op /\ job.pc = "find" /\ root' = root
    BY <1>1, <1>10 DEF fat16_open, Job
  <2> QED BY <1>1, <2>1 DEF Phases, Walking, Mounted
<1>11. CASE fat16_get_fat_entry \/ fat16_read_internal_from_stream
  <2>1. /\ job'.pc \in {"entry", "data"} /\ job'.op = job.op /\ job.pc = "walk"
        /\ root' = root /\ desc' = desc
        /\ job'.pc = "entry" => job'.ahead > 0
        /\ job'.pc = "data" => job'.ahead = 0
    BY <1>1, <1>11 DEF fat16_get_fat_entry, fat16_read_internal_from_stream, Job
  <2> QED BY <1>1, <2>1 DEF Phases, Walking, Mounted
<1>12. CASE fat16_get_cluster_for_offset
  <2>1. /\ job'.op = job.op /\ job.pc = "entry"
        /\ job'.pc \in {"done", "walk"} \/ (job'.pc = "find" /\ job.op = "fopen")
        /\ root' = root /\ desc' = desc
    BY <1>1, <1>12 DEF fat16_get_cluster_for_offset, Abandon, Job
  <2> QED BY <1>1, <2>1 DEF Phases, Walking, Mounted
<1>13. CASE chunk_read
  <2>1. /\ job'.op = job.op /\ job.pc = "data"
        /\ job'.pc \in {"done", "walk", "read"} \/ (job'.pc = "find" /\ job.op = "fopen")
        /\ root' = root /\ desc' = desc
    BY <1>1, <1>13 DEF chunk_read, Job
  <2> QED BY <1>1, <2>1 DEF Phases, Walking, Mounted
<1>14. CASE call_returns
  BY <1>1, <1>2, <1>14 DEF call_returns, Phases, Walking, Mounted
<1>15. CASE fclose \/ \E offset \in 0 .. Items[desc.item].filesize : fseek(offset)
  <2>1. job' = job /\ job = Idle /\ desc # Closed /\ root' = root
    BY <1>1, <1>15 DEF fclose, fseek, Phases
  <2> QED BY <1>1, <1>2, <2>1 DEF Phases, Walking, Mounted
<1>16. ASSUME NEW path \in Paths, NEW mode \in Modes, fopen(path, mode)
       PROVE  Phases' /\ Walking'
  <2>1. /\ job'.op = "fopen" /\ root' = root /\ desc' = desc /\ desc = Closed
        /\ job'.pc = "done" \/ (job'.pc = "find" /\ Mounted)
    <3> DEFINE p == pathparser_parse(path)
    <3>1. p.parts = pathparser_parse(path).parts
      OBVIOUS
    <3> HIDE DEF p
    <3> QED BY <1>1, <1>16 DEF fopen, Admissible, Job
  <2> QED BY <1>1, <2>1 DEF Phases, Walking, Mounted
<1>17. ASSUME NEW size \in Sizes, NEW nmemb \in Counts, fread(size, nmemb)
       PROVE  Phases' /\ Walking'
  <2>1. /\ job'.op = "fread" /\ root' = root /\ desc' = desc /\ desc # Closed
        /\ job'.pc = "read"
    BY <1>1, <1>17 DEF fread, Job
  <2> QED BY <1>1, <2>1 DEF Phases, Walking, Mounted
<1> QED BY <1>3, <1>4, <1>5, <1>6, <1>7, <1>8, <1>9, <1>10, <1>11, <1>12, <1>13, <1>14,
           <1>15, <1>16, <1>17 DEF Fat16Next, Driver, FindsItem

(* The read of the disk in progress is the one the driver waits for.       *)
LEMMA ReadOfJobKept ==
  ASSUME Inv, Fat16Next
  PROVE  ReadOfJob'
<1>1. job \in Job /\ Phases /\ ReadOfJob /\ RootTyped /\ StreamTypeOK
  BY DEF Inv, TypeOK
<1>2. call \in Call /\ NoCall.state = "idle" /\ Idle.pc = "idle"
  BY <1>1, NoCallTyped DEF StreamTypeOK, Idle
<1>3. ASSUME call'.state = "idle",
             job'.pc \notin {"header", "item", "loaded", "entry", "data"}
      PROVE  ReadOfJob'
  BY <1>3 DEF ReadOfJob
<1>4. CASE stream_step
  <2>1. /\ call'.state # "idle" /\ call'.start = call.start /\ call'.total = call.total
        /\ call'.stream = call.stream /\ call.state # "idle"
    BY <1>2, <1>4 DEF stream_step, read_sector, Call
  <2>2. job' = job /\ root' = root
    BY <1>4 DEF stream_step
  <2> QED BY <1>1, <2>1, <2>2 DEF ReadOfJob, fat16_cluster_to_sector, size_of_cluster_bytes,
               ending_sector_pos, chunk
<1>5. CASE poll
  <2>1. job' = job /\ root' = root /\ call' = call
    BY <1>5 DEF poll, vars
  <2> QED BY <1>1, <2>1 DEF ReadOfJob, fat16_cluster_to_sector, size_of_cluster_bytes,
               ending_sector_pos, chunk
<1>6. CASE fat16_resolve
  <2>1. /\ job'.pc = "header" /\ call'.state = "reading"
        /\ call'.start = 0 /\ call'.total = HEADER
    BY <1>1, <1>6 DEF fat16_resolve, seek_and_read, diskstreamer_read, Job
  <2> QED BY <2>1 DEF ReadOfJob
<1>7. CASE read_item
  <2>1. /\ job'.pc = "item" /\ call'.state = "reading"
        /\ call'.stream = "directory" /\ call'.total = 1
    BY <1>1, <1>7 DEF read_item, diskstreamer_read, Job
  <2> QED BY <2>1 DEF ReadOfJob
<1>8. CASE load_root
  <2>1. /\ job'.pc = "loaded" /\ call'.state = "reading" /\ root' = root
        /\ call'.start = RootSector(root.header) * SECTOR_SIZE
        /\ call'.total = root.header.root_dir_entries
    BY <1>1, <1>8 DEF load_root, seek_and_read, diskstreamer_read, Job
  <2> QED BY <2>1 DEF ReadOfJob
<1>9. CASE fat16_get_fat_entry
  <2>1. /\ job'.pc = "entry" /\ call'.state = "reading" /\ call'.total = 1
    BY <1>1, <1>9 DEF fat16_get_fat_entry, seek_and_read, diskstreamer_read, Job
  <2> QED BY <2>1 DEF ReadOfJob
<1>10. CASE fat16_read_internal_from_stream
  <2>1. /\ job'.pc = "data" /\ call'.state = "reading" /\ root' = root
        /\ call'.total = chunk
        /\ call'.start = fat16_cluster_to_sector(job.cluster) * SECTOR_SIZE
                           + (job.offset % size_of_cluster_bytes)
        /\ job'.cluster = job.cluster /\ job'.offset = job.offset /\ job'.total = job.total
    BY <1>1, <1>10 DEF fat16_read_internal_from_stream, seek_and_read, diskstreamer_read, Job
  <2> QED BY <2>1 DEF ReadOfJob, fat16_cluster_to_sector, size_of_cluster_bytes,
               ending_sector_pos, chunk
<1>11. CASE fat16_get_root_directory
  BY <1>1, <1>2, <1>3, <1>11 DEF fat16_get_root_directory, read_returns, Job
<1>12. CASE fat16_get_total_items_for_directory
  BY <1>1, <1>2, <1>3, <1>12 DEF fat16_get_total_items_for_directory, read_returns, Job
<1>13. CASE root_loaded
  BY <1>1, <1>2, <1>3, <1>13 DEF root_loaded, read_returns
<1>14. CASE fat16_get_cluster_for_offset
  BY <1>1, <1>2, <1>3, <1>14 DEF fat16_get_cluster_for_offset, Abandon, read_returns, Job
<1>15. CASE chunk_read
  <2>1. job'.pc \in {"walk", "read", "done", "find"}
    BY <1>1, <1>15 DEF chunk_read, Job
  <2>2. call'.state = "idle"
    BY <1>2, <1>15 DEF chunk_read, read_returns
  <2> QED BY <1>3, <2>1, <2>2
<1>16. ASSUME call' = call, job.pc \notin {"header", "item", "loaded", "entry", "data"},
              job'.pc \notin {"header", "item", "loaded", "entry", "data"}
       PROVE  ReadOfJob'
  BY <1>1, <1>16 DEF ReadOfJob
<1>17. CASE FindsItem \/ fat16_open
  <2>1. call' = call /\ job.pc = "find" /\ job'.pc \in {"find", "count", "done"}
    BY <1>1, <1>17, ItemFound DEF fat16_open, Job
  <2> QED BY <1>16, <2>1
<1>18. CASE fat16_load_fat_directory \/ fat16_read_internal \/ call_returns
  BY <1>1, <1>2, <1>16, <1>18 DEF fat16_load_fat_directory, fat16_read_internal, call_returns, Job
<1>19. CASE fclose \/ \E offset \in 0 .. Items[desc.item].filesize : fseek(offset)
  BY <1>16, <1>19 DEF fclose, fseek
<1>20. ASSUME NEW path \in Paths, NEW mode \in Modes, fopen(path, mode)
       PROVE  ReadOfJob'
  <2>1. call' = call /\ job.pc = "idle" /\ job'.pc \in {"find", "done"}
    BY <1>1, <1>20 DEF fopen, Job
  <2> QED BY <1>16, <2>1
<1>21. ASSUME NEW size \in Sizes, NEW nmemb \in Counts, fread(size, nmemb)
       PROVE  ReadOfJob'
  BY <1>1, <1>16, <1>21 DEF fread, Job
<1> QED BY <1>4, <1>5, <1>6, <1>7, <1>8, <1>9, <1>10, <1>11, <1>12, <1>13, <1>14,
           <1>15, <1>17, <1>18, <1>19, <1>20, <1>21 DEF Fat16Next, Driver, FindsItem

-----------------------------------------------------------------------------
(* The root directory.                                                     *)

(* Only the mount writes to the root directory in memory.                  *)
LEMMA RootSame ==
  ASSUME Inv, Fat16Next, ~fat16_get_root_directory, ~root_loaded
  PROVE  /\ root' = root
         /\ job'.op = "mount" <=> job.op = "mount"
<1>1. job \in Job /\ Phases
  BY DEF Inv, TypeOK
<1>2. Idle.op = "none" /\ Idle.pc = "idle"
  BY DEF Idle
<1>3. CASE stream_step \/ poll \/ fclose \/ \E offset \in 0 .. Items[desc.item].filesize : fseek(offset)
  BY <1>3 DEF stream_step, poll, fclose, fseek, vars
<1>4. CASE fat16_resolve \/ read_item \/ load_root
  BY <1>1, <1>4 DEF fat16_resolve, read_item, load_root, Job
<1>5. CASE fat16_get_total_items_for_directory \/ FindsItem
  <2>1. RootTyped
    BY DEF Inv
  <2>2. CASE fat16_get_total_items_for_directory
    BY <1>1, <2>2 DEF fat16_get_total_items_for_directory, Job
  <2>3. CASE FindsItem
    BY <1>1, <2>1, <2>3, ItemFound DEF Job
  <2> QED BY <1>5, <2>2, <2>3
<1>6. CASE fat16_load_fat_directory \/ fat16_open \/ fat16_read_internal
  BY <1>1, <1>6 DEF fat16_load_fat_directory, fat16_open, fat16_read_internal, Job
<1>7. CASE fat16_get_fat_entry \/ fat16_read_internal_from_stream
  BY <1>1, <1>7 DEF fat16_get_fat_entry, fat16_read_internal_from_stream, Job
<1>8. CASE fat16_get_cluster_for_offset
  BY <1>1, <1>8 DEF fat16_get_cluster_for_offset, Abandon, Job
<1>9. CASE chunk_read
  BY <1>1, <1>9 DEF chunk_read, Job
<1>10. CASE call_returns
  BY <1>1, <1>2, <1>10 DEF call_returns, Phases
<1>11. ASSUME NEW path \in Paths, NEW mode \in Modes, fopen(path, mode)
       PROVE  root' = root /\ job'.op # "mount" /\ job.op # "mount"
  BY <1>1, <1>2, <1>11 DEF fopen, Phases, Job
<1>12. ASSUME NEW size \in Sizes, NEW nmemb \in Counts, fread(size, nmemb)
       PROVE  root' = root /\ job'.op # "mount" /\ job.op # "mount"
  BY <1>1, <1>2, <1>12 DEF fread, Phases, Job
<1> QED BY <1>3, <1>4, <1>5, <1>6, <1>7, <1>8, <1>9, <1>10, <1>11, <1>12 DEF Fat16Next, Driver, FindsItem

(* The root directory on the disk is where the header says.                *)
LEMMA RootSameOnDisk ==
  ASSUME root'.header = root.header, disk' = disk
  PROVE  /\ RootCells' = RootCells
         /\ RootCompact' = RootCompact
         /\ RootEnds' = RootEnds
<1>1. RootCells' = RootCells
  BY DEF RootCells
<1> QED BY <1>1 DEF RootCompact, RootEnds

(* What was counted stays counted.                                         *)
LEMMA CountedSame ==
  ASSUME root'.header = root.header, disk' = disk, job'.n = job.n, NEW r, Counted(r)
  PROVE  Counted(r)'
BY RootSameOnDisk DEF Counted

(* An item that is not blank is counted, a deleted one is not.             *)
LEMMA ItemCounted ==
  ASSUME RootTyped, NEW n \in Nat, NEW first \in Nat, NEW start \in Nat,
         first = RootSector(root.header) * SECTOR_SIZE, first <= start,
         \A c \in first .. (first + (start - first) - 1) : disk[c] # 0,
         n <= start - first,
         RootCompact => IF start - first <= root.header.root_dir_entries THEN n = start - first
                      ELSE n >= root.header.root_dir_entries,
         disk[start] # 0,
         NEW m, m = IF deleted(disk[start]) THEN n ELSE n + 1
  PROVE  /\ \A c \in first .. (first + (start + 1 - first) - 1) : disk[c] # 0
         /\ m <= start + 1 - first
         /\ RootCompact => IF start + 1 - first <= root.header.root_dir_entries
                         THEN m = start + 1 - first
                         ELSE m >= root.header.root_dir_entries
<1> DEFINE entries == root.header.root_dir_entries
<1>1. entries \in Nat
  BY DEF RootTyped, HeaderFields
<1>2. m \in Nat /\ n <= m /\ m <= n + 1 /\ (~deleted(disk[start]) => m = n + 1)
  OBVIOUS
<1>3. \A c \in first .. (first + (start + 1 - first) - 1) : disk[c] # 0
  <2>1. SUFFICES ASSUME NEW c \in first .. (first + (start + 1 - first) - 1) PROVE disk[c] # 0
    OBVIOUS
  <2>2. c = start \/ c \in first .. (first + (start - first) - 1)
    BY <2>1
  <2> QED BY <2>2
<1>4. ASSUME RootCompact, start - first < entries PROVE ~deleted(disk[start])
  <2> DEFINE k == start - first + 1
  <2>1. k \in 1 .. entries /\ first + k - 1 = start
    BY <1>1, <1>4
  <2> HIDE DEF k
  <2>2. k \in DOMAIN RootCells /\ RootCells[k] = disk[start]
    BY <2>1 DEF RootCells
  <2>3. disk[start] \in Range(RootCells) \ {0}
    BY <2>2 DEF Range
  <2> QED BY <1>4, <2>3 DEF RootCompact
<1> HIDE DEF entries
<1>5. ASSUME RootCompact
      PROVE  IF start + 1 - first <= entries THEN m = start + 1 - first ELSE m >= entries
  <2>1. IF start - first <= entries THEN n = start - first ELSE n >= entries
    BY <1>5 DEF entries
  <2>2. CASE start - first < entries
    BY <1>1, <1>2, <1>4, <1>5, <2>1, <2>2
  <2>3. CASE start - first >= entries
    BY <1>1, <1>2, <2>1, <2>3
  <2> QED BY <1>1, <2>2, <2>3
<1> QED BY <1>2, <1>3, <1>5 DEF entries

(* The mount counts the items of the root directory up to the blank one,   *)
(* deleted ones left out (fat16_get_total_items_for_directory).            *)
LEMMA CountingKept ==
  ASSUME Inv, Fat16Next
  PROVE  CountingRoot'
<1> DEFINE first == RootSector(root.header) * SECTOR_SIZE
<1>1. /\ job \in Job /\ Phases /\ CountingRoot /\ RootTyped /\ StreamTypeOK /\ FlatRead
      /\ ReadOfJob /\ TypeOK /\ HeaderKnown
  BY DEF Inv, TypeOK
<1>2. disk' = disk /\ pos \in [Streams -> Nat] /\ call \in Call
  BY <1>1, StreamsKept DEF StreamTypeOK
<1>3. SUFFICES ASSUME job'.op = "mount" PROVE CountingRoot'
  BY DEF CountingRoot
<1>4. CASE fat16_get_root_directory
  <2> DEFINE h == Header(call.out)
  <2>1. /\ call.state = "returned" /\ job.pc = "header"
        /\ call.start = 0 /\ call.total = HEADER /\ job.n = 0
    BY <1>1, <1>4 DEF fat16_get_root_directory, read_returns, ReadOfJob, Phases
  <2>2. h \in HeaderFields /\ RootSector(h) \in Nat
    BY <1>1, <2>1, HeaderRead
  <2>3. job' # Idle
    BY <1>3 DEF Idle
  <2>4. /\ root' = [root EXCEPT !.header = h] /\ job' = [job EXCEPT !.pc = "count"]
        /\ pos' = [pos EXCEPT !["directory"] = RootSector(h) * SECTOR_SIZE]
    BY <1>4, <2>3 DEF fat16_get_root_directory, count_from
  <2> HIDE DEF h
  <2>5. /\ root'.header = h /\ job'.pc = "count" /\ job'.n = 0
        /\ pos'["directory"] = RootSector(h) * SECTOR_SIZE
    BY <1>1, <1>2, <2>1, <2>4, StreamNames DEF RootTyped, Job
  <2>6. h.root_dir_entries \in Nat /\ RootSector(h) * SECTOR_SIZE \in Nat
    BY <2>2, SectorSize, Product DEF HeaderFields
  <2> DEFINE f == RootSector(h) * SECTOR_SIZE
  <2>7. f \in Nat /\ pos'["directory"] = f
    BY <2>5, <2>6
  <2> HIDE DEF f
  <2>8. f = RootSector(root'.header) * SECTOR_SIZE
    BY <2>5 DEF f
  <2>9. Counted(pos["directory"] - RootSector(root.header) * SECTOR_SIZE)'
    BY <2>5, <2>6, <2>7, <2>8 DEF Counted
  <2> QED BY <2>5, <2>7, <2>8, <2>9 DEF CountingRoot
<1>5. CASE root_loaded
  BY <1>3, <1>5 DEF root_loaded, Idle
<1>6. ASSUME ~fat16_get_root_directory, ~root_loaded PROVE root' = root /\ job.op = "mount"
  BY <1>3, <1>6, RootSame
<1>7. ASSUME root' = root, job' = job, job.op = "mount", call'.start = call.start,
             job.pc # "count" \/ pos' = pos
      PROVE  CountingRoot'
  BY <1>1, <1>2, <1>7, RootSameOnDisk DEF CountingRoot, Counted
<1>8. CASE stream_step
  <2>1. /\ job' = job /\ root' = root /\ call'.start = call.start /\ call.state # "idle"
    BY <1>2, <1>8 DEF stream_step, read_sector, Call
  <2>2. job.pc # "count"
    BY <1>1, <2>1 DEF ReadOfJob
  <2> QED BY <1>3, <1>7, <2>1, <2>2
<1>9. CASE poll
  BY <1>3, <1>7, <1>9 DEF poll, vars
<1>10. CASE fat16_resolve
  <2>1. job'.pc = "header"
    BY <1>1, <1>10 DEF fat16_resolve, Job
  <2> QED BY <2>1 DEF CountingRoot
<1>11. CASE read_item
  <2>1. /\ job'.pc = "item" /\ job'.n = job.n /\ job.op = "mount" /\ job.pc = "count"
        /\ root' = root /\ call'.start = pos["directory"]
    BY <1>1, <1>3, <1>11 DEF read_item, diskstreamer_read, Job
  <2>2. first <= pos["directory"] /\ Counted(pos["directory"] - first)
    BY <1>1, <2>1 DEF CountingRoot
  <2> QED BY <1>2, <2>1, <2>2, RootSameOnDisk DEF CountingRoot, Counted
<1>12. CASE fat16_get_total_items_for_directory
  <2>1. /\ job.op = "mount" /\ root' = root /\ job.pc = "item" /\ call.state = "returned"
        /\ pos' = pos
    BY <1>1, <1>3, <1>12 DEF fat16_get_total_items_for_directory, Job, read_returns
  <2>2. first <= call.start /\ Counted(call.start - first) /\ Mounted
    BY <1>1, <2>1 DEF CountingRoot, Phases
  <2>3. /\ call.start \in DOMAIN disk /\ call.out[1] = disk[call.start] /\ call.start \in Nat
        /\ pos["directory"] = call.start + 1
    BY <1>1, <2>1, Delivered DEF ReadOfJob
  <2>4. first \in Nat /\ job.n \in Nat
    BY <1>1, <2>2, Geometry DEF Job
  <2> DEFINE m == IF deleted(call.out[1]) THEN job.n ELSE job.n + 1
  <2>5. CASE call.out[1] = 0
    <3>1. job'.pc = "load" /\ job'.n = job.n
      BY <1>1, <1>12, <2>5 DEF fat16_get_total_items_for_directory, Job
    <3>2. PICK c \in DOMAIN disk : c = call.start
      BY <2>3
    <3>3. PICK f : f = first
      OBVIOUS
    <3>4. Counted(c - f)'
      BY <1>2, <2>1, <2>2, <3>1, <3>2, <3>3, CountedSame
    <3>5. f = RootSector(root'.header) * SECTOR_SIZE /\ c \in DOMAIN disk' /\ disk'[c] = 0 /\ f <= c
      BY <1>2, <2>1, <2>2, <2>3, <2>5, <3>2, <3>3
    <3> QED BY <3>1, <3>4, <3>5 DEF CountingRoot
  <2>6. CASE call.out[1] # 0
    <3>1. job'.pc = "count" /\ job'.n = m
      BY <1>1, <1>12, <2>6 DEF fat16_get_total_items_for_directory, Job
    <3>2. /\ \A c \in first .. (first + (call.start + 1 - first) - 1) : disk[c] # 0
          /\ m <= call.start + 1 - first
          /\ RootCompact => IF call.start + 1 - first <= root.header.root_dir_entries
                          THEN m = call.start + 1 - first
                          ELSE m >= root.header.root_dir_entries
      <4>1. /\ \A c \in first .. (first + (call.start - first) - 1) : disk[c] # 0
            /\ job.n <= call.start - first
            /\ RootCompact => IF call.start - first <= root.header.root_dir_entries
                            THEN job.n = call.start - first
                            ELSE job.n >= root.header.root_dir_entries
        BY <2>2 DEF Counted
      <4>2. disk[call.start] # 0 /\ m = IF deleted(disk[call.start]) THEN job.n ELSE job.n + 1
        BY <2>3, <2>6
      <4>3. first = RootSector(root.header) * SECTOR_SIZE
        OBVIOUS
      <4> HIDE DEF first, m
      <4> QED BY <1>1, <2>2, <2>3, <2>4, <4>1, <4>2, <4>3, ItemCounted
    <3>3. first <= call.start + 1
      BY <2>2, <2>3, <2>4
    <3>4. PICK r : r = call.start + 1 - first
      OBVIOUS
    <3>5. /\ root'.header = root.header
          /\ first = RootSector(root'.header) * SECTOR_SIZE
          /\ pos'["directory"] = call.start + 1
      BY <2>1, <2>3
    <3> HIDE DEF m, first
    <3>6. Counted(r)'
      BY <1>2, <3>1, <3>2, <3>4, <3>5, RootSameOnDisk DEF Counted
    <3>7. r = pos'["directory"] - RootSector(root'.header) * SECTOR_SIZE
      BY <2>3, <2>4, <3>4, <3>5
    <3>8. RootSector(root'.header) * SECTOR_SIZE <= pos'["directory"]
      BY <3>3, <3>5
    <3> QED BY <3>1, <3>6, <3>7, <3>8, Zenon DEF CountingRoot, Counted
  <2> QED BY <2>5, <2>6
<1>13. CASE load_root
  <2>1. /\ job'.pc = "loaded" /\ job'.n = job.n /\ job.op = "mount" /\ job.pc = "load"
        /\ root' = root
    BY <1>1, <1>13 DEF load_root, Job
  <2>2. \E c \in DOMAIN disk : first <= c /\ disk[c] = 0 /\ Counted(c - first)
    BY <1>1, <2>1 DEF CountingRoot
  <2> QED BY <1>2, <2>1, <2>2, RootSameOnDisk DEF CountingRoot, Counted
<1>14. ASSUME job.pc \notin {"boot", "header", "count", "item", "load", "loaded"}
       PROVE  job.op # "mount" \/ job.pc \in {"idle", "seek"}
  BY <1>1, <1>14 DEF Phases, Job
<1>15. CASE \/ FindsItem \/ fat16_load_fat_directory \/ fat16_open
            \/ fat16_read_internal \/ fat16_get_fat_entry \/ fat16_get_cluster_for_offset
            \/ fat16_read_internal_from_stream \/ chunk_read \/ call_returns
  <2>1. job.op # "mount"
    BY <1>1, <1>14, <1>15, ItemFound DEF fat16_load_fat_directory, fat16_open,
      fat16_read_internal, fat16_get_fat_entry, fat16_get_cluster_for_offset,
      fat16_read_internal_from_stream, chunk_read, call_returns
  <2> QED BY <1>4, <1>5, <1>6, <2>1
<1>16. CASE fclose \/ \E offset \in 0 .. Items[desc.item].filesize : fseek(offset)
  <2>1. job = Idle /\ job' = job
    BY <1>1, <1>16 DEF fclose, fseek, Phases
  <2> QED BY <1>3, <2>1 DEF Idle
<1>17. ASSUME NEW path \in Paths, NEW mode \in Modes, fopen(path, mode)
       PROVE  CountingRoot'
  BY <1>1, <1>3, <1>17 DEF fopen, Job
<1>18. ASSUME NEW size \in Sizes, NEW nmemb \in Counts, fread(size, nmemb)
       PROVE  CountingRoot'
  BY <1>1, <1>3, <1>18 DEF fread, Job
<1> QED BY <1>4, <1>5, <1>8, <1>9, <1>10, <1>11, <1>12, <1>13, <1>15, <1>16, <1>17, <1>18
     DEF Fat16Next, Driver, FindsItem

(* The mount leaves the root directory of the disk in memory, with a       *)
(* number of items that the search does not go beyond (root_loaded,        *)
(* fat16_find_item_in_directory).                                          *)
LEMMA RootLoaded ==
  ASSUME Inv, root_loaded
  PROVE  LET n == job.n
             entries == root.header.root_dir_entries
         IN  /\ Mounted
             /\ call.out = RootCells
             /\ \A k \in DOMAIN RootCells : k <= n => RootCells[k] # 0
             /\ RootEnds => n <= entries
             /\ RootCompact => \A k \in DOMAIN RootCells : RootCells[k] # 0 => k <= n
<1> DEFINE first == RootSector(root.header) * SECTOR_SIZE
           entries == root.header.root_dir_entries
           n == job.n
<1>1. /\ job \in Job /\ Phases /\ CountingRoot /\ RootTyped /\ StreamTypeOK /\ FlatRead
      /\ ReadOfJob /\ TypeOK /\ HeaderKnown
  BY DEF Inv, TypeOK
<1>2. job.pc = "loaded" /\ job.op = "mount" /\ Mounted /\ call.state = "returned"
  BY <1>1 DEF root_loaded, read_returns, Phases
<1>3. first \in Nat /\ entries \in Nat /\ n \in Nat
  BY <1>1, <1>2, Geometry DEF Job
<1>4. call.start = first /\ call.total = entries
  BY <1>1, <1>2 DEF ReadOfJob
<1>5. PICK c \in DOMAIN disk : first <= c /\ disk[c] = 0 /\ Counted(c - first)
  BY <1>1, <1>2 DEF CountingRoot
<1>6. c \in Nat
  BY <1>1, <1>5, StreamerAssumption DEF StreamTypeOK, StreamerAssumption
<1>7. /\ \A b \in first .. (first + (c - first) - 1) : disk[b] # 0
      /\ n <= c - first
      /\ RootCompact => IF c - first <= entries THEN n = c - first ELSE n >= entries
  BY <1>5 DEF Counted
<1>8. RootCells = [k \in 1 .. entries |-> disk[first + k - 1]]
  BY DEF RootCells
<1>9. /\ call.out \in Seq(Nat) /\ Len(call.out) = entries
      /\ \A k \in 1 .. entries : call.out[k] = disk[first + k - 1]
  BY <1>1, <1>2, <1>4, Delivered
<1> HIDE DEF first, entries, n
<1>10. call.out = RootCells
  <2>1. call.out = [k \in 1 .. entries |-> call.out[k]]
    BY <1>9
  <2> QED BY <1>8, <1>9, <2>1
<1>11. DOMAIN RootCells = 1 .. entries /\ \A k \in 1 .. entries : RootCells[k] = disk[first + k - 1]
  BY <1>8
<1>12. ASSUME NEW k \in 1 .. entries, k <= n PROVE RootCells[k] # 0
  <2>1. first + k - 1 \in first .. (first + (c - first) - 1)
    BY <1>3, <1>6, <1>7, <1>12
  <2> QED BY <1>7, <1>11, <2>1
<1>13. ASSUME RootCompact, NEW k \in 1 .. entries, RootCells[k] # 0 PROVE k <= n
  <2>1. CASE c - first <= entries
    <3>1. n = c - first
      BY <1>7, <1>13, <2>1
    <3>2. CASE k > n
      <4>1. n + 1 \in 1 .. entries /\ first + (n + 1) - 1 = c
        BY <1>3, <1>5, <1>6, <3>1, <3>2
      <4>2. RootCells[n + 1] = 0
        BY <1>5, <1>11, <4>1
      <4>3. k = n + 1 \/ n + 1 < k
        BY <1>3, <3>2
      <4> QED BY <1>11, <1>13, <4>1, <4>2, <4>3 DEF RootCompact
    <3> QED BY <1>3, <3>2
  <2>2. CASE ~(c - first <= entries)
    BY <1>3, <1>7, <1>13, <2>2
  <2> QED BY <2>1, <2>2
<1>14. ASSUME RootEnds PROVE n <= entries
  <2>1. PICK k \in 1 .. (entries + 1) : first + k - 1 \in DOMAIN disk /\ disk[first + k - 1] = 0
    BY <1>14, Zenon DEF RootEnds, first, entries
  <2>2. ~(first + k - 1 \in first .. (first + (c - first) - 1))
    BY <1>7, <2>1
  <2> QED BY <1>3, <1>5, <1>6, <1>7, <2>1, <2>2
<1> QED BY <1>2, <1>10, <1>11, <1>12, <1>13, <1>14 DEF n, entries

(* The root directory in memory stays the one on the disk.                 *)
LEMMA RootKept ==
  ASSUME Inv, Fat16Next
  PROVE  RootKnown'
<1>1. job \in Job /\ Phases /\ RootKnown /\ RootTyped
  BY DEF Inv, TypeOK
<1>2. disk' = disk
  BY StreamsKept
<1>3. CASE fat16_get_root_directory
  <2>1. job.op = "mount" /\ root = NotMounted /\ job.pc = "header"
    BY <1>1, <1>3 DEF fat16_get_root_directory, Phases
  <2>2. CASE root' = root
    <3>1. ~Mounted'
      BY <2>1, <2>2 DEF Mounted, NotMounted, Header, HEADER
    <3> QED BY <3>1 DEF RootKnown
  <2>3. CASE job' = [job EXCEPT !.pc = "count"]
    <3>1. job'.op = "mount"
      BY <1>1, <2>1, <2>3 DEF Job
    <3> QED BY <3>1 DEF RootKnown
  <2> QED BY <1>3, <2>2, <2>3 DEF fat16_get_root_directory
<1>4. CASE root_loaded
  <2>1. root' = [root EXCEPT !.item = call.out, !.total = job.n]
    BY <1>4 DEF root_loaded
  <2>2. root'.header = root.header /\ root'.item = call.out /\ root'.total = job.n
    BY <1>1, <2>1 DEF RootTyped
  <2>3. RootCells' = RootCells /\ RootCompact' = RootCompact /\ RootEnds' = RootEnds
    BY <1>2, <2>2, RootSameOnDisk
  <2>4. /\ call.out = RootCells
        /\ \A k \in DOMAIN RootCells : k <= job.n => RootCells[k] # 0
        /\ RootEnds => job.n <= root.header.root_dir_entries
        /\ RootCompact => \A k \in DOMAIN RootCells : RootCells[k] # 0 => k <= job.n
    BY <1>4, RootLoaded
  <2> QED BY <2>2, <2>3, <2>4 DEF RootKnown, InArray
<1>5. CASE ~fat16_get_root_directory /\ ~root_loaded
  <2>1. root' = root /\ (job'.op = "mount" <=> job.op = "mount")
    BY <1>5, RootSame
  <2>2. RootCells' = RootCells /\ RootCompact' = RootCompact /\ RootEnds' = RootEnds
    BY <1>2, <2>1, RootSameOnDisk
  <2> QED BY <1>1, <2>1, <2>2 DEF RootKnown, InArray, Mounted
<1> QED BY <1>3, <1>4, <1>5

-----------------------------------------------------------------------------
(* The search.                                                             *)

(* What the search has found stays found while the driver reads.           *)
LEMMA SearchSame ==
  ASSUME root' = root, desc' = desc, Searching, job'.op = job.op,
         job'.parts = job.parts, job'.path = job.path, job'.mode = job.mode,
         job'.i = job.i, job'.found = job.found, job'.ret = job.ret,
         job.pc # "done", job'.pc # "done"
  PROVE  Searching'
<1>1. Admissible(job.path, job.mode)' = Admissible(job.path, job.mode)
  BY DEF Admissible, Mounted
<1>2. NamesakesUpTo(job.i)' = NamesakesUpTo(job.i)
  BY DEF NamesakesUpTo
<1> QED BY <1>1, <1>2 DEF Searching, InArray

(* The search finds the last namesake it passed, and fopen opens it        *)
(* (fat16_find_item_in_directory, fat16_open).                             *)
LEMMA SearchKept ==
  ASSUME Inv, Fat16Next
  PROVE  Searching'
<1>1. /\ job \in Job /\ Phases /\ RootKnown /\ RootTyped /\ Searching
      /\ root.item \in Seq(DOMAIN Items) /\ root.total \in Nat
  BY DEF Inv, TypeOK
<1>2. SUFFICES ASSUME job'.op = "fopen" PROVE Searching'
  BY DEF Searching
<1>3. CASE stream_step \/ poll
  <2>1. job' = job /\ root' = root /\ desc' = desc
    BY <1>3 DEF stream_step, poll, vars
  <2>2. /\ Admissible(job.path, job.mode)' = Admissible(job.path, job.mode)
        /\ NamesakesUpTo(job.i)' = NamesakesUpTo(job.i)
        /\ NamesakesUpTo(root.total)' = NamesakesUpTo(root.total)
    BY <2>1 DEF Admissible, Mounted, NamesakesUpTo
  <2> QED BY <1>1, <2>1, <2>2 DEF Searching, InArray
<1>4. CASE \/ fat16_resolve \/ read_item \/ load_root
           \/ fat16_get_fat_entry \/ fat16_read_internal_from_stream
  <2>1. \E p \in {"header", "item", "loaded", "entry", "data"} : job' = [job EXCEPT !.pc = p]
    BY <1>4 DEF fat16_resolve, read_item, load_root, fat16_get_fat_entry,
                fat16_read_internal_from_stream
  <2>2. root' = root /\ desc' = desc /\ job.pc # "done"
    BY <1>4 DEF fat16_resolve, read_item, load_root, fat16_get_fat_entry,
                fat16_read_internal_from_stream
  <2>3. /\ job'.op = job.op /\ job'.parts = job.parts /\ job'.path = job.path /\ job'.mode = job.mode
        /\ job'.i = job.i /\ job'.found = job.found /\ job'.ret = job.ret /\ job'.pc # "done"
    BY <1>1, <2>1 DEF Job
  <2> QED BY <1>1, <2>2, <2>3, SearchSame
<1>5. CASE fat16_get_root_directory \/ root_loaded
  <2>1. job.op = "mount" /\ (job' = Idle \/ job' = [job EXCEPT !.pc = "count"])
    BY <1>1, <1>5 DEF fat16_get_root_directory, root_loaded, Phases
  <2>2. Idle.op # "fopen" /\ [job EXCEPT !.pc = "count"].op = job.op
    BY <1>1 DEF Idle, Job
  <2> QED BY <1>2, <2>1, <2>2
<1>6. CASE fat16_get_total_items_for_directory
  <2>1. /\ job'.op = job.op /\ job'.parts = job.parts /\ job'.path = job.path /\ job'.mode = job.mode
        /\ job'.i = job.i /\ job'.found = job.found /\ job'.ret = job.ret /\ job'.pc # "done"
        /\ root' = root /\ desc' = desc /\ job.pc # "done"
    BY <1>1, <1>6 DEF fat16_get_total_items_for_directory, Job
  <2> QED BY <1>1, <2>1, SearchSame
<1>7. CASE fat16_load_fat_directory \/ fat16_read_internal
  <2>1. /\ job'.op = job.op /\ job'.parts = job.parts /\ job'.path = job.path /\ job'.mode = job.mode
        /\ job'.i = job.i /\ job'.found = job.found /\ job'.ret = job.ret /\ job'.pc # "done"
        /\ root' = root /\ desc' = desc /\ job.pc # "done"
    BY <1>1, <1>7 DEF fat16_load_fat_directory, fat16_read_internal, Job
  <2> QED BY <1>1, <2>1, SearchSame
<1>8. CASE fat16_get_cluster_for_offset \/ chunk_read
  <2>1. job'.op = job.op
    BY <1>1, <1>8 DEF fat16_get_cluster_for_offset, chunk_read, Abandon, Job
  <2>2. /\ job'.parts = job.parts /\ job'.path = job.path /\ job'.mode = job.mode
        /\ job'.i = job.i /\ job'.found = job.found /\ job'.ret = job.ret /\ job'.pc # "done"
        /\ root' = root /\ desc' = desc /\ job.pc # "done"
    <3>1. CASE fat16_get_cluster_for_offset
      BY <1>1, <1>2, <2>1, <3>1 DEF fat16_get_cluster_for_offset, Abandon, Job
    <3>2. CASE chunk_read
      BY <1>1, <1>2, <2>1, <3>2 DEF chunk_read, Job
    <3> QED BY <1>8, <3>1, <3>2
  <2> QED BY <1>1, <2>1, <2>2, SearchSame
<1>9. CASE fat16_find_item_in_directory
  <2> DEFINE k == Min(Matches)
  <2>1. /\ k \in Matches /\ k \in Nat /\ k \in DOMAIN root.item /\ root.item[k] \in DOMAIN Items
    BY <1>1, <1>9, NextMatch DEF fat16_find_item_in_directory
  <2>2. /\ root' = root /\ desc' = desc /\ job.pc = "find"
        /\ \/ job' = [job EXCEPT !.i = k, !.found = root.item[k],
                                 !.first = Items[root.item[k]].cluster, !.n = 0, !.pc = "count"]
           \/ job' = [job EXCEPT !.i = k, !.found = root.item[k]]
    BY <1>9 DEF fat16_find_item_in_directory, fat16_new_fat_item
  <2>3. k \in NamesakesUpTo(k)
    BY <2>1 DEF Matches, NamesakesUpTo
  <2>4. k <= root.total
    BY <2>1 DEF Matches
  <2> HIDE DEF k
  <2>5. /\ job'.op = job.op /\ job'.parts = job.parts /\ job'.path = job.path /\ job'.mode = job.mode
        /\ job'.i = k /\ job'.found = root.item[k] /\ job'.ret = job.ret /\ job'.pc # "done"
    BY <1>1, <2>2 DEF Job
  <2>6. root.item[k] # 0
    <3>1. root.item = RootCells /\ \A j \in DOMAIN RootCells : j <= root.total => RootCells[j] # 0
      BY <1>1, <2>2 DEF Phases, RootKnown
    <3> QED BY <2>1, <2>4, <3>1
  <2>7. /\ job.parts = pathparser_parse(job.path).parts /\ Admissible(job.path, job.mode)
        /\ job.ret = 0 /\ desc = Closed
    BY <1>1, <1>2, <2>2, <2>5 DEF Searching
  <2>8. Admissible(job.path, job.mode)' = Admissible(job.path, job.mode)
    BY <2>2, <2>5 DEF Admissible, Mounted
  <2>9. NamesakesUpTo(job.i)' = NamesakesUpTo(k)
    BY <2>2, <2>5 DEF NamesakesUpTo
  <2> QED BY <2>2, <2>3, <2>5, <2>6, <2>7, <2>8, <2>9 DEF Searching, InArray
<1>15. CASE fat16_find_item_behind_directory
  <2>1. PICK k \in BehindArray, seen \in Stray, copy \in Stray : fat16_new_fat_item(k, seen, copy)
    BY <1>15, Zenon DEF fat16_find_item_behind_directory
  <2>2. /\ root' = root /\ desc' = desc /\ job.pc = "find" /\ Matches = {}
        /\ \/ job' = [job EXCEPT !.i = k, !.found = copy, !.first = Items[seen].cluster,
                                 !.n = 0, !.pc = "count"]
           \/ job' = [job EXCEPT !.i = k, !.found = copy]
    BY <1>15, <2>1 DEF fat16_find_item_behind_directory, fat16_new_fat_item
  <2>3. /\ job'.op = job.op /\ job'.parts = job.parts /\ job'.path = job.path /\ job'.mode = job.mode
        /\ job'.i = k /\ job'.found = copy /\ job'.ret = job.ret /\ job'.pc # "done"
    BY <1>1, <2>2 DEF Job
  <2>4. copy # 0
    BY <2>1, Fat16Assumption DEF Fat16Assumption
  <2>5. ~InArray
    <3>1. root.item = RootCells /\ root.header.root_dir_entries \in Nat
      BY <1>1, <2>2 DEF Phases, RootKnown, RootTyped, HeaderFields
    <3>2. Len(root.item) = root.header.root_dir_entries
      BY <1>1, <3>1 DEF RootCells
    <3> QED BY <1>1, <2>1, <3>1, <3>2 DEF BehindArray, InArray
  <2>6. /\ job.parts = pathparser_parse(job.path).parts /\ Admissible(job.path, job.mode)
        /\ job.ret = 0 /\ desc = Closed
    BY <1>1, <1>2, <2>2, <2>3 DEF Searching
  <2>7. Admissible(job.path, job.mode)' = Admissible(job.path, job.mode)
    BY <2>2, <2>3 DEF Admissible, Mounted
  <2> QED BY <2>2, <2>3, <2>4, <2>5, <2>6, <2>7 DEF Searching, InArray
<1>10. CASE fat16_open
  <2>1. /\ root' = root /\ job.pc = "find" /\ Matches = {}
        /\ \/ /\ job.found # 0
              /\ desc' = [item |-> job.found, pos |-> 0]
              /\ job' = [job EXCEPT !.pc = "done", !.ret = 1]
           \/ /\ job.found = 0 \/ Len(job.parts) > 1
              /\ job' = [job EXCEPT !.pc = "done"]
              /\ desc' = desc
    BY <1>10 DEF fat16_open
  <2>2. /\ job'.op = job.op /\ job'.parts = job.parts /\ job'.path = job.path /\ job'.mode = job.mode
        /\ job'.pc = "done"
        /\ \/ job.found # 0 /\ job'.ret = 1 /\ desc'.item = job.found
           \/ (job.found = 0 \/ Len(job.parts) > 1) /\ job'.ret = job.ret
    <3>1. CASE /\ job.found # 0
               /\ desc' = [item |-> job.found, pos |-> 0]
               /\ job' = [job EXCEPT !.pc = "done", !.ret = 1]
      BY <1>1, <3>1 DEF Job
    <3>2. CASE (job.found = 0 \/ Len(job.parts) > 1) /\ job' = [job EXCEPT !.pc = "done"]
      BY <1>1, <3>2 DEF Job
    <3> QED BY <2>1, <3>1, <3>2
  <2>3. /\ job.parts = pathparser_parse(job.path).parts
        /\ job.ret = 0
        /\ job.found # 0 /\ InArray => \E k \in NamesakesUpTo(job.i) : job.found = root.item[k]
        /\ job.found = 0 => NamesakesUpTo(job.i) = {}
    BY <1>1, <1>2, <2>1, <2>2 DEF Searching
  <2>4. NamesakesUpTo(root.total)' = NamesakesUpTo(root.total)
    BY <2>1, <2>2 DEF NamesakesUpTo
  <2>5. NamesakesUpTo(job.i) = NamesakesUpTo(root.total)
    <3>1. job.i \in Nat /\ root.total \in Nat /\ DOMAIN root.item \subseteq Nat
      BY <1>1 DEF Job
    <3>2. \A k \in DOMAIN root.item : k <= job.i \/ job.i < k
      BY <3>1
    <3>3. \A k \in DOMAIN root.item :
            k <= root.total => (k \notin Matches => k <= job.i \/ k \notin NamesakesUpTo(root.total))
      BY <3>2 DEF Matches, NamesakesUpTo
    <3> QED BY <2>1, <3>3 DEF NamesakesUpTo
  <2>6. job'.parts = pathparser_parse(job'.path).parts
    BY <2>2, <2>3
  <2>7. job'.ret # 0 => /\ desc'.item # 0
                        /\ InArray => \E k \in NamesakesUpTo(root.total) : desc'.item = root.item[k]
    BY <2>2, <2>3, <2>5
  <2>8. job'.ret = 0 /\ Len(job'.parts) = 1 => NamesakesUpTo(root.total) = {}
    <3>2. ASSUME job'.ret = 0, Len(job'.parts) = 1 PROVE NamesakesUpTo(root.total) = {}
      <4>1. Len(job.parts) = 1
        BY <2>2, <3>2
      <4>2. ~(Len(job.parts) > 1)
        BY <4>1
      <4>3. job.found = 0
        BY <2>2, <3>2, <4>2
      <4> QED BY <2>3, <2>5, <4>3
    <3> QED BY <3>2
  <2> QED BY <2>1, <2>2, <2>4, <2>6, <2>7, <2>8 DEF Searching, InArray
<1>11. CASE call_returns
  BY <1>2, <1>11 DEF call_returns, Idle
<1>12. CASE fclose \/ \E offset \in 0 .. Items[desc.item].filesize : fseek(offset)
  <2>1. job = Idle /\ job' = job
    BY <1>1, <1>12 DEF fclose, fseek, Phases
  <2> QED BY <1>2, <2>1 DEF Idle
<1>13. ASSUME NEW path \in Paths, NEW mode \in Modes, fopen(path, mode)
       PROVE  Searching'
  <2> DEFINE ps == pathparser_parse(path).parts
             pc == IF Admissible(path, mode) THEN "find" ELSE "done"
  <2>1. /\ job = Idle /\ root' = root /\ desc' = desc /\ desc = Closed
        /\ job' = [job EXCEPT !.op = "fopen", !.path = path, !.mode = mode, !.parts = ps, !.pc = pc]
    BY <1>1, <1>13 DEF fopen, Phases
  <2>2. job.i = 0 /\ job.found = 0 /\ job.ret = 0
    BY <2>1 DEF Idle
  <2> HIDE DEF ps, pc
  <2>3. /\ job'.path = path /\ job'.mode = mode /\ job'.parts = ps /\ job'.pc = pc
        /\ job'.i = 0 /\ job'.found = 0 /\ job'.ret = 0
    BY <1>1, <2>1, <2>2 DEF Job
  <2>4. Admissible(path, mode)' = Admissible(path, mode)
    BY <2>1 DEF Admissible, Mounted
  <2>5. NamesakesUpTo(job.i)' = {}
    BY <1>1, <2>1, <2>3 DEF NamesakesUpTo
  <2>6. job'.parts = pathparser_parse(job'.path).parts
    BY <2>3 DEF ps
  <2>7. Admissible(job.path, job.mode)' <=> pc = "find"
    BY <2>3, <2>4 DEF pc
  <2>8. pc \in {"find", "done"}
    BY DEF pc
  <2> QED BY <2>1, <2>3, <2>5, <2>6, <2>7, <2>8 DEF Searching
<1>14. ASSUME NEW size \in Sizes, NEW nmemb \in Counts, fread(size, nmemb)
       PROVE  Searching'
  BY <1>1, <1>2, <1>14 DEF fread, Job
<1> QED BY <1>3, <1>4, <1>5, <1>6, <1>7, <1>8, <1>9, <1>10, <1>11, <1>12, <1>13, <1>14, <1>15
     DEF Fat16Next, Driver

-----------------------------------------------------------------------------
(* Reading.                                                                *)

(* What the members before one, and it, amount to.                         *)
LEMMA MembersBefore ==
  ASSUME NEW n \in Nat, NEW size \in Nat, NEW m \in 1 .. n
  PROVE  /\ (n - m) * size \in Nat
         /\ (n - m) * size + size = (n - (m - 1)) * size
         /\ (n - m) * size + size <= size * n
         /\ m = 1 => (n - m) * size + size = size * n
<1>1. n - m \in Nat /\ m - 1 \in Nat
  OBVIOUS
<1> DEFINE a == n - m
           b == m - 1
<1>2. a \in Nat /\ b \in Nat /\ n = a + 1 + b /\ n - (m - 1) = a + 1
  BY <1>1
<1> HIDE DEF a, b
<1>3. a * size \in Nat /\ b * size \in Nat
  BY <1>2, Product
<1>4. (a + 1) * size = a * size + size /\ size * (a + 1 + b) = a * size + size + b * size
  BY <1>2
<1>5. m = 1 => b * size = 0
  BY DEF b
<1> QED BY <1>2, <1>3, <1>4, <1>5 DEF a

(* In the first cluster of the file, an offset that is asked for is its    *)
(* own remainder.                                                          *)
LEMMA OffsetInCluster ==
  ASSUME TypeOK, HeaderKnown, RootTyped, Mounted, InFirstCluster,
         NEW l \in Nat, l < job.size * job.n
  PROVE  /\ (desc.pos + l) \div size_of_cluster_bytes = 0
         /\ (desc.pos + l) % size_of_cluster_bytes = desc.pos + l
<1>1. desc.pos \in Nat /\ job.size \in Nat /\ job.n \in Nat
  BY DEF TypeOK, Job
<1>2. job.size * job.n \in Nat
  BY <1>1, Product
<1> DEFINE o == desc.pos + l
<1>3. o \in Nat
  BY <1>1
<1>4. o \in Asked
  <2> DEFINE k == l + 1
             amount == job.size * job.n
  <2>1. amount \in Nat /\ l < amount
    BY <1>2
  <2> HIDE DEF amount
  <2>2. k \in 1 .. amount /\ o = desc.pos + k - 1
    BY <1>1, <2>1
  <2> HIDE DEF k, o
  <2> QED BY <2>2 DEF Asked, amount
<1>5. o < size_of_cluster_bytes
  BY <1>4 DEF InFirstCluster
<1>6. size_of_cluster_bytes \in Nat \ {0}
  BY Geometry
<1> HIDE DEF o
<1>7. o \div size_of_cluster_bytes = 0 /\ o % size_of_cluster_bytes = o
  BY <1>3, <1>5, <1>6, DivMod
<1> QED BY <1>7 DEF o

(* The bytes of s are the cells from p on.                                 *)
CellsFrom(s, p, d) == \A k \in 1 .. Len(s) : s[k] = d[p + k - 1]

(* Two runs of cells of the disk, one behind the other.                    *)
LEMMA RunsJoined ==
  ASSUME NEW a \in Seq(Nat), NEW b \in Seq(Nat), NEW p \in Nat, NEW d,
         CellsFrom(a, p, d), CellsFrom(b, p + Len(a), d)
  PROVE  CellsFrom(a \o b, p, d)
<1> USE DEF CellsFrom
<1>1. /\ Len(a) \in Nat /\ Len(b) \in Nat /\ Len(a \o b) = Len(a) + Len(b)
      /\ \A i \in 1 .. Len(a) : (a \o b)[i] = a[i]
      /\ \A i \in (Len(a) + 1) .. (Len(a) + Len(b)) : (a \o b)[i] = b[i - Len(a)]
  BY Appended
<1>2. SUFFICES ASSUME NEW k \in 1 .. (Len(a) + Len(b)) PROVE (a \o b)[k] = d[p + k - 1]
  BY <1>1
<1>3. CASE k <= Len(a)
  BY <1>1, <1>2, <1>3
<1>4. CASE k > Len(a)
  <2> DEFINE i == k - Len(a)
  <2>1. i \in 1 .. Len(b) /\ p + Len(a) + i - 1 = p + k - 1 /\ k \in (Len(a) + 1) .. (Len(a) + Len(b))
    BY <1>1, <1>2, <1>4
  <2>2. (a \o b)[k] = b[i]
    BY <1>1, <2>1
  <2> HIDE DEF i
  <2>3. b[i] = d[p + Len(a) + i - 1]
    BY <2>1
  <2> QED BY <2>1, <2>2, <2>3
<1> QED BY <1>1, <1>2, <1>3, <1>4

(* What is asked for, and where it is, does not change while it is read.   *)
LEMMA AskedSame ==
  ASSUME root' = root, desc' = desc, disk' = disk, job'.size = job.size, job'.n = job.n
  PROVE  /\ InFirstCluster' = InFirstCluster
         /\ FirstCell' = FirstCell
         /\ size_of_cluster_bytes' = size_of_cluster_bytes
<1>1. size_of_cluster_bytes' = size_of_cluster_bytes
  BY DEF size_of_cluster_bytes
<1> QED BY <1>1 DEF InFirstCluster, Asked, FirstCell, fat16_cluster_to_sector, ending_sector_pos

(* A step that leaves what was read alone.                                 *)
LEMMA ReadingSame ==
  ASSUME root' = root, desc' = desc, disk' = disk, Reading, job.op = "fread",
         job'.size = job.size, job'.n = job.n, job'.first = job.first,
         job'.members = job.members, job'.offset = job.offset, job'.out = job.out,
         job'.total = job.total, job.pc # "done", job.pc # "read",
         job'.pc \in {"walk", "entry", "data"},
         InFirstCluster => /\ job'.pc # "entry"
                           /\ job'.ahead = 0 /\ job'.cluster = job.first
  PROVE  Reading'
<1>1. /\ InFirstCluster' = InFirstCluster /\ FirstCell' = FirstCell
  BY AskedSame
<1> QED BY <1>1 DEF Reading

(* A read delivers the members one behind the other, chunk by chunk, and   *)
(* in the first cluster what it delivers are the cells of the file         *)
(* (fat16_read, fat16_read_internal).                                      *)
LEMMA ReadingKept ==
  ASSUME Inv, Fat16Next
  PROVE  Reading'
<1>1. /\ job \in Job /\ Phases /\ RootTyped /\ Reading /\ TypeOK /\ HeaderKnown /\ Walking
      /\ ReadOfJob /\ StreamTypeOK /\ FlatRead /\ desc.pos \in Nat /\ desc.item \in DOMAIN Items
  BY DEF Inv, TypeOK
<1>2. disk' = disk
  BY StreamsKept
<1>3. /\ job.n \in Nat /\ job.first \in Nat /\ job.offset \in Nat
      /\ job.size \in Nat /\ job.total \in Nat /\ job.members \in Nat /\ job.ahead \in Nat
      /\ job.cluster \in Nat /\ job.out \in Seq(Nat) /\ Len(job.out) \in Nat
  BY <1>1 DEF Job
<1>4. SUFFICES ASSUME job'.op = "fread" PROVE Reading'
  BY DEF Reading
<1>5. CASE stream_step \/ poll
  <2>1. job' = job /\ root' = root /\ desc' = desc
    BY <1>5 DEF stream_step, poll, vars
  <2>2. InFirstCluster' = InFirstCluster /\ FirstCell' = FirstCell
    BY <1>2, <2>1, AskedSame
  <2> QED BY <1>1, <1>2, <2>1, <2>2 DEF Reading
<1>6. ASSUME job.pc \in {"boot", "header", "count", "item", "load", "loaded", "find"}
      PROVE  job.op # "fread"
  BY <1>1, <1>6 DEF Phases
<1>7. CASE \/ fat16_resolve \/ fat16_get_root_directory \/ read_item
           \/ fat16_get_total_items_for_directory \/ load_root \/ root_loaded
  <2>1. job.op # "fread"
    BY <1>6, <1>7 DEF fat16_resolve, fat16_get_root_directory, read_item,
                      fat16_get_total_items_for_directory, load_root, root_loaded
  <2>2. Idle.op # "fread"
    BY DEF Idle
  <2>3. CASE fat16_resolve \/ read_item \/ load_root
    BY <1>1, <1>4, <2>1, <2>3 DEF fat16_resolve, read_item, load_root, Job
  <2>4. CASE fat16_get_root_directory
    BY <1>1, <1>4, <2>1, <2>2, <2>4 DEF fat16_get_root_directory, Job
  <2>5. CASE fat16_get_total_items_for_directory
    BY <1>1, <1>4, <2>1, <2>5 DEF fat16_get_total_items_for_directory, Job
  <2>6. CASE root_loaded
    BY <1>4, <2>2, <2>6 DEF root_loaded
  <2> QED BY <1>7, <2>3, <2>4, <2>5, <2>6
<1>8. CASE FindsItem \/ fat16_load_fat_directory \/ fat16_open
  <2>1. job.op # "fread"
    BY <1>1, <1>6, <1>8, ItemFound DEF fat16_load_fat_directory, fat16_open
  <2>2. job'.op = job.op
    BY <1>1, <1>8, ItemFound DEF fat16_load_fat_directory, fat16_open, Job
  <2> QED BY <1>4, <2>1, <2>2
<1>9. CASE fat16_read_internal
  <2> DEFINE l == Len(job.out)
             ahead == job.offset \div size_of_cluster_bytes
  <2>1. /\ job.pc = "read" /\ root' = root /\ desc' = desc
        /\ job' = [job EXCEPT !.pc = "walk", !.total = job.size, !.cluster = job.first,
                              !.ahead = ahead]
    BY <1>9 DEF fat16_read_internal
  <2> HIDE DEF ahead
  <2>2. /\ job'.pc = "walk" /\ job'.op = job.op /\ job'.size = job.size /\ job'.n = job.n
        /\ job'.first = job.first /\ job'.members = job.members /\ job'.offset = job.offset
        /\ job'.out = job.out /\ job'.total = job.size /\ job'.cluster = job.first
        /\ job'.ahead = ahead
    BY <1>1, <2>1 DEF Job
  <2>3. /\ job.size > 0 /\ job.n > 0 /\ job.first = Items[desc.item].cluster
        /\ job.members \in 1 .. job.n
        /\ job.offset = desc.pos + l
        /\ l = (job.n - job.members) * job.size
        /\ InFirstCluster => \A k \in 1 .. l : job.out[k] = disk[FirstCell + desc.pos + k - 1]
    <3>1. job.op = "fread"
      BY <1>4, <2>2
    <3>2. (job.n - job.members) * job.size + 0 = (job.n - job.members) * job.size
      BY <1>3
    <3> QED BY <1>1, <2>1, <3>1, <3>2 DEF Reading
  <2>4. Mounted
    BY <1>1, <2>1 DEF Phases
  <2>5. ASSUME InFirstCluster PROVE ahead = 0
    <3> DEFINE before == (job.n - job.members) * job.size
               amount == job.size * job.n
    <3>1. /\ before \in Nat /\ before + job.size <= amount /\ amount \in Nat /\ l = before
      BY <1>3, <2>3, MembersBefore, Product
    <3> HIDE DEF before, amount
    <3>2. l < amount /\ l \in Nat
      BY <1>3, <2>3, <3>1
    <3> QED BY <1>1, <2>3, <2>4, <2>5, <3>2, OffsetInCluster DEF ahead, amount
  <2>6. InFirstCluster' = InFirstCluster /\ FirstCell' = FirstCell
    BY <1>2, <2>1, <2>2, AskedSame
  <2>7. l = (job.n - job.members) * job.size + (job.size - job.size) /\ job.size \in 1 .. job.size
    <3>1. (job.n - job.members) * job.size \in Nat
      BY <1>3, <2>3, MembersBefore
    <3> QED BY <1>3, <2>3, <3>1
  <2> QED BY <1>2, <2>1, <2>2, <2>3, <2>5, <2>6, <2>7 DEF Reading
<1>10. CASE fat16_get_fat_entry \/ fat16_read_internal_from_stream
  <2>1. /\ root' = root /\ desc' = desc /\ job.pc = "walk"
        /\ \/ job' = [job EXCEPT !.pc = "entry"] /\ job.ahead > 0
           \/ job' = [job EXCEPT !.pc = "data"]
    BY <1>10 DEF fat16_get_fat_entry, fat16_read_internal_from_stream
  <2>2. /\ job'.size = job.size /\ job'.n = job.n /\ job'.first = job.first
        /\ job'.members = job.members /\ job'.offset = job.offset /\ job'.out = job.out
        /\ job'.total = job.total /\ job'.ahead = job.ahead /\ job'.cluster = job.cluster
        /\ job'.op = job.op
        /\ \/ job'.pc = "entry" /\ job.ahead > 0
           \/ job'.pc = "data"
    BY <1>1, <2>1 DEF Job
  <2>3. InFirstCluster => job.ahead = 0 /\ job.cluster = job.first
    BY <1>1, <1>4, <2>1, <2>2 DEF Reading
  <2>4. ~(0 > 0)
    OBVIOUS
  <2> QED BY <1>1, <1>2, <1>4, <2>1, <2>2, <2>3, <2>4, ReadingSame
<1>11. CASE fat16_get_cluster_for_offset
  <2> DEFINE entry == call.out[1]
             ahead == job.ahead - 1
  <2>1. /\ root' = root /\ desc' = desc /\ job.pc = "entry"
        /\ \/ job' = Abandon
           \/ job' = [job EXCEPT !.pc = "walk", !.cluster = entry, !.ahead = ahead]
    BY <1>1, <1>11 DEF fat16_get_cluster_for_offset, Job
  <2> HIDE DEF entry, ahead
  <2>2. job'.op = job.op /\ job'.size = job.size /\ job'.n = job.n /\ job'.first = job.first
    BY <1>1, <2>1 DEF Abandon, Job
  <2>3. ~InFirstCluster
    BY <1>1, <1>4, <2>1, <2>2 DEF Reading
  <2>4. InFirstCluster' = InFirstCluster
    BY <1>2, <2>1, <2>2, AskedSame
  <2>5. CASE job' = Abandon
    <3>1. job'.pc = "done"
      BY <1>1, <1>4, <2>2, <2>5 DEF Abandon, Job
    <3> QED BY <1>1, <1>4, <2>1, <2>2, <2>3, <2>4, <3>1 DEF Reading
  <2>6. CASE job' = [job EXCEPT !.pc = "walk", !.cluster = entry, !.ahead = ahead]
    <3>1. /\ job'.pc = "walk" /\ job'.members = job.members /\ job'.offset = job.offset
          /\ job'.out = job.out /\ job'.total = job.total
      BY <1>1, <2>6 DEF Job
    <3> QED BY <1>1, <1>2, <1>4, <2>1, <2>2, <2>3, <3>1, ReadingSame
  <2> QED BY <2>1, <2>5, <2>6
<1>12. CASE chunk_read
  <2> DEFINE total == job.total - chunk
             offset == job.offset + chunk
             ahead == offset \div size_of_cluster_bytes
             out == job.out \o call.out
             then == [job EXCEPT !.out = out, !.offset = offset, !.total = total,
                                 !.cluster = job.first, !.ahead = ahead]
             before == (job.n - job.members) * job.size
             amount == job.size * job.n
  <2>1. /\ job.pc = "data" /\ Mounted /\ call.state = "returned"
        /\ root' = root /\ desc' = desc
    BY <1>1, <1>12 DEF chunk_read, Phases, read_returns
  <2>2. /\ chunk \in Nat /\ chunk <= job.total /\ total \in Nat
        /\ size_of_cluster_bytes \in Nat \ {0}
    <3>1. size_of_cluster_bytes \in Nat \ {0}
      BY <1>1, <2>1, Geometry
    <3>2. /\ chunk = IF job.total <= size_of_cluster_bytes THEN job.total ELSE size_of_cluster_bytes
          /\ chunk \in Nat /\ total \in Nat
      BY <1>1, <2>1, Chunk
    <3> QED BY <1>3, <3>1, <3>2
  <2>3. /\ call.out \in Seq(Nat) /\ Len(call.out) = chunk
        /\ \A k \in 1 .. chunk : call.out[k] = disk[call.start + k - 1]
    <3>1. call.total = chunk
      BY <1>1, <2>1 DEF ReadOfJob
    <3> QED BY <1>1, <2>1, <3>1, Delivered
  <2>4. job.op = "fread"
    BY <1>1, <1>4, <1>12 DEF chunk_read, Job
  <2>5. then = [job EXCEPT !.out = @ \o call.out, !.offset = offset, !.total = total,
                           !.cluster = job.first, !.ahead = ahead]
    BY <1>1 DEF Job
  <2>6. \/ job' = [then EXCEPT !.pc = "walk"] /\ total > 0
        \/ /\ job' = [then EXCEPT !.pc = "read", !.members = @ - 1]
           /\ ~(total > 0) /\ job.members > 1
        \/ /\ job' = [then EXCEPT !.pc = "done", !.members = 0, !.ret = job.n]
           /\ ~(total > 0) /\ job.members = 1
    <3> HIDE DEF total, offset, ahead, then
    <3> QED BY <1>12, <2>4, <2>5 DEF chunk_read, more_to_read, total, offset, ahead
  <2>7. /\ job.size > 0 /\ job.n > 0 /\ job.first = Items[desc.item].cluster
        /\ job.members \in 1 .. job.n
        /\ job.offset = desc.pos + Len(job.out)
        /\ Len(job.out) = before + (job.size - job.total)
        /\ job.total \in 1 .. job.size
        /\ InFirstCluster =>
             /\ job.cluster = job.first
             /\ \A k \in 1 .. Len(job.out) : job.out[k] = disk[FirstCell + desc.pos + k - 1]
    BY <1>1, <2>1, <2>4 DEF Reading
  <2>8. /\ before \in Nat /\ amount \in Nat /\ before + job.size <= amount
        /\ job.members = 1 => before + job.size = amount
    BY <1>3, <2>7, MembersBefore, Product
  <2>9. before + job.size = (job.n - (job.members - 1)) * job.size
    BY <1>3, <2>7, MembersBefore
  <2> HIDE DEF before, amount
  <2>10. Len(job.out) \in Nat /\ job.total \in Nat /\ job.size \in Nat /\ desc.pos \in Nat
    BY <1>1, <1>3
  <2>11. /\ out \in Seq(Nat) /\ Len(out) = Len(job.out) + chunk
    BY <1>3, <2>3, Appended
  <2> HIDE DEF out
  <2>12. /\ offset = desc.pos + Len(out) /\ Len(out) = before + (job.size - total)
         /\ Len(out) \in Nat /\ offset \in Nat
    <3>1. /\ job.offset = desc.pos + Len(job.out) /\ job.total <= job.size
          /\ Len(job.out) = before + (job.size - job.total)
      BY <2>7
    <3>2. Len(out) \in Nat /\ Len(out) = Len(job.out) + chunk /\ chunk \in Nat
      BY <2>2, <2>11, <2>10
    <3>3. offset = desc.pos + Len(out)
      BY <2>10, <3>1, <3>2
    <3>4. Len(out) = before + (job.size - total)
      BY <2>8, <2>10, <3>1, <3>2
    <3>5. offset \in Nat
      BY <2>10, <3>2, <3>3
    <3> QED BY <3>2, <3>3, <3>4, <3>5
  <2>13. ASSUME InFirstCluster
         PROVE  \A k \in 1 .. Len(out) : out[k] = disk[FirstCell + desc.pos + k - 1]
    <3>1. Len(job.out) < amount
      <4>1. job.total >= 1 /\ Len(job.out) = before + (job.size - job.total)
        BY <2>7
      <4> QED BY <2>8, <2>10, <4>1
    <3>2. job.offset % size_of_cluster_bytes = desc.pos + Len(job.out)
      BY <1>1, <1>3, <2>1, <2>7, <2>13, <3>1, OffsetInCluster DEF amount
    <3>3. call.start = FirstCell + (desc.pos + Len(job.out))
      BY <1>1, <2>1, <2>7, <2>13, <3>2 DEF ReadOfJob, FirstCell
    <3>4. FirstCell \in Nat
      <4>1. Items[desc.item].cluster \in Nat
        BY <1>1, ItemTyped
      <4>2. fat16_cluster_to_sector(Items[desc.item].cluster) \in Nat
        BY <1>1, <2>1, <4>1, Geometry
      <4> QED BY <4>2, SectorSize, Product DEF FirstCell
    <3> DEFINE p == FirstCell + desc.pos
    <3>5. p \in Nat /\ call.start = p + Len(job.out)
      BY <1>1, <1>3, <3>3, <3>4
    <3>6. \A k \in 1 .. Len(job.out) : job.out[k] = disk[p + k - 1]
      BY <1>1, <1>3, <2>7, <2>13, <3>4
    <3> HIDE DEF p
    <3>7. \A k \in 1 .. Len(call.out) : call.out[k] = disk[p + Len(job.out) + k - 1]
      BY <2>3, <3>5
    <3>8. \A k \in 1 .. Len(out) : out[k] = disk[p + k - 1]
      <4> DEFINE a == job.out
                 b == call.out
      <4>1. a \in Seq(Nat) /\ b \in Seq(Nat)
        BY <1>3, <2>3
      <4> HIDE DEF a, b
      <4>2. \A k \in 1 .. Len(a \o b) : (a \o b)[k] = disk[p + k - 1]
        <5>1. CellsFrom(a, p, disk)
          BY <3>6 DEF a, CellsFrom
        <5>2. CellsFrom(b, p + Len(a), disk)
          BY <3>7 DEF a, b, CellsFrom
        <5>3. p \in Nat
          BY <3>5
        <5>4. CellsFrom(a \o b, p, disk)
          BY <4>1, <5>1, <5>2, <5>3, RunsJoined
        <5> QED BY <5>4 DEF CellsFrom
      <4> QED BY <4>2 DEF a, b, out
    <3> QED BY <1>1, <2>12, <3>4, <3>8 DEF p
  <2>14. ASSUME InFirstCluster, total > 0 PROVE ahead = 0
    <3>1. Len(out) < amount
      <4>1. total \in Nat /\ total > 0
        BY <2>2, <2>14
      <4> HIDE DEF total
      <4> QED BY <2>8, <2>12, <2>10, <4>1
    <3> QED BY <1>1, <2>1, <2>12, <2>14, <3>1, OffsetInCluster DEF amount
  <2>15. total <= job.size
    BY <1>3, <2>2, <2>7
  <2> HIDE DEF total, offset, ahead
  <2>16. /\ then.op = "fread" /\ then.size = job.size /\ then.n = job.n /\ then.first = job.first
         /\ then.members = job.members /\ then.offset = offset /\ then.out = out
         /\ then.total = total /\ then.cluster = job.first /\ then.ahead = ahead
         /\ DOMAIN then = DOMAIN job
    BY <1>1, <2>4 DEF Job
  <2> HIDE DEF then
  <2>17. DOMAIN then = {"pc", "op", "path", "mode", "parts", "i", "found", "n", "first", "offset",
                        "size", "total", "members", "ahead", "cluster", "out", "ret"}
    BY <1>1, <2>16 DEF Job
  <2>18. /\ job'.size = job.size /\ job'.n = job.n /\ job'.first = job.first
         /\ job'.offset = offset /\ job'.out = out
    BY <2>6, <2>16, <2>17
  <2>19. InFirstCluster' = InFirstCluster /\ FirstCell' = FirstCell
    BY <1>2, <2>1, <2>18, AskedSame
  <2>20. CASE job' = [then EXCEPT !.pc = "walk"] /\ total > 0
    <3>1. /\ job'.pc = "walk" /\ job'.members = job.members /\ job'.total = total
          /\ job'.cluster = job.first /\ job'.ahead = ahead
      BY <2>16, <2>17, <2>20
    <3>2. total \in 1 .. job.size
      BY <1>3, <2>2, <2>15, <2>20
    <3> QED BY <1>2, <2>1, <2>7, <2>12, <2>13, <2>14, <2>18, <2>19, <2>20, <3>1, <3>2 DEF Reading, before
  <2>21. CASE /\ job' = [then EXCEPT !.pc = "read", !.members = @ - 1]
              /\ ~(total > 0) /\ job.members > 1
    <3>1. job'.pc = "read" /\ job'.members = job.members - 1
      BY <2>16, <2>17, <2>21
    <3>2. job.members - 1 \in 1 .. job.n
      BY <1>3, <2>7, <2>21
    <3>3. total = 0
      BY <2>2, <2>21
    <3>4. Len(out) = (job.n - (job.members - 1)) * job.size + 0
      <4>1. Len(out) = before + job.size /\ before + job.size \in Nat
        BY <2>8, <2>12, <2>10, <3>3
      <4> QED BY <2>9, <4>1
    <3> QED BY <1>2, <2>1, <2>7, <2>12, <2>13, <2>18, <2>19, <3>1, <3>2, <3>4 DEF Reading
  <2>22. CASE /\ job' = [then EXCEPT !.pc = "done", !.members = 0, !.ret = job.n]
              /\ ~(total > 0) /\ job.members = 1
    <3>1. job'.pc = "done" /\ job'.ret = job.n
      BY <2>16, <2>17, <2>22
    <3>2. total = 0
      BY <2>2, <2>22
    <3>3. Len(out) = job.size * job.n
      BY <2>8, <2>12, <2>22, <2>10, <3>2 DEF amount
    <3> QED BY <1>2, <2>1, <2>7, <2>13, <2>18, <2>19, <3>1, <3>3 DEF Reading
  <2> QED BY <2>6, <2>20, <2>21, <2>22
<1>13. CASE call_returns
  BY <1>4, <1>13 DEF call_returns, Idle
<1>14. CASE fclose \/ \E offset \in 0 .. Items[desc.item].filesize : fseek(offset)
  <2>1. job = Idle /\ job' = job
    BY <1>1, <1>14 DEF fclose, fseek, Phases
  <2> QED BY <1>4, <2>1 DEF Idle
<1>15. ASSUME NEW path \in Paths, NEW mode \in Modes, fopen(path, mode)
       PROVE  Reading'
  BY <1>1, <1>4, <1>15 DEF fopen, Job
<1>16. ASSUME NEW size \in Sizes, NEW nmemb \in Counts, fread(size, nmemb)
       PROVE  Reading'
  <2>1. /\ job = Idle /\ root' = root /\ desc' = desc
        /\ job' = [job EXCEPT !.op = "fread", !.pc = "read",
                              !.first = Items[desc.item].cluster, !.offset = desc.pos,
                              !.size = size, !.members = nmemb, !.n = nmemb]
    BY <1>1, <1>16 DEF fread, Phases
  <2>2. size \in Nat /\ size > 0 /\ nmemb \in Nat /\ nmemb > 0
    BY Fat16Assumption DEF Fat16Assumption
  <2>3. job.out = <<>>
    BY <2>1 DEF Idle
  <2>4. /\ job'.pc = "read" /\ job'.first = Items[desc.item].cluster /\ job'.offset = desc.pos
        /\ job'.size = size /\ job'.members = nmemb /\ job'.n = nmemb /\ job'.out = <<>>
    BY <1>1, <2>1, <2>3 DEF Job
  <2>5. (nmemb - nmemb) * size + 0 = 0 /\ nmemb \in 1 .. nmemb /\ desc.pos + 0 = desc.pos
    <3>1. desc.pos \in Nat
      BY <1>1
    <3>2. nmemb - nmemb = 0 /\ nmemb \in 1 .. nmemb
      BY <2>2
    <3>3. 0 * size + 0 = 0
      BY <2>2
    <3>4. desc.pos + 0 = desc.pos
      BY <3>1
    <3> QED BY <3>2, <3>3, <3>4
  <2>6. Len(<<>>) = 0
    OBVIOUS
  <2>7. 1 .. 0 = {}
    OBVIOUS
  <2> QED BY <2>1, <2>2, <2>4, <2>5, <2>6, <2>7 DEF Reading
<1> QED BY <1>5, <1>7, <1>8, <1>9, <1>10, <1>11, <1>12, <1>13, <1>14, <1>15, <1>16
     DEF Fat16Next, Driver, FindsItem

-----------------------------------------------------------------------------
(* Names.                                                                  *)

(* A non-empty set of numbers up to n has a greatest element, and Max      *)
(* denotes it.                                                             *)
LEMMA MaxOfNaturals ==
  ASSUME NEW n \in Nat, NEW S \in SUBSET (0 .. n), S # {}
  PROVE  Max(S) \in S /\ \A y \in S : y <= Max(S)
<1> DEFINE D == {n - y : y \in S}
<1>1. D \in SUBSET Nat /\ D # {}
  OBVIOUS
<1>2. PICK d \in D : \A z \in D : d <= z
  <2> HIDE DEF D
  <2> QED BY <1>1, MinOfNaturals
<1>3. PICK x \in S : d = n - x
  BY <1>2
<1>4. \A y \in S : n - y \in D
  OBVIOUS
<1>5. \A y \in S : y <= x
  <2> TAKE y \in S
  <2>1. d <= n - y
    BY <1>2, <1>4
  <2>2. x \in 0 .. n /\ y \in 0 .. n
    BY <1>3
  <2> QED BY <1>3, <2>1, <2>2
<1>6. \A y \in S : x >= y
  BY <1>3, <1>5
<1> HIDE DEF D
<1>7. Max(S) \in S /\ \A y \in S : Max(S) >= y
  BY <1>3, <1>6, Zenon DEF Max
<1> QED BY <1>7

(* What fills a field up is behind what does not.                          *)
LEMMA Blanks ==
  ASSUME NEW field \in Seq(STRING), Padded(field)
  PROVE  \E t \in 0 .. Len(field) :
           /\ Trimmed(field) = SubSeq(field, 1, t)
           /\ \A k \in 1 .. t : field[k] \notin {NUL, SPACE}
           /\ \A k \in (t + 1) .. Len(field) : field[k] = SPACE
<1> DEFINE S == {0} \cup {k \in DOMAIN field : field[k] # SPACE}
           t == Max(S)
<1>1. Len(field) \in Nat /\ DOMAIN field = 1 .. Len(field)
  OBVIOUS
<1>2. S \in SUBSET (0 .. Len(field)) /\ S # {}
  BY <1>1
<1>3. t \in S /\ \A y \in S : y <= t
  <2> HIDE DEF S
  <2> QED BY <1>1, <1>2, MaxOfNaturals
<1>4. Trimmed(field) = SubSeq(field, 1, t)
  BY Zenon DEF Trimmed
<1>5. t \in 0 .. Len(field) /\ (t # 0 => field[t] # SPACE)
  BY <1>2, <1>3
<1> HIDE DEF t
<1>6. ASSUME NEW k \in 1 .. t PROVE field[k] \notin {NUL, SPACE}
  <2>1. k \in DOMAIN field /\ t \in k .. Len(field) /\ t # 0
    BY <1>1, <1>5, <1>6
  <2>2. field[k] # NUL
    BY <2>1 DEF Padded
  <2>3. field[k] # SPACE
    BY <1>5, <2>1 DEF Padded
  <2> QED BY <2>2, <2>3
<1>7. ASSUME NEW k \in (t + 1) .. Len(field) PROVE field[k] = SPACE
  <2>1. k \in DOMAIN field /\ ~(k <= t)
    BY <1>1, <1>5, <1>7
  <2>2. k \notin S
    BY <1>3, <2>1
  <2> QED BY <2>1, <2>2
<1> QED BY <1>4, <1>5, <1>6, <1>7

(* The bytes of two fields, one behind the other.                          *)
LEMMA Joined ==
  ASSUME NEW a \in Seq(STRING), NEW b \in Seq(STRING)
  PROVE  /\ a \o b \in Seq(STRING)
         /\ Len(a \o b) = Len(a) + Len(b)
         /\ DOMAIN (a \o b) = 1 .. (Len(a) + Len(b))
         /\ \A i \in 1 .. Len(a) : (a \o b)[i] = a[i]
         /\ b # <<>> => (a \o b)[Len(a) + 1] = b[1]
OBVIOUS

(* The place of the first blank.                                           *)
LEMMA FirstBlank ==
  ASSUME NEW in \in Seq(STRING), NEW e \in DOMAIN in, in[e] \in {NUL, SPACE},
         \A k \in 1 .. (e - 1) : in[k] \notin {NUL, SPACE}
  PROVE  fat16_to_proper_string(in) = SubSeq(in, 1, e - 1)
<1> DEFINE B == {k \in DOMAIN in : in[k] \in {NUL, SPACE}}
<1>1. DOMAIN in = 1 .. Len(in) /\ Len(in) \in Nat
  OBVIOUS
<1>2. B \in SUBSET Nat /\ e \in B
  BY <1>1
<1>3. Min(B) \in B /\ \A y \in B : Min(B) <= y
  <2> HIDE DEF B
  <2> QED BY <1>2, MinOfNaturals
<1> DEFINE m == Min(B)
<1>4. m \in DOMAIN in /\ in[m] \in {NUL, SPACE} /\ m <= e
  BY <1>2, <1>3
<1>5. fat16_to_proper_string(in) = SubSeq(in, 1, m - 1)
  BY Zenon DEF fat16_to_proper_string
<1> HIDE DEF m
<1>6. m = e
  <2>1. CASE m < e
    <3>1. m \in 1 .. (e - 1)
      BY <1>1, <1>4, <2>1
    <3> QED BY <1>4, <3>1
  <2> QED BY <1>1, <1>4, <2>1
<1> QED BY <1>5, <1>6

(* A field whose blanks are at its end, or that has a blank behind it, is  *)
(* read up to its blanks (fat16_to_proper_string).                         *)
LEMMA ProperString ==
  ASSUME NEW field \in Seq(STRING), NEW rest \in Seq(STRING), Padded(field),
         rest # <<>>, SPACE \in Range(field) \/ rest[1] = SPACE
  PROVE  fat16_to_proper_string(field \o rest) = Trimmed(field)
<1> DEFINE in == field \o rest
<1>1. PICK t \in 0 .. Len(field) :
        /\ Trimmed(field) = SubSeq(field, 1, t)
        /\ \A k \in 1 .. t : field[k] \notin {NUL, SPACE}
        /\ \A k \in (t + 1) .. Len(field) : field[k] = SPACE
  BY Blanks
<1>2. Len(field) \in Nat /\ Len(rest) \in Nat /\ Len(rest) > 0 /\ DOMAIN field = 1 .. Len(field)
  OBVIOUS
<1>3. /\ in \in Seq(STRING) /\ DOMAIN in = 1 .. (Len(field) + Len(rest))
      /\ Len(in) = Len(field) + Len(rest)
      /\ \A k \in 1 .. Len(field) : in[k] = field[k]
      /\ in[Len(field) + 1] = rest[1]
  BY Joined
<1> HIDE DEF in
<1>4. t + 1 \in DOMAIN in
  BY <1>2, <1>3
<1>5. in[t + 1] = SPACE
  <2>1. CASE t < Len(field)
    <3>1. t + 1 \in 1 .. Len(field) /\ t + 1 \in (t + 1) .. Len(field)
      BY <1>2, <2>1
    <3> QED BY <1>1, <1>3, <3>1
  <2>2. CASE t = Len(field)
    <3>1. \A k \in DOMAIN field : field[k] # SPACE
      BY <1>1, <1>2, <2>2
    <3>2. SPACE \notin Range(field)
      BY <3>1, Zenon DEF Range
    <3> QED BY <1>3, <2>2, <3>2
  <2>3. t \in 0 .. Len(field)
    OBVIOUS
  <2>4. t < Len(field) \/ t = Len(field)
    <3> DEFINE n == Len(field)
    <3>1. n \in Nat /\ t \in 0 .. n
      BY <2>3
    <3> HIDE DEF n
    <3>2. t < n \/ t = n
      BY <3>1
    <3> QED BY <3>2 DEF n
  <2> QED BY <2>1, <2>2, <2>4
<1>6. \A k \in 1 .. ((t + 1) - 1) : in[k] \notin {NUL, SPACE}
  BY <1>1, <1>2, <1>3
<1>7. fat16_to_proper_string(in) = SubSeq(in, 1, (t + 1) - 1)
  BY <1>3, <1>4, <1>5, <1>6, FirstBlank
<1>8. SubSeq(in, 1, (t + 1) - 1) = SubSeq(field, 1, t)
  <2>1. (t + 1) - 1 = t /\ t \in Nat
    BY <1>2
  <2>2. SubSeq(in, 1, t) = [k \in 1 .. t |-> in[k]]
    BY <1>2, <1>3, <2>1
  <2>3. SubSeq(field, 1, t) = [k \in 1 .. t |-> field[k]]
    BY <1>2, <2>1
  <2>4. \A k \in 1 .. t : in[k] = field[k]
    BY <1>2, <1>3
  <2> QED BY <2>1, <2>2, <2>3, <2>4
<1> QED BY <1>1, <1>7, <1>8 DEF in

(* The name that the search compares is the one that the item bears, if    *)
(* its fields are padded and a blank follows them                          *)
(* (fat16_get_full_relative_filename).                                     *)
LEMMA FullName ==
  ASSUME NEW item \in DirectoryItem, item.filename # <<>>, item.ext # <<>>,
         Padded(item.filename), Padded(item.ext), EndedByBlank(item), NUL \in STRING
  PROVE  fat16_get_full_relative_filename(item) = Name(item)
<1> DEFINE tail == <<item.attribute, NUL>>
           rest == item.ext \o tail
<1>1. item.filename \in Seq(STRING) /\ item.ext \in Seq(STRING) /\ item.attribute \in STRING
  BY DEF DirectoryItem
<1>2. tail \in Seq(STRING) /\ tail # <<>> /\ tail[1] = item.attribute
  BY <1>1
<1> HIDE DEF tail
<1>3. rest \in Seq(STRING) /\ rest # <<>> /\ rest[1] = item.ext[1]
  <2>1. Len(item.ext) \in Nat /\ Len(item.ext) > 0
    BY <1>1
  <2>2. rest \in Seq(STRING) /\ Len(rest) = Len(item.ext) + Len(tail) /\ rest[1] = item.ext[1]
    BY <1>1, <1>2, <2>1, Joined
  <2>3. Len(tail) \in Nat
    BY <1>2
  <2> HIDE DEF rest
  <2> QED BY <2>1, <2>2, <2>3
<1>4. fat16_to_proper_string(rest) = Trimmed(item.ext)
  BY <1>1, <1>2, ProperString DEF EndedByBlank
<1> HIDE DEF rest
<1>5. fat16_to_proper_string(item.filename \o rest) = Trimmed(item.filename)
  BY <1>1, <1>3, ProperString DEF EndedByBlank
<1>6. PICK t \in 0 .. Len(item.ext) :
        /\ Trimmed(item.ext) = SubSeq(item.ext, 1, t)
        /\ \A k \in 1 .. t : item.ext[k] \notin {NUL, SPACE}
        /\ \A k \in (t + 1) .. Len(item.ext) : item.ext[k] = SPACE
  BY <1>1, Blanks
<1>7. Len(item.ext) \in Nat /\ Len(item.ext) > 0
  BY <1>1
<1>8. item.ext[1] \in {NUL, SPACE} <=> Trimmed(item.ext) = <<>>
  <2>1. Len(SubSeq(item.ext, 1, t)) = t
    BY <1>1, <1>7
  <2>2. CASE t = 0
    BY <1>1, <1>6, <1>7, <2>1, <2>2
  <2>3. CASE t > 0
    <3>1. 1 \in 1 .. t
      BY <2>3
    <3> QED BY <1>6, <2>1, <2>3, <3>1
  <2> QED BY <2>2, <2>3
<1>9. Trimmed(item.filename) \in Seq(STRING) /\ Trimmed(item.ext) \in Seq(STRING)
  <2>1. PICK u \in 0 .. Len(item.filename) : Trimmed(item.filename) = SubSeq(item.filename, 1, u)
    BY <1>1, Blanks
  <2> QED BY <1>1, <1>6, <2>1
<1> DEFINE a == Trimmed(item.filename)
           b == Trimmed(item.ext)
<1>10. fat16_get_full_relative_filename(item) = IF b = <<>> THEN a ELSE a \o <<".">> \o b
  BY <1>4, <1>5, <1>8 DEF fat16_get_full_relative_filename, rest, tail
<1>11. Name(item) = a \o (IF b = <<>> THEN <<>> ELSE <<".">> \o b)
  BY DEF Name
<1> HIDE DEF a, b
<1>12. a \in Seq(STRING) /\ b \in Seq(STRING)
  BY <1>9 DEF a, b
<1>13. a \o <<>> = a
  BY <1>12
<1>14. a \o <<".">> \o b = a \o (<<".">> \o b)
  BY <1>12
<1> QED BY <1>10, <1>11, <1>13, <1>14

-----------------------------------------------------------------------------
(* The theorems.                                                           *)

(* Nothing is mounted or read at boot.                                     *)
LEMMA InvAtBoot == Fat16Init => Inv
<1> SUFFICES ASSUME Fat16Init PROVE Inv
  OBVIOUS
<1>1. /\ disk \in Disks /\ pos = [s \in Streams |-> 0] /\ call = NoCall
      /\ root = NotMounted /\ desc = Closed
      /\ job = [Idle EXCEPT !.pc = "boot", !.op = "mount"]
  BY DEF Fat16Init, StreamInit
<1>2. job \in Job /\ job.pc = "boot" /\ job.op = "mount" /\ job.n = 0
  BY <1>1, IdleTyped DEF Job, Idle
<1>3. NotMounted.header = [sectors_per_cluster |-> 0, reserved_sectors |-> 0, fat_copies |-> 0,
                           root_dir_entries |-> 0, sectors_per_fat |-> 0, signature |-> 0]
  BY DEF NotMounted, Header, HEADER
<1>4. RootTyped /\ ~Mounted
  BY <1>1, <1>3 DEF RootTyped, HeaderFields, Mounted, NotMounted
<1>5. StreamTypeOK /\ FlatRead
  BY <1>1, NoCallTyped DEF StreamTypeOK, FlatRead
<1>6. TypeOK
  <2>1. desc \in [item : DOMAIN Items, pos : Nat]
    BY <1>1, Fat16Assumption DEF Fat16Assumption, Closed
  <2> QED BY <1>2, <1>4, <1>5, <2>1 DEF TypeOK, RootTyped
<1>7. HeaderKnown /\ Phases /\ Walking
  BY <1>1, <1>2, <1>4 DEF HeaderKnown, Phases, Walking
<1>8. ReadOfJob
  BY <1>1, <1>2, NoCallTyped DEF ReadOfJob
<1>9. CountingRoot /\ RootKnown /\ Searching /\ Reading
  BY <1>2, <1>4 DEF CountingRoot, RootKnown, Searching, Reading
<1> QED BY <1>4, <1>5, <1>6, <1>7, <1>8, <1>9 DEF Inv

(* The invariant is inductive.                                             *)
LEMMA InvKept ==
  ASSUME Inv, [Fat16Next]_vars
  PROVE  Inv'
<1>1. CASE Fat16Next
  <2>1. TypeOK' /\ RootTyped' /\ HeaderKnown'
    BY <1>1, TypesKept
  <2>2. FlatRead'
    BY <1>1, StreamsKept DEF StreamInv
  <2>3. Phases' /\ Walking' /\ ReadOfJob'
    BY <1>1, PhasesKept, ReadOfJobKept
  <2>4. CountingRoot' /\ RootKnown' /\ Searching' /\ Reading'
    BY <1>1, CountingKept, RootKept, SearchKept, ReadingKept
  <2> QED BY <2>1, <2>2, <2>3, <2>4 DEF Inv
<1>2. CASE UNCHANGED vars
  <2>1. disk' = disk /\ pos' = pos /\ call' = call /\ root' = root /\ desc' = desc /\ job' = job
    BY <1>2 DEF vars
  <2>2. poll \/ Inv'
    <3>1. TypeOK' /\ FlatRead' /\ HeaderKnown' /\ RootTyped' /\ Phases' /\ Walking'
      BY <2>1 DEF Inv, TypeOK, StreamTypeOK, FlatRead, HeaderKnown, Mounted, RootTyped, Phases,
                  Walking
    <3>2. ReadOfJob'
      BY <2>1 DEF Inv, ReadOfJob, chunk, fat16_cluster_to_sector, ending_sector_pos,
                  size_of_cluster_bytes
    <3>3. RootCompact' = RootCompact /\ RootCells' = RootCells /\ RootEnds' = RootEnds
      BY <2>1, RootSameOnDisk
    <3>4. CountingRoot'
      BY <2>1, <3>3 DEF Inv, CountingRoot, Counted
    <3>5. RootKnown'
      BY <2>1, <3>3 DEF Inv, RootKnown, InArray, Mounted
    <3>6. Searching'
      <4>1. /\ Admissible(job.path, job.mode)' = Admissible(job.path, job.mode)
            /\ NamesakesUpTo(job.i)' = NamesakesUpTo(job.i)
            /\ NamesakesUpTo(root.total)' = NamesakesUpTo(root.total)
        BY <2>1 DEF Admissible, Mounted, NamesakesUpTo
      <4> QED BY <2>1, <4>1 DEF Inv, Searching, InArray
    <3>7. Reading'
      <4>1. InFirstCluster' = InFirstCluster /\ FirstCell' = FirstCell
        BY <2>1, AskedSame
      <4> QED BY <2>1, <4>1 DEF Inv, Reading
    <3> QED BY <3>1, <3>2, <3>4, <3>5, <3>6, <3>7 DEF Inv
  <2> QED BY <1>1, <2>2 DEF Fat16Next
<1> QED BY <1>1, <1>2

(* The invariant of the driver holds in every reachable state, for every   *)
(* disk, every set of paths and every size of a read (fat16.c, file.c).    *)
THEOREM Fat16Invariant == Fat16Spec => []Inv
<1>1. Fat16Init => Inv
  BY InvAtBoot
<1>2. Inv /\ [Fat16Next]_vars => Inv'
  BY InvKept
<1> QED BY <1>1, <1>2, PTL DEF Fat16Spec

(* The state of the driver keeps its types: the sizes and numbers of       *)
(* members and of clusters ahead that chunk_read and the walk count down   *)
(* never fall below zero, no stream moves before the disk, and the array   *)
(* of the root directory holds directory items.                            *)
THEOREM Fat16TypeOK == Fat16Spec => []TypeOK
<1>1. Inv => TypeOK
  BY DEF Inv
<1> QED BY <1>1, Fat16Invariant, PTL

(* Whatever the driver reads through its streams is the disk without its   *)
(* sectors (diskstreamer_read under fat16.c).                              *)
THEOREM Fat16FlatRead == Fat16Spec => []FlatRead
<1>1. Inv => FlatRead
  BY DEF Inv
<1> QED BY <1>1, Fat16Invariant, PTL

(* The chain of the table starts with the first cluster.                   *)
LEMMA ChainStart ==
  ASSUME NEW first
  PROVE  Chained(first, 0) = first
<1> DEFINE Next(g, k) == IF k = 0 THEN first
                         ELSE disk[root.header.reserved_sectors * SECTOR_SIZE + g[k - 1]]
           f == [k \in 0 .. 0 |-> first]
           next == CHOOSE g : g = [k \in 0 .. 0 |-> Next(g, k)]
<1>1. \A k \in 0 .. 0 : k = 0
  OBVIOUS
<1>2. \A g : \A k \in 0 .. 0 : Next(g, k) = first
  BY <1>1, Zenon
<1>3. f = [k \in 0 .. 0 |-> Next(f, k)]
  BY <1>2, Zenon
<1>4. next = [k \in 0 .. 0 |-> Next(next, k)]
  BY <1>3, Zenon
<1>5. 0 \in 0 .. 0
  OBVIOUS
<1>6. next[0] = first
  <2> HIDE DEF next, Next
  <2>1. next[0] = Next(next, 0)
    BY <1>4, <1>5, Zenon
  <2> QED BY <1>2, <1>5, <2>1, Zenon
<1>7. Chained(first, 0) = next[0]
  BY Zenon DEF Chained
<1> QED BY <1>6, <1>7

(* A read of cells of a file in its first cluster delivers those cells, in *)
(* order (fread, fat16_read, fat16_read_internal).                         *)
THEOREM Fat16ReadsTheFile == Fat16Spec => []ReadsTheFile
<1>1. ASSUME Inv PROVE ReadsTheFile
  <2>1. SUFFICES ASSUME job.op = "fread", job.pc = "done", InFirstCluster
                 PROVE  /\ job.ret = job.n
                        /\ job.out = [k \in 1 .. (job.size * job.n) |->
                                        disk[CellAt(Items[desc.item], desc.pos + k - 1)]]
    BY DEF ReadsTheFile
  <2>2. /\ job.ret = job.n /\ Len(job.out) = job.size * job.n
        /\ \A k \in 1 .. Len(job.out) : job.out[k] = disk[FirstCell + desc.pos + k - 1]
    BY <1>1, <2>1 DEF Inv, Reading
  <2>3. /\ job.out \in Seq(Nat) /\ desc.pos \in Nat /\ Items[desc.item].cluster \in Nat
        /\ TypeOK /\ HeaderKnown /\ RootTyped
    BY <1>1, ItemTyped DEF Inv, TypeOK, Job
  <2>4. Mounted
    BY <1>1, <2>1 DEF Inv, Phases
  <2> DEFINE amount == job.size * job.n
  <2>5. ASSUME NEW k \in 1 .. amount
        PROVE  job.out[k] = disk[CellAt(Items[desc.item], desc.pos + k - 1)]
    <3> DEFINE l == k - 1
    <3>1. amount \in Nat
      BY <2>2, <2>3
    <3> HIDE DEF amount
    <3>2. l \in Nat /\ l < amount /\ desc.pos + l = desc.pos + k - 1 /\ k \in Nat
      BY <2>3, <2>5, <3>1
    <3>3. /\ (desc.pos + l) \div size_of_cluster_bytes = 0
          /\ (desc.pos + l) % size_of_cluster_bytes = desc.pos + l
      BY <2>1, <2>3, <2>4, <3>2, OffsetInCluster DEF amount
    <3> DEFINE o == desc.pos + k - 1
    <3>4. o \div size_of_cluster_bytes = 0 /\ o % size_of_cluster_bytes = o
      BY <3>2, <3>3
    <3> HIDE DEF o, l
    <3>5. Chained(Items[desc.item].cluster, o \div size_of_cluster_bytes) = Items[desc.item].cluster
      BY <3>4, ChainStart
    <3>6. CellAt(Items[desc.item], o) = FirstCell + o
      BY <3>4, <3>5 DEF CellAt, FirstCell, fat16_cluster_to_sector
    <3>7. FirstCell \in Nat
      <4>1. fat16_cluster_to_sector(Items[desc.item].cluster) \in Nat
        BY <2>3, <2>4, Geometry
      <4> QED BY <4>1, SectorSize, Product DEF FirstCell
    <3>8. FirstCell + desc.pos + k - 1 = FirstCell + o
      BY <2>3, <3>2, <3>7 DEF o
    <3>9. job.out[k] = disk[FirstCell + desc.pos + k - 1]
      BY <2>2, <2>5 DEF amount
    <3> QED BY <3>6, <3>8, <3>9 DEF o
  <2>6. job.out = [k \in 1 .. amount |-> job.out[k]]
    BY <2>2, <2>3
  <2>7. job.out = [k \in 1 .. amount |-> disk[CellAt(Items[desc.item], desc.pos + k - 1)]]
    <3> HIDE DEF amount
    <3> QED BY <2>5, <2>6
  <2> QED BY <2>2, <2>7
<1> QED BY <1>1, Fat16Invariant, PTL

(* The path of a file names the drive and its directory (pathparser_parse).*)
LEMMA ParsedDrive ==
  ASSUME NEW path, pathparser_parse(path).parts # <<>>
  PROVE  pathparser_parse(path).drive_no = pathparser_get_drive_by_path(path)
<1>1. CASE Len(path) > MAX_PATH \/ ~pathparser_path_valid_format(path)
  <2>1. pathparser_parse(path) = NoPath
    BY <1>1, Zenon DEF pathparser_parse
  <2> QED BY <2>1 DEF NoPath
<1>2. CASE ~(Len(path) > MAX_PATH \/ ~pathparser_path_valid_format(path))
  BY <1>2 DEF pathparser_parse
<1> QED BY <1>1, <1>2

(* In a root directory that ends the count and has names ended by a blank, *)
(* fopen opens only files that the path names, whatever is deleted; where  *)
(* nothing is, it finds the file whenever it is there                      *)
(* (fopen, fat16_open, fat16_find_item_in_directory).                      *)
THEOREM Fat16OpensNamed == Fat16Spec => []OpensNamed
<1>1. ASSUME Inv PROVE OpensNamed
  <2>1. SUFFICES ASSUME job.op = "fopen", job.pc = "done", Mounted, RootEnds, RootReadable
                 PROVE  /\ job.ret # 0 => desc.item \in Named(job.parts[1])
                        /\ /\ RootCompact
                           /\ Len(job.parts) = 1
                           /\ pathparser_get_drive_by_path(job.path) = 0
                           /\ job.mode = "r"
                           => (job.ret = 0 <=> Named(job.parts[1]) = {})
    BY DEF OpensNamed
  <2>2. /\ root.item = RootCells
        /\ InArray
        /\ RootCompact => \A k \in DOMAIN RootCells : RootCells[k] # 0 => k <= root.total
        /\ RootTyped
    BY <1>1, <2>1 DEF Inv, RootKnown
  <2>3. ASSUME NEW k \in DOMAIN RootCells, RootCells[k] # 0
        PROVE  /\ RootCells[k] \in Range(RootCells) \ {0}
               /\ fat16_get_full_relative_filename(Items[RootCells[k]]) = Name(Items[RootCells[k]])
    <3> DEFINE c == RootCells[k]
    <3>1. c \in Range(RootCells) \ {0}
      BY <2>3, Zenon DEF Range
    <3>2. c \in DOMAIN Items
      <4>1. root.item \in Seq(DOMAIN Items)
        BY <2>2 DEF RootTyped
      <4> QED BY <2>2, <4>1
    <3>3. Padded(Items[c].filename) /\ Padded(Items[c].ext) /\ EndedByBlank(Items[c])
      BY <2>1, <3>1, Zenon DEF RootReadable
    <3>4. Items[c] \in DirectoryItem /\ Items[c].filename # <<>> /\ Items[c].ext # <<>>
      BY <3>2, Fat16Assumption DEF Fat16Assumption
    <3>5. NUL \in STRING
      <4>1. /\ Items[0] \in DirectoryItem /\ Items[0].filename # <<>>
            /\ Items[0].filename[1] = NUL
        BY Fat16Assumption DEF Fat16Assumption
      <4>2. Items[0].filename \in Seq(STRING)
        BY <4>1 DEF DirectoryItem
      <4> QED BY <4>1, <4>2
    <3> HIDE DEF c
    <3>6. fat16_get_full_relative_filename(Items[c]) = Name(Items[c])
      BY <3>3, <3>4, <3>5, FullName
    <3> QED BY <3>1, <3>6 DEF c
  <2>4. ASSUME NEW k \in NamesakesUpTo(root.total), root.item[k] # 0
        PROVE  root.item[k] \in Named(job.parts[1])
    <3>1. /\ k \in DOMAIN RootCells
          /\ istrncmp(fat16_get_full_relative_filename(Items[RootCells[k]]), job.parts[1])
      BY <2>2, <2>4 DEF NamesakesUpTo
    <3>2. istrncmp(Name(Items[RootCells[k]]), job.parts[1]) /\ RootCells[k] \in Range(RootCells) \ {0}
      BY <2>2, <2>3, <2>4, <3>1
    <3> QED BY <2>2, <3>2 DEF Named, istrncmp
  <2>5. ASSUME RootCompact, NEW c \in Named(job.parts[1])
        PROVE  NamesakesUpTo(root.total) # {}
    <3>1. c \in Range(RootCells) \ {0} /\ istrncmp(Name(Items[c]), job.parts[1])
      BY DEF Named, istrncmp
    <3>2. PICK k \in DOMAIN RootCells : c = RootCells[k]
      BY <3>1, Zenon DEF Range
    <3>3. istrncmp(fat16_get_full_relative_filename(Items[root.item[k]]), job.parts[1])
      BY <2>2, <2>3, <3>1, <3>2
    <3>4. k \in NamesakesUpTo(root.total)
      BY <2>2, <2>5, <3>1, <3>2, <3>3 DEF NamesakesUpTo
    <3> QED BY <3>4
  <2>6. job.ret # 0 => desc.item \in Named(job.parts[1])
    BY <1>1, <2>1, <2>2, <2>4 DEF Inv, Searching
  <2>7. ASSUME RootCompact, Len(job.parts) = 1, pathparser_get_drive_by_path(job.path) = 0, job.mode = "r",
               job.ret = 0
        PROVE  Named(job.parts[1]) = {}
    <3>1. job.parts = pathparser_parse(job.path).parts /\ job.parts # <<>>
      <4>1. job.parts = pathparser_parse(job.path).parts
        BY <1>1, <2>1, <2>7 DEF Inv, Searching
      <4>2. Len(<<>>) # 1
        OBVIOUS
      <4>3. job.parts # <<>>
        BY <2>7, <4>2, Zenon
      <4> QED BY <4>1, <4>3
    <3>2. pathparser_parse(job.path).drive_no = 0
      BY <2>7, <3>1, ParsedDrive
    <3>3. Admissible(job.path, job.mode)
      BY <2>1, <2>7, <3>1, <3>2 DEF Admissible
    <3>4. NamesakesUpTo(root.total) = {}
      BY <1>1, <2>1, <2>7, <3>3 DEF Inv, Searching
    <3> QED BY <2>5, <2>7, <3>4
  <2> QED BY <2>6, <2>7
<1> QED BY <1>1, Fat16Invariant, PTL

(* For every path, what the parser hands to fopen is the path cut at its   *)
(* slashes, up to the first gap, or nothing.                               *)
THEOREM Fat16PathParsed == Fat16Spec => []PathParsed
<1>1. ASSUME Inv, job.op = "fopen"
      PROVE  IF Len(job.path) > MAX_PATH \/ ~pathparser_path_valid_format(job.path)
             THEN job.parts = <<>>
             ELSE LeadingComponents(job.path, 4, job.parts)
  <2>1. job.parts = pathparser_parse(job.path).parts /\ job.path \in Seq(STRING)
    BY <1>1 DEF Inv, Searching, TypeOK, Job
  <2>2. CASE Len(job.path) > MAX_PATH \/ ~pathparser_path_valid_format(job.path)
    <3>1. pathparser_parse(job.path) = NoPath
      BY <2>2, Zenon DEF pathparser_parse
    <3> QED BY <2>1, <2>2, <3>1 DEF NoPath
  <2>3. CASE ~(Len(job.path) > MAX_PATH \/ ~pathparser_path_valid_format(job.path))
    BY <2>1, <2>3, ParsedComponents
  <2> QED BY <2>2, <2>3
<1>2. Inv => PathParsed
  BY <1>1 DEF PathParsed
<1> QED BY <1>2, Fat16Invariant, PTL

=============================================================================
