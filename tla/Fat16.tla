------------------------------- MODULE Fat16 --------------------------------
(***************************************************************************)
(* The FAT16 driver (src/fs/fat/fat16.c) between fopen and fread           *)
(* (src/fs/file.c) and the disk streams: the mount, the search of a path,  *)
(* the walk along the file allocation table and the reads cluster by       *)
(* cluster.  One call runs at a time; a step of it is a read of the disk   *)
(* or what the driver does between two reads.                              *)
(*                                                                         *)
(* A cell of the disk holds one number of the header, one entry of a FAT,  *)
(* one directory item (by its number in Items) or one unit of data, so the *)
(* sizes the code multiplies by count one.  Memory never runs out here;    *)
(* the table of descriptors is module FileTable's, and one file is open at *)
(* a time.                                                                 *)
(***************************************************************************)
EXTENDS DiskStreamer, PathParser

CONSTANTS
  Items,         \* cell -> directory item; 0 is the blank one
  Stray,         \* the items that other memory may be taken for
  NUL, SPACE,    \* '\0' and ' ', the byte of FAT_FILE_ARCHIVED too
  DELETED,       \* 0xe5
  DIRECTORY,     \* an attribute byte with FAT_FILE_SUBDIRECTORY
  LowerCase,     \* capital letter -> small letter
  Paths, Modes,  \* what fopen is called with
  Sizes, Counts  \* what fread is called with

HEADER == 6  \* the fields below
Header(cells) ==
  [sectors_per_cluster |-> cells[1], reserved_sectors |-> cells[2],
   fat_copies |-> cells[3], root_dir_entries |-> cells[4],
   sectors_per_fat |-> cells[5], signature |-> cells[6]]

RootSector(h) == h.fat_copies * h.sectors_per_fat + h.reserved_sectors

DirectoryItem ==
  [filename : Seq(STRING), ext : Seq(STRING), attribute : STRING,
   cluster : Nat, filesize : Nat]

(* A disk with the signature has clusters, places them behind two clusters *)
(* (tables and directory of boot.asm take 716 sectors, two clusters 256;   *)
(* cluster 0 would lie before the disk otherwise), and has directory items *)
(* where the root directory is; of those that begin with '\0' only the     *)
(* blank one.                                                              *)
HeaderOf(d) == Header([i \in 1 .. HEADER |-> d[i - 1]])
Formatted(d) ==
  LET h == HeaderOf(d)
      first == RootSector(h) * SECTOR_SIZE
  IN  h.signature = 41 =>
        /\ h.sectors_per_cluster > 0
        /\ 2 * h.sectors_per_cluster <= RootSector(h) + h.root_dir_entries \div SECTOR_SIZE
        /\ \A c \in DOMAIN d :
             /\ first <= c /\ c < first + h.root_dir_entries => d[c] \in DOMAIN Items
             /\ d[c] \in DOMAIN Items /\ Items[d[c]].filename[1] = NUL => d[c] = 0

ASSUME Fat16Assumption ==
  /\ Streams = {"header", "directory", "fat", "cluster"}
  /\ \A d \in Disks : Formatted(d)
  /\ 0 \in DOMAIN Items
  /\ \A c \in DOMAIN Items :
       /\ Items[c] \in DirectoryItem
       /\ Items[c].filename # <<>> /\ Items[c].ext # <<>>
  /\ Items[0].filename[1] = NUL
  /\ Stray \subseteq DOMAIN Items \ {0}
  /\ NUL # SPACE
  /\ Paths \subseteq Seq(STRING)
  /\ Sizes \subseteq Nat \ {0}
  /\ Counts \subseteq Nat \ {0}
  /\ "r" \in Modes

VARIABLES
  root,  \* the header and the root directory, once they are read
  desc,  \* the open file: directory item (0 when there is none) and position
  job    \* the call that runs

vars == <<disk, pos, call, root, desc, job>>

EIO == 1

NotMounted == [header |-> Header([i \in 1 .. HEADER |-> 0]), item |-> <<>>, total |-> 0]
Closed == [item |-> 0, pos |-> 0]

Idle ==
  [pc |-> "idle", op |-> "none", path |-> <<>>, mode |-> "r", parts |-> <<>>,
   i |-> 0, found |-> 0, n |-> 0,
   first |-> 0, offset |-> 0, size |-> 0, total |-> 0, members |-> 0,
   ahead |-> 0, cluster |-> 0, out |-> <<>>, ret |-> 0]

Job ==
  [pc : {"boot", "header", "count", "item", "load", "loaded", "find",
         "read", "walk", "entry", "seek", "data", "done", "idle"},
   op : {"none", "mount", "fopen", "fread"},
   path : Seq(STRING), mode : Modes, parts : Seq(Seq(STRING)),
   i : Nat, found : DOMAIN Items, n : Nat,
   first : Nat, offset : Nat, size : Nat, total : Nat, members : Nat,
   ahead : Nat, cluster : Nat, out : Seq(Nat), ret : Int]

Fat16Init ==
  /\ StreamInit
  /\ root = NotMounted
  /\ desc = Closed
  /\ job = [Idle EXCEPT !.pc = "boot", !.op = "mount"]

-----------------------------------------------------------------------------
(* Geometry.                                                               *)

ending_sector_pos ==
  RootSector(root.header) + root.header.root_dir_entries \div SECTOR_SIZE

size_of_cluster_bytes == root.header.sectors_per_cluster * SECTOR_SIZE

(* Fault: the clusters are counted from 0.                                 *)
Fault_ClusterFromZero(cluster) ==
  ending_sector_pos + cluster * root.header.sectors_per_cluster

fat16_cluster_to_sector(cluster) ==
  ending_sector_pos + (cluster - 2) * root.header.sectors_per_cluster

-----------------------------------------------------------------------------
(* Mounting.                                                               *)

Mounted == root.header.signature = 41

fat16_resolve ==
  /\ job.pc = "boot"
  /\ seek_and_read("header", 0, HEADER)
  /\ job' = [job EXCEPT !.pc = "header"]
  /\ UNCHANGED <<root, desc>>

(* The items of a directory are counted from its first sector on, one read *)
(* each.                                                                   *)
count_from(sector) ==
  /\ pos' = [pos EXCEPT !["directory"] = sector * SECTOR_SIZE]
  /\ UNCHANGED disk

(* Without the signature the disk gets no file system.                     *)
fat16_get_root_directory ==
  LET h == Header(call.out)
  IN  /\ job.pc = "header"
      /\ read_returns
      /\ \/ /\ h.signature # 41
            /\ job' = Idle
            /\ UNCHANGED <<disk, pos, root>>
         \/ /\ h.signature = 41
            /\ root' = [root EXCEPT !.header = h]
            /\ count_from(RootSector(h))
            /\ job' = [job EXCEPT !.pc = "count"]
      /\ UNCHANGED desc

read_item ==
  /\ job.pc = "count"
  /\ diskstreamer_read("directory", pos["directory"], 1)
  /\ job' = [job EXCEPT !.pc = "item"]
  /\ UNCHANGED <<disk, pos, root, desc>>

deleted(cell) == cell \in DOMAIN Items /\ Items[cell].filename[1] = DELETED

(* A blank item ends the directory, nothing else does.                     *)
fat16_get_total_items_for_directory ==
  LET cell == call.out[1]
  IN  /\ job.pc = "item"
      /\ read_returns
      /\ \/ /\ cell = 0
            /\ job' = [job EXCEPT !.pc = "load"]
         \/ /\ cell # 0
            /\ job' = [job EXCEPT !.pc = "count", !.n = IF deleted(cell) THEN @ ELSE @ + 1]
      /\ UNCHANGED <<disk, pos, root, desc>>

load_root ==
  /\ job.op = "mount"
  /\ job.pc = "load"
  /\ seek_and_read("directory", RootSector(root.header) * SECTOR_SIZE,
                   root.header.root_dir_entries)
  /\ job' = [job EXCEPT !.pc = "loaded"]
  /\ UNCHANGED <<root, desc>>

root_loaded ==
  /\ job.pc = "loaded"
  /\ read_returns
  /\ root' = [root EXCEPT !.item = call.out, !.total = job.n]
  /\ job' = Idle
  /\ UNCHANGED <<disk, pos, desc>>

-----------------------------------------------------------------------------
(* Opening.                                                                *)

(* What a path has to offer before the file system is asked.               *)
Admissible(path, mode) ==
  LET p == pathparser_parse(path)
  IN  p.parts # <<>> /\ p.drive_no = 0 /\ Mounted /\ mode = "r"

fopen(path, mode) ==
  /\ job.pc = "idle"
  /\ desc = Closed
  /\ job' = [job EXCEPT !.op = "fopen", !.path = path, !.mode = mode,
                        !.parts = pathparser_parse(path).parts,
                        !.pc = IF Admissible(path, mode) THEN "find" ELSE "done"]
  /\ UNCHANGED <<disk, pos, call, root, desc>>

(* The bytes up to a blank or '\0', across the end of the field.           *)
fat16_to_proper_string(in) ==
  SubSeq(in, 1, Min({k \in DOMAIN in : in[k] \in {NUL, SPACE}}) - 1)

fat16_get_full_relative_filename(item) ==
  LET rest == item.ext \o <<item.attribute, NUL>>
      stem == fat16_to_proper_string(item.filename \o rest)
  IN  IF item.ext[1] \in {NUL, SPACE} THEN stem
      ELSE stem \o <<".">> \o fat16_to_proper_string(rest)

tolower(c) == IF c \in DOMAIN LowerCase THEN LowerCase[c] ELSE c
Lower(s) == [k \in DOMAIN s |-> tolower(s[k])]

(* Fault: the comparison ends with the shorter string.                     *)
Fault_PrefixMatches(s1, s2) ==
  IsPrefix(Lower(s1), Lower(s2)) \/ IsPrefix(Lower(s2), Lower(s1))

istrncmp(s1, s2) == Lower(s1) = Lower(s2)

(* The entries of the array behind job.i that bear the name.               *)
Matches ==
  {k \in DOMAIN root.item :
     /\ job.i < k
     /\ k <= root.total
     /\ istrncmp(fat16_get_full_relative_filename(Items[root.item[k]]), job.parts[1])}

(* The search covers as many entries as the count gave, also those that    *)
(* the array does not have.                                                *)
BehindArray == {k \in 1 .. root.total : job.i < k /\ Len(root.item) < k}

(* Entry k becomes the item found, in place of the one before: seen is     *)
(* what the entry is when its kind and its cluster are looked at, copy     *)
(* what it is when it is copied.  A subdirectory is loaded and forgotten:  *)
(* its item becomes one of type FILE.                                      *)
fat16_new_fat_item(k, seen, copy) ==
  \/ /\ Items[seen].attribute = DIRECTORY
     /\ count_from(fat16_cluster_to_sector(Items[seen].cluster))
     /\ job' = [job EXCEPT !.i = k, !.found = copy, !.first = Items[seen].cluster,
                           !.n = 0, !.pc = "count"]
  \/ /\ Items[seen].attribute # DIRECTORY
     /\ job' = [job EXCEPT !.i = k, !.found = copy]
     /\ UNCHANGED <<disk, pos>>

fat16_find_item_in_directory ==
  LET k == Min(Matches)
  IN  /\ job.pc = "find"
      /\ Matches # {}
      /\ fat16_new_fat_item(k, root.item[k], root.item[k])
      /\ UNCHANGED <<call, root, desc>>

(* Behind the array lies memory of the heap, where a name may be read, and *)
(* which the allocations between comparison, looks and copy may change.    *)
fat16_find_item_behind_directory ==
  /\ job.pc = "find"
  /\ Matches = {}
  /\ \E k \in BehindArray, seen, copy \in Stray : fat16_new_fat_item(k, seen, copy)
  /\ UNCHANGED <<call, root, desc>>

fat16_load_fat_directory ==
  /\ job.op = "fopen"
  /\ job.pc = "load"
  /\ job' = [job EXCEPT !.pc = "read", !.offset = 0, !.size = job.n, !.members = 1]
  /\ UNCHANGED <<disk, pos, call, root, desc>>

(* No item is of type DIRECTORY, so a path of several parts leads nowhere. *)
(* What lies behind the array may also bear no name.                       *)
fat16_open ==
  /\ job.pc = "find"
  /\ Matches = {}
  /\ \/ /\ job.found # 0
        /\ Len(job.parts) = 1
        /\ desc' = [item |-> job.found, pos |-> 0]
        /\ job' = [job EXCEPT !.pc = "done", !.ret = 1]
     \/ /\ job.found = 0 \/ Len(job.parts) > 1
        /\ job' = [job EXCEPT !.pc = "done"]
        /\ UNCHANGED desc
  /\ UNCHANGED <<disk, pos, call, root>>

fclose ==
  /\ job.pc = "idle"
  /\ desc # Closed
  /\ desc' = Closed
  /\ UNCHANGED <<disk, pos, call, root, job>>

-----------------------------------------------------------------------------
(* Reading.                                                                *)

(* SEEK_SET; module FileTable has the other ways.                          *)
fseek(offset) ==
  /\ job.pc = "idle"
  /\ desc # Closed
  /\ offset < Items[desc.item].filesize
  /\ desc' = [desc EXCEPT !.pos = offset]
  /\ UNCHANGED <<disk, pos, call, root, job>>

(* The position of the descriptor stays where it is, and the size of the   *)
(* file is not looked at.                                                  *)
fread(size, nmemb) ==
  /\ job.pc = "idle"
  /\ desc # Closed
  /\ job' = [job EXCEPT !.op = "fread", !.pc = "read",
                        !.first = Items[desc.item].cluster, !.offset = desc.pos,
                        !.size = size, !.members = nmemb, !.n = nmemb]
  /\ UNCHANGED <<disk, pos, call, root, desc>>

fat16_read_internal ==
  /\ job.pc = "read"
  /\ job' = [job EXCEPT !.pc = "walk", !.total = job.size, !.cluster = job.first,
                        !.ahead = job.offset \div size_of_cluster_bytes]
  /\ UNCHANGED <<disk, pos, call, root, desc>>

(* The place of the table times the cluster, where their sum is meant.     *)
fat16_get_fat_entry ==
  /\ job.pc = "walk"
  /\ job.ahead > 0
  /\ seek_and_read("fat", root.header.reserved_sectors * SECTOR_SIZE * job.cluster, 1)
  /\ job' = [job EXCEPT !.pc = "entry"]
  /\ UNCHANGED <<root, desc>>

(* End, bad and reserved marks: those of FAT12.                            *)
Marks == {\hff8, \hfff, \hff7, \hff0, \hff6, 0}

(* fread fails; fopen goes on without the directory it wanted to load.     *)
Abandon ==
  IF job.op = "fopen" THEN [job EXCEPT !.pc = "find"]
  ELSE [job EXCEPT !.pc = "done", !.ret = -EIO]

fat16_get_cluster_for_offset ==
  LET entry == call.out[1]
  IN  /\ job.pc = "entry"
      /\ read_returns
      /\ \/ entry \in Marks /\ job' = Abandon
         \/ entry \notin Marks
            /\ job' = [job EXCEPT !.pc = "walk", !.cluster = entry, !.ahead = @ - 1]
      /\ UNCHANGED <<disk, pos, root, desc>>

(* Fault: a cluster is read whatever is asked for.                         *)
Fault_WholeCluster == size_of_cluster_bytes

(* At most a cluster, wherever in the cluster it starts.                   *)
chunk == Min({job.total, size_of_cluster_bytes})

fat16_read_internal_from_stream ==
  /\ job.pc = "walk"
  /\ job.ahead = 0
  /\ seek_and_read("cluster",
                   fat16_cluster_to_sector(job.cluster) * SECTOR_SIZE
                     + (job.offset % size_of_cluster_bytes),
                   chunk)
  /\ job' = [job EXCEPT !.pc = "data"]
  /\ UNCHANGED <<root, desc>>

(* Fault: the recursion goes on with nothing left to read.                 *)
Fault_ReadsNothing(total) == total >= 0

(* Every chunk but the last is followed by a walk from the first cluster.  *)
more_to_read(total) == total > 0

chunk_read ==
  LET total == job.total - chunk
      offset == job.offset + chunk
      then == [job EXCEPT !.out = @ \o call.out, !.offset = offset, !.total = total,
                          !.cluster = job.first,
                          !.ahead = offset \div size_of_cluster_bytes]
  IN  /\ job.pc = "data"
      /\ read_returns
      /\ \/ /\ more_to_read(total)
            /\ job' = [then EXCEPT !.pc = "walk"]
         \/ /\ ~more_to_read(total)
            /\ job.members > 1
            /\ job' = [then EXCEPT !.pc = "read", !.members = @ - 1]
         \/ /\ ~more_to_read(total)
            /\ job.members = 1
            /\ job' = IF job.op = "fopen"
                      THEN [job EXCEPT !.pc = "find"]
                      ELSE [then EXCEPT !.pc = "done", !.members = 0, !.ret = job.n]
      /\ UNCHANGED <<disk, pos, root, desc>>

(* The caller has the answer.                                              *)
call_returns ==
  /\ job.pc = "done"
  /\ job' = Idle
  /\ UNCHANGED <<disk, pos, call, root, desc>>

-----------------------------------------------------------------------------

stream_step == read_sector /\ UNCHANGED <<root, desc, job>>

(* disk_read_sector waits for a sector that never comes.                   *)
poll ==
  /\ call.state = "reading"
  /\ ~OnDisk(pos[call.stream] \div SECTOR_SIZE)
  /\ UNCHANGED vars

Driver ==
  \/ stream_step
  \/ fat16_resolve
  \/ fat16_get_root_directory
  \/ read_item
  \/ fat16_get_total_items_for_directory
  \/ load_root
  \/ root_loaded
  \/ fat16_find_item_in_directory
  \/ fat16_find_item_behind_directory
  \/ fat16_load_fat_directory
  \/ fat16_open
  \/ fat16_read_internal
  \/ fat16_get_fat_entry
  \/ fat16_get_cluster_for_offset
  \/ fat16_read_internal_from_stream
  \/ chunk_read

Fat16Next ==
  \/ Driver
  \/ poll
  \/ call_returns
  \/ \E path \in Paths, mode \in Modes : fopen(path, mode)
  \/ \E size \in Sizes, nmemb \in Counts : fread(size, nmemb)
  \/ \E offset \in 0 .. Items[desc.item].filesize : fseek(offset)
  \/ fclose

Fat16Spec == Fat16Init /\ [][Fat16Next]_vars /\ WF_vars(Driver)

-----------------------------------------------------------------------------
(* The file system by its meaning.                                         *)

(* The cluster behind ahead others in the chain that starts at first.      *)
Chained(first, ahead) ==
  LET next[k \in 0 .. ahead] ==
        IF k = 0 THEN first
        ELSE disk[root.header.reserved_sectors * SECTOR_SIZE + next[k - 1]]
  IN  next[ahead]

(* Where the cell of a file at an offset lies on the disk.                 *)
CellAt(item, offset) ==
  (ending_sector_pos
     + (Chained(item.cluster, offset \div size_of_cluster_bytes) - 2)
         * root.header.sectors_per_cluster) * SECTOR_SIZE
  + (offset % size_of_cluster_bytes)

(* A field without the blanks that fill it up, and the name of an item.    *)
Trimmed(field) ==
  SubSeq(field, 1, Max({0} \cup {k \in DOMAIN field : field[k] # SPACE}))
Name(item) ==
  Trimmed(item.filename)
    \o IF Trimmed(item.ext) = <<>> THEN <<>> ELSE <<".">> \o Trimmed(item.ext)

(* Blanks are at the end of a field only.                                  *)
Padded(field) ==
  \A k \in DOMAIN field :
    /\ field[k] # NUL
    /\ field[k] = SPACE => \A j \in k .. Len(field) : field[j] = SPACE

(* A field that is full is ended by what follows it: the extension, and    *)
(* the attribute.                                                          *)
EndedByBlank(item) ==
  /\ SPACE \in Range(item.filename) \/ item.ext[1] = SPACE
  /\ SPACE \in Range(item.ext) \/ item.attribute = SPACE

(* The items of the root directory, as they lie on the disk.               *)
RootCells ==
  [k \in 1 .. root.header.root_dir_entries |->
     disk[RootSector(root.header) * SECTOR_SIZE + k - 1]]

(* A blank item in the root directory, or right behind a full one, ends    *)
(* the count.                                                              *)
RootEnds ==
  \E k \in 1 .. (root.header.root_dir_entries + 1) :
    LET c == RootSector(root.header) * SECTOR_SIZE + k - 1
    IN  c \in DOMAIN disk /\ disk[c] = 0

(* Names are ended by a blank.                                             *)
RootReadable ==
  \A c \in Range(RootCells) \ {0} :
    Padded(Items[c].filename) /\ Padded(Items[c].ext) /\ EndedByBlank(Items[c])

(* No deleted items, and none behind the item that ends the directory.     *)
RootCompact ==
  /\ \A c \in Range(RootCells) : ~deleted(c)
  /\ \A j, k \in DOMAIN RootCells : j < k /\ RootCells[j] = 0 => RootCells[k] = 0

Named(name) ==
  {c \in Range(RootCells) \ {0} : Lower(Name(Items[c])) = Lower(name)}

-----------------------------------------------------------------------------

TypeOK ==
  /\ StreamTypeOK
  /\ root.item \in Seq(DOMAIN Items)
  /\ root.total \in Nat
  /\ desc \in [item : DOMAIN Items, pos : Nat]
  /\ job \in Job

(* The parser yields what lies between the slashes, up to the first gap    *)
(* between two of them, and nothing from a path without a drive or too     *)
(* long for the kernel.                                                    *)
PathParsed ==
  job.op = "fopen" =>
    IF Len(job.path) > MAX_PATH \/ ~pathparser_path_valid_format(job.path)
    THEN job.parts = <<>>
    ELSE LeadingComponents(job.path, 4, job.parts)

(* fopen opens what the path names.  Where the count of the root directory *)
(* ends with the directory and names end with a blank, what it opens bears *)
(* the name, whatever was deleted; and if nothing was, it finds whatever   *)
(* is there under a path of one component.                                 *)
OpensNamed ==
  job.op = "fopen" /\ job.pc = "done" /\ Mounted /\ RootEnds /\ RootReadable =>
    /\ job.ret # 0 => desc.item \in Named(job.parts[1])
    /\ /\ RootCompact
       /\ Len(job.parts) = 1
       /\ pathparser_get_drive_by_path(job.path) = 0
       /\ job.mode = "r"
       => (job.ret = 0 <=> Named(job.parts[1]) = {})

(* The offsets of the file that a read covers.                             *)
Asked == {desc.pos + k - 1 : k \in 1 .. (job.size * job.n)}

(* The read stays in the first cluster of the file.                        *)
InFirstCluster == \A o \in Asked : o < size_of_cluster_bytes

(* A read of cells of a file that lie in its first cluster delivers those  *)
(* cells, in order and member by member, from the place the position of    *)
(* the descriptor says.                                                    *)
ReadsTheFile ==
  /\ job.op = "fread"
  /\ job.pc = "done"
  /\ InFirstCluster
  /\ \A o \in Asked : o < Items[desc.item].filesize
  => /\ job.ret = job.n
     /\ job.out = [k \in 1 .. (job.size * job.n) |->
                     disk[CellAt(Items[desc.item], desc.pos + k - 1)]]

(* "get correct cluster to use based on starting cluster and the offset"   *)
(* (fat16.c:390): before data is read, the cluster is the one the chain of *)
(* the file allocation table leads to.                                     *)
CorrectCluster ==
  /\ job.op = "fread"
  /\ job.pc = "data"
  /\ job.offset < Items[desc.item].filesize
  => job.cluster = Chained(job.first, job.offset \div size_of_cluster_bytes)

(* What can be served: a directory with a blank item that is not in the    *)
(* last cell of the disk, and a read in the first cluster that ends before *)
(* the end of the disk.                                                    *)
EndsOnDisk(cell) ==
  \E c \in DOMAIN disk : cell <= c /\ disk[c] = 0 /\ c + 1 \in DOMAIN disk

Served ==
  \/ /\ job.pc = "count"
     /\ job.op = "mount"
     /\ EndsOnDisk(RootSector(root.header) * SECTOR_SIZE)
  \/ /\ job.op = "fread"
     /\ InFirstCluster
     /\ CellAt(Items[desc.item], 0) + desc.pos + job.size * job.n \in DOMAIN disk

(* The mount and the reads that can be served return: no walk, recursion   *)
(* or wait for a sector goes on for ever.                                  *)
CallsReturn == Served ~> job.pc \in {"done", "idle"}

=============================================================================
