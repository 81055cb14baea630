----------------------------- MODULE FileTable -----------------------------
(***************************************************************************)
(* The descriptor table (src/fs/file.c) and the file descriptors of the    *)
(* FAT16 driver behind it (open, close, seek, stat and the position part   *)
(* of read in src/fs/fat/fat16.c).  Descriptor structures and the driver's *)
(* private structures are identities that kzalloc hands out and kfree      *)
(* takes back, so that a structure that is freed can be reused by the next *)
(* open.  What a path resolves to and what a file holds are abstracted: a  *)
(* path is a file or is not found, a file is its size.                     *)
(***************************************************************************)
EXTENDS Integers, FiniteSetsExt

CONSTANTS
  Files,                 \* the files of the disk
  FileSize,              \* their sizes
  MAX_FILE_DESCRIPTORS,  \* PEACHOS_MAX_FILE_DESCRIPTORS
  Descs,                 \* memory for struct file_descriptor
  Privates,              \* memory for struct fat_file_descriptor
  NULL,
  MaxPos                 \* bound: the largest position explored

ASSUME FileTableAssumption ==
  /\ MAX_FILE_DESCRIPTORS \in Nat \ {0}
  /\ FileSize \in [Files -> Nat]
  /\ NULL \notin Descs \cup Privates \cup Files
  /\ MaxPos \in Nat

VARIABLES
  file_descriptors,  \* the table, indexed from 0
  desc,              \* contents of the descriptors that are allocated
  private,           \* contents of the private structures that are allocated
  result             \* what the last call returned

vars == <<file_descriptors, desc, private, result>>

Indexes == 0 .. (MAX_FILE_DESCRIPTORS - 1)
Fds == -1 .. (MAX_FILE_DESCRIPTORS + 1)

EIO == 1
EINVARG == 2
ENOMEM == 3
EUNIMP == 7

TypeOK ==
  /\ file_descriptors \in [Indexes -> Descs \cup {NULL}]
  /\ DOMAIN desc \subseteq Descs
  /\ \A d \in DOMAIN desc :
       desc[d] \in [index : 1 .. MAX_FILE_DESCRIPTORS, private : Privates]
  /\ DOMAIN private \subseteq Privates
  /\ \A x \in DOMAIN private : private[x] \in [item : Files \cup {NULL}, pos : 0 .. MaxPos]
  /\ result \in (-EUNIMP) .. MAX_FILE_DESCRIPTORS

fs_init ==
  /\ file_descriptors = [i \in Indexes |-> NULL]
  /\ desc = [d \in {} |-> NULL]
  /\ private = [x \in {} |-> NULL]
  /\ result = 0

With(f, x, v) == [y \in DOMAIN f \cup {x} |-> IF y = x THEN v ELSE f[y]]
Without(f, x) == [y \in DOMAIN f \ {x} |-> f[y]]

-----------------------------------------------------------------------------

(* Fault: the slot after the last one in use.                              *)
Fault_SlotAfterLast ==
  LET used == {i \in Indexes : file_descriptors[i] # NULL}
  IN  {i \in Indexes : i = Cardinality(used)}

(* Fault: the search runs to i <= MAX_FILE_DESCRIPTORS.                    *)
Fault_OnePastTable ==
  LET free == {i \in Indexes : file_descriptors[i] = NULL}
  IN  IF free = {} THEN {MAX_FILE_DESCRIPTORS} ELSE {Min(free)}

(* The slot file_new_descriptor takes: the lowest free one, if any.        *)
file_new_descriptor ==
  LET free == {i \in Indexes : file_descriptors[i] = NULL}
  IN  IF free = {} THEN {} ELSE {Min(free)}

(* fopen refuses before the driver keeps anything: bad path, no disk,      *)
(* unknown mode, a mode other than read, or no memory in fat16_open.       *)
fopen_refused ==
  /\ result' = 0
  /\ UNCHANGED <<file_descriptors, desc, private>>

(* The path is not found: fat16_open returns without freeing the private   *)
(* structure it allocated, which stays allocated for good.                 *)
fopen_not_found(x) ==
  /\ x \in Privates \ DOMAIN private
  /\ private' = With(private, x, [item |-> NULL, pos |-> 0])
  /\ result' = 0
  /\ UNCHANGED <<file_descriptors, desc>>

(* The table is full: the driver opened the file, and it stays open with   *)
(* no descriptor.                                                          *)
fopen_table_full(file, x) ==
  /\ x \in Privates \ DOMAIN private
  /\ file_new_descriptor = {}
  /\ private' = With(private, x, [item |-> file, pos |-> 0])
  /\ result' = 0
  /\ UNCHANGED <<file_descriptors, desc>>

(* kzalloc of the descriptor fails and is not checked: the fields are      *)
(* written and read back through address 0, which is mapped, the table     *)
(* entry stays null, and the caller gets a number that denotes no file.    *)
fopen_null_descriptor(file, x) ==
  /\ x \in Privates \ DOMAIN private
  /\ \E i \in file_new_descriptor : result' = i + 1
  /\ private' = With(private, x, [item |-> file, pos |-> 0])
  /\ UNCHANGED <<file_descriptors, desc>>

fopen(file, d, x) ==
  /\ d \in Descs \ DOMAIN desc
  /\ x \in Privates \ DOMAIN private
  /\ \E i \in file_new_descriptor :
       /\ private' = With(private, x, [item |-> file, pos |-> 0])
       /\ desc' = With(desc, d, [index |-> i + 1, private |-> x])
       /\ file_descriptors' = [file_descriptors EXCEPT ![i] = d]
       /\ result' = i + 1

(* The last descriptor number, MAX_FILE_DESCRIPTORS itself, is refused.    *)
file_get_descriptor(fd) ==
  IF fd <= 0 \/ fd >= MAX_FILE_DESCRIPTORS THEN NULL ELSE file_descriptors[fd - 1]

(* Fault: the table keeps the descriptor that is freed.                    *)
Fault_EntryKept(d) ==
  /\ desc' = Without(desc, d)
  /\ UNCHANGED file_descriptors

file_free_descriptor(d) ==
  /\ file_descriptors' = [file_descriptors EXCEPT ![desc[d].index - 1] = NULL]
  /\ desc' = Without(desc, d)

fclose(fd) ==
  LET d == file_get_descriptor(fd)
  IN  /\ d # NULL
      /\ private' = Without(private, desc[d].private)
      /\ file_free_descriptor(d)
      /\ result' = 0

(* fstat, fclose, fseek and fread of a number that is not a descriptor.    *)
bad_descriptor(fd) ==
  /\ file_get_descriptor(fd) = NULL
  /\ result' \in {-EIO, -EINVARG}
  /\ UNCHANGED <<file_descriptors, desc, private>>

(* fstat and fread answer from the item and the position of the            *)
(* descriptor, or with an error of the disk or of a directory; neither     *)
(* changes it (fat16_read does not advance the position).                  *)
fstat_or_fread(fd) ==
  /\ file_get_descriptor(fd) # NULL
  /\ result' \in {0, 1, -EIO, -EINVARG, -ENOMEM}
  /\ UNCHANGED <<file_descriptors, desc, private>>

(* Only the offset is compared with the file size, so SEEK_CURRENT can     *)
(* leave the position past the end.  A negative offset is converted to     *)
(* unsigned and refused like any other that is too large.  SEEK_END is not *)
(* implemented.  The check of the type never refuses: the driver makes     *)
(* every item one of type FILE (fat16.c:572), a directory one of size 0.   *)
fseek(fd, offset, whence) ==
  LET x == desc[file_get_descriptor(fd)].private
  IN  /\ file_get_descriptor(fd) # NULL
      /\ IF offset >= FileSize[private[x].item]
         THEN private' = private /\ result' = -EIO
         ELSE \/ /\ whence = "SEEK_SET"
                 /\ private' = [private EXCEPT ![x].pos = offset]
                 /\ result' = 0
              \/ /\ whence = "SEEK_CURRENT"
                 /\ private[x].pos + offset <= MaxPos
                 /\ private' = [private EXCEPT ![x].pos = @ + offset]
                 /\ result' = 0
              \/ /\ whence = "SEEK_END"
                 /\ private' = private /\ result' = -EUNIMP
              \/ /\ whence = "other"
                 /\ private' = private /\ result' = -EINVARG
      /\ UNCHANGED <<file_descriptors, desc>>

Next ==
  \/ fopen_refused
  \/ \E x \in Privates :
       \/ fopen_not_found(x)
       \/ \E file \in Files :
            \/ fopen_table_full(file, x)
            \/ fopen_null_descriptor(file, x)
            \/ \E d \in Descs : fopen(file, d, x)
  \/ \E fd \in Fds :
       \/ fclose(fd)
       \/ bad_descriptor(fd)
       \/ fstat_or_fread(fd)
       \/ \E offset \in 0 .. MaxPos :
            \E whence \in {"SEEK_SET", "SEEK_CURRENT", "SEEK_END", "other"} :
               fseek(fd, offset, whence)

Spec == fs_init /\ [][Next]_vars

-----------------------------------------------------------------------------

Used == {i \in Indexes : file_descriptors[i] # NULL}

(* Every entry of the table is an allocated descriptor that knows its own  *)
(* number, with an allocated private structure that no other entry shares: *)
(* no sequence of opens and closes leaves a number that refers to freed or *)
(* to somebody else's memory.                                              *)
NoDanglingDescriptor ==
  /\ \A i \in Used :
       /\ file_descriptors[i] \in DOMAIN desc
       /\ desc[file_descriptors[i]].index = i + 1
       /\ desc[file_descriptors[i]].private \in DOMAIN private
  /\ \A i, j \in Used : i # j =>
       /\ file_descriptors[i] # file_descriptors[j]
       /\ desc[file_descriptors[i]].private # desc[file_descriptors[j]].private

(* The refinement mapping: the open file of a number, found by following   *)
(* the pointers.                                                           *)
OpenFileOf ==
  [fd \in {i + 1 : i \in Used} |-> private[desc[file_descriptors[fd - 1]].private]]

Abstract == INSTANCE OpenFiles WITH open <- OpenFileOf

(* The table of pointers implements a map from descriptor numbers to open  *)
(* files: an operation on one descriptor never closes, moves or replaces   *)
(* another, whatever structures were freed and reused before.              *)
ImplementsOpenFiles == Abstract!Spec

=============================================================================
