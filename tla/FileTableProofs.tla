--------------------------- MODULE FileTableProofs --------------------------
(***************************************************************************)
(* Proofs about the descriptor table, for every table size, any files and  *)
(* any memory for descriptors and private structures.                      *)
(***************************************************************************)
EXTENDS FileTable, WellFoundedInduction, TLAPS

(* The inductive invariant: that the maps of allocated structures are      *)
(* functions is part of it, since TypeOK speaks of their values only.      *)
Inv ==
  /\ TypeOK
  /\ desc = [d \in DOMAIN desc |-> desc[d]]
  /\ private = [x \in DOMAIN private |-> private[x]]
  /\ NoDanglingDescriptor

USE FileTableAssumption

(* What a number in use leads to.                                          *)
PrivateOf(i) == desc[file_descriptors[i]].private

(* A non-empty set of naturals has a least element, and Min denotes it.    *)
LEMMA MinOfNaturals ==
  ASSUME NEW S \in SUBSET Nat, S # {}
  PROVE  Min(S) \in S /\ \A y \in S : Min(S) <= y
<1> DEFINE Less == {p \in Nat \X Nat : p[1] < p[2]}
<1>1. OpToRel(<, Nat) = Less
  BY Zenon DEF OpToRel
<1>2. IsWellFoundedOn(Less, Nat)
  BY <1>1, NatLessThanWellFounded, Zenon
<1> HIDE DEF Less
<1>3. PICK x \in S : \A y \in S : ~ (<<y, x>> \in Less)
  BY <1>2, WFMin, Zenon
<1>4. \A y \in S : x <= y
  <2> TAKE y \in S
  <2>1. <<y, x>> \in Nat \X Nat
    OBVIOUS
  <2>2. <<y, x>>[1] = y /\ <<y, x>>[2] = x
    OBVIOUS
  <2>3. ~(y < x)
    BY <1>3, <2>1, <2>2, Zenon DEF Less
  <2> QED BY <2>3
<1> QED BY <1>4 DEF Min

(* The slot file_new_descriptor takes is free.                             *)
LEMMA NewSlot ==
  ASSUME NEW i \in file_new_descriptor
  PROVE  i \in Indexes /\ i \notin Used
<1> DEFINE free == {j \in Indexes : file_descriptors[j] = NULL}
<1>1. free # {} /\ i = Min(free)
  BY DEF file_new_descriptor
<1>2. free \in SUBSET Nat
  BY DEF Indexes
<1>3. i \in free
  BY <1>1, <1>2, MinOfNaturals
<1> QED BY <1>3 DEF Used

(* A descriptor number that is accepted is one in use.                     *)
LEMMA Accepted ==
  ASSUME Inv, NEW fd \in Fds, file_get_descriptor(fd) # NULL
  PROVE  /\ fd - 1 \in Used /\ fd \in 1 .. MAX_FILE_DESCRIPTORS
         /\ file_get_descriptor(fd) = file_descriptors[fd - 1]
BY DEF file_get_descriptor, Fds, Used, Indexes

(* An open that the caller gets no descriptor of takes a private structure *)
(* nobody else has.                                                        *)
LEMMA PrivateTaken ==
  ASSUME Inv, NEW x \in Privates \ DOMAIN private, NEW file \in Files \cup {NULL},
         private' = With(private, x, [item |-> file, pos |-> 0]),
         UNCHANGED <<file_descriptors, desc>>,
         result' \in (-EUNIMP) .. MAX_FILE_DESCRIPTORS
  PROVE  Inv' /\ UNCHANGED OpenFileOf
<1>1. /\ DOMAIN private' = DOMAIN private \cup {x}
      /\ private'[x] = [item |-> file, pos |-> 0]
      /\ \A y \in DOMAIN private : private'[y] = private[y]
      /\ private' = [y \in DOMAIN private' |-> private'[y]]
  BY DEF With
<1>2. TypeOK'
  BY <1>1 DEF Inv, TypeOK
<1>3. NoDanglingDescriptor'
  BY <1>1 DEF Inv, NoDanglingDescriptor, Used
<1>4. Used' = Used /\ \A i \in Used : private'[PrivateOf(i)] = private[PrivateOf(i)]
  BY <1>1 DEF Used, Inv, NoDanglingDescriptor, PrivateOf
<1>5. \A fd \in {i + 1 : i \in Used} : fd - 1 \in Used
  BY DEF Used, Indexes
<1>6. UNCHANGED OpenFileOf
  BY <1>4, <1>5 DEF OpenFileOf, PrivateOf
<1> QED BY <1>1, <1>2, <1>3, <1>6 DEF Inv

-----------------------------------------------------------------------------
(* One lemma per operation that changes the table or a position: it keeps  *)
(* the invariant and is the abstract operation.                            *)

(* fopen is Open of the number it returns.                                 *)
LEMMA FopenStep ==
  ASSUME Inv, NEW file \in Files, NEW d \in Descs, NEW x \in Privates, fopen(file, d, x)
  PROVE  Inv' /\ \E fd \in 1 .. MAX_FILE_DESCRIPTORS : Abstract!Open(fd, file)
<1> DEFINE v == [item |-> file, pos |-> 0]
<1>1. PICK i \in file_new_descriptor :
        /\ private' = With(private, x, v)
        /\ desc' = With(desc, d, [index |-> i + 1, private |-> x])
        /\ file_descriptors' = [file_descriptors EXCEPT ![i] = d]
        /\ result' = i + 1
  BY DEF fopen
<1>2. i \in Indexes /\ i \notin Used /\ i + 1 \in 1 .. MAX_FILE_DESCRIPTORS
  BY NewSlot DEF Indexes
<1>3. d \notin DOMAIN desc /\ x \notin DOMAIN private
  BY DEF fopen
<1>4. /\ DOMAIN private' = DOMAIN private \cup {x}
      /\ private'[x] = v
      /\ \A y \in DOMAIN private : private'[y] = private[y]
      /\ private' = [y \in DOMAIN private' |-> private'[y]]
  BY <1>1, <1>3 DEF With
<1>5. /\ DOMAIN desc' = DOMAIN desc \cup {d}
      /\ desc'[d] = [index |-> i + 1, private |-> x]
      /\ \A y \in DOMAIN desc : desc'[y] = desc[y]
      /\ desc' = [y \in DOMAIN desc' |-> desc'[y]]
  BY <1>1, <1>3 DEF With
<1>6. /\ file_descriptors'[i] = d /\ d # NULL
      /\ \A j \in Indexes : j # i => file_descriptors'[j] = file_descriptors[j]
  BY <1>1, <1>2 DEF Inv, TypeOK
<1>7. Used' = Used \cup {i}
  BY <1>2, <1>6 DEF Used
<1>8. TypeOK'
  BY <1>1, <1>2, <1>4, <1>5 DEF Inv, TypeOK, EUNIMP
<1>9. \A j \in Used : /\ j \in Indexes /\ j # i
                      /\ file_descriptors'[j] = file_descriptors[j]
                      /\ file_descriptors[j] \in DOMAIN desc
                      /\ desc[file_descriptors[j]].index = j + 1
                      /\ PrivateOf(j) \in DOMAIN private /\ PrivateOf(j)' = PrivateOf(j)
                      /\ desc'[file_descriptors[j]] = desc[file_descriptors[j]]
  BY <1>2, <1>5, <1>6 DEF Inv, NoDanglingDescriptor, Used, PrivateOf
<1>10. PrivateOf(i)' = x
  BY <1>5, <1>6 DEF PrivateOf
<1>11. NoDanglingDescriptor'
  <2>1. \A j \in Used' :
         /\ file_descriptors'[j] \in DOMAIN desc'
         /\ desc'[file_descriptors'[j]].index = j + 1
         /\ PrivateOf(j)' \in DOMAIN private'
    BY <1>4, <1>5, <1>6, <1>7, <1>9, <1>10
  <2>2. \A j, k \in Used' : j # k =>
         /\ file_descriptors'[j] # file_descriptors'[k]
         /\ PrivateOf(j)' # PrivateOf(k)'
    <3>1. \A j, k \in Used : j # k => /\ file_descriptors[j] # file_descriptors[k]
                                      /\ PrivateOf(j) # PrivateOf(k)
      BY DEF Inv, NoDanglingDescriptor, PrivateOf
    <3> QED BY <1>3, <1>6, <1>7, <1>9, <1>10, <3>1
  <2> QED BY <2>1, <2>2 DEF NoDanglingDescriptor, PrivateOf
<1>12. Abstract!Open(i + 1, file)
  <2>1. DOMAIN OpenFileOf = {j + 1 : j \in Used} /\ i + 1 \notin DOMAIN OpenFileOf
    BY <1>2 DEF OpenFileOf, Used, Indexes
  <2>2. {j + 1 : j \in Used'} = DOMAIN OpenFileOf \cup {i + 1}
    BY <1>7, <2>1
  <2>3. ASSUME NEW g \in DOMAIN OpenFileOf \cup {i + 1}
        PROVE  private'[PrivateOf(g - 1)']
                 = IF g = i + 1 THEN v ELSE OpenFileOf[g]
    <3>1. CASE g = i + 1
      BY <1>2, <1>4, <1>10, <3>1 DEF Indexes
    <3>2. CASE g \in DOMAIN OpenFileOf
      <4>1. g - 1 \in Used /\ g # i + 1
        BY <2>1, <3>2 DEF Used, Indexes
      <4>2. OpenFileOf[g] = private[PrivateOf(g - 1)]
        BY <2>1, <3>2 DEF OpenFileOf, PrivateOf
      <4> QED BY <1>4, <1>9, <4>1, <4>2
    <3> QED BY <3>1, <3>2
  <2>4. OpenFileOf' = [g \in DOMAIN OpenFileOf \cup {i + 1} |-> private'[PrivateOf(g - 1)']]
    BY <2>2 DEF OpenFileOf, PrivateOf
  <2> QED BY <2>1, <2>3, <2>4 DEF Abstract!Open
<1> QED BY <1>2, <1>4, <1>5, <1>8, <1>11, <1>12 DEF Inv

(* fclose is Close: the table entry it clears is the one the number names. *)
LEMMA FcloseStep ==
  ASSUME Inv, NEW fd \in Fds, fclose(fd)
  PROVE  Inv' /\ fd \in 1 .. MAX_FILE_DESCRIPTORS /\ Abstract!Close(fd)
<1> DEFINE i == fd - 1
           d == file_descriptors[i]
<1>1. i \in Used /\ i \in Indexes /\ fd \in 1 .. MAX_FILE_DESCRIPTORS
      /\ file_get_descriptor(fd) = d
  BY Accepted DEF fclose, Used
<1>2. d \in DOMAIN desc /\ desc[d].index = i + 1 /\ PrivateOf(i) \in DOMAIN private
  BY <1>1 DEF Inv, NoDanglingDescriptor, PrivateOf
<1>3. /\ private' = Without(private, PrivateOf(i))
      /\ desc' = Without(desc, d)
      /\ file_descriptors' = [file_descriptors EXCEPT ![desc[d].index - 1] = NULL]
      /\ result' = 0
  BY <1>1 DEF fclose, file_free_descriptor, PrivateOf
<1>4. desc[d].index - 1 = i
  BY <1>1, <1>2 DEF Indexes
<1>5. /\ DOMAIN private' = DOMAIN private \ {PrivateOf(i)}
      /\ \A y \in DOMAIN private' : private'[y] = private[y]
      /\ private' = [y \in DOMAIN private' |-> private'[y]]
  BY <1>3 DEF Without
<1>6. /\ DOMAIN desc' = DOMAIN desc \ {d}
      /\ \A y \in DOMAIN desc' : desc'[y] = desc[y]
      /\ desc' = [y \in DOMAIN desc' |-> desc'[y]]
  BY <1>3 DEF Without
<1> HIDE DEF d, i
<1>7. /\ file_descriptors'[i] = NULL
      /\ \A j \in Indexes : j # i => file_descriptors'[j] = file_descriptors[j]
  BY <1>1, <1>3, <1>4 DEF Inv, TypeOK
<1>8. Used' = Used \ {i}
  BY <1>1, <1>7 DEF Used
<1>9. TypeOK'
  BY <1>1, <1>3, <1>4, <1>5, <1>6 DEF Inv, TypeOK, EUNIMP
<1>10. \A j, k \in Used : j # k => /\ file_descriptors[j] # file_descriptors[k]
                                  /\ PrivateOf(j) # PrivateOf(k)
  BY DEF Inv, NoDanglingDescriptor, PrivateOf
<1>11. \A j \in Used' : /\ j \in Used /\ j # i
                        /\ file_descriptors'[j] = file_descriptors[j]
                        /\ file_descriptors[j] \in DOMAIN desc'
                        /\ desc'[file_descriptors[j]] = desc[file_descriptors[j]]
                        /\ desc[file_descriptors[j]].index = j + 1
                        /\ PrivateOf(j) \in DOMAIN private'
  BY <1>1, <1>5, <1>6, <1>7, <1>8, <1>10 DEF Inv, NoDanglingDescriptor, Used, PrivateOf, d
<1>12. \A j \in Used' : PrivateOf(j)' = PrivateOf(j)
  BY <1>11 DEF PrivateOf
<1>13. NoDanglingDescriptor'
  BY <1>10, <1>11, <1>12 DEF NoDanglingDescriptor, PrivateOf
<1>14. Abstract!Close(fd)
  <2>1. DOMAIN OpenFileOf = {j + 1 : j \in Used} /\ fd = i + 1 /\ i \in Nat
    BY <1>1 DEF OpenFileOf, i, Fds, Indexes
  <2>2. fd \in DOMAIN OpenFileOf
    BY <1>1, <2>1
  <2>3. {j + 1 : j \in Used'} = DOMAIN OpenFileOf \ {fd}
    BY <1>8, <2>1 DEF Used, Indexes
  <2>4. ASSUME NEW g \in DOMAIN OpenFileOf \ {fd}
        PROVE  private'[PrivateOf(g - 1)'] = OpenFileOf[g]
    <3>1. g - 1 \in Used'
      BY <2>3 DEF Used, Indexes
    <3>2. OpenFileOf[g] = private[PrivateOf(g - 1)]
      BY <2>1 DEF OpenFileOf, PrivateOf
    <3> QED BY <1>5, <1>11, <1>12, <3>1, <3>2
  <2>5. OpenFileOf' = [g \in DOMAIN OpenFileOf \ {fd} |-> private'[PrivateOf(g - 1)']]
    BY <2>3 DEF OpenFileOf, PrivateOf
  <2> QED BY <2>2, <2>4, <2>5 DEF Abstract!Close
<1> QED BY <1>1, <1>5, <1>6, <1>9, <1>13, <1>14 DEF Inv

(* fseek is Seek: whatever the offset, no other descriptor's position      *)
(* moves.                                                                  *)
LEMMA FseekStep ==
  ASSUME Inv, NEW fd \in Fds, NEW offset \in 0 .. MaxPos, NEW whence,
         fseek(fd, offset, whence)
  PROVE  /\ Inv' /\ fd \in 1 .. MAX_FILE_DESCRIPTORS
         /\ Abstract!Seek(fd) \/ UNCHANGED OpenFileOf
<1> DEFINE i == fd - 1
           x == PrivateOf(i)
<1>1. i \in Used /\ i \in Indexes /\ fd \in 1 .. MAX_FILE_DESCRIPTORS
      /\ file_get_descriptor(fd) = file_descriptors[i]
  BY Accepted DEF fseek, Used
<1>2. x \in DOMAIN private /\ private[x] \in [item : Files \cup {NULL}, pos : 0 .. MaxPos]
  BY <1>1 DEF Inv, TypeOK, NoDanglingDescriptor, PrivateOf
<1>3. UNCHANGED <<file_descriptors, desc>> /\ Used' = Used
  BY DEF fseek, Used
<1>4. /\ result' \in (-EUNIMP) .. MAX_FILE_DESCRIPTORS
      /\ \/ private' = private
         \/ \E pos \in 0 .. MaxPos : private' = [private EXCEPT ![x].pos = pos]
  <2> HIDE DEF i
  <2>1. desc[file_get_descriptor(fd)].private = x
    BY <1>1 DEF PrivateOf
  <2> HIDE DEF x
  <2>2. private[x].pos \in Nat
    BY <1>2
  <2> QED BY <2>1, <2>2 DEF fseek, EUNIMP, EIO, EINVARG
<1> HIDE DEF i, x
<1>5. CASE private' = private
  BY <1>1, <1>3, <1>4, <1>5 DEF Inv, TypeOK, NoDanglingDescriptor, Used, OpenFileOf
<1>6. ASSUME NEW pos \in 0 .. MaxPos, private' = [private EXCEPT ![x].pos = pos]
      PROVE  Inv' /\ Abstract!Seek(fd)
  <2>1. /\ DOMAIN private' = DOMAIN private
        /\ private'[x] = [private[x] EXCEPT !.pos = pos]
        /\ \A y \in DOMAIN private : y # x => private'[y] = private[y]
        /\ private' = [y \in DOMAIN private' |-> private'[y]]
    BY <1>2, <1>6 DEF Inv
  <2>2. /\ private'[x] \in [item : Files \cup {NULL}, pos : 0 .. MaxPos]
        /\ private'[x].pos = pos
    BY <1>2, <2>1
  <2>3. Inv'
    <3>1. \A y \in DOMAIN private' : private'[y] \in [item : Files \cup {NULL}, pos : 0 .. MaxPos]
      BY <2>1, <2>2 DEF Inv, TypeOK
    <3>2. TypeOK'
      BY <1>3, <1>4, <2>1, <3>1 DEF Inv, TypeOK
    <3>3. NoDanglingDescriptor'
      BY <1>3, <2>1 DEF Inv, NoDanglingDescriptor
    <3> QED BY <1>3, <2>1, <3>2, <3>3 DEF Inv
  <2>4. /\ DOMAIN OpenFileOf = {j + 1 : j \in Used}
        /\ fd = i + 1 /\ fd \in DOMAIN OpenFileOf
    BY <1>1 DEF OpenFileOf, i, Fds
  <2>5. \A g \in DOMAIN OpenFileOf : /\ g - 1 \in Used
                                     /\ OpenFileOf[g] = private[PrivateOf(g - 1)]
    BY <2>4 DEF OpenFileOf, PrivateOf, Used, Indexes
  <2>6. OpenFileOf' = [g \in DOMAIN OpenFileOf |-> private'[PrivateOf(g - 1)]]
    BY <1>3, <2>4 DEF OpenFileOf, PrivateOf
  <2>7. ASSUME NEW g \in DOMAIN OpenFileOf, g # fd
        PROVE  private'[PrivateOf(g - 1)] = OpenFileOf[g]
    <3>1. g - 1 # i /\ g - 1 \in Used
      BY <2>4, <2>5, <2>7 DEF Used, Indexes
    <3>2. PrivateOf(g - 1) \in DOMAIN private /\ PrivateOf(g - 1) # x
      BY <1>1, <3>1 DEF Inv, NoDanglingDescriptor, PrivateOf, x
    <3> QED BY <2>1, <2>5, <3>2
  <2>8. PrivateOf(fd - 1) = x /\ OpenFileOf[fd] = private[x]
    BY <2>4, <2>5 DEF x, i
  <2>9. OpenFileOf'[fd] = private'[x] /\ OpenFileOf'[fd].pos = pos
    BY <2>2, <2>4, <2>6, <2>8
  <2>10. OpenFileOf' = [g \in DOMAIN OpenFileOf |->
                          IF g = fd THEN private'[x] ELSE OpenFileOf[g]]
    BY <2>6, <2>7, <2>8
  <2>11. OpenFileOf' = [OpenFileOf EXCEPT ![fd].pos = OpenFileOf'[fd].pos]
    <3>1. OpenFileOf = [g \in DOMAIN OpenFileOf |-> OpenFileOf[g]]
      BY DEF OpenFileOf
    <3> HIDE DEF OpenFileOf
    <3> QED BY <2>1, <2>4, <2>8, <2>9, <2>10, <3>1
  <2>12. Abstract!Seek(fd)
    BY <2>4, <2>10, <2>11 DEF Abstract!Seek
  <2> QED BY <2>3, <2>12
<1> QED BY <1>1, <1>4, <1>5, <1>6

-----------------------------------------------------------------------------

(* The empty table of fs_init.                                             *)
LEMMA InitInv == fs_init => Inv /\ Abstract!Init
<1> SUFFICES ASSUME fs_init PROVE Inv /\ Abstract!Init
  OBVIOUS
<1>1. Used = {} /\ DOMAIN desc = {} /\ DOMAIN private = {}
  BY DEF fs_init, Used
<1>2. TypeOK
  BY <1>1 DEF fs_init, TypeOK, EUNIMP
<1>3. /\ desc = [d \in DOMAIN desc |-> desc[d]]
      /\ private = [x \in DOMAIN private |-> private[x]]
  BY DEF fs_init
<1>4. NoDanglingDescriptor
  BY <1>1 DEF NoDanglingDescriptor
<1>5. {i + 1 : i \in Used} = {}
  BY <1>1
<1>6. OpenFileOf = [fd \in {} |-> {}]
  BY <1>5 DEF OpenFileOf
<1> QED BY <1>2, <1>3, <1>4, <1>6 DEF Inv, Abstract!Init

(* Calls that are refused or only look.                                    *)
LEMMA TableUnchanged ==
  ASSUME Inv, UNCHANGED <<file_descriptors, desc, private>>,
         result' \in (-EUNIMP) .. MAX_FILE_DESCRIPTORS
  PROVE  Inv' /\ UNCHANGED OpenFileOf
BY DEF Inv, TypeOK, NoDanglingDescriptor, Used, OpenFileOf

(* Every step keeps the invariant and is a step of OpenFiles, or none.     *)
LEMMA NextStep == Inv /\ [Next]_vars => Inv' /\ [Abstract!Next]_OpenFileOf
<1> SUFFICES ASSUME Inv, [Next]_vars PROVE Inv' /\ [Abstract!Next]_OpenFileOf
  OBVIOUS
<1> DEFINE Goal == Inv' /\ [Abstract!Next]_OpenFileOf
<1>1. CASE UNCHANGED vars
  BY <1>1, TableUnchanged DEF vars, Inv, TypeOK
<1>2. CASE fopen_refused
  BY <1>2, TableUnchanged DEF fopen_refused, EUNIMP
<1>3. ASSUME NEW fd \in Fds, bad_descriptor(fd) \/ fstat_or_fread(fd) PROVE Goal
  BY <1>3, TableUnchanged DEF bad_descriptor, fstat_or_fread, EUNIMP, EIO, EINVARG, ENOMEM
<1>4. ASSUME NEW x \in Privates, fopen_not_found(x) PROVE Goal
  BY <1>4, PrivateTaken DEF fopen_not_found, EUNIMP
<1>5. ASSUME NEW x \in Privates, NEW file \in Files, fopen_table_full(file, x) PROVE Goal
  BY <1>5, PrivateTaken DEF fopen_table_full, EUNIMP
<1>6. ASSUME NEW x \in Privates, NEW file \in Files, fopen_null_descriptor(file, x) PROVE Goal
  BY <1>6, PrivateTaken, NewSlot DEF fopen_null_descriptor, EUNIMP, Indexes
<1>7. ASSUME NEW x \in Privates, NEW file \in Files, NEW d \in Descs, fopen(file, d, x)
      PROVE  Goal
  BY <1>7, FopenStep DEF Abstract!Next, Abstract!Fds
<1>8. ASSUME NEW fd \in Fds, fclose(fd) PROVE Goal
  BY <1>8, FcloseStep DEF Abstract!Next, Abstract!Fds
<1>9. ASSUME NEW fd \in Fds, NEW offset \in 0 .. MaxPos, NEW whence, fseek(fd, offset, whence)
      PROVE  Goal
  BY <1>9, FseekStep DEF Abstract!Next, Abstract!Fds
<1> QED BY <1>1, <1>2, <1>3, <1>4, <1>5, <1>6, <1>7, <1>8, <1>9 DEF Next

(* The inductive invariant holds in every state.                           *)
THEOREM FileTableInvariant == Spec => []Inv
<1>1. fs_init => Inv
  BY InitInv
<1>2. Inv /\ [Next]_vars => Inv'
  BY NextStep
<1> QED BY <1>1, <1>2, PTL DEF Spec

(* Descriptors carry numbers of the table, positions stay in range.        *)
THEOREM FileTableTypeOK == Spec => []TypeOK
<1>1. Inv => TypeOK
  BY DEF Inv
<1> QED BY <1>1, FileTableInvariant, PTL

(* No number leads to memory that fclose freed or that another number      *)
(* leads to (file_new_descriptor, file_free_descriptor).                   *)
THEOREM DescriptorsNeverDangle == Spec => []NoDanglingDescriptor
<1>1. Inv => NoDanglingDescriptor
  BY DEF Inv
<1> QED BY <1>1, FileTableInvariant, PTL

(* The table and the structures it points to implement the map from        *)
(* numbers to open files: fopen opens one, fclose closes the one named,    *)
(* fseek moves the position of the one named, and nothing else happens.    *)
THEOREM FileTableImplementsOpenFiles == Spec => ImplementsOpenFiles
<1>1. fs_init => Abstract!Init
  BY InitInv
<1>2. Inv /\ [Next]_vars => [Abstract!Next]_OpenFileOf
  BY NextStep
<1> QED BY <1>1, <1>2, FileTableInvariant, PTL DEF Spec, ImplementsOpenFiles, Abstract!Spec

=============================================================================
