----------------------------- MODULE ElfLoader ------------------------------
(***************************************************************************)
(* The ELF loader (src/loader/formats/elfloader.c): whether a file that    *)
(* was read into memory is accepted as a program, and the range of         *)
(* addresses its loadable segments take.  A file is the fields of its ELF  *)
(* header that the loader looks at, its program headers in order, and its  *)
(* size.  No variables: module Paging loads programs.                      *)
(***************************************************************************)
EXTENDS Integers, SequencesExt

CONSTANT WORD   \* addresses and sizes are words, 0 .. WORD - 1

ELFCLASSNONE == 0
ELFCLASS32 == 1
ELFDATANONE == 0
ELFDATA2LSB == 1
PT_LOAD == 1

(* The type of the file and the entry point are not looked at.             *)
elf_validate_loaded(file) ==
  /\ file.signature
  /\ file.class \in {ELFCLASSNONE, ELFCLASS32}
  /\ file.data \in {ELFDATANONE, ELFDATA2LSB}
  /\ file.e_phoff # 0

Word == 0 .. (WORD - 1)

(* The addresses of an elf_file; those that are not known yet are 0.       *)
AddressRange ==
  [virtual_base : Word, physical_base : Word, virtual_end : Word, physical_end : Word]

NoRange ==
  [virtual_base |-> 0, physical_base |-> 0, virtual_end |-> 0, physical_end |-> 0]

(* Where a segment begins in memory, and where it ends in both spaces.     *)
elf_phdr_phys_address(phdr, memory) == (memory + phdr.p_offset) % WORD
end_phys_address(phdr, memory) == (memory + phdr.p_offset + phdr.p_filesz) % WORD
end_virtual_address(phdr) == (phdr.p_vaddr + phdr.p_filesz) % WORD

(* Fault: the end is that of the segment with the lowest address.          *)
Fault_EndOfFirst(range, phdr, memory) ==
  IF range.virtual_base >= phdr.p_vaddr \/ range.virtual_base = 0
  THEN [virtual_base |-> phdr.p_vaddr,
        physical_base |-> elf_phdr_phys_address(phdr, memory),
        virtual_end |-> end_virtual_address(phdr),
        physical_end |-> end_phys_address(phdr, memory)]
  ELSE range

elf_process_phdr_pt_load(range, phdr, memory) ==
  LET end == end_virtual_address(phdr)
      lower == range.virtual_base >= phdr.p_vaddr \/ range.virtual_base = 0
      higher == range.virtual_end <= end \/ range.virtual_end = 0
  IN  [virtual_base |-> IF lower THEN phdr.p_vaddr ELSE range.virtual_base,
       physical_base |-> IF lower THEN elf_phdr_phys_address(phdr, memory) ELSE range.physical_base,
       virtual_end |-> IF higher THEN end ELSE range.virtual_end,
       physical_end |-> IF higher THEN end_phys_address(phdr, memory)
                        ELSE range.physical_end]

elf_process_pheader(range, phdr, memory) ==
  IF phdr.p_type = PT_LOAD THEN elf_process_phdr_pt_load(range, phdr, memory) ELSE range

(* The range after each number of program headers, up to all of them.      *)
elf_process_pheaders(file, memory) ==
  LET after[k \in 0 .. Len(file.headers)] ==
        IF k = 0 THEN NoRange
        ELSE elf_process_pheader(after[k - 1], file.headers[k], memory)
  IN  after[Len(file.headers)]

LoadHeaders(file) == {h \in Range(file.headers) : h.p_type = PT_LOAD}
=============================================================================
