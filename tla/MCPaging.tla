------------------------------ MODULE MCPaging ------------------------------
(* Instance of Paging for TLC: 16 pages of 2 bytes in 4 tables, a heap of  *)
(* 7 pages, two tasks.  The programs: one with the headers of blank.elf    *)
(* (text from the second page on, .bss with offset 0), one with a header   *)
(* that begins inside a page, one mapped where the heap has its pages, one *)
(* whose .bss runs past its file, one whose size wraps, one with headers   *)
(* out of order and of other types, a raw image and an ELF file for 64-bit *)
(* machines.                                                               *)
EXTENDS Paging, TLC

CONSTANTS t1, t2

MCTasks == {t1, t2}
MCSymmetry == Permutations(MCTasks)

Header(p_vaddr, p_offset, p_filesz, p_memsz, writable) ==
  [p_type |-> PT_LOAD, p_vaddr |-> p_vaddr, p_offset |-> p_offset,
   p_filesz |-> p_filesz, p_memsz |-> p_memsz, writable |-> writable]

Elf(size, headers) ==
  [signature |-> TRUE, class |-> 1, data |-> 1, e_phoff |-> 1,
   size |-> size, headers |-> headers]

Blank == Elf(4, <<Header(8, 2, 2, 2, FALSE), Header(10, 0, 0, 1, TRUE)>>)
Inside == Elf(3, <<Header(8, 0, 2, 2, FALSE), Header(11, 3, 0, 1, TRUE)>>)
High == Elf(4, <<Header(14, 0, 4, 4, TRUE)>>)
Spill == Elf(2, <<Header(8, 0, 2, 4, TRUE)>>)
Wraps == Elf(2, <<Header(8, 0, 2, 2, FALSE), Header(10, 2, 0, 30, TRUE)>>)
Mixed == Elf(4, <<[Header(10, 2, 1, 1, FALSE) EXCEPT !.p_type = 6],  \* PT_PHDR
                  Header(10, 2, 2, 2, FALSE), Header(8, 0, 2, 2, TRUE),
                  [Header(0, 0, 0, 0, TRUE) EXCEPT !.p_type = 7]>>)
Raw == [Elf(3, <<>>) EXCEPT !.signature = FALSE]
Wide == [High EXCEPT !.class = 2, !.size = 2]

MCPrograms == {Blank, Inside, High, Spill, Wraps, Mixed, Raw, Wide}
=============================================================================
