------------------------------ MODULE Terminal ------------------------------
(***************************************************************************)
(* The text terminal (src/kernel.c): the cursor, two uint16_t counters,    *)
(* and the cells of video memory it writes to.  Characters come from       *)
(* print and from the putchar command; '\n' and backspace (0x08) move the  *)
(* cursor, there is no scrolling.                                          *)
(***************************************************************************)
EXTENDS Integers

CONSTANTS
  VGA_WIDTH, VGA_HEIGHT,
  U16,     \* number of values of a uint16_t
  Glyphs   \* the printable characters, without ' '

ASSUME TerminalAssumption ==
  /\ VGA_WIDTH \in Nat \ {0} /\ VGA_HEIGHT \in Nat \ {0}
  /\ U16 \in Nat /\ U16 > VGA_WIDTH * VGA_HEIGHT
  /\ " " \notin Glyphs

Blank == " "

Chars == Glyphs \cup {Blank}

VARIABLES
  video_mem,     \* the cells of the screen
  terminal_row, terminal_col,
  off_screen     \* ghost: a character was written outside the screen, or
                 \* the row counter overflowed on its way down

vars == <<video_mem, terminal_row, terminal_col, off_screen>>

Cells == 0 .. (VGA_WIDTH * VGA_HEIGHT - 1)

TypeOK ==
  /\ video_mem \in [Cells -> Chars]
  /\ terminal_row \in 0 .. (U16 - 1)
  /\ terminal_col \in 0 .. (U16 - 1)
  /\ off_screen \in BOOLEAN

terminal_init ==
  /\ video_mem = [i \in Cells |-> Blank]
  /\ terminal_row = 0
  /\ terminal_col = 0
  /\ off_screen = FALSE

-----------------------------------------------------------------------------

CellAt(col, row) == row * VGA_WIDTH + col

(* Outside the screen the write lands in other memory.                     *)
terminal_putchar(x, y, c) ==
  IF CellAt(x, y) \in Cells
  THEN /\ video_mem' = [video_mem EXCEPT ![CellAt(x, y)] = c]
       /\ off_screen' = off_screen
  ELSE /\ video_mem' = video_mem
       /\ off_screen' = TRUE

(* Where the cursor is after a printable character at (col, row).          *)
advance(col, row) ==
  IF (col + 1) % U16 >= VGA_WIDTH
  THEN [col |-> 0, row |-> (row + 1) % U16]
  ELSE [col |-> (col + 1) % U16, row |-> row]

SetCursor(cur) == terminal_col' = cur.col /\ terminal_row' = cur.row

write_glyph(c) ==
  /\ terminal_putchar(terminal_col, terminal_row, c)
  /\ SetCursor(advance(terminal_col, terminal_row))

write_newline ==
  /\ terminal_row' = (terminal_row + 1) % U16
  /\ terminal_col' = 0
  /\ off_screen' = (off_screen \/ terminal_row + 1 = U16)
  /\ UNCHANGED video_mem

(* Where terminal_backspace writes its blank.                              *)
back_one(col, row) ==
  IF col = 0
  THEN [col |-> VGA_WIDTH - 1, row |-> row - 1]
  ELSE [col |-> col - 1, row |-> row]

backspace_at_origin ==
  /\ terminal_row = 0 /\ terminal_col = 0
  /\ UNCHANGED vars

(* Fault: the cursor moves back but the character stays.                   *)
Fault_NoErase ==
  LET cur == back_one(terminal_col, terminal_row)
  IN  /\ ~(terminal_row = 0 /\ terminal_col = 0)
      /\ SetCursor(cur)
      /\ UNCHANGED <<video_mem, off_screen>>

(* Fault: the column is a signed number.                                   *)
Fault_SignedColumn ==
  LET cur == back_one(terminal_col, terminal_row)
      aft == advance(cur.col, cur.row)
  IN  /\ ~(terminal_row = 0 /\ terminal_col = 0)
      /\ terminal_putchar(cur.col, cur.row, Blank)
      /\ SetCursor([aft EXCEPT !.col = @ - 1])

(* terminal_backspace writes the blank with terminal_writechar, which      *)
(* advances the cursor, and then takes one from the column.                *)
terminal_backspace ==
  LET cur == back_one(terminal_col, terminal_row)
      aft == advance(cur.col, cur.row)
  IN  /\ ~(terminal_row = 0 /\ terminal_col = 0)
      /\ terminal_putchar(cur.col, cur.row, Blank)
      /\ SetCursor([aft EXCEPT !.col = (@ + U16 - 1) % U16])

terminal_writechar ==
  \/ write_newline
  \/ terminal_backspace \/ backspace_at_origin
  \/ \E c \in Chars : write_glyph(c)

Spec == terminal_init /\ [][terminal_writechar]_vars

-----------------------------------------------------------------------------

Cursor == CellAt(terminal_col, terminal_row)

(* As long as everything was written on the screen, the screen is blank    *)
(* from the cursor on, whatever mix of characters, newlines and backspaces *)
(* came before: no character that is still shown is overwritten by the     *)
(* next one.                                                               *)
BlankAhead ==
  ~off_screen => \A i \in Cells : i >= Cursor => video_mem[i] = Blank

=============================================================================
