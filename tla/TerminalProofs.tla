--------------------------- MODULE TerminalProofs ---------------------------
(***************************************************************************)
(* Proofs about the terminal, for every screen and every counter width     *)
(* that can number its cells.                                              *)
(***************************************************************************)
EXTENDS Terminal, TLAPS

(* The cell from which on the screen is blank.  Behind a backspace over    *)
(* the start of a line the column is 65535 and the cursor far away, but    *)
(* the next newline brings it back to the screen: the cells in between     *)
(* must be blank too.                                                      *)
BlankFrom ==
  IF terminal_col < VGA_WIDTH THEN Cursor ELSE CellAt(VGA_WIDTH - 1, terminal_row)

(* The column is on the screen, or it went below zero.                     *)
ColumnInRange == terminal_col < VGA_WIDTH \/ terminal_col = U16 - 1

BlankFromThere ==
  ~off_screen => \A i \in Cells : i >= BlankFrom => video_mem[i] = Blank

(* The inductive invariant: BlankAhead from an earlier cell on.            *)
Inv == TypeOK /\ ColumnInRange /\ BlankFromThere

-----------------------------------------------------------------------------
(* The screen and the counters.                                            *)

(* A product with a positive factor is no smaller than the other factor.   *)
LEMMA Product ==
  ASSUME NEW a \in Nat, NEW b \in Nat \ {0}
  PROVE  a * b \in Nat /\ a <= a * b
OBVIOUS

(* The product of the two sizes occurs in this lemma only.                 *)
LEMMA Screen ==
  \E n \in Nat : Cells = 0 .. (n - 1) /\ VGA_WIDTH <= n /\ n < U16
<1> DEFINE n == VGA_WIDTH * VGA_HEIGHT
<1>1. n \in Nat /\ VGA_WIDTH <= n
  <2>1. VGA_WIDTH \in Nat /\ VGA_HEIGHT \in Nat \ {0}
    BY TerminalAssumption
  <2> QED BY <2>1, Product
<1>2. Cells = 0 .. (n - 1) /\ n < U16
  BY <1>1, TerminalAssumption DEF Cells
<1> QED BY <1>1, <1>2

(* The width is positive and fits into the counters.                       *)
LEMMA Sizes == VGA_WIDTH \in Nat \ {0} /\ U16 \in Nat \ {0} /\ VGA_WIDTH < U16
<1>1. VGA_WIDTH \in Nat \ {0} /\ U16 \in Nat
  BY TerminalAssumption
<1> QED BY <1>1, Screen

(* A row starts where the one before it ends.                              *)
LEMMA RowStart ==
  ASSUME NEW row \in Nat
  PROVE  /\ CellAt(0, row) \in Nat /\ row <= CellAt(0, row)
         /\ CellAt(0, row + 1) = CellAt(0, row) + VGA_WIDTH
<1>1. VGA_WIDTH \in Nat \ {0}
  BY Sizes
<1> QED BY <1>1 DEF CellAt

(* The cells of a row follow its first one.                                *)
LEMMA InRow ==
  ASSUME NEW row \in Nat, NEW col \in Nat
  PROVE  CellAt(col, row) = CellAt(0, row) + col
<1>1. VGA_WIDTH \in Nat \ {0}
  BY Sizes
<1> QED BY <1>1 DEF CellAt

(* The uint16_t counters, one up and one down.                             *)
LEMMA Up ==
  ASSUME NEW a \in 0 .. (U16 - 1)
  PROVE  (a + 1) % U16 = IF a = U16 - 1 THEN 0 ELSE a + 1
<1>1. U16 \in Nat \ {0}
  BY Sizes
<1> QED BY <1>1

(* One down: 0 becomes the largest counter.                                *)
LEMMA Down ==
  ASSUME NEW a \in 0 .. (U16 - 1)
  PROVE  (a + U16 - 1) % U16 = IF a = 0 THEN U16 - 1 ELSE a - 1
<1>1. U16 \in Nat \ {0}
  BY Sizes
<1>2. CASE a = 0
  BY <1>1, <1>2
<1>3. CASE a # 0
  <2>1. a + U16 - 1 = (a - 1) + U16 /\ a - 1 \in 0 .. (U16 - 1)
    BY <1>1, <1>3
  <2> QED BY <1>1, <1>3, <2>1
<1> QED BY <1>2, <1>3

(* Where advance leaves the cursor.                                        *)
LEMMA Advance ==
  ASSUME NEW col \in 0 .. (U16 - 1), NEW row \in 0 .. (U16 - 1)
  PROVE  /\ col = U16 - 1 => advance(col, row) = [col |-> 0, row |-> row]
         /\ col + 1 < VGA_WIDTH => advance(col, row) = [col |-> col + 1, row |-> row]
         /\ VGA_WIDTH <= col + 1 /\ col # U16 - 1 =>
              advance(col, row) =
                [col |-> 0, row |-> IF row = U16 - 1 THEN 0 ELSE row + 1]
<1>1. VGA_WIDTH \in Nat \ {0} /\ U16 \in Nat \ {0} /\ VGA_WIDTH < U16
  BY Sizes
<1>2. (col + 1) % U16 = IF col = U16 - 1 THEN 0 ELSE col + 1
  BY Up
<1>3. (row + 1) % U16 = IF row = U16 - 1 THEN 0 ELSE row + 1
  BY Up
<1> DEFINE c == (col + 1) % U16
           r == (row + 1) % U16
<1>4. advance(col, row) =
        IF c >= VGA_WIDTH THEN [col |-> 0, row |-> r] ELSE [col |-> c, row |-> row]
  BY DEF advance
<1>5. c = (IF col = U16 - 1 THEN 0 ELSE col + 1)
      /\ r = (IF row = U16 - 1 THEN 0 ELSE row + 1)
  BY <1>2, <1>3
<1> HIDE DEF c, r
<1> QED BY <1>1, <1>4, <1>5

(* terminal_putchar: one cell may change, the others stay; a blank spoils  *)
(* nothing that was blank.                                                 *)
LEMMA Putchar ==
  ASSUME TypeOK, NEW x \in Nat, NEW y \in Nat, NEW c \in Chars,
         terminal_putchar(x, y, c)
  PROVE  /\ video_mem' \in [Cells -> Chars]
         /\ off_screen' \in BOOLEAN
         /\ off_screen => off_screen'
         /\ CellAt(x, y) \notin Cells => off_screen'
         /\ \A i \in Cells : i # CellAt(x, y) => video_mem'[i] = video_mem[i]
         /\ c = Blank => \A i \in Cells : video_mem[i] = Blank => video_mem'[i] = Blank
         /\ CellAt(x, y) \in Cells => video_mem'[CellAt(x, y)] = c
<1> DEFINE k == CellAt(x, y)
<1>1. video_mem \in [Cells -> Chars] /\ off_screen \in BOOLEAN
  BY DEF TypeOK
<1>2. \/ k \in Cells /\ video_mem' = [video_mem EXCEPT ![k] = c] /\ off_screen' = off_screen
      \/ k \notin Cells /\ video_mem' = video_mem /\ off_screen' = TRUE
  BY DEF terminal_putchar
<1> HIDE DEF k
<1>3. /\ video_mem' \in [Cells -> Chars]
      /\ off_screen' \in BOOLEAN
      /\ off_screen => off_screen'
      /\ k \notin Cells => off_screen'
      /\ \A i \in Cells : i # k => video_mem'[i] = video_mem[i]
      /\ c = Blank => \A i \in Cells : video_mem[i] = Blank => video_mem'[i] = Blank
      /\ k \in Cells => video_mem'[k] = c
  BY <1>1, <1>2
<1> QED BY <1>3 DEF k

(* Types of the cursor, as the steps below use them.                       *)
LEMMA CursorTypes ==
  ASSUME Inv
  PROVE  /\ terminal_col \in 0 .. (U16 - 1) /\ terminal_row \in 0 .. (U16 - 1)
         /\ terminal_col \in Nat /\ terminal_row \in Nat
         /\ terminal_col < VGA_WIDTH \/ terminal_col = U16 - 1
         /\ TypeOK
<1>1. U16 \in Nat \ {0}
  BY Sizes
<1>2. TypeOK /\ ColumnInRange
  BY DEF Inv
<1>3. terminal_col \in 0 .. (U16 - 1) /\ terminal_row \in 0 .. (U16 - 1)
  BY <1>2 DEF TypeOK
<1>4. terminal_col \in Nat /\ terminal_row \in Nat
  BY <1>1, <1>3
<1> QED BY <1>2, <1>3, <1>4 DEF ColumnInRange

(* A cell far to the right, or in a row numbered past the screen, is off   *)
(* the screen.                                                             *)
LEMMA FarAway ==
  ASSUME NEW row \in Nat, NEW col \in Nat, col = U16 - 1 \/ row = U16 - 1
  PROVE  CellAt(col, row) \notin Cells
<1>1. PICK n \in Nat : Cells = 0 .. (n - 1) /\ n < U16
  BY Screen
<1>2. CellAt(0, row) \in Nat /\ row <= CellAt(0, row) /\ CellAt(col, row) = CellAt(0, row) + col
  BY RowStart, InRow
<1>3. U16 \in Nat \ {0}
  BY Sizes
<1> QED BY <1>1, <1>2, <1>3

-----------------------------------------------------------------------------
(* The steps.  Each is first brought to a closed form of the new cursor.   *)

(* What is left to show once a step's new cursor is known.                 *)
LEMMA InvFromParts ==
  ASSUME video_mem' \in [Cells -> Chars], off_screen' \in BOOLEAN,
         terminal_col' \in 0 .. (VGA_WIDTH - 1) \cup {U16 - 1},
         terminal_row' \in 0 .. (U16 - 1),
         BlankFromThere'
  PROVE  Inv'
<1>1. VGA_WIDTH \in Nat \ {0} /\ U16 \in Nat \ {0} /\ VGA_WIDTH < U16
  BY Sizes
<1>2. terminal_col' \in 0 .. (U16 - 1)
  BY <1>1
<1>3. ColumnInRange'
  BY <1>1 DEF ColumnInRange
<1>4. TypeOK'
  BY <1>2 DEF TypeOK
<1> QED BY <1>3, <1>4 DEF Inv

(* A printable character moves the cursor to the next cell.                *)
LEMMA GlyphInv ==
  ASSUME Inv, NEW c \in Chars, write_glyph(c)
  PROVE  Inv'
<1> DEFINE col == terminal_col
           row == terminal_row
           here == CellAt(col, row)
<1>1. terminal_putchar(col, row, c) /\ SetCursor(advance(col, row))
  BY DEF write_glyph
<1>2. /\ col \in 0 .. (U16 - 1) /\ row \in 0 .. (U16 - 1) /\ col \in Nat /\ row \in Nat
      /\ col < VGA_WIDTH \/ col = U16 - 1
      /\ TypeOK
  BY CursorTypes
<1>3. /\ video_mem' \in [Cells -> Chars] /\ off_screen' \in BOOLEAN
      /\ off_screen => off_screen'
      /\ here \notin Cells => off_screen'
      /\ \A i \in Cells : i # here => video_mem'[i] = video_mem[i]
  BY <1>1, <1>2, Putchar
<1>4. /\ VGA_WIDTH \in Nat \ {0} /\ U16 \in Nat \ {0} /\ VGA_WIDTH < U16
  BY Sizes
<1>5. terminal_col' = advance(col, row).col /\ terminal_row' = advance(col, row).row
  BY <1>1 DEF SetCursor
<1>6. CASE col = U16 - 1 \/ row = U16 - 1
  <2>1. off_screen'
    BY <1>2, <1>3, <1>6, FarAway
  <2>2. terminal_col' \in 0 .. (VGA_WIDTH - 1) /\ terminal_row' \in 0 .. (U16 - 1)
    <3>1. CASE col = U16 - 1
      <4>1. advance(col, row) = [col |-> 0, row |-> row]
        BY <1>2, <3>1, Advance
      <4> QED BY <1>2, <1>4, <1>5, <4>1
    <3>2. CASE col # U16 - 1 /\ col + 1 < VGA_WIDTH
      <4>1. advance(col, row) = [col |-> col + 1, row |-> row]
        BY <1>2, <3>2, Advance
      <4> QED BY <1>2, <1>4, <1>5, <3>2, <4>1
    <3>3. CASE col # U16 - 1 /\ VGA_WIDTH <= col + 1
      <4>1. advance(col, row) = [col |-> 0, row |-> IF row = U16 - 1 THEN 0 ELSE row + 1]
        BY <1>2, <3>3, Advance
      <4> QED BY <1>2, <1>4, <1>5, <4>1
    <3> QED BY <1>2, <1>4, <3>1, <3>2, <3>3
  <2> QED BY <1>3, <2>1, <2>2, InvFromParts DEF BlankFromThere
<1>7. CASE col # U16 - 1 /\ row # U16 - 1
  <2>1. col < VGA_WIDTH
    BY <1>2, <1>7
  <2>2. /\ CellAt(0, row) \in Nat /\ CellAt(0, row + 1) = CellAt(0, row) + VGA_WIDTH
        /\ here = CellAt(0, row) + col
    BY <1>2, RowStart, InRow
  <2>3. BlankFrom = here
    BY <2>1 DEF BlankFrom, Cursor
  <2>4. /\ terminal_col' \in 0 .. (VGA_WIDTH - 1) /\ terminal_row' \in 0 .. (U16 - 1)
        /\ CellAt(terminal_col', terminal_row') = here + 1
    <3>1. CASE col + 1 < VGA_WIDTH
      <4>1. advance(col, row) = [col |-> col + 1, row |-> row]
        BY <1>2, <3>1, Advance
      <4>2. terminal_col' = col + 1 /\ terminal_row' = row
        BY <1>5, <4>1
      <4>3. col + 1 \in Nat
        BY <1>2
      <4>4. CellAt(col + 1, row) = CellAt(0, row) + (col + 1)
        BY <1>2, <4>3, InRow
      <4>5. CellAt(col + 1, row) = here + 1
        BY <1>2, <2>2, <4>4
      <4>6. col + 1 \in 0 .. (VGA_WIDTH - 1)
        BY <1>2, <1>4, <3>1
      <4> QED BY <1>2, <4>2, <4>5, <4>6
    <3>2. CASE VGA_WIDTH <= col + 1
      <4>1. advance(col, row) = [col |-> 0, row |-> IF row = U16 - 1 THEN 0 ELSE row + 1]
        BY <1>2, <1>7, <3>2, Advance
      <4>2. terminal_col' = 0 /\ terminal_row' = row + 1
        BY <1>5, <1>7, <4>1
      <4>3. CellAt(0, row + 1) = here + 1
        BY <1>2, <1>4, <2>1, <2>2, <3>2
      <4>4. row + 1 \in 0 .. (U16 - 1) /\ 0 \in 0 .. (VGA_WIDTH - 1)
        BY <1>2, <1>4, <1>7
      <4> QED BY <4>2, <4>3, <4>4
    <3> QED BY <1>2, <1>4, <3>1, <3>2
  <2>5. BlankFrom' = here + 1
    BY <1>4, <2>4 DEF BlankFrom, Cursor
  <2>6. BlankFromThere'
    <3>1. \A i \in Cells : i \in Int
      BY Screen
    <3>2. here \in Int
      BY <1>2, <2>2
    <3>3. ~off_screen => \A i \in Cells : i >= here => video_mem[i] = Blank
      BY <2>3 DEF Inv, BlankFromThere
    <3> HIDE DEF here
    <3>4. ~off_screen' => \A i \in Cells : i >= here + 1 => video_mem'[i] = Blank
      BY <1>3, <3>1, <3>2, <3>3
    <3> QED BY <2>5, <3>4 DEF BlankFromThere
  <2> QED BY <1>3, <2>4, <2>6, InvFromParts
<1> QED BY <1>6, <1>7

(* A newline moves the cursor to the start of the next row, which is not   *)
(* before the cell the screen is blank from.                               *)
LEMMA NewlineInv ==
  ASSUME Inv, write_newline
  PROVE  Inv'
<1> DEFINE col == terminal_col
           row == terminal_row
<1>1. /\ terminal_row' = (row + 1) % U16 /\ terminal_col' = 0 /\ video_mem' = video_mem
      /\ off_screen' = (off_screen \/ row + 1 = U16)
  BY DEF write_newline
<1>2. /\ col \in 0 .. (U16 - 1) /\ row \in 0 .. (U16 - 1) /\ col \in Nat /\ row \in Nat
      /\ TypeOK
  BY CursorTypes
<1>3. /\ VGA_WIDTH \in Nat \ {0} /\ U16 \in Nat \ {0} /\ VGA_WIDTH < U16
  BY Sizes
<1>4. terminal_row' = IF row = U16 - 1 THEN 0 ELSE row + 1
  BY <1>1, <1>2, Up
<1>5. /\ terminal_col' \in 0 .. (VGA_WIDTH - 1) /\ terminal_row' \in 0 .. (U16 - 1)
  BY <1>1, <1>2, <1>3, <1>4
<1>6. off_screen' \in BOOLEAN /\ video_mem' \in [Cells -> Chars]
  BY <1>1, <1>2 DEF TypeOK
<1>7. BlankFromThere'
  <2>1. SUFFICES ASSUME ~off_screen'
                 PROVE  \A i \in Cells : i >= BlankFrom' => video_mem'[i] = Blank
    BY DEF BlankFromThere
  <2>2. ~off_screen /\ row + 1 # U16
    BY <1>1, <2>1
  <2>3. terminal_row' = row + 1
    BY <1>2, <1>3, <1>4, <2>2
  <2>4. BlankFrom' = CellAt(0, row + 1)
    BY <1>1, <1>3, <2>3 DEF BlankFrom, Cursor
  <2>5. /\ CellAt(0, row) \in Nat /\ CellAt(0, row + 1) = CellAt(0, row) + VGA_WIDTH
        /\ CellAt(col, row) = CellAt(0, row) + col
    BY <1>2, RowStart, InRow
  <2>6. CellAt(VGA_WIDTH - 1, row) = CellAt(0, row) + (VGA_WIDTH - 1)
    <3>1. VGA_WIDTH - 1 \in Nat
      BY <1>3
    <3> QED BY <1>2, <3>1, InRow
  <2>7. BlankFrom \in Int /\ BlankFrom <= CellAt(0, row) + VGA_WIDTH
    BY <1>2, <1>3, <2>5, <2>6 DEF BlankFrom, Cursor
  <2>8. \A i \in Cells : i \in Int
    BY Screen
  <2>9. \A i \in Cells : i >= BlankFrom => video_mem[i] = Blank
    BY <2>2 DEF Inv, BlankFromThere
  <2>10. BlankFrom' \in Int /\ BlankFrom <= BlankFrom'
    BY <1>3, <2>4, <2>5, <2>7
  <2>11. \A i \in Cells : i >= BlankFrom' => i >= BlankFrom
    BY <2>7, <2>8, <2>10
  <2> QED BY <1>1, <2>9, <2>11
<1> QED BY <1>5, <1>6, <1>7, InvFromParts

(* Writing a blank keeps what was blank; the rest of a backspace is where  *)
(* the cursor goes.                                                        *)
LEMMA BlankWritten ==
  ASSUME Inv, NEW x \in Nat, NEW y \in Nat, terminal_putchar(x, y, Blank),
         terminal_col' \in 0 .. (VGA_WIDTH - 1) \cup {U16 - 1},
         terminal_row' \in 0 .. (U16 - 1),
         off_screen' \/ \A i \in Cells : i >= BlankFrom' => i >= BlankFrom \/ i = CellAt(x, y)
  PROVE  Inv'
<1>1. TypeOK /\ Blank \in Chars
  BY DEF Inv, Chars
<1>2. /\ video_mem' \in [Cells -> Chars] /\ off_screen' \in BOOLEAN
      /\ off_screen => off_screen'
      /\ \A i \in Cells : video_mem[i] = Blank => video_mem'[i] = Blank
      /\ CellAt(x, y) \in Cells => video_mem'[CellAt(x, y)] = Blank
  BY <1>1, Putchar, Zenon
<1>3. BlankFromThere'
  <2>1. ~off_screen => \A i \in Cells : i >= BlankFrom => video_mem[i] = Blank
    BY DEF Inv, BlankFromThere
  <2> QED BY <1>2, <2>1 DEF BlankFromThere
<1> QED BY <1>2, <1>3, InvFromParts

(* The cursor after a backspace, from the one terminal_writechar left.     *)
LEMMA ColumnDown ==
  ASSUME NEW c \in 0 .. (U16 - 1), NEW r \in 0 .. (U16 - 1),
         SetCursor([[col |-> c, row |-> r] EXCEPT !.col = (@ + U16 - 1) % U16])
  PROVE  terminal_col' = (IF c = 0 THEN U16 - 1 ELSE c - 1) /\ terminal_row' = r
<1> DEFINE d == (c + U16 - 1) % U16
<1>1. terminal_col' = d /\ terminal_row' = r
  BY DEF SetCursor
<1> QED BY <1>1, Down

(* terminal_backspace: the cell it blanks is the one before the cursor,    *)
(* and the column it leaves is in its row or, at the start of a row, the   *)
(* largest counter.                                                        *)
LEMMA BackspaceInv ==
  ASSUME Inv, terminal_backspace
  PROVE  Inv'
<1> DEFINE col == terminal_col
           row == terminal_row
           cur == back_one(col, row)
           aft == advance(cur.col, cur.row)
<1>1. /\ ~(row = 0 /\ col = 0)
      /\ terminal_putchar(cur.col, cur.row, Blank)
      /\ SetCursor([aft EXCEPT !.col = (@ + U16 - 1) % U16])
  BY DEF terminal_backspace
<1>2. /\ col \in 0 .. (U16 - 1) /\ row \in 0 .. (U16 - 1) /\ col \in Nat /\ row \in Nat
      /\ col < VGA_WIDTH \/ col = U16 - 1
      /\ TypeOK
  BY CursorTypes
<1>3. /\ VGA_WIDTH \in Nat \ {0} /\ U16 \in Nat \ {0} /\ VGA_WIDTH < U16
      /\ VGA_WIDTH - 1 \in Nat /\ VGA_WIDTH - 1 \in 0 .. (U16 - 1)
      /\ 0 \in 0 .. (U16 - 1)
  BY Sizes
<1>4. \A i \in Cells : i \in Int
  BY Screen
<1>5. /\ CellAt(0, row) \in Nat /\ CellAt(col, row) = CellAt(0, row) + col
      /\ CellAt(VGA_WIDTH - 1, row) = CellAt(0, row) + (VGA_WIDTH - 1)
      /\ CellAt(0, row + 1) = CellAt(0, row) + VGA_WIDTH
  BY <1>2, <1>3, RowStart, InRow
<1>6. CASE col = 0
  <2>1. cur = [col |-> VGA_WIDTH - 1, row |-> row - 1]
    BY <1>6 DEF back_one
  <2>2. row - 1 \in Nat /\ row - 1 \in 0 .. (U16 - 1) /\ row - 1 # U16 - 1
    BY <1>1, <1>2, <1>3, <1>6
  <2>3. VGA_WIDTH <= (VGA_WIDTH - 1) + 1 /\ VGA_WIDTH - 1 # U16 - 1 /\ (row - 1) + 1 = row
    BY <1>2, <1>3
  <2>4. advance(VGA_WIDTH - 1, row - 1) = [col |-> 0, row |-> row]
    BY <1>3, <2>2, <2>3, Advance
  <2>5. terminal_putchar(VGA_WIDTH - 1, row - 1, Blank) /\ aft = [col |-> 0, row |-> row]
    BY <1>1, <2>1, <2>4
  <2>6. terminal_col' = U16 - 1 /\ terminal_row' = row
    <3>1. SetCursor([[col |-> 0, row |-> row] EXCEPT !.col = (@ + U16 - 1) % U16])
      BY <1>1, <2>5
    <3> QED BY <1>2, <1>3, <3>1, ColumnDown
  <2>7. BlankFrom = CellAt(0, row) /\ BlankFrom' = CellAt(VGA_WIDTH - 1, row)
    BY <1>2, <1>3, <1>6, <2>6 DEF BlankFrom, Cursor
  <2>8. \A i \in Cells : i >= BlankFrom' => i >= BlankFrom
    BY <1>3, <1>4, <1>5, <2>7
  <2> QED BY <1>2, <1>3, <2>2, <2>5, <2>6, <2>8, BlankWritten
<1>7. CASE col # 0 /\ col # U16 - 1
  <2>1. cur = [col |-> col - 1, row |-> row]
    BY <1>7 DEF back_one
  <2>2. /\ col < VGA_WIDTH /\ col - 1 \in Nat /\ col - 1 \in 0 .. (U16 - 1)
        /\ (col - 1) + 1 = col /\ col - 1 \in 0 .. (VGA_WIDTH - 1)
    BY <1>2, <1>3, <1>7
  <2>3. advance(col - 1, row) = [col |-> col, row |-> row]
    BY <1>2, <2>2, Advance
  <2>4. terminal_putchar(col - 1, row, Blank) /\ aft = [col |-> col, row |-> row]
    BY <1>1, <2>1, <2>3
  <2>5. terminal_col' = col - 1 /\ terminal_row' = row
    <3>1. SetCursor([[col |-> col, row |-> row] EXCEPT !.col = (@ + U16 - 1) % U16])
      BY <1>1, <2>4
    <3> QED BY <1>2, <1>7, <3>1, ColumnDown
  <2>6. CellAt(col - 1, row) = CellAt(0, row) + (col - 1)
    BY <1>2, <2>2, InRow
  <2>7. BlankFrom = CellAt(col, row) /\ BlankFrom' = CellAt(col - 1, row)
    BY <1>2, <1>3, <2>2, <2>5 DEF BlankFrom, Cursor
  <2>8. \A i \in Cells : i >= BlankFrom' => i >= BlankFrom \/ i = CellAt(col - 1, row)
    BY <1>2, <1>4, <1>5, <2>6, <2>7
  <2> QED BY <1>2, <2>2, <2>4, <2>5, <2>8, BlankWritten
<1>8. CASE col = U16 - 1
  <2>1. cur = [col |-> col - 1, row |-> row]
    BY <1>3, <1>8 DEF back_one
  <2>2. /\ col - 1 \in Nat /\ col - 1 \in 0 .. (U16 - 1)
        /\ VGA_WIDTH <= (col - 1) + 1 /\ col - 1 # U16 - 1
    BY <1>2, <1>3, <1>8
  <2> DEFINE down == IF row = U16 - 1 THEN 0 ELSE row + 1
  <2>3. advance(col - 1, row) = [col |-> 0, row |-> down]
    BY <1>2, <2>2, Advance
  <2>4. down \in 0 .. (U16 - 1)
    BY <1>2, <1>3
  <2>5. terminal_putchar(col - 1, row, Blank) /\ aft = [col |-> 0, row |-> down]
    BY <1>1, <2>1, <2>3
  <2>6. terminal_col' = U16 - 1 /\ terminal_row' = down
    <3>1. SetCursor([[col |-> 0, row |-> down] EXCEPT !.col = (@ + U16 - 1) % U16])
      BY <1>1, <2>5
    <3> HIDE DEF down
    <3> QED BY <1>3, <2>4, <3>1, ColumnDown
  <2>7. off_screen' \/ \A i \in Cells : i >= BlankFrom' => i >= BlankFrom
    <3>1. CASE row = U16 - 1
      <4>1. CellAt(col - 1, row) \notin Cells
        BY <1>2, <2>2, <3>1, FarAway
      <4>2. Blank \in Chars
        BY DEF Chars
      <4> QED BY <1>2, <2>2, <2>5, <4>1, <4>2, Putchar
    <3>2. CASE row # U16 - 1
      <4>1. terminal_row' = row + 1 /\ row + 1 \in Nat
        BY <1>2, <2>6, <3>2
      <4>2. /\ CellAt(VGA_WIDTH - 1, row + 1) = CellAt(0, row + 1) + (VGA_WIDTH - 1)
        BY <1>3, <4>1, InRow
      <4>3. BlankFrom = CellAt(VGA_WIDTH - 1, row) /\ BlankFrom' = CellAt(VGA_WIDTH - 1, row + 1)
        BY <1>2, <1>3, <1>8, <2>6, <4>1 DEF BlankFrom
      <4> QED BY <1>3, <1>4, <1>5, <4>2, <4>3
    <3> QED BY <3>1, <3>2
  <2> QED BY <1>2, <2>2, <2>4, <2>5, <2>6, <2>7, BlankWritten
<1> QED BY <1>6, <1>7, <1>8

-----------------------------------------------------------------------------

(* terminal_initialise leaves a blank screen.                              *)
LEMMA InitInv == terminal_init => Inv
<1> SUFFICES ASSUME terminal_init PROVE Inv
  OBVIOUS
<1>1. VGA_WIDTH \in Nat \ {0} /\ U16 \in Nat \ {0} /\ VGA_WIDTH < U16
  BY Sizes
<1>2. terminal_row \in 0 .. (U16 - 1) /\ terminal_col \in 0 .. (U16 - 1) /\ ColumnInRange
  BY <1>1 DEF terminal_init, ColumnInRange
<1>3. video_mem \in [Cells -> Chars] /\ off_screen \in BOOLEAN /\ BlankFromThere
  BY DEF terminal_init, Chars, BlankFromThere
<1> QED BY <1>2, <1>3 DEF Inv, TypeOK

(* Every character that is written keeps the invariant.                    *)
LEMMA NextInv ==
  ASSUME Inv, [terminal_writechar]_vars
  PROVE  Inv'
<1>1. CASE write_newline
  BY <1>1, NewlineInv
<1>2. CASE terminal_backspace
  BY <1>2, BackspaceInv
<1>3. ASSUME NEW c \in Chars, write_glyph(c) PROVE Inv'
  BY <1>3, GlyphInv
<1>4. CASE UNCHANGED vars
  BY <1>4 DEF Inv, TypeOK, ColumnInRange, BlankFromThere, BlankFrom, Cursor, vars
<1>5. CASE backspace_at_origin
  BY <1>4, <1>5 DEF backspace_at_origin
<1> QED BY <1>1, <1>2, <1>3, <1>4, <1>5 DEF terminal_writechar

(* The cursor counters and the cells of the screen keep Inv whatever is    *)
(* printed.                                                                *)
THEOREM TerminalInvariant == Spec => []Inv
BY InitInv, NextInv, PTL DEF Spec

(* terminal_row and terminal_col stay in their 16 bits and the cells hold  *)
(* characters.                                                             *)
THEOREM TerminalTypeOK == Spec => []TypeOK
<1>1. Inv => TypeOK
  BY DEF Inv
<1> QED BY <1>1, TerminalInvariant, PTL

(* On a screen of any size, as long as nothing was written outside it, the *)
(* screen is blank from the cursor on: what terminal_writechar and         *)
(* terminal_backspace leave is never overwritten by the next character.    *)
THEOREM TerminalBlankAhead == Spec => []BlankAhead
<1>1. ASSUME Inv PROVE BlankAhead
  <2>1. /\ terminal_col \in Nat /\ terminal_row \in Nat
        /\ terminal_col < VGA_WIDTH \/ terminal_col = U16 - 1
    BY <1>1, CursorTypes
  <2>2. VGA_WIDTH \in Nat \ {0} /\ U16 \in Nat /\ VGA_WIDTH < U16 /\ VGA_WIDTH - 1 \in Nat
    BY Sizes
  <2>3. /\ CellAt(0, terminal_row) \in Nat /\ Cursor = CellAt(0, terminal_row) + terminal_col
        /\ CellAt(VGA_WIDTH - 1, terminal_row) = CellAt(0, terminal_row) + (VGA_WIDTH - 1)
    BY <2>1, <2>2, RowStart, InRow DEF Cursor
  <2>4. BlankFrom \in Int /\ Cursor \in Int /\ BlankFrom <= Cursor
    BY <2>1, <2>2, <2>3 DEF BlankFrom
  <2>5. \A i \in Cells : i \in Int
    BY Screen
  <2>6. \A i \in Cells : i >= Cursor => i >= BlankFrom
    BY <2>4, <2>5
  <2> QED BY <1>1, <2>6 DEF Inv, BlankFromThere, BlankAhead
<1> QED BY <1>1, TerminalInvariant, PTL

=============================================================================
