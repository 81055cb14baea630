CONSTANTS
  VGA_WIDTH = 3
  VGA_HEIGHT = 2
  U16 = 8
  Glyphs = {"a", "b"}
SPECIFICATION Spec
INVARIANTS TypeOK BlankAhead
