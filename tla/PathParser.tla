----------------------------- MODULE PathParser -----------------------------
(***************************************************************************)
(* The path parser (src/fs/pparser.c).  A path is a sequence of            *)
(* characters without the terminating '\0'; the parser yields the number   *)
(* of a drive and the parts between the slashes.  No variables: fopen      *)
(* (module Fat16) calls it.                                                *)
(***************************************************************************)
EXTENDS Integers, SequencesExt

CONSTANTS
  Digits,    \* the value of each digit character
  MAX_PATH   \* PEACHOS_MAX_PATH

NoPath == [drive_no |-> -1, parts |-> <<>>]

isdigit(c) == c \in DOMAIN Digits

pathparser_path_valid_format(filename) ==
  /\ Len(filename) >= 3
  /\ isdigit(filename[1])
  /\ SubSeq(filename, 2, 3) = <<":", "/">>

pathparser_get_drive_by_path(path) == Digits[path[1]]

(* Where the part that starts at i ends: before a slash, or with the path. *)
PartEnd(path, i) ==
  Min({Len(path)} \cup {k - 1 : k \in {j \in i .. Len(path) : path[j] = "/"}})

(* Fault: the slash behind a part is not skipped.                          *)
Fault_SlashKept(path, i) ==
  [part |-> SubSeq(path, i, PartEnd(path, i)), next |-> PartEnd(path, i) + 1]

(* The part at i and the place behind the slash that ends it.              *)
pathparser_get_path_part(path, i) ==
  [part |-> SubSeq(path, i, PartEnd(path, i)),
   next |-> Min({PartEnd(path, i) + 2, Len(path) + 1})]

(* The parts from i on.  An empty part ends the list, whatever follows.    *)
pathparser_parse_path_part(path, first) ==
  LET parts[i \in 1 .. (Len(path) + 1)] ==
        LET p == pathparser_get_path_part(path, i)
        IN  IF p.part = <<>> THEN <<>> ELSE <<p.part>> \o parts[p.next]
  IN  parts[first]

(* NoPath stands for the null pointer.                                     *)
pathparser_parse(path) ==
  IF Len(path) > MAX_PATH \/ ~pathparser_path_valid_format(path)
  THEN NoPath
  ELSE [drive_no |-> pathparser_get_drive_by_path(path),
        parts |-> pathparser_parse_path_part(path, 4)]

-----------------------------------------------------------------------------
(* A path by its meaning.  It is cut at every slash from that of the drive *)
(* on, and at its end; what lies between two cuts next to each other is a  *)
(* component.                                                              *)
Cuts(path) == {i \in 3 .. Len(path) : path[i] = "/"} \cup {Len(path) + 1}

(* The parts are the components from the place first on, behind a cut, up  *)
(* to the first empty one or to the end.                                   *)
LeadingComponents(path, first, parts) ==
  \E cut \in [1 .. (Len(parts) + 1) -> Cuts(path)] :
    /\ cut[1] = first - 1
    /\ \A k \in 1 .. Len(parts) :
         /\ cut[k] + 1 < cut[k + 1]
         /\ \A i \in (cut[k] + 1) .. (cut[k + 1] - 1) : i \notin Cuts(path)
         /\ parts[k] = SubSeq(path, cut[k] + 1, cut[k + 1] - 1)
    /\ \/ cut[Len(parts) + 1] = Len(path) + 1
       \/ cut[Len(parts) + 1] + 1 \in Cuts(path)

=============================================================================
