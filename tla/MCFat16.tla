------------------------------ MODULE MCFat16 ------------------------------
(* Instance of Fat16 for TLC.  A sector is two cells and a cluster four.   *)
(* Every disk has its header in cells 0 to 5, two copies of a table of six *)
(* entries from 6 on, a root directory of four items from 18 on, and the   *)
(* clusters 2 to 5 in the cells 22 to 37.                                  *)
EXTENDS Fat16, TLC

MCStreams == {"header", "directory", "fat", "cluster"}

Item(filename, ext, attribute, cluster, filesize) ==
  [filename |-> filename, ext |-> ext, attribute |-> attribute,
   cluster |-> cluster, filesize |-> filesize]

MCItems ==
  0 :> Item(<<"NUL", "NUL">>, <<"NUL">>, "NUL", 0, 0) @@
  1 :> Item(<<"A", " ">>, <<" ">>, " ", 2, 7) @@      \* clusters 2 and 4
  2 :> Item(<<"B", "A">>, <<" ">>, " ", 3, 4) @@      \* cluster 3
  3 :> Item(<<"D", " ">>, <<" ">>, "dir", 5, 0) @@    \* cluster 5
  4 :> Item(<<"A", "B">>, <<"A">>, " ", 4, 8) @@      \* clusters 4 and 5, a full name
  5 :> Item(<<"e5", "A">>, <<" ">>, " ", 3, 4) @@     \* deleted
  6 :> Item(<<"B", " ">>, <<"A">>, " ", 5, 4) @@      \* cluster 5, to the last cell
  7 :> Item(<<"A", " ">>, <<"A">>, "ro", 3, 2) @@     \* a full extension, read only
  8 :> Item(<<"D", " ">>, <<" ">>, "label", 0, 0) @@  \* the label of the volume
  9 :> Item(<<"D", " ">>, <<" ">>, "dir", 4, 0) @@    \* clusters 4 and 5
  10 :> Item(<<"NUL", "NUL">>, <<"NUL">>, " ", 2, 3)  \* an item in memory, zeroed in part

MCLowerCase == "A" :> "a" @@ "B" :> "b" @@ "D" :> "d"
MCDigits == "0" :> 0 @@ "1" :> 1

(* The table: cluster 2 goes on in 4, or 4 in 5.                           *)
Table(e2, e4) == <<\hfff8, \hffff, e2, \hffff, e4, \hffff>>
Data(cluster) == [i \in 1 .. 4 |-> 10 * cluster + i]

Image(signature, fat, items, c2, c4, c5) ==
  LET cells == <<2, 3, 2, 4, 3, signature>> \o fat \o fat \o items
                 \o c2 \o Data(3) \o c4 \o c5
  IN  [i \in 0 .. 37 |-> cells[i + 1]]

MCDisks ==
  { \* files and a subdirectory, in order
    Image(41, Table(4, \hffff), <<1, 2, 3, 0>>, Data(2), Data(4), <<6, 0, 0, 0>>),
    \* a deleted item before live ones
    Image(41, Table(4, \hffff), <<5, 1, 6, 0>>, Data(2), Data(4), Data(5)),
    \* the label bears the name of a directory, which is longer than a
    \* cluster; the data holds a mark of FAT12 where the walk looks for it
    Image(41, Table(\hffff, 5), <<8, 9, 7, 0>>, <<21, 22, \hff8, 24>>, <<1, 2, 6, 7>>, <<5, 0, 0, 0>>),
    \* a full root directory with a zero behind it, names that fill their field
    Image(41, Table(\hffff, 5), <<6, 2, 7, 4>>, <<0, 22, 3, 24>>, Data(4), Data(5)),
    \* a full root directory and no zero up to the end of the disk
    Image(41, Table(4, \hffff), <<1, 2, 6, 7>>, Data(2), Data(4), Data(5)),
    \* a full root directory, then a cell of data and a zero
    Image(41, Table(4, \hffff), <<6, 2, 1, 3>>, <<21, 0, 23, 24>>, <<0, 42, 43, 44>>, <<0, 52, 53, 54>>),
    \* not a FAT16 disk
    Image(0, Table(4, \hffff), <<1, 2, 0, 0>>, Data(2), Data(4), Data(5)) }

(* Short paths, with and without a drive, made of the characters the       *)
(* parser tells apart; and the names of the directories above.             *)
MCPaths ==
  UNION {{<<"0", ":", "/">> \o p : p \in [1 .. n -> {"a", "/", "B"}]} : n \in 0 .. 3}
    \cup UNION {[1 .. n -> {"0", ":", "/", "a"}] : n \in 0 .. 3}
    \cup {<<"0", ":", "/", "d">>, <<"0", ":", "/", "D", "/", "b", ".", "a">>,
          <<"0", ":", "/", "b", ".", "A">>, <<"0", ":", "/", "a", ".", "a">>,
          <<"0", ":", "/", "a", "b", ".", "a">>,
          <<"0", ":", "/", "a", "b", "a", ".", "a">>,
          <<"1", ":", "/", "a">>,
          <<"0", ":", "/", "a", "/", "a", "/", "a", "/">>}
=============================================================================
