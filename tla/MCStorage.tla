----------------------------- MODULE MCStorage ------------------------------
(***************************************************************************)
(* The file system under the calls on files (part "files"), those on       *)
(* directories ("dirs") and the loader ("boot"), on small cards: a sector  *)
(* is four bytes and two directory entries.                                *)
(***************************************************************************)
EXTENDS FatFs

VARIABLE part

vars == <<part, fatVars, bootVars>>

Blank == [EndEntry EXCEPT !.c = "deleted"]
Dot == [EndEntry EXCEPT !.c = "dot", !.dir = TRUE]
Label == [EndEntry EXCEPT !.c = "name", !.vol = TRUE, !.name = <<<<"B">>, <<"E">>>>]
File(name, clust, size) ==
  [EndEntry EXCEPT !.c = "name", !.name = name, !.clust = clust, !.size = size]
Folder(name, clust) == [File(name, clust, 0) EXCEPT !.dir = TRUE]
BE == <<<<"B">>, <<"E">>>>
Load(offset, vaddr, filesz, memsz) ==
  [type |-> 1, offset |-> offset, vaddr |-> vaddr, filesz |-> filesz, memsz |-> memsz]
Note == [type |-> 4, offset |-> 0, vaddr |-> 0, filesz |-> 2, memsz |-> 2]

\* FAT12 without partitions, two sectors a cluster, a full root directory.
Fat12 ==
  [boot |-> [s \in {0} |-> 0], tbl |-> 0,
   bpb |-> [BytsPerSec |-> 4, FATSz |-> 3, NumFATs |-> 2, SecPerClus |-> 2, RootEntCnt |-> 4,
            TotSec |-> 19, RsvdSecCnt |-> 1, RootClus |-> 0],
   fat |-> [c \in 2 .. 6 |-> CASE c = 2 -> 4 [] c = 3 -> 5 [] OTHER -> EOC],
   dir |-> [s \in {7, 8, 9, 10, 13} |->
              CASE s = 7 -> <<Label, Blank>>
                [] s = 8 -> <<File(BE, 3, 14), Folder(<<<<"D">>, <<>>>>, 2)>>
                [] s = 9 -> <<Dot, Dot>>
                [] s = 10 -> <<Blank, File(<<<<"A">>, <<>>>>, 0, 0)>>
                [] s = 13 -> <<File(<<<<"F">>, <<>>>>, 6, 3), EndEntry>>],
   elf |-> [magic |-> TRUE, phdrs |-> <<Load(4, 0, 7, 9), Load(11, 10, 3, 3)>>]]

\* FAT16 in a partition.
Fat16 ==
  [boot |-> [s \in {0, 1} |-> 1 - s], tbl |-> 1,
   bpb |-> [BytsPerSec |-> 4, FATSz |-> 4, NumFATs |-> 1, SecPerClus |-> 1, RootEntCnt |-> 2,
            TotSec |-> 12, RsvdSecCnt |-> 1, RootClus |-> 0],
   fat |-> [c \in {2, 4, 7} |-> CASE c = 4 -> 2 [] c = 2 -> 7 [] OTHER -> EOC],
   dir |-> [s \in {6} |-> <<File(BE, 4, 11), EndEntry>>],
   elf |-> [magic |-> TRUE, phdrs |-> <<Note, Load(3, 1, 8, 8)>>]]

\* FAT32: the root directory is a chain of clusters.
Fat32 ==
  [boot |-> [s \in {0} |-> 0], tbl |-> 0,
   bpb |-> [BytsPerSec |-> 4, FATSz |-> 10, NumFATs |-> 1, SecPerClus |-> 1, RootEntCnt |-> 0,
            TotSec |-> 19, RsvdSecCnt |-> 1, RootClus |-> 5],
   fat |-> [c \in {2, 3, 5, 6} |-> IF c = 5 THEN 3 ELSE EOC],
   dir |-> [s \in {12, 14, 15} |->
              CASE s = 14 -> <<Blank, Folder(<<<<"D">>, <<>>>>, 6)>>
                [] s = 12 -> <<File(BE, 2, 4), EndEntry>>
                [] s = 15 -> <<Dot, Dot>>],
   elf |-> [magic |-> FALSE, phdrs |-> <<>>]]

\* A chain that breaks off, a directory chain that does, a file cut short.
Broken(fat16) == [fat16 EXCEPT !.fat = [c \in {2, 4, 7} |-> IF c = 4 THEN 2 ELSE 0]]
BrokenDir(fat12) == [fat12 EXCEPT !.fat[2] = 1]
Short(fat12) == [fat12 EXCEPT !.dir[8] = <<File(BE, 3, 1), Folder(<<<<"D">>, <<>>>>, 2)>>]

\* Volumes the file system refuses, one for each reason.
Refused(fat12, fat32) ==
  <<[fat12 EXCEPT !.boot[0] = 2], [fat12 EXCEPT !.boot[0] = 1],
    [fat12 EXCEPT !.bpb.BytsPerSec = 8], [fat12 EXCEPT !.bpb.NumFATs = 3],
    [fat12 EXCEPT !.bpb.SecPerClus = 3], [fat12 EXCEPT !.bpb.RootEntCnt = 3],
    [fat12 EXCEPT !.bpb.RsvdSecCnt = 0], [fat12 EXCEPT !.bpb.TotSec = 8],
    [fat12 EXCEPT !.bpb.TotSec = 10], [fat12 EXCEPT !.bpb.RootEntCnt = 0],
    [fat32 EXCEPT !.bpb.RootEntCnt = 2, !.bpb.TotSec = 22], [fat12 EXCEPT !.bpb.FATSz = 2]>>

Images(fat12, fat16, fat32) ==
  <<fat12, fat16, fat32, Broken(fat16), BrokenDir(fat12), Short(fat12)>> \o Refused(fat12, fat32)
MCCards == Images(Fat12, Fat16, Fat32)

Of(segs) == [drive |-> 0, segs |-> segs]
MCPaths == {Of(<<>>), Of(<<<<"b", ".", "e">>>>), Of(<<<<"d">>>>), Of(<<<<"d">>, <<"f">>>>),
            Of(<<<<"b", ".", "e">>, <<"f">>>>), Of(<<<<"*">>>>), [drive |-> 1, segs |-> <<>>]}
MCDirPaths == {Of(<<>>), Of(<<<<"b", ".", "e">>>>), Of(<<<<"d">>>>)}
MCBootPath == Of(<<<<"b", ".", "e">>>>)
MCLengths == {3, 9}
MCOffsets == {0, 5, 13}
MCSpares == 2 .. 3
MCMemory == 0 .. 12

Init == FatInit /\ BootInit /\ part \in {"files", "dirs", "boot"}

Next ==
  /\ UNCHANGED part
  /\ \/ part = "files" /\ FileNext /\ UNCHANGED bootVars
     \/ part = "dirs" /\ DirNext /\ UNCHANGED bootVars
     \/ part = "boot" /\ BootNext

Spec == Init /\ [][Next]_vars
-----------------------------------------------------------------------------
\* The calls tell what is on the card, although any access to it may fail and
\* the card is changed between mounts: f_open finds the file (follow_path,
\* dir_find), f_read delivers its bytes from the file pointer on (f_read,
\* f_lseek), f_readdir its objects in order (dir_read, dir_next).
FilesTrue == right /\ ListsRight

\* A program that is whole on the card is started with all of it in memory
\* (bootelf).
BootTrue == part = "boot" => BootsProgram
=============================================================================
