------------------------------- MODULE FatFs --------------------------------
(***************************************************************************)
(* The FAT file system of sdloader (ff.c) as ffconf.h builds it: read      *)
(* only, short names, one volume, a sector buffer per file.  A sector's    *)
(* content never changes, so a buffer is modelled by which sector of which *)
(* card it holds, and a byte by its place on the card.  Any access to the  *)
(* card may fail (mmc_init, mmc_read_block); a failed read leaves the      *)
(* buffer alone.                                                           *)
(***************************************************************************)
EXTENDS Integers, Sequences, FiniteSets, FiniteSetsExt

CONSTANTS SS, SZ_DIR,            \* bytes of a sector, of a directory entry
          MIN_FAT16, MIN_FAT32,  \* clusters from which a volume is FAT16, FAT32
          Cards,                 \* the images of the cards
          Spares,                \* the cards there are to change to
          Paths, DirPaths, Lengths, Offsets,
          MaxReads,              \* accesses of one call that may be the failing one
          MaxMounts

VARIABLES card,    \* the card in the slot
          fs,      \* the FATFS object, with FatFs[0] in enabled
          fil,     \* a FIL object
          dj,      \* a DIR object
          right,   \* history: f_open and f_read only told what is on the card
          listed   \* history: what f_readdir told since the last rewind

fatVars == <<card, fs, fil, dj, right, listed>>

DiskErr == 1000000    \* 0xFFFFFFFF
EOC == 60000          \* an end of chain mark
EPS == SS \div SZ_DIR \* entries of a directory sector
None == "none"

\* The content of a sector, as a directory sector.
EndEntry == [c |-> "end", vol |-> FALSE, dir |-> FALSE, name |-> <<>>, clust |-> 0, size |-> 0]
SectorEntries(c, sect) ==
  IF sect \in DOMAIN c.dir THEN c.dir[sect] ELSE [i \in 1 .. EPS |-> EndEntry]
Entries(at) == SectorEntries(Cards[at[1]], at[2])
-----------------------------------------------------------------------------
\* The functions of ff.c take and return the FATFS object; res is the FRESULT
\* they return, val the number, left the accesses to the card that go well
\* before one fails (none when negative).
Ret(f, res) == [f EXCEPT !.res = res]
Val(f, v) == [f EXCEPT !.val = v]

disk_read(f, n) == [f EXCEPT !.left = @ - n, !.ok = ~(0 <= f.left /\ f.left < n)]
disk_initialize(f) == disk_read(f, 1)

move_window(f, sector) ==
  IF sector \in {0, f.winsect} THEN [f EXCEPT !.ok = TRUE]
  ELSE LET r == disk_read(f, 1)
       IN  IF r.ok THEN [r EXCEPT !.winsect = sector, !.win = <<card, sector>>] ELSE r

clust2sect(f, clst) ==
  IF clst < 2 \/ clst >= f.n_fatent THEN 0 ELSE (clst - 2) * f.csize + f.database

\* What a window over the FAT says of a cluster: of any other sector, nothing.
FatCell(fat, clst) == IF clst \in DOMAIN fat THEN fat[clst] ELSE 1
FatEntry(at, sector, clst) == IF at[2] = sector THEN FatCell(Cards[at[1]].fat, clst) ELSE 1

\* The sectors of the first and the last byte of a cluster's entry.
FirstSector(f, clst) ==
  f.fatbase + (CASE f.fs_type = "FAT12" -> clst + clst \div 2
                 [] f.fs_type = "FAT16" -> clst * 2
                 [] f.fs_type = "FAT32" -> clst * 4) \div SS
LastSector(f, clst) ==
  IF f.fs_type = "FAT12" THEN f.fatbase + (clst + clst \div 2 + 1) \div SS ELSE FirstSector(f, clst)

EntryRead(f, clst) ==
  Val(f, IF f.ok THEN FatEntry(f.win, LastSector(f, clst), clst) ELSE DiskErr)
SecondByte(f, clst) == IF f.ok THEN move_window(f, LastSector(f, clst)) ELSE f

get_fat(f, clst) ==
  IF clst < 2 \/ clst >= f.n_fatent THEN Val(f, 1)
  ELSE EntryRead(SecondByte(move_window(f, FirstSector(f, clst)), clst), clst)
-----------------------------------------------------------------------------
\* Mounting.
BootRecord(boot, sect) == IF sect \in DOMAIN boot THEN boot[sect] ELSE 2
check_fs(f, sect) ==
  LET r == disk_read(f, 1)
  IN  IF ~r.ok THEN Val(r, 3)
      ELSE [Val(r, BootRecord(Cards[card].boot, sect)) EXCEPT !.win = <<card, sect>>]

SystemSectors(b) == b.RsvdSecCnt + b.FATSz * b.NumFATs + b.RootEntCnt \div EPS
Clusters(b) == (b.TotSec - SystemSectors(b)) \div b.SecPerClus
SubType(b) == IF Clusters(b) >= MIN_FAT32 THEN "FAT32"
              ELSE IF Clusters(b) >= MIN_FAT16 THEN "FAT16" ELSE "FAT12"
FatBytes(b) ==
  LET n == Clusters(b) + 2
  IN  CASE SubType(b) = "FAT32" -> n * 4
        [] SubType(b) = "FAT16" -> n * 2
        [] SubType(b) = "FAT12" -> ((n * 3) \div 2) + (n % 2)

\* A BIOS parameter block the file system can work with.
Sound(b) ==
  /\ b.BytsPerSec = SS
  /\ b.NumFATs \in {1, 2}
  /\ \E e \in 0 .. 7 : b.SecPerClus = 2 ^ e
  /\ b.RootEntCnt % EPS = 0
  /\ b.RsvdSecCnt # 0
  /\ b.TotSec >= SystemSectors(b) /\ Clusters(b) # 0
  /\ (SubType(b) = "FAT32") = (b.RootEntCnt = 0)
  /\ b.FATSz >= (FatBytes(b) + SS - 1) \div SS

\* A slip that leaves the window of the volume before.
InvalidateMutant(f) == f

Invalidate(f) == [f EXCEPT !.winsect = 0]

\* The volume whose boot sector, bsect, is in the window.
Volume(boot, bsect, b) ==
  CASE boot.val = 3 -> Ret(boot, "DISK_ERR")
    [] boot.val \in {1, 2} \/ (boot.val = 0 /\ ~Sound(b)) -> Ret(boot, "NO_FILESYSTEM")
    [] boot.val = 0 /\ Sound(b) ->
         [Invalidate(boot) EXCEPT
            !.res = "OK", !.fs_type = SubType(b), !.id = @ + 1,
            !.csize = b.SecPerClus, !.n_rootdir = b.RootEntCnt,
            !.n_fatent = Clusters(b) + 2,
            !.database = bsect + SystemSectors(b),
            !.fatbase = bsect + b.RsvdSecCnt,
            !.dirbase = IF SubType(b) = "FAT32" THEN b.RootClus
                        ELSE bsect + b.RsvdSecCnt + b.FATSz * b.NumFATs]

\* Sector 0 is the boot sector or leads to the one of the first partition.
Partition(zero, c) ==
  IF zero.val = 1 /\ c.tbl # 0 THEN Volume(check_fs(zero, c.tbl), c.tbl, c.bpb)
  ELSE Volume(zero, 0, c.bpb)

Initialized(f) == IF f.ok THEN Partition(check_fs(f, 0), Cards[card]) ELSE Ret(f, "NOT_READY")

Mount(f) == Initialized(disk_initialize([f EXCEPT !.fs_type = None]))

chk_mounted(f, drive) ==
  CASE drive > 0 -> Ret(f, "INVALID_DRIVE")
    [] drive = 0 /\ ~f.enabled -> Ret(f, "NOT_ENABLED")
    [] drive = 0 /\ f.enabled /\ f.fs_type # None -> Ret(f, "OK")
    [] drive = 0 /\ f.enabled /\ f.fs_type = None -> Mount(f)

validate(f, obj) ==
  Ret(f, IF obj.fs /\ f.fs_type # None /\ f.id = obj.id THEN "OK" ELSE "INVALID_OBJECT")
-----------------------------------------------------------------------------
\* Directories: s is the FATFS object f and a DIR object d.  d.dir is the place
\* of the entry in the window, 0 for the null pointer.
Res(s, res) == [s EXCEPT !.f.res = res]
Place(i) == (i % EPS) + 1
Entry(s) == Entries(s.f.win)[s.d.dir]

\* The read only build only ever rewinds: idx is 0.
dir_sdi(s) ==
  LET d == [s.d EXCEPT !.index = 0]
      clst == IF d.sclust = 0 /\ s.f.fs_type = "FAT32" THEN s.f.dirbase ELSE d.sclust
  IN  IF d.sclust = 1 \/ d.sclust >= s.f.n_fatent THEN Res([s EXCEPT !.d = d], "INT_ERR")
      ELSE Res([s EXCEPT !.d = [d EXCEPT
                  !.clust = clst, !.dir = Place(0),
                  !.sect = IF clst = 0 THEN s.f.dirbase ELSE clust2sect(s.f, clst)]], "OK")

AtIndex(s, i) == Res([s EXCEPT !.d.index = i, !.d.dir = Place(i)], "OK")

\* The first entry of the next cluster of the directory, which get_fat told.
NextCluster(s, i, clst) ==
  CASE clst <= 1 -> Res(s, "INT_ERR")
    [] clst = DiskErr -> Res(s, "DISK_ERR")
    [] clst >= s.f.n_fatent /\ clst # DiskErr -> Res(s, "NO_FILE")
    [] clst > 1 /\ clst < s.f.n_fatent ->
         AtIndex([s EXCEPT !.d.clust = clst, !.d.sect = clust2sect(s.f, clst)], i)
Followed(s, i) == NextCluster(s, i, s.f.val)

dir_next(s) ==
  LET i == (s.d.index + 1) % 65536
      next == [s EXCEPT !.d.sect = @ + 1]
  IN  IF i = 0 \/ s.d.sect = 0 THEN Res(s, "NO_FILE")
      ELSE IF i % EPS # 0 THEN AtIndex(s, i)
      ELSE IF s.d.clust = 0
        THEN IF i >= s.f.n_rootdir THEN Res(next, "NO_FILE") ELSE AtIndex(next, i)
      ELSE IF (i \div EPS) % s.f.csize # 0 THEN AtIndex(next, i)
      ELSE Followed([next EXCEPT !.f = get_fat(s.f, s.d.clust)], i)

Shown(s) == [s EXCEPT !.f = move_window(s.f, s.d.sect)]

\* What the entry in the window says, and "next" for one to be passed over.
Judged(e, fns) ==
  CASE e.c = "end" -> "NO_FILE"
    [] e.c = "name" /\ ~e.vol /\ (fns = {} \/ e.name \in fns) -> "OK"
    [] OTHER -> "next"

\* The entries from here on, until one is wanted or something fails.
RECURSIVE Onwards(_, _), Search(_, _), Decide(_, _, _)
Onwards(s, fns) == IF s.f.res # "OK" THEN s ELSE Search(Shown(s), fns)
Search(s, fns) == Decide(s, fns, IF s.f.ok THEN Judged(Entry(s), fns) ELSE "DISK_ERR")
Decide(s, fns, seen) == IF seen = "next" THEN Onwards(dir_next(s), fns) ELSE Res(s, seen)

dir_find(s, fn) == Onwards(dir_sdi(s), {fn})

EndOnFailure(s) == IF s.f.res = "OK" THEN s ELSE [s EXCEPT !.d.sect = 0]
dir_read(s) == IF s.d.sect = 0 THEN Res(s, "NO_FILE") ELSE EndOnFailure(Search(Shown(s), {}))

\* A segment of a path, as its characters, in directory form: eight characters
\* and three, in capitals; empty when it cannot be one.
Illegal == {"*", "+", ",", ":", ";", "<", "=", ">", "?", "[", "]", "|"}
Upper(c) == CASE c = "a" -> "A" [] c = "b" -> "B" [] c = "d" -> "D" [] c = "e" -> "E"
              [] c = "f" -> "F" [] OTHER -> c
create_name(seg) ==
  LET dots == {i \in DOMAIN seg : seg[i] = "."}
      cut == IF dots = {} THEN Len(seg) + 1 ELSE Min(dots)
      body == SubSeq(seg, 1, cut - 1)
      ext == SubSeq(seg, cut + 1, Len(seg))
      caps(w) == [i \in DOMAIN w |-> Upper(w[i])]
  IN  IF seg = <<>> \/ Cardinality(dots) > 1 \/ Len(body) > 8 \/ Len(ext) > 3
           \/ \E i \in DOMAIN seg : seg[i] \in Illegal
      THEN <<>> ELSE <<caps(body), caps(ext)>>

ld_clust(s) == Entry(s).clust

RECURSIVE FollowFrom(_, _), Enter(_, _)
FollowFrom(s, path) ==
  LET fn == create_name(Head(path))
  IN  IF fn = <<>> THEN Res(s, "INVALID_NAME") ELSE Enter(dir_find(s, fn), Tail(path))
Enter(s, path) ==
  IF s.f.res = "NO_FILE" THEN Res(s, IF path = <<>> THEN "NO_FILE" ELSE "NO_PATH")
  ELSE IF s.f.res # "OK" \/ path = <<>> THEN s
  ELSE IF ~Entry(s).dir THEN Res(s, "NO_PATH")
  ELSE FollowFrom([s EXCEPT !.d.sclust = ld_clust(s)], path)

follow_path(s, path) ==
  LET root == [s EXCEPT !.d.sclust = 0]
  IN  IF path = <<>> THEN [dir_sdi(root) EXCEPT !.d.dir = 0] ELSE FollowFrom(root, path)

NoInfo == [name |-> <<>>, dir |-> FALSE, size |-> 0]
Info(e) == [name |-> e.name, dir |-> e.dir, size |-> e.size]
get_fileinfo(s) == IF s.d.sect = 0 THEN NoInfo ELSE Info(Entry(s))
-----------------------------------------------------------------------------
\* Files: s is the FATFS object f, a FIL object p and the bytes read, out.
Abort(s, res) == [s EXCEPT !.p.error = TRUE, !.f.res = res]
Bytes(sect, from, n) ==
  [i \in 1 .. n |-> <<card, sect + (from + i - 1) \div SS, (from + i - 1) % SS>>]
SubBytes(at, from, n) == [i \in 1 .. n |-> <<at[1], at[2], from + i - 1>>]

\* f_read's sector cache: loaded when it holds another sector.
Fill(s, sect) ==
  LET r == [s EXCEPT !.f = disk_read(s.f, 1)]
  IN  IF s.p.dsect = sect THEN [s EXCEPT !.f.ok = TRUE]
      ELSE IF ~r.f.ok THEN Abort(r, "DISK_ERR")
      ELSE [r EXCEPT !.p.dsect = sect, !.p.buf = <<card, sect>>]

\* The cluster at the file pointer, in val.
Located(s) ==
  [s EXCEPT !.f = IF (s.p.fptr \div SS) % s.f.csize # 0 THEN Val(s.f, s.p.clust)
                  ELSE IF s.p.fptr = 0 THEN Val(s.f, s.p.sclust)
                  ELSE get_fat(s.f, s.p.clust)]
Copied(s, rcnt) ==
  [s EXCEPT !.p.fptr = @ + rcnt, !.out = @ \o SubBytes(s.p.buf, s.p.fptr % SS, rcnt)]

\* ReadOn is one turn of the loop; Cluster, Sectors, Direct and Copy its parts:
\* the cluster, whole sectors of it, and a part of one out of the buffer.
RECURSIVE ReadOn(_, _), Cluster(_, _), Sectors(_, _, _), Direct(_, _, _, _), Copy(_, _)
ReadOn(s, btr) ==
  IF btr = 0 THEN Res(s, "OK")
  ELSE IF s.p.fptr % SS # 0 THEN Copy(s, btr) ELSE Cluster(Located(s), btr)
Cluster(s, btr) ==
  IF s.f.val < 2 THEN Abort(s, "INT_ERR")
  ELSE IF s.f.val = DiskErr THEN Abort(s, "DISK_ERR")
  ELSE Sectors([s EXCEPT !.p.clust = s.f.val], clust2sect(s.f, s.f.val), btr)
Sectors(s, base, btr) ==
  LET csect == (s.p.fptr \div SS) % s.f.csize
      cc == Min({btr \div SS, s.f.csize - csect})
  IN  IF base = 0 THEN Abort(s, "INT_ERR")
      ELSE IF cc > 0 THEN Direct([s EXCEPT !.f = disk_read(s.f, cc)], base + csect, cc, btr)
      ELSE Copy(Fill(s, base + csect), btr)
Direct(s, sect, cc, btr) ==
  IF ~s.f.ok THEN Abort(s, "DISK_ERR")
  ELSE ReadOn([s EXCEPT !.p.fptr = @ + SS * cc, !.out = @ \o Bytes(sect, 0, SS * cc)], btr - SS * cc)
Copy(s, btr) ==
  LET rcnt == Min({SS - (s.p.fptr % SS), btr})
  IN  IF s.f.ok THEN ReadOn(Copied(s, rcnt), btr - rcnt) ELSE s

Read(s, btr) ==
  LET v == [s EXCEPT !.f = validate(s.f, s.p)]
  IN  IF v.f.res # "OK" THEN v
      ELSE IF s.p.error THEN Res(s, "INT_ERR")
      ELSE ReadOn(s, Min({btr, s.p.fsize - s.p.fptr}))

RECURSIVE SeekOn(_, _)
SeekOn(s, ofs) ==
  LET bcs == s.f.csize * SS
      g == [s EXCEPT !.f = get_fat(s.f, s.p.clust)]
      there == [s EXCEPT !.p.fptr = @ + ofs]
      sect == clust2sect(s.f, s.p.clust)
  IN  IF ofs > bcs
      THEN IF g.f.val = DiskErr THEN Abort(g, "DISK_ERR")
           ELSE IF g.f.val <= 1 \/ g.f.val >= s.f.n_fatent THEN Abort(g, "INT_ERR")
           ELSE SeekOn([g EXCEPT !.p.clust = g.f.val, !.p.fptr = @ + bcs], ofs - bcs)
      ELSE IF ofs % SS = 0 THEN Res(there, "OK")
      ELSE IF sect = 0 THEN Abort(there, "INT_ERR")
      ELSE LET r == Fill(there, sect + ofs \div SS) IN IF r.f.ok THEN Res(r, "OK") ELSE r

Onward(s, ofs, bcs) == s.p.fptr > 0 /\ (ofs - 1) \div bcs >= (s.p.fptr - 1) \div bcs

Seek(s, offset) ==
  LET v == [s EXCEPT !.f = validate(s.f, s.p)]
      bcs == s.f.csize * SS
      ofs == Min({offset, s.p.fsize})
      base == ((s.p.fptr - 1) \div bcs) * bcs
  IN  IF v.f.res # "OK" THEN v
      ELSE IF s.p.error THEN Res(s, "INT_ERR")
      ELSE IF ofs = 0 THEN Res([s EXCEPT !.p.fptr = 0], "OK")
      ELSE IF Onward(s, ofs, bcs) THEN SeekOn([s EXCEPT !.p.fptr = base], ofs - base)
      ELSE LET back == [s EXCEPT !.p.fptr = 0, !.p.clust = s.p.sclust]
           IN  IF s.p.sclust = 0 THEN Res(back, "OK") ELSE SeekOn(back, ofs)

\* The file object p for the entry at the end of the path, where r stands.
OpenEntry(f, p, e) ==
  IF e.dir THEN [f |-> Ret(f, "NO_FILE"), p |-> p]
  ELSE [f |-> f, p |-> [p EXCEPT !.error = FALSE, !.sclust = e.clust, !.fsize = e.size,
                                 !.fptr = 0, !.dsect = 0, !.fs = TRUE, !.id = f.id]]
Opened(r, p) ==
  IF r.f.res # "OK" THEN [f |-> r.f, p |-> p]
  ELSE IF r.d.dir = 0 THEN [f |-> Ret(r.f, "INVALID_NAME"), p |-> p]
  ELSE OpenEntry(r.f, p, Entry(r))
OpenOn(f, p, segs) ==
  IF f.res # "OK" THEN [f |-> f, p |-> p] ELSE Opened(follow_path([f |-> f, d |-> dj], segs), p)

Open(s, path) == OpenOn(chk_mounted(s.f, path.drive), [s.p EXCEPT !.fs = FALSE], path.segs)
-----------------------------------------------------------------------------
\* What is on a card c, by its format.
DataStart(c) == c.tbl + SystemSectors(c.bpb)

RECURSIVE Chain(_, _)
Chain(c, clst) == IF clst \in DOMAIN c.fat THEN <<clst>> \o Chain(c, c.fat[clst]) ELSE <<>>

SectorsOf(c, clst) ==
  LET n == c.bpb.SecPerClus
      ch == Chain(c, clst)
  IN  [i \in 1 .. n * Len(ch) |->
         DataStart(c) + (ch[(i - 1) \div n + 1] - 2) * n + ((i - 1) % n)]

DirSectors(c, clst) ==
  LET root == DataStart(c) - c.bpb.RootEntCnt \div EPS
  IN  IF clst # 0 THEN SectorsOf(c, clst)
      ELSE IF SubType(c.bpb) = "FAT32" THEN SectorsOf(c, c.bpb.RootClus)
      ELSE [i \in 1 .. c.bpb.RootEntCnt \div EPS |-> root + i - 1]

\* The objects of a directory, in order.
EntriesOf(c, sects) ==
  [i \in 1 .. EPS * Len(sects) |-> SectorEntries(c, sects[(i - 1) \div EPS + 1])[((i - 1) % EPS) + 1]]
UpToEnd(all) ==
  LET ends == {i \in DOMAIN all : all[i].c = "end"}
  IN  IF ends = {} THEN all ELSE SubSeq(all, 1, Min(ends) - 1)
Objects(c, clst) ==
  SelectSeq(UpToEnd(EntriesOf(c, DirSectors(c, clst))), LAMBDA e : e.c = "name" /\ ~e.vol)

Members(q) == {q[i] : i \in DOMAIN q}
Named(c, clst, fn) == {e \in Members(Objects(c, clst)) : e.name = fn}

\* What opening a path must say, and the entry it opens.
RECURSIVE Lookup(_, _, _), LookupIn(_, _, _)
Lookup(c, clst, segs) ==
  IF segs = <<>> \/ create_name(Head(segs)) = <<>> THEN [res |-> "INVALID_NAME"]
  ELSE LookupIn(c, Named(c, clst, create_name(Head(segs))), Tail(segs))
LookupIn(c, found, segs) ==
  LET e == CHOOSE x \in found : TRUE
  IN  IF segs = <<>>
      THEN IF found = {} \/ e.dir THEN [res |-> "NO_FILE"] ELSE [res |-> "OK", entry |-> e]
      ELSE IF found = {} \/ ~e.dir THEN [res |-> "NO_PATH"] ELSE Lookup(c, e.clust, segs)

FileByte(n, clst, i) == <<n, SectorsOf(Cards[n], clst)[i \div SS + 1], i % SS>>

\* What f_open reports of path is so, and the file object p is the file's.
Reported == {"OK", "INVALID_NAME", "NO_FILE", "NO_PATH"}
OpensRight(path, res, p) ==
  res \in Reported =>
    \E look \in {Lookup(Cards[card], 0, path.segs)} :
      /\ res = look.res
      /\ p.fs => p.sclust = look.entry.clust /\ p.fsize = look.entry.size

\* f_read delivers the bytes of the file from the file pointer on, as many as
\* asked for or left in the file, and those before the failure when it fails.
ReadsRight(p, btr, res, bytes) ==
  res # "INVALID_OBJECT" =>
    /\ \A k \in DOMAIN bytes : bytes[k] = FileByte(card, p.sclust, p.fptr + k - 1)
    /\ res = "OK" => Len(bytes) = Min({btr, p.fsize - p.fptr})
-----------------------------------------------------------------------------
\* The calls.
NoFil == [fs |-> FALSE, id |-> 0, error |-> FALSE, fptr |-> 0, fsize |-> 0,
          sclust |-> 0, clust |-> 0, dsect |-> 0, buf |-> <<1, 0>>]
NoDir == [fs |-> FALSE, id |-> 0, index |-> 0, sclust |-> 0, clust |-> 0, sect |-> 0, dir |-> 0]
NoFs == [enabled |-> FALSE, fs_type |-> None, id |-> 0, winsect |-> 0, win |-> <<1, 0>>,
         csize |-> 1, n_rootdir |-> 0, n_fatent |-> 0, database |-> 0, fatbase |-> 0,
         dirbase |-> 0, res |-> None, val |-> 0, left |-> 0, ok |-> TRUE]

NoList == [path |-> [drive |-> 0, segs |-> <<>>], infos |-> <<>>, end |-> FALSE, broken |-> TRUE]

FatInit ==
  /\ card \in DOMAIN Cards
  /\ fs = NoFs /\ fil = NoFil /\ dj = NoDir
  /\ right = TRUE /\ listed = NoList

\* What a call leaves of the FATFS object, and how one begins.
Left(f) == [f EXCEPT !.res = None, !.val = 0, !.left = 0, !.ok = TRUE]
Begun == {[fs EXCEPT !.left = n] : n \in -1 .. MaxReads}

f_mount(on) ==
  /\ fs' = [fs EXCEPT !.fs_type = None, !.enabled = on]
  /\ UNCHANGED <<right, card, fil, dj, listed>>

f_open(path) ==
  /\ fs.id < MaxMounts
  /\ \E f \in Begun :
       \E r \in {Open([f |-> f, p |-> fil], path)} :
         /\ fs' = Left(r.f) /\ fil' = r.p
         /\ right' = (right /\ OpensRight(path, r.f.res, r.p))
  /\ UNCHANGED <<card, dj, listed>>

f_read(btr) ==
  /\ \E f \in Begun :
       \E r \in {Read([f |-> f, p |-> fil, out |-> <<>>], btr)} :
         /\ fs' = Left(r.f) /\ fil' = r.p
         /\ right' = (right /\ ReadsRight(fil, btr, r.f.res, r.out))
  /\ UNCHANGED <<card, dj, listed>>

f_lseek(ofs) ==
  /\ \E f \in Begun :
       \E r \in {Seek([f |-> f, p |-> fil], ofs)} : fs' = Left(r.f) /\ fil' = r.p
  /\ UNCHANGED <<right, card, dj, listed>>

f_close ==
  /\ fil' = IF validate(fs, fil).res = "OK" THEN [fil EXCEPT !.fs = FALSE] ELSE fil
  /\ UNCHANGED <<right, card, fs, dj, listed>>

f_opendir(path) ==
  /\ fs.id < MaxMounts
  /\ \E f \in Begun :
       \E c \in {[f |-> chk_mounted(f, path.drive), d |-> dj]} :
         \E r \in {IF c.f.res # "OK" THEN c ELSE follow_path(c, path.segs)} :
           LET rooted == r.d.dir = 0
               into == IF rooted THEN r ELSE [r EXCEPT !.d.sclust = ld_clust(r)]
               dir == r.f.res = "OK" /\ (rooted \/ Entry(r).dir)
           IN  \E s \in {IF dir THEN dir_sdi([into EXCEPT !.d.id = r.f.id]) ELSE r} :
                 LET open == dir /\ s.f.res = "OK"
                 IN  /\ fs' = Left(s.f)
                     /\ dj' = [s.d EXCEPT !.fs = open]
                     /\ listed' = IF open THEN [path |-> path, infos |-> <<>>, end |-> FALSE,
                                                broken |-> FALSE]
                                  ELSE NoList
  /\ UNCHANGED <<card, fil, right>>

\* f_readdir with a null fno.
f_rewinddir ==
  /\ validate(fs, dj).res = "OK"
  /\ dj' = dir_sdi([f |-> fs, d |-> dj]).d
  /\ listed' = [listed EXCEPT !.infos = <<>>, !.end = FALSE, !.broken = FALSE]
  /\ UNCHANGED <<card, fs, fil, right>>

\* The end of the directory is no error.
EndIsOk(s) == IF s.f.res = "NO_FILE" THEN Res([s EXCEPT !.d.sect = 0], "OK") ELSE s

f_readdir ==
  /\ validate(fs, dj).res = "OK"
  /\ \E f \in Begun :
       \E read \in {EndIsOk(dir_read([f |-> f, d |-> dj]))} :
         \E s \in {IF read.f.res = "OK" THEN EndIsOk(dir_next(read)) ELSE read} :
           LET info == IF read.f.res = "OK" THEN get_fileinfo(read) ELSE NoInfo
           IN  /\ fs' = Left(s.f) /\ dj' = s.d
               /\ listed' = IF listed.broken THEN listed
                            ELSE [listed EXCEPT
                                    !.infos = IF info = NoInfo THEN @ ELSE Append(@, info),
                                    !.end = read.f.res = "OK" /\ info = NoInfo,
                                    !.broken = s.f.res # "OK"]
  /\ UNCHANGED <<card, fil, right>>

\* f_stat only moves the window and mounts.
f_stat(path) ==
  /\ fs.id < MaxMounts
  /\ \E f \in Begun :
       \E c \in {[f |-> chk_mounted(f, path.drive), d |-> dj]} :
         fs' = Left(IF c.f.res # "OK" THEN c.f ELSE follow_path(c, path.segs).f)
  /\ UNCHANGED <<right, card, fil, dj, listed>>

\* Another card: nothing of the program notices until the volume is mounted
\* again (disk_status always says the drive is ready), so the user changes it
\* when the volume is not mounted.
SwapCard ==
  /\ fs.fs_type = None
  /\ card' \in Spares
  /\ UNCHANGED <<fs, fil, dj>> /\ UNCHANGED right /\ listed' = NoList

FileNext ==
  \/ \E on \in BOOLEAN : f_mount(on)
  \/ \E path \in Paths : f_open(path)
  \/ \E n \in Lengths : f_read(n)
  \/ \E n \in Offsets : f_lseek(n)
  \/ f_close \/ SwapCard

DirNext ==
  \/ \E on \in BOOLEAN : f_mount(on)
  \/ \E path \in DirPaths : f_opendir(path) \/ f_stat(path)
  \/ f_readdir \/ f_rewinddir \/ SwapCard
-----------------------------------------------------------------------------
\* f_readdir tells the objects of the directory, in order, and all before the end.
ListsRight ==
  listed # NoList =>
    LET segs == listed.path.segs
        clst == IF segs = <<>> THEN 0
                ELSE (CHOOSE e \in Named(Cards[card], 0, create_name(segs[1])) : TRUE).clust
    IN  \E objects \in {Objects(Cards[card], clst)} :
          LET infos == [i \in DOMAIN objects |-> Info(objects[i])]
          IN  IF listed.end THEN listed.infos = infos
              ELSE /\ Len(listed.infos) <= Len(infos)
                   /\ listed.infos = SubSeq(infos, 1, Len(listed.infos))
-----------------------------------------------------------------------------
(***************************************************************************)
(* The loader of main.c: bootelf reads the header of boot.elf, copies its  *)
(* segments to memory in chunks and starts it.  One step is one call of    *)
(* the file system.  The first header byte stands for the magic number,    *)
(* the second for the program header count, the others for one program     *)
(* header each.                                                            *)
(***************************************************************************)
CONSTANTS CHUNK_SIZE,
          BootPath,
          Memory             \* the addresses of the memory

VARIABLES pc,                \* where bootelf is
          buf,               \* the header block, kept between boots
          i, chunk,          \* the loop variables
          mem                \* the memory, by the byte each address holds

bootVars == <<pc, buf, i, chunk, mem>>
keepFiles == <<card, dj, right, listed>>

NoByte == <<0, 0, 0>>
ZeroByte == <<0, 0, 1>>

\* What the loader reads out of the header block.
Elf(at) == Cards[at[1]].elf
Magic == buf[1] # NoByte /\ Elf(buf[1]).magic
ph_num == IF buf[2] = NoByte THEN 0 ELSE Len(Elf(buf[2]).phdrs)
phdr == IF buf[i + 3] = NoByte \/ i + 1 > Len(Elf(buf[i + 3]).phdrs)
        THEN [type |-> 0, offset |-> 0, vaddr |-> 0, filesz |-> 0, memsz |-> 0]
        ELSE Elf(buf[i + 3]).phdrs[i + 1]

BootInit ==
  /\ pc = "idle" /\ i = 0 /\ chunk = 0
  /\ buf = [n \in 1 .. SS |-> NoByte]
  /\ mem = [a \in Memory |-> NoByte]

do_bootelf ==
  /\ pc = "idle" /\ fs.id < MaxMounts
  /\ \E f \in Begun :
       \E r \in {Open([f |-> [f EXCEPT !.fs_type = None, !.enabled = TRUE], p |-> fil], BootPath)} :
         /\ fs' = Left(r.f) /\ fil' = r.p
         /\ pc' = IF r.f.res = "OK" THEN "header" ELSE "idle"
  /\ UNCHANGED <<buf, i, chunk, mem>> /\ UNCHANGED keepFiles

\* The count of bytes read is not looked at: a shorter file leaves the rest of
\* the block as the boot before left it.
ReadHeader ==
  /\ pc = "header"
  /\ \E f \in Begun :
       \E r \in {Read([f |-> f, p |-> fil, out |-> <<>>], SS)} :
         /\ fs' = Left(r.f) /\ fil' = r.p
         /\ buf' = [n \in 1 .. SS |-> IF n <= Len(r.out) THEN r.out[n] ELSE buf[n]]
         /\ pc' = IF r.f.res = "OK" THEN "check" ELSE "idle"
  /\ UNCHANGED <<i, chunk, mem>> /\ UNCHANGED keepFiles

CheckHeader ==
  /\ pc = "check"
  /\ pc' = IF Magic THEN "segment" ELSE "idle"
  /\ i' = 0 /\ chunk' = 0
  /\ UNCHANGED <<buf, mem, fs, fil>> /\ UNCHANGED keepFiles

\* A slip that fills from the start of the segment.
ZeroFillMutant(m, p) ==
  [a \in Memory |-> IF p.vaddr <= a /\ a < p.vaddr + p.memsz - p.filesz THEN ZeroByte ELSE m[a]]

ZeroFill(m, p) ==
  [a \in Memory |-> IF p.vaddr + p.filesz <= a /\ a < p.vaddr + p.memsz THEN ZeroByte ELSE m[a]]

\* The next segment, when the chunks of this one are there.
NextSegment ==
  /\ pc = "segment" /\ i < ph_num
  /\ phdr.type = 1 => chunk >= phdr.filesz
  /\ mem' = IF phdr.type = 1 THEN ZeroFill(mem, phdr) ELSE mem
  /\ i' = i + 1 /\ chunk' = 0
  /\ UNCHANGED <<pc, buf, fs, fil>> /\ UNCHANGED keepFiles

ToRead == Min({phdr.filesz - chunk, CHUNK_SIZE})

SeekChunk ==
  /\ pc = "segment" /\ i < ph_num /\ phdr.type = 1 /\ chunk < phdr.filesz
  /\ \E f \in Begun :
       \E r \in {Seek([f |-> f, p |-> fil], phdr.offset + chunk)} :
         /\ fs' = Left(r.f) /\ fil' = r.p
         /\ pc' = IF r.f.res = "OK" THEN "chunk" ELSE "idle"
  /\ UNCHANGED <<buf, i, chunk, mem>> /\ UNCHANGED keepFiles

ReadChunk ==
  /\ pc = "chunk"
  /\ \E f \in Begun :
       \E r \in {Read([f |-> f, p |-> fil, out |-> <<>>], ToRead)} :
         LET to == phdr.vaddr + chunk
         IN  /\ fs' = Left(r.f) /\ fil' = r.p
             /\ mem' = [a \in Memory |-> IF to <= a /\ a < to + Len(r.out)
                                         THEN r.out[a - to + 1] ELSE mem[a]]
             /\ pc' = IF r.f.res = "OK" THEN "segment" ELSE "idle"
  /\ chunk' = chunk + CHUNK_SIZE
  /\ UNCHANGED <<buf, i>> /\ UNCHANGED keepFiles

\* The program is called and gives control back.
Start ==
  /\ pc = "segment" /\ i = ph_num
  /\ pc' = "started"
  /\ UNCHANGED <<buf, i, chunk, mem, fs, fil>> /\ UNCHANGED keepFiles

Return ==
  /\ pc = "started" /\ pc' = "idle"
  /\ mem' = [a \in Memory |-> NoByte]
  /\ UNCHANGED <<buf, i, chunk, fs, fil>> /\ UNCHANGED keepFiles

\* The card is changed between boots.
Swap ==
  /\ pc = "idle" /\ card' \in Spares
  /\ UNCHANGED <<fs, fil, dj, right, listed>> /\ UNCHANGED bootVars

BootNext == do_bootelf \/ ReadHeader \/ CheckHeader \/ NextSegment \/ SeekChunk \/ ReadChunk
            \/ Start \/ Return \/ Swap
-----------------------------------------------------------------------------
\* The program on the card, and whether the file holds all of it.
BootEntry(c) == Lookup(c, 0, BootPath.segs).entry
Loads(c) == {p \in Members(c.elf.phdrs) : p.type = 1}
Whole(c, size) == /\ size >= Len(c.elf.phdrs) + 2
                  /\ \A p \in Loads(c) : p.offset + p.filesz <= size

\* A program that is whole on the card in the slot is started with all of it in
\* memory and the rest of its segments zero, whatever boots failed before and
\* whatever they left in the header block (bootelf).
BootsProgram ==
  pc = "started" =>
    \E c \in {Cards[card]} : \E e \in {BootEntry(c)} :
      Whole(c, e.size) =>
        /\ c.elf.magic
        /\ \A p \in Loads(c) : \A k \in 0 .. p.memsz - 1 :
             mem[p.vaddr + k] = IF k < p.filesz THEN FileByte(card, e.clust, p.offset + k)
                                ELSE ZeroByte
=============================================================================
