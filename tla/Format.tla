-------------------------------- MODULE Format --------------------------------
(***************************************************************************)
(* f_mkfs of firmware/ff.c against the mount that must accept its work:    *)
(* check_fs and the part of find_volume that reads the boot sector.        *)
(*                                                                         *)
(* Sizes are sectors, with the values and limits of the code.  A round of  *)
(* the loop that settles FAT type and cluster size is one step, and so is  *)
(* every write to the card; at each the power may fail, and one write may  *)
(* fail.  The card is known by its boot sectors and by how far the FAT and *)
(* the root directory have been filled.                                    *)
(***************************************************************************)
EXTENDS Integers, FiniteSets

CONSTANTS
  Drives,    \* bound: drive sizes that GET_SECTOR_COUNT answers
  Blocks,    \* bound: erase block sizes that GET_BLOCK_SIZE answers; 0 when it fails
  Units,     \* bound: allocation units asked for, in bytes; 0 is the default
  Options    \* bound: sets of "FAT", "FAT32" and "SFD"

ASSUME FormatAssumption ==
  /\ Drives \subseteq 0 .. (2 ^ 30) /\ Blocks \subseteq Nat /\ Units \subseteq Nat
  /\ Options \subseteq SUBSET {"FAT", "FAT32", "SFD"}

MaxFat12 == 4085
MaxFat16 == 65525
MaxFat32 == 268435445
SectorSize == 512
NRootdir == 512
Unknown == 0 - 1     \* 0xFFFFFFFF

VARIABLES
  want,    \* the request: opt, au, what the drive answers (size, block); history: the
           \* kind of the old sector 0
  pc, res,
  fmt, au, \* the locals that a retry changes
  geo,     \* the geometry settled: pau, rsv, fatsz, dirsz, clst
  card,    \* sectors 0 and 1, and 63 and 64
  filled,  \* the sectors cleared for FAT and root directory: from, to
  unwritten  \* history: a write whose result is ignored has failed

vars == <<want, pc, res, fmt, au, geo, card, filled, unwritten>>

-----------------------------------------------------------------------------
(* What sectors hold.                                                      *)

Junk == [kind |-> "junk"]
Mbr(start) == [kind |-> "mbr", start |-> start]
Vbr(type, g, total) ==
  [kind |-> "vbr", csize |-> g.pau % 256, rsv |-> g.rsv % 65536, total |-> total,
   root |-> IF type = "FAT32" THEN 0 ELSE NRootdir,
   fatsz |-> IF type = "FAT32" THEN g.fatsz ELSE g.fatsz % 65536]
Fsinfo(free, next) == [kind |-> "fsinfo", free |-> free, next |-> next]

\* A FAT16 volume from an earlier life of the card.
OldVbr == Vbr("FAT16", [pau |-> 4, rsv |-> 1, fatsz |-> 64], 60000)

OldCards ==
  {[s \in {0, 1, 63, 64} |-> Junk],
   [s \in {0, 1, 63, 64} |-> IF s = 0 THEN OldVbr ELSE Junk],
   [s \in {0, 1, 63, 64} |->
      CASE s = 0 -> Mbr(63) [] s = 63 -> OldVbr [] s = 64 -> Fsinfo(7, 7) [] OTHER -> Junk]}

-----------------------------------------------------------------------------
(* The mount.                                                              *)

Ceiling(a, b) == (a + b - 1) \div b
PowerOf2(n) == \E k \in 0 .. 30 : n = 2 ^ k

\* The boot sector of the volume: sector 0, or where the partition table says.
VolumeBase(c) == IF c[0].kind = "mbr" THEN c[0].start ELSE 0

NoVolume == [res |-> "NO_FILESYSTEM"]

FindVolume(c) ==
  LET base == VolumeBase(c)
      b == c[base]
      sysect == b.rsv + b.fatsz + (b.root \div 16)
      nclst == (b.total - sysect) \div b.csize
      type == IF nclst <= MaxFat12 THEN "FAT12" ELSE IF nclst <= MaxFat16 THEN "FAT16" ELSE "FAT32"
      entries == nclst + 2
      needed == CASE type = "FAT32" -> entries * 4
                  [] type = "FAT16" -> entries * 2
                  [] type = "FAT12" -> ((entries * 3) \div 2) + (entries % 2)
      info == c[base + 1]
      known == type = "FAT32" /\ info.kind = "fsinfo"
  IN  IF \/ b.kind # "vbr"
         \/ ~PowerOf2(b.csize) \/ b.rsv = 0
         \/ b.total < sysect \/ nclst = 0
         \/ (type = "FAT32") # (b.root = 0)
         \/ b.fatsz < Ceiling(needed, SectorSize)
      THEN NoVolume
      ELSE [res |-> "OK", type |-> type, csize |-> b.csize, entries |-> entries,
            fatbase |-> base + b.rsv, database |-> base + sysect,
            free |-> IF known THEN info.free ELSE Unknown,
            last |-> IF known THEN info.next ELSE Unknown]

-----------------------------------------------------------------------------
(* The geometry.                                                           *)

Base == IF "SFD" \in want.opt THEN 0 ELSE 63
Size == want.size - Base
Block == IF PowerOf2(want.block) /\ want.block <= 32768 THEN want.block ELSE 1

\* Default cluster sizes: cst32 and cst.
Pick(n, table) == 2 ^ Cardinality({i \in DOMAIN table : table[i] <= n})
Pau ==
  IF au # 0 THEN au
  ELSE IF fmt = "FAT32" THEN Pick(Size \div 131072, <<1, 2, 4, 8, 16, 32>>)
  ELSE Pick(Size \div 4096, <<1, 4, 16, 64, 256, 512>>)

\* The FAT type of this round, and the bytes of its FAT for n clusters.
Type(n) == IF fmt = "FAT32" THEN "FAT32" ELSE IF n > MaxFat12 THEN "FAT16" ELSE "FAT12"
FatBytes(type, n) ==
  CASE type = "FAT32" -> (n * 4) + 8
    [] type = "FAT16" -> (n * 2) + 4
    [] type = "FAT12" -> (((n * 3) + 1) \div 2) + 3

\* Mutant of Aligned: FAT12/16 moves the FAT instead of growing it.
AlignedByMove(type, g) ==
  LET data == Base + g.rsv + g.fatsz + g.dirsz
      n == (Ceiling(data, Block) * Block) - data
  IN  [g EXCEPT !.rsv = IF type = "FAT32" THEN @ + n ELSE @]

\* The data area begins at an erase block: FAT32 moves the FAT, FAT12/16 grows it.
Aligned(type, g) ==
  LET data == Base + g.rsv + g.fatsz + g.dirsz
      n == (Ceiling(data, Block) * Block) - data
  IN  IF type = "FAT32" THEN [g EXCEPT !.rsv = @ + n] ELSE [g EXCEPT !.fatsz = @ + n]

\* The DWORD that holds it wraps below 0, to more than any FAT has.
Clusters(g) ==
  LET room == Size - g.rsv - g.fatsz - g.dirsz
  IN  (IF room < 0 THEN 2147483647 ELSE room) \div g.pau

Plain(type, n) ==
  [pau |-> Pau, rsv |-> IF type = "FAT32" THEN 32 ELSE 1,
   fatsz |-> Ceiling(FatBytes(type, n), SectorSize),
   dirsz |-> IF type = "FAT32" THEN 0 ELSE (NRootdir * 32) \div SectorSize]

NoGeo == [pau |-> 0, rsv |-> 0, fatsz |-> 0, dirsz |-> 0, clst |-> 0]

-----------------------------------------------------------------------------
(* The call.                                                               *)

Init ==
  /\ want = [opt |-> {}, au |-> 0, size |-> 0, block |-> 0, old |-> "none"]
  /\ pc = "idle" /\ res = "OK" /\ fmt = "FAT16" /\ au = 0 /\ geo = NoGeo
  /\ card \in OldCards
  /\ filled = [from |-> 0, to |-> 0] /\ unwritten = FALSE

End(r) == pc' = "end" /\ res' = r

\* What is refused before the loop.
BadUnit(unit) ==
  \/ unit # 0 /\ (unit < SectorSize \/ ~PowerOf2(unit))
  \/ unit \div SectorSize > 32768
NoType(opt, unit) == unit \div SectorSize >= 256 \/ opt \cap {"FAT", "FAT32"} = {}

\* short: the working buffer holds less than a sector.
FMkfs ==
  /\ pc = "idle"
  /\ \E opt \in Options, unit \in Units, size \in Drives, block \in Blocks,
        drive \in {"OK", "NOT_READY", "WRITE_PROTECTED", "DISK_ERR"}, short \in BOOLEAN :
       /\ want' = [opt |-> opt, au |-> unit, size |-> size, block |-> block,
                    old |-> card[0].kind]
       /\ fmt' = IF "FAT" \in opt THEN "FAT16" ELSE "FAT32"
       /\ au' = unit \div SectorSize
       /\ CASE drive \in {"NOT_READY", "WRITE_PROTECTED"} -> End(drive)
            [] drive \in {"OK", "DISK_ERR"} /\ BadUnit(unit) -> End("INVALID_PARAMETER")
            [] drive \in {"OK", "DISK_ERR"} /\ ~BadUnit(unit) /\ short -> End("MKFS_ABORTED")
            [] drive = "DISK_ERR" /\ ~BadUnit(unit) /\ ~short -> End(drive)
            [] drive = "OK" /\ ~BadUnit(unit) /\ ~short ->
                 IF size - Base' < 128 THEN End("MKFS_ABORTED")
                 ELSE IF NoType(opt, unit) THEN End("INVALID_PARAMETER")
                 ELSE pc' = "plan" /\ UNCHANGED res
  /\ UNCHANGED <<geo, card, filled, unwritten>>

Retry(type, unit) == fmt' = type /\ au' = unit /\ UNCHANGED <<pc, res, geo>>
Abort == End("MKFS_ABORTED") /\ UNCHANGED <<fmt, au, geo>>

\* One round of the loop that settles type and cluster size.
PlanRound ==
  LET guess == Size \div Pau
      type == Type(guess)
      plain == Plain(type, guess)
      g == Aligned(type, plain)
      n == Clusters(g)
      settled == /\ pc' = "vbr" /\ fmt' = type /\ UNCHANGED <<au, res>>
                 /\ geo' = [pau |-> Pau, rsv |-> g.rsv, fatsz |-> g.fatsz, dirsz |-> g.dirsz, clst |-> n]
  IN  /\ pc = "plan"
      /\ IF type = "FAT32" /\ (guess <= MaxFat16 \/ guess > MaxFat32) THEN Abort
         ELSE IF Size < plain.rsv + plain.fatsz + plain.dirsz + (Pau * 16) THEN Abort
         ELSE IF type = "FAT32" /\ n <= MaxFat16 THEN
           IF au = 0 /\ Pau > 1 THEN Retry(type, Pau \div 2) ELSE Abort
         ELSE IF type = "FAT16" /\ n > MaxFat16 THEN
           IF au = 0 /\ Pau * 2 <= 64 THEN Retry(type, Pau * 2)
           ELSE IF "FAT32" \in want.opt THEN Retry("FAT32", au)
           ELSE IF au = 0 /\ Pau * 2 <= 128 THEN Retry(type, Pau * 2)
           ELSE Abort
         ELSE IF type = "FAT16" /\ n <= MaxFat12 THEN
           IF au = 0 /\ Pau * 2 <= 128 THEN Retry(type, Pau * 2) ELSE Abort
         ELSE IF type = "FAT12" /\ n > MaxFat12 THEN Abort
         ELSE settled
      /\ UNCHANGED <<want, card, filled, unwritten>>

\* Mutant of NextWrite: the partition table is written early.
NextWriteTableFirst ==
  [vbr |-> IF "SFD" \in want.opt THEN "fat" ELSE "mbr", mbr |-> IF fmt = "FAT32" THEN "fsinfo" ELSE "fat",
   fsinfo |-> "fat", fat |-> "root", root |-> "sync", sync |-> "end"]

\* The order of the writes.
NextWrite ==
  [vbr |-> IF fmt = "FAT32" THEN "fsinfo" ELSE "fat", fsinfo |-> "fat", fat |-> "root",
   root |-> IF "SFD" \in want.opt THEN "sync" ELSE "mbr", mbr |-> "sync", sync |-> "end"]

\* The write at pc is done, done but reported as failed, or not done.
Write(at, next, c, f) ==
  /\ pc = at
  /\ \/ pc' = next /\ card' = c /\ filled' = f /\ UNCHANGED res
     \/ End("DISK_ERR") /\ card' \in {card, c} /\ filled' \in {filled, f}
  /\ UNCHANGED <<want, fmt, au, geo, unwritten>>

WriteVbr == Write("vbr", NextWrite.vbr, [card EXCEPT ![Base] = Vbr(fmt, geo, Size)], filled)

\* FSINFO and the backups: nobody looks at the results.
WriteFsinfo ==
  /\ pc = "fsinfo" /\ pc' = NextWrite.fsinfo
  /\ \/ card' = [card EXCEPT ![Base + 1] = Fsinfo(geo.clst - 1, 2)] /\ UNCHANGED unwritten
     \/ unwritten' = TRUE /\ UNCHANGED card
  /\ UNCHANGED <<want, res, fmt, au, geo, filled>>

\* FAT and root directory go out in pieces of the work buffer, the FAT in one or two.
FillFat ==
  \E half \in BOOLEAN :
    LET from == Base + geo.rsv
        to == from + (IF half THEN geo.fatsz \div 2 ELSE geo.fatsz)
    IN  /\ filled.to < to
        /\ Write("fat", IF half THEN "fat" ELSE NextWrite.fat, card, [from |-> from, to |-> to])

FillRoot ==
  Write("root", NextWrite.root, card,
        [filled EXCEPT !.to = @ + (IF fmt = "FAT32" THEN geo.pau ELSE geo.dirsz)])

WriteMbr == Write("mbr", NextWrite.mbr, [card EXCEPT ![0] = Mbr(Base)], filled)
CtrlSync == Write("sync", NextWrite.sync, card, filled)

PowerLoss ==
  /\ pc \in DOMAIN NextWrite
  /\ pc' = "off"
  /\ UNCHANGED <<want, res, fmt, au, geo, card, filled, unwritten>>

Next ==
  \/ FMkfs \/ PlanRound \/ WriteVbr \/ WriteFsinfo \/ FillFat \/ FillRoot \/ WriteMbr \/ CtrlSync
  \/ PowerLoss

Spec == Init /\ [][Next]_vars

-----------------------------------------------------------------------------
\* The alignment has eaten the whole data area, which f_mkfs does not notice
\* (README, Findings).
NoCluster == geo.clst = 0

\* After FR_OK the volume mounts, as the FAT type and with the clusters that
\* f_mkfs settled on, whatever the retries, and a FAT32 volume knows its free
\* clusters.  The areas the mount computes are the ones that were cleared, inside
\* the drive, with the data area at an erase block.
MountsAsFormatted ==
  pc = "end" /\ res = "OK" /\ ~NoCluster =>
    LET m == FindVolume(card)
        root == IF m.type = "FAT32" THEN m.csize ELSE 0
    IN  /\ m.res = "OK" /\ m.type = fmt /\ m.csize = geo.pau /\ m.entries = geo.clst + 2
        /\ (IF fmt = "FAT32" THEN "FAT32" ELSE "FAT") \in want.opt
        /\ ~unwritten /\ fmt = "FAT32" => m.free = m.entries - 3 /\ m.last = 2
        /\ filled = [from |-> m.fatbase, to |-> m.database + root]
        /\ m.database % Block = 0
        /\ m.database + ((m.entries - 2) * m.csize) <= want.size

\* A blank card that is given a partition mounts only when FAT and root directory
\* have been cleared, wherever f_mkfs stops.
BlankUntilDone ==
  want.old = "junk" /\ "SFD" \notin want.opt /\ FindVolume(card).res = "OK" =>
    filled.to >= FindVolume(card).database

=============================================================================
