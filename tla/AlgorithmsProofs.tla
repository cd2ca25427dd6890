-------------------------- MODULE AlgorithmsProofs --------------------------
(***************************************************************************)
(* Proofs about Algorithms: f_mkfs (module Format) and deadlines (module   *)
(* Timeouts).                                                              *)
(*                                                                         *)
(* f_mkfs tries allocation units until the areas, the type and the number  *)
(* of clusters fit each other, then writes boot sector, FSINFO, FAT, root  *)
(* directory and partition table in that order.  The invariant FormatInv   *)
(* says what is known of its numbers after each of these (Settled), where  *)
(* they are on the card already (OnCard), what is cleared (Cleared), and   *)
(* that a card without a partition table had none before (Blank).  That    *)
(* the mount derives the same geometry from the boot sector is arithmetic  *)
(* of rounding (Divided, SectorsFor, Fat12Fits): drives have up to 2^30    *)
(* sectors, units and erase blocks are powers of two.                      *)
(*                                                                         *)
(* Deadlines are about a tick that wraps once (TickIs, BetweenIs).         *)
(***************************************************************************)
EXTENDS Algorithms, FiniteSetTheorems, WellFoundedInduction, TLAPS

-----------------------------------------------------------------------------
(* Numbers.                                                                *)

\* What division and remainder are.
LEMMA DivMod ==
  ASSUME NEW a \in Nat, NEW b \in Nat \ {0}
  PROVE  a \div b \in Nat /\ a % b \in 0 .. b - 1 /\ a = b * (a \div b) + (a % b)
OBVIOUS

\* The powers of two that PowerOf2 looks at.
TwoPowers ==
  {1, 2, 4, 8, 16, 32, 64, 128, 256, 512, 1024, 2048, 4096, 8192, 16384, 32768, 65536, 131072,
   262144, 524288, 1048576, 2097152, 4194304, 8388608, 16777216, 33554432, 67108864, 134217728,
   268435456, 536870912, 1073741824}

\* The powers of two, one by one.
LEMMA Powers ==
  /\ 2^0 = 1 /\ 2^1 = 2 /\ 2^2 = 4 /\ 2^3 = 8 /\ 2^4 = 16
  /\ 2^5 = 32 /\ 2^6 = 64 /\ 2^7 = 128 /\ 2^8 = 256 /\ 2^9 = 512
  /\ 2^10 = 1024 /\ 2^11 = 2048 /\ 2^12 = 4096 /\ 2^13 = 8192 /\ 2^14 = 16384
  /\ 2^15 = 32768 /\ 2^16 = 65536 /\ 2^17 = 131072 /\ 2^18 = 262144 /\ 2^19 = 524288
  /\ 2^20 = 1048576 /\ 2^21 = 2097152 /\ 2^22 = 4194304 /\ 2^23 = 8388608 /\ 2^24 = 16777216
  /\ 2^25 = 33554432 /\ 2^26 = 67108864 /\ 2^27 = 134217728 /\ 2^28 = 268435456 /\ 2^29 = 536870912
  /\ 2^30 = 1073741824
OBVIOUS

\* They are these,
LEMMA PowerIs ==
  ASSUME NEW k \in 0 .. 30
  PROVE  2^k \in TwoPowers
<1>1. k = 0 \/ k = 1 \/ k = 2 \/ k = 3 \/ k = 4 \/ k = 5 \/ k = 6 \/ k = 7 \/ k = 8 \/
       k = 9 \/ k = 10 \/ k = 11 \/ k = 12 \/ k = 13 \/ k = 14 \/ k = 15 \/ k = 16 \/ k = 17 \/
       k = 18 \/ k = 19 \/ k = 20 \/ k = 21 \/ k = 22 \/ k = 23 \/ k = 24 \/ k = 25 \/
       k = 26 \/ k = 27 \/ k = 28 \/ k = 29 \/ k = 30
  OBVIOUS
<1>2. CASE k = 0
  BY <1>2, Powers, SMT DEF TwoPowers
<1>3. CASE k = 1
  BY <1>3, Powers, SMT DEF TwoPowers
<1>4. CASE k = 2
  BY <1>4, Powers, SMT DEF TwoPowers
<1>5. CASE k = 3
  BY <1>5, Powers, SMT DEF TwoPowers
<1>6. CASE k = 4
  BY <1>6, Powers, SMT DEF TwoPowers
<1>7. CASE k = 5
  BY <1>7, Powers, SMT DEF TwoPowers
<1>8. CASE k = 6
  BY <1>8, Powers, SMT DEF TwoPowers
<1>9. CASE k = 7
  BY <1>9, Powers, SMT DEF TwoPowers
<1>10. CASE k = 8
  BY <1>10, Powers, SMT DEF TwoPowers
<1>11. CASE k = 9
  BY <1>11, Powers, SMT DEF TwoPowers
<1>12. CASE k = 10
  BY <1>12, Powers, SMT DEF TwoPowers
<1>13. CASE k = 11
  BY <1>13, Powers, SMT DEF TwoPowers
<1>14. CASE k = 12
  BY <1>14, Powers, SMT DEF TwoPowers
<1>15. CASE k = 13
  BY <1>15, Powers, SMT DEF TwoPowers
<1>16. CASE k = 14
  BY <1>16, Powers, SMT DEF TwoPowers
<1>17. CASE k = 15
  BY <1>17, Powers, SMT DEF TwoPowers
<1>18. CASE k = 16
  BY <1>18, Powers, SMT DEF TwoPowers
<1>19. CASE k = 17
  BY <1>19, Powers, SMT DEF TwoPowers
<1>20. CASE k = 18
  BY <1>20, Powers, SMT DEF TwoPowers
<1>21. CASE k = 19
  BY <1>21, Powers, SMT DEF TwoPowers
<1>22. CASE k = 20
  BY <1>22, Powers, SMT DEF TwoPowers
<1>23. CASE k = 21
  BY <1>23, Powers, SMT DEF TwoPowers
<1>24. CASE k = 22
  BY <1>24, Powers, SMT DEF TwoPowers
<1>25. CASE k = 23
  BY <1>25, Powers, SMT DEF TwoPowers
<1>26. CASE k = 24
  BY <1>26, Powers, SMT DEF TwoPowers
<1>27. CASE k = 25
  BY <1>27, Powers, SMT DEF TwoPowers
<1>28. CASE k = 26
  BY <1>28, Powers, SMT DEF TwoPowers
<1>29. CASE k = 27
  BY <1>29, Powers, SMT DEF TwoPowers
<1>30. CASE k = 28
  BY <1>30, Powers, SMT DEF TwoPowers
<1>31. CASE k = 29
  BY <1>31, Powers, SMT DEF TwoPowers
<1>32. CASE k = 30
  BY <1>32, Powers, SMT DEF TwoPowers
<1> QED
  BY <1>1, <1>2, <1>3, <1>4, <1>5, <1>6, <1>7, <1>8, <1>9, <1>10, <1>11, <1>12, <1>13, <1>14, <1>15,
     <1>16, <1>17, <1>18, <1>19, <1>20, <1>21, <1>22, <1>23, <1>24, <1>25, <1>26, <1>27, <1>28,
     <1>29, <1>30, <1>31, <1>32

\* also where the exponent is not known.
LEMMA PowersAre ==
  ASSUME NEW u, PowerOf2(u)
  PROVE  u \in TwoPowers
<1>1. PICK k \in 0 .. 30 : u = 2^k
  BY Zenon DEF PowerOf2
<1>2. 2^k \in TwoPowers
  BY PowerIs
<1> QED
  BY <1>1, <1>2, Zenon

\* The cluster sizes of f_mkfs, in sectors.
ClusterSizes == {1, 2, 4, 8, 16, 32, 64, 128}

\* A power of two that f_mkfs takes for an allocation unit is one of these in sectors.
LEMMA UnitIs ==
  ASSUME NEW u \in Nat, PowerOf2(u), u >= 512, u \div 512 < 256
  PROVE  u \div 512 \in ClusterSizes
<1>1. u \in TwoPowers /\ u < 131072
  BY PowersAre
<1>2. u = 512 \/ u = 1024 \/ u = 2048 \/ u = 4096 \/ u = 8192 \/ u = 16384 \/ u = 32768 \/ u = 65536
  BY <1>1 DEF TwoPowers
<1> QED
  BY <1>2 DEF ClusterSizes

\* The cluster sizes are powers of two, which a byte of the boot sector holds.
LEMMA SizesAre ==
  ASSUME NEW p \in ClusterSizes
  PROVE  p \in Nat /\ p >= 1 /\ p <= 128 /\ p % 256 = p /\ PowerOf2(p)
<1>1. /\ 2^0 = 1 /\ 2^1 = 2 /\ 2^2 = 4 /\ 2^3 = 8 /\ 2^4 = 16 /\ 2^5 = 32 /\ 2^6 = 64 /\ 2^7 = 128
      /\ 0 \in 0 .. 30 /\ 1 \in 0 .. 30 /\ 2 \in 0 .. 30 /\ 3 \in 0 .. 30
      /\ 4 \in 0 .. 30 /\ 5 \in 0 .. 30 /\ 6 \in 0 .. 30 /\ 7 \in 0 .. 30
  OBVIOUS
<1>2. p = 1 \/ p = 2 \/ p = 4 \/ p = 8 \/ p = 16 \/ p = 32 \/ p = 64 \/ p = 128
  BY DEF ClusterSizes
<1>3. \E k \in 0 .. 30 : p = 2^k
  BY <1>1, <1>2, Zenon
<1>4. PowerOf2(p)
  BY <1>3, Zenon DEF PowerOf2
<1> QED
  BY <1>2, <1>4

\* The erase block that f_mkfs aligns to.
LEMMA BlockIs ==
  ASSUME want.block \in Nat
  PROVE  Block \in Nat /\ 1 <= Block /\ Block <= 32768
<1>1. ASSUME PowerOf2(want.block) PROVE want.block >= 1
  BY <1>1, PowersAre DEF TwoPowers
<1> QED
  BY <1>1 DEF Block

\* The default cluster size from a table of six limits.
LEMMA PickIs ==
  ASSUME NEW n \in Int, NEW t, DOMAIN t = 1 .. 6
  PROVE  Pick(n, t) \in {1, 2, 4, 8, 16, 32, 64}
<1> DEFINE S == {i \in DOMAIN t : t[i] <= n}
           k == Cardinality(S)
<1>1. IsFiniteSet(1 .. 6) /\ Cardinality(1 .. 6) = 6
  <2>1. 1 \in Int /\ 6 \in Int /\ ~(1 > 6) /\ (6 - 1) + 1 = 6
    OBVIOUS
  <2>2. Cardinality(1 .. 6) = (6 - 1) + 1
    BY <2>1, FS_Interval, Zenon
  <2> QED
    BY <2>1, <2>2, FS_Interval, Zenon
<1>2. k \in Nat /\ k <= 6
  BY <1>1, FS_Subset, FS_CardinalityType
<1> HIDE DEF k
<1>3. k = 0 \/ k = 1 \/ k = 2 \/ k = 3 \/ k = 4 \/ k = 5 \/ k = 6
  BY <1>2
<1>4. 2^0 = 1 /\ 2^1 = 2 /\ 2^2 = 4 /\ 2^3 = 8 /\ 2^4 = 16 /\ 2^5 = 32 /\ 2^6 = 64
  OBVIOUS
<1>5. 2^k \in {1, 2, 4, 8, 16, 32, 64}
  BY <1>3, <1>4, Zenon
<1> QED
  BY <1>5 DEF k, Pick

\* Rounding up to a multiple.
LEMMA CeilingIs ==
  ASSUME NEW a \in Nat, NEW b \in Nat \ {0}
  PROVE  /\ Ceiling(a, b) \in Nat /\ Ceiling(a, b) * b \in Nat
         /\ a <= Ceiling(a, b) * b /\ Ceiling(a, b) * b < a + b /\ (Ceiling(a, b) * b) % b = 0
<1> DEFINE c == (a + b - 1) \div b
           m == b * c
           r == (a + b - 1) % b
<1>1. c \in Nat /\ r \in 0 .. b - 1 /\ a + b - 1 = m + r
  <2>1. a + b - 1 \in Nat
    OBVIOUS
  <2> QED
    BY <2>1, DivMod DEF m, r, c
<1>2. c * b = m /\ m \in Nat /\ m % b = 0
  BY <1>1
<1> HIDE DEF m, r
<1>3. a <= m /\ m < a + b
  BY <1>1, <1>2
<1> QED
  BY <1>1, <1>2, <1>3 DEF Ceiling

-----------------------------------------------------------------------------
(* The arithmetic of one round, of a drive of size sectors with clusters   *)
(* of p: g clusters at most, f sectors for their FAT, n more for the       *)
(* alignment, and room for c clusters in the end.                          *)

\* What division by a cluster size is, and that it grows with its dividend.
LEMMA Divided ==
  ASSUME NEW p \in ClusterSizes, NEW b \in Nat
  PROVE  /\ b \div p \in Nat /\ p * (b \div p) <= b /\ b < p * (b \div p) + p /\ b \div p <= b
         /\ \A a \in Nat : a <= b => a \div p \in Nat /\ a \div p <= b \div p
<1>1. p = 1 \/ p = 2 \/ p = 4 \/ p = 8 \/ p = 16 \/ p = 32 \/ p = 64 \/ p = 128
  BY SMT DEF ClusterSizes
<1> QED
  BY <1>1, SMT

\* A size in sectors is rounded up.
LEMMA SectorsFor ==
  ASSUME NEW n \in Nat
  PROVE  Ceiling(n, 512) \in Nat /\ n <= 512 * Ceiling(n, 512) /\ 512 * Ceiling(n, 512) <= n + 511
BY SMT DEF Ceiling

\* More clusters than FAT16 can have come out of a room below 0.
LEMMA RoomNeeded ==
  ASSUME NEW room \in Int, NEW p \in ClusterSizes, NEW x, x = (IF room < 0 THEN 2147483647 ELSE room),
         x \div p <= 65525
  PROVE  room \in Nat
<1>1. p = 1 \/ p = 2 \/ p = 4 \/ p = 8 \/ p = 16 \/ p = 32 \/ p = 64 \/ p = 128
  BY SMT DEF ClusterSizes
<1> QED
  BY <1>1, SMT

\* The bytes that FAT12 has for g clusters are enough for c.
LEMMA Fat12Fits ==
  ASSUME NEW g \in Nat, NEW c \in Nat, c <= g
  PROVE  (((c + 2) * 3) \div 2) + ((c + 2) % 2) <= (((g * 3) + 1) \div 2) + 3
BY SMT

-----------------------------------------------------------------------------
(* The invariant of f_mkfs.                                                *)

\* The steps after the first write, and the successful end.
Written == {"fsinfo", "fat", "root", "mbr", "sync"}
Done == pc = "end" /\ res = "OK"

\* What is being formatted, while the type and the cluster size are sought and after.
Asked ==
  /\ want.size \in Nat /\ want.block \in Nat /\ Size \in Nat
  /\ au \in {0} \cup ClusterSizes /\ fmt \in {"FAT12", "FAT16", "FAT32"}
  /\ (IF fmt = "FAT32" THEN "FAT32" ELSE "FAT") \in want.opt

\* The geometry: what is left after the areas is so many clusters, of a number that
\* fits the FAT type and that the FAT has room for, from an erase block on.
Room == Size - geo.rsv - geo.fatsz - geo.dirsz
Settled ==
  /\ geo.pau \in ClusterSizes /\ geo.rsv \in Nat /\ 1 <= geo.rsv /\ geo.rsv < 65536
  /\ geo.fatsz \in Nat /\ geo.dirsz = (IF fmt = "FAT32" THEN 0 ELSE 32)
  /\ Room \in Nat /\ geo.clst = Room \div geo.pau
  /\ fmt = "FAT32" => geo.clst > MaxFat16 /\ (geo.clst + 2) * 4 <= geo.fatsz * 512
  /\ fmt # "FAT32" => geo.fatsz < 65536
  /\ fmt = "FAT16" => /\ geo.clst > MaxFat12 /\ geo.clst <= MaxFat16
                      /\ (geo.clst + 2) * 2 <= geo.fatsz * 512
  /\ fmt = "FAT12" => /\ geo.clst <= MaxFat12
                      /\ (((geo.clst + 2) * 3) \div 2) + ((geo.clst + 2) % 2) <= geo.fatsz * 512
  /\ (Base + geo.rsv + geo.fatsz + geo.dirsz) % Block = 0

\* The boot sectors written so far.
OnCard ==
  /\ pc \in Written \/ Done => card[Base] = Vbr(fmt, geo, Size)
  /\ (pc \in Written \ {"fsinfo"} \/ Done) /\ fmt = "FAT32" /\ ~unwritten =>
       card[Base + 1] = Fsinfo(geo.clst - 1, 2)
  /\ (pc = "sync" \/ Done) /\ "SFD" \notin want.opt => card[0] = Mbr(Base)

\* How far the areas are cleared.
ToFat == [from |-> Base + geo.rsv, to |-> Base + geo.rsv + geo.fatsz]
ToRoot == [from |-> Base + geo.rsv,
           to |-> Base + geo.rsv + geo.fatsz + (IF fmt = "FAT32" THEN geo.pau ELSE geo.dirsz)]
Cleared ==
  /\ pc = "root" => filled = ToFat
  /\ pc \in {"mbr", "sync"} \/ Done => filled = ToRoot

\* A blank card has no partition table before everything else is there.
Complete ==
  /\ card[0] = Mbr(Base) /\ card[Base] = Vbr(fmt, geo, Size) /\ filled = ToRoot
  /\ geo.pau \in Nat /\ geo.rsv \in Nat /\ geo.fatsz \in Nat
  /\ geo.dirsz = (IF fmt = "FAT32" THEN 0 ELSE 32)
Blank ==
  want.old = "junk" /\ "SFD" \notin want.opt =>
    \/ card[0] = Junk /\ pc # "sync"
    \/ Complete /\ pc \in {"sync", "end", "off"}

Sectors == {0, 1, 63, 64}
FormatInv ==
  /\ card = [s \in Sectors |-> card[s]]
  /\ pc \in {"idle", "plan", "vbr", "end", "off"} \cup Written
  /\ pc = "idle" => want.old = "none" /\ card \in OldCards
  /\ pc = "mbr" => "SFD" \notin want.opt
  /\ pc \in {"plan", "vbr"} \cup Written \/ Done => Asked
  /\ pc \in {"vbr"} \cup Written \/ Done => Settled
  /\ OnCard /\ Cleared /\ Blank

\* The volume begins at the first sector or where a partition usually does.
LEMMA BaseIs == Base \in {0, 63} /\ ("SFD" \notin want.opt => Base = 63)
BY DEF Base

\* The cluster size of a round.
LEMMA PauIs ==
  ASSUME Asked
  PROVE  Pau \in ClusterSizes
<1>1. CASE au # 0
  BY <1>1 DEF Asked, Pau
<1>2. CASE au = 0
  <2>1. Size \div 131072 \in Int /\ Size \div 4096 \in Int
    BY SMT DEF Asked
  <2>2. DOMAIN <<1, 2, 4, 8, 16, 32>> = 1 .. 6 /\ DOMAIN <<1, 4, 16, 64, 256, 512>> = 1 .. 6
    BY SMT
  <2> DEFINE x == Pick(Size \div 131072, <<1, 2, 4, 8, 16, 32>>)
             y == Pick(Size \div 4096, <<1, 4, 16, 64, 256, 512>>)
  <2>3. x \in {1, 2, 4, 8, 16, 32, 64} /\ y \in {1, 2, 4, 8, 16, 32, 64}
    BY <2>1, <2>2, PickIs, SMT
  <2>4. Pau = IF fmt = "FAT32" THEN x ELSE y
    BY <1>2, SMT DEF Pau
  <2> HIDE DEF x, y
  <2> QED
    BY <2>3, <2>4 DEF ClusterSizes
<1> QED
  BY <1>1, <1>2

\* Another round starts with a size that is one.
LEMMA RetryFits ==
  ASSUME NEW p \in ClusterSizes
  PROVE  (p > 1 => p \div 2 \in ClusterSizes) /\ (p * 2 <= 128 => p * 2 \in ClusterSizes)
<1>1. p = 1 \/ p = 2 \/ p = 4 \/ p = 8 \/ p = 16 \/ p = 32 \/ p = 64 \/ p = 128
  BY DEF ClusterSizes
<1> QED
  BY <1>1, SMT DEF ClusterSizes

-----------------------------------------------------------------------------
(* The rounds.                                                             *)

\* The sectors added so that the data area begins at an erase block.
Added == 0 .. 32767

\* The next multiple of the erase block is less than one away.
LEMMA AlignIs ==
  ASSUME want.block \in Nat, NEW data \in Nat, NEW n, n = (Ceiling(data, Block) * Block) - data
  PROVE  n \in Added /\ (data + n) % Block = 0
<1> DEFINE m == Ceiling(data, Block) * Block
           b == Block
<1>1. b \in Nat \ {0} /\ b <= 32768
  BY BlockIs DEF b
<1>2. m \in Nat /\ data <= m /\ m < data + b /\ m % b = 0
  BY <1>1, CeilingIs DEF m, b
<1>3. n = m - data
  OBVIOUS
<1> HIDE DEF m, b
<1>4. n \in Added /\ data + n = m
  <2>1. m \in Nat /\ data <= m /\ m < data + b
    BY <1>2
  <2>2. m - data \in Added /\ data + (m - data) = m
    BY <1>1, <2>1, SMT DEF Added
  <2> QED
    BY <1>3, <2>2, Zenon
<1> QED
  BY <1>2, <1>4 DEF b

\* A round that goes on with another type or cluster size.
LEMMA RetryAsked ==
  ASSUME Asked, NEW type \in {"FAT12", "FAT16", "FAT32"}, NEW unit \in {0} \cup ClusterSizes,
         Retry(type, unit), want' = want, (IF type = "FAT32" THEN "FAT32" ELSE "FAT") \in want.opt
  PROVE  Asked' /\ pc' = pc /\ res' = res
BY DEF Asked, Retry, Size, Base

\* The clusters guessed, the type, the geometry and its clusters in a round.
Round(p, guess, type, g, n) ==
  /\ p = Pau /\ guess = Size \div p /\ type = Type(guess)
  /\ g = Aligned(type, Plain(type, guess)) /\ n = Clusters(g)

\* The round that settles.
LEMMA PlanSettles ==
  ASSUME Asked, want' = want, NEW p, NEW guess, NEW type, NEW g, NEW n, Round(p, guess, type, g, n),
         fmt' = type, geo' = [pau |-> p, rsv |-> g.rsv, fatsz |-> g.fatsz, dirsz |-> g.dirsz, clst |-> n],
         type = "FAT32" => ~(guess <= MaxFat16) /\ ~(n <= MaxFat16),
         type = "FAT16" => ~(n > MaxFat16) /\ ~(n <= MaxFat12),
         type = "FAT12" => ~(n > MaxFat12)
  PROVE  Settled'
<1>1. p \in ClusterSizes /\ Size \in Nat /\ want.block \in Nat /\ Base \in Nat
  BY PauIs, BaseIs DEF Asked, Round
<1>2. /\ guess \in Nat /\ p * guess <= Size /\ guess <= Size
      /\ \A a \in Nat : a <= Size => a \div p \in Nat /\ a \div p <= guess
  BY <1>1, Divided DEF Round
<1> DEFINE f == Ceiling(FatBytes(type, guess), 512)
           rsv == IF type = "FAT32" THEN 32 ELSE 1
           dirsz == IF type = "FAT32" THEN 0 ELSE 32
           data == Base + rsv + f + dirsz
           k == (Ceiling(data, Block) * Block) - data
           room == Size - g.rsv - g.fatsz - g.dirsz
           x == IF room < 0 THEN 2147483647 ELSE room
<1>3. type \in {"FAT12", "FAT16", "FAT32"}
  BY DEF Type, Round
<1>4. Plain(type, guess) = [pau |-> p, rsv |-> rsv, fatsz |-> f, dirsz |-> dirsz]
  <2>1. (512 * 32) \div 512 = 32
    OBVIOUS
  <2> QED
    BY <2>1 DEF Plain, NRootdir, SectorSize, Round
<1>5. FatBytes(type, guess) \in Nat
  <2>1. (guess * 4) + 8 \in Nat /\ (guess * 2) + 4 \in Nat /\ (((guess * 3) + 1) \div 2) + 3 \in Nat
    BY <1>2
  <2> QED
    BY <1>3, <2>1 DEF FatBytes
<1>6. f \in Nat /\ FatBytes(type, guess) <= 512 * f /\ 512 * f <= FatBytes(type, guess) + 511
  BY <1>5, SectorsFor
<1>7. data \in Nat
  BY <1>1, <1>6
<1>8. k \in 0 .. 32767 /\ (data + k) % Block = 0
  <2>1. k = (Ceiling(data, Block) * Block) - data
    OBVIOUS
  <2> HIDE DEF data, k
  <2>2. k \in Added /\ (data + k) % Block = 0
    BY <1>1, <1>7, <2>1, AlignIs, Zenon
  <2> QED
    BY <2>2, SMT DEF Added
<1>9. g = IF type = "FAT32" THEN [pau |-> p, rsv |-> rsv + k, fatsz |-> f, dirsz |-> dirsz]
          ELSE [pau |-> p, rsv |-> rsv, fatsz |-> f + k, dirsz |-> dirsz]
  <2> DEFINE q == Plain(type, guess)
  <2>1. q.rsv = rsv /\ q.fatsz = f /\ q.dirsz = dirsz
    BY <1>4
  <2>2. g = IF type = "FAT32" THEN [q EXCEPT !.rsv = @ + k] ELSE [q EXCEPT !.fatsz = @ + k]
    BY <2>1 DEF Aligned, Round
  <2> HIDE DEF k, f, rsv, dirsz
  <2> QED
    BY <1>4, <2>2
<1> HIDE DEF k
<1>10. g.rsv = (IF type = "FAT32" THEN 32 + k ELSE 1) /\ g.fatsz = (IF type = "FAT32" THEN f ELSE f + k) /\ g.dirsz = dirsz
  BY <1>9
<1>11. n = x \div p
  <2>1. g.pau = p
    BY <1>9
  <2> QED
    BY <2>1, SMT DEF Clusters, Round
<1> HIDE DEF f
<1>12. room \in Int /\ g.rsv \in Nat /\ 1 <= g.rsv /\ g.rsv < 65536 /\ g.fatsz \in Nat
  BY <1>1, <1>6, <1>8, <1>10
<1> HIDE DEF room
<1>0. x \in Nat /\ (room \in Nat => x = room)
  BY <1>12, SMT
<1>13. (Base + g.rsv + g.fatsz + g.dirsz) % Block = 0
  <2>1. Base + g.rsv + g.fatsz + g.dirsz = data + k
    BY <1>1, <1>6, <1>8, <1>10
  <2> QED
    BY <1>8, <2>1
<1>14. room \in Nat => room <= Size
  BY <1>1, <1>6, <1>8, <1>10, <1>12 DEF room
<1>15. room \in Nat => n = room \div p /\ n \in Nat /\ n <= guess
  <2> SUFFICES ASSUME room \in Nat PROVE n = room \div p /\ n \in Nat /\ n <= guess
    OBVIOUS
  <2> HIDE DEF x
  <2>1. n = room \div p
    BY <1>0, <1>11
  <2> QED
    BY <1>2, <1>14, <2>1
<1>16. /\ room \in Nat
       /\ type = "FAT32" => n > MaxFat16 /\ (n + 2) * 4 <= g.fatsz * 512
       /\ type # "FAT32" => g.fatsz < 65536
       /\ type = "FAT16" => n > MaxFat12 /\ n <= MaxFat16 /\ (n + 2) * 2 <= g.fatsz * 512
       /\ type = "FAT12" => n <= MaxFat12 /\ (((n + 2) * 3) \div 2) + ((n + 2) % 2) <= g.fatsz * 512
  <2>1. CASE type = "FAT32"
    <3>1. FatBytes(type, guess) = (guess * 4) + 8
      BY <2>1 DEF FatBytes
    <3>2. guess > 65525 /\ 512 * f <= (guess * 4) + 519
      BY <1>2, <1>6, <2>1, <3>1, SMT DEF MaxFat16
    <3>3. Size - (32 + k) - f - 0 \in Nat
      <4>1. Size \in Nat /\ guess \in Nat /\ guess <= Size
        BY <1>1, <1>2
      <4> QED
        BY <1>6, <1>8, <3>2, <4>1, SMT
    <3>4. room \in Nat
      BY <1>10, <2>1, <3>3 DEF room
    <3>5. n \in Nat /\ n <= guess
      BY <1>15, <3>4
    <3>6. (n + 2) * 4 <= g.fatsz * 512
      BY <1>2, <1>6, <1>10, <2>1, <3>1, <3>5
    <3>7. n > MaxFat16
      BY <2>1, <3>5, SMT DEF MaxFat16
    <3> QED
      BY <2>1, <3>4, <3>6, <3>7
  <2>2. CASE type = "FAT16"
    <3>1. FatBytes(type, guess) = (guess * 2) + 4
      BY <2>2 DEF FatBytes
    <3>2. 512 * f <= (guess * 2) + 515 /\ (guess * 2) + 4 <= 512 * f
      BY <1>2, <1>6, <3>1, SMT
    <3>3. n \in Int
      <4> HIDE DEF x
      <4>1. n \in Nat
        BY <1>0, <1>1, <1>11, Divided
      <4> QED
        BY <4>1
    <3>4. n <= 65525 /\ n > 4085
      BY <2>2, <3>3, SMT DEF MaxFat16, MaxFat12
    <3>5. room \in Nat
      BY <1>1, <1>11, <1>12, <3>4, RoomNeeded, SMT
    <3>6. n \in Nat /\ n <= guess /\ room < p * n + p
      BY <1>1, <1>15, <3>5, Divided
    <3>7. Size - 1 - (f + k) - 32 < p * n + p
      BY <1>10, <2>2, <3>6, SMT DEF room
    <3>8. f + k < 65536
      <4>1. Size \in Nat /\ guess \in Nat /\ p * guess <= Size
        BY <1>1, <1>2
      <4>2. f \in Nat /\ n \in Nat
        BY <1>6, <3>6
      <4>3. p = 1 \/ p = 2 \/ p = 4 \/ p = 8 \/ p = 16 \/ p = 32 \/ p = 64 \/ p = 128
        BY <1>1 DEF ClusterSizes
      <4> QED
        BY <1>8, <3>2, <3>4, <3>7, <4>1, <4>2, <4>3, SMT
    <3>9. (n + 2) * 2 <= g.fatsz * 512 /\ g.fatsz < 65536
      BY <1>2, <1>6, <1>8, <1>10, <2>2, <3>2, <3>6, <3>8, SMT
    <3> QED
      BY <2>2, <3>4, <3>5, <3>9, SMT DEF MaxFat16, MaxFat12
  <2>3. CASE type = "FAT12"
    <3> DEFINE b == (((guess * 3) + 1) \div 2) + 3
               e == (((n + 2) * 3) \div 2) + ((n + 2) % 2)
    <3>1. FatBytes(type, guess) = b /\ guess <= 4085
      <4>1. ~(guess > MaxFat12)
        BY <2>3 DEF Type, Round
      <4> QED
        BY <1>2, <2>3, <4>1, SMT DEF FatBytes, MaxFat12
    <3>2. b <= 6131 /\ b \in Nat
      BY <1>2, <3>1, SMT
    <3>3. n \in Int
      <4> HIDE DEF x
      <4>1. n \in Nat
        BY <1>0, <1>1, <1>11, Divided
      <4> QED
        BY <4>1
    <3>4. n <= 4085 /\ n <= 65525
      BY <2>3, <3>3, SMT DEF MaxFat12
    <3>5. room \in Nat
      BY <1>1, <1>11, <1>12, <3>4, RoomNeeded, SMT
    <3>6. n \in Nat /\ n <= guess
      BY <1>15, <3>5
    <3>7. e <= b /\ e \in Nat
      BY <1>2, <3>6, Fat12Fits, SMT
    <3> HIDE DEF b, e
    <3>8. b <= 512 * f /\ 512 * f <= b + 511
      BY <1>6, <3>1, SMT
    <3>9. e <= g.fatsz * 512 /\ g.fatsz < 65536
      BY <1>6, <1>8, <1>10, <2>3, <3>2, <3>7, <3>8, SMT
    <3> QED
      BY <2>3, <3>4, <3>5, <3>9, SMT DEF MaxFat12, e
  <2> QED
    BY <1>3, <2>1, <2>2, <2>3
<1>17. /\ geo'.pau = p /\ geo'.rsv = g.rsv /\ geo'.fatsz = g.fatsz /\ geo'.dirsz = g.dirsz /\ geo'.clst = n
       /\ Size' = Size /\ Base' = Base /\ Block' = Block /\ Room' = room
  BY DEF Size, Base, Block, Room, room
<1>18. n = room \div p
  BY <1>15, <1>16
<1> DEFINE e == (((n + 2) * 3) \div 2) + ((n + 2) % 2)
<1>19. (((geo'.clst + 2) * 3) \div 2) + ((geo'.clst + 2) % 2) = e
  BY <1>17
<1>20. type = "FAT12" => n <= MaxFat12 /\ e <= g.fatsz * 512
  BY <1>16
<1> HIDE DEF e
<1> QED
  BY <1>1, <1>10, <1>12, <1>13, <1>16, <1>17, <1>18, <1>19, <1>20 DEF Settled

-----------------------------------------------------------------------------
(* The steps.                                                              *)

\* What the cards are on which f_mkfs begins.
LEMMA OldIs ==
  ASSUME NEW c \in OldCards
  PROVE  c = [s \in Sectors |-> c[s]] /\ (c[0].kind = "junk" => c[0] = Junk)
BY DEF OldCards, Sectors, OldVbr, Vbr, Mbr, Junk

\* A card written to is still one.
LEMMA CardTo ==
  ASSUME card = [s \in Sectors |-> card[s]], NEW a \in Sectors, NEW v,
         NEW c, c = [card EXCEPT ![a] = v]
  PROVE  c = [s \in Sectors |-> c[s]] /\ c[a] = v /\ \A s \in Sectors : s # a => c[s] = card[s]
OBVIOUS

\* Where f_mkfs writes boot sectors.
LEMMA BaseSectors == Base \in Sectors /\ Base + 1 \in Sectors /\ 0 \in Sectors /\ Base # Base + 1 /\ Base + 1 # 0
BY BaseIs DEF Sectors

\* After the geometry is settled nothing changes what it is derived from.
LEMMA GeometryStays ==
  ASSUME UNCHANGED <<want, fmt, au, geo>>
  PROVE  /\ Base' = Base /\ Size' = Size /\ ToFat' = ToFat /\ ToRoot' = ToRoot
         /\ (Asked => Asked') /\ (Settled => Settled')
<1>1. Base' = Base /\ Size' = Size /\ Block' = Block
  BY DEF Base, Size, Block
<1>2. ToFat' = ToFat /\ ToRoot' = ToRoot
  BY <1>1 DEF ToFat, ToRoot
<1>3. Asked => Asked'
  BY <1>1 DEF Asked
<1>4. Settled => Settled'
  BY <1>1 DEF Settled, Room
<1> QED
  BY <1>1, <1>2, <1>3, <1>4

\* A write that fails ends the call.
LEMMA FailedEnds ==
  ASSUME FormatInv, UNCHANGED <<want, fmt, au, geo, unwritten>>, End("DISK_ERR"),
         card' = [s \in Sectors |-> card'[s]], Blank'
  PROVE  FormatInv'
<1>1. pc' = "end" /\ ~Done'
  BY DEF End, Done
<1> QED
  BY <1>1 DEF FormatInv, OnCard, Cleared, Written

\* The sizes of drives are numbers.
LEMMA DrivesAre ==
  ASSUME NEW size \in Drives
  PROVE  size \in Nat
<1>1. size \in 0 .. (2 ^ 30)
  BY FormatAssumption, Zenon
<1> QED
  BY <1>1, SMT

\* The call begins.
LEMMA FMkfsKeeps ==
  ASSUME FormatInv, FMkfs
  PROVE  FormatInv'
<1>1. card \in OldCards /\ UNCHANGED <<geo, card, filled, unwritten>>
  BY DEF FormatInv, FMkfs
<1>2. PICK opt \in Options, unit \in Units, size \in Drives, block \in Blocks,
           drive \in {"OK", "NOT_READY", "WRITE_PROTECTED", "DISK_ERR"}, short \in BOOLEAN :
        /\ want' = [opt |-> opt, au |-> unit, size |-> size, block |-> block, old |-> card[0].kind]
        /\ fmt' = IF "FAT" \in opt THEN "FAT16" ELSE "FAT32"
        /\ au' = unit \div SectorSize
        /\ CASE drive \in {"NOT_READY", "WRITE_PROTECTED"} -> End(drive)
             [] drive \in {"OK", "DISK_ERR"} /\ BadUnit(unit) -> End("INVALID_PARAMETER")
             [] drive \in {"OK", "DISK_ERR"} /\ ~BadUnit(unit) /\ short -> End("MKFS_ABORTED")
             [] drive = "DISK_ERR" /\ ~BadUnit(unit) /\ ~short -> End(drive)
             [] drive = "OK" /\ ~BadUnit(unit) /\ ~short ->
                  IF size - Base' < 128 THEN End("MKFS_ABORTED")
                  ELSE IF NoType(opt, unit) THEN End("INVALID_PARAMETER")
                  ELSE pc' = "plan" /\ UNCHANGED res
  BY DEF FMkfs
<1>7. \/ \E r \in {"NOT_READY", "WRITE_PROTECTED", "INVALID_PARAMETER", "DISK_ERR", "MKFS_ABORTED"} : End(r)
      \/ /\ ~BadUnit(unit) /\ ~(size - Base' < 128) /\ ~NoType(opt, unit)
         /\ pc' = "plan" /\ UNCHANGED res
  <2>1. CASE drive = "NOT_READY" \/ drive = "WRITE_PROTECTED"
    BY <1>2, <2>1
  <2>2. CASE drive \in {"OK", "DISK_ERR"} /\ BadUnit(unit)
    BY <1>2, <2>2
  <2>5. CASE drive \in {"OK", "DISK_ERR"} /\ ~BadUnit(unit) /\ short
    BY <1>2, <2>5
  <2>3. CASE drive = "DISK_ERR" /\ ~BadUnit(unit) /\ ~short
    BY <1>2, <2>3
  <2>4. CASE drive = "OK" /\ ~BadUnit(unit) /\ ~short
    BY <1>2, <2>4
  <2> QED
    BY <2>1, <2>2, <2>3, <2>4, <2>5
<1>3. Blank'
  <2>1. want'.old = card[0].kind /\ pc' # "sync"
    BY <1>2, <1>7 DEF End
  <2> QED
    BY <1>1, <2>1, OldIs DEF Blank
<1>4. ~Done' /\ pc' \in {"end", "plan"}
  BY <1>7 DEF Done, End
<1>5. ASSUME pc' = "plan" PROVE Asked'
  <2>1. ~BadUnit(unit) /\ ~(size - Base' < 128) /\ ~NoType(opt, unit)
    BY <1>5, <1>7 DEF End
  <2>2. unit \in Nat /\ size \in Nat /\ block \in Nat /\ opt \subseteq {"FAT", "FAT32", "SFD"}
    <3>1. size \in Nat
      BY DrivesAre
    <3>2. opt \in SUBSET {"FAT", "FAT32", "SFD"} /\ unit \in Nat /\ block \in Nat
      BY FormatAssumption
    <3> QED
      BY <3>1, <3>2
  <2>3. Base' \in {0, 63}
    BY DEF Base
  <2>4. Size' = size - Base'
    BY <1>2 DEF Size
  <2>5. Size' \in Nat
    <3>1. ~(size - Base' < 128)
      BY <2>1
    <3>2. size \in Nat
      BY <2>2
    <3>3. PICK b \in {0, 63} : b = Base'
      BY <2>3
    <3>4. ~(size - b < 128)
      BY <3>1, <3>3, Zenon
    <3>5. size - b \in Nat
      BY <3>2, <3>4
    <3> QED
      BY <2>4, <3>3, <3>5, Zenon
  <2>6. au' \in {0} \cup ClusterSizes
    <3>1. ~(unit \div 512 >= 256)
      BY <2>1 DEF NoType, SectorSize
    <3>2. CASE unit = 0
      BY <1>2, <3>2 DEF SectorSize
    <3>3. CASE unit # 0
      <4>1. PowerOf2(unit) /\ unit >= 512
        BY <2>1, <2>2, <3>3 DEF BadUnit, SectorSize
      <4> QED
        BY <1>2, <2>2, <3>1, <4>1, UnitIs DEF SectorSize
    <3> QED
      BY <3>2, <3>3
  <2>7. (IF fmt' = "FAT32" THEN "FAT32" ELSE "FAT") \in opt /\ fmt' \in {"FAT12", "FAT16", "FAT32"}
    BY <1>2, <2>1 DEF NoType
  <2> QED
    BY <1>2, <2>2, <2>5, <2>6, <2>7 DEF Asked
<1>6. card' = [s \in Sectors |-> card'[s]]
  BY <1>1, OldIs
<1> QED
  BY <1>3, <1>4, <1>5, <1>6 DEF FormatInv, OnCard, Cleared, Written

\* A round.
LEMMA PlanRoundKeeps ==
  ASSUME FormatInv, PlanRound
  PROVE  FormatInv'
<1>1. /\ Asked /\ pc = "plan" /\ UNCHANGED <<want, card, filled, unwritten>>
      /\ card = [s \in Sectors |-> card[s]] /\ Blank
  BY DEF FormatInv, PlanRound
<1> DEFINE p == Pau
           guess == Size \div Pau
           type == Type(guess)
           g == Aligned(type, Plain(type, guess))
           n == Clusters(g)
           small == type = "FAT32" /\ (guess <= MaxFat16 \/ guess > MaxFat32)
           few == type = "FAT32" /\ n <= MaxFat16
           many == type = "FAT16" /\ n > MaxFat16
           less == type = "FAT16" /\ n <= MaxFat12
           more == type = "FAT12" /\ n > MaxFat12
           settled == /\ pc' = "vbr" /\ fmt' = type /\ UNCHANGED <<au, res>>
                      /\ geo' = [pau |-> p, rsv |-> g.rsv, fatsz |-> g.fatsz, dirsz |-> g.dirsz, clst |-> n]
<1>2. \/ Abort
      \/ few /\ p > 1 /\ Retry(type, p \div 2)
      \/ many /\ p * 2 <= 64 /\ Retry(type, p * 2)
      \/ many /\ "FAT32" \in want.opt /\ Retry("FAT32", au)
      \/ many /\ p * 2 <= 128 /\ Retry(type, p * 2)
      \/ less /\ p * 2 <= 128 /\ Retry(type, p * 2)
      \/ ~small /\ ~few /\ ~many /\ ~less /\ ~more /\ settled
  BY SMT DEF PlanRound
<1>3. p \in ClusterSizes
  BY <1>1, PauIs
<1>4. type \in {"FAT12", "FAT16", "FAT32"} /\ (type = "FAT32" <=> fmt = "FAT32")
  BY DEF Type
<1>5. Round(p, guess, type, g, n)
  BY DEF Round
<1> HIDE DEF p, guess, type, g, n
<1>6. CASE Abort
  <2>1. pc' = "end" /\ ~Done' /\ UNCHANGED <<fmt, au, geo>>
    BY <1>6 DEF Abort, End, Done
  <2>2. Blank'
    BY <1>1, <2>1 DEF Blank
  <2> QED
    BY <1>1, <2>1, <2>2 DEF FormatInv, OnCard, Cleared, Written
<1>7. CASE \E t \in {"FAT12", "FAT16", "FAT32"}, u \in {0} \cup ClusterSizes :
             Retry(t, u) /\ (IF t = "FAT32" THEN "FAT32" ELSE "FAT") \in want.opt
  <2>1. Asked' /\ pc' = "plan"
    BY <1>1, <1>7, RetryAsked
  <2>2. Blank'
    BY <1>1, <2>1 DEF Blank
  <2> QED
    BY <1>1, <2>1, <2>2 DEF FormatInv, OnCard, Cleared, Written, Done
<1>8. CASE ~small /\ ~few /\ ~many /\ ~less /\ ~more /\ settled
  <2>1. Settled'
    BY <1>1, <1>5, <1>8, PlanSettles, Zenon
  <2>2. Asked'
    BY <1>1, <1>4, <1>8 DEF Asked, Size, Base
  <2>3. Blank'
    BY <1>1, <1>8 DEF Blank
  <2> QED
    BY <1>1, <1>8, <2>1, <2>2, <2>3 DEF FormatInv, OnCard, Cleared, Written, Done
<1>9. (IF type = "FAT32" THEN "FAT32" ELSE "FAT") \in want.opt /\ au \in {0} \cup ClusterSizes
  BY <1>1, <1>4 DEF Asked
<1>10. (p > 1 => p \div 2 \in ClusterSizes) /\ (p * 2 <= 128 => p * 2 \in ClusterSizes) /\ (p * 2 <= 64 => p * 2 <= 128)
  BY <1>3, RetryFits, SizesAre
<1> QED
  BY <1>2, <1>4, <1>6, <1>7, <1>8, <1>9, <1>10

\* The boot sector of the volume goes first; the card has no partition table then,
\* unless it had one before.
LEMMA WriteVbrKeeps ==
  ASSUME FormatInv, WriteVbr
  PROVE  FormatInv'
<1> DEFINE c == [card EXCEPT ![Base] = Vbr(fmt, geo, Size)]
           next == NextWrite.vbr
<1>1. /\ pc = "vbr" /\ UNCHANGED <<want, fmt, au, geo, unwritten>> /\ filled' = filled
      /\ \/ pc' = next /\ card' = c /\ res' = res
         \/ End("DISK_ERR") /\ card' \in {card, c}
  BY DEF WriteVbr, Write
<1>2. next = IF fmt = "FAT32" THEN "fsinfo" ELSE "fat"
  BY DEF NextWrite
<1>3. Asked /\ Settled /\ Blank /\ card = [s \in Sectors |-> card[s]]
  BY <1>1 DEF FormatInv
<1>4. /\ c = [s \in Sectors |-> c[s]] /\ c[Base] = Vbr(fmt, geo, Size)
      /\ \A s \in Sectors : s # Base => c[s] = card[s]
  BY <1>3, BaseSectors, CardTo
<1>5. /\ Base' = Base /\ Size' = Size /\ Asked' /\ Settled'
  BY <1>1, <1>3, GeometryStays
<1>6. c[0] = card[0] \/ "SFD" \in want.opt
  BY <1>4, BaseIs DEF Sectors
<1> HIDE DEF c, next
<1>7. card' = [s \in Sectors |-> card'[s]] /\ (card'[0] = card[0] \/ "SFD" \in want.opt)
  BY <1>1, <1>3, <1>4, <1>6
<1>8. pc' # "sync"
  BY <1>1, <1>2 DEF End
<1>9. Blank'
  <2>1. want.old = "junk" /\ "SFD" \notin want.opt => card[0] = Junk
    BY <1>1, <1>3 DEF Blank
  <2> QED
    BY <1>1, <1>7, <1>8, <2>1 DEF Blank
<1>10. CASE End("DISK_ERR")
  BY <1>1, <1>7, <1>9, <1>10, FailedEnds
<1>11. CASE pc' = next /\ card' = c /\ res' = res
  BY <1>1, <1>2, <1>4, <1>5, <1>7, <1>9, <1>11 DEF FormatInv, OnCard, Cleared, Written, Done
<1> QED
  BY <1>1, <1>10, <1>11

\* FSINFO, or what was there before.
LEMMA WriteFsinfoKeeps ==
  ASSUME FormatInv, WriteFsinfo
  PROVE  FormatInv'
<1> DEFINE c == [card EXCEPT ![Base + 1] = Fsinfo(geo.clst - 1, 2)]
<1>1. /\ pc = "fsinfo" /\ pc' = "fat" /\ UNCHANGED <<want, res, fmt, au, geo, filled>>
      /\ card' = c \/ (card' = card /\ unwritten')
  BY DEF WriteFsinfo, NextWrite
<1>2. /\ Asked /\ Settled /\ Blank /\ card = [s \in Sectors |-> card[s]]
      /\ card[Base] = Vbr(fmt, geo, Size)
  BY <1>1 DEF FormatInv, OnCard, Written
<1>3. /\ c = [s \in Sectors |-> c[s]] /\ c[Base + 1] = Fsinfo(geo.clst - 1, 2)
      /\ \A s \in Sectors : s # Base + 1 => c[s] = card[s]
  BY <1>2, BaseSectors, CardTo
<1>4. c[Base] = card[Base] /\ c[0] = card[0]
  BY <1>3, BaseSectors
<1> HIDE DEF c
<1>5. Base' = Base /\ Size' = Size /\ Asked' /\ Settled'
  BY <1>1, <1>2, GeometryStays
<1>6. card'[0] = card[0] /\ card'[Base] = card[Base] /\ card' = [s \in Sectors |-> card'[s]]
  BY <1>1, <1>2, <1>3, <1>4
<1>7. Blank'
  BY <1>1, <1>2, <1>6 DEF Blank
<1>8. OnCard'
  BY <1>1, <1>2, <1>3, <1>5, <1>6 DEF OnCard, Done
<1> QED
  BY <1>1, <1>5, <1>6, <1>7, <1>8 DEF FormatInv, Cleared, Written, Done

\* After the boot sectors, what is cleared.
LEMMA FillFatKeeps ==
  ASSUME FormatInv, FillFat
  PROVE  FormatInv'
<1>1. PICK half \in BOOLEAN :
        LET from == Base + geo.rsv
            to == from + (IF half THEN geo.fatsz \div 2 ELSE geo.fatsz)
        IN  /\ filled.to < to
            /\ Write("fat", IF half THEN "fat" ELSE NextWrite.fat, card, [from |-> from, to |-> to])
  BY DEF FillFat
<1> DEFINE from == Base + geo.rsv
           f == [from |-> from, to |-> from + (IF half THEN geo.fatsz \div 2 ELSE geo.fatsz)]
           next == IF half THEN "fat" ELSE "root"
<1>2. NextWrite.fat = "root"
  BY DEF NextWrite
<1>3. Write("fat", next, card, f)
  BY <1>1, <1>2
<1>4. ~half => f = ToFat
  BY DEF ToFat
<1> HIDE DEF f
<1>5. /\ pc = "fat" /\ UNCHANGED <<want, fmt, au, geo, unwritten>> /\ card' = card
      /\ \/ pc' = next /\ filled' = f /\ res' = res
         \/ End("DISK_ERR")
  BY <1>3 DEF Write
<1>6. Asked /\ Settled /\ Blank /\ OnCard /\ card = [s \in Sectors |-> card[s]]
  BY <1>5 DEF FormatInv, Written
<1>7. Base' = Base /\ Size' = Size /\ ToFat' = ToFat /\ Asked' /\ Settled'
  BY <1>5, <1>6, GeometryStays
<1>8. Blank'
  <2>1. want.old = "junk" /\ "SFD" \notin want.opt => card[0] = Junk
    BY <1>5, <1>6 DEF Blank
  <2>2. pc' # "sync"
    BY <1>5 DEF End
  <2> QED
    BY <1>5, <2>1, <2>2 DEF Blank
<1>9. CASE End("DISK_ERR")
  BY <1>5, <1>6, <1>8, <1>9, FailedEnds
<1>10. CASE pc' = next /\ filled' = f /\ res' = res
  <2>1. OnCard'
    BY <1>5, <1>6, <1>7, <1>10 DEF OnCard, Written, Done
  <2>2. Cleared'
    BY <1>4, <1>7, <1>10 DEF Cleared, Done
  <2> QED
    BY <1>5, <1>6, <1>7, <1>8, <1>10, <2>1, <2>2 DEF FormatInv, Written, Done
<1> QED
  BY <1>5, <1>9, <1>10

\* The root directory is cleared right behind the FAT.
LEMMA FillRootKeeps ==
  ASSUME FormatInv, FillRoot
  PROVE  FormatInv'
<1> DEFINE f == [filled EXCEPT !.to = @ + (IF fmt = "FAT32" THEN geo.pau ELSE geo.dirsz)]
           next == IF "SFD" \in want.opt THEN "sync" ELSE "mbr"
<1>1. NextWrite.root = next
  BY DEF NextWrite
<1>2. Write("root", next, card, f)
  BY <1>1 DEF FillRoot
<1>3. filled = ToFat => f = ToRoot
  BY DEF ToFat, ToRoot
<1> HIDE DEF f
<1>4. /\ pc = "root" /\ UNCHANGED <<want, fmt, au, geo, unwritten>> /\ card' = card
      /\ \/ pc' = next /\ filled' = f /\ res' = res
         \/ End("DISK_ERR")
  BY <1>2 DEF Write
<1>5. Asked /\ Settled /\ Blank /\ OnCard /\ filled = ToFat /\ card = [s \in Sectors |-> card[s]]
  BY <1>4 DEF FormatInv, Written, Cleared
<1>6. Base' = Base /\ Size' = Size /\ ToRoot' = ToRoot /\ Asked' /\ Settled'
  BY <1>4, <1>5, GeometryStays
<1>7. Blank'
  <2>1. want.old = "junk" /\ "SFD" \notin want.opt => card[0] = Junk
    BY <1>4, <1>5 DEF Blank
  <2>2. pc' = "sync" => "SFD" \in want.opt
    BY <1>4 DEF End
  <2> QED
    BY <1>4, <2>1, <2>2 DEF Blank
<1>8. CASE End("DISK_ERR")
  BY <1>4, <1>5, <1>7, <1>8, FailedEnds
<1>9. CASE pc' = next /\ filled' = f /\ res' = res
  <2>1. OnCard'
    BY <1>4, <1>5, <1>6, <1>9 DEF OnCard, Written, Done
  <2>2. Cleared'
    BY <1>3, <1>5, <1>6, <1>9 DEF Cleared, Done
  <2> QED
    BY <1>4, <1>5, <1>6, <1>7, <1>9, <2>1, <2>2 DEF FormatInv, Written, Done
<1> QED
  BY <1>4, <1>8, <1>9

\* The partition table comes when everything else is there.
LEMMA WriteMbrKeeps ==
  ASSUME FormatInv, WriteMbr
  PROVE  FormatInv'
<1> DEFINE c == [card EXCEPT ![0] = Mbr(Base)]
<1>1. NextWrite.mbr = "sync"
  BY DEF NextWrite
<1>2. /\ pc = "mbr" /\ UNCHANGED <<want, fmt, au, geo, unwritten>> /\ filled' = filled
      /\ \/ pc' = "sync" /\ card' = c /\ res' = res
         \/ End("DISK_ERR") /\ card' \in {card, c}
  BY <1>1 DEF WriteMbr, Write
<1>3. /\ Asked /\ Settled /\ Blank /\ OnCard /\ filled = ToRoot /\ "SFD" \notin want.opt
      /\ card = [s \in Sectors |-> card[s]]
  BY <1>2 DEF FormatInv, Written, Cleared
<1>4. c = [s \in Sectors |-> c[s]] /\ c[0] = Mbr(Base) /\ \A s \in Sectors : s # 0 => c[s] = card[s]
  BY <1>3, BaseSectors, CardTo
<1>5. Base = 63 /\ c[Base] = card[Base] /\ c[Base + 1] = card[Base + 1]
  BY <1>3, <1>4, BaseIs, BaseSectors
<1> HIDE DEF c
<1>6. Base' = Base /\ Size' = Size /\ ToRoot' = ToRoot /\ Asked' /\ Settled'
  BY <1>2, <1>3, GeometryStays
<1>7. /\ card' = [s \in Sectors |-> card'[s]] /\ card'[Base] = card[Base] /\ card'[Base + 1] = card[Base + 1]
      /\ card'[0] = card[0] \/ card'[0] = Mbr(Base)
  BY <1>2, <1>3, <1>4, <1>5
<1>8. card[Base] = Vbr(fmt, geo, Size)
  BY <1>2, <1>3 DEF OnCard, Written
<1>9. Blank'
  <2>1. want.old = "junk" /\ "SFD" \notin want.opt => card[0] = Junk
    BY <1>2, <1>3 DEF Blank
  <2>2. pc' \in {"sync", "end"} /\ (pc' = "sync" => card'[0] = Mbr(Base))
    BY <1>2, <1>4 DEF End
  <2>3. card'[0] = Mbr(Base) => Complete'
    BY <1>2, <1>3, <1>6, <1>7, <1>8, SizesAre DEF Complete, Settled
  <2> QED
    BY <1>2, <1>7, <2>1, <2>2, <2>3 DEF Blank
<1>10. CASE End("DISK_ERR")
  BY <1>2, <1>7, <1>9, <1>10, FailedEnds
<1>11. CASE pc' = "sync" /\ card' = c /\ res' = res
  <2>1. OnCard'
    BY <1>2, <1>3, <1>4, <1>6, <1>7, <1>11 DEF OnCard, Written, Done
  <2>2. Cleared'
    BY <1>2, <1>3, <1>6, <1>11 DEF Cleared, Done
  <2> QED
    BY <1>2, <1>6, <1>7, <1>9, <1>11, <2>1, <2>2 DEF FormatInv, Written, Done
<1> QED
  BY <1>2, <1>10, <1>11

\* At the end, and at a power loss, the card stays.
LEMMA CtrlSyncKeeps ==
  ASSUME FormatInv, CtrlSync
  PROVE  FormatInv'
<1>1. NextWrite.sync = "end"
  BY DEF NextWrite
<1>2. /\ pc = "sync" /\ UNCHANGED <<want, fmt, au, geo, unwritten>> /\ filled' = filled /\ card' = card
      /\ (pc' = "end" /\ res' = res) \/ End("DISK_ERR")
  BY <1>1 DEF CtrlSync, Write
<1>3. Asked /\ Settled /\ Blank /\ OnCard /\ filled = ToRoot /\ card = [s \in Sectors |-> card[s]]
  BY <1>2 DEF FormatInv, Written, Cleared
<1>4. Base' = Base /\ Size' = Size /\ ToRoot' = ToRoot /\ Asked' /\ Settled' /\ pc' = "end"
  BY <1>2, <1>3, GeometryStays DEF End
<1>5. Blank'
  BY <1>2, <1>3, <1>4 DEF Blank, Complete
<1>6. OnCard'
  BY <1>2, <1>3, <1>4 DEF OnCard, Written
<1> QED
  BY <1>2, <1>3, <1>4, <1>5, <1>6 DEF FormatInv, Cleared, Written

\* A power loss.
LEMMA PowerLossKeeps ==
  ASSUME FormatInv, PowerLoss
  PROVE  FormatInv'
<1>1. DOMAIN NextWrite = {"vbr", "fsinfo", "fat", "root", "mbr", "sync"}
  BY DEF NextWrite
<1>2. pc \in {"vbr", "fsinfo", "fat", "root", "mbr", "sync"} /\ pc' = "off" /\ UNCHANGED <<want, res, fmt, au, geo, card, filled, unwritten>>
  BY <1>1 DEF PowerLoss
<1>3. Blank /\ card = [s \in Sectors |-> card[s]]
  BY DEF FormatInv
<1>4. Base' = Base /\ Size' = Size /\ ToRoot' = ToRoot
  BY <1>2, GeometryStays
<1>5. Blank'
  BY <1>2, <1>3, <1>4 DEF Blank, Complete
<1> QED
  BY <1>2, <1>3, <1>5 DEF FormatInv, OnCard, Cleared, Written, Done

\* Every step keeps the invariant, also those that ask for something else.
LEMMA FormatNext == FormatInv /\ [AlgNext]_algVars => FormatInv'
<1> SUFFICES ASSUME FormatInv, [AlgNext]_algVars PROVE FormatInv'
  OBVIOUS
<1>1. CASE Next
  BY <1>1, FMkfsKeeps, PlanRoundKeeps, WriteVbrKeeps, WriteFsinfoKeeps, FillFatKeeps, FillRootKeeps, WriteMbrKeeps,
     CtrlSyncKeeps, PowerLossKeeps DEF Next
<1>2. CASE UNCHANGED vars
  <2>1. UNCHANGED <<want, pc, res, fmt, au, geo, card, filled, unwritten>>
    BY <1>2 DEF vars
  <2>2. /\ Base' = Base /\ Size' = Size /\ ToFat' = ToFat /\ ToRoot' = ToRoot
        /\ (Asked => Asked') /\ (Settled => Settled') /\ (Done' <=> Done)
    BY <2>1, GeometryStays DEF Done
  <2>3. (OnCard => OnCard') /\ (Cleared => Cleared') /\ (Blank => Blank')
    BY <2>1, <2>2 DEF OnCard, Cleared, Blank, Complete
  <2> QED
    BY <2>1, <2>2, <2>3 DEF FormatInv
<1>3. Next \/ UNCHANGED vars
  BY DEF AlgNext, algVars, AskName, AskMatch, AskPrint, AskLine, AskDeadline, Ask
<1> QED
  BY <1>1, <1>2, <1>3

\* A drive before f_mkfs.
LEMMA FormatBegins == AlgInit => FormatInv
<1> SUFFICES ASSUME AlgInit PROVE FormatInv
  OBVIOUS
<1>1. want.old = "none" /\ pc = "idle" /\ card \in OldCards
  BY DEF AlgInit, Init
<1> QED
  BY <1>1, OldIs DEF FormatInv, OnCard, Cleared, Blank, Written, Done

-----------------------------------------------------------------------------
(* What the mount makes of it.                                             *)

\* The boot sector that is found on a card formatted to the end.
LEMMA BootIs ==
  ASSUME FormatInv, Done
  PROVE  VolumeBase(card) = Base /\ card[Base] = Vbr(fmt, geo, Size)
<1>1. OnCard /\ Asked /\ card[Base] = Vbr(fmt, geo, Size)
  BY DEF FormatInv, OnCard, Done
<1>2. CASE "SFD" \in want.opt
  <2>1. Base = 0 /\ card[0].kind = "vbr"
    BY <1>1, <1>2 DEF Base, Vbr
  <2> QED
    BY <1>1, <2>1 DEF VolumeBase
<1>3. CASE "SFD" \notin want.opt
  <2>1. card[0] = Mbr(Base)
    BY <1>1, <1>3 DEF OnCard
  <2> QED
    BY <1>1, <2>1 DEF VolumeBase, Mbr
<1> QED
  BY <1>2, <1>3

\* The fields of the boot sector as the mount reads them back.
LEMMA FieldsAre ==
  ASSUME Settled, fmt \in {"FAT12", "FAT16", "FAT32"}, NEW b, b = Vbr(fmt, geo, Size)
  PROVE  /\ b.kind = "vbr" /\ b.csize = geo.pau /\ b.rsv = geo.rsv /\ b.total = Size /\ b.fatsz = geo.fatsz
         /\ b.root = (IF fmt = "FAT32" THEN 0 ELSE 512) /\ b.root \div 16 = geo.dirsz
<1>1. geo.pau \in ClusterSizes /\ geo.rsv \in Nat /\ geo.rsv < 65536 /\ geo.fatsz \in Nat
      /\ (fmt # "FAT32" => geo.fatsz < 65536) /\ geo.dirsz = (IF fmt = "FAT32" THEN 0 ELSE 32)
  BY DEF Settled
<1>2. geo.pau % 256 = geo.pau
  BY <1>1, SizesAre
<1>3. geo.rsv % 65536 = geo.rsv /\ (fmt # "FAT32" => geo.fatsz % 65536 = geo.fatsz)
  BY <1>1, SMT
<1>4. 0 \div 16 = 0 /\ 512 \div 16 = 32
  OBVIOUS
<1> QED
  BY <1>1, <1>2, <1>3, <1>4, SMT DEF Vbr, NRootdir

\* A FAT of as many sectors as its bytes need passes.
LEMMA LargeEnough ==
  ASSUME NEW needed \in Nat, NEW sectors \in Nat, needed <= sectors * 512
  PROVE  ~(sectors < Ceiling(needed, SectorSize))
BY SMT DEF Ceiling, SectorSize

\* What find_volume answers for it.
LEMMA MountIs ==
  ASSUME FormatInv, Done, ~NoCluster
  PROVE  LET m == FindVolume(card)
         IN  /\ m.res = "OK" /\ m.type = fmt /\ m.csize = geo.pau /\ m.entries = geo.clst + 2
             /\ m.fatbase = Base + geo.rsv /\ m.database = Base + geo.rsv + geo.fatsz + geo.dirsz
             /\ fmt = "FAT32" /\ ~unwritten => m.free = geo.clst - 1 /\ m.last = 2
<1>1. /\ OnCard /\ Asked /\ Settled
      /\ geo.clst # 0
  BY DEF FormatInv, Done, NoCluster
<1>2. /\ geo.pau \in ClusterSizes /\ geo.rsv \in Nat /\ geo.rsv # 0 /\ geo.fatsz \in Nat /\ geo.dirsz \in Nat
      /\ Size \in Nat /\ Base \in Nat /\ Room \in Nat /\ geo.clst = Room \div geo.pau
      /\ fmt \in {"FAT12", "FAT16", "FAT32"}
  BY <1>1, BaseIs DEF Settled, Asked
<1>3. geo.clst \in Nat /\ PowerOf2(geo.pau)
  BY <1>2, Divided, SizesAre
<1> DEFINE base == VolumeBase(card)
           b == card[base]
           sysect == b.rsv + b.fatsz + (b.root \div 16)
           nclst == (b.total - sysect) \div b.csize
           type == IF nclst <= MaxFat12 THEN "FAT12" ELSE IF nclst <= MaxFat16 THEN "FAT16" ELSE "FAT32"
           entries == nclst + 2
           needed == CASE type = "FAT32" -> entries * 4
                       [] type = "FAT16" -> entries * 2
                       [] type = "FAT12" -> ((entries * 3) \div 2) + (entries % 2)
           info == card[base + 1]
           known == type = "FAT32" /\ info.kind = "fsinfo"
           bad == \/ b.kind # "vbr"
                  \/ ~PowerOf2(b.csize) \/ b.rsv = 0
                  \/ b.total < sysect \/ nclst = 0
                  \/ (type = "FAT32") # (b.root = 0)
                  \/ b.fatsz < Ceiling(needed, SectorSize)
           m == [res |-> "OK", type |-> type, csize |-> b.csize, entries |-> entries,
                 fatbase |-> base + b.rsv, database |-> base + sysect,
                 free |-> IF known THEN info.free ELSE Unknown,
                 last |-> IF known THEN info.next ELSE Unknown]
<1>4. FindVolume(card) = IF bad THEN NoVolume ELSE m
  BY Zenon DEF FindVolume
<1>5. base = Base /\ b = Vbr(fmt, geo, Size)
  BY BootIs
<1> HIDE DEF base
<1>6. /\ b.kind = "vbr" /\ b.csize = geo.pau /\ b.rsv = geo.rsv /\ b.total = Size /\ b.fatsz = geo.fatsz
      /\ b.root = (IF fmt = "FAT32" THEN 0 ELSE 512) /\ b.root \div 16 = geo.dirsz
  BY <1>1, <1>2, <1>5, FieldsAre
<1> HIDE DEF b
<1>7. sysect = geo.rsv + geo.fatsz + geo.dirsz
  BY <1>6
<1> HIDE DEF sysect
<1>8. nclst = geo.clst
  <2>1. Size - sysect = Room
    BY <1>2, <1>7 DEF Room
  <2> QED
    BY <1>2, <1>6, <2>1
<1> HIDE DEF nclst
<1>9. type = fmt
  <2>1. ~(geo.clst <= MaxFat12) <=> geo.clst > MaxFat12
    BY <1>3, SMT DEF MaxFat12
  <2>2. ~(geo.clst <= MaxFat16) <=> geo.clst > MaxFat16
    BY <1>3, SMT DEF MaxFat16
  <2>3. geo.clst > MaxFat16 => geo.clst > MaxFat12
    BY <1>3, SMT DEF MaxFat12, MaxFat16
  <2> QED
    BY <1>1, <1>2, <1>8, <2>1, <2>2, <2>3 DEF Settled
<1> HIDE DEF type
<1>10. needed \in Nat /\ needed <= geo.fatsz * 512
  <2>1. CASE fmt = "FAT32"
    <3>1. needed = (geo.clst + 2) * 4
      BY <1>8, <1>9, <2>1
    <3> HIDE DEF needed
    <3>2. (geo.clst + 2) * 4 <= geo.fatsz * 512
      BY <1>1, <2>1 DEF Settled
    <3>3. (geo.clst + 2) * 4 \in Nat
      BY <1>3
    <3> QED
      BY <3>1, <3>2, <3>3
  <2>2. CASE fmt = "FAT16"
    <3>1. needed = (geo.clst + 2) * 2
      BY <1>8, <1>9, <2>2
    <3> HIDE DEF needed
    <3>2. (geo.clst + 2) * 2 <= geo.fatsz * 512
      BY <1>1, <2>2 DEF Settled
    <3>3. (geo.clst + 2) * 2 \in Nat
      BY <1>3
    <3> QED
      BY <3>1, <3>2, <3>3
  <2>3. CASE fmt = "FAT12"
    <3>1. needed = (((geo.clst + 2) * 3) \div 2) + ((geo.clst + 2) % 2)
      BY <1>8, <1>9, <2>3
    <3> HIDE DEF needed
    <3>2. (((geo.clst + 2) * 3) \div 2) + ((geo.clst + 2) % 2) <= geo.fatsz * 512
      BY <1>1, <2>3 DEF Settled
    <3>3. (((geo.clst + 2) * 3) \div 2) + ((geo.clst + 2) % 2) \in Nat
      BY <1>3
    <3> QED
      BY <3>1, <3>2, <3>3
  <2> QED
    BY <1>2, <2>1, <2>2, <2>3
<1> HIDE DEF needed
<1>11. ~(b.fatsz < Ceiling(needed, SectorSize))
  BY <1>2, <1>6, <1>10, LargeEnough
<1>12. ~(Size < sysect)
  BY <1>2, <1>7 DEF Room
<1>13. (type = "FAT32") = (b.root = 0)
  BY <1>6, <1>9
<1>14. ~bad
  BY <1>1, <1>2, <1>3, <1>6, <1>8, <1>11, <1>12, <1>13
<1>15. FindVolume(card) = m
  BY <1>4, <1>14
<1>16. fmt = "FAT32" /\ ~unwritten => info.kind = "fsinfo" /\ info.free = geo.clst - 1 /\ info.next = 2
  BY <1>1, <1>5 DEF OnCard, Done, Fsinfo
<1> HIDE DEF info
<1>17. base + b.rsv = Base + geo.rsv /\ base + sysect = Base + geo.rsv + geo.fatsz + geo.dirsz
  BY <1>2, <1>5, <1>6, <1>7
<1> QED
  BY <1>6, <1>8, <1>9, <1>15, <1>16, <1>17

\* The volume that f_mkfs leaves mounts as it was formatted.
LEMMA FormattedMounts == FormatInv => MountsAsFormatted
<1> SUFFICES ASSUME FormatInv, pc = "end", res = "OK", ~NoCluster PROVE MountsAsFormatted
  BY DEF MountsAsFormatted
<1> DEFINE m == FindVolume(card)
<1>1. /\ m.res = "OK" /\ m.type = fmt /\ m.csize = geo.pau /\ m.entries = geo.clst + 2
      /\ m.fatbase = Base + geo.rsv /\ m.database = Base + geo.rsv + geo.fatsz + geo.dirsz
      /\ fmt = "FAT32" /\ ~unwritten => m.free = geo.clst - 1 /\ m.last = 2
  BY MountIs DEF Done
<1> HIDE DEF m
<1>2. Asked /\ Settled /\ filled = ToRoot
  BY DEF FormatInv, Done, Cleared
<1>3. /\ geo.pau \in ClusterSizes /\ geo.rsv \in Nat /\ geo.fatsz \in Nat /\ geo.dirsz = (IF fmt = "FAT32" THEN 0 ELSE 32)
      /\ Size \in Nat /\ Base \in Nat /\ Room \in Nat /\ geo.clst = Room \div geo.pau /\ want.size \in Nat
  BY <1>2, BaseIs DEF Settled, Asked
<1>4. geo.clst \in Nat /\ geo.pau \in Nat /\ geo.pau * geo.clst <= Room
  BY <1>3, Divided, SizesAre
<1>5. m.entries - 2 = geo.clst /\ m.entries - 3 = geo.clst - 1
  BY <1>1, <1>4
<1>6. m.database + ((m.entries - 2) * m.csize) <= want.size
  <2> DEFINE k == geo.pau * geo.clst
  <2>1. k \in Nat /\ k <= Room /\ (m.entries - 2) * m.csize = k
    BY <1>1, <1>4, <1>5
  <2> HIDE DEF k
  <2>2. Room = Size - geo.rsv - geo.fatsz - geo.dirsz /\ Size = want.size - Base /\ geo.dirsz \in Nat
    BY <1>3 DEF Room, Size
  <2> QED
    BY <1>1, <1>3, <2>1, <2>2
<1>7. m.database % Block = 0
  BY <1>1, <1>2 DEF Settled
<1>8. filled = [from |-> m.fatbase, to |-> m.database + (IF m.type = "FAT32" THEN m.csize ELSE 0)]
  <2>1. CASE fmt = "FAT32"
    BY <1>1, <1>2, <1>3, <1>4, <2>1 DEF ToRoot
  <2>2. CASE fmt # "FAT32"
    BY <1>1, <1>2, <1>3, <1>4, <2>2 DEF ToRoot
  <2> QED
    BY <2>1, <2>2
<1>9. (IF fmt = "FAT32" THEN "FAT32" ELSE "FAT") \in want.opt
  BY <1>2 DEF Asked
<1> QED
  BY <1>1, <1>5, <1>6, <1>7, <1>8, <1>9 DEF MountsAsFormatted, m

\* For a blank card that has no partition table yet there is nothing to mount.
LEMMA BlankIsNot == FormatInv => BlankUntilDone
<1> SUFFICES ASSUME FormatInv, want.old = "junk", "SFD" \notin want.opt, FindVolume(card).res = "OK"
             PROVE  filled.to >= FindVolume(card).database
  BY DEF BlankUntilDone
<1>1. Blank
  BY DEF FormatInv
<1>2. card[0] # Junk
  <2> SUFFICES ASSUME card[0] = Junk PROVE FALSE
    OBVIOUS
  <2>1. VolumeBase(card) = 0 /\ card[0].kind # "vbr"
    BY DEF VolumeBase, Junk
  <2>2. FindVolume(card) = NoVolume
    BY <2>1 DEF FindVolume
  <2> QED
    BY <2>2 DEF NoVolume
<1>3. Complete
  BY <1>1, <1>2 DEF Blank
<1>4. VolumeBase(card) = Base /\ Base = 63
  BY <1>3, BaseIs DEF Complete, VolumeBase, Mbr
<1> DEFINE b == card[Base]
           sysect == b.rsv + b.fatsz + (b.root \div 16)
<1>5. FindVolume(card).database = Base + sysect
  <2>1. FindVolume(card) # NoVolume
    BY DEF NoVolume
  <2> QED
    BY <1>4, <2>1 DEF FindVolume
<1>6. b.rsv \in Nat /\ b.rsv <= geo.rsv /\ b.fatsz \in Nat /\ b.fatsz <= geo.fatsz /\ b.root \div 16 = geo.dirsz
  <2>1. b.rsv = geo.rsv % 65536 /\ b.fatsz = (IF fmt = "FAT32" THEN geo.fatsz ELSE geo.fatsz % 65536)
        /\ b.root = (IF fmt = "FAT32" THEN 0 ELSE 512)
    BY <1>3 DEF Complete, Vbr, NRootdir
  <2>2. \A n \in Nat : n % 65536 \in Nat /\ n % 65536 <= n
    BY SMT
  <2>3. 0 \div 16 = 0 /\ 512 \div 16 = 32
    OBVIOUS
  <2> QED
    BY <1>3, <2>1, <2>2, <2>3, SMT DEF Complete
<1> HIDE DEF b
<1>7. filled.to = Base + geo.rsv + geo.fatsz + (IF fmt = "FAT32" THEN geo.pau ELSE geo.dirsz)
  BY <1>3 DEF Complete, ToRoot
<1>8. geo.pau \in Nat /\ geo.rsv \in Nat /\ geo.fatsz \in Nat /\ geo.dirsz = (IF fmt = "FAT32" THEN 0 ELSE 32)
  BY <1>3 DEF Complete
<1>9. filled.to >= Base + sysect
  BY <1>4, <1>6, <1>7, <1>8
<1> QED
  BY <1>5, <1>9

\* After FR_OK the volume mounts as it was formatted (MountsAsFormatted), for every
\* drive of up to 2^30 sectors, every erase block, allocation unit and set of options,
\* whatever write fails: check_fs and find_volume read back from the boot sectors the
\* type, the areas and the clusters that the loop of f_mkfs settled on.
THEOREM FormatsWhatMounts == AlgSpec => []MountsAsFormatted
<1> QED
  BY FormatBegins, FormatNext, FormattedMounts, PTL DEF AlgSpec

\* A blank card with a partition never mounts before FAT and root directory are
\* cleared (BlankUntilDone), wherever f_mkfs stops: the partition table comes last.
THEOREM BlankStaysBlank == AlgSpec => []BlankUntilDone
<1> QED
  BY FormatBegins, FormatNext, BlankIsNot, PTL DEF AlgSpec

-----------------------------------------------------------------------------
(* Deadlines.                                                              *)

\* The tick wraps once.
LEMMA TickIs ==
  ASSUME NEW n \in Nat, n < Wrap + Wrap
  PROVE  Tick(n) = (IF n < Wrap THEN n ELSE n - Wrap) /\ Tick(n) \in Nat /\ Tick(n) < Wrap
<1> DEFINE q == n \div Wrap
           r == n % Wrap
           m == Wrap * q
<1>1. q \in Nat /\ r \in 0 .. Wrap - 1 /\ n = m + r /\ Wrap \in Nat /\ Wrap > 0
  BY TimeoutsAssumption, DivMod
<1>2. (q = 0 => m = 0) /\ (q = 1 => m = Wrap) /\ (q > 1 => m >= Wrap + Wrap) /\ m \in Nat
  BY <1>1
<1> HIDE DEF q, r, m
<1>3. r = IF n < Wrap THEN n ELSE n - Wrap
  BY <1>1, <1>2
<1> QED
  BY <1>1, <1>3 DEF r, Tick

\* What may be asked about deadlines.
DeadlineAsked == input.of = "deadline" => input.x \in [start : Ticks, d : Ticks, e : Ticks]

\* Nothing else is.
LEMMA DeadlineNext == DeadlineAsked /\ [AlgNext]_algVars => DeadlineAsked'
<1> SUFFICES ASSUME DeadlineAsked, [AlgNext]_algVars PROVE DeadlineAsked'
  OBVIOUS
<1>1. CASE input' = input
  BY <1>1 DEF DeadlineAsked
<1>2. CASE \E of \in {"path", "match", "print", "line"} : \E x : input' = [of |-> of, x |-> x]
  BY <1>2 DEF DeadlineAsked
<1>3. CASE \E x \in [start : Ticks, d : Ticks, e : Ticks] : input' = [of |-> "deadline", x |-> x]
  BY <1>3 DEF DeadlineAsked
<1> QED
  BY <1>1, <1>2, <1>3 DEF AlgNext, algVars, AskName, AskMatch, AskPrint, AskLine, AskDeadline, Ask

\* TimeoutChecker: it is not early, and reports from the next millisecond on, but
\* where it is said not to.
LEMMA ExpiresThen ==
  ASSUME NEW start \in Ticks, NEW d \in Ticks, NEW e \in Ticks, NEW expired,
         expired = Expired(start, d, Tick(start + e))
  PROVE  /\ e <= d => ~expired
         /\ e > d /\ d > 0 /\ Tick(start + d) # Wrap - 1 /\ (start + d < Wrap => start + e < Wrap) => expired
<1>1. /\ start \in Nat /\ d \in Nat /\ e \in Nat /\ start < Wrap /\ d < Wrap /\ e < Wrap /\ Wrap \in Nat
  BY TimeoutsAssumption DEF Ticks
<1> DEFINE end == Tick(start + d)
           now == Tick(start + e)
<1>2. end = (IF start + d < Wrap THEN start + d ELSE start + d - Wrap) /\ end \in Nat
  BY <1>1, TickIs
<1>3. now = (IF start + e < Wrap THEN start + e ELSE start + e - Wrap) /\ now \in Nat
  BY <1>1, TickIs
<1>4. expired = (IF start < end THEN now > end ELSE now > end /\ now < start)
  BY DEF Expired
<1> HIDE DEF end, now
<1>5. e <= d => ~(IF start < end THEN now > end ELSE now > end /\ now < start)
  BY <1>1, <1>2, <1>3
<1>6. e > d /\ d > 0 /\ end # Wrap - 1 /\ (start + d < Wrap => start + e < Wrap)
        => (IF start < end THEN now > end ELSE now > end /\ now < start)
  BY <1>1, <1>2, <1>3
<1> QED
  BY <1>4, <1>5, <1>6 DEF end

\* timeBetween loses at most the millisecond at the wrap.
LEMMA BetweenIs ==
  ASSUME NEW begin \in Ticks, NEW t \in Nat, t < Wrap
  PROVE  TimeBetween(begin, Tick(begin + t)) \in {t, t - 1}
<1>1. begin \in Nat /\ begin < Wrap /\ Wrap \in Nat
  BY TimeoutsAssumption DEF Ticks
<1> DEFINE now == Tick(begin + t)
<1>2. now = (IF begin + t < Wrap THEN begin + t ELSE begin + t - Wrap) /\ now \in Nat
  BY <1>1, TickIs
<1> HIDE DEF now
<1>3. (IF begin <= now THEN now - begin ELSE (Wrap - 1) - begin + now) \in {t, t - 1}
  BY <1>1, <1>2
<1> QED
  BY <1>3 DEF TimeBetween, now

\* A non-empty set of numbers has a least one.
LEMMA LeastOf ==
  ASSUME NEW S, S \subseteq Nat, S # {}
  PROVE  \E n \in S : \A m \in S : n <= m
<1> DEFINE R == {q \in Nat \X Nat : q[1] < q[2]}
<1>1. IsWellFoundedOn(R, Nat)
  BY NatLessThanWellFounded DEF OpToRel
<1>2. \A m, n \in Nat : m < n => <<m, n>> \in R
  OBVIOUS
<1> HIDE DEF R
<1>3. PICK n \in S : \A m \in S : ~(<<m, n>> \in R)
  BY <1>1, WFMin
<1>4. \A m \in S : ~(m < n)
  BY <1>2, <1>3
<1> QED
  BY <1>4

\* __ff_lock with a timeout tries until the time is over, and not much longer.
LEMMA WaitsThen ==
  ASSUME NEW begin \in Ticks, NEW d \in Ticks, d > 0, d < Wrap - (Pause + 2)
  PROVE  LockWaits(begin, d, Pause) > d /\ LockWaits(begin, d, Pause) <= d + 1 + Pause
<1>1. begin \in Nat /\ d \in Nat /\ Wrap \in Nat /\ Pause \in Nat /\ Pause >= 1
  BY TimeoutsAssumption, AlgorithmsAssumption DEF Ticks
<1> DEFINE late == {n \in 0 .. Wrap : TimeBetween(begin, Tick(begin + (n * Pause))) > d}
           q == (d + 1) \div Pause
           k == q + 1
           t == k * Pause
<1>2. k \in Nat /\ k <= Wrap /\ t \in Nat /\ d + 1 < t /\ t <= d + 1 + Pause
  <2> DEFINE s == Pause * q
             r == (d + 1) % Pause
  <2>1. q \in Nat /\ r \in 0 .. Pause - 1 /\ d + 1 = s + r
    <3>1. d + 1 \in Nat /\ Pause \in Nat \ {0}
      BY <1>1
    <3> QED
      BY <3>1, DivMod DEF q
  <2>2. s \in Nat /\ t = s + Pause /\ k <= t
    BY <1>1, <2>1
  <2> HIDE DEF s, r, t
  <2> QED
    BY <1>1, <2>1, <2>2
<1>3. k \in late
  <2>1. t < Wrap
    BY <1>1, <1>2
  <2>2. TimeBetween(begin, Tick(begin + t)) \in {t, t - 1}
    BY <1>2, <2>1, BetweenIs
  <2> DEFINE b == TimeBetween(begin, Tick(begin + t))
  <2> HIDE DEF b
  <2>3. b > d
    <3>1. b \in {t, t - 1}
      BY <2>2 DEF b
    <3> QED
      BY <1>1, <1>2, <3>1
  <2> QED
    BY <1>1, <1>2, <2>3 DEF b
<1>4. late \subseteq Nat
  BY <1>1
<1>5. \E n \in late : \A m \in late : n <= m
  BY <1>3, <1>4, LeastOf
<1> DEFINE n == CHOOSE i \in late : \A j \in late : i <= j
<1>6. n \in late /\ n <= k
  BY <1>3, <1>5
<1>7. LockWaits(begin, d, Pause) = Pause * n
  <2>1. d \notin {Wrap - 1, 0}
    BY <1>1
  <2> QED
    BY <1>3, <2>1 DEF LockWaits, WaitForever
<1>8. n \in Nat /\ TimeBetween(begin, Tick(begin + (n * Pause))) > d
  BY <1>4, <1>6
<1> HIDE DEF n, late, k
<1> DEFINE u == n * Pause
<1>9. u \in Nat /\ u <= t /\ Pause * n = u
  BY <1>1, <1>2, <1>6, <1>8
<1>10. TimeBetween(begin, Tick(begin + u)) > d
  BY <1>8
<1> HIDE DEF u, t
<1>11. u < Wrap
  BY <1>1, <1>2, <1>9
<1>12. TimeBetween(begin, Tick(begin + u)) \in {u, u - 1}
  BY <1>9, <1>11, BetweenIs
<1>13. u > d
  BY <1>1, <1>9, <1>10, <1>12
<1> QED
  BY <1>1, <1>2, <1>7, <1>9, <1>13

\* A deadline is reported in time (ExpiresInTime), for a tick of any width: not
\* early, then until the wrap, with the exceptions that the property names; and
\* __ff_lock waits for ever when told so, by 0 or by CONCURRENT_WAIT_FOREVER, and else
\* gives up after the time asked for and within one pause and a millisecond, whatever
\* the pause.
THEOREM DeadlinesAreKept == AlgSpec => []ExpiresInTime
<1>1. AlgInit => DeadlineAsked
  BY DEF AlgInit, None, DeadlineAsked
<1>2. ASSUME DeadlineAsked PROVE ExpiresInTime
  <2> SUFFICES ASSUME input.of = "deadline" PROVE ExpiresInTime
    BY DEF ExpiresInTime
  <2>1. input.x.start \in Ticks /\ input.x.d \in Ticks /\ input.x.e \in Ticks
    BY <1>2 DEF DeadlineAsked
  <2>2. input.x.d \in {0, WaitForever} => LockWaits(input.x.start, input.x.d, Pause) = Never
    BY DEF LockWaits
  <2> QED
    BY <2>1, <2>2, ExpiresThen, WaitsThen DEF ExpiresInTime
<1> QED
  BY <1>1, <1>2, DeadlineNext, PTL DEF AlgSpec

=============================================================================
