---------------------------- MODULE FileIOProofs -----------------------------
(***************************************************************************)
(* Proofs about FileIO, for every number of clusters, cluster and sector   *)
(* size, any arguments and any failing transfers.                          *)
(*                                                                         *)
(* First the chain, a list in the FAT.  As nothing can be proved by        *)
(* induction over it, the invariant says that there is a witness w, which  *)
(* gives each cluster its place in the chain (w.pl, 0 for none) and the    *)
(* chain its length (w.len), such that each cluster but the last links to  *)
(* the one in the next place (Chained).  The byte at offset i is then in   *)
(* the cluster of place Plc(i) and there in the sector Sec(i) (At), and    *)
(* what the cache and the card hold is said of such sectors (Reads,        *)
(* Keeps).  That SectorOf finds the same sector is proved once (SectorIs). *)
(*                                                                         *)
(* Then the cache, the steps of every call, and what follows from the      *)
(* invariant.  A call in progress is framed (Frame): the object x and the  *)
(* data area d fit a witness v of the chain, which may have grown since    *)
(* the call began.  Each round ends in one of a few ways: it aborts        *)
(* (AbortStep), it delivers (ReadRound) or it writes (WroteStep).          *)
(***************************************************************************)
EXTENDS FileIO, WellFoundedInduction, FunctionTheorems, FiniteSetTheorems, TLAPS

-----------------------------------------------------------------------------
(* Arithmetic of offsets.                                                  *)

\* What division and remainder are.
LEMMA DivMod ==
  ASSUME NEW a \in Nat, NEW b \in Nat \ {0}
  PROVE  a \div b \in Nat /\ a % b \in 0 .. b - 1 /\ a = b * (a \div b) + (a % b)
OBVIOUS

\* Products are ordered as their factors are.
LEMMA Times ==
  ASSUME NEW b \in Nat, NEW p \in Nat, NEW q \in Nat
  PROVE  /\ b * p \in Nat /\ b * (p + q) = b * p + b * q
         /\ p <= q => b * p <= b * q
         /\ p < q => b * p + b <= b * q
OBVIOUS

\* Division and remainder are the only numbers of their kind.
LEMMA DivIs ==
  ASSUME NEW a \in Nat, NEW b \in Nat \ {0}, NEW q \in Nat, NEW r \in 0 .. b - 1, a = b * q + r
  PROVE  a \div b = q /\ a % b = r
<1>1. a \div b \in Nat /\ a % b \in 0 .. b - 1 /\ a = b * (a \div b) + (a % b)
  BY DivMod
<1> DEFINE p == a \div b
<1>2. p \in Nat /\ a = b * p + (a % b)
  BY <1>1
<1> HIDE DEF p
<1>3. ~(p < q)
  <2>1. SUFFICES ASSUME p < q PROVE FALSE
    OBVIOUS
  <2>2. b * p + b <= b * q /\ b * p \in Nat /\ b * q \in Nat
    BY <1>2, <2>1, Times
  <2> QED
    BY <1>1, <1>2, <2>2
<1>4. ~(q < p)
  <2>1. SUFFICES ASSUME q < p PROVE FALSE
    OBVIOUS
  <2>2. b * q + b <= b * p /\ b * p \in Nat /\ b * q \in Nat
    BY <1>2, <2>1, Times
  <2> QED
    BY <1>1, <1>2, <2>2
<1>5. p = q
  BY <1>2, <1>3, <1>4
<1> QED
  BY <1>1, <1>2, <1>5 DEF p

\* The place of the byte at offset i in the chain, and its sector in the cluster.
Plc(i) == (i \div Bcs) + 1
Sec(i) == (i % Bcs) \div SS

\* A sector and a cluster have bytes, and a sector fits into a cluster.
LEMMA Sizes ==
  /\ SS \in Nat \ {0} /\ Csize \in Nat \ {0} /\ Bcs \in Nat \ {0} /\ Bcs = SS * Csize
  /\ In = 0 .. SS - 1 /\ SS <= Bcs
<1>1. SS \in Nat \ {0} /\ Csize \in Nat \ {0} /\ Bcs = Csize * SS
  BY FileAssumption DEF Bcs
<1>2. Csize * SS = SS * Csize
  BY <1>1
<1>3. SS * 1 <= SS * Csize /\ SS * Csize \in Nat
  BY <1>1, Times
<1> QED
  BY <1>1, <1>2, <1>3 DEF In

\* The offset i is byte b of sector q of the cluster with p before it.
Parts(i, p, q, b) == i = Bcs * p + (SS * q + b)

\* An offset and its parts.
LEMMA Position ==
  ASSUME NEW i \in Nat
  PROVE  /\ i \div Bcs \in Nat /\ Plc(i) \in Nat /\ Plc(i) >= 1 /\ Plc(i) = (i \div Bcs) + 1
         /\ Sec(i) \in 0 .. Csize - 1 /\ i % SS \in In
         /\ i % Bcs \in 0 .. Bcs - 1
         /\ i % Bcs = SS * Sec(i) + (i % SS)
         /\ Parts(i, i \div Bcs, Sec(i), i % SS)
<1> DEFINE p == i \div Bcs
           r == i % Bcs
           q == r \div SS
           b == r % SS
<1>1. p \in Nat /\ r \in 0 .. Bcs - 1 /\ i = Bcs * p + r
  BY Sizes, DivMod
<1>3. Sec(i) = q /\ Plc(i) = p + 1
  BY DEF Sec, Plc
<1>1a. r \in Nat
  BY <1>1, Sizes
<1> HIDE DEF p, r
<1>2. r \in Nat /\ q \in Nat /\ b \in 0 .. SS - 1 /\ r = SS * q + b
  BY <1>1a, Sizes, DivMod
<1> HIDE DEF q, b
<1>4. q < Csize
  <2>1. SUFFICES ASSUME Csize <= q PROVE FALSE
    BY <1>2, Sizes
  <2>2. SS * Csize <= SS * q /\ SS * q \in Nat
    BY <1>2, <2>1, Sizes, Times
  <2> QED
    BY <1>1, <1>2, <2>2, Sizes
<1>5. i % SS = b
  <2>1. Csize * p \in Nat /\ SS * (Csize * p) = Bcs * p /\ SS * (Csize * p) \in Nat /\ SS * q \in Nat
    BY <1>1, <1>2, Sizes
  <2>2. SS * (Csize * p + q) = SS * (Csize * p) + SS * q
    BY <1>2, <2>1, Sizes, Times
  <2>3. i = SS * (Csize * p + q) + b
    BY <1>1, <1>2, <2>1, <2>2
  <2>4. Csize * p + q \in Nat
    BY <1>2, <2>1
  <2> QED
    BY <1>2, <2>3, <2>4, Sizes, DivIs
<1>6. i % SS \in In /\ q \in 0 .. Csize - 1 /\ r = SS * q + (i % SS) /\ Parts(i, p, q, i % SS)
  BY <1>1, <1>2, <1>4, <1>5, Sizes DEF Parts
<1> QED
  BY <1>1, <1>3, <1>6 DEF p, r

\* Place, sector and byte determine the offset.
LEMMA PositionIs ==
  ASSUME NEW p \in Nat, NEW q \in 0 .. Csize - 1, NEW b \in In, NEW i, Parts(i, p, q, b)
  PROVE  /\ i \in Nat /\ i \div Bcs = p /\ Plc(i) = p + 1 /\ Sec(i) = q /\ i % SS = b /\ i % Bcs = SS * q + b
         /\ SS * q + b < Bcs
<1> DEFINE r == SS * q + b
<1>1. q \in Nat /\ b \in Nat /\ b <= SS - 1 /\ q + 1 <= Csize
  BY Sizes
<1>2. SS * q \in Nat /\ SS * q + SS <= SS * Csize /\ Bcs * p \in Nat
  BY <1>1, Sizes, Times
<1>3a. r \in 0 .. Bcs - 1
  BY <1>1, <1>2, Sizes
<1>4. i = Bcs * p + r /\ r = SS * q + b
  BY DEF Parts
<1>3. r \in 0 .. Bcs - 1 /\ i \in Nat
  BY <1>2, <1>3a, <1>4, Sizes
<1> HIDE DEF r
<1>5. i \div Bcs = p /\ i % Bcs = r
  BY <1>3, <1>4, Sizes, DivIs
<1>6a. r \in Nat /\ r = SS * q + b /\ q \in Nat /\ b \in 0 .. SS - 1 /\ SS \in Nat \ {0}
  BY <1>1, <1>3, <1>4, Sizes
<1>6. r \div SS = q
  BY <1>6a, DivIs
<1>7. Plc(i) = p + 1 /\ Sec(i) = q
  BY <1>5, <1>6 DEF Plc, Sec
<1>8. i % SS = b
  <2>1. i = Bcs * (i \div Bcs) + (SS * Sec(i) + (i % SS)) /\ i % SS \in In
    BY <1>3, Position DEF Parts
  <2>2. i = Bcs * p + (SS * q + (i % SS)) /\ i = Bcs * p + (SS * q + b)
    BY <1>4, <1>5, <1>7, <2>1
  <2>3. i % SS \in Nat /\ b \in Nat /\ Bcs * p \in Nat /\ SS * q \in Nat
    BY <1>1, <1>2, <2>1, Sizes
  <2> QED
    BY <2>2, <2>3
<1>9. r < Bcs
  BY <1>3, Sizes
<1>10. i % Bcs = SS * q + b /\ SS * q + b < Bcs
  BY <1>4, <1>5, <1>9
<1> QED
  BY <1>3, <1>5, <1>7, <1>8, <1>10

\* Further bytes of the same sector.
LEMMA SameSector ==
  ASSUME NEW i \in Nat, NEW j \in Nat, (i % SS) + j < SS
  PROVE  i + j \in Nat /\ Plc(i + j) = Plc(i) /\ Sec(i + j) = Sec(i) /\ (i + j) % SS = (i % SS) + j
<1> DEFINE p == i \div Bcs
           q == Sec(i)
           b == i % SS
           k == i + j
<1>1. p \in Nat /\ Plc(i) = p + 1 /\ q \in 0 .. Csize - 1 /\ b \in In /\ Parts(i, p, q, b)
  BY Position
<1>2. b + j < SS /\ k = i + j
  OBVIOUS
<1> HIDE DEF p, q, b, k
<1>3. b \in Nat /\ b + j \in In /\ q \in Nat
  BY <1>1, <1>2, Sizes
<1>4. Bcs * p \in Nat /\ SS * q \in Nat
  BY <1>1, <1>3, Sizes, Times
<1>5. Parts(k, p, q, b + j)
  BY <1>1, <1>2, <1>3, <1>4 DEF Parts
<1>6. k \in Nat /\ Plc(k) = p + 1 /\ Sec(k) = q /\ k % SS = b + j
  BY <1>1, <1>3, <1>5, PositionIs
<1> QED
  BY <1>1, <1>6 DEF k, q, b

\* The end of a sector is a boundary.
LEMMA SectorEnd ==
  ASSUME NEW i \in Nat
  PROVE  (i + (SS - (i % SS))) % SS = 0
<1> DEFINE d == i \div SS
           b == i % SS
           k == i + (SS - b)
<1>1. d \in Nat /\ b \in 0 .. SS - 1 /\ i = SS * d + b
  BY Sizes, DivMod
<1>2. k = i + (SS - b)
  OBVIOUS
<1> HIDE DEF d, b, k
<1>3. SS * d \in Nat /\ SS * (d + 1) = SS * d + SS * 1 /\ SS * 1 = SS
  BY <1>1, Sizes, Times
<1>4. k = SS * (d + 1) + 0 /\ k \in Nat /\ d + 1 \in Nat /\ 0 \in 0 .. SS - 1
  BY <1>1, <1>2, <1>3, Sizes
<1>5. k % SS = 0
  BY <1>4, Sizes, DivIs
<1> QED
  BY <1>5 DEF k, b

\* Boundaries.
LEMMA Boundary ==
  ASSUME NEW i \in Nat
  PROVE  /\ i % Bcs = 0 => i % SS = 0 /\ Sec(i) = 0
         /\ i % SS = 0 => i % Bcs = SS * Sec(i)
<1>1. i % Bcs = SS * Sec(i) + (i % SS) /\ i % SS \in In /\ Sec(i) \in 0 .. Csize - 1
  BY Position
<1> DEFINE q == Sec(i)
           b == i % SS
           r == i % Bcs
<1>2. r = SS * q + b /\ b \in Nat /\ q \in Nat
  BY <1>1, Sizes
<1> HIDE DEF q, b, r
<1>3. SS * q \in Nat /\ (q # 0 => SS * 1 <= SS * q) /\ SS * 1 = SS
  BY <1>2, Sizes, Times
<1>4. r = 0 => b = 0 /\ q = 0
  BY <1>2, <1>3, Sizes
<1>5. b = 0 => r = SS * q
  BY <1>2, <1>3
<1> QED
  BY <1>4, <1>5 DEF q, b, r

\* The byte before.
LEMMA Before ==
  ASSUME NEW i \in Nat, i > 0
  PROVE  /\ i - 1 \in Nat
         /\ i % Bcs = 0 => Plc(i) = Plc(i - 1) + 1
         /\ i % Bcs # 0 => Plc(i) = Plc(i - 1)
<1> DEFINE p == i \div Bcs
           r == i % Bcs
           k == i - 1
<1>1. p \in Nat /\ r \in 0 .. Bcs - 1 /\ i = Bcs * p + r /\ Plc(i) = p + 1
  BY Sizes, DivMod DEF Plc
<1>2. k = i - 1
  OBVIOUS
<1> HIDE DEF p, r, k
<1>3. k \in Nat
  BY <1>2
<1>4. CASE r = 0
  <2>1. p # 0
    <3>1. SUFFICES ASSUME p = 0 PROVE FALSE
      OBVIOUS
    <3>2. Bcs * 0 = 0
      BY Sizes
    <3> QED
      BY <1>1, <1>4, <3>1, <3>2
  <2>2. p - 1 \in Nat /\ p = (p - 1) + 1
    BY <1>1, <2>1
  <2>3. Bcs * p = Bcs * (p - 1) + Bcs * 1 /\ Bcs * 1 = Bcs /\ Bcs * (p - 1) \in Nat
    BY <2>2, Sizes, Times
  <2>4. k = Bcs * (p - 1) + (Bcs - 1) /\ Bcs - 1 \in 0 .. Bcs - 1
    BY <1>1, <1>2, <1>4, <2>3, Sizes
  <2>5. k \div Bcs = p - 1
    BY <1>3, <2>2, <2>4, Sizes, DivIs
  <2>6. Plc(k) + 1 = Plc(i)
    BY <1>1, <2>2, <2>5 DEF Plc
  <2> QED
    BY <1>3, <1>4, <2>6 DEF r, k
<1>5. CASE r # 0
  <2>1. Bcs * p \in Nat
    BY <1>1, Sizes, Times
  <2>2. k = Bcs * p + (r - 1) /\ r - 1 \in 0 .. Bcs - 1
    BY <1>1, <1>2, <1>5, <2>1, Sizes
  <2>3. k \div Bcs = p
    BY <1>1, <1>3, <2>2, Sizes, DivIs
  <2>4. Plc(k) = Plc(i)
    BY <1>1, <2>3 DEF Plc
  <2> QED
    BY <1>3, <1>5, <2>4 DEF r, k
<1> QED
  BY <1>4, <1>5

\* Places and sizes.
LEMMA Reaching ==
  ASSUME NEW i \in Nat, NEW n \in Nat
  PROVE  /\ i < n * Bcs <=> Plc(i) <= n
         /\ i > 0 => i <= Plc(i - 1) * Bcs
<1>1. ASSUME NEW j \in Nat, NEW m \in Nat PROVE j < m * Bcs <=> Plc(j) <= m
  <2> DEFINE p == j \div Bcs
             r == j % Bcs
             x == m * Bcs
  <2>1. p \in Nat /\ r \in 0 .. Bcs - 1 /\ j = Bcs * p + r /\ Plc(j) = p + 1
    BY Sizes, DivMod DEF Plc
  <2>2. x = Bcs * m
    BY Sizes
  <2> HIDE DEF p, r, x
  <2>3. Bcs * m \in Nat /\ Bcs * p \in Nat /\ (p < m => Bcs * p + Bcs <= Bcs * m) /\ (m <= p => Bcs * m <= Bcs * p)
    BY <2>1, Sizes, Times
  <2>4. j < x <=> p + 1 <= m
    BY <2>1, <2>2, <2>3, Sizes
  <2> QED
    BY <2>1, <2>4 DEF x
<1>2. i > 0 => i <= Plc(i - 1) * Bcs
  <2>1. SUFFICES ASSUME i > 0 PROVE i <= Plc(i - 1) * Bcs
    OBVIOUS
  <2> DEFINE k == i - 1
             m == Plc(k)
             x == m * Bcs
  <2>2. k \in Nat /\ i = k + 1
    BY <2>1
  <2> HIDE DEF k
  <2>3. m \in Nat /\ m <= m
    BY <2>2, Position
  <2> HIDE DEF m
  <2>4. k < x
    BY <1>1, <2>2, <2>3 DEF m
  <2>5. x \in Nat
    BY <2>3, Sizes
  <2> HIDE DEF x
  <2>6. i <= x
    BY <2>2, <2>4, <2>5
  <2> QED
    BY <2>6 DEF x, m, k
<1> QED
  BY <1>1, <1>2

\* Two bytes of one sector.
LEMMA OneSector ==
  ASSUME NEW i \in Nat, NEW k \in Nat, Plc(i) = Plc(k), Sec(i) = Sec(k)
  PROVE  i - k = (i % SS) - (k % SS) /\ (k % SS = 0 => i >= k) /\ (i % SS = k % SS => i = k)
<1> DEFINE p == i \div Bcs
           q == Sec(i)
           a == i % SS
           b == k % SS
<1>1. p \in Nat /\ q \in 0 .. Csize - 1 /\ a \in In /\ Parts(i, p, q, a)
  BY Position
<1>2. k \div Bcs = p /\ Sec(k) = q
  <2>1. i \div Bcs \in Nat /\ k \div Bcs \in Nat /\ (i \div Bcs) + 1 = (k \div Bcs) + 1
    BY Position
  <2> QED
    BY <2>1
<1>3. b \in In /\ Parts(k, p, q, b)
  BY <1>2, Position
<1> HIDE DEF p, q, a, b
<1>4. a \in Nat /\ b \in Nat /\ q \in Nat
  BY <1>1, <1>3, Sizes
<1>5. Bcs * p \in Nat /\ SS * q \in Nat
  BY <1>1, <1>4, Sizes, Times
<1>6. i - k = a - b /\ (b = 0 => i >= k) /\ (a = b => i = k)
  BY <1>1, <1>3, <1>4, <1>5 DEF Parts
<1> QED
  BY <1>6 DEF a, b

\* A run of whole sectors of one cluster.
LEMMA SectorRun ==
  ASSUME NEW k \in Nat, k % SS = 0, NEW m \in Nat, Sec(k) + m <= Csize,
         NEW i \in Nat
  PROVE  /\ m * SS \in Nat /\ (k + m * SS) % SS = 0
         /\ Plc(i) = Plc(k) => (i >= k /\ i < k + m * SS <=> Sec(i) >= Sec(k) /\ Sec(i) < Sec(k) + m)
         /\ i < m * SS => /\ Plc(k + i) = Plc(k) /\ Sec(k + i) = Sec(k) + (i \div SS) /\ (k + i) % SS = i % SS
                          /\ i \div SS \in 0 .. m - 1
<1> DEFINE p == k \div Bcs
           q == Sec(k)
           n == m * SS
<1>1. p \in Nat /\ Plc(k) = p + 1 /\ q \in 0 .. Csize - 1 /\ Parts(k, p, q, 0)
  BY Position
<1>2. n = SS * m /\ SS * m \in Nat
  BY Sizes
<1>3. q \in Nat /\ q + m <= Csize
  BY <1>1, Sizes
<1> HIDE DEF p, q, n
<1>4. Bcs * p \in Nat /\ SS * q \in Nat
  BY <1>1, <1>3, Sizes, Times
<1>5. k = Bcs * p + SS * q
  BY <1>1, <1>4 DEF Parts
<1>6. (k + n) % SS = 0
  <2> DEFINE d == k \div SS
  <2>1. d \in Nat /\ k = SS * d
    <3>1. d \in Nat /\ k % SS \in 0 .. SS - 1 /\ k = SS * d + (k % SS)
      BY Sizes, DivMod
    <3> QED
      BY <3>1, Sizes, Times
  <2> HIDE DEF d
  <2>2. SS * (d + m) = SS * d + SS * m /\ SS * d \in Nat
    BY <2>1, Sizes, Times
  <2>3. k + n = SS * (d + m) + 0 /\ k + n \in Nat /\ d + m \in Nat /\ 0 \in 0 .. SS - 1
    BY <1>2, <2>1, <2>2, Sizes
  <2> DEFINE e == k + n
  <2>4. e = SS * (d + m) + 0 /\ e \in Nat
    BY <2>3
  <2> HIDE DEF e
  <2>5. e % SS = 0
    BY <2>3, <2>4, Sizes, DivIs
  <2> QED
    BY <2>5 DEF e
<1>7. ASSUME Plc(i) = Plc(k) PROVE i >= k /\ i < k + n <=> Sec(i) >= q /\ Sec(i) < q + m
  <2> DEFINE s == Sec(i)
             b == i % SS
  <2>1. i \div Bcs = p
    <3>1. i \div Bcs \in Nat /\ Plc(i) = (i \div Bcs) + 1
      BY Position
    <3> QED
      BY <1>1, <1>7, <3>1
  <2>2. s \in 0 .. Csize - 1 /\ b \in In /\ Parts(i, p, s, b)
    BY <2>1, Position
  <2> HIDE DEF s, b
  <2>3. s \in Nat /\ b \in Nat /\ b < SS
    BY <2>2, Sizes
  <2>4. SS * s \in Nat /\ (q <= s => SS * q <= SS * s) /\ (s < q => SS * s + SS <= SS * q)
    BY <1>3, <2>3, Sizes, Times
  <2>5. /\ SS * (q + m) = SS * q + SS * m /\ q + m \in Nat
        /\ (s < q + m => SS * s + SS <= SS * (q + m)) /\ (q + m <= s => SS * (q + m) <= SS * s)
    BY <1>3, <2>3, Sizes, Times
  <2>6. i = Bcs * p + (SS * s + b)
    BY <2>2 DEF Parts
  <2> DEFINE X == Bcs * p
             Y == SS * q
             Z == SS * s
             M == SS * m
             W == SS * (q + m)
  <2>9. /\ X \in Nat /\ Y \in Nat /\ Z \in Nat /\ M \in Nat /\ n = M /\ W = Y + M
        /\ (q <= s => Y <= Z) /\ (s < q => Z + SS <= Y) /\ (s < q + m => Z + SS <= W) /\ (q + m <= s => W <= Z)
        /\ k = X + Y /\ i = X + (Z + b)
    BY <1>2, <1>4, <1>5, <2>4, <2>5, <2>6
  <2> HIDE DEF X, Y, Z, M, W
  <2>7. i >= k <=> s >= q
    BY <1>3, <2>3, <2>9, Sizes
  <2>8. i < k + n <=> s < q + m
    BY <1>3, <2>3, <2>9, Sizes
  <2> QED
    BY <2>7, <2>8 DEF s
<1>8. ASSUME i < n
      PROVE  /\ Plc(k + i) = Plc(k) /\ Sec(k + i) = q + (i \div SS) /\ (k + i) % SS = i % SS
             /\ i \div SS \in 0 .. m - 1
  <2> DEFINE d == i \div SS
             b == i % SS
             e == k + i
  <2>1. d \in Nat /\ b \in 0 .. SS - 1 /\ i = SS * d + b
    BY Sizes, DivMod
  <2>2. e = k + i /\ e \in Nat
    OBVIOUS
  <2> HIDE DEF d, b, e
  <2>3. SS * d \in Nat /\ (m <= d => SS * m <= SS * d) /\ SS * (q + d) = SS * q + SS * d
    BY <1>3, <2>1, Sizes, Times
  <2>4. d < m
    BY <1>2, <1>8, <2>1, <2>3
  <2>5. q + d \in 0 .. Csize - 1 /\ b \in In
    BY <1>3, <2>1, <2>4, Sizes
  <2>6. Parts(e, p, q + d, b)
    BY <1>4, <1>5, <2>1, <2>2, <2>3 DEF Parts
  <2>7. Plc(e) = p + 1 /\ Sec(e) = q + d /\ e % SS = b
    BY <1>1, <2>5, <2>6, PositionIs
  <2> QED
    BY <1>1, <2>1, <2>4, <2>7 DEF d, b, e
<1> QED
  BY <1>2, <1>6, <1>7, <1>8 DEF n, q

\* As many whole sectors of a cluster as a call of n bytes asks for.
LEMMA WholeSectors ==
  ASSUME NEW k \in Nat, NEW n \in Nat, n >= SS
  PROVE  LET cc == Least(n \div SS, Csize - Sec(k))
         IN  /\ cc \in Nat /\ cc >= 1 /\ Sec(k) + cc <= Csize /\ cc * SS <= n /\ cc * SS >= 1
             /\ \A m \in 0 .. cc : m \in Nat /\ Sec(k) + m <= Csize /\ m * SS <= n
<1> DEFINE d == n \div SS
           q == Sec(k)
           c == Least(d, Csize - q)
<1>1. d \in Nat /\ n % SS \in 0 .. SS - 1 /\ n = SS * d + (n % SS)
  BY Sizes, DivMod
<1>2a. q \in 0 .. Csize - 1
  BY Position
<1> HIDE DEF d, q
<1>2. q \in Nat /\ q < Csize
  BY <1>2a, Sizes
<1>3. d >= 1
  <2>1. d = 0 => SS * d = 0
    BY Sizes
  <2> QED
    BY <1>1, <2>1, Sizes
<1>4. c \in Nat /\ c >= 1 /\ q + c <= Csize /\ c <= d
  BY <1>1, <1>2, <1>3, Sizes DEF Least
<1> HIDE DEF c
<1>5. ASSUME NEW m \in 0 .. c PROVE m \in Nat /\ q + m <= Csize /\ m * SS <= n
  <2>1. m \in Nat /\ m <= d
    BY <1>1, <1>4
  <2>2. SS * m <= SS * d /\ SS * m \in Nat /\ SS * d \in Nat
    BY <1>1, <2>1, Sizes, Times
  <2>3. m * SS = SS * m
    BY <2>1, Sizes
  <2> QED
    BY <1>1, <1>2, <1>4, <2>1, <2>2, <2>3, Sizes
<1>6. c * SS >= 1
  <2>1. SS * 1 <= SS * c /\ SS * 1 = SS /\ SS * c \in Nat /\ c * SS = SS * c
    BY <1>4, Sizes, Times
  <2> QED
    BY <2>1, Sizes
<1>7. c \in 0 .. c
  BY <1>4
<1>8. c * SS <= n
  BY <1>5, <1>7
<1> QED
  BY <1>4, <1>5, <1>6, <1>8 DEF c, d, q

\* Going along the chain from the begin of a cluster.
LEMMA Along ==
  ASSUME NEW i \in Nat, i % Bcs = 0
  PROVE  /\ (i + Bcs) \in Nat /\ (i + Bcs) % Bcs = 0 /\ Plc(i + Bcs) = Plc(i) + 1
         /\ \A n \in Nat : n >= 1 /\ n <= Bcs =>
              /\ i + n \in Nat /\ i + n > 0 /\ Plc(i + n - 1) = Plc(i)
              /\ (i + n) % SS # 0 => Plc(i + n) = Plc(i) /\ Sec(i + n) = n \div SS
<1> DEFINE p == i \div Bcs
           e == i + Bcs
<1>1. p \in Nat /\ i = Bcs * p /\ Plc(i) = p + 1
  <2>1. p \in Nat /\ i = Bcs * p + (i % Bcs) /\ Plc(i) = p + 1
    BY Sizes, DivMod DEF Plc
  <2> QED
    BY <2>1, Sizes, Times
<1>2. e = i + Bcs /\ e \in Nat
  BY Sizes
<1> HIDE DEF p, e
<1>3. Bcs * p \in Nat /\ Bcs * (p + 1) = Bcs * p + Bcs * 1 /\ Bcs * 1 = Bcs
  BY <1>1, Sizes, Times
<1>4. e % Bcs = 0 /\ Plc(e) = p + 2
  <2>1. e = Bcs * (p + 1) + 0 /\ p + 1 \in Nat /\ 0 \in 0 .. Bcs - 1
    BY <1>1, <1>2, <1>3, Sizes
  <2>2. e % Bcs = 0 /\ e \div Bcs = p + 1
    BY <1>2, <2>1, Sizes, DivIs
  <2> QED
    BY <1>1, <2>2 DEF Plc
<1>5. ASSUME NEW n \in Nat, n >= 1, n <= Bcs
      PROVE  /\ i + n \in Nat /\ i + n > 0 /\ Plc(i + n - 1) = p + 1
             /\ (i + n) % SS # 0 => Plc(i + n) = p + 1 /\ Sec(i + n) = n \div SS
  <2> DEFINE k == i + n - 1
             j == i + n
             r == n - 1
  <2>1. k \in Nat /\ j \in Nat /\ j > 0 /\ k = Bcs * p + r /\ r \in 0 .. Bcs - 1 /\ j = Bcs * p + n
    BY <1>1, <1>3, <1>5, Sizes
  <2> HIDE DEF k, j, r
  <2>1a. k \in Nat /\ k = Bcs * p + r /\ r \in 0 .. Bcs - 1 /\ Bcs \in Nat \ {0} /\ p \in Nat
    BY <1>1, <2>1, Sizes
  <2>2. k \div Bcs = p
    BY <2>1a, DivIs
  <2>3. ASSUME j % SS # 0 PROVE Plc(j) = p + 1 /\ Sec(j) = n \div SS
    <3>1. n # Bcs
      <4>1. SUFFICES ASSUME n = Bcs PROVE j % SS = 0
        BY <2>3
      <4>2. j = e
        BY <1>1, <1>2, <2>1, <4>1
      <4> QED
        BY <1>2, <1>4, <4>2, Boundary
    <3>2. n \in 0 .. Bcs - 1
      BY <1>5, <3>1, Sizes
    <3>3a. j \in Nat /\ j = Bcs * p + n /\ n \in 0 .. Bcs - 1 /\ Bcs \in Nat \ {0} /\ p \in Nat
      BY <1>1, <2>1, <3>2, Sizes
    <3>3. j \div Bcs = p /\ j % Bcs = n
      BY <3>3a, DivIs
    <3> QED
      BY <3>3 DEF Plc, Sec
  <2>4. Plc(k) = p + 1
    BY <2>2 DEF Plc
  <2> QED
    BY <2>1, <2>3, <2>4 DEF k, j
<1> QED
  BY <1>1, <1>2, <1>4, <1>5 DEF e

\* The begin of the cluster of the byte before i, where f_lseek goes on from.
LEMMA Base ==
  ASSUME NEW i \in Nat, i > 0
  PROVE  LET base == ((i - 1) \div Bcs) * Bcs
         IN  base \in Nat /\ base % Bcs = 0 /\ Plc(base) = Plc(i - 1) /\ base < i
<1> DEFINE k == i - 1
           p == k \div Bcs
           base == p * Bcs
<1>1. k \in Nat /\ k < i
  OBVIOUS
<1> HIDE DEF k
<1>2. p \in Nat /\ k % Bcs \in 0 .. Bcs - 1 /\ k = Bcs * p + (k % Bcs) /\ Plc(k) = p + 1
  BY <1>1, Sizes, DivMod DEF Plc
<1>3. base = Bcs * p
  BY <1>2, Sizes
<1> HIDE DEF p, base
<1>4. Bcs * p \in Nat
  BY <1>2, Sizes, Times
<1>5. base = Bcs * p + 0 /\ base \in Nat /\ 0 \in 0 .. Bcs - 1
  BY <1>3, <1>4, Sizes
<1>6. base % Bcs = 0 /\ base \div Bcs = p
  BY <1>2, <1>5, Sizes, DivIs
<1>7. Plc(base) = Plc(k)
  BY <1>2, <1>6 DEF Plc
<1>8. base < i
  BY <1>1, <1>2, <1>3, <1>4, Sizes
<1> QED
  BY <1>5, <1>6, <1>7, <1>8 DEF base, p, k

-----------------------------------------------------------------------------
(* The inductive invariant, and chains.                                    *)

\* Every set of numbers has a least one.
LEMMA LeastMember ==
  ASSUME NEW S, S \subseteq Nat, S # {}
  PROVE  \E n \in S : \A m \in S : n <= m
<1> DEFINE R == {p \in Nat \X Nat : p[1] < p[2]}
<1>1. IsWellFoundedOn(R, Nat)
  BY NatLessThanWellFounded DEF OpToRel
<1>2. \A m, n \in Nat : m < n => <<m, n>> \in R
  OBVIOUS
<1> HIDE DEF R
<1>3. PICK n \in S : \A m \in S : ~(<<m, n>> \in R)
  BY <1>1, WFMin
<1>4. \A m \in S : ~(m < n)
  BY <1>2, <1>3
<1> QED
  BY <1>4

\* What holds of 0 and passes from k - 1 to k holds up to N.
LEMMA UpTo ==
  ASSUME NEW N \in Nat, NEW S, 0 \in S, \A k \in 1 .. N : k - 1 \in S => k \in S
  PROVE  \A k \in 0 .. N : k \in S
<1> DEFINE Bad == {k \in 0 .. N : k \notin S}
<1>1. SUFFICES ASSUME Bad # {} PROVE FALSE
  OBVIOUS
<1>2. PICK n \in Bad : \A m \in Bad : n <= m
  <2>1. Bad \subseteq Nat
    OBVIOUS
  <2> HIDE DEF Bad
  <2> QED
    BY <1>1, <2>1, LeastMember
<1>3. n \in 0 .. N /\ n \notin S
  BY <1>2
<1>4. n \in 1 .. N /\ n - 1 \in 0 .. N /\ ~(n <= n - 1)
  BY <1>3
<1>5. n - 1 \in S
  BY <1>2, <1>4
<1> QED
  BY <1>3, <1>4, <1>5

\* g lists the steps F from a on.
Iterates(N, V, a, F, g) ==
  /\ g \in [0 .. N -> V] /\ g[0] = a
  /\ \A k \in 1 .. N : g[k] = F[<<k, g[k - 1]>>]

\* The steps F, taken N times from a, stay in the set V that F is closed on.
LEMMA Iterate ==
  ASSUME NEW N \in Nat, NEW V, NEW a \in V, NEW F \in [(1 .. N) \X V -> V]
  PROVE  \E g : Iterates(N, V, a, F, g)
<1> DEFINE Is(n, g) == g[0] = a /\ \A k \in 1 .. n : g[k] = F[<<k, g[k - 1]>>]
           S == {n \in 0 .. N : \E g \in [0 .. n -> V] : Is(n, g)}
<1>1. 0 \in S
  <2> DEFINE h == [k \in 0 .. 0 |-> a]
  <2>1. h \in [0 .. 0 -> V] /\ h[0] = a /\ 1 .. 0 = {}
    OBVIOUS
  <2> HIDE DEF h
  <2>2. Is(0, h)
    BY <2>1
  <2> QED
    BY <2>1, <2>2
<1>2. ASSUME NEW n \in 1 .. N, n - 1 \in S PROVE n \in S
  <2>1. PICK g \in [0 .. n - 1 -> V] : Is(n - 1, g)
    BY <1>2
  <2> DEFINE h == [k \in 0 .. n |-> IF k = n THEN F[<<n, g[n - 1]>>] ELSE g[k]]
  <2>2. g[n - 1] \in V /\ F[<<n, g[n - 1]>>] \in V
    BY <1>2
  <2>3. h \in [0 .. n -> V]
    BY <2>2, <1>2
  <2>4. h[n] = F[<<n, g[n - 1]>>] /\ \A k \in 0 .. n - 1 : h[k] = g[k]
    BY <1>2
  <2> HIDE DEF h
  <2>5. h[0] = a
    BY <2>1, <2>4, <1>2
  <2>6. \A k \in 1 .. n : h[k] = F[<<k, h[k - 1]>>]
    <3>1. TAKE k \in 1 .. n
    <3>2. h[k - 1] = g[k - 1]
      BY <2>4, <1>2
    <3>3. CASE k = n
      BY <3>2, <3>3, <2>4
    <3>4. CASE k # n
      <4>1. k \in 1 .. n - 1
        BY <3>4, <1>2
      <4> QED
        BY <4>1, <3>2, <2>1, <2>4, <1>2
    <3> QED
      BY <3>3, <3>4
  <2> QED
    BY <2>3, <2>5, <2>6
<1> HIDE DEF S
<1>3. \A n \in 0 .. N : n \in S
  BY <1>1, <1>2, UpTo
<1>4. N \in S
  BY <1>3
<1> QED
  BY <1>4 DEF S, Iterates

\* The cluster at the start of the file, and its size: the object's while it is
\* open, else the entry's.
Start == IF fil.open THEN fil.sclust ELSE ent.start
Size == IF fil.open THEN fil.size ELSE ent.size

\* A witness w gives each cluster its place in the chain of the file (0: none), and
\* the length of the chain.  t is such a chain from the cluster s on.
Placed(w) == w.len \in Nat /\ \A c \in Clus : w.pl[c] \in 0 .. w.len
InPlace(t, w, c) ==
  /\ w.pl[c] = w.len => t[c] = EOC
  /\ w.pl[c] # w.len => t[c] \in Clus /\ w.pl[t[c]] = w.pl[c] + 1
Chained(t, s, w) ==
  /\ Placed(w)
  /\ IF s = None THEN w.len = 0 ELSE s \in Clus /\ w.pl[s] = 1
  /\ \A c \in Clus : w.pl[c] # 0 => InPlace(t, w, c)
  /\ \A c, d \in Clus : w.pl[c] # 0 /\ w.pl[c] = w.pl[d] => c = d

\* The byte at offset i is in the sector s.
At(w, s, i) == w.pl[s[1]] = Plc(i) /\ s[2] = Sec(i)

\* With the object x and the data area d: the written bytes ct are in the cache if
\* their sector is, else on the card; the durable ones sf are on the card, and a
\* write-back does not change them.
Reads(w, x, d, ct) ==
  \A i \in Offs, s \in Sectors : ct[i] # Undef /\ At(w, s, i) =>
    IF s = x.sect THEN x.buf[i % SS] = ct[i] /\ (~x.dirty => d[s][i % SS] = ct[i])
    ELSE d[s][i % SS] = ct[i]
Keeps(w, x, d, sf) ==
  \A i \in Offs, s \in Sectors : sf[i] # Undef /\ At(w, s, i) =>
    d[s][i % SS] = sf[i] /\ (x.dirty /\ s = x.sect => x.buf[i % SS] = sf[i])

\* A dirty cache is of a sector of the file, until f_truncate fails.
Dirt(w, x) == x.dirty => x.sect \in Sectors /\ (halfCut \/ w.pl[x.sect[1]] # 0)

\* clust is the cluster of the byte before fptr, and inside a sector the cache has it.
Cursor(w, x) ==
  /\ x.fptr <= x.size
  /\ x.fptr > 0 => x.clust \in Clus /\ w.pl[x.clust] = Plc(x.fptr - 1)
  /\ x.fptr % SS # 0 => x.sect = <<x.clust, Sec(x.fptr)>>
\* While f_lseek goes along the chain, clust is the cluster from fptr on.
Seeking(w, x) == x.fptr % Bcs = 0 /\ x.clust \in Clus /\ w.pl[x.clust] = Plc(x.fptr)

Object == [open : BOOLEAN, write : BOOLEAN, fptr : Nat, size : Nat, sclust : Clus \cup {None},
           clust : Clus \cup {None}, sect : Sectors \cup {NoSector}, buf : [In -> Bytes],
           dirty : BOOLEAN, mod : BOOLEAN, err : BOOLEAN]
Types ==
  /\ fat \in [Clus -> Clus \cup {None, Other, EOC}]
  /\ ent \in [start : Clus \cup {None}, size : 0 .. MaxBytes]
  /\ data \in [Sectors -> [In -> Bytes]]
  /\ fil \in Object /\ (~fil.open => fil = Closed)
  /\ call \in [op : {"none", "read", "forward", "write", "seek"}, n : Nat]
  /\ content \in [Offs -> Bytes \cup {Undef}] /\ safe \in [Offs -> Bytes \cup {Undef}]
  /\ writes \in 0 .. MaxWrites /\ faults \in 0 .. MaxFaults /\ halfCut \in BOOLEAN

\* The entry is that of the object, unless f_sync has something to do.
EntryOk ==
  fil.open /\ ~fil.mod =>
    /\ ent.size <= fil.size
    /\ ent.start = fil.sclust \/ (ent.start = None /\ ent.size = 0)
    /\ call.op # "write" /\ ~fil.err => ~fil.dirty /\ ent.size = fil.size

\* Durable bytes are as written, and within entry and object.
SafeOk ==
  \A i \in Offs : safe[i] # Undef =>
    content[i] = safe[i] /\ i < Size /\ i < ent.size /\ ent.start = Start

CallOk(w) ==
  /\ call.op = "none" => call = Idle
  /\ call.op # "none" => fil.open /\ ~fil.err /\ call.n >= 1
  /\ call.op \in {"read", "forward"} => call.n <= fil.size - fil.fptr
  /\ call.op = "write" => /\ got = Nothing
                          /\ \A i \in Offs : i >= fil.fptr /\ i < fil.fptr + call.n => safe[i] = Undef
  /\ fil.open /\ ~fil.err => IF call.op = "seek" THEN Seeking(w, fil) ELSE Cursor(w, fil)
  /\ fil.err => fil.fptr = 0

Inv(w) ==
  /\ Types /\ Chained(fat, Start, w) /\ Size <= w.len * Bcs
  /\ EntryOk /\ SafeOk /\ CallOk(w)
  /\ fil.err \/ (Reads(w, fil, data, content) /\ \A i \in Offs : content[i] # Undef => i < Size)
  /\ Keeps(w, fil, data, safe) /\ Dirt(w, fil)
  /\ OthersUntouched /\ DeliversWritten

IInv == \E w : Inv(w)

Values == Clus \cup {None, Other, EOC}

\* The marks of a FAT entry are not clusters, and no two are the same.
LEMMA Marks ==
  /\ None \notin Clus /\ Other \notin Clus /\ EOC \notin Clus /\ Junk \notin Clus
  /\ None # Other /\ None # EOC /\ None # Junk /\ Other # EOC /\ Other # Junk /\ EOC # Junk
  /\ None \notin Sectors /\ Junk \notin Values
<1>1. Clus \cap {None, Other, EOC, Junk} = {} /\ Cardinality({None, Other, EOC, Junk}) = 4 /\ None \notin Sectors
  BY FileAssumption
<1>2. ASSUME NEW a, NEW b, NEW c PROVE Cardinality({a, b, c}) <= 3
  <2>1. IsFiniteSet({}) /\ Cardinality({}) = 0
    BY FS_EmptySet
  <2>2. IsFiniteSet({a}) /\ Cardinality({a}) = 1
    BY FS_Singleton
  <2>3. IsFiniteSet({a} \cup {b}) /\ Cardinality({a} \cup {b}) \in {1, 2}
    BY <2>2, FS_AddElement
  <2>4. Cardinality(({a} \cup {b}) \cup {c}) \in {1, 2, 3}
    BY <2>3, FS_AddElement
  <2>5. ({a} \cup {b}) \cup {c} = {a, b, c}
    OBVIOUS
  <2> QED
    BY <2>4, <2>5
<1>4. \A a, b, c : {None, Other, EOC, Junk} # {a, b, c}
  <2> SUFFICES ASSUME NEW a, NEW b, NEW c, {None, Other, EOC, Junk} = {a, b, c} PROVE FALSE
    OBVIOUS
  <2>1. Cardinality({a, b, c}) <= 3
    BY <1>2
  <2> QED
    BY <1>1, <2>1
<1>5. None # Other
  <2> SUFFICES ASSUME None = Other PROVE FALSE
    OBVIOUS
  <2>1. {None, Other, EOC, Junk} = {None, EOC, Junk}
    OBVIOUS
  <2> QED
    BY <1>4, <2>1
<1>6. None # EOC
  <2> SUFFICES ASSUME None = EOC PROVE FALSE
    OBVIOUS
  <2>1. {None, Other, EOC, Junk} = {None, Other, Junk}
    OBVIOUS
  <2> QED
    BY <1>4, <2>1
<1>7. None # Junk
  <2> SUFFICES ASSUME None = Junk PROVE FALSE
    OBVIOUS
  <2>1. {None, Other, EOC, Junk} = {None, Other, EOC}
    OBVIOUS
  <2> QED
    BY <1>4, <2>1
<1>8. Other # EOC
  <2> SUFFICES ASSUME Other = EOC PROVE FALSE
    OBVIOUS
  <2>1. {None, Other, EOC, Junk} = {None, Other, Junk}
    OBVIOUS
  <2> QED
    BY <1>4, <2>1
<1>9. Other # Junk
  <2> SUFFICES ASSUME Other = Junk PROVE FALSE
    OBVIOUS
  <2>1. {None, Other, EOC, Junk} = {None, Other, EOC}
    OBVIOUS
  <2> QED
    BY <1>4, <2>1
<1>10. EOC # Junk
  <2> SUFFICES ASSUME EOC = Junk PROVE FALSE
    OBVIOUS
  <2>1. {None, Other, EOC, Junk} = {None, Other, EOC}
    OBVIOUS
  <2> QED
    BY <1>4, <2>1
<1>11. Clus \cap {None, Other, EOC, Junk} = {}
  BY <1>1
<1> QED
  BY <1>1, <1>5, <1>6, <1>7, <1>8, <1>9, <1>10, <1>11 DEF Values

\* What is in the chain is not free and not of another file.
LEMMA Taken ==
  ASSUME NEW t, NEW s, NEW w, Chained(t, s, w), NEW c \in Clus
  PROVE  t[c] \in {None, Other} => w.pl[c] = 0
BY Marks DEF Chained, InPlace

\* g follows the chain from c.
Walks(c, n, g) ==
  /\ g \in [0 .. n -> Values] /\ Walk(c, n) = g[n] /\ g[0] = c
  /\ \A k \in 1 .. n : g[k] = IF g[k - 1] \in Clus THEN fat[g[k - 1]] ELSE EOC

\* Walk is defined by recursion: its values are those of a list that follows the FAT.
LEMMA WalkSteps ==
  ASSUME NEW c \in Values, NEW n \in Nat, fat \in [Clus -> Values]
  PROVE  \E g : Walks(c, n, g)
<1> DEFINE N1(x) == IF x \in Clus THEN fat[x] ELSE EOC
           F == [p \in (1 .. n) \X Values |-> N1(p[2])]
           IsWalk(g) == g = [k \in 0 .. n |-> IF k = 0 THEN c ELSE IF g[k - 1] \in Clus THEN fat[g[k - 1]] ELSE EOC]
<1>1. \A v \in Values : N1(v) \in Values
  BY DEF Values
<1> HIDE DEF N1
<1>2. F \in [(1 .. n) \X Values -> Values]
  BY <1>1
<1>3. \A k \in 1 .. n, v \in Values : F[<<k, v>>] = N1(v)
  OBVIOUS
<1> HIDE DEF F
<1>3b. PICK g : Iterates(n, Values, c, F, g)
  BY <1>2, Iterate
<1>4. g \in [0 .. n -> Values] /\ g[0] = c /\ \A k \in 1 .. n : g[k] = F[<<k, g[k - 1]>>]
  BY <1>3b DEF Iterates
<1>5. \A k \in 1 .. n : g[k] = N1(g[k - 1])
  <2>1. TAKE k \in 1 .. n
  <2>2. k - 1 \in 0 .. n
    OBVIOUS
  <2>3. g[k - 1] \in Values
    BY <1>4, <2>2
  <2> QED
    BY <1>3, <1>4, <2>3
<1>6. IsWalk(g)
  <2>1. \A k \in 0 .. n : g[k] = IF k = 0 THEN c ELSE N1(g[k - 1])
    BY <1>4, <1>5
  <2>2. g = [k \in 0 .. n |-> IF k = 0 THEN c ELSE N1(g[k - 1])]
    BY <1>4, <2>1
  <2> QED
    BY <2>2 DEF N1
<1> DEFINE h == CHOOSE h : IsWalk(h)
<1>7. IsWalk(h)
  <2> HIDE DEF IsWalk
  <2> QED
    BY <1>6
<1>8. Walk(c, n) = h[n]
  BY DEF Walk
<1> HIDE DEF h
<1>9a. h = [k \in 0 .. n |-> IF k = 0 THEN c ELSE N1(h[k - 1])]
  BY <1>7 DEF N1
<1>9. h[0] = c /\ \A k \in 1 .. n : h[k] = N1(h[k - 1])
  BY <1>9a
<1>10. DOMAIN h = 0 .. n /\ h = [k \in 0 .. n |-> h[k]]
  <2> DEFINE E(k) == IF k = 0 THEN c ELSE N1(h[k - 1])
  <2>2. h = [k \in 0 .. n |-> E(k)]
    BY <1>9a
  <2> HIDE DEF E
  <2> QED
    BY <2>2
<1>11. \A k \in 0 .. n : h[k] \in Values
  <2> DEFINE S == {k \in 0 .. n : h[k] \in Values}
  <2>1. 0 \in S
    BY <1>9
  <2>2. ASSUME NEW k \in 1 .. n, k - 1 \in S PROVE k \in S
    <3>1. h[k - 1] \in Values
      BY <2>2
    <3> QED
      BY <1>1, <1>9, <3>1
  <2> HIDE DEF S
  <2>3. \A k \in 0 .. n : k \in S
    BY <2>1, <2>2, UpTo
  <2> QED
    BY <2>3 DEF S
<1>12. h \in [0 .. n -> Values]
  BY <1>10, <1>11
<1> QED
  BY <1>8, <1>9, <1>12 DEF Walks, N1

\* The walk from a cluster of the chain goes place by place to its end.
LEMMA WalkPlaces ==
  ASSUME fat \in [Clus -> Values], NEW s, NEW w, Chained(fat, s, w),
         NEW c \in Clus, w.pl[c] # 0, NEW n \in Nat
  PROVE  IF w.pl[c] + n <= w.len THEN Walk(c, n) \in Clus /\ w.pl[Walk(c, n)] = w.pl[c] + n
         ELSE Walk(c, n) = EOC
<1>1. PICK g : Walks(c, n, g)
  BY WalkSteps DEF Values
<1> DEFINE m == w.pl[c]
           Is(k) == IF m + k <= w.len THEN g[k] \in Clus /\ w.pl[g[k]] = m + k ELSE g[k] = EOC
           S == {k \in 0 .. n : Is(k)}
<1>2. m \in Nat /\ m >= 1 /\ w.len \in Nat /\ m <= w.len
  BY DEF Chained, Placed
<1>3. 0 \in S
  BY <1>1, <1>2 DEF Walks
<1>4. ASSUME NEW k \in 1 .. n, k - 1 \in S PROVE k \in S
  <2>1. Is(k - 1) /\ k - 1 \in Nat /\ k \in Nat
    BY <1>4
  <2>2. g[k] = IF g[k - 1] \in Clus THEN fat[g[k - 1]] ELSE EOC
    BY <1>1 DEF Walks
  <2>3. CASE m + k <= w.len
    <3>1. g[k - 1] \in Clus /\ w.pl[g[k - 1]] = m + (k - 1) /\ m + (k - 1) # 0 /\ m + (k - 1) # w.len
      BY <1>2, <2>1, <2>3
    <3>2. g[k] = fat[g[k - 1]] /\ fat[g[k - 1]] \in Clus /\ w.pl[fat[g[k - 1]]] = m + (k - 1) + 1
      BY <2>2, <3>1 DEF Chained, InPlace
    <3> QED
      BY <1>2, <2>1, <2>3, <3>2
  <2>4. CASE m + k > w.len /\ m + (k - 1) <= w.len
    <3>1. g[k - 1] \in Clus /\ w.pl[g[k - 1]] = w.len /\ w.len # 0
      BY <1>2, <2>1, <2>4
    <3>2. g[k] = EOC
      BY <2>2, <3>1 DEF Chained, InPlace
    <3> QED
      BY <1>2, <2>1, <2>4, <3>2
  <2>5. CASE m + (k - 1) > w.len
    <3>1. g[k - 1] = EOC
      BY <1>2, <2>1, <2>5
    <3>2. g[k] = EOC
      BY <2>2, <3>1, Marks
    <3> QED
      BY <1>2, <2>1, <2>5, <3>2
  <2> QED
    BY <1>2, <2>1, <2>3, <2>4, <2>5
<1> HIDE DEF S
<1>5. \A k \in 0 .. n : k \in S
  BY <1>3, <1>4, UpTo
<1>6. Is(n)
  BY <1>5 DEF S
<1> QED
  BY <1>1, <1>6 DEF Walks

-----------------------------------------------------------------------------
(* What a chain says, and how it grows.                                    *)

\* The sector of an offset within the chain.
LEMMA SectorIs ==
  ASSUME fat \in [Clus -> Values], NEW s, NEW w, Chained(fat, s, w), NEW i \in Nat, i < w.len * Bcs
  PROVE  /\ SectorOf(s, i) \in Sectors /\ At(w, SectorOf(s, i), i)
         /\ \A x \in Sectors : At(w, x, i) => x = SectorOf(s, i)
<1>1. w.len \in Nat /\ Plc(i) \in Nat /\ Plc(i) >= 1 /\ i \div Bcs \in Nat /\ Plc(i) = 1 + (i \div Bcs) /\ Sec(i) \in 0 .. Csize - 1
  BY Position DEF Chained, Placed
<1>2. Plc(i) <= w.len
  BY <1>1, Reaching
<1>3. s \in Clus /\ w.pl[s] = 1
  BY <1>1, <1>2 DEF Chained
<1> DEFINE c == Walk(s, i \div Bcs)
<1>4. c \in Clus /\ w.pl[c] = Plc(i)
  BY <1>1, <1>2, <1>3, WalkPlaces
<1>5. SectorOf(s, i) = <<c, Sec(i)>>
  BY DEF SectorOf, Sec
<1> HIDE DEF c
<1>6. <<c, Sec(i)>> \in Sectors /\ At(w, <<c, Sec(i)>>, i)
  BY <1>1, <1>4 DEF Sectors, At
<1>8. \A a, b \in Clus : w.pl[a] # 0 /\ w.pl[a] = w.pl[b] => a = b
  BY DEF Chained
<1>7. ASSUME NEW x \in Sectors, At(w, x, i) PROVE x = <<c, Sec(i)>>
  <2>1. x = <<x[1], x[2]>> /\ x[1] \in Clus
    BY DEF Sectors
  <2>2. w.pl[x[1]] = w.pl[c] /\ w.pl[c] # 0 /\ x[2] = Sec(i)
    BY <1>1, <1>4, <1>7 DEF At
  <2>4. x[1] = c
    BY <1>4, <1>8, <2>1, <2>2
  <2> QED
    BY <2>1, <2>2, <2>4
<1> QED
  BY <1>5, <1>6, <1>7

\* A chain is of different clusters.
LEMMA ChainFits ==
  ASSUME fat \in [Clus -> Values], NEW s, NEW w, Chained(fat, s, w)
  PROVE  w.len <= NClust /\ w.len * Bcs <= MaxBytes
<1>1. w.len \in Nat /\ IsFiniteSet(Clus) /\ NClust \in Nat
  BY FileAssumption, FS_CardinalityType DEF Chained, Placed, NClust
<1>2. CASE w.len = 0
  BY <1>1, <1>2, Sizes DEF MaxBytes
<1>3. CASE w.len # 0
  <2>1. s \in Clus /\ w.pl[s] = 1
    BY <1>3 DEF Chained
  <2> DEFINE T == 1 .. w.len
             U == {c \in Clus : w.pl[c] # 0}
             h == [c \in U |-> w.pl[c]]
  <2>2. U \in SUBSET Clus
    OBVIOUS
  <2>3. IsFiniteSet(U) /\ Cardinality(U) <= NClust
    BY <1>1, <2>2, FS_Subset DEF NClust
  <2>4. h \in Surjection(U, T)
    <3>1. h \in [U -> T]
      BY <1>1 DEF Chained, Placed
    <3>2. ASSUME NEW k \in T PROVE \E c \in U : h[c] = k
      <4>1. k - 1 \in Nat /\ w.pl[s] + (k - 1) = k /\ k <= w.len
        BY <1>1, <2>1
      <4>2. Walk(s, k - 1) \in Clus /\ w.pl[Walk(s, k - 1)] = k
        BY <2>1, <4>1, WalkPlaces
      <4>3. Walk(s, k - 1) \in U
        BY <4>2
      <4> QED
        BY <4>2, <4>3
    <3> HIDE DEF h, U, T
    <3> QED
      BY <3>1, <3>2, Fun_IsSurj
  <2>5. IsFiniteSet(T) /\ Cardinality(T) = w.len
    BY <1>1, FS_Interval
  <2>6. Cardinality(T) <= Cardinality(U)
    BY <2>3, <2>4, FS_Surjection
  <2>7. w.len <= NClust
    <3>1. Cardinality(U) \in Nat
      BY <2>3, FS_CardinalityType
    <3> QED
      BY <1>1, <2>3, <2>5, <2>6, <3>1
  <2>8. Bcs * w.len <= Bcs * NClust
    BY <1>1, <2>7, Sizes, Times
  <2>9. Bcs * w.len = w.len * Bcs /\ Bcs * NClust = NClust * Bcs
    BY <1>1, Sizes
  <2> QED
    BY <2>7, <2>8, <2>9 DEF MaxBytes
<1> QED
  BY <1>2, <1>3

(* How the chain changes.                                                  *)

\* The chain of w is the begin of the chain of v.
Extends(w, v) ==
  /\ w.len <= v.len
  /\ \A c \in Clus : v.pl[c] = w.pl[c] \/ (w.pl[c] = 0 /\ v.pl[c] > w.len)

\* The chain of v is the begin of the chain of w.
LEMMA StaysAt ==
  ASSUME NEW w, NEW v, Placed(w), Placed(v), Extends(w, v), NEW i \in Nat, i < w.len * Bcs, NEW s \in Sectors
  PROVE  At(v, s, i) <=> At(w, s, i)
<1>1. w.len \in Nat /\ Plc(i) \in Nat /\ Plc(i) >= 1 /\ Plc(i) <= w.len /\ s[1] \in Clus
  BY Position, Reaching DEF Placed, Sectors
<1> QED
  BY <1>1 DEF At, Extends, Placed

\* Entries outside the chain may change.
LEMMA ChainKept ==
  ASSUME NEW t, NEW t2, NEW s, NEW w, Chained(t, s, w), \A c \in Clus : w.pl[c] # 0 => t2[c] = t[c]
  PROVE  Chained(t2, s, w)
BY DEF Chained, InPlace

\* A free cluster becomes the last one, or the only one.
LEMMA ChainGrows ==
  ASSUME NEW t, NEW t2, NEW s, NEW w, Chained(t, s, w), NEW c \in Clus, w.pl[c] = 0,
         NEW a, IF s = None THEN a = None ELSE a \in Clus /\ w.pl[a] # 0 /\ t[a] = EOC,
         \A b \in Clus : t2[b] = IF b = c THEN EOC ELSE IF b = a THEN c ELSE t[b]
  PROVE  \E v : /\ Chained(t2, IF s = None THEN c ELSE s, v) /\ Extends(w, v)
                /\ v.pl[c] = IF a = None THEN 1 ELSE w.pl[a] + 1
<1> DEFINE v == [len |-> w.len + 1, pl |-> [b \in Clus |-> IF b = c THEN w.len + 1 ELSE w.pl[b]]]
<1>1. v.len = w.len + 1 /\ v.pl[c] = w.len + 1 /\ \A b \in Clus : b # c => v.pl[b] = w.pl[b]
  OBVIOUS
<1> HIDE DEF v
<1>2. w.len \in Nat /\ \A b \in Clus : w.pl[b] \in 0 .. w.len
  BY DEF Chained, Placed
<1>3. CASE s = None
  <2>1. w.len = 0 /\ a = None /\ \A b \in Clus : w.pl[b] = 0
    BY <1>2, <1>3 DEF Chained
  <2>2. t2[c] = EOC
    OBVIOUS
  <2>3. v.len = 1 /\ v.pl[c] = 1 /\ \A b \in Clus : b # c => v.pl[b] = 0
    BY <1>1, <2>1
  <2>4. Placed(v) /\ Extends(w, v)
    BY <2>1, <2>3 DEF Placed, Extends
  <2>5. Chained(t2, c, v)
    BY <2>2, <2>3, <2>4, Marks DEF Chained, InPlace
  <2> QED
    BY <1>3, <2>1, <2>3, <2>4, <2>5
<1>4. CASE s # None
  <2>1. a \in Clus /\ w.pl[a] # 0 /\ t[a] = EOC /\ a # c /\ a # None /\ s \in Clus /\ w.pl[s] = 1 /\ s # c
    BY <1>4, Marks DEF Chained
  <2>2. w.pl[a] = w.len
    BY <2>1, Marks DEF Chained, InPlace
  <2>3. Placed(v) /\ Extends(w, v)
    BY <1>1, <1>2 DEF Placed, Extends
  <2>4. t2[c] = EOC /\ t2[a] = c
    BY <2>1
  <2>5. ASSUME NEW b \in Clus, v.pl[b] # 0 PROVE InPlace(t2, v, b)
    <3>1. CASE b = c
      BY <1>1, <2>4, <3>1 DEF InPlace
    <3>2. CASE b = a
      BY <1>1, <1>2, <2>1, <2>2, <2>4, <3>2 DEF InPlace
    <3>3. CASE b # c /\ b # a
      <4>1. t2[b] = t[b] /\ v.pl[b] = w.pl[b] /\ w.pl[b] # 0
        BY <1>1, <2>5, <3>3
      <4>2. w.pl[b] # w.len
        BY <2>1, <2>2, <3>3, <4>1 DEF Chained
      <4>3. t[b] \in Clus /\ w.pl[t[b]] = w.pl[b] + 1 /\ t[b] # c
        BY <1>2, <4>1, <4>2 DEF Chained, InPlace
      <4> QED
        BY <1>1, <1>2, <4>1, <4>2, <4>3 DEF InPlace
    <3> QED
      BY <3>1, <3>2, <3>3
  <2>6. ASSUME NEW b \in Clus, NEW d \in Clus, v.pl[b] # 0, v.pl[b] = v.pl[d] PROVE b = d
    <3>1. \A x \in Clus : x # c => v.pl[x] # w.len + 1 /\ v.pl[x] = w.pl[x]
      BY <1>1, <1>2
    <3> QED
      BY <1>1, <2>6, <3>1 DEF Chained
  <2>7. v.pl[s] = 1
    BY <1>1, <2>1
  <2>8. Chained(t2, s, v)
    BY <1>4, <2>1, <2>3, <2>5, <2>6, <2>7 DEF Chained
  <2> QED
    BY <1>1, <1>4, <2>1, <2>2, <2>3, <2>8
<1> QED
  BY <1>3, <1>4

-----------------------------------------------------------------------------
(* create_chain, get_fat and remove_chain.                                 *)

\* No other file gains or loses a cluster.
Harmless(t) == t \in [Clus -> Values] /\ \A c \in Clus : t[c] = Other <=> fat[c] = Other

\* What create_chain does to the chain of w from s on: the cluster in the place
\* after a, or nothing.
Grown(o, s, w, a) ==
  /\ Harmless(o.fat)
  /\ o.r \in Clus =>
       /\ o.cost = 0
       /\ \E v : /\ Chained(o.fat, IF s = None THEN o.r ELSE s, v) /\ Extends(w, v)
                 /\ v.pl[o.r] = IF a = None THEN 1 ELSE w.pl[a] + 1
  /\ o.r \notin Clus =>
       /\ Chained(o.fat, s, w)
       /\ (o.r = None /\ o.cost = 0 /\ o.fat = fat) \/ (o.r = Junk /\ o.cost = 1 /\ CanFail)

\* The fields of an outcome of the FAT.
LEMMA ChainIs ==
  ASSUME NEW r, NEW t, NEW n, NEW o, o = Chain(r, t, n)
  PROVE  o.r = r /\ o.fat = t /\ o.cost = n
BY DEF Chain

\* create_chain at the end of a chain adds a cluster there, elsewhere it returns the next
\* one; what fails leaves the chain as it was.
LEMMA CreateChainIs ==
  ASSUME fat \in [Clus -> Values], NEW s, NEW w, Chained(fat, s, w),
         NEW a, IF s = None THEN a = None ELSE a \in Clus /\ w.pl[a] # 0,
         NEW o \in CreateChain(a)
  PROVE  Grown(o, s, w, a)
<1>1. \/ a # None /\ fat[a] # EOC /\ o = Chain(fat[a], fat, 0)
      \/ ~(a # None /\ fat[a] # EOC) /\ o = Chain(None, fat, 0)
      \/ ~(a # None /\ fat[a] # EOC) /\ \E c \in Free : o = Chain(c, Linked(a, c), 0)
      \/ CanFail /\ o = Chain(Junk, fat, 1)
      \/ CanFail /\ \E c \in Free : o = Chain(Junk, [fat EXCEPT ![c] = EOC], 1)
  BY DEF CreateChain
<1>2. w.len \in Nat /\ \A c \in Clus : w.pl[c] \in 0 .. w.len
  BY DEF Chained, Placed
<1>3. a # None => s # None /\ a \in Clus /\ w.pl[a] # 0
  OBVIOUS
<1>4. \A c \in Free : c \in Clus /\ fat[c] = None /\ w.pl[c] = 0 /\ fat[c] # Other
  BY Taken, Marks DEF Free
<1>5. CASE a # None /\ fat[a] # EOC /\ o = Chain(fat[a], fat, 0)
  <2>1. o.r = fat[a] /\ o.fat = fat /\ o.cost = 0
    BY <1>5, ChainIs
  <2>2. w.pl[a] # w.len /\ fat[a] \in Clus /\ w.pl[fat[a]] = w.pl[a] + 1
    BY <1>3, <1>5 DEF Chained, InPlace
  <2>3. Extends(w, w)
    BY <1>2 DEF Extends
  <2> QED
    BY <1>3, <1>5, <2>1, <2>2, <2>3 DEF Grown, Harmless
<1>6. CASE o = Chain(None, fat, 0)
  <2>1. o.r = None /\ o.fat = fat /\ o.cost = 0
    BY <1>6, ChainIs
  <2> QED
    BY <2>1, Marks DEF Grown, Harmless
<1>7. CASE ~(a # None /\ fat[a] # EOC) /\ \E c \in Free : o = Chain(c, Linked(a, c), 0)
  <2>1. PICK c \in Free : o = Chain(c, Linked(a, c), 0)
    BY <1>7
  <2>2. o.r = c /\ o.fat = Linked(a, c) /\ o.cost = 0 /\ c \in Clus /\ fat[c] = None /\ w.pl[c] = 0
    BY <1>4, <2>1, ChainIs
  <2> DEFINE t == Linked(a, c)
  <2>3. \A b \in Clus : t[b] = IF b = c THEN EOC ELSE IF b = a THEN c ELSE fat[b]
    BY DEF Linked
  <2>4. t \in [Clus -> Values]
    BY <2>2 DEF Linked, Values
  <2> HIDE DEF t
  <2>5. \E v : /\ Chained(t, IF s = None THEN c ELSE s, v) /\ Extends(w, v)
               /\ v.pl[c] = IF a = None THEN 1 ELSE w.pl[a] + 1
    <3>1. IF s = None THEN a = None ELSE a \in Clus /\ w.pl[a] # 0 /\ fat[a] = EOC
      BY <1>3, <1>7, Marks
    <3> QED
      BY <2>2, <2>3, <3>1, ChainGrows
  <2>6. \A b \in Clus : t[b] = Other <=> fat[b] = Other
    <3>1. TAKE b \in Clus
    <3>2. CASE b = c
      BY <2>2, <2>3, <3>2, Marks
    <3>3. CASE b # c /\ b = a
      BY <1>3, <1>7, <2>2, <2>3, <3>3, Marks
    <3>4. CASE b # c /\ b # a
      BY <2>3, <3>4
    <3> QED
      BY <3>2, <3>3, <3>4
  <2> QED
    BY <2>2, <2>4, <2>5, <2>6 DEF Grown, Harmless, t
<1>8. CASE CanFail /\ o = Chain(Junk, fat, 1)
  <2>1. o.r = Junk /\ o.fat = fat /\ o.cost = 1
    BY <1>8, ChainIs
  <2> QED
    BY <1>8, <2>1, Marks DEF Grown, Harmless
<1>9. CASE CanFail /\ \E c \in Free : o = Chain(Junk, [fat EXCEPT ![c] = EOC], 1)
  <2>1. PICK c \in Free : o = Chain(Junk, [fat EXCEPT ![c] = EOC], 1)
    BY <1>9
  <2> DEFINE t == [fat EXCEPT ![c] = EOC]
  <2>2. o.r = Junk /\ o.fat = t /\ o.cost = 1 /\ c \in Clus /\ fat[c] = None /\ w.pl[c] = 0
    BY <1>4, <2>1, ChainIs
  <2>3. \A b \in Clus : t[b] = IF b = c THEN EOC ELSE fat[b]
    OBVIOUS
  <2>4. t \in [Clus -> Values]
    BY DEF Values
  <2> HIDE DEF t
  <2>5. Chained(t, s, w)
    BY <2>2, <2>3, ChainKept
  <2>6. \A b \in Clus : t[b] = Other <=> fat[b] = Other
    BY <2>2, <2>3, Marks
  <2> QED
    BY <1>9, <2>2, <2>4, <2>5, <2>6, Marks DEF Grown, Harmless
<1> QED
  BY <1>1, <1>5, <1>6, <1>7, <1>8, <1>9

\* get_fat on a cluster of the chain.
LEMMA FollowingIs ==
  ASSUME NEW s, NEW w, Chained(fat, s, w), NEW a \in Clus, w.pl[a] # 0, NEW o \in Following(a)
  PROVE  /\ o.fat = fat
         /\ o.r \in Clus => o.cost = 0 /\ w.pl[o.r] = w.pl[a] + 1
         /\ o.r \notin Clus => (o.r = EOC /\ o.cost = 0) \/ (o.r = Junk /\ o.cost = 1 /\ CanFail)
<1>1. o = Chain(fat[a], fat, 0) \/ (CanFail /\ o = Chain(Junk, fat, 1))
  BY DEF Following
<1>2. CASE o = Chain(fat[a], fat, 0)
  <2>1. o.r = fat[a] /\ o.fat = fat /\ o.cost = 0
    BY <1>2, ChainIs
  <2> QED
    BY <2>1, Marks DEF Chained, InPlace
<1>3. CASE CanFail /\ o = Chain(Junk, fat, 1)
  <2>1. o.r = Junk /\ o.fat = fat /\ o.cost = 1
    BY <1>3, ChainIs
  <2> QED
    BY <1>3, <2>1, Marks
<1> QED
  BY <1>1, <1>2, <1>3

\* The chain of v is that of w, or ends before, but not before the place m.
Shrunk(w, v, m) ==
  /\ m <= v.len /\ v.len <= w.len
  /\ \A c \in Clus : v.pl[c] = w.pl[c] \/ (v.pl[c] = 0 /\ w.pl[c] > m)

\* No other file gains a cluster.
Frees(t) == t \in [Clus -> Values] /\ \A c \in Clus : t[c] = Other => fat[c] = Other

\* No file.
Empty == [len |-> 0, pl |-> [c \in Clus |-> 0]]

\* The empty chain is a chain in every FAT.
LEMMA EmptyChain ==
  ASSUME NEW t
  PROVE  Chained(t, None, Empty) /\ Empty.len = 0 /\ \A c \in Clus : Empty.pl[c] = 0
<1>1. Empty.len = 0 /\ \A c \in Clus : Empty.pl[c] = 0
  BY DEF Empty
<1> QED
  BY <1>1 DEF Chained, Placed

\* What remove_chain does to the chain.
LEMMA RemoveChainIs ==
  ASSUME fat \in [Clus -> Values], NEW s, NEW w, Chained(fat, s, w),
         NEW c \in Clus, w.pl[c] # 0, NEW p, NEW o \in RemoveChain(c, p)
  PROVE  /\ Frees(o.fat)
         /\ (o.r = None /\ o.cost = 0) \/ (o.r = Junk /\ o.cost = 1 /\ CanFail)
         /\ p \in Clus /\ w.pl[p] # 0 /\ fat[p] = c => \E v : Chained(o.fat, s, v) /\ Shrunk(w, v, w.pl[p])
<1>1. \/ \E n \in Nat : o = Chain(None, Removed(c, p, n), 0)
      \/ CanFail /\ o = Chain(Junk, fat, 1)
      \/ CanFail /\ \E n \in Nat : o = Chain(Junk, Removed(c, p, n), 1)
  <2>1. ChainLength(c) \in Nat
    <3>1. IsFiniteSet({Walk(c, k) : k \in 0 .. NClust} \cap Clus)
      BY FileAssumption, FS_Intersection
    <3> QED
      BY <3>1, FS_CardinalityType DEF ChainLength
  <2>2. 0 .. ChainLength(c) - 1 \subseteq Nat
    BY <2>1
  <2> QED
    BY <2>1, <2>2 DEF RemoveChain
<1>2. w.len \in Nat /\ \A b \in Clus : w.pl[b] \in 0 .. w.len
  BY DEF Chained, Placed
<1>3. ASSUME NEW n \in Nat
      PROVE  /\ Frees(Removed(c, p, n))
             /\ p \in Clus /\ w.pl[p] # 0 /\ fat[p] = c =>
                  \E v : Chained(Removed(c, p, n), s, v) /\ Shrunk(w, v, w.pl[p])
  <2> DEFINE gone == {Walk(c, k) : k \in 0 .. n - 1}
             t == Removed(c, p, n)
  <2>1. \A b \in Clus : t[b] = IF b \in gone THEN None ELSE IF b = p THEN EOC ELSE fat[b]
    BY DEF Removed
  <2>2. t \in [Clus -> Values]
    BY DEF Removed, Values
  <2>3. \A b \in gone : b \in Clus => w.pl[b] >= w.pl[c]
    <3>1. TAKE b \in gone
    <3>2. PICK k \in 0 .. n - 1 : b = Walk(c, k)
      OBVIOUS
    <3>3. k \in Nat
      OBVIOUS
    <3>4. b = EOC \/ w.pl[b] = w.pl[c] + k
      BY <3>2, <3>3, WalkPlaces
    <3> QED
      BY <1>2, <3>3, <3>4, Marks
  <2> HIDE DEF t, gone
  <2>4. Frees(t)
    BY <2>1, <2>2, Marks DEF Frees
  <2>5. ASSUME p \in Clus, w.pl[p] # 0, fat[p] = c
        PROVE  \E v : Chained(t, s, v) /\ Shrunk(w, v, w.pl[p])
    <3> DEFINE m == w.pl[p]
               v == [len |-> m, pl |-> [b \in Clus |-> IF w.pl[b] <= m THEN w.pl[b] ELSE 0]]
    <3>1. v.len = m /\ \A b \in Clus : v.pl[b] = IF w.pl[b] <= m THEN w.pl[b] ELSE 0
      OBVIOUS
    <3> HIDE DEF v
    <3>2. m \in Nat /\ m >= 1 /\ m <= w.len
      BY <1>2, <2>5
    <3>3. w.pl[c] = m + 1
      BY <2>5, Marks DEF Chained, InPlace
    <3> HIDE DEF m
    <3>4. Placed(v) /\ Shrunk(w, v, m)
      BY <1>2, <3>1, <3>2 DEF Placed, Shrunk
    <3>5. s \in Clus /\ w.pl[s] = 1
      BY <1>2, <3>2 DEF Chained
    <3>6. s # None /\ v.pl[s] = 1
      BY <3>1, <3>2, <3>5, Marks
    <3>7. ASSUME NEW b \in Clus, v.pl[b] # 0 PROVE InPlace(t, v, b)
      <4>1. w.pl[b] <= m /\ v.pl[b] = w.pl[b] /\ w.pl[b] # 0 /\ w.pl[b] \in Nat
        BY <1>2, <3>1, <3>7
      <4>2. b \notin gone
        BY <2>3, <3>2, <3>3, <4>1
      <4>3. CASE b = p
        BY <2>1, <3>1, <4>1, <4>2, <4>3 DEF InPlace, m
      <4>4. CASE b # p
        <5>1. w.pl[b] # m
          BY <2>5, <4>1, <4>4 DEF Chained, m
        <5>2. t[b] = fat[b] /\ w.pl[b] # w.len
          BY <2>1, <3>2, <4>1, <4>2, <4>4, <5>1
        <5>3. fat[b] \in Clus /\ w.pl[fat[b]] = w.pl[b] + 1
          BY <4>1, <5>2 DEF Chained, InPlace
        <5>4. w.pl[fat[b]] <= m
          BY <3>2, <4>1, <5>1, <5>3
        <5> QED
          BY <3>1, <4>1, <5>1, <5>2, <5>3, <5>4 DEF InPlace
      <4> QED
        BY <4>3, <4>4
    <3>8. ASSUME NEW b \in Clus, NEW d \in Clus, v.pl[b] # 0, v.pl[b] = v.pl[d] PROVE b = d
      <4>1. w.pl[b] = v.pl[b] /\ w.pl[d] = v.pl[d]
        BY <3>1, <3>8
      <4> QED
        BY <3>8, <4>1 DEF Chained
    <3>9. Chained(t, s, v)
      BY <3>4, <3>5, <3>6, <3>7, <3>8 DEF Chained
    <3> QED
      BY <3>4, <3>9 DEF m
  <2> QED
    BY <2>4, <2>5 DEF t
<1>4. Frees(fat) /\ (p \in Clus => Shrunk(w, w, w.pl[p]))
  BY <1>2 DEF Frees, Shrunk
<1>5. CASE \E n \in Nat : o = Chain(None, Removed(c, p, n), 0)
  <2>1. PICK n \in Nat : o = Chain(None, Removed(c, p, n), 0)
    BY <1>5
  <2>2. o.r = None /\ o.fat = Removed(c, p, n) /\ o.cost = 0
    BY <2>1, ChainIs
  <2> QED
    BY <1>3, <2>2
<1>6. CASE CanFail /\ o = Chain(Junk, fat, 1)
  <2>1. o.r = Junk /\ o.fat = fat /\ o.cost = 1
    BY <1>6, ChainIs
  <2> QED
    BY <1>4, <1>6, <2>1
<1>7. CASE CanFail /\ \E n \in Nat : o = Chain(Junk, Removed(c, p, n), 1)
  <2>1. PICK n \in Nat : o = Chain(Junk, Removed(c, p, n), 1)
    BY <1>7
  <2>2. o.r = Junk /\ o.fat = Removed(c, p, n) /\ o.cost = 1
    BY <2>1, ChainIs
  <2> QED
    BY <1>3, <1>7, <2>2
<1> QED
  BY <1>1, <1>5, <1>6, <1>7

-----------------------------------------------------------------------------
(* The sector cache: write-back.                                           *)

Area == [Sectors -> [In -> Bytes]]

\* The parts of an object apart from its cache.
SameFile(x, y) ==
  /\ y.open = x.open /\ y.write = x.write /\ y.fptr = x.fptr /\ y.size = x.size /\ y.sclust = x.sclust
  /\ y.clust = x.clust /\ y.mod = x.mod /\ y.err = x.err

\* The types of the fields of an object.
LEMMA ObjectFields ==
  ASSUME NEW x \in Object
  PROVE  /\ x.open \in BOOLEAN /\ x.write \in BOOLEAN /\ x.fptr \in Nat /\ x.size \in Nat
         /\ x.sclust \in Clus \cup {None} /\ x.clust \in Clus \cup {None} /\ x.sect \in Sectors \cup {NoSector}
         /\ x.buf \in [In -> Bytes] /\ x.dirty \in BOOLEAN /\ x.mod \in BOOLEAN /\ x.err \in BOOLEAN
BY DEF Object

\* What a write-back of x can come to.
WrittenBack(x, o) ==
  /\ o.x \in Object /\ SameFile(x, o.x) /\ o.x.sect = x.sect /\ o.x.buf = x.buf /\ o.d \in Area
  /\ o.ok => o.cost = 0 /\ ~o.x.dirty
  /\ ~o.ok => o.cost = 1 /\ CanFail /\ o.x = x /\ x.dirty
  /\ \/ o.d = data /\ (x.dirty => ~o.ok)
     \/ x.dirty /\ o.d[x.sect] = x.buf /\ \A s \in Sectors : s # x.sect => o.d[s] = data[s]

\* A write-back changes the cached sector only, and the flag of the cache only.
LEMMA WriteBackIs ==
  ASSUME NEW x \in Object, data \in Area, x.dirty => x.sect \in Sectors, NEW o \in WriteBack(x)
  PROVE  WrittenBack(x, o) /\ o.ok \in BOOLEAN
<1>0. x.dirty \in BOOLEAN /\ x.buf \in [In -> Bytes] /\ x.sect \in Sectors \cup {NoSector}
  BY ObjectFields
<1>1. CASE ~x.dirty
  <2>1. o = Done(x, data)
    BY <1>1 DEF WriteBack
  <2>2. o.ok /\ o.x = x /\ o.d = data /\ o.cost = 0 /\ o.ok \in BOOLEAN
    BY <2>1 DEF Done
  <2>3. SameFile(x, x)
    BY DEF SameFile
  <2> QED
    BY <1>1, <2>2, <2>3 DEF WrittenBack
<1>2. CASE x.dirty
  <2> DEFINE written == [data EXCEPT ![x.sect] = x.buf]
             y == [x EXCEPT !.dirty = FALSE]
  <2>1. \/ o = Done(y, written)
        \/ CanFail /\ o = Broken(x, data)
        \/ CanFail /\ o = Broken(x, written)
    BY <1>2 DEF WriteBack
  <2>2. written \in Area /\ written[x.sect] = x.buf /\ \A s \in Sectors : s # x.sect => written[s] = data[s]
    BY <1>0, <1>2 DEF Area
  <2>3. y \in Object /\ SameFile(x, y) /\ y.sect = x.sect /\ y.buf = x.buf /\ ~y.dirty
    BY DEF Object, SameFile
  <2>4. SameFile(x, x)
    BY DEF SameFile
  <2> HIDE DEF written, y
  <2>5. CASE o = Done(y, written)
    <3>1. o.ok /\ o.x = y /\ o.d = written /\ o.cost = 0 /\ o.ok \in BOOLEAN
      BY <2>5 DEF Done
    <3> QED
      BY <1>2, <2>2, <2>3, <3>1 DEF WrittenBack
  <2>6. CASE CanFail /\ o = Broken(x, data)
    <3>1. ~o.ok /\ o.x = x /\ o.d = data /\ o.cost = 1 /\ o.ok \in BOOLEAN
      BY <2>6 DEF Broken
    <3> QED
      BY <1>2, <2>4, <2>6, <3>1 DEF WrittenBack
  <2>7. CASE CanFail /\ o = Broken(x, written)
    <3>1. ~o.ok /\ o.x = x /\ o.d = written /\ o.cost = 1 /\ o.ok \in BOOLEAN
      BY <2>7 DEF Broken
    <3> QED
      BY <1>2, <2>2, <2>4, <2>7, <3>1 DEF WrittenBack
  <2> QED
    BY <2>1, <2>5, <2>6, <2>7
<1> QED
  BY <1>0, <1>1, <1>2

OthersOk(t, d) == halfCut \/ \A s \in Sectors : t[s[1]] = Other => \A b \in In : d[s][b] = Foreign

\* In the middle of a call: the chain of v in t is that of the object x, with the
\* sectors d; nothing else of the file has changed.
Frame(v, x, t, d) ==
  /\ x \in Object /\ x.open /\ x.size = fil.size /\ x.mod = fil.mod /\ x.err = fil.err /\ x.write = fil.write
  /\ x.sclust = fil.sclust \/ fil.sclust = None
  /\ Chained(t, x.sclust, v) /\ fil.size <= v.len * Bcs /\ Harmless(t)
  /\ d \in Area /\ Keeps(v, x, d, safe) /\ Dirt(v, x) /\ OthersOk(t, d)

\* A write-back puts on the card what the cache holds.
LEMMA WriteBackReads ==
  ASSUME NEW x \in Object, NEW o, WrittenBack(x, o), NEW w, NEW ct, Reads(w, x, data, ct)
  PROVE  Reads(w, o.x, o.d, ct)
<1> SUFFICES ASSUME NEW i \in Offs, NEW s \in Sectors, ct[i] # Undef, At(w, s, i)
             PROVE  IF s = x.sect THEN x.buf[i % SS] = ct[i] /\ (~o.x.dirty => o.d[s][i % SS] = ct[i])
                    ELSE o.d[s][i % SS] = ct[i]
  BY DEF Reads, WrittenBack
<1>1. IF s = x.sect THEN x.buf[i % SS] = ct[i] /\ (~x.dirty => data[s][i % SS] = ct[i])
      ELSE data[s][i % SS] = ct[i]
  BY DEF Reads
<1> QED
  BY <1>1 DEF WrittenBack

\* A write-back leaves durable bytes on the card.
LEMMA WriteBackKeeps ==
  ASSUME NEW x \in Object, NEW o, WrittenBack(x, o), NEW w, NEW sf, Keeps(w, x, data, sf)
  PROVE  Keeps(w, o.x, o.d, sf)
<1> SUFFICES ASSUME NEW i \in Offs, NEW s \in Sectors, sf[i] # Undef, At(w, s, i)
             PROVE  o.d[s][i % SS] = sf[i] /\ (o.x.dirty /\ s = x.sect => x.buf[i % SS] = sf[i])
  BY DEF Keeps, WrittenBack
<1>1. data[s][i % SS] = sf[i] /\ (x.dirty /\ s = x.sect => x.buf[i % SS] = sf[i])
  BY DEF Keeps
<1> QED
  BY <1>1 DEF WrittenBack

\* A write-back of a cluster of the file does not touch other files.
LEMMA WriteBackOthers ==
  ASSUME NEW x \in Object, NEW o, WrittenBack(x, o), NEW w, NEW t, NEW s,
         x.dirty => x.sect \in Sectors /\ (halfCut \/ t[x.sect[1]] # Other), OthersOk(t, data)
  PROVE  OthersOk(t, o.d)
BY DEF OthersOk, WrittenBack

\* A write-back in the middle of a call.
LEMMA WriteBackFrame ==
  ASSUME NEW v, NEW x, NEW t, Frame(v, x, t, data), NEW o \in WriteBack(x)
  PROVE  Frame(v, o.x, t, o.d) /\ WrittenBack(x, o) /\ o.ok \in BOOLEAN
<1>1. x \in Object /\ data \in Area /\ (x.dirty => x.sect \in Sectors)
  BY DEF Frame, Dirt
<1>2. WrittenBack(x, o) /\ o.ok \in BOOLEAN
  BY <1>1, WriteBackIs
<1>3. Keeps(v, o.x, o.d, safe)
  BY <1>1, <1>2, WriteBackKeeps DEF Frame
<1>4. x.dirty => x.sect \in Sectors /\ (halfCut \/ t[x.sect[1]] # Other)
  <2>1. SUFFICES ASSUME x.dirty, ~halfCut PROVE t[x.sect[1]] # Other
    BY <1>1
  <2>2. v.pl[x.sect[1]] # 0 /\ x.sect[1] \in Clus /\ Chained(t, x.sclust, v)
    BY <1>1, <2>1 DEF Frame, Dirt, Sectors
  <2> QED
    BY <2>2, Taken
<1>5. OthersOk(t, o.d)
  BY <1>1, <1>2, <1>4, WriteBackOthers DEF Frame
<1>6. Dirt(v, o.x)
  BY <1>2 DEF Frame, Dirt, WrittenBack
<1> QED
  BY <1>2, <1>3, <1>5, <1>6 DEF Frame, WrittenBack, SameFile

-----------------------------------------------------------------------------
(* The sector cache: loads.                                                *)

\* An object with another buffer.
LEMMA Rebuffered ==
  ASSUME NEW x \in Object, NEW b \in [In -> Bytes], NEW y, y = [x EXCEPT !.buf = b]
  PROVE  y \in Object /\ SameFile(x, y) /\ y.sect = x.sect /\ y.buf = b /\ y.dirty = x.dirty
<1>1. y \in Object
  BY DEF Object
<1>2. SameFile(x, y) /\ y.sect = x.sect /\ y.buf = b /\ y.dirty = x.dirty
  BY DEF Object, SameFile
<1> QED
  BY <1>1, <1>2

\* An object with another sector in its cache.
LEMMA Renamed ==
  ASSUME NEW x \in Object, NEW s \in Sectors \cup {NoSector}, NEW y, y = [x EXCEPT !.sect = s]
  PROVE  y \in Object /\ SameFile(x, y) /\ y.sect = s /\ y.buf = x.buf /\ y.dirty = x.dirty
<1>1. y \in Object
  BY DEF Object
<1>2. SameFile(x, y) /\ y.sect = s /\ y.buf = x.buf /\ y.dirty = x.dirty
  BY DEF Object, SameFile
<1> QED
  BY <1>1, <1>2

\* Having the same fields but the cache passes on.
LEMMA SameFiles ==
  ASSUME NEW x, NEW y, NEW z, SameFile(x, y), SameFile(y, z)
  PROVE  SameFile(x, z) /\ SameFile(x, x)
BY DEF SameFile

\* A clean cache of the sectors d.
LEMMA CleanFrame ==
  ASSUME NEW v, NEW x, NEW t, NEW d, Frame(v, x, t, d), NEW y \in Object, SameFile(x, y), ~y.dirty
  PROVE  Frame(v, y, t, d)
<1>1. Keeps(v, y, d, safe)
  BY DEF Frame, Keeps
<1>2. Dirt(v, y)
  BY DEF Dirt
<1> QED
  BY <1>1, <1>2 DEF Frame, SameFile

\* Junk is a content of a sector.
LEMMA JunkBuffer == [b \in In |-> Junk] \in [In -> Bytes]
BY DEF Bytes

\* The cache moves to the sector s.
Filled(v, x, t, s, o) ==
  /\ o.x \in Object /\ SameFile(x, o.x) /\ Frame(v, o.x, t, o.d) /\ o.ok \in BOOLEAN
  /\ ~x.dirty => ~o.x.dirty
  /\ o.ok => o.cost = 0 /\ o.x.sect = s /\ (Reads(v, x, data, content) => Reads(v, o.x, o.d, content))
  /\ ~o.ok => o.cost = 1 /\ CanFail

\* The read that follows the write-back of the cache.
LEMMA LoadIs ==
  ASSUME NEW v, NEW x, NEW t, Frame(v, x, t, data), NEW s \in Sectors,
         NEW q, WrittenBack(x, q), Frame(v, q.x, t, q.d), q.ok, NEW o,
         \/ o = Done([q.x EXCEPT !.sect = s, !.buf = q.d[s]], q.d)
         \/ (CanFail /\ o = Broken([q.x EXCEPT !.buf = [b \in In |-> Junk]], q.d))
  PROVE  Filled(v, x, t, s, o)
<1>1. q.x \in Object /\ SameFile(x, q.x) /\ ~q.x.dirty /\ q.d \in Area /\ q.d[s] \in [In -> Bytes]
  BY DEF WrittenBack, Area
<1>2. CASE o = Done([q.x EXCEPT !.sect = s, !.buf = q.d[s]], q.d)
  <2>0. PICK y : y = [q.x EXCEPT !.sect = s, !.buf = q.d[s]]
    OBVIOUS
  <2>1. y \in Object /\ SameFile(q.x, y) /\ y.sect = s /\ y.buf = q.d[s] /\ ~y.dirty
    <3>1. s \in Sectors \cup {NoSector} /\ q.x \in Object /\ q.d[s] \in [In -> Bytes]
      BY <1>1
    <3>a. PICK b : b = q.d[s]
      OBVIOUS
    <3>b. PICK z : z = q.x
      OBVIOUS
    <3>c. y = [z EXCEPT !.sect = s, !.buf = b]
      BY <2>0, <3>a, <3>b
    <3>d. z \in Object /\ b \in [In -> Bytes]
      BY <3>1, <3>a, <3>b
    <3>e. y \in Object
      BY <3>1, <3>c, <3>d DEF Object
    <3>2. SameFile(z, y) /\ y.sect = s /\ y.buf = b /\ y.dirty = z.dirty
      BY <3>1, <3>c, <3>d DEF Object, SameFile
    <3> QED
      BY <1>1, <3>2, <3>e, <3>a, <3>b
  <2>2. o.ok /\ o.x = y /\ o.d = q.d /\ o.cost = 0
    BY <1>2, <2>0 DEF Done
  <2>3. Frame(v, y, t, q.d) /\ SameFile(x, y)
    BY <1>1, <2>1, CleanFrame, SameFiles
  <2>4. ASSUME Reads(v, x, data, content) PROVE Reads(v, y, q.d, content)
    <3>1. Reads(v, q.x, q.d, content)
      BY <2>4, WriteBackReads DEF Frame
    <3>2. \A i \in Offs, z \in Sectors : content[i] # Undef /\ At(v, z, i) => q.d[z][i % SS] = content[i]
      BY <1>1, <3>1 DEF Reads
    <3> QED
      BY <2>1, <3>2 DEF Reads
  <2> QED
    BY <2>1, <2>2, <2>3, <2>4 DEF Filled
<1>3. CASE CanFail /\ o = Broken([q.x EXCEPT !.buf = [b \in In |-> Junk]], q.d)
  <2>0. PICK y : y = [q.x EXCEPT !.buf = [b \in In |-> Junk]]
    OBVIOUS
  <2>1. y \in Object /\ SameFile(q.x, y) /\ ~y.dirty
    BY <1>1, <2>0, JunkBuffer, Rebuffered
  <2>2. ~o.ok /\ o.x = y /\ o.d = q.d /\ o.cost = 1 /\ o.ok \in BOOLEAN
    BY <1>3, <2>0 DEF Broken
  <2>3. Frame(v, y, t, q.d) /\ SameFile(x, y)
    BY <1>1, <2>1, CleanFrame, SameFiles
  <2> QED
    BY <1>3, <2>1, <2>2, <2>3 DEF Filled
<1> QED
  BY <1>2, <1>3

\* The cache is filled with a sector, in the middle of a call.
LEMMA FillIs ==
  ASSUME NEW v, NEW x, NEW t, Frame(v, x, t, data), NEW s, s = x.sect \/ s \in Sectors, NEW o \in Fill(x, s)
  PROVE  Filled(v, x, t, s, o)
<1>1. CASE x.sect = s
  <2>1. o = Done(x, data)
    BY <1>1 DEF Fill
  <2>2. o.ok /\ o.x = x /\ o.d = data /\ o.cost = 0 /\ o.ok \in BOOLEAN
    BY <2>1 DEF Done
  <2>3. x \in Object /\ SameFile(x, x)
    BY DEF Frame, SameFile
  <2> QED
    BY <1>1, <2>2, <2>3 DEF Filled
<1>2. CASE x.sect # s
  <2>1. s \in Sectors
    BY <1>2
  <2>2. PICK q \in WriteBack(x) :
          \/ ~q.ok /\ o = q
          \/ q.ok /\ o = Done([q.x EXCEPT !.sect = s, !.buf = q.d[s]], q.d)
          \/ q.ok /\ CanFail /\ o = Broken([q.x EXCEPT !.buf = [b \in In |-> Junk]], q.d)
    BY <1>2 DEF Fill
  <2>3. Frame(v, q.x, t, q.d) /\ WrittenBack(x, q) /\ q.ok \in BOOLEAN
    BY WriteBackFrame
  <2>4. CASE ~q.ok /\ o = q
    BY <2>3, <2>4 DEF Filled, WrittenBack
  <2>5. CASE q.ok /\ o = Done([q.x EXCEPT !.sect = s, !.buf = q.d[s]], q.d)
    BY <2>1, <2>3, <2>5, LoadIs
  <2>6. CASE q.ok /\ CanFail /\ o = Broken([q.x EXCEPT !.buf = [b \in In |-> Junk]], q.d)
    BY <2>1, <2>3, <2>6, LoadIs
  <2> QED
    BY <2>2, <2>4, <2>5, <2>6
<1> QED
  BY <1>1, <1>2

\* f_write moves the cache, without a load at the end of the file.
LEMMA WriteSectorIs ==
  ASSUME NEW v, NEW x, NEW t, Frame(v, x, t, data), NEW s \in Sectors,
         x.fptr >= x.size => \A i \in Offs : content[i] # Undef => ~At(v, s, i),
         NEW o \in WriteSector(x, s)
  PROVE  Filled(v, x, t, s, o)
<1>1. PICK q \in WriteBack(x) :
        \/ ~q.ok /\ o = q
        \/ q.ok /\ x.fptr >= x.size /\ o = Done([q.x EXCEPT !.sect = s], q.d)
        \/ q.ok /\ x.sect = s /\ o = q
        \/ q.ok /\ o = Done([q.x EXCEPT !.sect = s, !.buf = q.d[s]], q.d)
        \/ q.ok /\ CanFail /\ o = Broken([q.x EXCEPT !.buf = [b \in In |-> Junk]], q.d)
  BY DEF WriteSector
<1>2. Frame(v, q.x, t, q.d) /\ WrittenBack(x, q) /\ q.ok \in BOOLEAN
  BY WriteBackFrame
<1>3. CASE ~q.ok /\ o = q
  BY <1>2, <1>3 DEF Filled, WrittenBack
<1>4. CASE q.ok /\ x.fptr >= x.size /\ o = Done([q.x EXCEPT !.sect = s], q.d)
  <2>9. PICK y : y = [q.x EXCEPT !.sect = s]
    OBVIOUS
  <2>0. q.x \in Object /\ SameFile(x, q.x) /\ ~q.x.dirty
    BY <1>2, <1>4 DEF WrittenBack
  <2>1. y \in Object /\ SameFile(q.x, y) /\ y.sect = s /\ ~y.dirty
    BY <2>0, <2>9, Renamed
  <2>2. o.ok /\ o.x = y /\ o.d = q.d /\ o.cost = 0
    BY <1>4, <2>9 DEF Done
  <2>3. Frame(v, y, t, q.d) /\ SameFile(x, y)
    BY <1>2, <2>0, <2>1, CleanFrame, SameFiles
  <2>4. ASSUME Reads(v, x, data, content) PROVE Reads(v, y, q.d, content)
    <3>1. Reads(v, q.x, q.d, content)
      BY <1>2, <2>4, WriteBackReads DEF Frame
    <3>2. \A i \in Offs, z \in Sectors : content[i] # Undef /\ At(v, z, i) => q.d[z][i % SS] = content[i] /\ z # s
      BY <1>4, <2>0, <3>1 DEF Reads
    <3> QED
      BY <2>1, <3>2 DEF Reads
  <2> QED
    BY <2>1, <2>2, <2>3, <2>4 DEF Filled
<1>5. CASE q.ok /\ x.sect = s /\ o = q
  <2>1. ASSUME Reads(v, x, data, content) PROVE Reads(v, q.x, q.d, content)
    BY <1>2, <2>1, WriteBackReads DEF Frame
  <2> QED
    BY <1>2, <1>5, <2>1 DEF Filled, WrittenBack
<1>6. CASE q.ok /\ o = Done([q.x EXCEPT !.sect = s, !.buf = q.d[s]], q.d)
  BY <1>2, <1>6, LoadIs
<1>7. CASE q.ok /\ CanFail /\ o = Broken([q.x EXCEPT !.buf = [b \in In |-> Junk]], q.d)
  BY <1>2, <1>7, LoadIs
<1> QED
  BY <1>1, <1>3, <1>4, <1>5, <1>6, <1>7

-----------------------------------------------------------------------------
(* The middle and the end of a call.                                       *)

\* The part of the invariant that a call which ends in an error keeps too.
Kept(v) ==
  /\ Types /\ Chained(fat, Start, v) /\ Size <= v.len * Bcs
  /\ SafeOk /\ Keeps(v, fil, data, safe) /\ Dirt(v, fil) /\ OthersUntouched
EntryKept ==
  fil.open /\ ~fil.mod => ent.size <= fil.size /\ (ent.start = fil.sclust \/ (ent.start = None /\ ent.size = 0))

\* A step inside a call that leaves the object y, whose cache is that of x or clean.
Within(v, x, y) ==
  /\ Frame(v, x, fat', data') /\ fil' = y /\ y \in Object /\ y.open /\ y.sclust = x.sclust
  /\ y.size >= fil.size /\ y.size <= v.len * Bcs
  /\ y.dirty => x.dirty /\ y.sect = x.sect /\ y.buf = x.buf
  /\ ~y.mod => ~fil.mod
  /\ content' \in [Offs -> Bytes \cup {Undef}] /\ \A i \in Offs : safe[i] # Undef => content'[i] = safe[i]
  /\ call' \in [op : {"none", "read", "forward", "write", "seek"}, n : Nat]
  /\ faults' \in 0 .. MaxFaults /\ UNCHANGED <<ent, writes, safe, halfCut>>

\* A file without a cluster has no bytes.
LEMMA EmptyFile ==
  ASSUME NEW w, Inv(w), Start = None
  PROVE  Size = 0 /\ \A i \in Offs : safe[i] = Undef
<1>1. w.len = 0 /\ Size <= w.len * Bcs /\ Size \in Nat
  BY Marks DEF Inv, Chained, Size, Types, Object, MaxBytes
<1>2. 0 * Bcs = 0
  BY Sizes
<1>3. Size = 0
  BY <1>1, <1>2
<1> QED
  BY <1>3 DEF Inv, SafeOk, Offs

\* The parts of the invariant that hold whatever the cache delivers.
LEMMA WithinKept ==
  ASSUME NEW w, Inv(w), fil.open, NEW v, NEW x, NEW y, Within(v, x, y)
  PROVE  Kept(v)' /\ EntryKept'
<1>1. Types'
  BY DEF Inv, Types, Within, Frame, Harmless, Values, Area
<1>2. Start = fil.sclust /\ Size = fil.size /\ Start' = x.sclust /\ Size' = y.size
  BY DEF Start, Size, Within
<1>3. Chained(fat', Start', v) /\ Size' <= v.len * Bcs
  BY <1>2 DEF Within, Frame
<1>4. x.sclust = fil.sclust \/ (fil.sclust = None /\ fil.size = 0 /\ \A i \in Offs : safe[i] = Undef)
  BY <1>2, EmptyFile DEF Within, Frame
<1>5. SafeOk'
  <2> SUFFICES ASSUME NEW i \in Offs, safe[i] # Undef
               PROVE  content'[i] = safe[i] /\ i < y.size /\ i < ent.size /\ ent.start = x.sclust
    BY <1>2 DEF SafeOk, Within
  <2>1. content[i] = safe[i] /\ i < fil.size /\ i < ent.size /\ ent.start = fil.sclust
    BY <1>2 DEF Inv, SafeOk
  <2>2. i \in Nat /\ fil.size \in Nat /\ y.size \in Nat /\ y.size >= fil.size
    BY DEF Offs, Inv, Types, Object, Within
  <2> QED
    BY <1>4, <2>1, <2>2 DEF Within
<1>6. Keeps(v, fil, data, safe)'
  BY DEF Within, Frame, Keeps
<1>7. Dirt(v, fil)'
  BY DEF Within, Frame, Dirt
<1>8. OthersUntouched'
  BY DEF Within, Frame, OthersOk, OthersUntouched
<1>9. EntryKept'
  <2>1. SUFFICES ASSUME ~y.mod
                 PROVE  ent.size <= y.size /\ (ent.start = x.sclust \/ (ent.start = None /\ ent.size = 0))
    BY DEF EntryKept, Within
  <2>2. ent.size <= fil.size /\ (ent.start = fil.sclust \/ (ent.start = None /\ ent.size = 0))
    BY <2>1 DEF Within, Inv, EntryOk
  <2>3. ent.size \in Nat /\ fil.size \in Nat /\ y.size \in Nat /\ y.size >= fil.size
    BY DEF Inv, Types, Object, Within
  <2> QED
    BY <1>4, <2>2, <2>3
<1> QED
  BY <1>1, <1>3, <1>5, <1>6, <1>7, <1>8, <1>9 DEF Kept

\* A call that ends in an error.
LEMMA ErrorFields ==
  ASSUME NEW x \in Object, NEW y, y = InError(x)
  PROVE  /\ y \in Object /\ y.open = x.open /\ y.size = x.size /\ y.sclust = x.sclust /\ y.mod = x.mod /\ y.err /\ y.fptr = 0
         /\ y.dirty = x.dirty /\ (x.dirty => y.sect = x.sect /\ y.buf = x.buf)
<1> DEFINE z == IF x.dirty THEN x ELSE [x EXCEPT !.sect = NoSector, !.buf = Closed.buf]
<1>1. Closed.buf \in [In -> Bytes]
  BY FileAssumption DEF Closed, Bytes
<1>2. PICK b \in [In -> Bytes] : b = Closed.buf
  BY <1>1
<1>3. z \in Object /\ z.open = x.open /\ z.size = x.size /\ z.sclust = x.sclust /\ z.mod = x.mod
      /\ z.dirty = x.dirty /\ (x.dirty => z.sect = x.sect /\ z.buf = x.buf)
  BY <1>2 DEF Object
<1>4. y = [z EXCEPT !.err = TRUE, !.fptr = 0, !.clust = None]
  BY DEF InError
<1> HIDE DEF z
<1>5. y \in Object
  <2>1. z \in Object /\ y = [[[z EXCEPT !.err = TRUE] EXCEPT !.fptr = 0] EXCEPT !.clust = None]
    BY <1>3, <1>4
  <2>2. PICK z1 \in Object : z1 = [z EXCEPT !.err = TRUE]
    BY <2>1 DEF Object
  <2>3. PICK z2 \in Object : z2 = [z1 EXCEPT !.fptr = 0]
    BY <2>2 DEF Object
  <2>4. [z2 EXCEPT !.clust = None] \in Object
    BY <2>3 DEF Object
  <2> QED
    BY <2>1, <2>2, <2>3, <2>4
<1>6. y.open = z.open /\ y.size = z.size /\ y.sclust = z.sclust /\ y.mod = z.mod /\ y.err
      /\ y.fptr = 0 /\ y.dirty = z.dirty /\ y.sect = z.sect /\ y.buf = z.buf
  BY <1>3, <1>4 DEF Object
<1> QED
  BY <1>3, <1>5, <1>6

\* A call that ends with ABORT.
LEMMA AbortStep ==
  ASSUME NEW w, Inv(w), fil.open, NEW v, NEW x, Frame(v, x, fat', data'), Abort(x),
         faults' \in 0 .. MaxFaults, got' = Nothing \/ got' = got,
         UNCHANGED <<ent, writes, content, safe, halfCut>>
  PROVE  Inv(v)'
<1>1. PICK y : y = InError(x)
  OBVIOUS
<1>2. fil' = y /\ call' = Idle
  BY <1>1 DEF Abort
<1>3. y \in Object /\ y.open = x.open /\ y.size = x.size /\ y.sclust = x.sclust /\ y.mod = x.mod /\ y.err
      /\ y.fptr = 0 /\ y.dirty = x.dirty /\ (x.dirty => y.sect = x.sect /\ y.buf = x.buf)
  BY <1>1, ErrorFields DEF Frame
<1>4. Within(v, x, y)
  <2>1. content \in [Offs -> Bytes \cup {Undef}] /\ \A i \in Offs : safe[i] # Undef => content[i] = safe[i]
    BY DEF Inv, Types, SafeOk
  <2>2. fil.size \in Nat
    BY DEF Inv, Types, Object
  <2> QED
    BY <1>2, <1>3, <2>1, <2>2 DEF Within, Frame, Idle
<1>5. Kept(v)' /\ EntryKept'
  BY <1>4, WithinKept
<1>6. EntryOk'
  BY <1>2, <1>3, <1>5 DEF EntryKept, EntryOk
<1>7. CallOk(v)'
  BY <1>2, <1>3 DEF CallOk, Idle
<1>8. DeliversWritten'
  <2>1. CASE got' = got
    BY <2>1 DEF Inv, DeliversWritten
  <2>2. CASE got' = Nothing
    BY <2>2 DEF Nothing, DeliversWritten
  <2> QED
    BY <2>1, <2>2
<1>9. fil'.err
  BY <1>2, <1>3
<1> QED
  BY <1>5, <1>6, <1>7, <1>8, <1>9 DEF Kept, Inv

\* A round that ends well.
LEMMA RoundStep ==
  ASSUME NEW w, Inv(w), fil.open, NEW v, NEW x, NEW y, Within(v, x, y), y.sect = x.sect, y.buf = x.buf, y.dirty = x.dirty,
         Reads(v, x, data', content'), \A i \in Offs : content'[i] # Undef => i < y.size,
         call'.op # "write" => y.mod \/ (~y.dirty /\ ent.size = y.size),
         CallOk(v)', DeliversWritten'
  PROVE  Inv(v)'
<1>1. Kept(v)' /\ EntryKept'
  BY WithinKept
<1>2. fil' = y /\ y.open /\ ent' = ent
  BY DEF Within
<1>3. EntryOk'
  BY <1>1, <1>2 DEF EntryKept, EntryOk
<1>4. Reads(v, fil, data, content)'
  BY <1>2 DEF Reads
<1>5. \A i \in Offs : content'[i] # Undef => i < Size'
  BY <1>2 DEF Size
<1> QED
  BY <1>1, <1>3, <1>4, <1>5 DEF Kept, Inv

-----------------------------------------------------------------------------
(* The cluster in hand.                                                    *)

SameCache(x, y) == y.sect = x.sect /\ y.buf = x.buf /\ y.dirty = x.dirty

\* The chain of w may have become longer, the cluster in hand another.
LEMMA ExtendedFrame ==
  ASSUME NEW w, Inv(w), fil.open, NEW v, NEW t, Harmless(t), NEW y \in Object, SameCache(fil, y),
         y.open, y.size = fil.size, y.mod = fil.mod, y.err = fil.err, y.write = fil.write,
         y.sclust = fil.sclust \/ fil.sclust = None, Chained(t, y.sclust, v), Extends(w, v)
  PROVE  Frame(v, y, t, data) /\ (fil.err \/ Reads(v, y, data, content))
<1>1. Start = fil.sclust /\ Size = fil.size /\ fil.size \in Nat /\ fil.size <= w.len * Bcs
  BY DEF Start, Size, Inv, Types, Object
<1>2. Placed(w) /\ Placed(v) /\ w.len \in Nat /\ v.len \in Nat /\ w.len <= v.len
  BY DEF Inv, Chained, Placed, Extends
<1>3. w.len * Bcs \in Nat /\ v.len * Bcs \in Nat /\ w.len * Bcs <= v.len * Bcs
  <2>1. \A a \in Nat : a * Bcs = Bcs * a
    BY Sizes
  <2>2. Bcs * w.len <= Bcs * v.len /\ Bcs * w.len \in Nat /\ Bcs * v.len \in Nat
    BY <1>2, Sizes, Times
  <2>3. w.len * Bcs = Bcs * w.len /\ v.len * Bcs = Bcs * v.len
    BY <1>2, <2>1
  <2> QED
    BY <2>2, <2>3
<1>4. fil.size <= v.len * Bcs
  BY <1>1, <1>3
<1>5. \A i \in Offs, s \in Sectors : i < fil.size => (At(v, s, i) <=> At(w, s, i))
  <2>1. SUFFICES ASSUME NEW i \in Offs, NEW s \in Sectors, i < fil.size PROVE At(v, s, i) <=> At(w, s, i)
    OBVIOUS
  <2>2. i \in Nat /\ i < w.len * Bcs
    BY <1>1, <1>3, <2>1 DEF Offs
  <2> QED
    BY <1>2, <2>2, StaysAt
<1>6. Keeps(v, y, data, safe)
  <2>1. \A i \in Offs : safe[i] # Undef => i < fil.size
    BY <1>1 DEF Inv, SafeOk
  <2>2. Keeps(w, fil, data, safe)
    BY DEF Inv
  <2> QED
    BY <1>5, <2>1, <2>2 DEF Keeps, SameCache
<1>7. Dirt(v, y)
  <2>1. Dirt(w, fil)
    BY DEF Inv
  <2>2. \A c \in Clus : w.pl[c] # 0 => v.pl[c] # 0
    BY DEF Extends
  <2> QED
    BY <2>1, <2>2 DEF Dirt, SameCache, Sectors
<1>8. OthersOk(t, data)
  BY DEF OthersOk, Inv, OthersUntouched, Harmless, Sectors
<1>9. fil.err \/ Reads(v, y, data, content)
  <2>1. SUFFICES ASSUME ~fil.err PROVE Reads(v, y, data, content)
    OBVIOUS
  <2>2. \A i \in Offs : content[i] # Undef => i < fil.size
    BY <1>1, <2>1 DEF Inv
  <2>3. Reads(w, fil, data, content)
    BY <2>1 DEF Inv
  <2> QED
    BY <1>5, <2>2, <2>3 DEF Reads, SameCache
<1>10. data \in Area
  BY DEF Inv, Types, Area
<1> QED
  BY <1>4, <1>6, <1>7, <1>8, <1>9, <1>10 DEF Frame

\* What the invariant says of a file that is left alone.
LEMMA Unmoved ==
  ASSUME NEW w, Inv(w)
  PROVE  /\ fat \in [Clus -> Values] /\ data \in Area /\ Harmless(fat) /\ Extends(w, w) /\ Placed(w)
         /\ fil \in Object /\ SameCache(fil, fil)
         /\ fil.open => /\ Start = fil.sclust /\ Size = fil.size /\ Chained(fat, fil.sclust, w)
                        /\ Frame(w, fil, fat, data) /\ (fil.err \/ Reads(w, fil, data, content))
<1>1. fat \in [Clus -> Values] /\ data \in Area /\ Harmless(fat) /\ fil \in Object
  BY DEF Inv, Types, Values, Area, Harmless
<1>2. Placed(w) /\ Extends(w, w) /\ SameCache(fil, fil)
  BY DEF Inv, Chained, Placed, Extends, SameCache
<1>3. fil.open => Start = fil.sclust /\ Size = fil.size /\ Chained(fat, fil.sclust, w)
  BY DEF Start, Size, Inv
<1>4. fil.open => Frame(w, fil, fat, data) /\ (fil.err \/ Reads(w, fil, data, content))
  BY <1>1, <1>2, <1>3, ExtendedFrame
<1> QED
  BY <1>1, <1>2, <1>3, <1>4

\* The offset 0 is in the first cluster, on a boundary.
LEMMA First == 0 \in Nat /\ Plc(0) = 1 /\ 0 % Bcs = 0 /\ 0 % SS = 0
BY Sizes, DivIs DEF Plc

\* The cluster in hand.
LEMMA InHand ==
  ASSUME NEW w, Inv(w), fil.open, Cursor(w, fil)
  PROVE  /\ fil.fptr \in Nat
         /\ fil.fptr # 0 => /\ fil.clust \in Clus /\ w.pl[fil.clust] # 0 /\ fil.sclust \in Clus
                            /\ Plc(fil.fptr) = w.pl[fil.clust] + (IF OnCluster THEN 1 ELSE 0)
         /\ ~OnCluster => fil.fptr # 0
         /\ fil.sclust \in Clus => w.pl[fil.sclust] = Plc(0)
<1>1. fil.fptr \in Nat /\ Chained(fat, fil.sclust, w) /\ Placed(w) /\ fil.sclust \in Clus \cup {None}
  BY Unmoved DEF Object
<1>2. ASSUME fil.fptr # 0
      PROVE  /\ fil.clust \in Clus /\ w.pl[fil.clust] # 0
             /\ Plc(fil.fptr) = w.pl[fil.clust] + (IF OnCluster THEN 1 ELSE 0)
  <2>1. fil.fptr > 0 /\ fil.clust \in Clus /\ w.pl[fil.clust] = Plc(fil.fptr - 1)
    BY <1>1, <1>2 DEF Cursor
  <2>2. /\ fil.fptr - 1 \in Nat
        /\ fil.fptr % Bcs = 0 => Plc(fil.fptr) = Plc(fil.fptr - 1) + 1
        /\ fil.fptr % Bcs # 0 => Plc(fil.fptr) = Plc(fil.fptr - 1)
    BY <1>1, <2>1, Before
  <2>3. Plc(fil.fptr - 1) \in Nat /\ Plc(fil.fptr - 1) >= 1
    BY <2>2, Position
  <2> QED
    BY <2>1, <2>2, <2>3 DEF OnCluster
<1>3. ASSUME fil.fptr # 0 PROVE fil.sclust \in Clus
  BY <1>1, <1>2, <1>3 DEF Chained, Placed
<1>4. ~OnCluster => fil.fptr # 0
  BY First DEF OnCluster
<1>5. fil.sclust \in Clus => w.pl[fil.sclust] = Plc(0)
  BY <1>1, First, Marks DEF Chained
<1> QED
  BY <1>1, <1>2, <1>3, <1>4, <1>5

\* f_read and f_forward find the cluster of fptr.
LEMMA ReadClusterIs ==
  ASSUME NEW w, Inv(w), fil.open, Cursor(w, fil), NEW o \in ReadCluster
  PROVE  /\ o.fat = fat
         /\ o.r \in Clus => o.cost = 0 /\ w.pl[o.r] = Plc(fil.fptr)
         /\ o.cost = 0 \/ (o.cost = 1 /\ CanFail)
<1>1. CASE ~OnCluster
  <2>1. o.fat = fat /\ o.r = fil.clust /\ o.cost = 0
    BY <1>1, ChainIs DEF ReadCluster
  <2> QED
    BY <1>1, <2>1, InHand DEF Inv, Chained, Placed
<1>2. CASE OnCluster /\ fil.fptr = 0
  <2>1. o.fat = fat /\ o.r = fil.sclust /\ o.cost = 0
    BY <1>2, ChainIs DEF ReadCluster
  <2> QED
    BY <1>2, <2>1, InHand
<1>3. CASE OnCluster /\ fil.fptr # 0
  <2>1. o \in Following(fil.clust)
    BY <1>3 DEF ReadCluster
  <2>2. fil.clust \in Clus /\ w.pl[fil.clust] # 0 /\ Plc(fil.fptr) = w.pl[fil.clust] + 1 /\ Chained(fat, fil.sclust, w)
    BY <1>3, InHand, Unmoved
  <2>3. /\ o.fat = fat
        /\ o.r \in Clus => o.cost = 0 /\ w.pl[o.r] = w.pl[fil.clust] + 1
        /\ o.r \notin Clus => (o.r = EOC /\ o.cost = 0) \/ (o.r = Junk /\ o.cost = 1 /\ CanFail)
    BY <2>1, <2>2, FollowingIs
  <2> QED
    BY <2>2, <2>3
<1> QED
  BY <1>1, <1>2, <1>3

\* The chain with the cluster for the byte at fptr, if there is one.
Got(v, w, o, s) ==
  /\ Harmless(o.fat) /\ Chained(o.fat, s, v) /\ Extends(w, v)
  /\ o.r \in Clus => o.cost = 0 /\ v.pl[o.r] = Plc(fil.fptr)
  /\ o.r \notin Clus => (o.r = None /\ o.cost = 0 /\ o.fat = fat) \/ (o.r = Junk /\ o.cost = 1 /\ CanFail)
StartWith(c) == IF fil.sclust = None /\ c \in Clus THEN c ELSE fil.sclust

\* f_write finds or creates the cluster of fptr.
LEMMA WriteClusterIs ==
  ASSUME NEW w, Inv(w), fil.open, Cursor(w, fil), NEW o \in WriteCluster
  PROVE  \E v : Got(v, w, o, StartWith(o.r))
<1>0. /\ fat \in [Clus -> Values] /\ Harmless(fat) /\ Chained(fat, fil.sclust, w) /\ Extends(w, w)
      /\ fil.sclust \in Clus \cup {None} /\ Placed(w)
  BY Unmoved, ObjectFields
<1>1. CASE ~OnCluster
  <2>1. o.fat = fat /\ o.r = fil.clust /\ o.cost = 0
    BY <1>1, ChainIs DEF WriteCluster
  <2>2. fil.clust \in Clus /\ Plc(fil.fptr) = w.pl[fil.clust] + 0 /\ fil.sclust \in Clus
    BY <1>1, InHand
  <2>3. StartWith(o.r) = fil.sclust /\ w.pl[fil.clust] \in Nat
    BY <1>0, <2>2, Marks DEF StartWith, Placed
  <2> QED
    BY <1>0, <2>1, <2>2, <2>3 DEF Got
<1>2. CASE OnCluster /\ fil.fptr = 0 /\ fil.sclust # None
  <2>1. o.fat = fat /\ o.r = fil.sclust /\ o.cost = 0
    BY <1>2, ChainIs DEF WriteCluster
  <2>2. StartWith(o.r) = fil.sclust /\ fil.sclust \in Clus
    BY <1>0, <1>2 DEF StartWith
  <2> QED
    BY <1>0, <1>2, <2>1, <2>2, InHand DEF Got
<1>3. CASE OnCluster /\ fil.fptr # 0
  <2>1. o \in CreateChain(fil.clust)
    BY <1>3 DEF WriteCluster
  <2>2. fil.clust \in Clus /\ w.pl[fil.clust] # 0 /\ Plc(fil.fptr) = w.pl[fil.clust] + 1 /\ fil.sclust \in Clus
    BY <1>3, InHand
  <2>3. fil.sclust # None /\ fil.clust # None /\ StartWith(o.r) = fil.sclust
    BY <2>2, Marks DEF StartWith
  <2>4. Grown(o, fil.sclust, w, fil.clust)
    BY <1>0, <2>1, <2>2, <2>3, CreateChainIs
  <2>5. CASE o.r \in Clus
    <3>1. PICK v : Chained(o.fat, fil.sclust, v) /\ Extends(w, v) /\ v.pl[o.r] = w.pl[fil.clust] + 1
      BY <2>3, <2>4, <2>5 DEF Grown
    <3> QED
      BY <2>2, <2>3, <2>4, <2>5, <3>1 DEF Grown, Got
  <2>6. CASE o.r \notin Clus
    BY <1>0, <2>3, <2>4, <2>6 DEF Grown, Got
  <2> QED
    BY <2>5, <2>6
<1>4. CASE OnCluster /\ fil.fptr = 0 /\ fil.sclust = None
  <2>1. o \in CreateChain(None)
    BY <1>4 DEF WriteCluster
  <2>2. Grown(o, None, w, None)
    BY <1>0, <1>4, <2>1, CreateChainIs
  <2>5. CASE o.r \in Clus
    <3>1. PICK v : Chained(o.fat, o.r, v) /\ Extends(w, v) /\ v.pl[o.r] = 1
      BY <2>2, <2>5 DEF Grown
    <3>2. StartWith(o.r) = o.r /\ Plc(fil.fptr) = 1
      BY <1>4, <2>5, First DEF StartWith
    <3> QED
      BY <2>2, <2>5, <3>1, <3>2 DEF Grown, Got
  <2>6. CASE o.r \notin Clus
    <3>1. StartWith(o.r) = None
      BY <1>4, <2>6 DEF StartWith
    <3> QED
      BY <1>0, <2>2, <2>6, <3>1 DEF Grown, Got
  <2> QED
    BY <2>5, <2>6
<1> QED
  BY <1>1, <1>2, <1>3, <1>4

\* The object with another cluster in hand.
LEMMA EnteredIs ==
  ASSUME NEW w, Inv(w), fil.open, NEW c \in Clus, NEW y, y = Entered(fil, c)
  PROVE  /\ y \in Object /\ SameCache(fil, y) /\ y.open /\ y.size = fil.size /\ y.mod = fil.mod /\ y.err = fil.err
         /\ y.write = fil.write /\ y.fptr = fil.fptr /\ y.clust = c /\ y.sclust = StartWith(c)
<1>1. PICK s : s = StartWith(c)
  OBVIOUS
<1>2. s \in Clus \cup {None} /\ s = IF fil.sclust = None THEN c ELSE fil.sclust
  BY <1>1, Unmoved, ObjectFields DEF StartWith
<1>3. y = [fil EXCEPT !.clust = c, !.sclust = s]
  BY <1>2 DEF Entered
<1>4. fil \in Object
  BY Unmoved
<1>5. y \in Object
  BY <1>2, <1>3, <1>4 DEF Object
<1>6. /\ SameCache(fil, y) /\ y.open /\ y.size = fil.size /\ y.mod = fil.mod /\ y.err = fil.err
      /\ y.write = fil.write /\ y.fptr = fil.fptr /\ y.clust = c /\ y.sclust = s
  BY <1>2, <1>3, <1>4 DEF Object, SameCache
<1> QED
  BY <1>1, <1>5, <1>6

\* With the new cluster noted in the object, the call can go on.
LEMMA EnteredFrame ==
  ASSUME NEW w, Inv(w), fil.open, NEW o, o.r \in Clus, NEW v, Got(v, w, o, StartWith(o.r)), NEW y, y = Entered(fil, o.r)
  PROVE  Frame(v, y, o.fat, data) /\ (fil.err \/ Reads(v, y, data, content))
<1>1. /\ y \in Object /\ SameCache(fil, y) /\ y.open /\ y.size = fil.size /\ y.mod = fil.mod /\ y.err = fil.err
      /\ y.write = fil.write /\ y.fptr = fil.fptr /\ y.clust = o.r /\ y.sclust = StartWith(o.r)
  BY EnteredIs
<1>2. y.sclust = fil.sclust \/ fil.sclust = None
  BY <1>1 DEF StartWith
<1> QED
  BY <1>1, <1>2, ExtendedFrame DEF Got

-----------------------------------------------------------------------------
(* Rounds of f_read.                                                       *)

\* A call spends a failure only if one is left.
LEMMA Spent ==
  ASSUME NEW w, Inv(w), NEW n, n = 0 \/ (n = 1 /\ CanFail), faults' = faults + n
  PROVE  faults' \in 0 .. MaxFaults
<1>1. faults \in 0 .. MaxFaults /\ MaxFaults \in Nat
  BY FileAssumption DEF Inv, Types
<1>2. n = 1 => faults < MaxFaults
  BY DEF CanFail
<1> QED
  BY <1>1, <1>2

\* What the invariant says of an open call.
LEMMA InCall ==
  ASSUME NEW w, Inv(w), call.op # "none"
  PROVE  /\ fil.open /\ ~fil.err /\ call.n \in Nat /\ call.n >= 1
         /\ call \in [op : {"none", "read", "forward", "write", "seek"}, n : Nat]
         /\ call.op \in {"read", "forward"} => call.n <= fil.size - fil.fptr
         /\ call.op # "seek" => Cursor(w, fil)
         /\ call.op = "seek" => Seeking(w, fil)
BY DEF Inv, CallOk, Types

\* The sizes a round works with.
LEMMA Bounds ==
  ASSUME NEW w, Inv(w), fil.open
  PROVE  fil.fptr \in Nat /\ fil.size \in Nat /\ MaxBytes \in Nat /\ fil.size <= MaxBytes
<1>1. fil.fptr \in Nat /\ fil.size \in Nat /\ fat \in [Clus -> Values] /\ Chained(fat, fil.sclust, w)
  BY Unmoved, ObjectFields
<1>2. w.len * Bcs <= MaxBytes
  BY <1>1, ChainFits
<1>3. fil.size <= w.len * Bcs
  BY Unmoved DEF Inv
<1>4. MaxBytes \in Nat
  BY FileAssumption, FS_CardinalityType, Sizes DEF MaxBytes, NClust
<1>5. w.len * Bcs \in Nat
  BY <1>1, Sizes DEF Chained, Placed
<1> QED
  BY <1>1, <1>2, <1>3, <1>4, <1>5

\* The object with fptr moved by k bytes.
LEMMA Moved ==
  ASSUME NEW x \in Object, NEW k \in Nat, NEW y, y = [x EXCEPT !.fptr = @ + k]
  PROVE  /\ y \in Object /\ SameCache(x, y) /\ y.open = x.open /\ y.size = x.size /\ y.mod = x.mod /\ y.err = x.err
         /\ y.write = x.write /\ y.fptr = x.fptr + k /\ y.clust = x.clust /\ y.sclust = x.sclust
<1>1. x.fptr \in Nat
  BY ObjectFields
<1>2. PICK f \in Nat : f = x.fptr + k
  BY <1>1
<1>3. y = [x EXCEPT !.fptr = f]
  BY <1>2
<1>4. y \in Object
  BY <1>3 DEF Object
<1>5. /\ SameCache(x, y) /\ y.open = x.open /\ y.size = x.size /\ y.mod = x.mod /\ y.err = x.err
      /\ y.write = x.write /\ y.fptr = f /\ y.clust = x.clust /\ y.sclust = x.sclust
  BY <1>3 DEF Object, SameCache
<1> QED
  BY <1>2, <1>4, <1>5

\* What is left of a call after k bytes.
LEMMA Advanced ==
  ASSUME NEW w, Inv(w), call.op # "none", NEW k \in Nat, k <= call.n, Advance(k)
  PROVE  /\ call' \in [op : {"none", "read", "forward", "write", "seek"}, n : Nat]
         /\ call' = Idle \/ (call'.op = call.op /\ call'.n = call.n - k /\ call'.n >= 1 /\ call.n # k)
         /\ call.n = k => call' = Idle
         /\ call.n # k => call'.op = call.op
<1>1. call.n \in Nat /\ call \in [op : {"none", "read", "forward", "write", "seek"}, n : Nat]
  BY InCall
<1>2. CASE call.n = k
  <2>1. call' = Idle
    BY <1>2 DEF Advance
  <2> QED
    BY <1>2, <2>1 DEF Idle
<1>3. CASE call.n # k
  <2>1. PICK m \in Nat : m = call.n - k /\ m >= 1
    BY <1>1, <1>3
  <2>2. call' = [call EXCEPT !.n = m]
    BY <1>3, <2>1 DEF Advance
  <2>3. call' \in [op : {"none", "read", "forward", "write", "seek"}, n : Nat] /\ call'.op = call.op /\ call'.n = m
    BY <1>1, <2>2
  <2> QED
    BY <1>3, <2>1, <2>3
<1> QED
  BY <1>2, <1>3

\* A round of f_read or f_forward that ends well: k bytes, up to the end of the cluster
\* of z at most.
LEMMA ReadRound ==
  ASSUME NEW w, Inv(w), call.op \in {"read", "forward"},
         NEW z, Frame(w, z, fat, data'), z.fptr = fil.fptr, z.sclust = fil.sclust, z.clust \in Clus,
         w.pl[z.clust] = Plc(fil.fptr), ~fil.dirty => ~z.dirty, Reads(w, z, data', content),
         NEW k \in Nat, k >= 1, k <= call.n, Plc(fil.fptr + k - 1) = Plc(fil.fptr),
         (fil.fptr + k) % SS # 0 => z.sect = <<z.clust, Sec(fil.fptr + k)>>,
         fil' = [z EXCEPT !.fptr = @ + k], Advance(k), faults' \in 0 .. MaxFaults, DeliversWritten',
         UNCHANGED <<fat, ent, writes, content, safe, halfCut>>
  PROVE  Inv(w)'
<1>1. /\ fil.open /\ ~fil.err /\ call.n \in Nat /\ call.n <= fil.size - fil.fptr
      /\ fil.fptr \in Nat /\ fil.size \in Nat /\ call.op # "none"
  BY InCall, Bounds
<1>2. PICK y : y = [z EXCEPT !.fptr = @ + k]
  OBVIOUS
<1>3. z \in Object /\ z.open /\ z.size = fil.size /\ z.mod = fil.mod /\ z.err = fil.err /\ z.write = fil.write
  BY DEF Frame
<1>4. /\ y \in Object /\ SameCache(z, y) /\ y.open /\ y.size = fil.size /\ y.mod = fil.mod /\ y.err = fil.err
      /\ y.write = fil.write /\ y.fptr = fil.fptr + k /\ y.clust = z.clust /\ y.sclust = fil.sclust
  BY <1>2, <1>3, Moved
<1>5. fil' = y
  BY <1>2
<1>6. /\ call' \in [op : {"none", "read", "forward", "write", "seek"}, n : Nat]
      /\ call' = Idle \/ (call'.op = call.op /\ call'.n = call.n - k /\ call'.n >= 1 /\ call.n # k)
  BY <1>1, Advanced
<1>7. Within(w, z, y)
  <2>1. content \in [Offs -> Bytes \cup {Undef}] /\ \A i \in Offs : safe[i] # Undef => content[i] = safe[i]
    BY DEF Inv, Types, SafeOk
  <2>2. y.size <= w.len * Bcs
    BY <1>4 DEF Frame
  <2> QED
    BY <1>1, <1>4, <1>5, <1>6, <2>1, <2>2 DEF Within, SameCache
<1>8. \A i \in Offs : content'[i] # Undef => i < y.size
  BY <1>1, <1>4, Unmoved DEF Inv
<1>9. y.mod \/ (~y.dirty /\ ent.size = y.size)
  BY <1>1, <1>4 DEF Inv, EntryOk, SameCache
<1>10. CallOk(w)'
  <2>1. Cursor(w, y)
    <3>1. y.fptr <= y.size
      BY <1>1, <1>4
    <3>4. y.fptr - 1 = fil.fptr + k - 1
      BY <1>1, <1>4
    <3>2. y.clust \in Clus /\ w.pl[y.clust] = Plc(y.fptr - 1)
      BY <1>4, <3>4
    <3>3. y.fptr % SS # 0 => y.sect = <<y.clust, Sec(y.fptr)>>
      BY <1>4 DEF SameCache
    <3> QED
      BY <3>1, <3>2, <3>3 DEF Cursor
  <2>2. Cursor(w, fil)' /\ fil'.open /\ ~fil'.err
    BY <1>1, <1>4, <1>5, <2>1 DEF Cursor
  <2>3. CASE call' = Idle
    BY <2>2, <2>3 DEF CallOk, Idle
  <2>4. CASE call'.op = call.op /\ call'.n = call.n - k /\ call'.n >= 1
    <3>a. call.n - k <= fil.size - (fil.fptr + k)
      BY <1>1
    <3>b. fil'.size = fil.size /\ fil'.fptr = fil.fptr + k
      BY <1>4, <1>5
    <3>1. call'.n <= fil'.size - fil'.fptr
      BY <2>4, <3>a, <3>b
    <3> QED
      BY <1>1, <2>2, <2>4, <3>1 DEF CallOk
  <2> QED
    BY <1>6, <2>3, <2>4
<1>11. y.sect = z.sect /\ y.buf = z.buf /\ y.dirty = z.dirty /\ content' = content
  BY <1>4 DEF SameCache
<1> QED
  BY <1>1, <1>7, <1>8, <1>9, <1>10, <1>11, RoundStep

\* The object with the cluster at fptr in hand.
LEMMA HandFrame ==
  ASSUME NEW w, Inv(w), call.op \in {"read", "forward"}, NEW o \in ReadCluster, o.r \in Clus,
         NEW x, x = [fil EXCEPT !.clust = o.r]
  PROVE  /\ x \in Object /\ SameCache(fil, x) /\ x.fptr = fil.fptr /\ x.sclust = fil.sclust /\ x.clust = o.r
         /\ Frame(w, x, fat, data) /\ Reads(w, x, data, content) /\ w.pl[o.r] = Plc(fil.fptr)
<1>1. fil.open /\ ~fil.err /\ Cursor(w, fil)
  BY InCall
<1>2. fil \in Object /\ Harmless(fat) /\ Extends(w, w) /\ Chained(fat, fil.sclust, w)
  BY <1>1, Unmoved
<1>3. x \in Object
  BY <1>2 DEF Object
<1>4. /\ SameCache(fil, x) /\ x.fptr = fil.fptr /\ x.sclust = fil.sclust /\ x.clust = o.r
      /\ x.open = fil.open /\ x.size = fil.size /\ x.mod = fil.mod /\ x.err = fil.err /\ x.write = fil.write
  BY <1>2 DEF Object, SameCache
<1>5. w.pl[o.r] = Plc(fil.fptr)
  BY <1>1, ReadClusterIs
<1>6. Frame(w, x, fat, data) /\ (fil.err \/ Reads(w, x, data, content))
  BY <1>1, <1>2, <1>3, <1>4, ExtendedFrame
<1> QED
  BY <1>1, <1>3, <1>4, <1>5, <1>6

\* ReadDirect: whole sectors are delivered past the cache.
LEMMA ReadDirectStep ==
  ASSUME NEW w, Inv(w), ReadDirect
  PROVE  Inv(w)'
<1>1. /\ call.op = "read" /\ OnSector /\ call.n >= SS
      /\ UNCHANGED <<card, writes, content, safe, halfCut>>
  BY DEF ReadDirect
<1>2. UNCHANGED <<fat, ent, data>>
  BY <1>1 DEF card
<1>3. fil.open /\ ~fil.err /\ Cursor(w, fil) /\ call.n \in Nat /\ call.n <= fil.size - fil.fptr
  BY <1>1, InCall
<1> DEFINE cc == Least(call.n \div SS, Csize - Csect)
<1>4. PICK o \in ReadCluster :
        LET x == [fil EXCEPT !.clust = o.r]
        IN  \/ o.r \notin Clus /\ Abort(fil) /\ Spend(o.cost) /\ got' = Nothing
            \/ o.r \in Clus /\ CanFail /\ Abort(x) /\ Spend(1) /\ got' = Nothing
            \/ /\ o.r \in Clus
               /\ got' = [from |-> fil.fptr,
                          bytes |-> [j \in 0 .. cc * SS - 1 |->
                                       Replaced(<<o.r, Csect + j \div SS>>)[j % SS]]]
               /\ fil' = [x EXCEPT !.fptr = @ + cc * SS]
               /\ Advance(cc * SS) /\ UNCHANGED faults
  BY DEF ReadDirect
<1>5. PICK x : x = [fil EXCEPT !.clust = o.r]
  OBVIOUS
<1>6. CASE o.r \notin Clus /\ Abort(fil) /\ Spend(o.cost) /\ got' = Nothing
  <2>1. Frame(w, fil, fat', data')
    BY <1>2, <1>3, Unmoved
  <2>2. faults' \in 0 .. MaxFaults
    BY <1>3, <1>6, ReadClusterIs, Spent DEF Spend
  <2> QED
    BY <1>1, <1>2, <1>3, <1>6, <2>1, <2>2, AbortStep
<1>7. CASE o.r \in Clus /\ CanFail /\ Abort(x) /\ Spend(1) /\ got' = Nothing
  <2>1. Frame(w, x, fat', data')
    BY <1>1, <1>2, <1>5, <1>7, HandFrame
  <2>2. faults' \in 0 .. MaxFaults
    BY <1>7, Spent DEF Spend
  <2> QED
    BY <1>1, <1>2, <1>3, <1>7, <2>1, <2>2, AbortStep
<1>8. CASE /\ o.r \in Clus
           /\ got' = [from |-> fil.fptr,
                      bytes |-> [j \in 0 .. cc * SS - 1 |->
                                   Replaced(<<o.r, Csect + j \div SS>>)[j % SS]]]
           /\ fil' = [x EXCEPT !.fptr = @ + cc * SS]
           /\ Advance(cc * SS) /\ UNCHANGED faults
  <2> DEFINE k == cc * SS
  <2>1. /\ x \in Object /\ SameCache(fil, x) /\ x.fptr = fil.fptr /\ x.sclust = fil.sclust /\ x.clust = o.r
        /\ Frame(w, x, fat, data) /\ Reads(w, x, data, content) /\ w.pl[o.r] = Plc(fil.fptr)
    BY <1>1, <1>5, <1>8, HandFrame
  <2>2. fil.fptr \in Nat /\ fil.size \in Nat /\ MaxBytes \in Nat /\ fil.size <= MaxBytes
    BY <1>3, Bounds
  <2>3. Csect = Sec(fil.fptr) /\ fil.fptr % SS = 0
    BY <1>1 DEF Csect, Sec, OnSector
  <2>4. cc \in Nat /\ cc >= 1 /\ Sec(fil.fptr) + cc <= Csize /\ cc * SS <= call.n /\ cc * SS >= 1
    BY <1>1, <1>3, <2>2, <2>3, WholeSectors
  <2>c. got' = [from |-> fil.fptr,
                bytes |-> [j \in 0 .. k - 1 |-> Replaced(<<o.r, Csect + j \div SS>>)[j % SS]]]
        /\ fil' = [x EXCEPT !.fptr = @ + k] /\ Advance(k) /\ k >= 1 /\ k <= call.n
    BY <1>8, <2>4
  <2> HIDE DEF cc
  <2>5. k \in Nat /\ (fil.fptr + k) % SS = 0
    BY <2>2, <2>3, <2>4, SectorRun
  <2>6. ASSUME NEW i \in Nat, i < k
        PROVE  /\ Plc(fil.fptr + i) = Plc(fil.fptr) /\ Sec(fil.fptr + i) = Sec(fil.fptr) + (i \div SS)
               /\ (fil.fptr + i) % SS = i % SS /\ i \div SS \in 0 .. cc - 1
    BY <2>2, <2>3, <2>4, <2>6, SectorRun
  <2> HIDE DEF k
  <2>7. Plc(fil.fptr + k - 1) = Plc(fil.fptr)
    <3>1. k - 1 \in Nat /\ k - 1 < k /\ fil.fptr + (k - 1) = fil.fptr + k - 1
      BY <2>2, <2>c, <2>5
    <3>2. Plc(fil.fptr + (k - 1)) = Plc(fil.fptr)
      BY <2>6, <3>1
    <3> QED
      BY <3>1, <3>2
  <2>8. DeliversWritten'
    <3>1. SUFFICES ASSUME NEW j \in 0 .. k - 1, content[fil.fptr + j] # Undef
                   PROVE  Replaced(<<o.r, Csect + j \div SS>>)[j % SS] = content[fil.fptr + j]
      BY <1>1, <2>c DEF DeliversWritten
    <3>2. j \in Nat /\ j < k
      BY <2>5
    <3> DEFINE i == fil.fptr + j
               s == <<o.r, Csect + j \div SS>>
    <3>3. i \in Offs
      BY <1>3, <2>2, <2>c, <2>5, <3>2 DEF Offs
    <3>4. Plc(i) = Plc(fil.fptr) /\ Sec(i) = Csect + j \div SS /\ i % SS = j % SS
      BY <2>3, <2>6, <3>2
    <3>5. Sec(i) \in 0 .. Csize - 1
      BY <3>3, Position DEF Offs
    <3>6. s \in Sectors /\ At(w, s, i)
      BY <1>8, <2>1, <3>4, <3>5 DEF Sectors, At
    <3> HIDE DEF i, s
    <3>7. content[i] # Undef
      BY <3>1 DEF i
    <3>8. IF s = x.sect THEN x.buf[i % SS] = content[i] /\ (~x.dirty => data[s][i % SS] = content[i])
          ELSE data[s][i % SS] = content[i]
      BY <2>1, <3>3, <3>6, <3>7 DEF Reads
    <3>9. Replaced(s)[i % SS] = content[i]
      BY <2>1, <3>8 DEF Replaced, SameCache
    <3> QED
      BY <3>4, <3>9 DEF i, s
  <2>9. ~fil.dirty => ~x.dirty
    BY <2>1 DEF SameCache
  <2>10. faults' \in 0 .. MaxFaults
    BY <1>8 DEF Inv, Types
  <2> QED
    BY <1>1, <1>2, <1>8, <2>1, <2>c, <2>5, <2>7, <2>8, <2>9, <2>10, ReadRound
<1> QED
  BY <1>4, <1>5, <1>6, <1>7, <1>8

-----------------------------------------------------------------------------
(* Calls that begin, and rounds from the cache.                            *)

\* A call begins or gives up: only the call changes, and durable bytes may be given up.
LEMMA CallStep ==
  ASSUME NEW w, Inv(w), fil.open, ~fil.err, call.op # "write",
         call' \in [op : {"none", "read", "forward", "write", "seek"}, n : Nat], CallOk(w)', DeliversWritten',
         UNCHANGED <<card, fil, faults, content, halfCut>>, writes' \in 0 .. MaxWrites,
         safe' \in [Offs -> Bytes \cup {Undef}], \A i \in Offs : safe'[i] # Undef => safe'[i] = safe[i]
  PROVE  Inv(w)'
<1>1. UNCHANGED <<fat, ent, data, fil, faults, content, halfCut>>
  BY DEF card
<1>2. Types'
  BY <1>1 DEF Inv, Types
<1>3. Start' = Start /\ Size' = Size
  BY <1>1 DEF Start, Size
<1>4. EntryOk'
  BY <1>1 DEF Inv, EntryOk
<1>5. SafeOk'
  BY <1>1, <1>3 DEF Inv, SafeOk
<1>6. Keeps(w, fil, data, safe)'
  BY <1>1 DEF Inv, Keeps
<1>7. Reads(w, fil, data, content)' /\ \A i \in Offs : content'[i] # Undef => i < Size'
  BY <1>1, <1>3 DEF Inv, Reads
<1>8. Dirt(w, fil)'
  BY <1>1 DEF Inv, Dirt
<1>9. Chained(fat', Start', w) /\ Size' <= w.len * Bcs /\ OthersUntouched'
  BY <1>1, <1>3 DEF Inv, OthersUntouched
<1> QED
  BY <1>2, <1>4, <1>5, <1>6, <1>7, <1>8, <1>9 DEF Inv

\* Before a call on an object without an error.
LEMMA UsableIs ==
  ASSUME NEW w, Inv(w), Usable
  PROVE  /\ fil.open /\ ~fil.err /\ call = Idle /\ call.op = "none" /\ call.op # "write" /\ call.op # "seek"
         /\ Cursor(w, fil) /\ safe \in [Offs -> Bytes \cup {Undef}] /\ writes \in 0 .. MaxWrites
         /\ fil.fptr \in Nat /\ fil.size \in Nat
<1>1. fil.open /\ ~fil.err /\ call = Idle /\ call.op = "none" /\ call.op # "write" /\ call.op # "seek"
  BY DEF Usable, CanBegin, Idle
<1>2. Cursor(w, fil)
  BY <1>1 DEF Inv, CallOk
<1> QED
  BY <1>1, <1>2, Bounds DEF Inv, Types

\* A step that delivers nothing delivers nothing wrong.
LEMMA NothingDelivered ==
  ASSUME got' = Nothing
  PROVE  DeliversWritten'
BY DEF Nothing, DeliversWritten

\* f_read and f_forward begin alike.
LEMMA BeginStep ==
  ASSUME NEW w, Inv(w), Usable, fil.fptr < fil.size, NEW n \in Nat \ {0}, NEW op \in {"read", "forward"},
         call' = [op |-> op, n |-> Least(n, fil.size - fil.fptr)], got' = Nothing,
         UNCHANGED <<card, fil, counts, content, safe, halfCut>>
  PROVE  Inv(w)'
<1>1. /\ fil.open /\ ~fil.err /\ call.op # "write" /\ Cursor(w, fil)
      /\ safe \in [Offs -> Bytes \cup {Undef}] /\ writes \in 0 .. MaxWrites
      /\ fil.fptr \in Nat /\ fil.size \in Nat
  BY UsableIs
<1>2. PICK m \in Nat : m = Least(n, fil.size - fil.fptr) /\ m >= 1 /\ m <= fil.size - fil.fptr
  BY <1>1 DEF Least
<1>3. call' = [op |-> op, n |-> m]
  BY <1>2
<1>4. call' \in [op : {"none", "read", "forward", "write", "seek"}, n : Nat]
      /\ call'.op \in {"read", "forward"} /\ call'.n = m
  BY <1>3
<1>5. CallOk(w)'
  BY <1>1, <1>2, <1>4 DEF CallOk, Cursor
<1>6. UNCHANGED <<card, fil, faults, content, halfCut>> /\ writes' = writes /\ safe' = safe
  BY DEF counts
<1> QED
  BY <1>1, <1>4, <1>5, <1>6, NothingDelivered, CallStep

\* FRead and FForward.
LEMMA ReadStep ==
  ASSUME NEW w, Inv(w), NEW n \in ReadLengths, FRead(n) \/ FForward(n)
  PROVE  Inv(w)'
<1>1. n \in Nat \ {0}
  BY FileAssumption
<1> QED
  BY <1>1, BeginStep DEF FRead, FForward

\* ForwardBusy.
LEMMA ForwardBusyStep ==
  ASSUME NEW w, Inv(w), ForwardBusy
  PROVE  Inv(w)'
<1>1. call.op = "forward" /\ call' = Idle /\ got' = Nothing /\ UNCHANGED <<card, fil, counts, content, safe, halfCut>>
  BY DEF ForwardBusy
<1>2. fil.open /\ ~fil.err /\ Cursor(w, fil)
  BY <1>1, InCall
<1>3. call' \in [op : {"none", "read", "forward", "write", "seek"}, n : Nat] /\ call'.op = "none"
  BY <1>1 DEF Idle
<1>4. CallOk(w)'
  BY <1>1, <1>2, <1>3 DEF CallOk, Cursor
<1>5. UNCHANGED <<card, fil, faults, content, halfCut>> /\ writes' = writes /\ safe' = safe
  BY <1>1 DEF counts
<1>6. safe \in [Offs -> Bytes \cup {Undef}] /\ writes \in 0 .. MaxWrites
  BY DEF Inv, Types
<1> QED
  BY <1>1, <1>2, <1>3, <1>4, <1>5, <1>6, NothingDelivered, CallStep

\* f_write begins.
LEMMA WriteStep ==
  ASSUME NEW w, Inv(w), NEW n \in WriteLengths, FWrite(n)
  PROVE  Inv(w)'
<1>1. /\ Usable /\ writes < MaxWrites /\ writes' = writes + 1 /\ call' = [op |-> "write", n |-> n]
      /\ safe' = Touched(n) /\ got' = Nothing /\ UNCHANGED <<card, fil, faults, content, halfCut>>
  BY DEF FWrite
<1>2. n \in Nat \ {0}
  BY FileAssumption
<1>3. /\ fil.open /\ ~fil.err /\ call.op # "write" /\ Cursor(w, fil)
      /\ safe \in [Offs -> Bytes \cup {Undef}] /\ writes \in 0 .. MaxWrites
      /\ fil.fptr \in Nat /\ fil.size \in Nat
  BY <1>1, UsableIs
<1>4. call' \in [op : {"none", "read", "forward", "write", "seek"}, n : Nat] /\ call'.op = "write" /\ call'.n = n
  BY <1>1, <1>2
<1>5. /\ safe' \in [Offs -> Bytes \cup {Undef}] /\ \A i \in Offs : safe'[i] # Undef => safe'[i] = safe[i]
      /\ \A i \in Offs : i >= fil.fptr /\ i < fil.fptr + n => safe'[i] = Undef
  BY <1>1, <1>3 DEF Touched
<1>6. CallOk(w)'
  BY <1>1, <1>2, <1>3, <1>4, <1>5 DEF CallOk, Cursor
<1>7. writes' \in 0 .. MaxWrites
  BY <1>1, <1>3, FileAssumption
<1> QED
  BY <1>1, <1>3, <1>4, <1>5, <1>6, <1>7, NothingDelivered, CallStep

\* k bytes within a sector.
LEMMA WithinSector ==
  ASSUME NEW f \in Nat, NEW k \in Nat, k >= 1, (f % SS) + k <= SS
  PROVE  /\ \A j \in Nat : j < k => Plc(f + j) = Plc(f) /\ Sec(f + j) = Sec(f) /\ (f + j) % SS = (f % SS) + j
         /\ Plc(f + k - 1) = Plc(f)
         /\ (f + k) % SS # 0 => Sec(f + k) = Sec(f) /\ Plc(f + k) = Plc(f)
<1>1. PICK r \in 0 .. SS - 1 : r = f % SS
  BY Sizes, DivMod
<1>2. r \in Nat /\ SS \in Nat /\ r + k <= SS
  BY <1>1, Sizes
<1>3. ASSUME NEW j \in Nat, j < k
      PROVE  Plc(f + j) = Plc(f) /\ Sec(f + j) = Sec(f) /\ (f + j) % SS = (f % SS) + j
  <2>1. r + j < SS
    BY <1>2, <1>3
  <2>2. (f % SS) + j < SS
    BY <1>1, <2>1
  <2> QED
    BY <2>2, SameSector
<1>4. Plc(f + k - 1) = Plc(f)
  <2>1. k - 1 \in Nat /\ k - 1 < k /\ f + (k - 1) = f + k - 1
    OBVIOUS
  <2>2. Plc(f + (k - 1)) = Plc(f)
    BY <1>3, <2>1
  <2> QED
    BY <2>1, <2>2
<1>5. ASSUME (f + k) % SS # 0 PROVE Sec(f + k) = Sec(f) /\ Plc(f + k) = Plc(f)
  <2>1. CASE r + k = SS
    <3>1. k = SS - r
      BY <1>2, <2>1
    <3>2. (f + (SS - (f % SS))) % SS = 0
      BY SectorEnd
    <3> QED
      BY <1>1, <1>5, <3>1, <3>2
  <2>2. CASE r + k # SS
    <3>1. r + k < SS
      BY <1>2, <2>2
    <3>2. (f % SS) + k < SS
      BY <1>1, <3>1
    <3> QED
      BY <3>2, SameSector
  <2> QED
    BY <2>1, <2>2
<1> QED
  BY <1>3, <1>4, <1>5

\* The cache is brought to the sector of fptr for f_read or f_forward.
LEMMA CacheFrame ==
  ASSUME NEW w, Inv(w), call.op \in {"read", "forward"}, NEW o \in ReadCluster, o.r \in Clus,
         NEW p \in Fill([fil EXCEPT !.clust = o.r], <<o.r, Csect>>)
  PROVE  /\ Frame(w, p.x, fat, p.d) /\ w.pl[o.r] = Plc(fil.fptr) /\ p.ok \in BOOLEAN
         /\ p.cost = 0 \/ (p.cost = 1 /\ CanFail)
         /\ p.ok => /\ p.x.fptr = fil.fptr /\ p.x.sclust = fil.sclust /\ p.x.clust = o.r /\ p.x.sect = <<o.r, Csect>>
                    /\ ~fil.dirty => ~p.x.dirty
                    /\ Reads(w, p.x, p.d, content)
<1>1. PICK x : x = [fil EXCEPT !.clust = o.r]
  OBVIOUS
<1>2. /\ x \in Object /\ SameCache(fil, x) /\ x.fptr = fil.fptr /\ x.sclust = fil.sclust /\ x.clust = o.r
      /\ Frame(w, x, fat, data) /\ Reads(w, x, data, content) /\ w.pl[o.r] = Plc(fil.fptr)
  BY <1>1, HandFrame
<1>3. PICK s : s = <<o.r, Csect>>
  OBVIOUS
<1>4. s \in Sectors
  <2>1. fil.fptr \in Nat
    BY Unmoved, ObjectFields
  <2>2. Sec(fil.fptr) \in 0 .. Csize - 1
    BY <2>1, Position
  <2> QED
    BY <1>3, <2>2 DEF Sectors, Csect, Sec
<1>5. p \in Fill(x, s)
  BY <1>1, <1>3
<1>6. Filled(w, x, fat, s, p)
  BY <1>2, <1>4, <1>5, FillIs
<1> QED
  BY <1>2, <1>3, <1>6 DEF Filled, SameFile, SameCache

\* A round that delivers k bytes from the cache.
LEMMA CacheRound ==
  ASSUME NEW w, Inv(w), call.op \in {"read", "forward"}, NEW o \in ReadCluster, o.r \in Clus,
         NEW p \in Fill([fil EXCEPT !.clust = o.r], <<o.r, Csect>>), p.ok,
         NEW k \in Nat, k >= 1, k <= call.n, (fil.fptr % SS) + k <= SS,
         data' = p.d, Spend(p.cost),
         got' = [from |-> fil.fptr, bytes |-> [j \in 0 .. k - 1 |-> p.x.buf[(fil.fptr % SS) + j]]],
         fil' = [p.x EXCEPT !.fptr = @ + k], Advance(k),
         UNCHANGED <<fat, ent, writes, content, safe, halfCut>>
  PROVE  Inv(w)'
<1>1. /\ Frame(w, p.x, fat, data') /\ w.pl[o.r] = Plc(fil.fptr)
      /\ p.x.fptr = fil.fptr /\ p.x.sclust = fil.sclust /\ p.x.clust = o.r /\ p.x.sect = <<o.r, Csect>>
      /\ ~fil.dirty => ~p.x.dirty
      /\ Reads(w, p.x, data', content)
  BY CacheFrame
<1>2. faults' \in 0 .. MaxFaults
  BY CacheFrame, Spent DEF Spend
<1>3. fil.fptr \in Nat /\ fil.size \in Nat /\ MaxBytes \in Nat /\ fil.size <= MaxBytes /\ call.n <= fil.size - fil.fptr /\ call.n \in Nat
  BY InCall, Bounds
<1>5. ASSUME NEW j \in Nat, j < k
      PROVE  Plc(fil.fptr + j) = Plc(fil.fptr) /\ Sec(fil.fptr + j) = Sec(fil.fptr) /\ (fil.fptr + j) % SS = (fil.fptr % SS) + j
  BY <1>3, <1>5, WithinSector
<1>6. Csect = Sec(fil.fptr)
  BY DEF Csect, Sec
<1>7. Plc(fil.fptr + k - 1) = Plc(fil.fptr)
  BY <1>3, WithinSector
<1>8. (fil.fptr + k) % SS # 0 => p.x.sect = <<p.x.clust, Sec(fil.fptr + k)>>
  BY <1>1, <1>3, <1>6, WithinSector
<1>9. DeliversWritten'
  <2>1. SUFFICES ASSUME NEW j \in 0 .. k - 1, content[fil.fptr + j] # Undef
                 PROVE  p.x.buf[(fil.fptr % SS) + j] = content[fil.fptr + j]
    BY DEF DeliversWritten
  <2>2. j \in Nat /\ j < k
    OBVIOUS
  <2> DEFINE i == fil.fptr + j
  <2>3. i \in Offs
    BY <1>3, <2>2 DEF Offs
  <2>4. Plc(i) = Plc(fil.fptr) /\ Sec(i) = Csect /\ i % SS = (fil.fptr % SS) + j
    BY <1>5, <1>6, <2>2
  <2>5. Sec(i) \in 0 .. Csize - 1
    BY <2>3, Position DEF Offs
  <2>6. content[i] # Undef
    BY <2>1
  <2>7. p.x.sect \in Sectors /\ At(w, p.x.sect, i)
    BY <1>1, <2>4, <2>5 DEF Sectors, At
  <2> HIDE DEF i
  <2>8. p.x.buf[i % SS] = content[i]
    BY <1>1, <2>3, <2>6, <2>7 DEF Reads
  <2> QED
    BY <2>4, <2>8 DEF i
<1>10. p.x.clust \in Clus /\ w.pl[p.x.clust] = Plc(fil.fptr)
  BY <1>1
<1> QED
  BY <1>1, <1>2, <1>7, <1>8, <1>9, <1>10, ReadRound

\* f_read or f_forward ends in an error after the cache was filled or not.
LEMMA CacheBroken ==
  ASSUME NEW w, Inv(w), call.op \in {"read", "forward"}, NEW o \in ReadCluster, o.r \in Clus,
         NEW p \in Fill([fil EXCEPT !.clust = o.r], <<o.r, Csect>>),
         data' = p.d, Spend(p.cost), got' = Nothing, Abort(p.x),
         UNCHANGED <<fat, ent, writes, content, safe, halfCut>>
  PROVE  Inv(w)'
<1>1. Frame(w, p.x, fat', data') /\ fil.open
  BY CacheFrame, InCall
<1>2. faults' \in 0 .. MaxFaults
  BY CacheFrame, Spent DEF Spend
<1> QED
  BY <1>1, <1>2, AbortStep

\* A round that finds no cluster.
LEMMA ClusterBroken ==
  ASSUME NEW w, Inv(w), call.op \in {"read", "forward"}, NEW o \in ReadCluster,
         Abort(fil), Spend(o.cost), got' = Nothing, UNCHANGED data,
         UNCHANGED <<fat, ent, writes, content, safe, halfCut>>
  PROVE  Inv(w)'
<1>1. fil.open /\ Cursor(w, fil) /\ Frame(w, fil, fat', data')
  BY InCall, Unmoved
<1>2. faults' \in 0 .. MaxFaults
  BY <1>1, ReadClusterIs, Spent DEF Spend
<1> QED
  BY <1>1, <1>2, AbortStep

\* What is left of the sector, or of the call.
LEMMA LeastPart ==
  ASSUME NEW f \in Nat, NEW n \in Nat, n >= 1, NEW k, k = Least(SS - (f % SS), n)
  PROVE  k \in Nat /\ k >= 1 /\ k <= n /\ (f % SS) + k <= SS
<1>1. PICK r \in 0 .. SS - 1 : r = f % SS
  BY Sizes, DivMod
<1>2. k = Least(SS - r, n)
  BY <1>1
<1>3. k \in Nat /\ k >= 1 /\ k <= n /\ r + k <= SS
  BY <1>2, Sizes DEF Least
<1> QED
  BY <1>1, <1>3

\* ReadCached: a part of a sector is delivered from the cache.
LEMMA ReadCachedStep ==
  ASSUME NEW w, Inv(w), ReadCached
  PROVE  Inv(w)'
<1>1. /\ call.op = "read" /\ (~OnSector \/ call.n < SS) /\ UNCHANGED <<fat, ent, writes, content, safe, halfCut>>
  BY DEF ReadCached
<1>2. fil.open /\ ~fil.err /\ Cursor(w, fil) /\ call.n \in Nat /\ call.n >= 1 /\ fil \in Object /\ fil.fptr \in Nat
  BY <1>1, InCall, Unmoved, ObjectFields
<1>3. PICK o \in (IF OnSector THEN ReadCluster ELSE {Chain(fil.clust, fat, 0)}) :
       \/ o.r \notin Clus /\ Abort(fil) /\ Spend(o.cost) /\ got' = Nothing /\ UNCHANGED data
       \/ /\ o.r \in Clus
          /\ \E p \in (IF OnSector THEN Fill([fil EXCEPT !.clust = o.r], <<o.r, Csect>>)
                       ELSE {Done(fil, data)}) :
               LET k == Least(SS - (fil.fptr % SS), call.n)
               IN  /\ data' = p.d /\ Spend(p.cost)
                   /\ \/ ~p.ok /\ Abort(p.x) /\ got' = Nothing
                      \/ /\ p.ok
                         /\ got' = [from |-> fil.fptr,
                                    bytes |-> [j \in 0 .. k - 1 |-> p.x.buf[(fil.fptr % SS) + j]]]
                         /\ fil' = [p.x EXCEPT !.fptr = @ + k]
                         /\ Advance(k)
  BY DEF ReadCached
<1>4. ASSUME ~OnSector PROVE ~OnCluster /\ fil.sect = <<fil.clust, Csect>>
  <2>1. fil.fptr % SS # 0
    BY <1>4 DEF OnSector
  <2>2. fil.fptr % Bcs # 0
    BY <1>2, <2>1, Boundary
  <2>3. Csect = Sec(fil.fptr)
    BY DEF Csect, Sec
  <2> QED
    BY <1>2, <2>1, <2>2, <2>3 DEF OnCluster, Cursor
<1>5. o \in ReadCluster
  BY <1>3, <1>4 DEF ReadCluster
<1>6. CASE o.r \notin Clus /\ Abort(fil) /\ Spend(o.cost) /\ got' = Nothing /\ UNCHANGED data
  BY <1>1, <1>5, <1>6, ClusterBroken
<1>7. ASSUME o.r \in Clus, NEW p \in (IF OnSector THEN Fill([fil EXCEPT !.clust = o.r], <<o.r, Csect>>)
                                      ELSE {Done(fil, data)})
      PROVE  p \in Fill([fil EXCEPT !.clust = o.r], <<o.r, Csect>>)
  <2>1. CASE OnSector
    BY <1>7, <2>1
  <2>2. CASE ~OnSector
    <3>1. p = Done(fil, data) /\ o.r = fil.clust /\ fil.sect = <<fil.clust, Csect>>
      BY <1>3, <1>4, <1>7, <2>2, ChainIs
    <3>2. [fil EXCEPT !.clust = fil.clust] = fil
      BY <1>2 DEF Object
    <3>3. p \in Fill(fil, fil.sect)
      BY <3>1 DEF Fill
    <3> QED
      BY <3>1, <3>2, <3>3
  <2> QED
    BY <2>1, <2>2
<1>8. CASE o.r \in Clus /\ \E p \in (IF OnSector THEN Fill([fil EXCEPT !.clust = o.r], <<o.r, Csect>>)
                       ELSE {Done(fil, data)}) :
               LET k == Least(SS - (fil.fptr % SS), call.n)
               IN  /\ data' = p.d /\ Spend(p.cost)
                   /\ \/ ~p.ok /\ Abort(p.x) /\ got' = Nothing
                      \/ /\ p.ok
                         /\ got' = [from |-> fil.fptr,
                                    bytes |-> [j \in 0 .. k - 1 |-> p.x.buf[(fil.fptr % SS) + j]]]
                         /\ fil' = [p.x EXCEPT !.fptr = @ + k]
                         /\ Advance(k)
  <2>1. PICK k : k = Least(SS - (fil.fptr % SS), call.n)
    OBVIOUS
  <2>2. PICK p \in (IF OnSector THEN Fill([fil EXCEPT !.clust = o.r], <<o.r, Csect>>) ELSE {Done(fil, data)}) :
          /\ data' = p.d /\ Spend(p.cost)
          /\ \/ ~p.ok /\ Abort(p.x) /\ got' = Nothing
             \/ /\ p.ok
                /\ got' = [from |-> fil.fptr, bytes |-> [j \in 0 .. k - 1 |-> p.x.buf[(fil.fptr % SS) + j]]]
                /\ fil' = [p.x EXCEPT !.fptr = @ + k]
                /\ Advance(k)
    BY <1>8, <2>1
  <2>3. p \in Fill([fil EXCEPT !.clust = o.r], <<o.r, Csect>>)
    BY <1>7, <1>8
  <2>4. CASE ~p.ok /\ Abort(p.x) /\ got' = Nothing
    BY <1>1, <1>5, <1>8, <2>2, <2>3, <2>4, CacheBroken
  <2>5. CASE /\ p.ok
             /\ got' = [from |-> fil.fptr, bytes |-> [j \in 0 .. k - 1 |-> p.x.buf[(fil.fptr % SS) + j]]]
             /\ fil' = [p.x EXCEPT !.fptr = @ + k]
             /\ Advance(k)
    <3>1. k \in Nat /\ k >= 1 /\ k <= call.n /\ (fil.fptr % SS) + k <= SS
      BY <1>2, <2>1, LeastPart
    <3> QED
      BY <1>1, <1>5, <1>8, <2>2, <2>3, <2>5, <3>1, CacheRound
  <2> QED
    BY <2>2, <2>4, <2>5
<1> QED
  BY <1>3, <1>6, <1>8

\* Forward: the stream takes a part of a sector.
LEMMA ForwardStep ==
  ASSUME NEW w, Inv(w), Forward
  PROVE  Inv(w)'
<1>1. call.op = "forward" /\ UNCHANGED <<fat, ent, writes, content, safe, halfCut>>
  BY DEF Forward
<1>2. fil.open /\ ~fil.err /\ Cursor(w, fil) /\ call.n \in Nat /\ call.n >= 1 /\ fil.fptr \in Nat
  BY <1>1, InCall, Unmoved, ObjectFields
<1>3. PICK o \in ReadCluster :
       \/ o.r \notin Clus /\ Abort(fil) /\ Spend(o.cost) /\ got' = Nothing /\ UNCHANGED data
       \/ /\ o.r \in Clus
          /\ \E p \in Fill([fil EXCEPT !.clust = o.r], <<o.r, Csect>>) :
               /\ data' = p.d /\ Spend(p.cost)
               /\ \/ ~p.ok /\ Abort(p.x) /\ got' = Nothing
                  \/ /\ p.ok
                     /\ \E k \in {Least(t, Least(SS - (fil.fptr % SS), call.n)) : t \in Takes} :
                          IF k = 0 THEN Abort(p.x) /\ got' = Nothing
                          ELSE /\ got' = [from |-> fil.fptr,
                                          bytes |-> [j \in 0 .. k - 1 |-> p.x.buf[(fil.fptr % SS) + j]]]
                               /\ fil' = [p.x EXCEPT !.fptr = @ + k]
                               /\ Advance(k)
  BY DEF Forward
<1>4. CASE o.r \notin Clus /\ Abort(fil) /\ Spend(o.cost) /\ got' = Nothing /\ UNCHANGED data
  BY <1>1, <1>4, ClusterBroken
<1>5. CASE o.r \in Clus
  <2>0. o.r \notin Clus => FALSE
    BY <1>5
  <2>1. PICK p \in Fill([fil EXCEPT !.clust = o.r], <<o.r, Csect>>) :
               /\ data' = p.d /\ Spend(p.cost)
               /\ \/ ~p.ok /\ Abort(p.x) /\ got' = Nothing
                  \/ /\ p.ok
                     /\ \E k \in {Least(t, Least(SS - (fil.fptr % SS), call.n)) : t \in Takes} :
                          IF k = 0 THEN Abort(p.x) /\ got' = Nothing
                          ELSE /\ got' = [from |-> fil.fptr,
                                          bytes |-> [j \in 0 .. k - 1 |-> p.x.buf[(fil.fptr % SS) + j]]]
                               /\ fil' = [p.x EXCEPT !.fptr = @ + k]
                               /\ Advance(k)
    BY <1>3, <2>0
  <2>2. CASE Abort(p.x) /\ got' = Nothing
    BY <1>1, <1>5, <2>1, <2>2, CacheBroken
  <2>3. CASE p.ok /\ ~(Abort(p.x) /\ got' = Nothing)
    <3>1. PICK t \in Takes :
            LET k == Least(t, Least(SS - (fil.fptr % SS), call.n))
            IN  /\ k # 0
                /\ got' = [from |-> fil.fptr, bytes |-> [j \in 0 .. k - 1 |-> p.x.buf[(fil.fptr % SS) + j]]]
                /\ fil' = [p.x EXCEPT !.fptr = @ + k]
                /\ Advance(k)
      BY <2>1, <2>3
    <3>2. PICK k : k = Least(t, Least(SS - (fil.fptr % SS), call.n))
      OBVIOUS
    <3>3. /\ k # 0
          /\ got' = [from |-> fil.fptr, bytes |-> [j \in 0 .. k - 1 |-> p.x.buf[(fil.fptr % SS) + j]]]
          /\ fil' = [p.x EXCEPT !.fptr = @ + k]
          /\ Advance(k)
      BY <3>1, <3>2
    <3>4. t \in Nat
      BY FileAssumption
    <3>5. k \in Nat /\ k >= 1 /\ k <= call.n /\ (fil.fptr % SS) + k <= SS
      <4>1. PICK m : m = Least(SS - (fil.fptr % SS), call.n)
        OBVIOUS
      <4>2. m \in Nat /\ m >= 1 /\ m <= call.n /\ (fil.fptr % SS) + m <= SS
        BY <1>2, <4>1, LeastPart
      <4>3. k = Least(t, m)
        BY <3>2, <4>1
      <4>4. k \in Nat /\ k >= 1 /\ k <= m
        BY <3>3, <3>4, <4>2, <4>3 DEF Least
      <4>5. PICK r \in 0 .. SS - 1 : r = fil.fptr % SS
        BY <1>2, Sizes, DivMod
      <4>6. r \in Nat /\ SS \in Nat
        BY Sizes
      <4>7. r + m <= SS
        BY <4>2, <4>5
      <4>8. r + k <= SS /\ k <= call.n
        BY <1>2, <4>2, <4>4, <4>6, <4>7
      <4> QED
        BY <4>4, <4>5, <4>8
    <3> QED
      BY <1>1, <1>5, <2>1, <2>3, <3>3, <3>5, CacheRound
  <2> QED
    BY <2>1, <2>2, <2>3
<1> QED
  BY <1>3, <1>4, <1>5

-----------------------------------------------------------------------------
(* Rounds of f_write.                                                      *)

\* Clusters of a chain are told apart by their places.
LEMMA SamePlace ==
  ASSUME NEW t, NEW s, NEW v, Chained(t, s, v), NEW c \in Clus, NEW x \in Sectors, NEW i \in Nat, NEW f \in Nat,
         v.pl[c] = Plc(f), At(v, x, i)
  PROVE  x[1] \in Clus /\ x[2] \in 0 .. Csize - 1 /\ x = <<x[1], x[2]>> /\ x[2] = Sec(i) /\ (Plc(i) = Plc(f) <=> x[1] = c)
<1>1. x[1] \in Clus /\ x[2] \in 0 .. Csize - 1 /\ x = <<x[1], x[2]>>
  BY DEF Sectors
<1>2. Plc(i) >= 1 /\ v.pl[x[1]] = Plc(i) /\ x[2] = Sec(i)
  BY Position DEF At
<1>3. v.pl[x[1]] # 0
  BY <1>2
<1> QED
  BY <1>1, <1>2, <1>3 DEF Chained

\* The bytes that a round of f_write changes.
LEMMA WritesByte ==
  ASSUME NEW w, Inv(w)
  PROVE  writes \in Bytes /\ writes # Undef /\ [b \in In |-> writes] \in [In -> Bytes]
<1>1. writes \in 0 .. MaxWrites /\ MaxWrites \in Nat
  BY FileAssumption DEF Inv, Types
<1>2. writes \in Bytes /\ writes # Undef
  BY <1>1 DEF Bytes, Undef
<1> QED
  BY <1>2

\* f_write has put k bytes from fptr on, up to the end of a cluster, into the cache or on the card.
LEMMA WroteStep ==
  ASSUME NEW w, Inv(w), call.op = "write",
         NEW v, NEW z, Frame(v, z, fat', data'), z.fptr = fil.fptr, z.clust \in Clus, v.pl[z.clust] = Plc(fil.fptr),
         NEW k \in Nat, k >= 1, k <= call.n, Plc(fil.fptr + k - 1) = Plc(fil.fptr),
         (fil.fptr + k) % SS # 0 => z.sect = <<z.clust, Sec(fil.fptr + k)>>,
         Wrote(z, k), Reads(v, z, data', content'), faults' \in 0 .. MaxFaults,
         UNCHANGED <<ent, writes, safe, got, halfCut>>
  PROVE  Inv(v)'
<1>1. /\ fil.open /\ ~fil.err /\ call.n \in Nat /\ fil.fptr \in Nat /\ fil.size \in Nat /\ call.op # "none"
      /\ fil.mod \in BOOLEAN /\ got = Nothing
      /\ \A i \in Offs : i >= fil.fptr /\ i < fil.fptr + call.n => safe[i] = Undef
  BY InCall, Bounds, Unmoved, ObjectFields DEF Inv, CallOk
<1>2. /\ z \in Object /\ z.open /\ z.size = fil.size /\ z.mod = fil.mod /\ z.err = fil.err /\ z.write = fil.write
      /\ Chained(fat', z.sclust, v) /\ fil.size <= v.len * Bcs
  BY DEF Frame
<1>3. PICK to \in Nat : to = fil.fptr + k
  BY <1>1
<1>4. PICK sz \in Nat : sz = (IF to > fil.size THEN to ELSE fil.size) /\ sz >= to /\ sz >= fil.size
  BY <1>1, <1>3
<1>5. PICK md \in BOOLEAN : md = (fil.mod \/ call.n = k)
  BY <1>1
<1>6. PICK y : y = [z EXCEPT !.fptr = to, !.size = sz, !.mod = md]
  OBVIOUS
<1>7. y \in Object
  <2>1. PICK y1 \in Object : y1 = [z EXCEPT !.fptr = to]
    BY <1>2 DEF Object
  <2>2. PICK y2 \in Object : y2 = [y1 EXCEPT !.size = sz]
    BY <2>1 DEF Object
  <2>3. [y2 EXCEPT !.mod = md] \in Object
    BY <2>2 DEF Object
  <2> QED
    BY <1>6, <2>1, <2>2, <2>3
<1>8. /\ SameCache(z, y) /\ y.open /\ y.size = sz /\ y.mod = md /\ y.err = fil.err
      /\ y.fptr = to /\ y.clust = z.clust /\ y.sclust = z.sclust
  BY <1>2, <1>6 DEF Object, SameCache
<1>9. /\ fil' = y /\ Advance(k)
      /\ content' = [i \in Offs |-> IF i >= fil.fptr /\ i < to THEN writes ELSE content[i]]
  BY <1>1, <1>2, <1>3, <1>4, <1>5, <1>6 DEF Wrote
<1>10. /\ call' \in [op : {"none", "read", "forward", "write", "seek"}, n : Nat]
       /\ call' = Idle \/ (call'.op = call.op /\ call'.n = call.n - k /\ call'.n >= 1 /\ call.n # k)
       /\ call.n # k => call'.op = call.op
  BY <1>1, <1>9, Advanced
<1>11. y.size <= v.len * Bcs
  <2>1. v.len \in Nat /\ Plc(fil.fptr + k - 1) <= v.len
    BY <1>2 DEF Chained, Placed
  <2>4. fil.fptr + k - 1 \in Nat
    BY <1>1
  <2>2. fil.fptr + k - 1 \in Nat /\ v.len * Bcs \in Nat
    BY <2>1, <2>4, Sizes
  <2>3. fil.fptr + k - 1 < v.len * Bcs
    BY <2>1, <2>2, Reaching
  <2> QED
    BY <1>1, <1>2, <1>3, <1>4, <1>8, <2>2, <2>3
<1>12. Within(v, z, y)
  <2>1. content' \in [Offs -> Bytes \cup {Undef}]
    BY <1>9, WritesByte DEF Inv, Types
  <2>2. \A i \in Offs : safe[i] # Undef => content'[i] = safe[i]
    <3>1. SUFFICES ASSUME NEW i \in Offs, safe[i] # Undef PROVE content'[i] = safe[i]
      OBVIOUS
    <3>2. content[i] = safe[i] /\ i \in Nat
      BY <3>1 DEF Inv, SafeOk, Offs
    <3>3. ~(i >= fil.fptr /\ i < to)
      BY <1>1, <1>3, <3>1, <3>2
    <3> QED
      BY <1>9, <3>2, <3>3
  <2> QED
    BY <1>1, <1>2, <1>4, <1>5, <1>7, <1>8, <1>9, <1>10, <1>11, <2>1, <2>2 DEF Within, SameCache
<1>13. \A i \in Offs : content'[i] # Undef => i < y.size
  <2>1. SUFFICES ASSUME NEW i \in Offs, content'[i] # Undef PROVE i < y.size
    OBVIOUS
  <2>2. i \in Nat
    BY DEF Offs
  <2>3. CASE i >= fil.fptr /\ i < to
    BY <1>4, <1>8, <2>2, <2>3
  <2>4. CASE ~(i >= fil.fptr /\ i < to)
    <3>1. content[i] # Undef
      BY <1>9, <2>1, <2>4
    <3>2. i < fil.size
      BY <1>1, <3>1, Unmoved DEF Inv
    <3> QED
      BY <1>1, <1>4, <1>8, <2>2, <3>2
  <2> QED
    BY <2>3, <2>4
<1>14. call'.op # "write" => y.mod
  BY <1>5, <1>8, <1>10, call.op = "write"
<1>15. CallOk(v)'
  <2>1. Cursor(v, y)
    <3>1. y.fptr <= y.size /\ y.fptr - 1 = fil.fptr + k - 1
      BY <1>1, <1>3, <1>4, <1>8
    <3>2. y.clust \in Clus /\ v.pl[y.clust] = Plc(y.fptr - 1)
      BY <1>8, <3>1
    <3>3. y.fptr % SS # 0 => y.sect = <<y.clust, Sec(y.fptr)>>
      BY <1>3, <1>8 DEF SameCache
    <3> QED
      BY <3>1, <3>2, <3>3 DEF Cursor
  <2>2. Cursor(v, fil)' /\ fil'.open /\ ~fil'.err /\ fil'.fptr = to
    BY <1>1, <1>8, <1>9, <2>1 DEF Cursor
  <2>3. CASE call' = Idle
    BY <2>2, <2>3 DEF CallOk, Idle
  <2>4. CASE call'.op = call.op /\ call'.n = call.n - k /\ call'.n >= 1
    <3>1. \A i \in Offs : i >= fil'.fptr /\ i < fil'.fptr + call'.n => safe'[i] = Undef
      <4>1. SUFFICES ASSUME NEW i \in Offs, i >= to, i < to + (call.n - k) PROVE safe[i] = Undef
        BY <2>2, <2>4
      <4>2. i \in Nat
        BY DEF Offs
      <4>3. i >= fil.fptr /\ i < fil.fptr + call.n
        BY <1>1, <1>3, <4>1, <4>2
      <4> QED
        BY <1>1, <4>3
    <3> QED
      BY <1>1, <2>2, <2>4, <3>1 DEF CallOk
  <2> QED
    BY <1>10, <2>3, <2>4
<1>16. DeliversWritten'
  BY <1>1, NothingDelivered
<1>17. y.sect = z.sect /\ y.buf = z.buf /\ y.dirty = z.dirty
  BY <1>8 DEF SameCache
<1> QED
  BY <1>1, <1>12, <1>13, <1>14, <1>15, <1>16, <1>17, RoundStep

\* WriteFull: f_write ends because the disk is full.
LEMMA WriteFullStep ==
  ASSUME NEW w, Inv(w), WriteFull
  PROVE  Inv(w)'
<1>1. call.op = "write" /\ fil' = [fil EXCEPT !.mod = TRUE] /\ call' = Idle /\ UNCHANGED <<card, counts, hist>>
  BY DEF WriteFull
<1>2. UNCHANGED <<fat, ent, data, writes, faults, content, safe, got, halfCut>>
  BY <1>1 DEF card, counts, hist
<1>3. fil.open /\ ~fil.err /\ Cursor(w, fil) /\ fil \in Object /\ fil.size \in Nat
  BY <1>1, InCall, Unmoved, Bounds
<1>4. PICK y : y = fil'
  OBVIOUS
<1>5. y \in Object /\ SameCache(fil, y) /\ y.open /\ y.size = fil.size /\ y.mod /\ ~y.err /\ y.fptr = fil.fptr
      /\ y.clust = fil.clust /\ y.sclust = fil.sclust
  BY <1>1, <1>3, <1>4 DEF Object, SameCache
<1>6. Frame(w, fil, fat', data') /\ Reads(w, fil, data', content')
  BY <1>2, <1>3, Unmoved
<1>7. Within(w, fil, y)
  <2>1. content \in [Offs -> Bytes \cup {Undef}] /\ \A i \in Offs : safe[i] # Undef => content[i] = safe[i]
    BY DEF Inv, Types, SafeOk
  <2>2. faults \in 0 .. MaxFaults /\ fil.size <= w.len * Bcs
    BY <1>6 DEF Inv, Types, Frame
  <2> QED
    BY <1>1, <1>2, <1>3, <1>4, <1>5, <1>6, <2>1, <2>2 DEF Within, SameCache, Idle
<1>8. \A i \in Offs : content'[i] # Undef => i < y.size
  BY <1>2, <1>3, <1>5, Unmoved DEF Inv
<1>9. CallOk(w)'
  BY <1>1, <1>3, <1>4, <1>5 DEF CallOk, Cursor, SameCache, Idle
<1>10. DeliversWritten'
  BY <1>2 DEF Inv, DeliversWritten
<1>11. y.sect = fil.sect /\ y.buf = fil.buf /\ y.dirty = fil.dirty
  BY <1>5 DEF SameCache
<1> QED
  BY <1>3, <1>5, <1>6, <1>7, <1>8, <1>9, <1>10, <1>11, RoundStep

-----------------------------------------------------------------------------
(* Whole sectors written directly.                                         *)

\* The sectors of the direct write, and the bytes they hold.
LEMMA DirectBytes ==
  ASSUME NEW w, Inv(w), fil.open, OnSector, NEW c \in Clus, NEW v, NEW t, NEW a, Chained(t, a, v),
         v.pl[c] = Plc(fil.fptr), NEW m \in Nat, Csect + m <= Csize,
         NEW i \in Nat, NEW s \in Sectors, At(v, s, i)
  PROVE  (s[1] = c /\ s[2] >= Csect /\ s[2] < Csect + m) <=> (i >= fil.fptr /\ i < fil.fptr + m * SS)
<1>1. fil.fptr \in Nat /\ fil.fptr % SS = 0 /\ Csect = Sec(fil.fptr)
  BY Bounds DEF OnSector, Csect, Sec
<1>2. s[1] \in Clus /\ s[2] = Sec(i) /\ (Plc(i) = Plc(fil.fptr) <=> s[1] = c)
  BY <1>1, SamePlace
<1>3. Plc(i) = Plc(fil.fptr) =>
        (i >= fil.fptr /\ i < fil.fptr + m * SS <=> Sec(i) >= Csect /\ Sec(i) < Csect + m)
  BY <1>1, SectorRun
<1>4. ASSUME i >= fil.fptr, i < fil.fptr + m * SS PROVE Plc(i) = Plc(fil.fptr)
  <2>1. PICK n : n = m * SS
    OBVIOUS
  <2>2. n \in Nat
    BY <1>1, <2>1, SectorRun
  <2>3. PICK j \in Nat : i = fil.fptr + j /\ j < n
    <3>1. i < fil.fptr + n
      BY <1>4, <2>1
    <3>2. i - fil.fptr \in Nat /\ i = fil.fptr + (i - fil.fptr) /\ i - fil.fptr < n
      BY <1>1, <1>4, <2>2, <3>1
    <3> QED
      BY <3>2
  <2>4. j < m * SS
    BY <2>1, <2>3
  <2>5. Plc(fil.fptr + j) = Plc(fil.fptr)
    BY <1>1, <2>4, SectorRun
  <2> QED
    BY <2>3, <2>5
<1> QED
  BY <1>2, <1>3, <1>4

\* The sectors that a direct write changes, and the bytes of the file that are in them.
LEMMA DirectIs ==
  ASSUME NEW d \in Area, NEW w, Inv(w), NEW c, NEW m
  PROVE  /\ Direct(d, c, m) \in Area
         /\ \A s \in Sectors : Direct(d, c, m)[s] = IF s[1] = c /\ s[2] >= Csect /\ s[2] < Csect + m
                                                    THEN [b \in In |-> writes] ELSE d[s]
BY WritesByte DEF Direct, Area

\* A direct write reaches no durable byte and no other file.
LEMMA DirectFrame ==
  ASSUME NEW w, Inv(w), call.op = "write", OnSector, NEW c \in Clus, NEW v, NEW x, NEW t, NEW d,
         Frame(v, x, t, d), ~x.dirty,
         v.pl[c] = Plc(fil.fptr), NEW m \in Nat, Csect + m <= Csize, m * SS <= call.n
  PROVE  Frame(v, x, t, Direct(d, c, m))
<1>1. /\ fil.open /\ ~fil.err /\ call.n \in Nat /\ fil.fptr \in Nat
      /\ \A i \in Offs : i >= fil.fptr /\ i < fil.fptr + call.n => safe[i] = Undef
  BY InCall, Bounds DEF Inv, CallOk
<1>2. d \in Area /\ Chained(t, x.sclust, v)
  BY DEF Frame
<1>3. PICK e : e = Direct(d, c, m)
  OBVIOUS
<1>4. e \in Area /\ \A s \in Sectors : e[s] = IF s[1] = c /\ s[2] >= Csect /\ s[2] < Csect + m
                                              THEN [b \in In |-> writes] ELSE d[s]
  BY <1>2, <1>3, DirectIs
<1>5. Keeps(v, x, e, safe)
  <2>1. SUFFICES ASSUME NEW i \in Offs, NEW s \in Sectors, safe[i] # Undef, At(v, s, i) PROVE e[s][i % SS] = safe[i]
    BY DEF Keeps
  <2>2. d[s][i % SS] = safe[i] /\ i \in Nat
    BY <2>1 DEF Frame, Keeps, Offs
  <2>3. ~(i >= fil.fptr /\ i < fil.fptr + m * SS)
    <3>1. PICK n : n = m * SS
      OBVIOUS
    <3>2. n \in Nat /\ n <= call.n
      BY <3>1, Sizes
    <3>3. i < fil.fptr + n => i < fil.fptr + call.n
      BY <1>1, <2>2, <3>2
    <3> QED
      BY <1>1, <2>1, <3>1, <3>3
  <2>4. ~(s[1] = c /\ s[2] >= Csect /\ s[2] < Csect + m)
    BY <1>1, <1>2, <2>1, <2>2, <2>3, DirectBytes
  <2> QED
    BY <1>4, <2>2, <2>4
<1>6. OthersOk(t, e)
  <2>1. t[c] # Other
    <3>1. v.pl[c] # 0
      BY <1>1, Position
    <3> QED
      BY <1>2, <3>1, Taken
  <2>2. SUFFICES ASSUME ~halfCut, NEW s \in Sectors, t[s[1]] = Other PROVE \A b \in In : e[s][b] = Foreign
    BY DEF OthersOk
  <2>3. e[s] = d[s]
    BY <1>4, <2>1, <2>2
  <2> QED
    BY <2>2, <2>3 DEF Frame, OthersOk
<1>7. Frame(v, x, t, e)
  BY <1>4, <1>5, <1>6 DEF Frame
<1> QED
  BY <1>3, <1>7

\* The cache after a direct write.
LEMMA RefilledIs ==
  ASSUME NEW w, Inv(w), NEW x \in Object, ~x.dirty, NEW c \in Clus, NEW m \in Nat, NEW z, z = Refilled(x, c, m), Csect \in Nat
  PROVE  /\ z \in Object /\ SameFile(x, z) /\ z.sect = x.sect /\ ~z.dirty
         /\ IF x.sect \in Sectors /\ x.sect[1] = c /\ x.sect[2] >= Csect /\ x.sect[2] < Csect + m
            THEN z.buf = [b \in In |-> writes] ELSE z.buf = x.buf
<1>1. x.sect \in Sectors \cup {None} /\ None \notin Sectors
  BY ObjectFields, Marks DEF NoSector
<1>2. PICK q : q = [b \in In |-> writes]
  OBVIOUS
<1>3. q \in [In -> Bytes]
  BY <1>2, WritesByte
<1> DEFINE Hit == x.sect # NoSector /\ x.sect \in {<<c, Csect + j>> : j \in 0 .. m - 1}
<1>4. Hit <=> (x.sect \in Sectors /\ x.sect[1] = c /\ x.sect[2] >= Csect /\ x.sect[2] < Csect + m)
  <2>1. ASSUME Hit PROVE x.sect \in Sectors /\ x.sect[1] = c /\ x.sect[2] >= Csect /\ x.sect[2] < Csect + m
    <3>1. PICK j \in 0 .. m - 1 : x.sect = <<c, Csect + j>>
      BY <2>1
    <3>2. x.sect[1] = c /\ x.sect[2] = Csect + j /\ x.sect \in Sectors
      BY <1>1, <2>1, <3>1 DEF NoSector
    <3> QED
      BY <3>2
  <2>2. ASSUME x.sect \in Sectors, x.sect[1] = c, x.sect[2] >= Csect, x.sect[2] < Csect + m PROVE Hit
    <3>1. x.sect = <<x.sect[1], x.sect[2]>> /\ x.sect[2] \in Nat
      BY <2>2, Sizes DEF Sectors
    <3>2. PICK j \in 0 .. m - 1 : x.sect[2] = Csect + j
      <4>1. x.sect[2] - Csect \in 0 .. m - 1 /\ x.sect[2] = Csect + (x.sect[2] - Csect)
        BY <2>2, <3>1
      <4> QED
        BY <4>1
    <3>3. x.sect = <<c, Csect + j>>
      BY <2>2, <3>1, <3>2
    <3> QED
      BY <1>1, <2>2, <3>3 DEF NoSector
  <2> QED
    BY <2>1, <2>2
<1>5. z = IF Hit THEN [x EXCEPT !.buf = q, !.dirty = FALSE] ELSE x
  BY <1>2 DEF Refilled
<1> HIDE DEF Hit
<1>6. CASE Hit
  <2>1. z = [x EXCEPT !.buf = q, !.dirty = FALSE]
    BY <1>5, <1>6
  <2>2. z \in Object
    BY <1>3, <2>1 DEF Object
  <2>3. SameFile(x, z) /\ z.sect = x.sect /\ ~z.dirty /\ z.buf = q
    BY <2>1 DEF Object, SameFile
  <2> QED
    BY <1>2, <1>4, <1>6, <2>2, <2>3
<1>7. CASE ~Hit
  <2>1. z = x
    BY <1>5, <1>7
  <2> QED
    BY <1>4, <1>7, <2>1 DEF SameFile
<1> QED
  BY <1>6, <1>7

\* What is read back after a direct write.
LEMMA DirectReads ==
  ASSUME NEW w, Inv(w), call.op = "write", OnSector, NEW c \in Clus, NEW v, NEW x, NEW t, NEW d,
         Frame(v, x, t, d), ~x.dirty, Reads(v, x, d, content),
         v.pl[c] = Plc(fil.fptr), NEW m \in Nat, Csect + m <= Csize, NEW z, z = Refilled(x, c, m),
         NEW ct, ct = [i \in Offs |-> IF i >= fil.fptr /\ i < fil.fptr + m * SS THEN writes ELSE content[i]]
  PROVE  Reads(v, z, Direct(d, c, m), ct)
<1>1. fil.open /\ fil.fptr \in Nat /\ d \in Area /\ Chained(t, x.sclust, v) /\ x \in Object
  BY InCall, Bounds DEF Frame
<1>2. Csect \in Nat
  BY <1>1, Position DEF Csect, Sec
<1>3. PICK e : e = Direct(d, c, m)
  OBVIOUS
<1>4. e \in Area /\ \A s \in Sectors : e[s] = IF s[1] = c /\ s[2] >= Csect /\ s[2] < Csect + m
                                              THEN [b \in In |-> writes] ELSE d[s]
  BY <1>1, <1>3, DirectIs
<1>5. /\ z.sect = x.sect /\ ~z.dirty
      /\ IF x.sect \in Sectors /\ x.sect[1] = c /\ x.sect[2] >= Csect /\ x.sect[2] < Csect + m
         THEN z.buf = [b \in In |-> writes] ELSE z.buf = x.buf
  BY <1>1, <1>2, RefilledIs
<1>6. SUFFICES ASSUME NEW i \in Offs, NEW s \in Sectors, ct[i] # Undef, At(v, s, i)
               PROVE  (s = z.sect => z.buf[i % SS] = ct[i]) /\ e[s][i % SS] = ct[i]
  BY <1>3 DEF Reads
<1>7. i \in Nat /\ i % SS \in In
  BY Position DEF Offs
<1> DEFINE Hit == s[1] = c /\ s[2] >= Csect /\ s[2] < Csect + m
<1>8. Hit <=> (i >= fil.fptr /\ i < fil.fptr + m * SS)
  BY <1>1, <1>6, <1>7, DirectBytes
<1>9. CASE Hit
  <2>1. ct[i] = writes /\ e[s] = [b \in In |-> writes] /\ (s = z.sect => z.buf = [b \in In |-> writes])
    BY <1>4, <1>5, <1>8, <1>9
  <2> QED
    BY <1>7, <2>1
<1>10. CASE ~Hit
  <2>1. ct[i] = content[i] /\ e[s] = d[s] /\ (s = z.sect => z.buf = x.buf)
    BY <1>4, <1>5, <1>8, <1>10
  <2>2. IF s = x.sect THEN x.buf[i % SS] = content[i] /\ (~x.dirty => d[s][i % SS] = content[i])
        ELSE d[s][i % SS] = content[i]
    BY <1>6, <2>1 DEF Reads
  <2> QED
    BY <1>5, <2>1, <2>2
<1> QED
  BY <1>9, <1>10

\* f_write finds no cluster.
LEMMA WriteClusterBroken ==
  ASSUME NEW w, Inv(w), call.op = "write", NEW o \in WriteCluster, o.r = Junk, fat' = o.fat,
         Abort(fil), Spend(o.cost), UNCHANGED <<data, content>>, UNCHANGED <<ent, writes, safe, got, halfCut>>
  PROVE  IInv'
<1>1. fil.open /\ ~fil.err /\ Cursor(w, fil)
  BY InCall
<1>2. PICK v : Got(v, w, o, StartWith(o.r))
  BY <1>1, WriteClusterIs
<1>3. o.r \notin Clus /\ StartWith(o.r) = fil.sclust /\ o.cost = 1 /\ CanFail
  BY <1>2, Marks DEF StartWith, Got
<1>4. Frame(v, fil, fat', data')
  BY <1>1, <1>2, <1>3, Unmoved, ExtendedFrame DEF Got
<1>5. faults' \in 0 .. MaxFaults
  BY <1>3, Spent DEF Spend
<1>6. Inv(v)'
  BY <1>1, <1>4, <1>5, AbortStep
<1> QED
  BY <1>6 DEF IInv

\* WriteDirect: whole sectors are written past the cache.
LEMMA WriteDirectStep ==
  ASSUME NEW w, Inv(w), WriteDirect
  PROVE  IInv'
<1>1. call.op = "write" /\ OnSector /\ call.n >= SS /\ UNCHANGED <<ent, writes, safe, got, halfCut>>
  BY DEF WriteDirect
<1>2. fil.open /\ ~fil.err /\ Cursor(w, fil) /\ call.n \in Nat /\ fil.fptr \in Nat
  BY <1>1, InCall, Bounds
<1>3. PICK cc : cc = Least(call.n \div SS, Csize - Csect)
  OBVIOUS
<1>4. PICK o \in WriteCluster :
       /\ fat' = o.fat
       /\ \/ o.r = Junk /\ Abort(fil) /\ Spend(o.cost) /\ UNCHANGED <<data, content>>
          \/ /\ o.r \in Clus
             /\ \E p \in WriteBack(Entered(fil, o.r)) :
                  \/ /\ ~p.ok /\ Abort(p.x) /\ data' = p.d /\ Spend(p.cost)
                     /\ UNCHANGED content
                  \/ /\ p.ok /\ CanFail /\ Spend(1)
                     /\ \E m \in 0 .. cc : data' = Direct(p.d, o.r, m)
                     /\ Abort(p.x) /\ UNCHANGED content
                  \/ /\ p.ok /\ UNCHANGED faults
                     /\ data' = Direct(p.d, o.r, cc)
                     /\ Wrote(Refilled(p.x, o.r, cc), cc * SS)
  BY <1>3 DEF WriteDirect
<1>5. CASE o.r = Junk /\ Abort(fil) /\ Spend(o.cost) /\ UNCHANGED <<data, content>>
  BY <1>1, <1>4, <1>5, WriteClusterBroken
<1>6. CASE o.r \in Clus
  <2>1. o.r # Junk
    BY <1>6, Marks
  <2>2. PICK p \in WriteBack(Entered(fil, o.r)) :
                  \/ /\ ~p.ok /\ Abort(p.x) /\ data' = p.d /\ Spend(p.cost)
                     /\ UNCHANGED content
                  \/ /\ p.ok /\ CanFail /\ Spend(1)
                     /\ \E m \in 0 .. cc : data' = Direct(p.d, o.r, m)
                     /\ Abort(p.x) /\ UNCHANGED content
                  \/ /\ p.ok /\ UNCHANGED faults
                     /\ data' = Direct(p.d, o.r, cc)
                     /\ Wrote(Refilled(p.x, o.r, cc), cc * SS)
    BY <1>4, <2>1
  <2>3. PICK v : Got(v, w, o, StartWith(o.r))
    BY <1>2, WriteClusterIs
  <2>4. PICK y : y = Entered(fil, o.r)
    OBVIOUS
  <2>5. Frame(v, y, fat', data) /\ Reads(v, y, data, content) /\ v.pl[o.r] = Plc(fil.fptr)
    BY <1>2, <1>4, <1>6, <2>3, <2>4, EnteredFrame DEF Got
  <2>6. y.fptr = fil.fptr /\ y.clust = o.r
    BY <1>2, <1>6, <2>4, EnteredIs
  <2>7. p \in WriteBack(y)
    BY <2>2, <2>4
  <2>8. Frame(v, p.x, fat', p.d) /\ WrittenBack(y, p) /\ p.ok \in BOOLEAN
    BY <2>5, <2>7, WriteBackFrame
  <2>9. CASE /\ ~p.ok /\ Abort(p.x) /\ data' = p.d /\ Spend(p.cost)
             /\ UNCHANGED content
    <3>1. faults' \in 0 .. MaxFaults
      BY <2>8, <2>9, Spent DEF WrittenBack, Spend
    <3>2. Inv(v)'
      BY <1>1, <1>2, <2>8, <2>9, <3>1, AbortStep
    <3> QED
      BY <3>2 DEF IInv
  <2>10. /\ Csect = Sec(fil.fptr) /\ Csect \in Nat /\ fil.fptr % SS = 0
         /\ cc \in Nat /\ cc >= 1 /\ Csect + cc <= Csize /\ cc * SS <= call.n /\ cc * SS >= 1
         /\ \A m \in 0 .. cc : m \in Nat /\ Csect + m <= Csize /\ m * SS <= call.n
    <3>1. Csect = Sec(fil.fptr) /\ fil.fptr % SS = 0
      BY <1>1 DEF Csect, Sec, OnSector
    <3>2. Csect \in Nat
      BY <1>2, <3>1, Position
    <3> QED
      BY <1>1, <1>2, <1>3, <3>1, <3>2, WholeSectors
  <2>11. CASE /\ p.ok /\ CanFail /\ Spend(1)
              /\ \E m \in 0 .. cc : data' = Direct(p.d, o.r, m)
              /\ Abort(p.x) /\ UNCHANGED content
    <3>1. PICK m \in 0 .. cc : data' = Direct(p.d, o.r, m)
      BY <2>11
    <3>2. m \in Nat /\ Csect + m <= Csize /\ m * SS <= call.n /\ ~p.x.dirty
      BY <2>8, <2>10, <2>11 DEF WrittenBack
    <3>3. Frame(v, p.x, fat', data')
      BY <1>1, <1>6, <2>5, <2>8, <3>1, <3>2, DirectFrame
    <3>4. faults' \in 0 .. MaxFaults
      BY <2>11, Spent DEF Spend
    <3>5. Inv(v)'
      BY <1>1, <1>2, <2>11, <3>3, <3>4, AbortStep
    <3> QED
      BY <3>5 DEF IInv
  <2>12. CASE /\ p.ok /\ UNCHANGED faults
              /\ data' = Direct(p.d, o.r, cc)
              /\ Wrote(Refilled(p.x, o.r, cc), cc * SS)
    <3>1. PICK z : z = Refilled(p.x, o.r, cc)
      OBVIOUS
    <3>2. ~p.x.dirty /\ p.x \in Object /\ p.x.fptr = fil.fptr /\ p.x.clust = o.r
      BY <2>6, <2>8, <2>12 DEF WrittenBack, SameFile
    <3>3. z \in Object /\ SameFile(p.x, z) /\ z.sect = p.x.sect /\ ~z.dirty
      BY <1>6, <2>10, <3>1, <3>2, RefilledIs
    <3>4. Frame(v, p.x, fat', data')
      BY <1>1, <1>6, <2>5, <2>8, <2>10, <2>12, <3>2, DirectFrame
    <3>5. Frame(v, z, fat', data') /\ z.fptr = fil.fptr /\ z.clust = o.r
      BY <3>2, <3>3, <3>4, CleanFrame DEF SameFile
    <3>6. PICK k : k = cc * SS
      OBVIOUS
    <3>7. k \in Nat /\ k >= 1 /\ k <= call.n /\ (fil.fptr + k) % SS = 0
      BY <1>2, <2>10, <3>6, SectorRun
    <3>8. Plc(fil.fptr + k - 1) = Plc(fil.fptr)
      <4>1. k - 1 \in Nat /\ k - 1 < k /\ fil.fptr + (k - 1) = fil.fptr + k - 1
        BY <1>2, <3>7
      <4>2. k - 1 < cc * SS
        BY <3>6, <4>1
      <4>3. Plc(fil.fptr + (k - 1)) = Plc(fil.fptr)
        BY <1>2, <2>10, <4>1, <4>2, SectorRun
      <4> QED
        BY <4>1, <4>3
    <3>9. Wrote(z, k)
      BY <2>12, <3>1, <3>6
    <3>10. content' = [i \in Offs |-> IF i >= fil.fptr /\ i < fil.fptr + cc * SS THEN writes ELSE content[i]]
      <4>1. content' = [i \in Offs |-> IF i >= fil.fptr /\ i < fil.fptr + k THEN writes ELSE content[i]]
        BY <3>5, <3>9 DEF Wrote
      <4> QED
        BY <3>6, <4>1
    <3>11. Reads(v, p.x, p.d, content)
      BY <2>5, <2>8, WriteBackReads DEF Frame
    <3>12. Reads(v, z, data', content')
      BY <1>1, <1>6, <2>5, <2>8, <2>10, <2>12, <3>1, <3>2, <3>10, <3>11, DirectReads
    <3>13. faults' \in 0 .. MaxFaults
      BY <2>12 DEF Inv, Types
    <3>14. Inv(v)'
      BY <1>1, <1>6, <2>5, <3>5, <3>7, <3>8, <3>9, <3>12, <3>13, WroteStep
    <3> QED
      BY <3>14 DEF IInv
  <2> QED
    BY <2>2, <2>9, <2>11, <2>12
<1> QED
  BY <1>4, <1>5, <1>6

-----------------------------------------------------------------------------
(* A part of a sector written to the cache.                                *)

\* The bytes of the sector of fptr.
LEMMA CachedBytes ==
  ASSUME NEW w, Inv(w), fil.open, NEW c \in Clus, NEW v, NEW t, NEW a, Chained(t, a, v),
         v.pl[c] = Plc(fil.fptr), NEW k \in Nat, k >= 1, (fil.fptr % SS) + k <= SS,
         NEW i \in Nat, NEW s \in Sectors, At(v, s, i)
  PROVE  /\ s = <<c, Csect>> => ((i >= fil.fptr /\ i < fil.fptr + k) <=> (i % SS >= fil.fptr % SS /\ i % SS < (fil.fptr % SS) + k))
         /\ s # <<c, Csect>> => ~(i >= fil.fptr /\ i < fil.fptr + k)
<1>1. fil.fptr \in Nat /\ Csect = Sec(fil.fptr)
  BY Bounds DEF Csect, Sec
<1>2. s[1] \in Clus /\ s[2] = Sec(i) /\ s = <<s[1], s[2]>> /\ (Plc(i) = Plc(fil.fptr) <=> s[1] = c)
  BY <1>1, SamePlace
<1>3. ASSUME s = <<c, Csect>>
      PROVE  (i >= fil.fptr /\ i < fil.fptr + k) <=> (i % SS >= fil.fptr % SS /\ i % SS < (fil.fptr % SS) + k)
  <2>1. Plc(i) = Plc(fil.fptr) /\ Sec(i) = Sec(fil.fptr)
    BY <1>1, <1>2, <1>3
  <2>2. i - fil.fptr = (i % SS) - (fil.fptr % SS)
    BY <1>1, <2>1, OneSector
  <2>3. PICK x \in 0 .. SS - 1 : x = i % SS
    BY Sizes, DivMod
  <2>4. PICK z \in 0 .. SS - 1 : z = fil.fptr % SS
    BY <1>1, Sizes, DivMod
  <2>5. i - fil.fptr = x - z
    BY <2>2, <2>3, <2>4
  <2>6. (i >= fil.fptr /\ i < fil.fptr + k) <=> (x >= z /\ x < z + k)
    BY <1>1, <2>3, <2>4, <2>5, Sizes
  <2> QED
    BY <2>3, <2>4, <2>6
<1>4. ASSUME i >= fil.fptr, i < fil.fptr + k PROVE s = <<c, Csect>>
  <2>1. PICK j \in Nat : i = fil.fptr + j /\ j < k
    <3>1. i - fil.fptr \in Nat /\ i = fil.fptr + (i - fil.fptr) /\ i - fil.fptr < k
      BY <1>1, <1>4
    <3> QED
      BY <3>1
  <2>2. Plc(fil.fptr + j) = Plc(fil.fptr) /\ Sec(fil.fptr + j) = Sec(fil.fptr)
    BY <1>1, <2>1, WithinSector
  <2> QED
    BY <1>1, <1>2, <2>1, <2>2
<1> QED
  BY <1>3, <1>4

\* The cache with k bytes of the call put into it.
Dirtied(x, z, k) ==
  z = [x EXCEPT !.dirty = TRUE,
                !.buf = [b \in In |-> IF b >= fil.fptr % SS /\ b < (fil.fptr % SS) + k THEN writes ELSE @[b]]]

\* The cache with k bytes of the call.
LEMMA DirtiedIs ==
  ASSUME NEW w, Inv(w), NEW x \in Object, NEW k \in Nat, NEW z, Dirtied(x, z, k)
  PROVE  /\ z \in Object /\ SameFile(x, z) /\ z.sect = x.sect /\ z.dirty
         /\ \A b \in In : z.buf[b] = IF b >= fil.fptr % SS /\ b < (fil.fptr % SS) + k THEN writes ELSE x.buf[b]
<1>1. x.buf \in [In -> Bytes] /\ writes \in Bytes
  BY ObjectFields, WritesByte
<1>2. PICK q : q = [b \in In |-> IF b >= fil.fptr % SS /\ b < (fil.fptr % SS) + k THEN writes ELSE x.buf[b]]
  OBVIOUS
<1>3. q \in [In -> Bytes] /\ \A b \in In : q[b] = IF b >= fil.fptr % SS /\ b < (fil.fptr % SS) + k THEN writes ELSE x.buf[b]
  BY <1>1, <1>2
<1>4. z = [x EXCEPT !.dirty = TRUE, !.buf = q]
  BY <1>2 DEF Dirtied
<1>5. z \in Object
  BY <1>3, <1>4 DEF Object
<1>6. SameFile(x, z) /\ z.sect = x.sect /\ z.dirty /\ z.buf = q
  BY <1>4 DEF Object, SameFile
<1> QED
  BY <1>3, <1>5, <1>6

\* The dirty cache is of a sector of the file.
LEMMA DirtiedFrame ==
  ASSUME NEW w, Inv(w), call.op = "write", NEW c \in Clus, NEW v, NEW x, NEW t, NEW d,
         Frame(v, x, t, d), Reads(v, x, d, content), x.sect = <<c, Csect>>,
         v.pl[c] = Plc(fil.fptr), NEW k \in Nat, k >= 1, k <= call.n, (fil.fptr % SS) + k <= SS,
         NEW z, Dirtied(x, z, k),
         NEW ct, ct = [i \in Offs |-> IF i >= fil.fptr /\ i < fil.fptr + k THEN writes ELSE content[i]]
  PROVE  Frame(v, z, t, d) /\ Reads(v, z, d, ct)
<1>1. /\ fil.open /\ ~fil.err /\ call.n \in Nat /\ fil.fptr \in Nat /\ x \in Object /\ Chained(t, x.sclust, v)
      /\ \A i \in Offs : i >= fil.fptr /\ i < fil.fptr + call.n => safe[i] = Undef
  BY InCall, Bounds DEF Inv, CallOk, Frame
<1>2. /\ z \in Object /\ SameFile(x, z) /\ z.sect = x.sect /\ z.dirty
      /\ \A b \in In : z.buf[b] = IF b >= fil.fptr % SS /\ b < (fil.fptr % SS) + k THEN writes ELSE x.buf[b]
  BY <1>1, DirtiedIs
<1>3. z.sect \in Sectors
  BY <1>1, <1>2, Position DEF Sectors, Csect, Sec
<1>4. ASSUME NEW i \in Offs, NEW s \in Sectors, At(v, s, i)
      PROVE  /\ i \in Nat /\ i % SS \in In
             /\ s = z.sect => ((i >= fil.fptr /\ i < fil.fptr + k) <=> (i % SS >= fil.fptr % SS /\ i % SS < (fil.fptr % SS) + k))
             /\ s # z.sect => ~(i >= fil.fptr /\ i < fil.fptr + k)
  <2>1. i \in Nat /\ i % SS \in In
    BY Position DEF Offs
  <2>2. z.sect = <<c, Csect>>
    BY <1>2
  <2> QED
    BY <1>1, <1>4, <2>1, <2>2, CachedBytes
<1>5. Keeps(v, z, d, safe)
  <2>1. SUFFICES ASSUME NEW i \in Offs, NEW s \in Sectors, safe[i] # Undef, At(v, s, i)
                 PROVE  d[s][i % SS] = safe[i] /\ (s = z.sect => z.buf[i % SS] = safe[i])
    BY DEF Keeps
  <2>2. d[s][i % SS] = safe[i]
    BY <2>1 DEF Frame, Keeps
  <2>3. i \in Nat /\ i % SS \in In /\ ~(i >= fil.fptr /\ i < fil.fptr + k)
    BY <1>1, <1>4, <2>1
  <2>4. content[i] = safe[i]
    BY <2>1 DEF Inv, SafeOk
  <2>5. ASSUME s = z.sect PROVE z.buf[i % SS] = safe[i]
    <3>1. x.buf[i % SS] = content[i]
      BY <1>2, <2>1, <2>4, <2>5 DEF Reads
    <3>2. z.buf[i % SS] = x.buf[i % SS]
      BY <1>2, <1>4, <2>1, <2>3, <2>5
    <3> QED
      BY <2>4, <3>1, <3>2
  <2> QED
    BY <2>2, <2>5
<1>6. Dirt(v, z)
  <2>1. v.pl[z.sect[1]] # 0
    BY <1>1, <1>2, Position
  <2> QED
    BY <1>3, <2>1 DEF Dirt
<1>7. Reads(v, z, d, ct)
  <2>1. SUFFICES ASSUME NEW i \in Offs, NEW s \in Sectors, ct[i] # Undef, At(v, s, i)
                 PROVE  IF s = z.sect THEN z.buf[i % SS] = ct[i] ELSE d[s][i % SS] = ct[i]
    BY <1>2 DEF Reads
  <2>2. CASE i >= fil.fptr /\ i < fil.fptr + k
    <3>1. ct[i] = writes /\ s = z.sect
      BY <1>4, <2>1, <2>2
    <3>2. z.buf[i % SS] = writes
      BY <1>2, <1>4, <2>1, <2>2, <3>1
    <3> QED
      BY <3>1, <3>2
  <2>3. CASE ~(i >= fil.fptr /\ i < fil.fptr + k)
    <3>1. ct[i] = content[i]
      BY <2>3
    <3>2. IF s = x.sect THEN x.buf[i % SS] = content[i] ELSE d[s][i % SS] = content[i]
      BY <2>1, <3>1 DEF Reads
    <3>3. s = z.sect => z.buf[i % SS] = x.buf[i % SS]
      BY <1>2, <1>4, <2>1, <2>3
    <3> QED
      BY <1>2, <3>1, <3>2, <3>3
  <2> QED
    BY <2>2, <2>3
<1> QED
  BY <1>2, <1>5, <1>6, <1>7 DEF Frame, SameFile

\* The cache brought to the sector of fptr.
LEMMA WriteFilled ==
  ASSUME NEW w, Inv(w), call.op = "write", NEW o \in WriteCluster, o.r \in Clus,
         NEW v, Got(v, w, o, StartWith(o.r)), NEW y, y = Entered(fil, o.r),
         ~OnSector => o = Chain(fil.clust, fat, 0),
         NEW p, p \in (IF OnSector THEN WriteSector(Entered(fil, o.r), <<o.r, Csect>>) ELSE {Done(fil, data)})
  PROVE  Filled(v, y, o.fat, <<o.r, Csect>>, p) /\ Frame(v, y, o.fat, data) /\ Reads(v, y, data, content)
<1>1. fil.open /\ ~fil.err /\ Cursor(w, fil) /\ fil.fptr \in Nat /\ fil.size \in Nat /\ Csect = Sec(fil.fptr) /\ fil \in Object
  BY InCall, Bounds, Unmoved DEF Csect, Sec
<1>2. Frame(v, y, o.fat, data) /\ Reads(v, y, data, content) /\ v.pl[o.r] = Plc(fil.fptr)
  BY <1>1, EnteredFrame DEF Got
<1>3. y.fptr = fil.fptr /\ y.size = fil.size
  BY <1>1, EnteredIs
<1>4. CASE OnSector
  <2>1. PICK s : s = <<o.r, Csect>>
    OBVIOUS
  <2>2. s \in Sectors
    BY <1>1, <2>1, Position DEF Sectors
  <2>3. ASSUME y.fptr >= y.size, NEW i \in Offs, content[i] # Undef, At(v, s, i) PROVE FALSE
    <3>1. i < fil.size /\ i \in Nat
      BY <1>1, <2>3, Unmoved DEF Inv, Offs
    <3>2. Plc(i) = Plc(fil.fptr) /\ Sec(i) = Sec(fil.fptr)
      BY <1>1, <1>2, <2>1, <2>3 DEF At
    <3>3. i >= fil.fptr
      BY <1>1, <1>4, <3>1, <3>2, OneSector DEF OnSector
    <3> QED
      BY <1>1, <1>3, <2>3, <3>1, <3>3
  <2>4. p \in WriteSector(y, s)
    BY <1>4, <2>1
  <2>5. Filled(v, y, o.fat, s, p)
    BY <1>2, <2>2, <2>3, <2>4, WriteSectorIs
  <2> QED
    BY <1>2, <2>1, <2>5
<1>5. CASE ~OnSector
  <2>1. p = Done(fil, data) /\ o.r = fil.clust
    BY <1>5, ChainIs
  <2>2. fil.sect = <<o.r, Csect>>
    BY <1>1, <1>5, <2>1 DEF OnSector, Cursor
  <2>3. fil.sclust \in Clus
    <3>1. fil.fptr # 0
      BY <1>5, First DEF OnSector
    <3> QED
      BY <1>1, <3>1, InHand
  <2>4. y = fil
    <3>1. Entered(fil, o.r) = [fil EXCEPT !.clust = fil.clust, !.sclust = fil.sclust]
      BY <2>1, <2>3, Marks DEF Entered
    <3>2. [fil EXCEPT !.clust = fil.clust, !.sclust = fil.sclust] = fil
      BY <1>1 DEF Object
    <3> QED
      BY <3>1, <3>2
  <2>5. p.ok /\ p.x = fil /\ p.d = data /\ p.cost = 0 /\ p.ok \in BOOLEAN
    BY <2>1 DEF Done
  <2>6. Filled(v, y, o.fat, <<o.r, Csect>>, p)
    BY <1>1, <1>2, <2>2, <2>4, <2>5 DEF Filled, SameFile
  <2> QED
    BY <1>2, <2>6
<1> QED
  BY <1>4, <1>5

\* WriteCached: a part of a sector is written to the cache.
LEMMA WriteCachedStep ==
  ASSUME NEW w, Inv(w), WriteCached
  PROVE  IInv'
<1>1. call.op = "write" /\ UNCHANGED <<ent, writes, safe, got, halfCut>>
  BY DEF WriteCached
<1>2. fil.open /\ ~fil.err /\ Cursor(w, fil) /\ call.n \in Nat /\ call.n >= 1 /\ fil.fptr \in Nat
  BY <1>1, InCall, Bounds
<1>3. PICK k : k = Least(SS - (fil.fptr % SS), call.n)
  OBVIOUS
<1>4. PICK o \in (IF OnSector THEN WriteCluster ELSE {Chain(fil.clust, fat, 0)}) :
       /\ fat' = o.fat
       /\ \/ o.r = Junk /\ Abort(fil) /\ Spend(o.cost) /\ UNCHANGED <<data, content>>
          \/ /\ o.r \in Clus
             /\ \E p \in (IF OnSector THEN WriteSector(Entered(fil, o.r), <<o.r, Csect>>)
                          ELSE {Done(fil, data)}) :
                  /\ data' = p.d /\ Spend(p.cost)
                  /\ \/ ~p.ok /\ Abort(p.x) /\ UNCHANGED content
                     \/ p.ok /\ Wrote([p.x EXCEPT !.dirty = TRUE,
                                         !.buf = [b \in In |-> IF b >= fil.fptr % SS /\ b < (fil.fptr % SS) + k
                                                               THEN writes ELSE @[b]]], k)
  BY <1>3 DEF WriteCached
<1>5. ~OnSector => ~OnCluster /\ o = Chain(fil.clust, fat, 0)
  BY <1>2, <1>4, Boundary DEF OnSector, OnCluster
<1>6. o \in WriteCluster
  BY <1>4, <1>5 DEF WriteCluster
<1>7. CASE o.r = Junk /\ Abort(fil) /\ Spend(o.cost) /\ UNCHANGED <<data, content>>
  BY <1>1, <1>4, <1>6, <1>7, WriteClusterBroken
<1>8. CASE o.r \in Clus
  <2>1. o.r # Junk
    BY <1>8, Marks
  <2>2. PICK p \in (IF OnSector THEN WriteSector(Entered(fil, o.r), <<o.r, Csect>>) ELSE {Done(fil, data)}) :
                  /\ data' = p.d /\ Spend(p.cost)
                  /\ \/ ~p.ok /\ Abort(p.x) /\ UNCHANGED content
                     \/ p.ok /\ Wrote([p.x EXCEPT !.dirty = TRUE,
                                         !.buf = [b \in In |-> IF b >= fil.fptr % SS /\ b < (fil.fptr % SS) + k
                                                               THEN writes ELSE @[b]]], k)
    BY <1>4, <2>1
  <2>3. PICK v : Got(v, w, o, StartWith(o.r))
    BY <1>2, <1>6, WriteClusterIs
  <2>4. PICK y : y = Entered(fil, o.r)
    OBVIOUS
  <2>5. Filled(v, y, o.fat, <<o.r, Csect>>, p) /\ Reads(v, y, data, content)
    BY <1>1, <1>5, <1>6, <1>8, <2>2, <2>3, <2>4, WriteFilled
  <2>6. y.fptr = fil.fptr /\ y.clust = o.r /\ v.pl[o.r] = Plc(fil.fptr)
    BY <1>2, <1>8, <2>3, <2>4, EnteredIs DEF Got
  <2>7. /\ Frame(v, p.x, fat', data') /\ SameFile(y, p.x) /\ p.ok \in BOOLEAN
        /\ p.ok => p.x.sect = <<o.r, Csect>> /\ Reads(v, p.x, data', content)
    BY <1>4, <2>2, <2>5 DEF Filled
  <2>8. faults' \in 0 .. MaxFaults
    <3>1. p.cost = 0 \/ (p.cost = 1 /\ CanFail)
      BY <2>5 DEF Filled
    <3> QED
      BY <2>2, <3>1, Spent DEF Spend
  <2>9. CASE ~p.ok /\ Abort(p.x) /\ UNCHANGED content
    <3>1. Inv(v)'
      BY <1>1, <1>2, <2>7, <2>8, <2>9, AbortStep
    <3> QED
      BY <3>1 DEF IInv
  <2>10. CASE p.ok /\ Wrote([p.x EXCEPT !.dirty = TRUE,
                                         !.buf = [b \in In |-> IF b >= fil.fptr % SS /\ b < (fil.fptr % SS) + k
                                                               THEN writes ELSE @[b]]], k)
    <3>1. PICK z : z = [p.x EXCEPT !.dirty = TRUE,
                                         !.buf = [b \in In |-> IF b >= fil.fptr % SS /\ b < (fil.fptr % SS) + k
                                                               THEN writes ELSE @[b]]]
      OBVIOUS
    <3>2. Dirtied(p.x, z, k) /\ Wrote(z, k)
      BY <2>10, <3>1 DEF Dirtied
    <3>3. k \in Nat /\ k >= 1 /\ k <= call.n /\ (fil.fptr % SS) + k <= SS
      BY <1>2, <1>3, LeastPart
    <3>4. p.x \in Object /\ p.x.fptr = fil.fptr /\ p.x.clust = o.r
      BY <2>6, <2>7 DEF Frame, SameFile
    <3>5. SameFile(p.x, z) /\ z.sect = <<o.r, Csect>>
      BY <2>7, <2>10, <3>2, <3>3, <3>4, DirtiedIs
    <3>6. z.fptr = fil.fptr /\ z.clust = o.r
      BY <3>4, <3>5 DEF SameFile
    <3>7. content' = [i \in Offs |-> IF i >= fil.fptr /\ i < fil.fptr + k THEN writes ELSE content[i]]
      BY <3>2, <3>6 DEF Wrote
    <3>8. Frame(v, z, fat', data') /\ Reads(v, z, data', content')
      BY <1>1, <1>8, <2>6, <2>7, <2>10, <3>2, <3>3, <3>7, DirtiedFrame
    <3>9. Plc(fil.fptr + k - 1) = Plc(fil.fptr) /\ ((fil.fptr + k) % SS # 0 => Sec(fil.fptr + k) = Sec(fil.fptr))
      BY <1>2, <3>3, WithinSector
    <3>10. (fil.fptr + k) % SS # 0 => z.sect = <<z.clust, Sec(fil.fptr + k)>>
      BY <3>5, <3>6, <3>9 DEF Csect, Sec
    <3>11. Inv(v)'
      BY <1>1, <1>8, <2>6, <2>8, <3>2, <3>3, <3>6, <3>8, <3>9, <3>10, WroteStep
    <3> QED
      BY <3>11 DEF IInv
  <2> QED
    BY <2>2, <2>9, <2>10
<1> QED
  BY <1>4, <1>7, <1>8

-----------------------------------------------------------------------------
(* f_lseek.                                                                *)

\* The object y is x with fptr, clust and sclust set.
Pointed(x, y, f, c, s) ==
  /\ y \in Object /\ SameCache(x, y) /\ y.open = x.open /\ y.size = x.size /\ y.mod = x.mod /\ y.err = x.err
  /\ y.write = x.write /\ y.fptr = f /\ y.clust = c /\ y.sclust = s

\* The object at another offset and cluster.
LEMMA PointedIs ==
  ASSUME NEW x \in Object, NEW f \in Nat, NEW c \in Clus \cup {None}, NEW s \in Clus \cup {None}, NEW y
  PROVE  /\ y = [x EXCEPT !.fptr = f] => Pointed(x, y, f, x.clust, x.sclust)
         /\ y = [x EXCEPT !.fptr = f, !.clust = c] => Pointed(x, y, f, c, x.sclust)
         /\ y = [x EXCEPT !.fptr = f, !.clust = c, !.sclust = s] => Pointed(x, y, f, c, s)
<1>1. ASSUME y = [x EXCEPT !.fptr = f] PROVE Pointed(x, y, f, x.clust, x.sclust)
  <2>1. y \in Object
    BY <1>1 DEF Object
  <2> QED
    BY <1>1, <2>1 DEF Object, SameCache, Pointed
<1>2. ASSUME y = [x EXCEPT !.fptr = f, !.clust = c] PROVE Pointed(x, y, f, c, x.sclust)
  <2>1. PICK y1 \in Object : y1 = [x EXCEPT !.fptr = f]
    BY DEF Object
  <2>2. y \in Object
    BY <1>2, <2>1 DEF Object
  <2> QED
    BY <1>2, <2>2 DEF Object, SameCache, Pointed
<1>3. ASSUME y = [x EXCEPT !.fptr = f, !.clust = c, !.sclust = s] PROVE Pointed(x, y, f, c, s)
  <2>1. PICK y1 \in Object : y1 = [x EXCEPT !.fptr = f]
    BY DEF Object
  <2>2. PICK y2 \in Object : y2 = [y1 EXCEPT !.clust = c]
    BY <2>1 DEF Object
  <2>3. [y2 EXCEPT !.sclust = s] \in Object
    BY <2>2 DEF Object
  <2>4. y \in Object
    BY <1>3, <2>1, <2>2, <2>3
  <2> QED
    BY <1>3, <2>4 DEF Object, SameCache, Pointed
<1> QED
  BY <1>1, <1>2, <1>3

\* A step of f_lseek that goes on, or ends within the file as it is.
LEMMA SeekRound ==
  ASSUME NEW w, Inv(w), fil.open, ~fil.err, call.op # "write", NEW v, NEW t, NEW y, NEW f, NEW c, NEW s,
         Harmless(t), Chained(t, s, v), Extends(w, v), s = fil.sclust \/ fil.sclust = None,
         Pointed(fil, y, f, c, s), fil' = y, fat' = t, faults' \in 0 .. MaxFaults,
         call' \in [op : {"none", "read", "forward", "write", "seek"}, n : Nat],
         IF call'.op = "none" THEN call' = Idle /\ Cursor(v, y) ELSE call'.op = "seek" /\ call'.n >= 1 /\ Seeking(v, y),
         DeliversWritten', UNCHANGED <<ent, data, writes, content, safe, halfCut>>
  PROVE  Inv(v)'
<1>1. Frame(v, y, fat', data') /\ Reads(v, y, data', content')
  BY ExtendedFrame DEF Pointed
<1>2. Within(v, y, y)
  <2>1. content \in [Offs -> Bytes \cup {Undef}] /\ \A i \in Offs : safe[i] # Undef => content[i] = safe[i]
    BY DEF Inv, Types, SafeOk
  <2>2. fil.size \in Nat
    BY Bounds
  <2> QED
    BY <1>1, <2>1, <2>2 DEF Within, Pointed, Frame
<1>3. \A i \in Offs : content'[i] # Undef => i < y.size
  BY Unmoved DEF Inv, Pointed
<1>4. y.mod \/ (~y.dirty /\ ent.size = y.size)
  BY DEF Inv, EntryOk, Pointed, SameCache
<1>5. CallOk(v)'
  BY DEF CallOk, Pointed, Cursor, Seeking
<1> QED
  BY <1>1, <1>2, <1>3, <1>4, <1>5, RoundStep

\* The first cluster, created when there is none.
LEMMA FirstClusterIs ==
  ASSUME NEW w, Inv(w), fil.open,
         NEW o, o \in (IF fil.sclust # None THEN {Chain(fil.sclust, fat, 0)} ELSE CreateChain(None))
  PROVE  \E v : /\ Harmless(o.fat) /\ Extends(w, v)
                /\ o.r \in Clus => /\ o.cost = 0 /\ v.pl[o.r] = Plc(0) /\ Chained(o.fat, o.r, v)
                                   /\ o.r = fil.sclust \/ fil.sclust = None
                /\ o.r \notin Clus => /\ Chained(o.fat, fil.sclust, v) /\ fil.sclust = None
                                      /\ (o.r = None /\ o.cost = 0) \/ (o.r = Junk /\ o.cost = 1 /\ CanFail)
<1>1. /\ fat \in [Clus -> Values] /\ Harmless(fat) /\ Chained(fat, fil.sclust, w) /\ Extends(w, w)
      /\ fil.sclust \in Clus \cup {None}
  BY Unmoved, ObjectFields
<1>2. CASE fil.sclust # None
  <2>1. o.r = fil.sclust /\ o.fat = fat /\ o.cost = 0
    BY <1>2, ChainIs
  <2>2. fil.sclust \in Clus /\ w.pl[fil.sclust] = Plc(0)
    BY <1>1, <1>2, First DEF Chained
  <2> QED
    BY <1>1, <2>1, <2>2
<1>3. CASE fil.sclust = None
  <2>1. Grown(o, None, w, None)
    BY <1>1, <1>3, CreateChainIs
  <2>2. CASE o.r \in Clus
    <3>1. PICK v : Chained(o.fat, o.r, v) /\ Extends(w, v) /\ v.pl[o.r] = 1
      BY <2>1, <2>2 DEF Grown
    <3> QED
      BY <1>3, <2>1, <2>2, <3>1, First DEF Grown
  <2>3. CASE o.r \notin Clus
    BY <1>1, <1>3, <2>1, <2>3 DEF Grown
  <2> QED
    BY <2>2, <2>3
<1> QED
  BY <1>2, <1>3

\* FLseek.
LEMMA LseekStep ==
  ASSUME NEW w, Inv(w), NEW n \in Nat, FLseek(n)
  PROVE  IInv'
<1>1. Usable /\ got' = Nothing /\ UNCHANGED <<ent, data, writes, content, safe, halfCut>>
  BY DEF FLseek
<1>2. UNCHANGED data
  BY <1>1
<1>3. /\ fil.open /\ ~fil.err /\ call = Idle /\ call.op = "none" /\ call.op # "write" /\ Cursor(w, fil)
      /\ fil.fptr \in Nat /\ fil.size \in Nat
  BY <1>1, UsableIs
<1>4. /\ fil \in Object /\ Harmless(fat) /\ Chained(fat, fil.sclust, w) /\ Extends(w, w)
      /\ fil.clust \in Clus \cup {None} /\ fil.sclust \in Clus \cup {None}
  BY <1>3, Unmoved, ObjectFields
<1>5. PICK ofs : ofs = Clipped(n)
  OBVIOUS
<1>6. ofs \in Nat
  BY <1>3, <1>5 DEF Clipped
<1>7. PICK base : base = ((fil.fptr - 1) \div Bcs) * Bcs
  OBVIOUS
<1>8. \/ ofs = 0 /\ fil' = [fil EXCEPT !.fptr = 0] /\ UNCHANGED <<call, fat, faults>>
      \/ /\ ofs # 0 /\ fil.fptr > 0 /\ (ofs - 1) \div Bcs >= (fil.fptr - 1) \div Bcs
         /\ fil' = [fil EXCEPT !.fptr = base]
         /\ call' = [op |-> "seek", n |-> ofs - base]
         /\ UNCHANGED <<fat, faults>>
      \/ /\ ofs # 0
         /\ \E o \in (IF fil.sclust # None THEN {Chain(fil.sclust, fat, 0)} ELSE CreateChain(None)) :
              /\ fat' = o.fat /\ Spend(o.cost)
              /\ \/ o.r = Junk /\ Abort([fil EXCEPT !.fptr = 0])
                 \/ o.r = None /\ fil' = [fil EXCEPT !.fptr = 0, !.clust = o.r, !.sclust = o.r] /\ UNCHANGED call
                 \/ o.r \in Clus /\ fil' = [fil EXCEPT !.fptr = 0, !.clust = o.r, !.sclust = o.r]
                                 /\ call' = [op |-> "seek", n |-> ofs]
  BY <1>5, <1>7 DEF FLseek
<1>9. faults \in 0 .. MaxFaults /\ DeliversWritten'
  BY <1>1, NothingDelivered DEF Inv, Types
<1>10. CASE ofs = 0 /\ fil' = [fil EXCEPT !.fptr = 0] /\ UNCHANGED <<call, fat, faults>>
  <2>1. Pointed(fil, fil', 0, fil.clust, fil.sclust)
    BY <1>4, <1>10, PointedIs
  <2>2. Cursor(w, fil')
    BY <1>3, <2>1, First DEF Pointed, Cursor
  <2>3. call' \in [op : {"none", "read", "forward", "write", "seek"}, n : Nat] /\ call'.op = "none" /\ call' = Idle
    BY <1>3, <1>10 DEF Idle
  <2>4. PICK y : y = fil'
    OBVIOUS
  <2>5. Pointed(fil, y, 0, fil.clust, fil.sclust) /\ Cursor(w, y)
    BY <2>1, <2>2, <2>4
  <2>6. fat' = fat /\ faults' \in 0 .. MaxFaults
    BY <1>9, <1>10
  <2>7. Inv(w)'
    BY <1>1, <1>3, <1>4, <1>9, <2>3, <2>4, <2>5, <2>6, SeekRound
  <2> QED
    BY <2>7 DEF IInv
<1>11. CASE /\ ofs # 0 /\ fil.fptr > 0 /\ (ofs - 1) \div Bcs >= (fil.fptr - 1) \div Bcs
            /\ fil' = [fil EXCEPT !.fptr = base]
            /\ call' = [op |-> "seek", n |-> ofs - base]
            /\ UNCHANGED <<fat, faults>>
  <2>1. base \in Nat /\ base % Bcs = 0 /\ Plc(base) = Plc(fil.fptr - 1)
    BY <1>3, <1>7, <1>11, Base
  <2>2. base < ofs
    <3>1. PICK a : a = (fil.fptr - 1) \div Bcs
      OBVIOUS
    <3>2. PICK b : b = (ofs - 1) \div Bcs
      OBVIOUS
    <3>3. fil.fptr - 1 \in Nat /\ ofs - 1 \in Nat
      BY <1>3, <1>6, <1>11
    <3>4. a \in Nat /\ b \in Nat /\ a <= b /\ (ofs - 1) % Bcs \in 0 .. Bcs - 1 /\ ofs - 1 = Bcs * b + ((ofs - 1) % Bcs)
      BY <1>11, <3>1, <3>2, <3>3, Sizes, DivMod
    <3>5. Bcs * a <= Bcs * b /\ Bcs * a \in Nat /\ Bcs * b \in Nat
      BY <3>4, Sizes, Times
    <3>6. base = Bcs * a
      BY <1>7, <3>1, <3>4, Sizes
    <3>7. PICK r \in 0 .. Bcs - 1 : r = (ofs - 1) % Bcs
      BY <3>4
    <3>8. ofs - 1 = Bcs * b + r /\ r \in Nat
      BY <3>4, <3>7, Sizes
    <3> QED
      BY <1>6, <3>5, <3>6, <3>8
  <2>3. PICK m \in Nat : m = ofs - base /\ m >= 1
    BY <1>6, <2>1, <2>2
  <2>4. PICK y : y = fil'
    OBVIOUS
  <2>5. Pointed(fil, y, base, fil.clust, fil.sclust)
    BY <1>4, <1>11, <2>1, <2>4, PointedIs
  <2>6. fil.clust \in Clus /\ w.pl[fil.clust] = Plc(fil.fptr - 1)
    BY <1>3, <1>11 DEF Cursor
  <2>7. Seeking(w, y)
    BY <2>1, <2>5, <2>6 DEF Pointed, Seeking
  <2>8. call' = [op |-> "seek", n |-> m]
    BY <1>11, <2>3
  <2>9. call' \in [op : {"none", "read", "forward", "write", "seek"}, n : Nat] /\ call'.op = "seek" /\ call'.n = m
    BY <2>8
  <2>10. fat' = fat /\ faults' \in 0 .. MaxFaults
    BY <1>9, <1>11
  <2>11. Inv(w)'
    BY <1>1, <1>3, <1>4, <1>9, <2>3, <2>4, <2>5, <2>7, <2>9, <2>10, SeekRound
  <2> QED
    BY <2>11 DEF IInv
<1>12. ASSUME ofs # 0,
              NEW o, o \in (IF fil.sclust # None THEN {Chain(fil.sclust, fat, 0)} ELSE CreateChain(None)),
              fat' = o.fat, Spend(o.cost),
              \/ o.r = Junk /\ Abort([fil EXCEPT !.fptr = 0])
              \/ o.r = None /\ fil' = [fil EXCEPT !.fptr = 0, !.clust = o.r, !.sclust = o.r] /\ UNCHANGED call
              \/ o.r \in Clus /\ fil' = [fil EXCEPT !.fptr = 0, !.clust = o.r, !.sclust = o.r]
                              /\ call' = [op |-> "seek", n |-> ofs]
       PROVE  IInv'
  <2>1. PICK v : /\ Harmless(o.fat) /\ Extends(w, v)
                 /\ o.r \in Clus => /\ o.cost = 0 /\ v.pl[o.r] = Plc(0) /\ Chained(o.fat, o.r, v)
                                    /\ o.r = fil.sclust \/ fil.sclust = None
                 /\ o.r \notin Clus => /\ Chained(o.fat, fil.sclust, v) /\ fil.sclust = None
                                       /\ (o.r = None /\ o.cost = 0) \/ (o.r = Junk /\ o.cost = 1 /\ CanFail)
    BY <1>3, <1>12, FirstClusterIs
  <2>2. faults' \in 0 .. MaxFaults
    BY <1>12, <2>1, Spent DEF Spend
  <2>3. CASE o.r = Junk /\ Abort([fil EXCEPT !.fptr = 0])
    <3>1. PICK y : y = [fil EXCEPT !.fptr = 0]
      OBVIOUS
    <3>2. Pointed(fil, y, 0, fil.clust, fil.sclust)
      BY <1>4, <3>1, PointedIs
    <3>3. Frame(v, y, fat', data')
      BY <1>2, <1>3, <1>12, <2>1, <2>3, <3>2, Marks, ExtendedFrame DEF Pointed
    <3>4. Inv(v)'
      BY <1>1, <1>3, <2>2, <2>3, <3>1, <3>3, AbortStep
    <3> QED
      BY <3>4 DEF IInv
  <2>4. CASE o.r = None /\ fil' = [fil EXCEPT !.fptr = 0, !.clust = o.r, !.sclust = o.r] /\ UNCHANGED call
    <3>1. PICK y : y = fil'
      OBVIOUS
    <3>2. Pointed(fil, y, 0, None, None)
      BY <1>4, <2>4, <3>1, PointedIs
    <3>3. Cursor(v, y)
      BY <1>3, <3>2, First DEF Pointed, Cursor
    <3>4. call' \in [op : {"none", "read", "forward", "write", "seek"}, n : Nat] /\ call'.op = "none" /\ call' = Idle
      BY <1>3, <2>4 DEF Idle
    <3>5. Chained(o.fat, None, v) /\ fil.sclust = None
      BY <2>1, <2>4, Marks
    <3>6. Inv(v)'
      BY <1>1, <1>3, <1>9, <1>12, <2>1, <2>2, <3>1, <3>2, <3>3, <3>4, <3>5, SeekRound
    <3> QED
      BY <3>6 DEF IInv
  <2>5. CASE o.r \in Clus /\ fil' = [fil EXCEPT !.fptr = 0, !.clust = o.r, !.sclust = o.r]
                          /\ call' = [op |-> "seek", n |-> ofs]
    <3>1. PICK y : y = fil'
      OBVIOUS
    <3>2. Pointed(fil, y, 0, o.r, o.r)
      BY <1>4, <2>5, <3>1, PointedIs
    <3>3. Seeking(v, y)
      BY <2>1, <2>5, <3>2, First DEF Pointed, Seeking
    <3>4. call' \in [op : {"none", "read", "forward", "write", "seek"}, n : Nat] /\ call'.op = "seek" /\ call'.n >= 1
      BY <1>6, <1>12, <2>5
    <3>5. Inv(v)'
      BY <1>1, <1>3, <1>9, <1>12, <2>1, <2>2, <2>5, <3>1, <3>2, <3>3, <3>4, SeekRound
    <3> QED
      BY <3>5 DEF IInv
  <2> QED
    BY <1>12, <2>3, <2>4, <2>5
<1> QED
  BY <1>8, <1>10, <1>11, <1>12

\* The cluster in hand while f_lseek goes along the chain.
LEMMA SeekHand ==
  ASSUME NEW w, Inv(w), call.op = "seek"
  PROVE  /\ fil.open /\ ~fil.err /\ fil.fptr \in Nat /\ fil.fptr % Bcs = 0 /\ fil.clust \in Clus
         /\ w.pl[fil.clust] = Plc(fil.fptr) /\ w.pl[fil.clust] # 0 /\ w.pl[fil.clust] <= w.len /\ w.len \in Nat
         /\ fil.sclust \in Clus /\ fil \in Object /\ Chained(fat, fil.sclust, w)
<1>1. fil.open /\ ~fil.err /\ Seeking(w, fil)
  BY InCall
<1>2. fil.fptr \in Nat /\ fil \in Object /\ Chained(fat, fil.sclust, w) /\ fil.sclust \in Clus \cup {None}
  BY <1>1, Unmoved, ObjectFields
<1>3. fil.fptr % Bcs = 0 /\ fil.clust \in Clus /\ w.pl[fil.clust] = Plc(fil.fptr)
  BY <1>1 DEF Seeking
<1>4. Plc(fil.fptr) >= 1
  BY <1>2, Position
<1>5. w.pl[fil.clust] \in 0 .. w.len /\ w.len \in Nat
  BY <1>2, <1>3 DEF Chained, Placed
<1>6. fil.sclust \in Clus
  <2>1. w.len # 0
    BY <1>3, <1>4, <1>5
  <2> QED
    BY <1>2, <2>1 DEF Chained
<1> QED
  BY <1>1, <1>2, <1>3, <1>4, <1>5, <1>6

\* SeekOn: f_lseek goes on by one cluster, and may create it.
LEMMA SeekOnStep ==
  ASSUME NEW w, Inv(w), SeekOn
  PROVE  IInv'
<1>1. call.op = "seek" /\ call.n > Bcs /\ UNCHANGED <<ent, data, writes, hist>>
  BY DEF SeekOn
<1>2. UNCHANGED <<ent, data, writes, content, safe, halfCut>> /\ got' = got /\ content' = content
  BY <1>1 DEF hist
<1>3. /\ fil.open /\ ~fil.err /\ fil.fptr \in Nat /\ fil.fptr % Bcs = 0 /\ fil.clust \in Clus
      /\ w.pl[fil.clust] = Plc(fil.fptr) /\ w.pl[fil.clust] # 0
      /\ fil.sclust \in Clus /\ fil \in Object /\ Chained(fat, fil.sclust, w)
  BY <1>1, SeekHand
<1>4. fat \in [Clus -> Values] /\ Harmless(fat) /\ Extends(w, w) /\ call.n \in Nat /\ call.op # "write"
      /\ call \in [op : {"none", "read", "forward", "write", "seek"}, n : Nat] /\ Bcs \in Nat /\ Bcs >= 1
  BY <1>1, Unmoved, InCall, Sizes
<1>5. DeliversWritten'
  BY <1>2 DEF Inv, DeliversWritten
<1>6. PICK o \in (IF fil.write THEN CreateChain(fil.clust) ELSE Following(fil.clust)) :
       /\ fat' = o.fat /\ Spend(o.cost)
       /\ \/ /\ fil.write /\ o.r = None
             /\ call' = [call EXCEPT !.n = Bcs] /\ UNCHANGED fil
          \/ o.r \notin Clus \cup {None} /\ Abort(fil)
          \/ /\ o.r \in Clus
             /\ fil' = [fil EXCEPT !.clust = o.r, !.fptr = @ + Bcs]
             /\ call' = [call EXCEPT !.n = @ - Bcs]
  BY DEF SeekOn
<1>7. PICK v : /\ Harmless(o.fat) /\ Extends(w, v) /\ Chained(o.fat, fil.sclust, v)
               /\ o.r \in Clus => v.pl[o.r] = w.pl[fil.clust] + 1
               /\ o.r \notin Clus => o.fat = fat \/ o.r # None
               /\ o.cost = 0 \/ (o.cost = 1 /\ CanFail)
  <2>1. CASE fil.write
    <3>1. Grown(o, fil.sclust, w, fil.clust)
      BY <1>3, <1>4, <1>6, <2>1, Marks, CreateChainIs
    <3>2. fil.sclust # None /\ fil.clust # None
      BY <1>3, Marks
    <3>3. CASE o.r \in Clus
      BY <3>1, <3>2, <3>3 DEF Grown
    <3>4. CASE o.r \notin Clus
      BY <1>4, <3>1, <3>4, Marks DEF Grown
    <3> QED
      BY <3>3, <3>4
  <2>2. CASE ~fil.write
    <3>1. o \in Following(fil.clust)
      BY <1>6, <2>2
    <3>2. /\ o.fat = fat
          /\ o.r \in Clus => o.cost = 0 /\ w.pl[o.r] = w.pl[fil.clust] + 1
          /\ o.r \notin Clus => (o.r = EOC /\ o.cost = 0) \/ (o.r = Junk /\ o.cost = 1 /\ CanFail)
      BY <1>3, <3>1, FollowingIs
    <3> QED
      BY <1>3, <1>4, <3>2
  <2> QED
    BY <2>1, <2>2
<1>8. faults' \in 0 .. MaxFaults
  BY <1>6, <1>7, Spent DEF Spend
<1>9. CASE fil.write /\ o.r = None /\ call' = [call EXCEPT !.n = Bcs] /\ UNCHANGED fil
  <2>1. PICK y : y = fil
    OBVIOUS
  <2>2. Pointed(fil, y, fil.fptr, fil.clust, fil.sclust)
    BY <1>3, <2>1 DEF Pointed, SameCache
  <2>3. Seeking(v, y)
    BY <1>3, <1>7, <2>1 DEF Seeking, Extends
  <2>4. call' \in [op : {"none", "read", "forward", "write", "seek"}, n : Nat] /\ call'.op = "seek" /\ call'.n >= 1
    BY <1>1, <1>4, <1>9
  <2>5. fil' = y
    BY <1>9, <2>1
  <2>6. Inv(v)'
    BY <1>2, <1>3, <1>4, <1>5, <1>6, <1>7, <1>8, <2>2, <2>3, <2>4, <2>5, SeekRound
  <2> QED
    BY <2>6 DEF IInv
<1>10. CASE o.r \notin Clus \cup {None} /\ Abort(fil)
  <2>1. SameCache(fil, fil)
    BY DEF SameCache
  <2>2. Frame(v, fil, fat', data')
    BY <1>2, <1>3, <1>6, <1>7, <2>1, ExtendedFrame
  <2>3. Inv(v)'
    BY <1>2, <1>3, <1>8, <1>10, <2>2, AbortStep
  <2> QED
    BY <2>3 DEF IInv
<1>11. CASE /\ o.r \in Clus
            /\ fil' = [fil EXCEPT !.clust = o.r, !.fptr = @ + Bcs]
            /\ call' = [call EXCEPT !.n = @ - Bcs]
  <2>1. PICK f \in Nat : f = fil.fptr + Bcs /\ f % Bcs = 0 /\ Plc(f) = Plc(fil.fptr) + 1
    BY <1>3, Along
  <2>2. PICK y : y = fil'
    OBVIOUS
  <2>3. y = [fil EXCEPT !.clust = o.r, !.fptr = f]
    BY <1>11, <2>1, <2>2
  <2>4. [fil EXCEPT !.clust = o.r, !.fptr = f] = [fil EXCEPT !.fptr = f, !.clust = o.r]
    BY <1>3 DEF Object
  <2>5. Pointed(fil, y, f, o.r, fil.sclust)
    BY <1>3, <1>11, <2>3, <2>4, PointedIs
  <2>6. Seeking(v, y)
    BY <1>3, <1>7, <1>11, <2>1, <2>5 DEF Pointed, Seeking
  <2>7. PICK m \in Nat : m = call.n - Bcs /\ m >= 1
    BY <1>1, <1>4
  <2>8. call' = [call EXCEPT !.n = m]
    BY <1>11, <2>7
  <2>9. call' \in [op : {"none", "read", "forward", "write", "seek"}, n : Nat] /\ call'.op = "seek" /\ call'.n = m
    BY <1>1, <1>4, <2>8
  <2>10. Inv(v)'
    BY <1>2, <1>3, <1>4, <1>5, <1>6, <1>7, <1>8, <2>2, <2>5, <2>6, <2>7, <2>9, SeekRound
  <2> QED
    BY <2>10 DEF IInv
<1> QED
  BY <1>6, <1>9, <1>10, <1>11

\* f_lseek reaches its target.
LEMMA SeekEndStep ==
  ASSUME NEW w, Inv(w), SeekEnd
  PROVE  Inv(w)'
<1>1. call.op = "seek" /\ call.n <= Bcs /\ UNCHANGED <<fat, ent, writes, hist>>
  BY DEF SeekEnd
<1>2. UNCHANGED <<ent, writes, content, safe, halfCut>> /\ got' = got /\ content' = content /\ fat' = fat
  BY <1>1 DEF hist
<1>3. /\ fil.open /\ ~fil.err /\ fil.fptr \in Nat /\ fil.fptr % Bcs = 0 /\ fil.clust \in Clus
      /\ w.pl[fil.clust] = Plc(fil.fptr) /\ w.pl[fil.clust] <= w.len /\ w.len \in Nat
      /\ fil.sclust \in Clus /\ fil \in Object /\ Chained(fat, fil.sclust, w)
  BY <1>1, SeekHand
<1>4. Harmless(fat) /\ Extends(w, w) /\ call.n \in Nat /\ call.n >= 1 /\ call.op # "write"
  BY <1>1, Unmoved, InCall
<1>5. PICK f : f = fil.fptr + call.n
  OBVIOUS
<1>6. /\ f \in Nat /\ f > 0 /\ Plc(f - 1) = Plc(fil.fptr)
      /\ f % SS # 0 => Plc(f) = Plc(fil.fptr) /\ Sec(f) = call.n \div SS
  BY <1>1, <1>3, <1>4, <1>5, Along
<1>7. PICK x : x = [fil EXCEPT !.fptr = f]
  OBVIOUS
<1>8. Pointed(fil, x, f, fil.clust, fil.sclust)
  BY <1>3, <1>6, <1>7, PointedIs
<1>9. PICK s : s = IF f % SS = 0 THEN x.sect ELSE <<fil.clust, call.n \div SS>>
  OBVIOUS
<1>10. PICK o \in Fill(x, s) :
         /\ data' = o.d /\ Spend(o.cost)
         /\ \/ ~o.ok /\ Abort(o.x)
            \/ /\ o.ok /\ call' = Idle
               /\ fil' = IF f > fil.size THEN [o.x EXCEPT !.size = f, !.mod = TRUE] ELSE o.x
  <2>1. x.fptr = f /\ x.size = fil.size
    BY <1>8 DEF Pointed
  <2>2. [fil EXCEPT !.fptr = @ + call.n] = x
    BY <1>5, <1>7
  <2> QED
    BY <1>9, <2>1, <2>2 DEF SeekEnd
<1>11. Frame(w, x, fat, data) /\ Reads(w, x, data, content)
  BY <1>3, <1>4, <1>8, ExtendedFrame DEF Pointed
<1>12. s = x.sect \/ s \in Sectors
  <2>1. CASE f % SS # 0
    BY <1>3, <1>6, <1>9, <2>1, Position DEF Sectors
  <2> QED
    BY <1>9, <2>1
<1>13. Filled(w, x, fat, s, o)
  BY <1>11, <1>12, FillIs
<1>14. Frame(w, o.x, fat', data') /\ o.ok \in BOOLEAN /\ SameFile(x, o.x) /\ o.x \in Object
  BY <1>2, <1>10, <1>13 DEF Filled
<1>15. faults' \in 0 .. MaxFaults
  <2>1. o.cost = 0 \/ (o.cost = 1 /\ CanFail)
    BY <1>13 DEF Filled
  <2> QED
    BY <1>10, <2>1, Spent DEF Spend
<1>16. CASE ~o.ok /\ Abort(o.x)
  BY <1>2, <1>3, <1>14, <1>15, <1>16, AbortStep
<1>17. CASE /\ o.ok /\ call' = Idle
            /\ fil' = IF f > fil.size THEN [o.x EXCEPT !.size = f, !.mod = TRUE] ELSE o.x
  <2>1. o.x.sect = s /\ Reads(w, o.x, data', content') /\ (~x.dirty => ~o.x.dirty)
    BY <1>2, <1>10, <1>11, <1>13, <1>17 DEF Filled
  <2>2. /\ o.x.open /\ o.x.fptr = f /\ o.x.size = fil.size /\ o.x.mod = fil.mod /\ ~o.x.err
        /\ o.x.clust = fil.clust /\ o.x.sclust = fil.sclust /\ fil.size \in Nat /\ fil.mod \in BOOLEAN
    BY <1>3, <1>8, <1>14, ObjectFields DEF Pointed, SameFile
  <2>3. PICK y : y = fil'
    OBVIOUS
  <2>4. /\ y \in Object /\ SameCache(o.x, y) /\ y.open /\ y.fptr = f /\ ~y.err /\ y.clust = fil.clust /\ y.sclust = fil.sclust
        /\ y.size = (IF f > fil.size THEN f ELSE fil.size) /\ (f > fil.size => y.mod) /\ (f <= fil.size => y.mod = fil.mod)
    <3>1. CASE f > fil.size
      <4>1. y = [o.x EXCEPT !.size = f, !.mod = TRUE]
        BY <1>17, <2>3, <3>1
      <4>2. y \in Object
        BY <1>6, <1>14, <4>1 DEF Object
      <4>3. /\ SameCache(o.x, y) /\ y.open = o.x.open /\ y.fptr = o.x.fptr /\ y.err = o.x.err /\ y.clust = o.x.clust
            /\ y.sclust = o.x.sclust /\ y.size = f /\ y.mod
        BY <1>14, <4>1 DEF Object, SameCache
      <4>4. y.open /\ y.fptr = f /\ ~y.err /\ y.clust = fil.clust /\ y.sclust = fil.sclust
        BY <2>2, <4>3
      <4>5. ~(f <= fil.size)
        BY <1>6, <2>2, <3>1
      <4> QED
        BY <3>1, <4>2, <4>3, <4>4, <4>5
    <3>2. CASE ~(f > fil.size)
      <4>1. y = o.x
        BY <1>17, <2>3, <3>2
      <4> QED
        BY <1>6, <1>14, <2>2, <3>2, <4>1 DEF SameCache
    <3> QED
      BY <3>1, <3>2
  <2>5. y.size >= fil.size /\ y.fptr <= y.size /\ y.size \in Nat
    BY <1>6, <2>2, <2>4
  <2>6. y.size <= w.len * Bcs
    <3>1. f - 1 \in Nat /\ w.len * Bcs \in Nat
      <4>1. f - 1 \in Nat
        BY <1>6
      <4> QED
        BY <1>3, <4>1, Sizes
    <3>2. Plc(f - 1) <= w.len
      BY <1>3, <1>6
    <3>3. f - 1 < w.len * Bcs
      BY <1>3, <3>1, <3>2, Reaching
    <3>4. fil.size <= w.len * Bcs
      BY <1>11 DEF Frame
    <3> QED
      BY <1>6, <2>2, <2>4, <3>1, <3>3, <3>4
  <2>7. Within(w, o.x, y)
    <3>1. content \in [Offs -> Bytes \cup {Undef}] /\ \A i \in Offs : safe[i] # Undef => content[i] = safe[i]
      BY DEF Inv, Types, SafeOk
    <3>2. call' \in [op : {"none", "read", "forward", "write", "seek"}, n : Nat]
      BY <1>17 DEF Idle
    <3>3. ~y.mod => ~fil.mod
      BY <1>6, <2>2, <2>4
    <3> QED
      BY <1>2, <1>14, <1>15, <2>2, <2>3, <2>4, <2>5, <2>6, <3>1, <3>2, <3>3 DEF Within, SameCache
  <2>8. \A i \in Offs : content'[i] # Undef => i < y.size
    <3>1. SUFFICES ASSUME NEW i \in Offs, content[i] # Undef PROVE i < y.size
      BY <1>2
    <3>2. i < fil.size /\ i \in Nat
      BY <1>3, <3>1, Unmoved DEF Inv, Offs
    <3> QED
      BY <2>2, <2>5, <3>2
  <2>9. y.mod \/ (~y.dirty /\ ent.size = y.size)
    <3>1. SUFFICES ASSUME ~y.mod PROVE ~y.dirty /\ ent.size = y.size
      OBVIOUS
    <3>2. ~(f > fil.size) /\ ~fil.mod
      BY <1>6, <2>2, <2>4, <3>1
    <3>3. ~fil.dirty /\ ent.size = fil.size
      BY <1>3, <1>4, <3>2 DEF Inv, EntryOk
    <3>4. ~o.x.dirty
      BY <1>8, <2>1, <3>3 DEF Pointed, SameCache
    <3> QED
      BY <2>4, <3>2, <3>3, <3>4 DEF SameCache
  <2>10. CallOk(w)'
    <3>1. Cursor(w, y)
      <4>1. y.fptr % SS # 0 => y.sect = <<y.clust, Sec(y.fptr)>>
        BY <1>6, <1>9, <2>1, <2>4 DEF SameCache
      <4>2. y.clust \in Clus /\ w.pl[y.clust] = Plc(y.fptr - 1)
        BY <1>3, <1>6, <2>4
      <4> QED
        BY <2>5, <4>1, <4>2 DEF Cursor
    <3> QED
      BY <1>17, <2>3, <2>4, <3>1 DEF CallOk, Cursor, Idle
  <2>11. DeliversWritten'
    BY <1>2 DEF Inv, DeliversWritten
  <2>12. y.sect = o.x.sect /\ y.buf = o.x.buf /\ y.dirty = o.x.dirty
    BY <2>4 DEF SameCache
  <2> QED
    BY <1>3, <2>1, <2>7, <2>8, <2>9, <2>10, <2>11, <2>12, RoundStep
<1> QED
  BY <1>10, <1>16, <1>17

-----------------------------------------------------------------------------
(* f_open.                                                                 *)

\* With the file closed, everything is on the card.
LEMMA ClosedIs ==
  ASSUME NEW w, Inv(w), ~fil.open
  PROVE  /\ fil = Closed /\ Start = ent.start /\ Size = ent.size /\ ~fil.err /\ ~fil.dirty
         /\ Chained(fat, ent.start, w) /\ fat \in [Clus -> Values] /\ data \in Area
         /\ ent.size \in Nat /\ ent.size <= w.len * Bcs /\ ent.start \in Clus \cup {None}
         /\ \A i \in Offs, s \in Sectors : content[i] # Undef /\ At(w, s, i) => data[s][i % SS] = content[i]
         /\ \A i \in Offs, s \in Sectors : safe[i] # Undef /\ At(w, s, i) => data[s][i % SS] = safe[i]
         /\ \A i \in Offs : content[i] # Undef => i < ent.size
<1>1. fil = Closed /\ Start = ent.start /\ Size = ent.size
  BY DEF Inv, Types, Start, Size
<1>2. fil.err = FALSE /\ fil.dirty = FALSE /\ fil.sect = None
  BY <1>1 DEF Closed, NoSector
<1>3. ent.size \in Nat /\ ent.start \in Clus \cup {None}
  BY DEF Inv, Types
<1>4. Chained(fat, ent.start, w) /\ fat \in [Clus -> Values] /\ data \in Area /\ ent.size <= w.len * Bcs
  BY <1>1, Unmoved DEF Inv
<1>5. Reads(w, fil, data, content) /\ \A i \in Offs : content[i] # Undef => i < ent.size
  BY <1>1, <1>2 DEF Inv
<1>6. \A i \in Offs, s \in Sectors : content[i] # Undef /\ At(w, s, i) => data[s][i % SS] = content[i]
  BY <1>2, <1>5 DEF Reads
<1>7. \A i \in Offs, s \in Sectors : safe[i] # Undef /\ At(w, s, i) => data[s][i % SS] = safe[i]
  BY DEF Inv, Keeps
<1> QED
  BY <1>1, <1>2, <1>3, <1>4, <1>5, <1>6, <1>7

\* f_open fails.
LEMMA NotOpened ==
  ASSUME NEW w, Inv(w), UNCHANGED <<card, fil, call, writes, content, safe, halfCut>>, got' = Nothing,
         call = Idle, faults' \in 0 .. MaxFaults
  PROVE  Inv(w)'
<1>1. UNCHANGED <<fat, ent, data, fil, call, writes, content, safe, halfCut>>
  BY DEF card
<1>2. Types'
  BY <1>1 DEF Inv, Types
<1>3. Start' = Start /\ Size' = Size
  BY <1>1 DEF Start, Size
<1>4. EntryOk' /\ SafeOk'
  BY <1>1, <1>3 DEF Inv, EntryOk, SafeOk
<1>5. CallOk(w)'
  BY <1>1 DEF Inv, CallOk, Cursor, Seeking, Idle
<1>6. fil'.err \/ (Reads(w, fil, data, content)' /\ \A i \in Offs : content'[i] # Undef => i < Size')
  BY <1>1, <1>3 DEF Inv, Reads
<1>7. Keeps(w, fil, data, safe)' /\ Dirt(w, fil)' /\ OthersUntouched'
  BY <1>1 DEF Inv, Keeps, Dirt, OthersUntouched
<1>8. Chained(fat', Start', w) /\ Size' <= w.len * Bcs
  BY <1>1, <1>3 DEF Inv
<1> QED
  BY <1>2, <1>4, <1>5, <1>6, <1>7, <1>8, NothingDelivered DEF Inv

\* f_open succeeds: the object y for the file as it is.
LEMMA OpenedStep ==
  ASSUME NEW w, Inv(w), ~fil.open, call = Idle,
         NEW y \in Object, fil' = y, y.open, ~y.err, ~y.mod, ~y.dirty, y.size = ent.size, y.sclust = ent.start,
         Cursor(w, y), Reads(w, y, data, content),
         UNCHANGED <<card, call, writes, content, safe, halfCut>>, got' = Nothing, faults' \in 0 .. MaxFaults
  PROVE  Inv(w)'
<1>0. UNCHANGED <<fat, ent, data, call, writes, content, safe, halfCut>>
  BY DEF card
<1>1. /\ Start = ent.start /\ Size = ent.size
      /\ Chained(fat, ent.start, w) /\ ent.size \in Nat /\ ent.size <= w.len * Bcs
      /\ \A i \in Offs, s \in Sectors : safe[i] # Undef /\ At(w, s, i) => data[s][i % SS] = safe[i]
      /\ \A i \in Offs : content[i] # Undef => i < ent.size
  BY ClosedIs
<1>2. Types'
  BY <1>0 DEF Inv, Types
<1>3. Start' = Start /\ Size' = Size
  BY <1>0, <1>1 DEF Start, Size
<1>4. EntryOk'
  BY <1>0, <1>1 DEF EntryOk
<1>5. SafeOk'
  BY <1>0, <1>3 DEF Inv, SafeOk
<1>6. CallOk(w)'
  BY <1>0 DEF CallOk, Cursor, Idle
<1>7. Reads(w, fil, data, content)' /\ \A i \in Offs : content'[i] # Undef => i < Size'
  BY <1>0, <1>1, <1>3 DEF Reads
<1>8. Keeps(w, fil, data, safe)'
  BY <1>0, <1>1 DEF Keeps
<1>9. Dirt(w, fil)' /\ OthersUntouched'
  BY <1>0 DEF Inv, Dirt, OthersUntouched
<1> QED
  BY <1>0, <1>1, <1>2, <1>3, <1>4, <1>5, <1>6, <1>7, <1>8, <1>9, NothingDelivered DEF Inv

\* The object that f_open makes.
LEMMA OpenedIs ==
  ASSUME NEW w, Inv(w), ~fil.open, NEW b \in BOOLEAN, NEW y, y = Opened(b)
  PROVE  /\ y \in Object /\ y.open /\ ~y.err /\ ~y.mod /\ ~y.dirty /\ y.size = ent.size /\ y.sclust = ent.start
         /\ y.fptr = 0 /\ y.sect = NoSector /\ y.clust = None
<1>1. ent.size \in Nat /\ ent.start \in Clus \cup {None} /\ fil = Closed /\ fil \in Object
  BY ClosedIs, Unmoved
<1>2. PICK x \in Object : x = Closed /\ x.fptr = 0 /\ x.sect = NoSector /\ x.clust = None /\ ~x.err /\ ~x.mod /\ ~x.dirty
  BY <1>1 DEF Closed
<1>3. y = [[[[x EXCEPT !.open = TRUE] EXCEPT !.write = b] EXCEPT !.size = ent.size] EXCEPT !.sclust = ent.start]
  BY <1>2 DEF Opened
<1>4. PICK x1 \in Object : x1 = [x EXCEPT !.open = TRUE]
  BY DEF Object
<1>5. PICK x2 \in Object : x2 = [x1 EXCEPT !.write = b]
  BY DEF Object
<1>6. PICK x3 \in Object : x3 = [x2 EXCEPT !.size = ent.size]
  BY <1>1 DEF Object
<1>7. y \in Object /\ y = [x3 EXCEPT !.sclust = ent.start]
  BY <1>1, <1>3, <1>4, <1>5, <1>6 DEF Object
<1>8. x1.open /\ x1.fptr = x.fptr /\ x1.sect = x.sect /\ x1.clust = x.clust /\ x1.err = x.err /\ x1.mod = x.mod /\ x1.dirty = x.dirty
  BY <1>4 DEF Object
<1>9. x2.open = x1.open /\ x2.fptr = x.fptr /\ x2.sect = x.sect /\ x2.clust = x.clust /\ x2.err = x.err /\ x2.mod = x.mod /\ x2.dirty = x.dirty
  BY <1>5, <1>8 DEF Object
<1>10. /\ x3.open = x1.open /\ x3.fptr = x.fptr /\ x3.sect = x.sect /\ x3.clust = x.clust /\ x3.err = x.err /\ x3.mod = x.mod /\ x3.dirty = x.dirty
       /\ x3.size = ent.size
  BY <1>6, <1>9 DEF Object
<1>11. /\ y.open = x1.open /\ y.fptr = x.fptr /\ y.sect = x.sect /\ y.clust = x.clust /\ y.err = x.err /\ y.mod = x.mod /\ y.dirty = x.dirty
       /\ y.size = ent.size /\ y.sclust = ent.start
  BY <1>7, <1>10 DEF Object
<1> QED
  BY <1>2, <1>7, <1>8, <1>11

\* FOpen.
LEMMA OpenStep ==
  ASSUME NEW w, Inv(w), NEW b \in BOOLEAN, FOpen(b)
  PROVE  Inv(w)'
<1>1. /\ call = Idle /\ ~fil.open /\ fil' = Opened(b) /\ got' = Nothing
      /\ UNCHANGED <<card, call, counts, content, safe, halfCut>>
  BY DEF FOpen, CanBegin
<1>2. PICK y : y = Opened(b)
  OBVIOUS
<1>3. /\ y \in Object /\ y.open /\ ~y.err /\ ~y.mod /\ ~y.dirty /\ y.size = ent.size /\ y.sclust = ent.start
      /\ y.fptr = 0 /\ y.sect = NoSector /\ y.clust = None
  BY <1>1, <1>2, OpenedIs
<1>4. ent.size \in Nat /\ \A i \in Offs, s \in Sectors : content[i] # Undef /\ At(w, s, i) => data[s][i % SS] = content[i]
  BY <1>1, ClosedIs
<1>5. Cursor(w, y)
  BY <1>3, <1>4, First DEF Cursor
<1>6. Reads(w, y, data, content)
  BY <1>3, <1>4, Marks DEF Reads, NoSector
<1>7. UNCHANGED <<card, call, writes, content, safe, halfCut>> /\ faults' \in 0 .. MaxFaults
  BY <1>1 DEF counts, Inv, Types
<1> QED
  BY <1>1, <1>2, <1>3, <1>5, <1>6, <1>7, OpenedStep

\* A clean cache is filled.
LEMMA CleanFill ==
  ASSUME NEW x \in Object, ~x.dirty, NEW s, s = x.sect \/ s \in Sectors, data \in Area, NEW o \in Fill(x, s)
  PROVE  /\ ~o.ok => o.cost = 1 /\ CanFail
         /\ o.ok => /\ o.x \in Object /\ SameFile(x, o.x) /\ ~o.x.dirty /\ o.x.sect = s /\ o.cost = 0
                    /\ o.x = x \/ o.x.buf = data[s]
<1>1. CASE x.sect = s
  <2>1. o = Done(x, data)
    BY <1>1 DEF Fill
  <2> QED
    BY <1>1, <2>1 DEF Done, SameFile
<1>2. CASE x.sect # s
  <2>1. s \in Sectors /\ WriteBack(x) = {Done(x, data)}
    BY <1>2 DEF WriteBack
  <2>2. Done(x, data).ok /\ Done(x, data).x = x /\ Done(x, data).d = data
    BY DEF Done
  <2>3. \/ o = Done([x EXCEPT !.sect = s, !.buf = data[s]], data)
        \/ CanFail /\ \E e : o = Broken(e, data)
    BY <1>2, <2>1, <2>2 DEF Fill
  <2>4. CASE o = Done([x EXCEPT !.sect = s, !.buf = data[s]], data)
    <3>1. PICK b \in [In -> Bytes] : b = data[s]
      BY <2>1 DEF Area
    <3>2. PICK y : y = [x EXCEPT !.sect = s, !.buf = b]
      OBVIOUS
    <3>3. y \in Object
      BY <2>1, <3>2 DEF Object
    <3>4. SameFile(x, y) /\ y.dirty = x.dirty /\ y.sect = s /\ y.buf = b
      BY <3>2 DEF Object, SameFile
    <3>5. o.ok /\ o.x = y /\ o.cost = 0
      BY <2>4, <3>1, <3>2 DEF Done
    <3> QED
      BY <3>1, <3>3, <3>4, <3>5
  <2>5. CASE CanFail /\ \E e : o = Broken(e, data)
    <3>1. ~o.ok /\ o.cost = 1
      BY <2>5 DEF Broken
    <3> QED
      BY <2>5, <3>1
  <2> QED
    BY <2>3, <2>4, <2>5
<1> QED
  BY <1>1, <1>2

\* FOpenAppend.
LEMMA AppendStep ==
  ASSUME NEW w, Inv(w), FOpenAppend
  PROVE  Inv(w)'
<1>1. call = Idle /\ ~fil.open /\ got' = Nothing /\ UNCHANGED <<card, call, writes, content, safe, halfCut>>
  BY DEF FOpenAppend, CanBegin
<1>2. /\ Chained(fat, ent.start, w) /\ fat \in [Clus -> Values] /\ data \in Area
      /\ ent.size \in Nat /\ ent.size <= w.len * Bcs
      /\ \A i \in Offs, s \in Sectors : content[i] # Undef /\ At(w, s, i) => data[s][i % SS] = content[i]
  BY <1>1, ClosedIs
<1>3. PICK n : n = ent.size
  OBVIOUS
<1>4. PICK x : x = IF n = 0 THEN Opened(TRUE)
                   ELSE [Opened(TRUE) EXCEPT !.fptr = n, !.clust = Walk(ent.start, (n - 1) \div Bcs)]
  OBVIOUS
<1>5. PICK s : s = IF n % SS = 0 THEN x.sect ELSE SectorOf(ent.start, n)
  OBVIOUS
<1>6. \/ \E o \in Fill(x, s) : fil' = (IF o.ok THEN o.x ELSE fil) /\ Spend(o.cost)
      \/ CanFail /\ Spend(1) /\ UNCHANGED fil
  BY <1>3, <1>4, <1>5 DEF FOpenAppend
<1>7. n # 0 => /\ Walk(ent.start, (n - 1) \div Bcs) \in Clus
               /\ w.pl[Walk(ent.start, (n - 1) \div Bcs)] = Plc(n - 1)
               /\ n % SS # 0 => SectorOf(ent.start, n) \in Sectors
                                /\ SectorOf(ent.start, n) = <<Walk(ent.start, (n - 1) \div Bcs), Sec(n)>>
  <2>1. SUFFICES ASSUME n # 0
                 PROVE  /\ Walk(ent.start, (n - 1) \div Bcs) \in Clus
                        /\ w.pl[Walk(ent.start, (n - 1) \div Bcs)] = Plc(n - 1)
                        /\ n % SS # 0 => SectorOf(ent.start, n) \in Sectors
                                         /\ SectorOf(ent.start, n) = <<Walk(ent.start, (n - 1) \div Bcs), Sec(n)>>
    OBVIOUS
  <2>2. n \in Nat /\ n - 1 \in Nat /\ n > 0 /\ w.len \in Nat
    BY <1>2, <1>3, <2>1 DEF Chained, Placed
  <2>3. n - 1 < w.len * Bcs
    <3>1. PICK b : b = w.len * Bcs
      OBVIOUS
    <3>2. b \in Nat /\ n <= b
      BY <1>2, <1>3, <2>2, <3>1, Sizes
    <3> QED
      BY <2>2, <3>1, <3>2
  <2>4. SectorOf(ent.start, n - 1) \in Sectors /\ At(w, SectorOf(ent.start, n - 1), n - 1)
    BY <1>2, <2>2, <2>3, SectorIs
  <2>5. SectorOf(ent.start, n - 1)[1] = Walk(ent.start, (n - 1) \div Bcs)
    BY DEF SectorOf
  <2>6. Walk(ent.start, (n - 1) \div Bcs) \in Clus /\ w.pl[Walk(ent.start, (n - 1) \div Bcs)] = Plc(n - 1)
    BY <2>4, <2>5 DEF Sectors, At
  <2>7. ASSUME n % SS # 0
        PROVE  /\ SectorOf(ent.start, n) \in Sectors
               /\ SectorOf(ent.start, n) = <<Walk(ent.start, (n - 1) \div Bcs), Sec(n)>>
    <3>1. n % Bcs # 0
      BY <2>2, <2>7, Boundary
    <3>2. Plc(n) = Plc(n - 1)
      BY <2>2, <3>1, Before
    <3>3. n \div Bcs = (n - 1) \div Bcs
      BY <2>2, <3>2, Position
    <3>4. SectorOf(ent.start, n) = <<Walk(ent.start, (n - 1) \div Bcs), Sec(n)>>
      BY <3>3 DEF SectorOf, Sec
    <3>5. Sec(n) \in 0 .. Csize - 1
      BY <2>2, Position
    <3> QED
      BY <2>6, <3>4, <3>5 DEF Sectors
  <2> QED
    BY <2>6, <2>7
<1>8. PICK q : q = Opened(TRUE)
  OBVIOUS
<1>9. /\ q \in Object /\ q.open /\ ~q.err /\ ~q.mod /\ ~q.dirty /\ q.size = ent.size /\ q.sclust = ent.start
      /\ q.fptr = 0 /\ q.sect = NoSector /\ q.clust = None
  BY <1>1, <1>8, OpenedIs
<1>10. /\ x \in Object /\ x.open /\ ~x.err /\ ~x.mod /\ ~x.dirty /\ x.size = ent.size /\ x.sclust = ent.start
       /\ x.fptr = n /\ x.sect = NoSector /\ (n # 0 => x.clust = Walk(ent.start, (n - 1) \div Bcs))
  <2>1. CASE n = 0
    BY <1>4, <1>8, <1>9, <2>1
  <2>2. CASE n # 0
    <3>1. PICK c \in Clus \cup {None} : c = Walk(ent.start, (n - 1) \div Bcs)
      BY <1>7, <2>2
    <3>2. x = [q EXCEPT !.fptr = n, !.clust = c]
      BY <1>4, <1>8, <2>2, <3>1
    <3>3. n \in Nat
      BY <1>2, <1>3
    <3>4. Pointed(q, x, n, c, q.sclust)
      BY <1>9, <3>2, <3>3, PointedIs
    <3> QED
      BY <1>9, <3>1, <3>4 DEF Pointed, SameCache
  <2> QED
    BY <2>1, <2>2
<1>11. s = x.sect \/ s \in Sectors
  <2>1. n % SS # 0 => n # 0
    BY First
  <2> QED
    BY <1>5, <1>7, <2>1
<1>12. CASE \E o \in Fill(x, s) : fil' = (IF o.ok THEN o.x ELSE fil) /\ Spend(o.cost)
  <2>1. PICK o \in Fill(x, s) : fil' = (IF o.ok THEN o.x ELSE fil) /\ Spend(o.cost)
    BY <1>12
  <2>2. /\ ~o.ok => o.cost = 1 /\ CanFail
        /\ o.ok => /\ o.x \in Object /\ SameFile(x, o.x) /\ ~o.x.dirty /\ o.x.sect = s /\ o.cost = 0
                   /\ o.x = x \/ o.x.buf = data[s]
    BY <1>2, <1>10, <1>11, CleanFill
  <2>3. faults' \in 0 .. MaxFaults
    BY <2>1, <2>2, Spent DEF Spend
  <2>4. CASE ~o.ok
    BY <1>1, <2>1, <2>3, <2>4, NotOpened
  <2>5. CASE o.ok
    <3>1. PICK y : y = o.x
      OBVIOUS
    <3>2. /\ y \in Object /\ y.open /\ ~y.err /\ ~y.mod /\ ~y.dirty /\ y.size = ent.size /\ y.sclust = ent.start
          /\ y.fptr = n /\ y.clust = x.clust /\ y.sect = s
      BY <1>10, <2>2, <2>5, <3>1 DEF SameFile
    <3>3. Cursor(w, y)
      <4>1. y.fptr <= y.size /\ n \in Nat
        BY <1>2, <1>3, <3>2
      <4>2. n % SS # 0 => n # 0
        BY First
      <4> QED
        BY <1>5, <1>7, <1>10, <3>2, <4>1, <4>2 DEF Cursor
    <3>4. Reads(w, y, data, content)
      <4>1. x.sect \notin Sectors
        BY <1>10, Marks DEF NoSector
      <4>2. \A z \in Sectors : z = y.sect => y.buf = data[z]
        BY <2>2, <2>5, <3>1, <3>2, <4>1
      <4> QED
        BY <1>2, <4>2 DEF Reads
    <3>5. fil' = y
      BY <2>1, <2>5, <3>1
    <3> QED
      BY <1>1, <2>3, <3>2, <3>3, <3>4, <3>5, OpenedStep
  <2> QED
    BY <2>4, <2>5
<1>13. CASE CanFail /\ Spend(1) /\ UNCHANGED fil
  <2>1. faults' \in 0 .. MaxFaults
    BY <1>13, Spent DEF Spend
  <2> QED
    BY <1>1, <1>13, <2>1, NotOpened
<1> QED
  BY <1>6, <1>12, <1>13

-----------------------------------------------------------------------------
(* FA_CREATE_ALWAYS, and the other files.                                  *)

\* No byte has a place in no chain.
LEMMA NoPlace ==
  ASSUME NEW s \in Sectors, NEW i \in Offs
  PROVE  ~At(Empty, s, i)
<1>1. i \in Nat /\ s[1] \in Clus
  BY DEF Offs, Sectors
<1>2. Plc(i) >= 1 /\ Empty.pl[s[1]] = 0
  BY <1>1, Position, EmptyChain
<1> QED
  BY <1>2 DEF At

\* FOpenCreate: the file is empty, whatever remove_chain has left of its chain.
LEMMA CreateStep ==
  ASSUME NEW w, Inv(w), FOpenCreate
  PROVE  Inv(Empty)'
<1>1. /\ call = Idle /\ ~fil.open /\ ent' = [start |-> None, size |-> 0]
      /\ content' = Unwritten /\ safe' = Unwritten /\ got' = Nothing
      /\ UNCHANGED <<data, call, writes, halfCut>>
  BY DEF FOpenCreate, CanBegin
<1>2. PICK o \in (IF ent.start = None THEN {Chain(None, fat, 0)} ELSE RemoveChain(ent.start, None)) :
       /\ fat' = o.fat
       /\ \/ /\ Spend(o.cost)
             /\ fil' = IF o.r = Junk THEN fil
                       ELSE [Closed EXCEPT !.open = TRUE, !.write = TRUE, !.mod = TRUE]
          \/ o.r # Junk /\ ent.start # None /\ CanFail /\ Spend(1) /\ UNCHANGED fil
  BY DEF FOpenCreate
<1>3. /\ fil = Closed /\ ~fil.err /\ ~fil.dirty /\ fil \in Object
      /\ Chained(fat, ent.start, w) /\ fat \in [Clus -> Values] /\ data \in Area /\ ent.start \in Clus \cup {None}
  BY <1>1, ClosedIs, Unmoved
<1>4. Frees(o.fat) /\ (o.cost = 0 \/ (o.cost = 1 /\ CanFail))
  <2>1. CASE ent.start = None
    <3>1. o.fat = fat /\ o.cost = 0
      BY <1>2, <2>1, ChainIs
    <3> QED
      BY <1>3, <3>1 DEF Frees
  <2>2. CASE ent.start # None
    <3>1. ent.start \in Clus /\ w.pl[ent.start] = 1 /\ o \in RemoveChain(ent.start, None)
      BY <1>2, <1>3, <2>2 DEF Chained
    <3>2. w.pl[ent.start] # 0
      BY <3>1
    <3> QED
      BY <1>3, <3>1, <3>2, RemoveChainIs
  <2> QED
    BY <2>1, <2>2
<1>5. faults' \in 0 .. MaxFaults
  BY <1>2, <1>4, Spent, FileAssumption DEF Spend
<1>6. PICK y : y = fil'
  OBVIOUS
<1>7. /\ y \in Object /\ y.sclust = None /\ y.size = 0 /\ y.fptr = 0 /\ ~y.dirty /\ ~y.err
      /\ (~y.open => y = Closed) /\ (y.open => y.mod)
  <2>1. CASE fil' = fil
    BY <1>3, <1>6, <2>1 DEF Closed
  <2>2. CASE fil' # fil
    <3>1. y = [fil EXCEPT !.open = TRUE, !.write = TRUE, !.mod = TRUE]
      BY <1>2, <1>3, <1>6, <2>2
    <3>2. fil.sclust = None /\ fil.size = 0 /\ fil.fptr = 0
      BY <1>3 DEF Closed
    <3>3. PICK y1 \in Object : y1 = [fil EXCEPT !.open = TRUE]
      BY <1>3 DEF Object
    <3>4. PICK y2 \in Object : y2 = [y1 EXCEPT !.write = TRUE]
      BY <3>3 DEF Object
    <3>5. [y2 EXCEPT !.mod = TRUE] \in Object
      BY <3>4 DEF Object
    <3>6. y \in Object
      BY <3>1, <3>3, <3>4, <3>5
    <3>7. /\ y.sclust = fil.sclust /\ y.size = fil.size /\ y.fptr = fil.fptr /\ y.dirty = fil.dirty /\ y.err = fil.err
          /\ y.open /\ y.mod
      BY <1>3, <3>1 DEF Object
    <3> QED
      BY <1>3, <3>2, <3>6, <3>7
  <2> QED
    BY <2>1, <2>2
<1>8. Start' = None /\ Size' = 0
  BY <1>1, <1>6, <1>7 DEF Start, Size
<1>9. Types'
  <2>1. fat' \in [Clus -> Clus \cup {None, Other, EOC}]
    BY <1>2, <1>4 DEF Frees, Values
  <2>2. MaxBytes \in Nat
    BY FileAssumption, FS_CardinalityType, Sizes DEF MaxBytes, NClust
  <2>3. Unwritten \in [Offs -> Bytes \cup {Undef}]
    BY DEF Unwritten
  <2>4. ent' \in [start : Clus \cup {None}, size : 0 .. MaxBytes]
    BY <1>1, <2>2
  <2> QED
    BY <1>1, <1>5, <1>6, <1>7, <2>1, <2>3, <2>4 DEF Inv, Types
<1>10. Chained(fat', Start', Empty) /\ Size' <= Empty.len * Bcs
  <2>1. Empty.len = 0 /\ 0 * Bcs = 0
    BY EmptyChain, Sizes
  <2> QED
    BY <1>8, <2>1, EmptyChain
<1>11. EntryOk'
  BY <1>6, <1>7 DEF EntryOk
<1>12. SafeOk'
  BY <1>1 DEF SafeOk, Unwritten
<1>13. CallOk(Empty)'
  <2>1. y.open => Cursor(Empty, y)
    BY <1>7, First DEF Cursor
  <2>2. ~fil'.err /\ fil' = y
    BY <1>6, <1>7
  <2> QED
    BY <1>1, <2>1, <2>2 DEF CallOk, Cursor, Idle
<1>14. Reads(Empty, fil, data, content)' /\ \A i \in Offs : content'[i] # Undef => i < Size'
  BY <1>1 DEF Reads, Unwritten
<1>15. Keeps(Empty, fil, data, safe)' /\ Dirt(Empty, fil)'
  BY <1>1, <1>6, <1>7 DEF Keeps, Dirt, Unwritten
<1>16. OthersUntouched'
  BY <1>1, <1>2, <1>4 DEF Inv, OthersUntouched, Frees, Sectors
<1> QED
  BY <1>1, <1>9, <1>10, <1>11, <1>12, <1>13, <1>14, <1>15, <1>16, NothingDelivered DEF Inv

\* A step of another file: it changes only the cluster c, which is not in the chain.
LEMMA OutsideStep ==
  ASSUME NEW w, Inv(w), call = Idle, NEW c \in Clus, w.pl[c] = 0,
         fat' \in [Clus -> Values], \A b \in Clus : b # c => fat'[b] = fat[b],
         data' \in Area, \A s \in Sectors : s[1] # c => data'[s] = data[s],
         OthersUntouched', got' = Nothing, UNCHANGED <<ent, fil, call, counts, content, safe, halfCut>>
  PROVE  Inv(w)'
<1>1. UNCHANGED <<ent, fil, call, writes, faults, content, safe, halfCut>>
  BY DEF counts
<1>2. Types'
  BY <1>1 DEF Inv, Types, Values, Area
<1>3. Start' = Start /\ Size' = Size
  BY <1>1 DEF Start, Size
<1>4. EntryOk' /\ SafeOk'
  BY <1>1, <1>3 DEF Inv, EntryOk, SafeOk
<1>5. CallOk(w)'
  BY <1>1 DEF Inv, CallOk, Cursor, Seeking, Idle
<1>6. \A i \in Offs, s \in Sectors : At(w, s, i) => data'[s] = data[s]
  <2>1. SUFFICES ASSUME NEW i \in Offs, NEW s \in Sectors, At(w, s, i) PROVE s[1] # c
    OBVIOUS
  <2>2. Plc(i) >= 1
    BY Position DEF Offs
  <2> QED
    BY <2>1, <2>2 DEF At
<1>7. fil'.err \/ (Reads(w, fil, data, content)' /\ \A i \in Offs : content'[i] # Undef => i < Size')
  BY <1>1, <1>3, <1>6 DEF Inv, Reads
<1>8. Keeps(w, fil, data, safe)' /\ Dirt(w, fil)'
  BY <1>1, <1>6 DEF Inv, Keeps, Dirt
<1>9. Chained(fat', Start', w) /\ Size' <= w.len * Bcs
  <2>1. Chained(fat, Start, w) /\ \A b \in Clus : w.pl[b] # 0 => fat'[b] = fat[b]
    BY DEF Inv
  <2> QED
    BY <1>3, <2>1, ChainKept DEF Inv
<1> QED
  BY <1>2, <1>4, <1>5, <1>7, <1>8, <1>9, NothingDelivered DEF Inv

\* OtherTakes: a free cluster is not in the chain of the file.
LEMMA OtherTakesStep ==
  ASSUME NEW w, Inv(w), NEW c \in Clus, OtherTakes(c)
  PROVE  Inv(w)'
<1>1. /\ call = Idle /\ fat[c] = None /\ fat' = [fat EXCEPT ![c] = Other]
      /\ data' = [s \in Sectors |-> IF s[1] = c THEN [b \in In |-> Foreign] ELSE data[s]]
      /\ got' = Nothing /\ UNCHANGED <<ent, fil, call, counts, content, safe, halfCut>>
  BY DEF OtherTakes, CanBegin
<1>2. fat \in [Clus -> Values] /\ data \in Area /\ Chained(fat, Start, w)
  BY Unmoved DEF Inv
<1>3. w.pl[c] = 0
  BY <1>1, <1>2, Taken
<1>4. /\ fat' \in [Clus -> Values] /\ fat'[c] = Other /\ \A b \in Clus : b # c => fat'[b] = fat[b]
  BY <1>1, <1>2 DEF Values
<1>5. data' \in Area /\ \A s \in Sectors : data'[s] = IF s[1] = c THEN [b \in In |-> Foreign] ELSE data[s]
  <2>1. [b \in In |-> Foreign] \in [In -> Bytes]
    BY DEF Bytes
  <2> QED
    BY <1>1, <1>2, <2>1 DEF Area
<1>6. OthersUntouched'
  <2>1. halfCut \/ \A s \in Sectors : fat[s[1]] = Other => \A b \in In : data[s][b] = Foreign
    BY DEF Inv, OthersUntouched
  <2>2. SUFFICES ASSUME ~halfCut, NEW s \in Sectors, fat'[s[1]] = Other, NEW b \in In PROVE data'[s][b] = Foreign
    BY <1>1 DEF OthersUntouched
  <2>3. s[1] \in Clus
    BY DEF Sectors
  <2>4. CASE s[1] = c
    BY <1>5, <2>4
  <2>5. CASE s[1] # c
    BY <1>4, <1>5, <2>1, <2>2, <2>3, <2>5
  <2> QED
    BY <2>4, <2>5
<1>7. \A s \in Sectors : s[1] # c => data'[s] = data[s]
  BY <1>5
<1> QED
  BY <1>1, <1>3, <1>4, <1>5, <1>6, <1>7, OutsideStep

\* OtherFrees.
LEMMA OtherFreesStep ==
  ASSUME NEW w, Inv(w), NEW c \in Clus, OtherFrees(c)
  PROVE  Inv(w)'
<1>1. /\ call = Idle /\ fat[c] = Other /\ fat' = [fat EXCEPT ![c] = None] /\ data' = data
      /\ got' = Nothing /\ UNCHANGED <<ent, fil, call, counts, content, safe, halfCut>>
  BY DEF OtherFrees, CanBegin
<1>2. fat \in [Clus -> Values] /\ data \in Area /\ Chained(fat, Start, w)
  BY Unmoved DEF Inv
<1>3. w.pl[c] = 0
  BY <1>1, <1>2, Taken
<1>4. /\ fat' \in [Clus -> Values] /\ fat'[c] = None /\ \A b \in Clus : b # c => fat'[b] = fat[b]
  BY <1>1, <1>2 DEF Values
<1>5. OthersUntouched'
  BY <1>1, <1>4, Marks DEF Inv, OthersUntouched, Sectors
<1> QED
  BY <1>1, <1>2, <1>3, <1>4, <1>5, OutsideStep

-----------------------------------------------------------------------------
(* f_truncate.                                                             *)

\* The chain that f_truncate leaves: its clusters keep their places, and those up to
\* fptr stay.
Cut(v, w, t, s) ==
  /\ Frees(t) /\ Chained(t, s, v) /\ fil.fptr <= v.len * Bcs
  /\ \A c \in Clus : v.pl[c] = w.pl[c] \/ v.pl[c] = 0
  /\ fil.fptr # 0 => fil.clust \in Clus /\ v.pl[fil.clust] = w.pl[fil.clust]

\* A chain cut behind the cluster of fptr is what f_truncate leaves.
LEMMA ShrunkCut ==
  ASSUME NEW w, Inv(w), fil.open, Cursor(w, fil), fil.fptr # 0, NEW t, Frees(t),
         NEW v, Chained(t, fil.sclust, v), Shrunk(w, v, w.pl[fil.clust])
  PROVE  Cut(v, w, t, fil.sclust)
<1>1. fil.fptr \in Nat /\ fil.fptr > 0 /\ fil.clust \in Clus /\ w.pl[fil.clust] = Plc(fil.fptr - 1)
  BY Bounds DEF Cursor
<1>2. PICK m : m = w.pl[fil.clust]
  OBVIOUS
<1>3. m \in Nat /\ m <= v.len /\ v.len \in Nat
  BY <1>1, <1>2, Unmoved DEF Shrunk, Chained, Placed
<1>4. fil.fptr <= m * Bcs
  BY <1>1, <1>2, Reaching
<1>5. Bcs * m <= Bcs * v.len /\ Bcs * m \in Nat /\ Bcs * v.len \in Nat
  BY <1>3, Sizes, Times
<1>6. m * Bcs = Bcs * m /\ v.len * Bcs = Bcs * v.len
  BY <1>3, Sizes
<1>7. fil.fptr <= v.len * Bcs
  BY <1>1, <1>4, <1>5, <1>6
<1>8. v.pl[fil.clust] = w.pl[fil.clust]
  BY <1>1, <1>2, <1>3 DEF Shrunk
<1> QED
  BY <1>1, <1>7, <1>8 DEF Cut, Shrunk

\* However f_truncate cuts the chain, what is left is a chain that reaches fptr.
LEMMA CutIs ==
  ASSUME NEW w, Inv(w), fil.open, Cursor(w, fil), fil.fptr < fil.size, NEW o,
         o \in (IF fil.fptr = 0 THEN RemoveChain(fil.sclust, None)
                ELSE IF fat[fil.clust] \in Clus THEN RemoveChain(fat[fil.clust], fil.clust)
                ELSE {Chain(None, fat, 0)})
               \cup (IF fil.fptr # 0 THEN {q \in Following(fil.clust) : q.r = Junk} ELSE {})
  PROVE  /\ \E v : Cut(v, w, o.fat, IF fil.fptr = 0 THEN None ELSE fil.sclust)
         /\ o.r = Junk => CanFail
<1>1. /\ fat \in [Clus -> Values] /\ Chained(fat, fil.sclust, w) /\ fil.sclust \in Clus \cup {None} /\ Start = fil.sclust
      /\ fil.fptr \in Nat /\ fil.size \in Nat /\ Placed(w) /\ Size = fil.size /\ Frees(fat)
  BY Unmoved, ObjectFields, Bounds DEF Frees
<1>2. CASE fil.fptr = 0
  <2>1. fil.sclust \in Clus /\ w.pl[fil.sclust] = 1
    <3>1. fil.sclust # None
      BY <1>1, <1>2, EmptyFile
    <3> QED
      BY <1>1, <3>1 DEF Chained
  <2>2. o \in RemoveChain(fil.sclust, None) /\ w.pl[fil.sclust] # 0
    BY <1>2, <2>1
  <2>3. Frees(o.fat) /\ ((o.r = None /\ o.cost = 0) \/ (o.r = Junk /\ o.cost = 1 /\ CanFail))
    BY <1>1, <2>1, <2>2, RemoveChainIs
  <2>4. Cut(Empty, w, o.fat, None)
    <3>1. Chained(o.fat, None, Empty) /\ Empty.len = 0 /\ (\A c \in Clus : Empty.pl[c] = 0) /\ 0 * Bcs = 0
      BY EmptyChain, Sizes
    <3> QED
      BY <1>2, <2>3, <3>1 DEF Cut
  <2> QED
    BY <1>2, <2>3, <2>4, Marks
<1>3. CASE fil.fptr # 0
  <2>1. fil.clust \in Clus /\ w.pl[fil.clust] # 0 /\ fil.sclust \in Clus
    BY <1>3, InHand
  <2>2. Cut(w, w, fat, fil.sclust)
    <3>1. Shrunk(w, w, w.pl[fil.clust])
      BY <1>1, <2>1 DEF Shrunk, Placed
    <3> QED
      BY <1>1, <1>3, <3>1, ShrunkCut
  <2>3. CASE o = Chain(None, fat, 0)
    <3>1. o.fat = fat /\ o.r = None
      BY <2>3, ChainIs
    <3> QED
      BY <1>3, <2>2, <3>1, Marks
  <2>4. CASE o \in Following(fil.clust) /\ o.r = Junk
    <3>1. o.fat = fat /\ CanFail
      BY <1>1, <2>1, <2>4, FollowingIs, Marks
    <3> QED
      BY <1>3, <2>2, <3>1
  <2>5. CASE fat[fil.clust] \in Clus /\ o \in RemoveChain(fat[fil.clust], fil.clust)
    <3>1. PICK c \in Clus : c = fat[fil.clust]
      BY <2>5
    <3>2. w.pl[c] # 0
      BY <1>1, <2>1, <3>1, Marks DEF Chained, InPlace, Placed
    <3>3. o \in RemoveChain(c, fil.clust) /\ fat[fil.clust] = c
      BY <2>5, <3>1
    <3>4. /\ Frees(o.fat)
          /\ (o.r = None /\ o.cost = 0) \/ (o.r = Junk /\ o.cost = 1 /\ CanFail)
          /\ \E v : Chained(o.fat, fil.sclust, v) /\ Shrunk(w, v, w.pl[fil.clust])
      BY <1>1, <2>1, <3>2, <3>3, RemoveChainIs
    <3>5. PICK v : Chained(o.fat, fil.sclust, v) /\ Shrunk(w, v, w.pl[fil.clust])
      BY <3>4
    <3>6. Cut(v, w, o.fat, fil.sclust)
      BY <1>3, <3>4, <3>5, ShrunkCut
    <3> QED
      BY <1>3, <3>4, <3>6, Marks
  <2> QED
    BY <1>3, <2>3, <2>4, <2>5
<1> QED
  BY <1>2, <1>3

\* The object that f_truncate makes, before its cache is written back.
Cutting(x) ==
  /\ x \in Object /\ SameCache(fil, x) /\ x.open /\ x.size = fil.fptr /\ x.mod /\ ~x.err /\ x.fptr = fil.fptr
  /\ x.clust = fil.clust /\ x.sclust = IF fil.fptr = 0 THEN None ELSE fil.sclust

\* The object with the size cut to fptr.
LEMMA CuttingIs ==
  ASSUME NEW w, Inv(w), fil.open, ~fil.err, NEW x,
         x = [fil EXCEPT !.size = fil.fptr, !.mod = TRUE, !.sclust = IF fil.fptr = 0 THEN None ELSE @]
  PROVE  Cutting(x)
<1>1. fil \in Object /\ fil.fptr \in Nat /\ fil.sclust \in Clus \cup {None}
  BY Unmoved, ObjectFields
<1>2. PICK s \in Clus \cup {None} : s = IF fil.fptr = 0 THEN None ELSE fil.sclust
  BY <1>1
<1>3. x = [fil EXCEPT !.size = fil.fptr, !.mod = TRUE, !.sclust = s]
  BY <1>2
<1>4. PICK x1 \in Object : x1 = [fil EXCEPT !.size = fil.fptr]
  BY <1>1 DEF Object
<1>5. PICK x2 \in Object : x2 = [x1 EXCEPT !.mod = TRUE]
  BY <1>4 DEF Object
<1>6. [x2 EXCEPT !.sclust = s] \in Object
  BY <1>5 DEF Object
<1>7. x \in Object
  BY <1>3, <1>4, <1>5, <1>6
<1>8. /\ SameCache(fil, x) /\ x.open = fil.open /\ x.size = fil.fptr /\ x.mod /\ x.err = fil.err /\ x.fptr = fil.fptr
      /\ x.clust = fil.clust /\ x.sclust = s
  BY <1>1, <1>3 DEF Object, SameCache
<1> QED
  BY <1>2, <1>7, <1>8 DEF Cutting

\* f_truncate has cut the chain and leaves the object y, with z its cache before an error.
LEMMA CutStep ==
  ASSUME NEW w, Inv(w), fil.open, ~fil.err, call = Idle, Cursor(w, fil), fil.fptr < fil.size,
         NEW x, Cutting(x), NEW v, Cut(v, w, fat', x.sclust),
         NEW z, z \in Object, SameFile(x, z), data' \in Area, Keeps(w, z, data', safe), Reads(w, z, data', content),
         z.sect = fil.sect, z.buf = fil.buf,
         OthersUntouched', faults' \in 0 .. MaxFaults, got' = Nothing, call' = Idle,
         content' = Below(content, fil.fptr), safe' = Below(safe, fil.fptr), UNCHANGED <<ent, writes>>,
         halfCut' \in BOOLEAN, halfCut' \/ ~z.dirty, z.dirty => fil.dirty,
         IF halfCut' /\ ~(fil' = z) THEN fil' = InError(z) ELSE fil' = z
  PROVE  Inv(v)'
<1>1. /\ fil.fptr \in Nat /\ fil.size \in Nat /\ MaxBytes \in Nat /\ fil.size <= MaxBytes
      /\ content \in [Offs -> Bytes \cup {Undef}] /\ safe \in [Offs -> Bytes \cup {Undef}]
      /\ \A i \in Offs : i \in Nat
  BY Bounds DEF Inv, Types, Offs
<1>2. /\ content' \in [Offs -> Bytes \cup {Undef}] /\ safe' \in [Offs -> Bytes \cup {Undef}]
      /\ \A i \in Offs : content'[i] # Undef => i < fil.fptr /\ content'[i] = content[i]
      /\ \A i \in Offs : safe'[i] # Undef => i < fil.fptr /\ safe'[i] = safe[i]
      /\ \A i \in Offs : i < fil.fptr => content'[i] = content[i]
  BY <1>1 DEF Below
<1>3. z.open /\ z.size = fil.fptr /\ z.mod /\ ~z.err /\ z.fptr = fil.fptr /\ z.clust = fil.clust /\ z.sclust = x.sclust
  BY DEF Cutting, SameFile
<1>4. PICK y : y = fil'
  OBVIOUS
<1>5. /\ y \in Object /\ y.open /\ y.size = fil.fptr /\ y.sclust = x.sclust /\ y.mod /\ y.dirty = z.dirty
      /\ z.dirty => y.sect = z.sect /\ y.buf = z.buf
      /\ y = z \/ (y.err /\ y.fptr = 0)
  <2>1. CASE y = z
    BY <1>3, <2>1
  <2>2. CASE y = InError(z)
    BY <1>3, <2>2, ErrorFields
  <2> QED
    BY <1>4, <2>1, <2>2
<1>6. Start' = x.sclust /\ Size' = fil.fptr
  BY <1>4, <1>5 DEF Start, Size
<1>7. Types'
  BY <1>1, <1>2, <1>4, <1>5 DEF Inv, Types, Cut, Frees, Values, Area, Idle
<1>8. Chained(fat', Start', v) /\ Size' <= v.len * Bcs
  BY <1>6 DEF Cut
<1>9. EntryOk'
  BY <1>4, <1>5 DEF EntryOk
<1>10. SafeOk'
  <2>1. SUFFICES ASSUME NEW i \in Offs, safe'[i] # Undef
                 PROVE  content'[i] = safe'[i] /\ i < fil.fptr /\ i < ent.size /\ ent.start = x.sclust
    BY <1>6 DEF SafeOk
  <2>2. i < fil.fptr /\ safe'[i] = safe[i] /\ content'[i] = content[i] /\ safe[i] # Undef
    BY <1>2, <2>1
  <2>3. content[i] = safe[i] /\ i < ent.size /\ ent.start = fil.sclust
    BY <2>2, Unmoved DEF Inv, SafeOk
  <2>4. fil.fptr # 0
    BY <1>1, <2>2
  <2> QED
    BY <2>2, <2>3, <2>4 DEF Cutting
<1>11. CallOk(v)'
  <2>1. y = z => Cursor(v, y)
    BY <1>1, <1>3 DEF Cursor, Cut
  <2>2. y = z => ~y.err
    BY <1>3
  <2> QED
    BY <1>4, <1>5, <2>1, <2>2 DEF CallOk, Cursor, Idle
<1>12. \A i \in Offs, s \in Sectors : At(v, s, i) => At(w, s, i)
  <2>1. SUFFICES ASSUME NEW i \in Offs, NEW s \in Sectors, At(v, s, i) PROVE At(w, s, i)
    OBVIOUS
  <2>2. Plc(i) >= 1 /\ s[1] \in Clus
    BY <1>1, Position DEF Sectors
  <2> QED
    BY <2>1, <2>2 DEF At, Cut
<1>13. y.err \/ (Reads(v, y, data', content') /\ \A i \in Offs : content'[i] # Undef => i < fil.fptr)
  BY <1>2, <1>5, <1>12 DEF Reads
<1>14. Keeps(v, y, data', safe')
  <2>1. SUFFICES ASSUME NEW i \in Offs, NEW s \in Sectors, safe'[i] # Undef, At(v, s, i)
                 PROVE  data'[s][i % SS] = safe'[i] /\ (y.dirty /\ s = y.sect => y.buf[i % SS] = safe'[i])
    BY DEF Keeps
  <2>2. data'[s][i % SS] = safe[i] /\ (z.dirty /\ s = z.sect => z.buf[i % SS] = safe[i])
    BY <1>2, <1>12, <2>1 DEF Keeps
  <2> QED
    BY <1>2, <1>5, <2>1, <2>2
<1>15. Dirt(v, fil)'
  <2>1. z.dirty => z.sect \in Sectors
    BY DEF Inv, Dirt
  <2> QED
    BY <1>4, <1>5, <2>1 DEF Dirt
<1>16. Reads(v, fil, data, content)' <=> Reads(v, y, data', content')
  BY <1>4 DEF Reads
<1>17. Keeps(v, fil, data, safe)'
  BY <1>4, <1>14 DEF Keeps
<1> QED
  BY <1>4, <1>6, <1>7, <1>8, <1>9, <1>10, <1>11, <1>13, <1>15, <1>16, <1>17, NothingDelivered DEF Inv

\* The write-back that ends f_truncate, or the failure before it.
CutEnd(x, p) ==
  /\ p.x \in Object /\ SameFile(x, p.x) /\ p.d \in Area /\ p.ok \in BOOLEAN
  /\ p.x.sect = fil.sect /\ p.x.buf = fil.buf /\ (p.x.dirty => fil.dirty) /\ (p.ok => ~p.x.dirty)
  /\ p.cost = 0 \/ (p.cost = 1 /\ CanFail)

\* The write-back of f_truncate; only when the call fails may it reach a freed cluster.
LEMMA CutEndIs ==
  ASSUME NEW w, Inv(w), fil.open, ~fil.err, NEW x, Cutting(x), NEW t, Frees(t), NEW r, r = Junk => CanFail,
         NEW p \in (IF r = Junk THEN {Broken(x, data)} ELSE CutBack(x))
  PROVE  /\ CutEnd(x, p) /\ Keeps(w, p.x, p.d, safe) /\ Reads(w, p.x, p.d, content)
         /\ p.ok => OthersOk(t, p.d)
<1>1. /\ data \in Area /\ Reads(w, fil, data, content) /\ Keeps(w, fil, data, safe) /\ Chained(fat, fil.sclust, w)
      /\ Dirt(w, fil)
  BY Unmoved DEF Inv
<1>2. x \in Object /\ SameCache(fil, x)
  BY DEF Cutting
<1>3. Reads(w, x, data, content) /\ Keeps(w, x, data, safe)
  BY <1>1, <1>2 DEF Reads, Keeps, SameCache
<1>4. x.dirty => x.sect \in Sectors /\ (halfCut \/ t[x.sect[1]] # Other)
  <2>1. SUFFICES ASSUME x.dirty PROVE x.sect \in Sectors /\ (halfCut \/ t[x.sect[1]] # Other)
    OBVIOUS
  <2>2. x.sect \in Sectors /\ x.sect[1] \in Clus /\ (halfCut \/ w.pl[x.sect[1]] # 0)
    BY <1>1, <1>2, <2>1 DEF Dirt, SameCache, Sectors
  <2>3. halfCut \/ fat[x.sect[1]] # Other
    BY <1>1, <2>2, Taken
  <2> QED
    BY <2>2, <2>3 DEF Frees
<1>5. OthersOk(t, data)
  BY DEF Inv, OthersUntouched, OthersOk, Frees, Sectors
<1>6. CASE r = Junk
  <2>1. p = Broken(x, data) /\ CanFail
    BY <1>6
  <2>2. ~p.ok /\ p.x = x /\ p.d = data /\ p.cost = 1 /\ p.ok \in BOOLEAN
    BY <2>1 DEF Broken
  <2>3. SameFile(x, x)
    BY DEF SameFile
  <2>4. CutEnd(x, p)
    BY <1>1, <1>2, <2>1, <2>2, <2>3 DEF CutEnd, SameCache
  <2> QED
    BY <1>3, <2>2, <2>4
<1>7. CASE r # Junk
  <2>1. p \in WriteBack(x)
    BY <1>7 DEF CutBack
  <2>2. WrittenBack(x, p) /\ p.ok \in BOOLEAN
    BY <1>1, <1>2, <1>4, <2>1, WriteBackIs
  <2>3. Reads(w, p.x, p.d, content)
    BY <1>2, <1>3, <2>2, WriteBackReads
  <2>4. Keeps(w, p.x, p.d, safe)
    BY <1>2, <1>3, <2>2, WriteBackKeeps
  <2>5. OthersOk(t, p.d)
    BY <1>2, <1>4, <1>5, <2>2, WriteBackOthers
  <2>6. CutEnd(x, p)
    BY <1>2, <2>2 DEF CutEnd, WrittenBack, SameCache
  <2> QED
    BY <2>3, <2>4, <2>5, <2>6
<1> QED
  BY <1>6, <1>7

\* FTruncate.
LEMMA TruncateStep ==
  ASSUME NEW w, Inv(w), FTruncate
  PROVE  IInv'
<1>1. /\ Usable /\ fil.write /\ fil.fptr < fil.size
      /\ content' = Below(content, fil.fptr) /\ safe' = Below(safe, fil.fptr) /\ got' = Nothing
      /\ UNCHANGED <<ent, writes>>
  BY DEF FTruncate
<1>2. /\ fil.open /\ ~fil.err /\ call = Idle /\ Cursor(w, fil)
  BY <1>1, UsableIs
<1> DEFINE Outs == (IF fil.fptr = 0 THEN RemoveChain(fil.sclust, None)
                    ELSE IF fat[fil.clust] \in Clus THEN RemoveChain(fat[fil.clust], fil.clust)
                    ELSE {Chain(None, fat, 0)})
                   \cup (IF fil.fptr # 0 THEN {q \in Following(fil.clust) : q.r = Junk} ELSE {})
           X == [fil EXCEPT !.size = fil.fptr, !.mod = TRUE, !.sclust = IF fil.fptr = 0 THEN None ELSE @]
<1>3. PICK o \in Outs :
        /\ fat' = o.fat
        /\ \E p \in (IF o.r = Junk THEN {Broken(X, data)} ELSE CutBack(X)) :
             /\ data' = p.d /\ Spend(p.cost)
             /\ IF p.ok THEN fil' = p.x /\ UNCHANGED call ELSE Abort(p.x)
             /\ halfCut' = (halfCut \/ ~p.ok)
  BY DEF FTruncate
<1>4. (\E v : Cut(v, w, o.fat, IF fil.fptr = 0 THEN None ELSE fil.sclust)) /\ (o.r = Junk => CanFail)
  BY <1>1, <1>2, CutIs
<1>5. PICK v : Cut(v, w, o.fat, IF fil.fptr = 0 THEN None ELSE fil.sclust)
  BY <1>4
<1>6. PICK x : x = X
  OBVIOUS
<1>7. Cutting(x)
  BY <1>2, <1>6, CuttingIs
<1>8. PICK p \in (IF o.r = Junk THEN {Broken(x, data)} ELSE CutBack(x)) :
             /\ data' = p.d /\ Spend(p.cost)
             /\ IF p.ok THEN fil' = p.x /\ UNCHANGED call ELSE Abort(p.x)
             /\ halfCut' = (halfCut \/ ~p.ok)
  BY <1>3, <1>6
<1> HIDE DEF Outs, X
<1>9. Frees(o.fat) /\ Cut(v, w, fat', x.sclust)
  BY <1>3, <1>5, <1>7 DEF Cut, Cutting
<1>10. /\ CutEnd(x, p) /\ Keeps(w, p.x, p.d, safe) /\ Reads(w, p.x, p.d, content)
       /\ p.ok => OthersOk(o.fat, p.d)
  BY <1>2, <1>4, <1>7, <1>8, <1>9, CutEndIs
<1>11. PICK z : z = p.x
  OBVIOUS
<1>12. /\ z \in Object /\ SameFile(x, z) /\ data' \in Area /\ Keeps(w, z, data', safe) /\ Reads(w, z, data', content)
       /\ z.sect = fil.sect /\ z.buf = fil.buf /\ (z.dirty => fil.dirty)
  BY <1>8, <1>10, <1>11 DEF CutEnd
<1>13. halfCut' \in BOOLEAN /\ (halfCut' \/ ~z.dirty) /\ (p.ok => halfCut' = halfCut) /\ (~p.ok => halfCut')
  <2>1. halfCut \in BOOLEAN /\ p.ok \in BOOLEAN
    BY <1>10 DEF Inv, Types, CutEnd
  <2>2. CASE p.ok
    BY <1>8, <1>10, <1>11, <2>1, <2>2 DEF CutEnd
  <2>3. CASE ~p.ok
    BY <1>8, <2>1, <2>3
  <2> QED
    BY <2>2, <2>3
<1>14. OthersUntouched'
  <2>1. CASE p.ok
    BY <1>3, <1>8, <1>10, <1>13, <2>1 DEF OthersUntouched, OthersOk
  <2>2. CASE ~p.ok
    BY <1>13, <2>2 DEF OthersUntouched
  <2> QED
    BY <2>1, <2>2
<1>15. faults' \in 0 .. MaxFaults
  BY <1>8, <1>10, Spent DEF Spend, CutEnd
<1>16. call' = Idle /\ (IF p.ok THEN fil' = z ELSE fil' = InError(z))
  BY <1>2, <1>8, <1>11 DEF Abort
<1>17. IF halfCut' /\ ~(fil' = z) THEN fil' = InError(z) ELSE fil' = z
  <2>1. CASE p.ok
    BY <1>16, <2>1
  <2>2. CASE ~p.ok
    BY <1>13, <1>16, <2>2
  <2> QED
    BY <2>1, <2>2
<1>18. Inv(v)'
  BY <1>1, <1>2, <1>7, <1>9, <1>12, <1>13, <1>14, <1>15, <1>16, <1>17, CutStep
<1> QED
  BY <1>18 DEF IInv

-----------------------------------------------------------------------------
(* f_sync and f_close.                                                     *)

\* The entry e could be that of the open object.
Fits(e) == e.size <= fil.size /\ (e.start = fil.sclust \/ (e.start = None /\ e.size = 0))

\* The object x and the data area d after f_sync, whatever its result.
Flushed(w, x, d) ==
  /\ x \in Object /\ x.open /\ x.fptr = fil.fptr /\ x.size = fil.size /\ x.sclust = fil.sclust
  /\ x.clust = fil.clust /\ x.err = fil.err /\ x.sect = fil.sect
  /\ d \in Area /\ Keeps(w, x, d, safe) /\ Dirt(w, x) /\ OthersOk(fat, d)
  /\ fil.err \/ Reads(w, x, d, content)

\* A write-back, with FA_MODIFIED cleared or not.
LEMMA FlushedIs ==
  ASSUME NEW w, Inv(w), fil.open, NEW q \in WriteBack(fil), NEW x,
         x = q.x \/ x = [q.x EXCEPT !.mod = FALSE]
  PROVE  Flushed(w, x, q.d) /\ x.dirty = q.x.dirty
<1>1. Frame(w, fil, fat, data) /\ fil \in Object /\ (fil.err \/ Reads(w, fil, data, content))
  BY Unmoved
<1>2. WrittenBack(fil, q) /\ Frame(w, q.x, fat, q.d)
  BY <1>1, WriteBackFrame
<1>3. fil.err \/ Reads(w, q.x, q.d, content)
  BY <1>1, <1>2, WriteBackReads
<1>4. q.x \in Object /\ SameFile(fil, q.x) /\ q.x.sect = fil.sect
  BY <1>2 DEF WrittenBack
<1>5. /\ x \in Object /\ SameCache(q.x, x) /\ x.open = q.x.open /\ x.fptr = q.x.fptr
      /\ x.size = q.x.size /\ x.sclust = q.x.sclust /\ x.clust = q.x.clust /\ x.err = q.x.err
  <2>1. CASE x = q.x
    BY <1>4, <2>1 DEF SameCache
  <2>2. CASE x = [q.x EXCEPT !.mod = FALSE]
    <3>1. x \in Object
      BY <1>4, <2>2 DEF Object
    <3>2. /\ SameCache(q.x, x) /\ x.open = q.x.open /\ x.fptr = q.x.fptr
          /\ x.size = q.x.size /\ x.sclust = q.x.sclust /\ x.clust = q.x.clust /\ x.err = q.x.err
      BY <1>4, <2>2 DEF Object, SameCache
    <3> QED
      BY <3>1, <3>2
  <2> QED
    BY <2>1, <2>2
<1>6. Keeps(w, x, q.d, safe) /\ Dirt(w, x) /\ OthersOk(fat, q.d) /\ q.d \in Area
  BY <1>2, <1>5 DEF Frame, Keeps, Dirt, SameCache
<1>7. fil.err \/ Reads(w, x, q.d, content)
  BY <1>3, <1>5 DEF Reads, SameCache
<1> QED
  BY <1>4, <1>5, <1>6, <1>7 DEF Flushed, SameFile, SameCache

\* What f_sync can come to.
Synced(w, o) ==
  /\ Flushed(w, o.x, o.d) /\ o.ok \in BOOLEAN
  /\ o.cost = 0 \/ (o.cost = 1 /\ CanFail)
  /\ o.ent = ent \/ o.ent = Entry
  /\ ~o.x.mod => Fits(o.ent) /\ (~fil.err => ~o.x.dirty /\ o.ent.size = fil.size)
  /\ o.ok => ~o.x.mod

\* The fields of an outcome of f_sync.
LEMMA WithIs ==
  ASSUME NEW q, NEW e, NEW o, o = With(q, e)
  PROVE  o.ok = q.ok /\ o.x = q.x /\ o.d = q.d /\ o.cost = q.cost /\ o.ent = e
BY DEF With

\* Every outcome of f_sync: when the flag is cleared, cache and entry are on the card.
LEMMA SyncIs ==
  ASSUME NEW w, Inv(w), fil.open, call = Idle, NEW o \in Sync
  PROVE  Synced(w, o)
<1>1. fil \in Object /\ Frame(w, fil, fat, data) /\ (fil.err \/ Reads(w, fil, data, content))
  BY Unmoved
<1>2. fil.mod \in BOOLEAN /\ fil.size \in Nat
  BY <1>1, ObjectFields
<1>3. Fits(Entry) /\ Entry.size = fil.size
  BY <1>2 DEF Fits, Entry
<1>4. CASE ~fil.mod
  <2>1. o = With(Done(fil, data), ent)
    BY <1>4 DEF Sync
  <2>2. o.ok /\ o.x = fil /\ o.d = data /\ o.cost = 0 /\ o.ent = ent
    BY <2>1, WithIs DEF Done
  <2>3. o.ok \in BOOLEAN
    BY <2>1, WithIs DEF Done
  <2>4. Flushed(w, fil, data)
    BY <1>1 DEF Flushed, Frame
  <2>5. Fits(ent) /\ (~fil.err => ~fil.dirty /\ ent.size = fil.size)
    BY <1>4 DEF Inv, EntryOk, Fits, Idle
  <2> QED
    BY <1>4, <2>2, <2>3, <2>4, <2>5 DEF Synced
<1>5. CASE fil.mod
  <2>1. PICK q \in WriteBack(fil) :
          o \in (IF ~q.ok THEN {With(q, ent)}
                 ELSE LET kept == [q.x EXCEPT !.mod = FALSE]
                      IN  {With(Done(kept, q.d), Entry)}
                          \cup {r \in {With(Broken(q.x, q.d), ent), With(Broken(kept, q.d), Entry)} : CanFail})
    BY <1>5 DEF Sync
  <2> DEFINE kept == [q.x EXCEPT !.mod = FALSE]
  <2>2. WrittenBack(fil, q) /\ q.ok \in BOOLEAN
    BY <1>1, WriteBackFrame
  <2>3. q.x \in Object /\ q.x.mod
    BY <1>5, <2>2 DEF WrittenBack, SameFile
  <2>4. kept.mod = FALSE
    BY <2>3 DEF Object
  <2>5. \/ ~q.ok /\ o = With(q, ent)
        \/ q.ok /\ o = With(Done(kept, q.d), Entry)
        \/ q.ok /\ CanFail /\ o = With(Broken(q.x, q.d), ent)
        \/ q.ok /\ CanFail /\ o = With(Broken(kept, q.d), Entry)
    BY <2>1
  <2>6. Flushed(w, q.x, q.d) /\ Flushed(w, kept, q.d) /\ kept.dirty = q.x.dirty
    BY FlushedIs
  <2> HIDE DEF kept
  <2>7. CASE ~q.ok /\ o = With(q, ent)
    <3>1. ~o.ok /\ o.ok \in BOOLEAN /\ o.x = q.x /\ o.d = q.d /\ o.cost = 1 /\ CanFail /\ o.ent = ent
      BY <2>2, <2>7, WithIs DEF WrittenBack
    <3> QED
      BY <2>3, <2>6, <3>1 DEF Synced
  <2>8. CASE q.ok /\ o = With(Done(kept, q.d), Entry)
    <3>1. o.ok /\ o.x = kept /\ o.d = q.d /\ o.cost = 0 /\ o.ent = Entry /\ ~kept.dirty
      BY <2>2, <2>6, <2>8, WithIs DEF Done, WrittenBack
    <3>2. o.ok \in BOOLEAN
      BY <2>8, WithIs DEF Done
    <3> QED
      BY <1>3, <2>4, <2>6, <3>1, <3>2 DEF Synced
  <2>9. CASE q.ok /\ CanFail /\ o = With(Broken(q.x, q.d), ent)
    <3>1. ~o.ok /\ o.x = q.x /\ o.d = q.d /\ o.cost = 1 /\ o.ent = ent
      BY <2>9, WithIs DEF Broken
    <3>2. o.ok \in BOOLEAN
      <4>1. Broken(q.x, q.d).ok = FALSE
        BY DEF Broken
      <4>2. o.ok = Broken(q.x, q.d).ok
        BY <2>9, WithIs
      <4> QED
        BY <4>1, <4>2
    <3> QED
      BY <2>3, <2>6, <2>9, <3>1, <3>2 DEF Synced
  <2>10. CASE q.ok /\ CanFail /\ o = With(Broken(kept, q.d), Entry)
    <3>1. ~o.ok /\ o.x = kept /\ o.d = q.d /\ o.cost = 1 /\ o.ent = Entry /\ ~kept.dirty
      BY <2>2, <2>6, <2>10, WithIs DEF Broken, WrittenBack
    <3>2. o.ok \in BOOLEAN
      <4>1. Broken(kept, q.d).ok = FALSE
        BY DEF Broken
      <4>2. o.ok = Broken(kept, q.d).ok
        BY <2>10, WithIs
      <4> QED
        BY <4>1, <4>2
    <3> QED
      BY <1>3, <2>4, <2>6, <2>10, <3>1, <3>2 DEF Synced
  <2> QED
    BY <2>5, <2>7, <2>8, <2>9, <2>10
<1> QED
  BY <1>2, <1>4, <1>5

\* What becomes durable is as written, on the card, and within the entry.
Made(w, o, m) ==
  /\ m \in [Offs -> Bytes \cup {Undef}] /\ Keeps(w, o.x, o.d, m)
  /\ \A i \in Offs : m[i] # Undef => content[i] = m[i] /\ i < fil.size /\ i < o.ent.size /\ o.ent.start = fil.sclust

\* f_sync and f_close call durable only what the card has.
LEMMA MadeIs ==
  ASSUME NEW w, Inv(w), fil.open, NEW o, Synced(w, o), NEW m, m = MadeSafe(o)
  PROVE  Made(w, o, m) /\ o.ent \in [start : Clus \cup {None}, size : 0 .. MaxBytes]
<1>1. /\ Start = fil.sclust /\ Size = fil.size /\ fil.size \in 0 .. MaxBytes /\ fil.sclust \in Clus \cup {None}
      /\ content \in [Offs -> Bytes \cup {Undef}] /\ safe \in [Offs -> Bytes \cup {Undef}]
      /\ ent \in [start : Clus \cup {None}, size : 0 .. MaxBytes] /\ \A i \in Offs : i \in Nat
  <2>1. fil.size \in Nat /\ MaxBytes \in Nat /\ fil.size <= MaxBytes /\ \A i \in Offs : i \in Nat
    BY Bounds DEF Offs
  <2>2. fil.sclust \in Clus \cup {None} /\ Start = fil.sclust /\ Size = fil.size
    BY Unmoved, ObjectFields
  <2> QED
    BY <2>1, <2>2 DEF Inv, Types
<1>2. Entry \in [start : Clus \cup {None}, size : 0 .. MaxBytes] /\ Entry.start = fil.sclust /\ Entry.size = fil.size
  BY <1>1 DEF Entry
<1>3. o.ent \in [start : Clus \cup {None}, size : 0 .. MaxBytes]
  BY <1>1, <1>2 DEF Synced
<1>4. \A i \in Offs : safe[i] # Undef => content[i] = safe[i] /\ i < fil.size /\ i < o.ent.size /\ o.ent.start = fil.sclust
  <2>1. \A i \in Offs : safe[i] # Undef => content[i] = safe[i] /\ i < fil.size /\ i < ent.size /\ ent.start = fil.sclust
    BY <1>1 DEF Inv, SafeOk
  <2> QED
    BY <1>2, <2>1 DEF Synced
<1>5. CASE o.ok /\ ~fil.err
  <2>1. m = content /\ ~o.x.mod /\ ~o.x.dirty /\ Fits(o.ent) /\ o.ent.size = fil.size /\ Reads(w, o.x, o.d, content)
    BY <1>5 DEF MadeSafe, Synced, Flushed
  <2>2. \A i \in Offs : content[i] # Undef => i < fil.size
    BY <1>1, <1>5 DEF Inv
  <2>3. \A i \in Offs : content[i] # Undef => o.ent.start = fil.sclust
    <3>1. SUFFICES ASSUME NEW i \in Offs, content[i] # Undef PROVE o.ent.size # 0
      BY <2>1 DEF Fits
    <3> QED
      BY <1>1, <2>1, <2>2, <3>1
  <2>4. Keeps(w, o.x, o.d, content)
    BY <2>1 DEF Reads, Keeps
  <2> QED
    BY <1>1, <1>3, <2>1, <2>2, <2>3, <2>4 DEF Made
<1>6. CASE ~(o.ok /\ ~fil.err)
  <2>1. m = safe
    BY <1>6 DEF MadeSafe
  <2>2. Keeps(w, o.x, o.d, safe)
    BY DEF Synced, Flushed
  <2> QED
    BY <1>1, <1>3, <1>4, <2>1, <2>2 DEF Made
<1> QED
  BY <1>5, <1>6

\* After f_sync, or an f_close that fails: the object stays open.
LEMMA SyncedStep ==
  ASSUME NEW w, Inv(w), fil.open, call = Idle, NEW o, Synced(w, o),
         fil' = o.x, data' = o.d, ent' = o.ent, safe' = MadeSafe(o), got' = Nothing, faults' \in 0 .. MaxFaults,
         UNCHANGED <<fat, call, writes, content, halfCut>>
  PROVE  Inv(w)'
<1>1. Made(w, o, safe') /\ o.ent \in [start : Clus \cup {None}, size : 0 .. MaxBytes]
  BY MadeIs
<1>2. PICK y : y = fil'
  OBVIOUS
<1>3. /\ y \in Object /\ y.open /\ y.fptr = fil.fptr /\ y.size = fil.size /\ y.sclust = fil.sclust
      /\ y.clust = fil.clust /\ y.err = fil.err /\ y.sect = fil.sect /\ data' \in Area /\ Dirt(w, y)
      /\ OthersOk(fat, data') /\ (fil.err \/ Reads(w, y, data', content))
  BY <1>2 DEF Synced, Flushed
<1>4. /\ Start = fil.sclust /\ Size = fil.size /\ Start' = fil.sclust /\ Size' = fil.size
      /\ Chained(fat, fil.sclust, w) /\ fil.size <= w.len * Bcs
  BY <1>2, <1>3, Unmoved DEF Inv, Start, Size
<1>5. Types'
  BY <1>1, <1>2, <1>3 DEF Inv, Types, Made, Area
<1>6. EntryOk'
  BY <1>2, <1>3 DEF EntryOk, Synced, Fits
<1>7. SafeOk'
  BY <1>1, <1>4 DEF SafeOk, Made
<1>8. CallOk(w)'
  BY <1>2, <1>3 DEF Inv, CallOk, Cursor, Idle
<1>9. fil'.err \/ (Reads(w, fil, data, content)' /\ \A i \in Offs : content'[i] # Undef => i < Size')
  BY <1>2, <1>3, <1>4 DEF Inv, Reads
<1>10. Keeps(w, fil, data, safe)'
  BY <1>1, <1>2 DEF Made, Keeps
<1>11. Dirt(w, fil)' /\ OthersUntouched'
  BY <1>2, <1>3 DEF Dirt, OthersUntouched, OthersOk
<1> QED
  BY <1>4, <1>5, <1>6, <1>7, <1>8, <1>9, <1>10, <1>11, NothingDelivered DEF Inv

\* After an f_close that succeeds, v is the chain that the entry starts.
LEMMA ClosedStep ==
  ASSUME NEW w, Inv(w), fil.open, call = Idle, NEW o, Synced(w, o),
         fil' = Closed, data' = o.d, ent' = o.ent, safe' = MadeSafe(o), content' = MadeSafe(o), got' = Nothing,
         faults' \in 0 .. MaxFaults, UNCHANGED <<fat, call, writes, halfCut>>,
         NEW v, Chained(fat, o.ent.start, v), o.ent.size <= v.len * Bcs,
         \A i \in Offs, s \in Sectors : safe'[i] # Undef /\ At(v, s, i) => At(w, s, i)
  PROVE  Inv(v)'
<1>1. Made(w, o, safe') /\ o.ent \in [start : Clus \cup {None}, size : 0 .. MaxBytes]
  BY MadeIs
<1>2. PICK y : y = fil'
  OBVIOUS
<1>3. y = Closed /\ y.open = FALSE /\ y.err = FALSE /\ y.dirty = FALSE /\ y.sect = NoSector /\ y \in Object
  <2>1. Closed.open = FALSE /\ Closed.err = FALSE /\ Closed.dirty = FALSE /\ Closed.sect = NoSector
    BY DEF Closed
  <2>2. [b \in In |-> 0] \in [In -> Bytes]
    BY FileAssumption DEF Bytes
  <2>3. Closed \in Object
    BY <2>2 DEF Closed, Object
  <2> QED
    BY <1>2, <2>1, <2>3
<1>4. Start' = o.ent.start /\ Size' = o.ent.size
  BY <1>2, <1>3 DEF Start, Size
<1>5. Types'
  <2>1. o.d \in Area
    BY DEF Synced, Flushed
  <2> QED
    BY <1>1, <1>2, <1>3, <2>1 DEF Inv, Types, Made, Area
<1>6. EntryOk'
  BY <1>2, <1>3 DEF EntryOk
<1>7. SafeOk'
  BY <1>1, <1>4 DEF SafeOk, Made
<1>8. CallOk(v)'
  BY <1>2, <1>3 DEF CallOk, Idle
<1>9. \A i \in Offs, s \in Sectors : safe'[i] # Undef /\ At(v, s, i) => data'[s][i % SS] = safe'[i]
  BY <1>1 DEF Made, Keeps
<1>10. Keeps(v, fil, data, safe)'
  BY <1>2, <1>3, <1>9 DEF Keeps
<1>11. Reads(v, fil, data, content)'
  BY <1>2, <1>3, <1>9, Marks DEF Reads, NoSector
<1>12. \A i \in Offs : content'[i] # Undef => i < Size'
  BY <1>1, <1>4 DEF Made
<1>13. Dirt(v, fil)' /\ OthersUntouched'
  BY <1>2, <1>3 DEF Dirt, OthersUntouched, OthersOk, Synced, Flushed
<1>14. Chained(fat', Start', v) /\ Size' <= v.len * Bcs
  BY <1>4
<1> QED
  BY <1>5, <1>6, <1>7, <1>8, <1>10, <1>11, <1>12, <1>13, <1>14, NothingDelivered DEF Inv

\* FSync.
LEMMA SyncStep ==
  ASSUME NEW w, Inv(w), FSync
  PROVE  Inv(w)'
<1>1. /\ call = Idle /\ fil.open /\ got' = Nothing /\ UNCHANGED <<fat, call, writes, content, halfCut>>
  BY DEF FSync, CanBegin
<1>2. PICK o \in Sync : /\ fil' = o.x /\ data' = o.d /\ ent' = o.ent /\ Spend(o.cost)
                        /\ safe' = MadeSafe(o)
  BY DEF FSync
<1>3. Synced(w, o)
  BY <1>1, SyncIs
<1>4. faults' \in 0 .. MaxFaults
  BY <1>2, <1>3, Spent DEF Synced, Spend
<1> QED
  BY <1>1, <1>2, <1>3, <1>4, SyncedStep

\* FClose.
LEMMA CloseStep ==
  ASSUME NEW w, Inv(w), FClose
  PROVE  IInv'
<1>1. /\ call = Idle /\ fil.open /\ got' = Nothing /\ UNCHANGED <<fat, call, writes, halfCut>>
  BY DEF FClose, CanBegin
<1>2. PICK o \in Sync : /\ fil' = (IF o.ok THEN Closed ELSE o.x)
                        /\ data' = o.d /\ ent' = o.ent /\ Spend(o.cost)
                        /\ safe' = MadeSafe(o)
                        /\ content' = IF o.ok THEN MadeSafe(o) ELSE content
  BY DEF FClose
<1>3. Synced(w, o)
  BY <1>1, SyncIs
<1>4. faults' \in 0 .. MaxFaults
  BY <1>2, <1>3, Spent DEF Synced, Spend
<1>5. CASE ~o.ok
  <2>1. fil' = o.x /\ UNCHANGED <<fat, call, writes, content, halfCut>>
    BY <1>1, <1>2, <1>5
  <2>2. Inv(w)'
    BY <1>1, <1>2, <1>3, <1>4, <2>1, SyncedStep
  <2> QED
    BY <2>2 DEF IInv
<1>6. CASE o.ok
  <2>1. fil' = Closed /\ content' = MadeSafe(o) /\ Fits(o.ent)
    BY <1>2, <1>3, <1>6 DEF Synced
  <2>2. /\ Chained(fat, fil.sclust, w) /\ fil.size <= w.len * Bcs /\ fil.size \in Nat /\ w.len * Bcs \in Nat
        /\ o.ent.size \in Nat
    <3>1. Chained(fat, fil.sclust, w) /\ fil.size <= w.len * Bcs /\ fil.size \in Nat /\ w.len \in Nat
      BY <1>1, Unmoved, Bounds DEF Inv, Placed
    <3>2. o.ent.size \in Nat
      BY <1>1, <1>3, MadeIs
    <3> QED
      BY <3>1, <3>2, Sizes
  <2>3. CASE o.ent.start = fil.sclust
    <3>1. Chained(fat, o.ent.start, w) /\ o.ent.size <= w.len * Bcs
      BY <2>1, <2>2, <2>3 DEF Fits
    <3>2. Inv(w)'
      BY <1>1, <1>2, <1>3, <1>4, <2>1, <3>1, ClosedStep
    <3> QED
      BY <3>2 DEF IInv
  <2>4. CASE o.ent.start = None /\ o.ent.size = 0
    <3>1. Chained(fat, o.ent.start, Empty) /\ o.ent.size <= Empty.len * Bcs
      <4>1. Empty.len = 0 /\ 0 * Bcs = 0
        BY EmptyChain, Sizes
      <4> QED
        BY <2>4, <4>1, EmptyChain
    <3>2. \A i \in Offs, s \in Sectors : safe'[i] # Undef /\ At(Empty, s, i) => At(w, s, i)
      BY NoPlace
    <3>3. Inv(Empty)'
      BY <1>1, <1>2, <1>3, <1>4, <2>1, <3>1, <3>2, ClosedStep
    <3> QED
      BY <3>3 DEF IInv
  <2> QED
    BY <2>1, <2>3, <2>4 DEF Fits
<1>7. o.ok \in BOOLEAN
  BY <1>3 DEF Synced
<1> QED
  BY <1>5, <1>6, <1>7

-----------------------------------------------------------------------------
(* Every step, and what follows.                                           *)

\* An empty volume with no file open.
LEMMA InitInv == Init => Inv(Empty)
<1>1. SUFFICES ASSUME Init PROVE Inv(Empty)
  OBVIOUS
<1>2. /\ fat = [c \in Clus |-> None] /\ ent = [start |-> None, size |-> 0]
      /\ data = [s \in Sectors |-> [b \in In |-> 0]] /\ fil = Closed /\ call = Idle
      /\ writes = 0 /\ faults = 0
      /\ content = Unwritten /\ safe = Unwritten /\ got = Nothing /\ halfCut = FALSE
  BY <1>1 DEF Init
<1>3. /\ fil.open = FALSE /\ fil.err = FALSE /\ fil.dirty = FALSE /\ fil.fptr = 0 /\ fil \in Object
  <2>1. [b \in In |-> 0] \in [In -> Bytes]
    BY FileAssumption DEF Bytes
  <2> QED
    BY <1>2, <2>1 DEF Closed, Object
<1>4. Start = None /\ Size = 0
  BY <1>2, <1>3 DEF Start, Size
<1>5. Types
  <2>1. data \in [Sectors -> [In -> Bytes]]
    BY <1>2, FileAssumption DEF Bytes
  <2>2. MaxBytes \in Nat
    BY FileAssumption, FS_CardinalityType, Sizes DEF MaxBytes, NClust
  <2>3. Unwritten \in [Offs -> Bytes \cup {Undef}]
    BY DEF Unwritten
  <2>4. ent \in [start : Clus \cup {None}, size : 0 .. MaxBytes]
    BY <1>2, <2>2
  <2>5. writes \in 0 .. MaxWrites /\ faults \in 0 .. MaxFaults
    BY <1>2, FileAssumption
  <2>6. call \in [op : {"none", "read", "forward", "write", "seek"}, n : Nat]
    BY <1>2 DEF Idle
  <2> QED
    BY <1>2, <1>3, <2>1, <2>3, <2>4, <2>5, <2>6 DEF Types
<1>6. Chained(fat, Start, Empty) /\ Size <= Empty.len * Bcs
  <2>1. Empty.len = 0 /\ 0 * Bcs = 0
    BY EmptyChain, Sizes
  <2> QED
    BY <1>4, <2>1, EmptyChain
<1>7. EntryOk /\ SafeOk
  BY <1>2, <1>3 DEF EntryOk, SafeOk, Unwritten
<1>8. CallOk(Empty)
  BY <1>2, <1>3 DEF CallOk, Idle
<1>9. Reads(Empty, fil, data, content) /\ \A i \in Offs : content[i] # Undef => i < Size
  BY <1>2 DEF Reads, Unwritten
<1>10. Keeps(Empty, fil, data, safe) /\ Dirt(Empty, fil)
  BY <1>2, <1>3 DEF Keeps, Dirt, Unwritten
<1>11. OthersUntouched
  BY <1>2, Marks DEF OthersUntouched, Sectors
<1>12. DeliversWritten
  BY <1>2 DEF DeliversWritten, Nothing
<1> QED
  BY <1>5, <1>6, <1>7, <1>8, <1>9, <1>10, <1>11, <1>12 DEF Inv

\* Nothing has happened.
LEMMA SameStep ==
  ASSUME NEW w, Inv(w), UNCHANGED vars
  PROVE  Inv(w)'
<1>1. UNCHANGED <<fat, ent, data, fil, call, writes, faults, content, safe, got, halfCut>>
  BY DEF vars, card, counts, hist
<1>2. Types'
  BY <1>1 DEF Inv, Types
<1>3. Start' = Start /\ Size' = Size
  BY <1>1 DEF Start, Size
<1>4. EntryOk' /\ SafeOk'
  BY <1>1, <1>3 DEF Inv, EntryOk, SafeOk
<1>5. CallOk(w)'
  BY <1>1 DEF Inv, CallOk, Cursor, Seeking
<1>6. fil'.err \/ (Reads(w, fil, data, content)' /\ \A i \in Offs : content'[i] # Undef => i < Size')
  BY <1>1, <1>3 DEF Inv, Reads
<1>7. Keeps(w, fil, data, safe)' /\ Dirt(w, fil)' /\ OthersUntouched'
  BY <1>1 DEF Inv, Keeps, Dirt, OthersUntouched
<1>8. Chained(fat', Start', w) /\ Size' <= w.len * Bcs
  BY <1>1, <1>3 DEF Inv
<1>9. DeliversWritten'
  BY <1>1 DEF Inv, DeliversWritten
<1> QED
  BY <1>2, <1>4, <1>5, <1>6, <1>7, <1>8, <1>9 DEF Inv

\* Every step keeps the invariant.
LEMMA NextInv == IInv /\ [Next]_vars => IInv'
<1>1. SUFFICES ASSUME IInv, [Next]_vars PROVE IInv'
  OBVIOUS
<1>2. PICK w : Inv(w)
  BY <1>1 DEF IInv
<1>3. Inv(w)' => IInv'
  BY DEF IInv
<1>4. ASSUME NEW b \in BOOLEAN, FOpen(b) PROVE IInv'
  BY <1>2, <1>3, <1>4, OpenStep
<1>5. CASE FOpenAppend
  BY <1>2, <1>3, <1>5, AppendStep
<1>6. CASE FOpenCreate
  <2>1. Inv(Empty)'
    BY <1>2, <1>6, CreateStep
  <2> QED
    BY <2>1 DEF IInv
<1>7. ASSUME NEW n \in ReadLengths, FRead(n) \/ FForward(n) PROVE IInv'
  BY <1>2, <1>3, <1>7, ReadStep
<1>8. ASSUME NEW n \in WriteLengths, FWrite(n) PROVE IInv'
  BY <1>2, <1>3, <1>8, WriteStep
<1>9. CASE ReadDirect
  BY <1>2, <1>3, <1>9, ReadDirectStep
<1>10. CASE ReadCached
  BY <1>2, <1>3, <1>10, ReadCachedStep
<1>11. CASE Forward
  BY <1>2, <1>3, <1>11, ForwardStep
<1>12. CASE ForwardBusy
  BY <1>2, <1>3, <1>12, ForwardBusyStep
<1>13. CASE WriteFull
  BY <1>2, <1>3, <1>13, WriteFullStep
<1>14. CASE WriteDirect
  BY <1>2, <1>14, WriteDirectStep
<1>15. CASE WriteCached
  BY <1>2, <1>15, WriteCachedStep
<1>16. ASSUME NEW n \in Offsets, FLseek(n) PROVE IInv'
  <2>1. n \in Nat
    BY FileAssumption
  <2> QED
    BY <1>2, <1>16, <2>1, LseekStep
<1>17. CASE SeekOn
  BY <1>2, <1>17, SeekOnStep
<1>18. CASE SeekEnd
  BY <1>2, <1>3, <1>18, SeekEndStep
<1>19. CASE FTruncate
  BY <1>2, <1>19, TruncateStep
<1>20. CASE FSync
  BY <1>2, <1>3, <1>20, SyncStep
<1>21. CASE FClose
  BY <1>2, <1>21, CloseStep
<1>22. ASSUME NEW c \in Clus, OtherTakes(c) PROVE IInv'
  BY <1>2, <1>3, <1>22, OtherTakesStep
<1>23. ASSUME NEW c \in Clus, OtherFrees(c) PROVE IInv'
  BY <1>2, <1>3, <1>23, OtherFreesStep
<1>24. CASE UNCHANGED vars
  BY <1>2, <1>3, <1>24, SameStep
<1> QED
  BY <1>1, <1>4, <1>5, <1>6, <1>7, <1>8, <1>9, <1>10, <1>11, <1>12, <1>13, <1>14, <1>15, <1>16, <1>17, <1>18,
     <1>19, <1>20, <1>21, <1>22, <1>23, <1>24 DEF Next

\* The types, and fptr within the volume, follow.
LEMMA InvTypeOK == IInv => TypeOK
<1>1. SUFFICES ASSUME NEW w, Inv(w) PROVE TypeOK
  BY DEF IInv
<1>2. fil \in Object /\ ent.size \in Nat
  BY <1>1 DEF Inv, Types
<1>3. /\ fil.fptr \in Nat /\ fil.size \in Nat /\ {fil.sclust, fil.clust} \subseteq Clus \cup {None}
      /\ fil.sect \in Sectors \cup {NoSector} /\ fil.buf \in [In -> Bytes]
  BY <1>2, ObjectFields
<1>4. MaxBytes \in Nat
  BY FileAssumption, FS_CardinalityType, Sizes DEF MaxBytes, NClust
<1>5. fil.fptr <= MaxBytes /\ fil.size <= MaxBytes
  <2>1. CASE ~fil.open
    <3>1. fil = Closed
      BY <1>1, <2>1 DEF Inv, Types
    <3>2. fil.fptr = 0 /\ fil.size = 0
      BY <3>1 DEF Closed
    <3> QED
      BY <1>4, <3>2
  <2>2. CASE fil.open
    <3>1. fil.size <= MaxBytes
      BY <1>1, <2>2, Bounds
    <3>2. CASE fil.err
      <4>1. fil.fptr = 0
        BY <1>1, <3>2 DEF Inv, CallOk
      <4> QED
        BY <1>4, <3>1, <4>1
    <3>3. CASE ~fil.err /\ Cursor(w, fil)
      BY <1>3, <1>4, <3>1, <3>3 DEF Cursor
    <3>4. CASE ~fil.err /\ Seeking(w, fil)
      <4>1. Chained(fat, fil.sclust, w) /\ fat \in [Clus -> Values]
        BY <1>1, <2>2, Unmoved
      <4>2. w.len * Bcs <= MaxBytes /\ w.len \in Nat
        BY <4>1, ChainFits DEF Chained, Placed
      <4>3. Plc(fil.fptr) <= w.len
        BY <3>4, <4>1, <4>2, Position, <1>3 DEF Seeking, Chained, Placed
      <4>4. fil.fptr < w.len * Bcs /\ w.len * Bcs \in Nat
        BY <1>3, <4>2, <4>3, Reaching, Sizes
      <4> QED
        BY <1>3, <1>4, <3>1, <4>2, <4>4
    <3> QED
      BY <1>1, <2>2, <3>2, <3>3, <3>4 DEF Inv, CallOk
  <2> QED
    BY <2>1, <2>2
<1>6. fil.dirty => fil.sect # NoSector
  BY <1>1, Marks DEF Inv, Dirt, NoSector
<1>7. fil.fptr \in 0 .. MaxBytes /\ fil.size \in 0 .. MaxBytes
  BY <1>3, <1>4, <1>5
<1>8. call.op \in {"none", "read", "forward", "write", "seek"} /\ call.n \in Nat
  BY <1>1 DEF Inv, Types
<1> QED
  BY <1>1, <1>3, <1>6, <1>7, <1>8 DEF Inv, Types, TypeOK

\* The sector of an offset inside the file.
LEMMA InFile ==
  ASSUME NEW w, Inv(w), NEW i \in Offs, i < Size
  PROVE  /\ SectorOf(Start, i) \in Sectors /\ At(w, SectorOf(Start, i), i)
<1>1. Chained(fat, Start, w) /\ fat \in [Clus -> Values] /\ Size <= w.len * Bcs /\ i \in Nat
  BY Unmoved DEF Inv, Offs
<1>2. Size \in Nat
  <2>1. CASE fil.open
    BY <2>1, Unmoved, Bounds
  <2>2. CASE ~fil.open
    BY <2>2, ClosedIs
  <2> QED
    BY <2>1, <2>2
<1>3. w.len * Bcs \in Nat
  BY <1>1, Sizes DEF Chained, Placed
<1>4. i < w.len * Bcs
  BY <1>1, <1>2, <1>3
<1> QED
  BY <1>1, <1>4, SectorIs

\* The cache and the card have the written bytes.
LEMMA InvReadsBack == IInv => ReadsBack
<1>1. SUFFICES ASSUME NEW w, Inv(w), NEW i \in Offs, content[i] # Undef
               PROVE  IF ~fil.open THEN i < ent.size /\ CardHas(ent.start, i, content[i])
                      ELSE fil.err \/ /\ i < fil.size
                                      /\ IF SectorOf(fil.sclust, i) = fil.sect THEN fil.buf[i % SS] = content[i]
                                         ELSE CardHas(fil.sclust, i, content[i])
  BY DEF IInv, ReadsBack
<1>2. CASE ~fil.open
  <2>1. Start = ent.start /\ Size = ent.size /\ i < ent.size
    BY <1>1, <1>2, ClosedIs
  <2>2. SectorOf(ent.start, i) \in Sectors /\ At(w, SectorOf(ent.start, i), i)
    BY <1>1, <2>1, InFile
  <2>3. data[SectorOf(ent.start, i)][i % SS] = content[i]
    BY <1>1, <1>2, <2>2, ClosedIs
  <2> QED
    BY <1>2, <2>1, <2>2, <2>3 DEF CardHas
<1>3. CASE fil.open /\ ~fil.err
  <2>1. Start = fil.sclust /\ Size = fil.size /\ Reads(w, fil, data, content)
    BY <1>1, <1>3, Unmoved
  <2>2. i < fil.size
    BY <1>1, <1>3, <2>1 DEF Inv
  <2>3. SectorOf(fil.sclust, i) \in Sectors /\ At(w, SectorOf(fil.sclust, i), i)
    BY <1>1, <2>1, <2>2, InFile
  <2>4. IF SectorOf(fil.sclust, i) = fil.sect THEN fil.buf[i % SS] = content[i]
        ELSE data[SectorOf(fil.sclust, i)][i % SS] = content[i]
    BY <1>1, <2>1, <2>3 DEF Reads
  <2> QED
    BY <1>3, <2>2, <2>3, <2>4 DEF CardHas
<1> QED
  BY <1>2, <1>3

\* The card has the durable bytes.
LEMMA InvDurableStays == IInv => DurableStays
<1>1. SUFFICES ASSUME NEW w, Inv(w), NEW i \in Offs, safe[i] # Undef
               PROVE  i < ent.size /\ CardHas(ent.start, i, safe[i])
  BY DEF IInv, DurableStays
<1>2. i < Size /\ i < ent.size /\ ent.start = Start
  BY <1>1 DEF Inv, SafeOk
<1>3. SectorOf(ent.start, i) \in Sectors /\ At(w, SectorOf(ent.start, i), i)
  BY <1>1, <1>2, InFile
<1>4. data[SectorOf(ent.start, i)][i % SS] = safe[i]
  BY <1>1, <1>3 DEF Inv, Keeps
<1> QED
  BY <1>2, <1>3, <1>4 DEF CardHas

\* The inductive invariant: there is a witness of the chain of the file, and cache,
\* entry, card and call in progress agree with it.
THEOREM Invariant == Spec => []IInv
<1>1. Init => IInv
  BY InitInv DEF IInv
<1> QED
  BY <1>1, NextInv, PTL DEF Spec

\* TypeOK: every variable has its type, and f_lseek, f_write and f_truncate never take
\* fptr or the size out of the volume.
THEOREM TypesHold == Spec => []TypeOK
BY Invariant, InvTypeOK, PTL

\* ReadsBack: a byte that f_write has written is in the cache when its sector is, else on
\* the card, whatever f_read, f_forward, f_lseek, f_truncate and f_sync have done between.
THEOREM WrittenReadsBack == Spec => []ReadsBack
BY Invariant, InvReadsBack, PTL

\* DeliversWritten: f_read and f_forward hand out what was written last, directly from
\* the card or from the cache.
THEOREM ReadDeliversWritten == Spec => []DeliversWritten
<1>1. IInv => DeliversWritten
  BY DEF IInv, Inv
<1> QED
  BY <1>1, Invariant, PTL

\* DurableStays: what f_sync or f_close has made durable, and no later call was asked to
\* change, is on the card in every state, before, between and after any transfers.
THEOREM DurableBytesStay == Spec => []DurableStays
BY Invariant, InvDurableStays, PTL

\* OthersUntouched: no call writes into a cluster of another file, unless an f_truncate
\* has failed.
THEOREM OtherFilesUntouched == Spec => []OthersUntouched
<1>1. IInv => OthersUntouched
  BY DEF IInv, Inv
<1> QED
  BY <1>1, Invariant, PTL

=============================================================================
