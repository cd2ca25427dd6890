---------------------------- MODULE DirectoryProofs ----------------------------
(***************************************************************************)
(* Proofs about Directory: the tables stay sound whatever calls run, fail  *)
(* and lose power, for any paths, names, labels, numbers of clusters,      *)
(* sectors and slots, objects and stops.                                   *)
(*                                                                         *)
(* The properties speak of walks through tables that the FAT strings       *)
(* together.  The invariant speaks of slots instead: some witness gives    *)
(* each cluster its table and its place there, and says what a slot may be *)
(* where it is (Good).  It is kept on the card and in what the calls see   *)
(* of it through the window (Sound), so that a power loss between any two  *)
(* transfers leaves it.                                                    *)
(***************************************************************************)
EXTENDS Directory, WellFoundedInduction, FunctionTheorems, FiniteSetTheorems, TLAPS

-----------------------------------------------------------------------------
(* The invariant.                                                          *)

\* Kinds of slots, names, slots.
Kinds == {"end", "del", "junk", "dot", "file", "dir", "label"}
\* Segments of paths are not empty.
Unnamed == ""
Names == STRING \ {Unnamed}
NameSet == {""} \cup Labels \cup UNION {{p[i] : i \in DOMAIN p} : p \in Paths}
SlotSet == [kind : Kinds, name : NameSet, id : Nat, clu : Clus \cup {0}]
Entry == {"file", "dir"}
Used == {"file", "dir", "label"}

\* What sectors hold: the FAT, or slots.
Fats == [Clus -> Clus \cup {0, EOC}]
Blocks == [Slots -> SlotSet]
IsMem(m) ==
  /\ m = [s \in Sectors \cup {FatSect} |-> m[s]]
  /\ m[FatSect] \in Fats
  /\ \A s \in Sectors : m[s] \in Blocks

\* The cluster that the sector s is in, and the sectors of the cluster c.
Cl(s) == ((s - Database) \div Csize) + 2
Area(c) == Clust2Sect(c) .. Clust2Sect(c) + Csize - 1

\* A witness w gives each cluster the table it belongs to (own), which is known by its
\* first cluster, its place there (idx), and each table its length (len).
Nobody == 0 - 1
Witness == [own : [Clus -> Clus \cup {Nobody}], idx : [Clus -> Nat], len : [Clus -> Nat]]

\* Table of a sector (0 is the root), number of the sector in it, and number of a slot.
Tab(w, s) == IF s < Database THEN 0 ELSE w.own[Cl(s)]
Num(w, s) == IF s < Database THEN s - RootAt ELSE (Csize * (w.idx[Cl(s)] - 1)) + (s - Clust2Sect(Cl(s)))
Pos(w, s, i) == (SpS * Num(w, s)) + (i - 1)

\* The chains of the FAT f are the tables of w.
Chained(f, w) ==
  /\ \A c \in Clus : f[c] = 0 <=> w.own[c] = Nobody
  /\ \A c \in Clus : f[c] # 0 =>
       LET t == w.own[c]
       IN  /\ w.own[t] = t /\ w.idx[t] = 1 /\ w.idx[c] >= 1 /\ w.idx[c] <= w.len[t]
           /\ IF w.idx[c] < w.len[t]
              THEN f[c] \in Clus /\ w.own[f[c]] = t /\ w.idx[f[c]] = w.idx[c] + 1
              ELSE f[c] = EOC
  /\ \A c, d \in Clus : f[c] # 0 /\ w.own[c] = w.own[d] /\ w.idx[c] = w.idx[d] => c = d
  /\ \A t \in Clus : w.own[t] = t => \A k \in 1 .. w.len[t] : \E c \in Clus : w.own[c] = t /\ w.idx[c] = k

\* The slot i of the sector s is the entry of a directory with the table t.
Leads(m, s, i, t) == m[s][i].kind = "dir" /\ m[s][i].clu = t

\* No other slot is an entry of the directory of this one.
Alone(m, s, i) ==
  \A r \in Sectors, j \in Slots : Leads(m, r, j, m[s][i].clu) => r = s /\ j = i

\* Entries of directories lead to tables that begin with "." and "..", which leads back
\* unless the directory has two entries.
Led(m, w) ==
  \A s \in Sectors, i \in Slots :
    /\ m[s][i].kind = "dir" =>
         LET t == m[s][i].clu
         IN  /\ t \in Clus /\ w.own[t] = t
             /\ m[Clust2Sect(t)][1] = Dot(t) /\ m[Clust2Sect(t)][2].kind = "dot"
             /\ Alone(m, s, i) => m[Clust2Sect(t)][2] = Dot(Tab(w, s))
    /\ m[s][i].kind \in {"file", "label"} => m[s][i].clu = 0
    /\ m[s][i].kind = "junk" => m[s][i].name = Unnamed

\* What is used lies in tables, before the end of them, and names are unique.
Ordered(m, w) ==
  \A s \in Sectors, i \in Slots :
    /\ m[s][i].kind \in Used => Tab(w, s) # Nobody
    /\ m[s][i].kind = "label" => Tab(w, s) = 0
    /\ \A r \in Sectors, j \in Slots :
         /\ m[s][i].kind \in Entry /\ m[r][j].kind \in Entry /\ Tab(w, s) = Tab(w, r)
              /\ m[s][i].name = m[r][j].name => s = r /\ i = j
         /\ m[s][i].kind = "label" /\ m[r][j].kind = "label" => s = r /\ i = j
         /\ m[s][i].kind = "end" /\ m[r][j].kind \in Used /\ Tab(w, s) = Tab(w, r) =>
              Pos(w, r, j) < Pos(w, s, i)

\* No table that an entry leads to holds what was there before.
Clean(m, w) ==
  \A s \in Sectors, i \in Slots : m[s][i].kind = "junk" =>
    /\ Tab(w, s) # 0
    /\ \A r \in Sectors, j \in Slots : ~Leads(m, r, j, Tab(w, s))

\* The sectors m with the witness w; j says that a table may end in junk.
Good(m, w, j) ==
  w \in Witness /\ Chained(m[FatSect], w) /\ Led(m, w) /\ Ordered(m, w) /\ (j \/ Clean(m, w))

\* The sectors m hold sound tables; j says that a table may end in junk.
Sane(m, j) == IsMem(m) /\ \E w : Good(m, w, j)


-----------------------------------------------------------------------------
(* Numbers.                                                                *)

\* What division and remainder are.
LEMMA DivMod ==
  ASSUME NEW a \in Nat, NEW b \in Nat \ {0}
  PROVE  a \div b \in Nat /\ a % b \in 0 .. b - 1 /\ a = b * (a \div b) + (a % b)
OBVIOUS

\* Products are ordered as their factors are.
LEMMA Times ==
  ASSUME NEW b \in Nat, NEW p \in Nat, NEW q \in Nat
  PROVE  /\ b * p \in Nat /\ b * (p + q) = b * p + b * q
         /\ p <= q => b * p <= b * q
         /\ p < q => b * p + b <= b * q
OBVIOUS

\* Two numbers of so many parts and a rest are equal only part by part.
LEMMA Parts ==
  ASSUME NEW b \in Nat \ {0}, NEW p \in Nat, NEW q \in Nat, NEW r \in 0 .. b - 1, NEW t \in 0 .. b - 1,
         b * p + r = b * q + t
  PROVE  p = q /\ r = t
<1>1. ~(p < q)
  <2>1. SUFFICES ASSUME p < q PROVE FALSE
    OBVIOUS
  <2>2. b * p + b <= b * q /\ b * p \in Nat /\ b * q \in Nat
    BY <2>1, Times
  <2> QED
    BY <2>2
<1>2. ~(q < p)
  <2>1. SUFFICES ASSUME q < p PROVE FALSE
    OBVIOUS
  <2>2. b * q + b <= b * p /\ b * p \in Nat /\ b * q \in Nat
    BY <2>1, Times
  <2> QED
    BY <2>2
<1>3. p = q
  BY <1>1, <1>2
<1> QED
  BY <1>3

\* Division and remainder are the only numbers of their kind.
LEMMA DivIs ==
  ASSUME NEW a \in Nat, NEW b \in Nat \ {0}, NEW q \in Nat, NEW r \in 0 .. b - 1, a = b * q + r
  PROVE  a \div b = q /\ a % b = r
<1> DEFINE p == a \div b
           t == a % b
<1>1. p \in Nat /\ t \in 0 .. b - 1 /\ a = b * p + t
  BY DivMod
<1> HIDE DEF p, t
<1>2. p = q /\ t = r
  BY <1>1, Parts
<1> QED
  BY <1>2 DEF p, t

\* The constants.
LEMMA Numbers ==
  /\ NClust \in Nat \ {0} /\ Csize \in Nat \ {0} /\ RootSects \in Nat \ {0} /\ SpS \in Nat /\ SpS >= 2
  /\ MaxObjs \in Nat /\ MaxStops \in Nat
  /\ RootAt = 2 /\ Database \in Nat /\ Database > RootAt /\ Database = RootAt + RootSects
  /\ FatSect = 1 /\ NoSect = 0 - 1 /\ DiskErr = 0 - 1
  /\ Clus \subseteq Nat /\ 0 \notin Clus /\ 1 \notin Clus /\ EOC \notin Clus /\ EOC \in Nat /\ EOC # 0 /\ Nobody \notin Clus
  /\ DiskErr \notin Clus /\ EOC # 1 /\ Nobody # 0
  /\ 1 \in Slots /\ 2 \in Slots /\ Slots \subseteq Nat
<1>1. /\ NClust \in Nat \ {0} /\ Csize \in Nat \ {0} /\ RootSects \in Nat \ {0} /\ SpS \in Nat /\ SpS >= 2
      /\ MaxObjs \in Nat /\ MaxStops \in Nat
  BY DirectoryAssumption
<1>2. /\ RootAt = 2 /\ Database \in Nat /\ Database > RootAt /\ Database = RootAt + RootSects
      /\ FatSect = 1 /\ NoSect = 0 - 1 /\ DiskErr = 0 - 1
  BY <1>1 DEF RootAt, Database, FatSect, NoSect, DiskErr
<1>3. /\ Clus \subseteq Nat /\ 0 \notin Clus /\ 1 \notin Clus /\ EOC \notin Clus /\ EOC \in Nat /\ EOC # 0 /\ Nobody \notin Clus
      /\ DiskErr \notin Clus /\ EOC # 1 /\ Nobody # 0
  BY <1>1 DEF Clus, EOC, Nobody, DiskErr
<1>4. 1 \in Slots /\ 2 \in Slots /\ Slots \subseteq Nat
  BY <1>1 DEF Slots
<1> QED
  BY <1>1, <1>2, <1>3, <1>4

\* The sectors of the data area as a product.
LEMMA Area0 ==
  ASSUME NEW c \in Clus
  PROVE  /\ c - 2 \in Nat /\ Csize * (c - 2) \in Nat /\ Clust2Sect(c) = Database + Csize * (c - 2)
         /\ Clust2Sect(c) \in Nat /\ Clust2Sect(c) >= Database
<1>1. c - 2 \in Nat /\ Csize \in Nat
  BY Numbers DEF Clus
<1>2. Csize * (c - 2) \in Nat /\ (c - 2) * Csize = Csize * (c - 2)
  BY <1>1
<1> QED
  BY <1>1, <1>2, Numbers DEF Clust2Sect

\* A sector of the cluster c is a sector of the card, and of no other cluster.
LEMMA InArea ==
  ASSUME NEW c \in Clus, NEW s \in Area(c)
  PROVE  s \in Sectors /\ s >= Database /\ Cl(s) = c /\ s \in Nat
<1> DEFINE k == c - 2
           p == Csize * k
           r == s - Clust2Sect(c)
<1>1. k \in Nat /\ k + 1 <= NClust /\ c = k + 2
  BY Numbers DEF Clus
<1>2. p \in Nat /\ Clust2Sect(c) = Database + p
  BY Area0
<1>3. r \in 0 .. Csize - 1 /\ s = Database + p + r
  BY <1>2, Numbers DEF Area
<1>4. p + Csize <= NClust * Csize
  <2>1. Csize * (k + 1) = p + Csize
    <3>1. Csize * (k + 1) = Csize * k + Csize * 1
      BY <1>1, Numbers, Times
    <3> QED
      BY <3>1, Numbers
  <2>2. Csize * (k + 1) <= Csize * NClust
    BY <1>1, Numbers, Times
  <2>3. Csize * NClust = NClust * Csize
    BY Numbers
  <2> QED
    BY <2>1, <2>2, <2>3
<1>5. (s - Database) \div Csize = k
  <2>1. s - Database = p + r /\ s - Database \in Nat
    BY <1>2, <1>3, Numbers
  <2> QED
    BY <1>1, <1>3, <2>1, Numbers, DivIs, ZenonT(60)
<1> HIDE DEF k, p, r
<1>6. NClust * Csize \in Nat
  BY Numbers
<1> QED
  BY <1>1, <1>2, <1>3, <1>4, <1>5, <1>6, Numbers DEF Sectors, Cl

\* A sector of the data area is in a cluster.
LEMMA AreaOf ==
  ASSUME NEW s \in Sectors, s >= Database
  PROVE  Cl(s) \in Clus /\ s \in Area(Cl(s)) /\ s - Clust2Sect(Cl(s)) \in 0 .. Csize - 1
<1> DEFINE d == s - Database
           k == d \div Csize
           r == d % Csize
           p == Csize * k
<1>1. d \in Nat /\ d < NClust * Csize /\ s = Database + d
  BY Numbers DEF Sectors
<1> HIDE DEF d
<1>2a. k \in Nat /\ r \in 0 .. Csize - 1 /\ d = p + r
  BY <1>1, Numbers, DivMod
<1>2. k \in Nat /\ r \in 0 .. Csize - 1 /\ d = p + r /\ p \in Nat
  <2> HIDE DEF k
  <2> QED
    BY <1>2a, Numbers
<1>3. Cl(s) = k + 2
  BY DEF Cl, d
<1> HIDE DEF k, r
<1>4. k < NClust
  <2>1. SUFFICES ASSUME NClust <= k PROVE FALSE
    BY <1>2, Numbers
  <2>2. Csize * NClust <= p /\ Csize * NClust = NClust * Csize /\ NClust * Csize \in Nat
    BY <1>2, <2>1, Numbers, Times
  <2> QED
    BY <1>1, <1>2, <2>2
<1>5. Cl(s) \in Clus /\ Cl(s) - 2 = k
  BY <1>2, <1>3, <1>4, Numbers DEF Clus
<1>6. Clust2Sect(Cl(s)) = Database + p
  BY <1>5, Area0
<1> HIDE DEF p
<1>7. s = Clust2Sect(Cl(s)) + r /\ Clust2Sect(Cl(s)) \in Nat
  BY <1>1, <1>2, <1>6, Numbers
<1> QED
  BY <1>2, <1>5, <1>7, Numbers DEF Area

\* The sectors of the root directory.
LEMMA InRoot ==
  ASSUME NEW s \in Int, RootAt <= s, s < Database
  PROVE  s \in Sectors
<1>1. NClust * Csize \in Nat
  BY Numbers
<1> QED
  BY <1>1, Numbers DEF Sectors

\* Sectors are numbers, and none holds the FAT.
LEMMA SectorsAre ==
  /\ Sectors \subseteq Nat /\ FatSect \notin Sectors /\ NoSect \notin Sectors /\ 0 \notin Sectors
  /\ RootAt \in Sectors /\ \A c \in Clus : Clust2Sect(c) \in Area(c) /\ Clust2Sect(c) \in Sectors
<1>1. NClust * Csize \in Nat
  BY Numbers
<1>2. Sectors \subseteq Nat /\ FatSect \notin Sectors /\ NoSect \notin Sectors /\ 0 \notin Sectors
  BY <1>1, Numbers DEF Sectors
<1>3. RootAt \in Sectors
  BY Numbers, InRoot
<1>4. ASSUME NEW c \in Clus PROVE Clust2Sect(c) \in Area(c) /\ Clust2Sect(c) \in Sectors
  <2>1. Clust2Sect(c) \in Area(c)
    BY Area0, Numbers DEF Area
  <2> QED
    BY <2>1, InArea
<1> QED
  BY <1>2, <1>3, <1>4


-----------------------------------------------------------------------------
(* Positions in tables.                                                    *)

\* Offset ofs is slot i of sector o of the cluster with k before it.
LEMMA StepIs ==
  ASSUME NEW a \in Nat \ {0}, NEW b \in Nat \ {0}, NEW k \in Nat, NEW o \in 0 .. b - 1, NEW i \in 1 .. a,
         NEW ofs, ofs = a * (b * k + o) + (i - 1)
  PROVE  /\ ofs \in Nat /\ ofs % a = i - 1
         /\ (ofs + 1) % a = 0 <=> i = a
         /\ i = a => ofs + 1 = a * (b * k + o + 1)
         /\ i = a => ((ofs + 1) % (a * b) = 0 <=> o = b - 1)
         /\ o = b - 1 => b * k + o + 1 = b * (k + 1)
<1> DEFINE p == b * k
           n == p + o
           q == a * n
<1>1. p \in Nat /\ n \in Nat /\ q \in Nat
  <2>1. p \in Nat
    BY Times
  <2> HIDE DEF p
  <2>2. n \in Nat
    BY <2>1
  <2> HIDE DEF n
  <2> QED
    BY <2>1, <2>2, Times
<1>2. ofs = q + (i - 1) /\ ofs \in Nat
  BY <1>1
<1>3. b * (k + 1) = p + b
  <2>1. b * (k + 1) = b * k + b * 1
    BY Times
  <2> QED
    BY <2>1
<1>4. o = b - 1 => p + o + 1 = b * (k + 1)
  BY <1>1, <1>3
<1>5. a * (n + 1) = q + a
  <2>1. a * (n + 1) = a * n + a * 1
    BY <1>1, Times
  <2> QED
    BY <2>1
<1> HIDE DEF n, q
<1>6. ofs % a = i - 1
  <2>1. ofs = a * n + (i - 1) /\ i - 1 \in 0 .. a - 1
    BY <1>2 DEF q
  <2> QED
    BY <1>1, <1>2, <2>1, DivIs, ZenonT(60)
<1>7. CASE i < a
  <2>1. ofs + 1 = q + i /\ i \in 0 .. a - 1 /\ ofs + 1 \in Nat
    BY <1>2, <1>7, <1>1
  <2>2. (ofs + 1) % a = i
    BY <1>1, <2>1, DivIs, SMTT(30) DEF q
  <2> QED
    BY <1>2, <1>4, <1>6, <1>7, <2>2 DEF n
<1>8. CASE i = a
  <2>1. ofs + 1 = a * (n + 1) + 0 /\ ofs + 1 \in Nat /\ n + 1 \in Nat
    BY <1>1, <1>2, <1>5, <1>8
  <2>2. (ofs + 1) % a = 0
    BY <2>1, DivIs, SMTT(30)
  <2>3. a * b \in Nat \ {0}
    OBVIOUS
  <2>4. (a * b) * k = a * p /\ a * p \in Nat
    BY <1>1 DEF p
  <2>5. n + 1 = p + (o + 1) /\ o + 1 \in Nat
    BY DEF n
  <2>6. a * (n + 1) = a * p + a * (o + 1)
    BY <1>1, <2>5, Times
  <2>7. (ofs + 1) % (a * b) = 0 <=> o = b - 1
    <3>1. CASE o = b - 1
      <4>1. a * (o + 1) = a * b
        BY <3>1
      <4>2. (a * b) * (k + 1) = (a * b) * k + a * b
        <5> DEFINE c == a * b
        <5>1. c \in Nat
          BY <2>3
        <5> HIDE DEF c
        <5>2. c * (k + 1) = c * k + c * 1
          BY <5>1, Times
        <5>3. c * (k + 1) = c * k + c
          BY <5>1, <5>2
        <5> QED
          BY <5>3 DEF c
      <4> DEFINE c == a * b
                 u == c * (k + 1)
      <4>3. ofs + 1 = u
        BY <2>1, <2>4, <2>6, <4>1, <4>2, <1>1, <1>5
      <4>4. c \in Nat \ {0}
        BY <2>3
      <4> HIDE DEF c
      <4>5. u \in Nat
        BY <4>4, Times
      <4>6. ofs + 1 = c * (k + 1) + 0 /\ 0 \in 0 .. c - 1
        BY <4>3, <4>4, <4>5
      <4>7. (ofs + 1) % c = 0
        <5>1. k + 1 \in Nat /\ ofs + 1 \in Nat
          BY <2>1
        <5> HIDE DEF u
        <5> QED
          BY <5>1, <4>4, <4>6, DivIs, SMTT(30)
      <4> QED
        BY <3>1, <4>7 DEF c
    <3>2. CASE o # b - 1
      <4> DEFINE c == a * b
                 r == a * (o + 1)
                 u == c * k
      <4>1. r \in Nat /\ r # 0 /\ r + a <= a * b
        <5>1. o + 1 \in Nat /\ o + 1 < b
          BY <3>2
        <5>2. a * (o + 1) + a <= a * b
          BY <5>1, Times
        <5>3. a * 1 <= a * (o + 1)
          BY <5>1, Times
        <5> QED
          BY <5>1, <5>2, <5>3, Times
      <4>2. ofs + 1 = u + r
        BY <2>1, <2>4, <2>6, <1>1, <1>5
      <4>3. c \in Nat \ {0}
        BY <2>3
      <4>4. r \in 0 .. c - 1
        BY <4>1, <4>3
      <4> HIDE DEF c, r
      <4>5. (ofs + 1) % c = r
        BY <2>1, <4>2, <4>3, <4>4, DivIs, ZenonT(60)
      <4> QED
        BY <3>2, <4>1, <4>5 DEF c
    <3> QED
      BY <3>1, <3>2
  <2>8. n = p + o
    BY DEF n
  <2> QED
    BY <1>2, <1>4, <1>6, <1>8, <2>1, <2>2, <2>7, <2>8
<1> QED
  BY <1>7, <1>8

\* What the tables of a witness are.
LEMMA TabIs ==
  ASSUME NEW w \in Witness, NEW s \in Sectors
  PROVE  /\ s < Database <=> Tab(w, s) = 0
         /\ s >= Database => Cl(s) \in Clus /\ Tab(w, s) = w.own[Cl(s)] /\ Tab(w, s) \in Clus \cup {Nobody}
         /\ Tab(w, s) \in Clus \cup {0, Nobody}
<1>1. s \in Nat /\ Database \in Nat
  BY SectorsAre, Numbers
<1>2. CASE s < Database
  BY <1>1, <1>2 DEF Tab
<1>3. CASE s >= Database
  <2>1. Cl(s) \in Clus
    BY <1>3, AreaOf
  <2>2. w.own[Cl(s)] \in Clus \cup {Nobody}
    BY <2>1 DEF Witness
  <2> QED
    BY <1>1, <1>3, <2>1, <2>2, Numbers DEF Tab
<1> QED
  BY <1>1, <1>2, <1>3

\* A cluster that belongs to a table is taken, and its table begins with one.
LEMMA OwnedIs ==
  ASSUME NEW f, NEW w \in Witness, Chained(f, w), NEW c \in Clus, w.own[c] # Nobody
  PROVE  /\ f[c] # 0 /\ w.own[c] \in Clus /\ w.own[w.own[c]] = w.own[c] /\ w.idx[w.own[c]] = 1
         /\ w.idx[c] \in Nat /\ w.idx[c] >= 1 /\ w.len[w.own[c]] \in Nat /\ w.idx[c] <= w.len[w.own[c]]
         /\ w.idx[c] < w.len[w.own[c]] =>
              f[c] \in Clus /\ w.own[f[c]] = w.own[c] /\ w.idx[f[c]] = w.idx[c] + 1
         /\ ~(w.idx[c] < w.len[w.own[c]]) => f[c] = EOC
<1>1. f[c] # 0
  BY DEF Chained
<1>2. w.own[c] \in Clus /\ w.idx[c] \in Nat /\ w.len \in [Clus -> Nat]
  BY DEF Witness
<1> QED
  BY <1>1, <1>2 DEF Chained

\* A table has no more clusters than there are.
LEMMA LenFits ==
  ASSUME NEW f, NEW w \in Witness, Chained(f, w), NEW t \in Clus, w.own[t] = t
  PROVE  w.len[t] \in Nat /\ w.len[t] >= 1 /\ w.len[t] <= NClust
<1> DEFINE n == w.len[t]
           h == [k \in 1 .. n |-> CHOOSE c \in Clus : w.own[c] = t /\ w.idx[c] = k]
<1>1. n \in Nat /\ n >= 1
  BY OwnedIs, Numbers DEF Witness
<1>2. \A k \in 1 .. n : h[k] \in Clus /\ w.own[h[k]] = t /\ w.idx[h[k]] = k
  BY DEF Chained
<1> HIDE DEF n, h
<1>3. h \in Injection(1 .. n, Clus)
  <2>1. h \in [1 .. n -> Clus]
    BY <1>2 DEF h
  <2>2. \A k, l \in 1 .. n : h[k] = h[l] => k = l
    BY <1>2
  <2> QED
    BY <2>1, <2>2, Fun_IsInj
<1>4. IsFiniteSet(1 .. n) /\ Cardinality(1 .. n) = n
  BY <1>1, FS_Interval
<1>5. IsFiniteSet(Clus) /\ Cardinality(Clus) = NClust
  BY Numbers, FS_Interval DEF Clus
<1>6. n <= NClust
  BY <1>3, <1>4, <1>5, FS_Injection, Fun_ExistsInj
<1> QED
  BY <1>1, <1>6 DEF n


\* The sectors of a table.
Size(w, t) == IF t = 0 THEN RootSects ELSE Csize * w.len[t]

\* The number of a sector and of a slot in its table.
LEMMA PosIs ==
  ASSUME NEW f, NEW w \in Witness, Chained(f, w), NEW s \in Sectors, NEW i \in Slots, Tab(w, s) # Nobody
  PROVE  /\ Num(w, s) \in Nat /\ Num(w, s) < Size(w, Tab(w, s)) /\ Size(w, Tab(w, s)) \in Nat
         /\ Pos(w, s, i) = SpS * Num(w, s) + (i - 1) /\ SpS * Num(w, s) \in Nat
         /\ i \in 1 .. SpS /\ Pos(w, s, i) \in Nat
         /\ Pos(w, s, i) < SpS * Size(w, Tab(w, s))
<1>1. s \in Nat /\ i \in 1 .. SpS
  BY SectorsAre DEF Slots
<1>2. Num(w, s) \in Nat /\ Num(w, s) < Size(w, Tab(w, s)) /\ Size(w, Tab(w, s)) \in Nat
  <2>1. CASE s < Database
    <3>1. Tab(w, s) = 0
      BY <2>1 DEF Tab
    <3>2. s >= RootAt /\ Num(w, s) = s - RootAt
      BY <1>1, <2>1, Numbers DEF Num, Sectors
    <3> QED
      BY <1>1, <2>1, <3>1, <3>2, Numbers DEF Size
  <2>2. CASE s >= Database
    <3> DEFINE c == Cl(s)
               t == Tab(w, s)
               o == s - Clust2Sect(c)
               k == w.idx[c] - 1
               p == Csize * k
    <3>1. c \in Clus /\ t = w.own[c] /\ t # 0
      BY <2>2, TabIs, Numbers
    <3>2. o \in 0 .. Csize - 1
      BY <2>2, AreaOf
    <3>3. k \in Nat /\ w.len[t] \in Nat /\ k + 1 <= w.len[t]
      BY <3>1, OwnedIs
    <3>4. Num(w, s) = p + o
      BY <1>1, <2>2, Numbers DEF Num
    <3>5. Size(w, t) = Csize * w.len[t]
      BY <3>1 DEF Size
    <3> HIDE DEF c, t, o, k
    <3>6. p \in Nat /\ Csize * (k + 1) = p + Csize * 1
      BY <3>3, Numbers, Times
    <3>7. Csize * (k + 1) <= Csize * w.len[t] /\ Csize * w.len[t] \in Nat
      BY <3>3, Numbers, Times
    <3> QED
      BY <3>2, <3>4, <3>5, <3>6, <3>7, Numbers DEF t
  <2> QED
    BY <1>1, <2>1, <2>2, Numbers
<1> DEFINE n == Num(w, s)
           z == Size(w, Tab(w, s))
<1>3. Pos(w, s, i) = SpS * n + (i - 1)
  BY DEF Pos
<1>4. n \in Nat /\ z \in Nat /\ n < z
  BY <1>2
<1> HIDE DEF n, z
<1>5. SpS * n + SpS <= SpS * z /\ SpS * n \in Nat /\ SpS * z \in Nat
  BY <1>4, Numbers, Times
<1>6. Pos(w, s, i) \in Nat /\ Pos(w, s, i) < SpS * z
  BY <1>1, <1>3, <1>5, Numbers
<1> QED
  BY <1>1, <1>2, <1>3, <1>5, <1>6 DEF n, z

\* Two sectors of a table have different numbers,
LEMMA NumUnique ==
  ASSUME NEW f, NEW w \in Witness, Chained(f, w), NEW s \in Sectors, NEW r \in Sectors,
         Tab(w, s) # Nobody, Tab(w, s) = Tab(w, r), Num(w, s) = Num(w, r)
  PROVE  s = r
<1>1. s \in Nat /\ r \in Nat
  BY SectorsAre
<1>2. CASE s < Database
  <2>1. r < Database
    BY <1>2, TabIs
  <2> QED
    BY <1>1, <1>2, <2>1, Numbers DEF Num
<1>3. CASE s >= Database
  <2>1. r >= Database
    BY <1>1, <1>3, TabIs, Numbers
  <2> DEFINE c == Cl(s)
             d == Cl(r)
             k == w.idx[c] - 1
             l == w.idx[d] - 1
             o == s - Clust2Sect(c)
             u == r - Clust2Sect(d)
  <2>2. c \in Clus /\ d \in Clus /\ w.own[c] = w.own[d] /\ w.own[c] # Nobody
    BY <1>3, <2>1, TabIs
  <2>3. k \in Nat /\ l \in Nat /\ w.idx[c] = k + 1 /\ w.idx[d] = l + 1
    BY <2>2, OwnedIs
  <2>4. o \in 0 .. Csize - 1 /\ u \in 0 .. Csize - 1
    BY <1>3, <2>1, AreaOf
  <2>5. Csize * k + o = Csize * l + u
    BY <1>1, <1>3, <2>1, Numbers DEF Num
  <2> HIDE DEF c, d, k, l, o, u
  <2>6. k = l /\ o = u
    BY <2>3, <2>4, <2>5, Numbers, Parts
  <2>7. c = d
    BY <2>2, <2>3, <2>6 DEF Chained
  <2>8. s = Clust2Sect(c) + o /\ r = Clust2Sect(d) + u
    BY <1>1, <2>2, Area0 DEF o, u
  <2> QED
    BY <2>6, <2>7, <2>8
<1> QED
  BY <1>1, <1>2, <1>3, Numbers

\* and two slots different positions.
LEMMA PosUnique ==
  ASSUME NEW f, NEW w \in Witness, Chained(f, w), NEW s \in Sectors, NEW r \in Sectors, NEW i \in Slots, NEW j \in Slots,
         Tab(w, s) # Nobody, Tab(w, s) = Tab(w, r), Pos(w, s, i) = Pos(w, r, j)
  PROVE  s = r /\ i = j
<1> DEFINE a == Num(w, s)
           b == Num(w, r)
<1>1. /\ a \in Nat /\ i \in 1 .. SpS /\ Pos(w, s, i) = SpS * a + (i - 1)
      /\ b \in Nat /\ j \in 1 .. SpS /\ Pos(w, r, j) = SpS * b + (j - 1)
  BY PosIs
<1> HIDE DEF a, b
<1>2. i - 1 \in 0 .. SpS - 1 /\ j - 1 \in 0 .. SpS - 1 /\ SpS \in Nat \ {0}
  BY <1>1, Numbers
<1>3. SpS * a + (i - 1) = SpS * b + (j - 1)
  BY <1>1
<1>4. a = b /\ i - 1 = j - 1
  BY <1>1, <1>2, <1>3, Parts
<1>5. i = j
  BY <1>1, <1>4, Numbers
<1> QED
  BY <1>4, <1>5, NumUnique DEF a, b

\* All positions are below the bound of the walks.
LEMMA PosBound ==
  ASSUME NEW f, NEW w \in Witness, Chained(f, w), NEW s \in Sectors, NEW i \in Slots, Tab(w, s) # Nobody
  PROVE  Pos(w, s, i) < AllSlots /\ AllSlots \in Nat /\ RootSlots \in Nat /\ SpS * RootSects = RootSlots
<1> DEFINE a == SpS * RootSects
           b == Csize * NClust
           c == SpS * b
           z == Size(w, Tab(w, s))
<1>1. a \in Nat /\ a >= SpS /\ b \in Nat /\ c \in Nat
  <2>1. a \in Nat /\ SpS * 1 <= a /\ b \in Nat
    BY Numbers, Times
  <2> HIDE DEF b
  <2>2. c \in Nat
    BY <2>1, Numbers, Times
  <2> QED
    BY <2>1, <2>2, Numbers
<1>2. RootSlots = a /\ AllSlots = a + c
  <2>1. RootSlots = a
    BY Numbers DEF RootSlots
  <2>2. NClust * Csize = b
    BY Numbers
  <2> HIDE DEF b
  <2>3. AllSlots = a + b * SpS /\ b * SpS = c
    BY <1>1, <2>1, <2>2, Numbers DEF AllSlots
  <2> QED
    BY <2>1, <2>3
<1>3. Pos(w, s, i) \in Nat /\ Pos(w, s, i) < SpS * z /\ z \in Nat
  BY PosIs
<1>4. z = RootSects \/ z <= b
  <2>1. CASE Tab(w, s) = 0
    BY <2>1 DEF Size
  <2>2. CASE Tab(w, s) # 0
    <3> DEFINE t == Tab(w, s)
    <3>1. t \in Clus /\ w.own[t] = t
      <4>1. s >= Database /\ Cl(s) \in Clus /\ t = w.own[Cl(s)]
        BY <2>2, TabIs, SectorsAre, Numbers
      <4> QED
        BY <4>1, OwnedIs
    <3>2. w.len[t] \in Nat /\ w.len[t] <= NClust
      BY <3>1, LenFits
    <3> HIDE DEF t
    <3>3. Csize * w.len[t] <= b
      BY <3>2, Numbers, Times
    <3> QED
      BY <2>2, <3>3 DEF Size, t
  <2> QED
    BY <2>1, <2>2
<1> HIDE DEF b, z
<1>5. SpS * z = a \/ SpS * z <= c
  BY <1>1, <1>3, <1>4, Numbers, Times
<1>6. SpS * z \in Nat
  BY <1>3, Numbers, Times
<1> HIDE DEF a, c
<1>7. Pos(w, s, i) < AllSlots /\ AllSlots \in Nat /\ RootSlots \in Nat
  BY <1>1, <1>2, <1>3, <1>5, <1>6
<1> QED
  BY <1>2, <1>7 DEF a


-----------------------------------------------------------------------------
(* The volume during a call.                                               *)

\* What the calls answer, and the types of a volume.
Results == {"OK", "DISK_ERR", "INT_ERR", "NO_FILE", "NO_PATH", "DENIED", "EXIST"}
Mems == [Sectors \cup {FatSect} -> Fats \cup Blocks]
Wins == [at : Sectors \cup {FatSect, NoSect}, data : Fats \cup Blocks, dirty : BOOLEAN]
Dps == [start : Clus \cup {0}, ofs : Nat, clust : Clus \cup {0}, sect : Nat]
Vols == [card : Mems, win : Wins, left : Int, hit : BOOLEAN, power : BOOLEAN, res : Results,
         val : Int \cup SlotSet, dp : Dps, torn : BOOLEAN]

\* The window holds what its sector can hold; a copy of it when it is clean.
WinFits(x, m) ==
  /\ x \in Wins
  /\ x.at = FatSect => x.data \in Fats
  /\ x.at \in Sectors => x.data \in Blocks
  /\ x.at = NoSect => ~x.dirty
  /\ x.dirty \/ x.at = NoSect \/ x.data = m[x.at]

\* A behaviour with its last stop behind it has no other one.
Calm(v) == (v.hit \/ v.power => stops # MaxStops) /\ (stops = MaxStops => v.left <= 0)

\* The sectors as the call sees them, and a sound volume.
Seen(v) == View(v.card, v.win)
Vol(v, j) ==
  /\ v \in Vols /\ WinFits(v.win, v.card) /\ Calm(v)
  /\ Sane(v.card, j) /\ Sane(Seen(v), j)

\* A call in which nothing was changed so far: w after v.
Reads(v, w, j) == Vol(w, j) /\ Seen(w) = Seen(v) /\ w.power = v.power /\ w.torn = v.torn

\* The fields of a volume.
LEMMA Fields ==
  ASSUME NEW v \in Vols
  PROVE  /\ v.card \in Mems /\ v.win \in Wins /\ v.left \in Int /\ v.hit \in BOOLEAN /\ v.power \in BOOLEAN
         /\ v.res \in Results /\ v.val \in Int \cup SlotSet /\ v.dp \in Dps /\ v.torn \in BOOLEAN
         /\ v.win.at \in Sectors \cup {FatSect, NoSect} /\ v.win.data \in Fats \cup Blocks /\ v.win.dirty \in BOOLEAN
         /\ v.dp.start \in Clus \cup {0} /\ v.dp.ofs \in Nat /\ v.dp.clust \in Clus \cup {0} /\ v.dp.sect \in Nat
BY DEF Vols, Wins, Dps

\* A result, a value or a position is stored.
LEMMA StoreIs ==
  ASSUME NEW v \in Vols
  PROVE  /\ \A r \in Results : /\ Fail(v, r) \in Vols /\ Fail(v, r).res = r
                               /\ Fail(v, r) = [v EXCEPT !.res = r]
         /\ \A x \in Int \cup SlotSet : [v EXCEPT !.val = x] \in Vols /\ [v EXCEPT !.val = x].val = x
         /\ \A d \in Dps : [v EXCEPT !.dp = d] \in Vols /\ [v EXCEPT !.dp = d].dp = d
BY DEF Vols, Fail

\* Volumes that differ in none of these are both sound.
Alike(v, w) ==
  w.card = v.card /\ w.win = v.win /\ w.left = v.left /\ w.hit = v.hit /\ w.power = v.power
\* What is sound of one of two such volumes is sound of the other.
LEMMA AlikeVol ==
  ASSUME NEW v, NEW w, NEW j, Vol(v, j), w \in Vols, Alike(v, w)
  PROVE  Vol(w, j) /\ Seen(w) = Seen(v) /\ (w.torn = v.torn => Reads(v, w, j))
BY DEF Vol, Alike, Calm, Seen, Reads

\* Storing changes nothing else.
LEMMA StoreAlike ==
  ASSUME NEW v, v \in Vols
  PROVE  /\ \A r \in Results : Alike(v, Fail(v, r)) /\ Fail(v, r).torn = v.torn /\ Fail(v, r).dp = v.dp /\ Fail(v, r).val = v.val
         /\ \A x \in Int \cup SlotSet : /\ Alike(v, [v EXCEPT !.val = x]) /\ [v EXCEPT !.val = x].torn = v.torn
                                     /\ [v EXCEPT !.val = x].res = v.res /\ [v EXCEPT !.val = x].dp = v.dp
         /\ \A d \in Dps : /\ Alike(v, [v EXCEPT !.dp = d]) /\ [v EXCEPT !.dp = d].torn = v.torn
                           /\ [v EXCEPT !.dp = d].res = v.res /\ [v EXCEPT !.dp = d].val = v.val
BY DEF Vols, Fail, Alike

\* A transfer is counted.
LEMMA SpentIs ==
  ASSUME NEW v \in Vols
  PROVE  LET w == Spent(v)
         IN  /\ w \in Vols /\ w.card = v.card /\ w.win = v.win /\ w.power = v.power /\ w.res = v.res
             /\ w.val = v.val /\ w.dp = v.dp /\ w.torn = v.torn
             /\ Calm(v) => Calm(w)
<1> DEFINE n == IF Stopped(v) /\ v.power THEN 1 ELSE v.left - 1
           h == v.hit \/ Stopped(v)
           w == [v EXCEPT !.left = n, !.hit = h]
<1>1. Spent(v) = w
  BY DEF Spent
<1>2. n \in Int /\ h \in BOOLEAN
  BY Fields DEF Stopped
<1>3. /\ w \in Vols /\ w.card = v.card /\ w.win = v.win /\ w.power = v.power /\ w.res = v.res
      /\ w.val = v.val /\ w.dp = v.dp /\ w.torn = v.torn /\ w.left = n /\ w.hit = h
  <2> HIDE DEF n, h
  <2> QED
    BY <1>2 DEF Vols
<1>4. ASSUME Calm(v) PROVE Calm(w)
  <2>1. v.left \in Int /\ v.hit \in BOOLEAN /\ v.power \in BOOLEAN
    BY Fields
  <2>2. stops = MaxStops => ~v.hit /\ ~v.power /\ v.left <= 0
    BY <1>4, Numbers DEF Calm
  <2>3. stops = MaxStops => ~h /\ ~v.power /\ n <= 0
    BY <2>1, <2>2 DEF Stopped
  <2>4. h \/ v.power => stops # MaxStops
    <3>1. CASE v.hit \/ v.power
      BY <3>1, <1>4 DEF Calm
    <3>2. CASE Stopped(v) /\ stops # MaxStops
      BY <3>2, <1>4 DEF Calm
    <3> QED
      BY <3>1, <3>2, <2>3
  <2> QED
    BY <1>3, <2>3, <2>4 DEF Calm
<1> QED
  BY <1>1, <1>3, <1>4


\* What is seen of the card.
LEMMA SeenIs ==
  ASSUME NEW v, v \in Vols, WinFits(v.win, v.card)
  PROVE  /\ v.win.at = NoSect => Seen(v) = v.card
         /\ v.win.at # NoSect => /\ v.win.at \in Sectors \cup {FatSect}
                                 /\ Seen(v) = [v.card EXCEPT ![v.win.at] = v.win.data]
                                 /\ Seen(v)[v.win.at] = v.win.data
         /\ \A s \in Sectors \cup {FatSect} : s # v.win.at => Seen(v)[s] = v.card[s]
         /\ ~v.win.dirty => Seen(v) = v.card
         /\ Seen(v) \in Mems
<1>1. v.card \in Mems /\ v.win.at \in Sectors \cup {FatSect, NoSect} /\ v.win.data \in Fats \cup Blocks
  BY Fields
<1>2. CASE v.win.at = NoSect
  BY <1>1, <1>2, SectorsAre, Numbers DEF Seen, View, Mems
<1>3. CASE v.win.at # NoSect
  <2> DEFINE a == v.win.at
             d == v.win.data
             m == v.card
  <2>1. a \in Sectors \cup {FatSect} /\ m \in Mems /\ d \in Fats \cup Blocks
    BY <1>1, <1>3
  <2>2. Seen(v) = [m EXCEPT ![a] = d]
    BY <1>3 DEF Seen, View
  <2>3. ~v.win.dirty => d = m[a]
    BY <1>3 DEF WinFits
  <2> HIDE DEF a, d, m
  <2>4. /\ [m EXCEPT ![a] = d] \in Mems /\ [m EXCEPT ![a] = d][a] = d
        /\ \A s \in Sectors \cup {FatSect} : s # a => [m EXCEPT ![a] = d][s] = m[s]
    BY <2>1 DEF Mems
  <2>5. d = m[a] => [m EXCEPT ![a] = d] = m
    BY <2>1 DEF Mems
  <2> QED
    BY <1>3, <2>1, <2>2, <2>3, <2>4, <2>5 DEF a, d, m
<1> QED
  BY <1>2, <1>3

\* A volume whose sectors and window are sound.
LEMMA VolIs ==
  ASSUME NEW v, NEW j, Vol(v, j)
  PROVE  /\ v \in Vols /\ WinFits(v.win, v.card) /\ Calm(v) /\ Sane(v.card, j) /\ Sane(Seen(v), j)
         /\ Seen(v)[FatSect] \in Fats /\ \A s \in Sectors : Seen(v)[s] \in Blocks
         /\ v.card[FatSect] \in Fats /\ \A s \in Sectors : v.card[s] \in Blocks
         /\ Reads(v, v, j)
BY DEF Vol, Reads, Sane, IsMem

\* The window is on the card, or nothing has happened but a failure.
LEMMA SyncWindowIs ==
  ASSUME NEW v, NEW j, Vol(v, j)
  PROVE  LET w == SyncWindow(v)
         IN  /\ Reads(v, w, j) /\ w.dp = v.dp /\ w.val = v.val /\ w.win.at = v.win.at /\ w.win.data = v.win.data
             /\ \/ w.res = v.res /\ ~w.win.dirty /\ w.card = Seen(v)
                \/ w.res = "DISK_ERR" /\ w.win = v.win /\ w.card = v.card
<1> DEFINE w == SyncWindow(v)
           u == Spent(v)
<1>0. v \in Vols /\ WinFits(v.win, v.card) /\ Calm(v)
  BY VolIs
<1>1. CASE ~v.win.dirty
  <2>1. w = v
    BY <1>1 DEF SyncWindow
  <2> QED
    BY <1>0, <1>1, <2>1, SeenIs, VolIs
<1>2. CASE v.win.dirty
  <2>0. /\ u \in Vols /\ u.card = v.card /\ u.win = v.win /\ u.power = v.power /\ u.res = v.res
        /\ u.val = v.val /\ u.dp = v.dp /\ u.torn = v.torn /\ Calm(u)
    BY <1>0, SpentIs
  <2>0a. Seen(u) = Seen(v)
    BY <2>0 DEF Seen
  <2>0b. Vol(u, j)
    BY <1>0, <2>0, <2>0a DEF Vol
  <2>1. CASE Stopped(v)
    <3>1. w = Fail(u, "DISK_ERR")
      BY <1>2, <2>1 DEF SyncWindow
    <3> HIDE DEF u, w
    <3>2. "DISK_ERR" \in Results
      BY DEF Results
    <3>3. Alike(u, w) /\ w \in Vols /\ w.torn = u.torn /\ w.dp = u.dp /\ w.val = u.val /\ w.res = "DISK_ERR"
      BY <2>0, <3>1, <3>2, StoreIs, StoreAlike
    <3>4. Vol(w, j) /\ Seen(w) = Seen(u)
      BY <2>0b, <3>3, AlikeVol
    <3> QED
      BY <2>0, <2>0a, <3>3, <3>4 DEF Reads, Alike, w
  <2>2. CASE ~Stopped(v)
    <3> DEFINE a == v.win.at
               d == v.win.data
               m == [v.card EXCEPT ![a] = d]
               x == [v.win EXCEPT !.dirty = FALSE]
    <3>1. w = [u EXCEPT !.card[a] = d, !.win.dirty = FALSE]
      BY <1>2, <2>2 DEF SyncWindow
    <3>2. a \in Sectors \cup {FatSect} /\ Seen(v) = m /\ m \in Mems
      BY <1>0, <1>2, SeenIs DEF WinFits
    <3>3. x \in Wins /\ x.at = a /\ x.data = d /\ x.dirty = FALSE
      BY <1>0 DEF Wins, WinFits
    <3>4. w = [u EXCEPT !.card = m, !.win = x]
      BY <2>0, <3>1
    <3> HIDE DEF u, w, m, x
    <3>5. /\ w \in Vols /\ w.card = m /\ w.win = x /\ w.power = u.power /\ w.res = u.res /\ w.left = u.left
          /\ w.hit = u.hit /\ w.val = u.val /\ w.dp = u.dp /\ w.torn = u.torn
      BY <2>0, <3>2, <3>3, <3>4 DEF Vols
    <3>6. m[a] = d
      BY <1>0, <3>2, SeenIs, SectorsAre, Numbers
    <3>7. WinFits(x, m)
      BY <1>0, <3>2, <3>3, <3>6 DEF WinFits
    <3>8. Seen(w) = m
      BY <3>3, <3>5, <3>7, SeenIs
    <3>9. Calm(w)
      BY <2>0, <3>5 DEF Calm
    <3>10. Sane(m, j)
      BY <3>2 DEF Vol
    <3>11. Vol(w, j)
      BY <3>5, <3>7, <3>8, <3>9, <3>10 DEF Vol
    <3> QED
      BY <2>0, <3>2, <3>3, <3>5, <3>8, <3>11 DEF Reads, w
  <2> QED
    BY <2>1, <2>2
<1> QED
  BY <1>0, <1>1, <1>2, Fields


\* The window is empty after a failed read: nothing is lost, since it was clean.
LEMMA ReadSectorIs ==
  ASSUME NEW v, NEW j, Vol(v, j), ~v.win.dirty, NEW s
  PROVE  LET w == ReadSector(v, s)
         IN  /\ Reads(v, w, j) /\ w.dp = v.dp /\ w.val = v.val
             /\ \/ /\ w.res = v.res /\ s \in Sectors \cup {FatSect} /\ w.win.at = s
                   /\ w.win.data = Seen(v)[s] /\ ~w.win.dirty
                \/ w.res = "DISK_ERR"
<1> DEFINE w == ReadSector(v, s)
           u == Spent(v)
<1>0. v \in Vols /\ WinFits(v.win, v.card) /\ Calm(v) /\ Seen(v) = v.card
  BY VolIs, SeenIs
<1>1. /\ u \in Vols /\ u.card = v.card /\ u.win = v.win /\ u.power = v.power /\ u.res = v.res
      /\ u.val = v.val /\ u.dp = v.dp /\ u.torn = v.torn /\ Calm(u)
  BY <1>0, SpentIs
<1>2. DOMAIN v.card = Sectors \cup {FatSect}
  BY <1>0, Fields DEF Mems
<1>3. ASSUME NEW x, NEW r, x \in Wins, WinFits(x, v.card), ~x.dirty, r \in Results, w = [u EXCEPT !.win = x, !.res = r]
      PROVE  Reads(v, w, j) /\ w.dp = v.dp /\ w.val = v.val /\ w.win = x /\ w.res = r
  <2> HIDE DEF u, w
  <2>1. /\ w \in Vols /\ w.card = u.card /\ w.win = x /\ w.power = u.power /\ w.res = r /\ w.left = u.left
        /\ w.hit = u.hit /\ w.val = u.val /\ w.dp = u.dp /\ w.torn = u.torn
    BY <1>1, <1>3 DEF Vols
  <2>1a. WinFits(w.win, w.card) /\ ~w.win.dirty /\ w.card = v.card
    BY <1>1, <1>3, <2>1
  <2>2. Seen(w) = v.card
    BY <2>1, <2>1a, SeenIs
  <2>3. Calm(w)
    BY <1>1, <2>1 DEF Calm
  <2>4. Vol(w, j)
    BY <1>0, <1>1, <1>3, <2>1, <2>2, <2>3 DEF Vol
  <2> QED
    BY <1>0, <1>1, <2>1, <2>2, <2>4 DEF Reads
<1>4. CASE Stopped(v) \/ s \notin DOMAIN v.card
  <2>1. w = Fail([u EXCEPT !.win = Empty], "DISK_ERR")
    BY <1>4 DEF ReadSector
  <2>2. Empty \in Wins /\ WinFits(Empty, v.card) /\ ~Empty.dirty
    <3>1. Blank \in Blocks
      <4>1. "end" \in Kinds /\ "" \in NameSet /\ 0 \in Nat
        BY DEF Kinds, NameSet
      <4> QED
        BY <4>1 DEF Blank, Blocks, End, Slot, SlotSet
    <3>2. Empty = [at |-> NoSect, data |-> Blank, dirty |-> FALSE]
      BY DEF Empty
    <3> QED
      BY <3>1, <3>2, SectorsAre, Numbers DEF Wins, WinFits
  <2>3. w = [u EXCEPT !.win = Empty, !.res = "DISK_ERR"]
    <3> HIDE DEF u, w
    <3> QED
      BY <1>1, <2>1 DEF Fail, Vols
  <2>4. "DISK_ERR" \in Results
    BY DEF Results
  <2> HIDE DEF u, w
  <2> QED
    BY <1>3, <2>2, <2>3, <2>4 DEF w
<1>5. CASE ~(Stopped(v) \/ s \notin DOMAIN v.card)
  <2> DEFINE x == [at |-> s, data |-> v.card[s], dirty |-> FALSE]
  <2>1. w = [u EXCEPT !.win = x]
    BY <1>5 DEF ReadSector
  <2>2. s \in Sectors \cup {FatSect}
    BY <1>2, <1>5
  <2>3. x \in Wins /\ WinFits(x, v.card) /\ ~x.dirty
    <3>1. v.card[s] \in Fats \cup Blocks /\ (s = FatSect => v.card[s] \in Fats) /\ (s \in Sectors => v.card[s] \in Blocks)
      BY <2>2, VolIs
    <3> QED
      BY <2>2, <3>1, SectorsAre, Numbers DEF Wins, WinFits
  <2>4. w = [u EXCEPT !.win = x, !.res = v.res] /\ v.res \in Results
    <3> HIDE DEF u, w, x
    <3> QED
      BY <1>0, <1>1, <2>1, Fields DEF Vols
  <2>5. x.at = s /\ x.data = Seen(v)[s] /\ x \in Wins
    BY <1>0, <2>3
  <2> HIDE DEF u, w, x
  <2>6. Reads(v, w, j) /\ w.dp = v.dp /\ w.val = v.val /\ w.win = x /\ w.res = v.res
    BY <1>3, <2>3, <2>4
  <2> QED
    BY <2>2, <2>3, <2>5, <2>6 DEF w
<1> QED
  BY <1>4, <1>5

\* One after the other changes nothing.
LEMMA ReadsAfter ==
  ASSUME NEW u, NEW v, NEW w, NEW j, Reads(u, v, j), Reads(v, w, j)
  PROVE  Reads(u, w, j)
BY DEF Reads

\* The window is at sector s, and shows what was seen there.
LEMMA MoveWindowIs ==
  ASSUME NEW v, NEW j, Vol(v, j), Ok(v), NEW s \in Nat
  PROVE  LET w == MoveWindow(v, s)
         IN  /\ Reads(v, w, j) /\ w.dp = v.dp /\ w.val = v.val
             /\ \/ w.res = "OK" /\ s \in Sectors \cup {FatSect} /\ w.win.at = s /\ w.win.data = Seen(v)[s]
                \/ w.res = "DISK_ERR"
<1> DEFINE w == MoveWindow(v, s)
           u == SyncWindow(v)
           x == ReadSector(u, s)
<1>1. v.res = "OK" /\ v \in Vols /\ WinFits(v.win, v.card)
  BY VolIs DEF Ok
<1>2. CASE s = v.win.at
  <2>1. w = v
    BY <1>2 DEF MoveWindow
  <2>2. s # NoSect
    BY Numbers
  <2> QED
    BY <1>1, <1>2, <2>1, <2>2, SeenIs, VolIs
<1>3. CASE s # v.win.at
  <2>1. w = IF u.res = "OK" THEN x ELSE u
    BY <1>3 DEF MoveWindow, Then, Ok
  <2>2. /\ Reads(v, u, j) /\ u.dp = v.dp /\ u.val = v.val
        /\ \/ u.res = "OK" /\ ~u.win.dirty
           \/ u.res = "DISK_ERR"
    BY <1>1, SyncWindowIs
  <2> HIDE DEF u
  <2>3. CASE u.res = "OK"
    <3>1. Vol(u, j) /\ ~u.win.dirty
      BY <2>2, <2>3 DEF Reads
    <3>2. /\ Reads(u, x, j) /\ x.dp = u.dp /\ x.val = u.val
          /\ \/ x.res = "OK" /\ s \in Sectors \cup {FatSect} /\ x.win.at = s /\ x.win.data = Seen(u)[s]
             \/ x.res = "DISK_ERR"
      BY <2>3, <3>1, ReadSectorIs
    <3>3. Seen(u) = Seen(v)
      BY <2>2 DEF Reads
    <3>4. Reads(v, x, j)
      BY <2>2, <3>2, ReadsAfter
    <3> QED
      BY <2>1, <2>2, <2>3, <3>2, <3>3, <3>4
  <2>4. CASE u.res # "OK"
    BY <2>1, <2>2, <2>4
  <2> QED
    BY <2>3, <2>4
<1> QED
  BY <1>2, <1>3

\* After sync_fs the card is what was seen.
LEMMA SyncFsIs ==
  ASSUME NEW v, NEW j, Vol(v, j), Ok(v)
  PROVE  LET w == SyncFs(v)
         IN  Reads(v, w, j) /\ w.dp = v.dp /\ w.val = v.val /\ w.res \in {"OK", "DISK_ERR"}
<1> DEFINE w == SyncFs(v)
           u == SyncWindow(v)
           x == Spent(u)
<1>1. v.res = "OK"
  BY DEF Ok
<1>2. /\ Reads(v, u, j) /\ u.dp = v.dp /\ u.val = v.val /\ u.res \in {"OK", "DISK_ERR"}
  BY <1>1, SyncWindowIs
<1>3. w = IF u.res = "OK" THEN (IF Stopped(u) THEN Fail(x, "DISK_ERR") ELSE x) ELSE u
  BY DEF SyncFs, Then, Ok
<1> HIDE DEF u
<1>4. u \in Vols /\ Vol(u, j) /\ Calm(u)
  BY <1>2, VolIs DEF Reads
<1>5. /\ x \in Vols /\ x.card = u.card /\ x.win = u.win /\ x.power = u.power /\ x.res = u.res
      /\ x.val = u.val /\ x.dp = u.dp /\ x.torn = u.torn /\ Calm(x)
  BY <1>4, SpentIs
<1>6. Reads(u, x, j)
  <2>1. Seen(x) = Seen(u)
    BY <1>5 DEF Seen
  <2> QED
    BY <1>4, <1>5, <2>1 DEF Vol, Reads
<1> HIDE DEF x
<1> DEFINE y == Fail(x, "DISK_ERR")
<1>7. Reads(u, y, j) /\ y.dp = u.dp /\ y.val = u.val /\ y.res = "DISK_ERR"
  <2>1. "DISK_ERR" \in Results
    BY DEF Results
  <2>2. y \in Vols /\ Alike(x, y) /\ y.torn = x.torn /\ y.dp = x.dp /\ y.val = x.val /\ y.res = "DISK_ERR"
    BY <1>5, <2>1, StoreIs, StoreAlike
  <2>3. Vol(x, j)
    BY <1>6 DEF Reads
  <2>4. Reads(x, y, j)
    BY <2>2, <2>3, AlikeVol
  <2> QED
    BY <1>5, <1>6, <2>2, <2>4, ReadsAfter
<1> HIDE DEF y
<1>8. Reads(v, x, j) /\ Reads(v, y, j)
  BY <1>2, <1>6, <1>7, ReadsAfter
<1> QED
  BY <1>2, <1>3, <1>5, <1>7, <1>8 DEF y

\* The FAT entry of c.
LEMMA GetFatIs ==
  ASSUME NEW v, NEW j, Vol(v, j), Ok(v), NEW c \in Clus
  PROVE  LET w == GetFat(v, c)
         IN  /\ Reads(v, w, j) /\ w.dp = v.dp
             /\ \/ w.res = "OK" /\ w.val = Seen(v)[FatSect][c] /\ w.win.at = FatSect /\ w.win.data = Seen(v)[FatSect]
                \/ w.res = "DISK_ERR" /\ w.val = DiskErr
<1> DEFINE w == GetFat(v, c)
           u == MoveWindow(v, FatSect)
           x == IF u.res = "OK" THEN u.win.data[c] ELSE DiskErr
<1>1. w = [u EXCEPT !.val = x]
  BY DEF GetFat, FatValue, Ok
<1>2. /\ Reads(v, u, j) /\ u.dp = v.dp
      /\ \/ u.res = "OK" /\ u.win.at = FatSect /\ u.win.data = Seen(v)[FatSect]
         \/ u.res = "DISK_ERR"
  <2>1. FatSect \in Nat
    BY Numbers
  <2> QED
    BY <2>1, MoveWindowIs
<1> HIDE DEF u
<1>3. Vol(u, j) /\ u \in Vols
  BY <1>2, VolIs DEF Reads
<1>4. x \in Int
  <2>1. Seen(v)[FatSect] \in [Clus -> Clus \cup {0, EOC}]
    BY VolIs DEF Fats
  <2>2. Seen(v)[FatSect][c] \in Int
    <3>1. Seen(v)[FatSect][c] \in Clus \cup {0, EOC}
      BY <2>1
    <3>2. \A n \in Clus \cup {0, EOC} : n \in Int
      BY Numbers
    <3> QED
      BY <3>1, <3>2
  <2>3. DiskErr \in Int
    BY Numbers
  <2>4. u.res = "OK" => u.win.data[c] = Seen(v)[FatSect][c]
    BY <1>2
  <2> QED
    BY <2>2, <2>3, <2>4
<1> HIDE DEF x
<1>5. w \in Vols /\ w.val = x /\ Alike(u, w) /\ w.torn = u.torn /\ w.res = u.res /\ w.dp = u.dp
  BY <1>1, <1>3, <1>4, StoreIs, StoreAlike
<1>6. Reads(u, w, j)
  BY <1>3, <1>5, AlikeVol
<1>7. Reads(v, w, j)
  BY <1>2, <1>6, ReadsAfter
<1> QED
  BY <1>2, <1>5, <1>7 DEF x, Alike


-----------------------------------------------------------------------------
(* The walk.                                                               *)

\* A call is at the position d after v, and has changed nothing.
MovedTo(v, x, j, d) == Reads(v, x, j) /\ x.res = "OK" /\ x.dp = d

\* A position that is stored, with a result.
At(v, d, r) == [v EXCEPT !.dp = d, !.res = r]
\* A position and a result are stored.
LEMMA PutDp ==
  ASSUME NEW v, NEW j, Vol(v, j), NEW d \in Dps, NEW r \in Results, NEW x, x = At(v, d, r)
  PROVE  Reads(v, x, j) /\ x.dp = d /\ x.res = r /\ x.val = v.val
<1>1. v \in Vols
  BY VolIs
<1>2. x \in Vols /\ Alike(v, x) /\ x.torn = v.torn /\ x.dp = d /\ x.res = r /\ x.val = v.val
  BY <1>1 DEF Vols, Alike, At
<1>3. Reads(v, x, j)
  BY <1>2, AlikeVol
<1> QED
  BY <1>2, <1>3

\* The walk begins.
LEMMA DirSdiIs ==
  ASSUME NEW v, NEW j, Vol(v, j), Ok(v), NEW t \in Clus \cup {0}
  PROVE  MovedTo(v, DirSdi(v, t), j,
                 [start |-> t, ofs |-> 0, clust |-> t, sect |-> IF t = 0 THEN RootAt ELSE Clust2Sect(t)])
<1> DEFINE s == IF t = 0 THEN RootAt ELSE Clust2Sect(t)
           d == [start |-> t, ofs |-> 0, clust |-> t, sect |-> s]
           x == DirSdi(v, t)
<1>1. s \in Nat /\ s # 0
  BY Numbers, Area0
<1>2. d \in Dps
  BY <1>1 DEF Dps
<1>3. x = [v EXCEPT !.dp = d]
  BY <1>1 DEF DirSdi
<1>4. v \in Vols /\ v.res = "OK"
  BY VolIs DEF Ok
<1> HIDE DEF s, d, x
<1>5. x = At(v, d, "OK")
  BY <1>3, <1>4 DEF Vols, At
<1>6. "OK" \in Results
  BY DEF Results
<1>7. Reads(v, x, j) /\ x.dp = d /\ x.res = "OK"
  BY <1>2, <1>5, <1>6, PutDp
<1> QED
  BY <1>7 DEF MovedTo, x, d, s

\* Offset n, in the same sector, in the next one, and in the cluster c.
InSect(d, n) == [d EXCEPT !.ofs = n]
\* The positions to which dir_next may step.
NextSect(d, n) == [d EXCEPT !.ofs = n, !.sect = d.sect + 1]
NextClus(d, n, c) == [d EXCEPT !.ofs = n, !.clust = c, !.sect = Clust2Sect(c)]

\* Their fields.
LEMMA NextIs ==
  ASSUME NEW d \in Dps, NEW n \in Nat
  PROVE  /\ InSect(d, n) \in Dps /\ InSect(d, n).ofs = n /\ InSect(d, n).sect = d.sect
         /\ InSect(d, n).clust = d.clust /\ InSect(d, n).start = d.start
         /\ NextSect(d, n) \in Dps /\ NextSect(d, n).ofs = n /\ NextSect(d, n).sect = d.sect + 1
         /\ NextSect(d, n).clust = d.clust /\ NextSect(d, n).start = d.start
         /\ \A c \in Clus : /\ NextClus(d, n, c) \in Dps /\ NextClus(d, n, c).ofs = n
                           /\ NextClus(d, n, c).sect = Clust2Sect(c)
                           /\ NextClus(d, n, c).clust = c /\ NextClus(d, n, c).start = d.start
<1>1. d \in [start : Clus \cup {0}, ofs : Nat, clust : Clus \cup {0}, sect : Nat]
  BY DEF Dps
<1>2. d.sect + 1 \in Nat
  BY <1>1
<1>3. \A c \in Clus : Clust2Sect(c) \in Nat
  BY Area0
<1> QED
  BY <1>1, <1>2, <1>3 DEF Dps, InSect, NextSect, NextClus

\* Past a slot.
Onto(v, x, j, stretch) ==
  LET d == v.dp
      n == d.ofs + 1
      f == Seen(v)[FatSect]
  IN  \/ n % SpS # 0 /\ MovedTo(v, x, j, InSect(d, n))
      \/ /\ n % SpS = 0 /\ d.clust = 0 /\ n >= RootSlots
         /\ Reads(v, x, j) /\ x.res = "NO_FILE" /\ x.dp = [d EXCEPT !.sect = 0]
      \/ /\ n % SpS = 0 /\ ((d.clust = 0 /\ n < RootSlots) \/ (d.clust # 0 /\ n % (SpS * Csize) # 0))
         /\ MovedTo(v, x, j, NextSect(d, n))
      \/ /\ n % SpS = 0 /\ d.clust # 0 /\ n % (SpS * Csize) = 0
         /\ \/ Reads(v, x, j) /\ x.res = "DISK_ERR" /\ x.dp = [d EXCEPT !.sect = d.sect + 1]
            \/ f[d.clust] = 0 /\ Reads(v, x, j) /\ x.res = "INT_ERR" /\ x.dp = [d EXCEPT !.sect = d.sect + 1]
            \/ /\ f[d.clust] \in Clus
               /\ MovedTo(v, x, j, NextClus(d, n, f[d.clust]))
            \/ /\ f[d.clust] = EOC /\ ~stretch
               /\ Reads(v, x, j) /\ x.res = "NO_FILE" /\ x.dp = [d EXCEPT !.sect = 0]
            \/ /\ f[d.clust] = EOC /\ stretch
               /\ \E g : /\ Reads(v, g, j) /\ g.res = "OK" /\ g.dp = [d EXCEPT !.sect = d.sect + 1]
                         /\ x = Stretched(g, n)
\* dir_next steps to the next slot, says that the table is over, or stretches it.
LEMMA DirNextIs ==
  ASSUME NEW v, NEW j, Vol(v, j), Ok(v), v.dp.sect # 0, NEW stretch \in BOOLEAN
  PROVE  Onto(v, DirNext(v, stretch), j, stretch)
<1> DEFINE d == v.dp
           n == d.ofs + 1
           f == Seen(v)[FatSect]
           x == DirNext(v, stretch)
           e == [d EXCEPT !.sect = d.sect + 1]
           s == [v EXCEPT !.dp = e]
           g == GetFat(s, d.clust)
<1>1. v \in Vols /\ v.res = "OK" /\ d \in Dps /\ n \in Nat /\ d.sect \in Nat /\ d.clust \in Clus \cup {0} /\ n - 1 = d.ofs
  BY VolIs, Fields DEF Ok
<1>2. /\ InSect(d, n) \in Dps /\ e \in Dps /\ [d EXCEPT !.sect = 0] \in Dps /\ [e EXCEPT !.ofs = n] \in Dps
      /\ e.clust = d.clust
  <2>1. d \in [start : Clus \cup {0}, ofs : Nat, clust : Clus \cup {0}, sect : Nat] /\ d.sect + 1 \in Nat
    BY <1>1 DEF Dps
  <2> HIDE DEF d, n
  <2> QED
    BY <1>1, <2>1 DEF Dps, InSect
<1>3. ASSUME NEW y \in Dps PROVE MovedTo(v, [v EXCEPT !.dp = y], j, y)
  <2>1. [v EXCEPT !.dp = y] = At(v, y, "OK") /\ "OK" \in Results
    BY <1>1 DEF Vols, Results, At
  <2>2. Reads(v, At(v, y, "OK"), j)
    BY <2>1, PutDp
  <2>3. v.res = "OK" /\ [v EXCEPT !.dp = y].dp = y /\ [v EXCEPT !.dp = y].res = v.res
    BY <1>1, StoreIs, StoreAlike
  <2> QED
    BY <2>1, <2>2, <2>3 DEF MovedTo
<1>4. s = [v EXCEPT !.dp.sect = @ + 1]
  BY <1>1 DEF Vols
<1>5. MovedTo(v, s, j, e)
  BY <1>2, <1>3
<1>6. ASSUME NEW u, Reads(v, u, j), u.dp = e, NEW h, h = EndOfTable(u)
      PROVE  Reads(v, h, j) /\ h.res = "NO_FILE" /\ h.dp = [d EXCEPT !.sect = 0]
  <2>1. Vol(u, j) /\ u \in Vols
    BY <1>6, VolIs DEF Reads
  <2>2. [e EXCEPT !.sect = 0] = [d EXCEPT !.sect = 0]
    BY <1>1 DEF Dps
  <2>3. h = At(u, [d EXCEPT !.sect = 0], "NO_FILE")
    <3> HIDE DEF e
    <3> QED
      BY <1>6, <2>1, <2>2 DEF EndOfTable, Fail, Vols, At
  <2>4. "NO_FILE" \in Results
    BY DEF Results
  <2>5. Reads(u, h, j) /\ h.dp = [d EXCEPT !.sect = 0] /\ h.res = "NO_FILE"
    BY <1>2, <2>1, <2>3, <2>4, PutDp
  <2> QED
    BY <1>6, <2>5, ReadsAfter
<1>7. x = IF n % SpS # 0 THEN [v EXCEPT !.dp.ofs = n]
          ELSE IF d.clust = 0 /\ n >= RootSlots THEN EndOfTable(s)
          ELSE IF d.clust = 0 \/ n % (SpS * Csize) # 0 THEN [s EXCEPT !.dp.ofs = n]
          ELSE NextInChain(g, n, stretch)
  BY <1>4 DEF DirNext
<1>8. [v EXCEPT !.dp.ofs = n] = [v EXCEPT !.dp = InSect(d, n)]
  BY <1>1 DEF Vols, InSect
<1>9. [s EXCEPT !.dp.ofs = n] = [v EXCEPT !.dp = [e EXCEPT !.ofs = n]]
  BY <1>1, <1>2 DEF Vols
<1>10. [e EXCEPT !.ofs = n] = NextSect(d, n)
  BY <1>1 DEF Dps, NextSect
<1>11. CASE n % SpS # 0
  <2>1. MovedTo(v, x, j, InSect(d, n))
    BY <1>2, <1>3, <1>7, <1>8, <1>11
  <2> QED
    BY <1>11, <2>1 DEF Onto
<1>12. CASE n % SpS = 0 /\ d.clust = 0 /\ n >= RootSlots
  <2>1. x = EndOfTable(s)
    BY <1>7, <1>12
  <2>2. Reads(v, s, j) /\ s.dp = e
    BY <1>5 DEF MovedTo
  <2> HIDE DEF x, s
  <2>3. Reads(v, x, j) /\ x.res = "NO_FILE" /\ x.dp = [d EXCEPT !.sect = 0]
    BY <1>6, <2>1, <2>2
  <2> QED
    BY <1>12, <2>3 DEF Onto, x
<1>13. CASE n % SpS = 0 /\ ~(d.clust = 0 /\ n >= RootSlots) /\ (d.clust = 0 \/ n % (SpS * Csize) # 0)
  <2>1. x = [v EXCEPT !.dp = [e EXCEPT !.ofs = n]]
    BY <1>7, <1>9, <1>13
  <2>2. MovedTo(v, x, j, NextSect(d, n))
    BY <1>2, <1>3, <1>10, <2>1
  <2>3. RootSlots \in Nat
    BY Numbers DEF RootSlots
  <2>4. n >= RootSlots \/ n < RootSlots
    BY <1>1, <2>3
  <2> QED
    BY <1>13, <2>2, <2>4 DEF Onto
<1>14. CASE n % SpS = 0 /\ d.clust # 0 /\ n % (SpS * Csize) = 0
  <2>1. d.clust \in Clus
    BY <1>1, <1>14
  <2>2. Vol(s, j) /\ Ok(s) /\ Seen(s) = Seen(v) /\ s.dp = e
    BY <1>5 DEF MovedTo, Reads, Ok
  <2> HIDE DEF s
  <2>3. /\ Reads(s, g, j) /\ g.dp = e
        /\ \/ g.res = "OK" /\ g.val = f[d.clust]
           \/ g.res = "DISK_ERR" /\ g.val = DiskErr
    BY <2>1, <2>2, GetFatIs
  <2>4. Reads(v, g, j)
    BY <1>5, <2>3, ReadsAfter DEF MovedTo
  <2>5. x = NextInChain(g, n, stretch)
    BY <1>7, <1>14
  <2>6. f[d.clust] \in Clus \cup {0, EOC}
    <3>1. f \in Fats
      BY VolIs
    <3> QED
      BY <2>1, <3>1 DEF Fats
  <2>7. Vol(g, j) /\ g \in Vols
    BY <2>4, VolIs DEF Reads
  <2> DEFINE c == f[d.clust]
             q == d.clust
             h == Fail(g, "INT_ERR")
             y == NextCluster(g, c, n)
             z == [e EXCEPT !.ofs = n, !.clust = c, !.sect = Clust2Sect(c)]
  <2>8. x = IF g.val \in {0, 1} THEN h ELSE IF g.val = DiskErr THEN g
            ELSE IF g.val \in Clus THEN NextCluster(g, g.val, n)
            ELSE IF stretch THEN Stretched(g, n) ELSE EndOfTable(g)
    BY <2>5 DEF NextInChain
  <2>9. Reads(v, h, j) /\ h.res = "INT_ERR" /\ h.dp = e
    <3>1. "INT_ERR" \in Results
      BY DEF Results
    <3>2. h \in Vols /\ Alike(g, h) /\ h.torn = g.torn /\ h.res = "INT_ERR" /\ h.dp = e
      <4>1. h.dp = g.dp
        BY <2>7, <3>1, StoreIs, StoreAlike
      <4>2. h \in Vols /\ Alike(g, h) /\ h.torn = g.torn /\ h.res = "INT_ERR"
        BY <2>7, <3>1, StoreIs, StoreAlike
      <4> QED
        BY <2>3, <4>1, <4>2
    <3> HIDE DEF h
    <3>3. Reads(g, h, j)
      BY <2>7, <3>2, AlikeVol
    <3> QED
      BY <2>4, <3>2, <3>3, ReadsAfter
  <2>10. ASSUME g.res = "OK", c \in Clus PROVE MovedTo(v, y, j, NextClus(d, n, c))
    <3> HIDE DEF c, g
    <3>1. z \in Dps
      BY <1>1, <1>2, <2>10, Area0 DEF Dps
    <3>2. y = At(g, z, "OK")
      <4> HIDE DEF e
      <4> QED
        BY <2>3, <2>7, <2>10 DEF NextCluster, Vols, At
    <3>3. z = NextClus(d, n, c)
      BY <1>1 DEF Dps, NextClus
    <3> HIDE DEF y, z
    <3>4. "OK" \in Results
      BY DEF Results
    <3>5. Reads(g, y, j) /\ y.dp = z /\ y.res = "OK"
      BY <2>7, <3>1, <3>2, <3>4, PutDp
    <3>6. Reads(v, y, j)
      BY <2>4, <3>5, ReadsAfter
    <3> QED
      BY <3>3, <3>5, <3>6 DEF MovedTo
  <2>11. /\ DiskErr \notin {0, 1} /\ DiskErr \notin Clus /\ EOC \notin {0, 1} /\ EOC # DiskErr /\ EOC \notin Clus
         /\ 0 \notin Clus /\ 1 \notin Clus
    BY Numbers
  <2> HIDE DEF x, g, h, y
  <2>12. CASE g.res = "DISK_ERR" /\ g.val = DiskErr
    <3>1. x = g
      BY <2>8, <2>11, <2>12
    <3> QED
      BY <1>14, <2>3, <2>4, <2>12, <3>1 DEF Onto, x
  <2>13. CASE g.res = "OK" /\ g.val = c /\ c = 0
    <3>1. x = h
      BY <2>8, <2>13
    <3> QED
      BY <1>14, <2>9, <2>13, <3>1 DEF Onto, x
  <2>14. CASE g.res = "OK" /\ g.val = c /\ c \in Clus
    <3>1. x = y
      <4>1. g.val \notin {0, 1} /\ g.val # DiskErr /\ g.val \in Clus
        BY <2>11, <2>14
      <4> QED
        BY <2>8, <2>14, <4>1 DEF y
    <3>2. MovedTo(v, x, j, NextClus(d, n, c))
      BY <2>10, <2>14, <3>1
    <3> QED
      BY <1>14, <2>14, <3>2 DEF Onto, x
  <2>15. CASE g.res = "OK" /\ g.val = c /\ c = EOC
    <3>1. x = IF stretch THEN Stretched(g, n) ELSE EndOfTable(g)
      <4>1. g.val \notin {0, 1} /\ g.val # DiskErr /\ g.val \notin Clus
        BY <2>11, <2>15
      <4> QED
        BY <2>8, <4>1
    <3>2. CASE stretch
      <4>1. x = Stretched(g, n)
        BY <3>1, <3>2
      <4> QED
        BY <1>14, <2>3, <2>4, <2>15, <3>2, <4>1 DEF Onto, x
    <3>3. CASE ~stretch
      <4>1. Reads(v, x, j) /\ x.res = "NO_FILE" /\ x.dp = [d EXCEPT !.sect = 0]
        <5>1. x = EndOfTable(g) /\ g.dp = e
          BY <2>3, <3>1, <3>3
        <5> QED
          BY <1>6, <2>4, <5>1
      <4> QED
        BY <1>14, <2>15, <3>3, <4>1 DEF Onto, x
    <3> QED
      BY <3>2, <3>3
  <2> QED
    BY <2>3, <2>6, <2>12, <2>13, <2>14, <2>15
<1> QED
  BY <1>11, <1>12, <1>13, <1>14


-----------------------------------------------------------------------------
(* Positions of a directory object.                                        *)

\* The object d is at slot i of sector o of the root, or of a cluster with k before it.
Place(d, k, o, i) ==
  /\ d \in Dps /\ k \in Nat /\ o \in Nat /\ i \in Slots
  /\ IF d.clust = 0
     THEN o < RootSects /\ d.sect = RootAt + o /\ d.ofs = SpS * o + (i - 1)
     ELSE o < Csize /\ d.sect = Clust2Sect(d.clust) + o /\ d.ofs = SpS * (Csize * k + o) + (i - 1)

\* It is in the window's reach.
LEMMA PlaceIs ==
  ASSUME NEW d, NEW k, NEW o, NEW i, Place(d, k, o, i)
  PROVE  /\ d.sect \in Sectors /\ (d.ofs % SpS) + 1 = i
         /\ d.clust = 0 => d.sect < Database
         /\ d.clust # 0 => d.clust \in Clus /\ d.sect >= Database /\ Cl(d.sect) = d.clust /\ d.sect - Clust2Sect(d.clust) = o
<1>1. d \in Dps /\ k \in Nat /\ o \in Nat /\ i \in 1 .. SpS /\ d.clust \in Clus \cup {0}
  BY DEF Place, Slots, Dps
<1>2. i - 1 \in 0 .. SpS - 1 /\ SpS \in Nat \ {0} /\ (i - 1) + 1 = i
  BY <1>1, Numbers
<1>3. CASE d.clust = 0
  <2>1. o < RootSects /\ d.sect = RootAt + o /\ d.ofs = SpS * o + (i - 1)
    BY <1>3 DEF Place
  <2>2. d.sect \in Int /\ RootAt <= d.sect /\ d.sect < Database
    BY <1>1, <2>1, Numbers
  <2>3. d.ofs % SpS = i - 1
    <3>1. d.ofs \in Nat
      BY <1>1 DEF Dps
    <3>2. o \in Nat /\ d.ofs = SpS * o + (i - 1)
      BY <1>1, <2>1
    <3> QED
      BY <1>2, <3>1, <3>2, DivIs, SMTT(30)
  <2> QED
    BY <1>2, <1>3, <2>2, <2>3, InRoot
<1>4. CASE d.clust # 0
  <2> DEFINE c == d.clust
             n == Csize * k + o
  <2>1. c \in Clus /\ o < Csize /\ d.sect = Clust2Sect(c) + o /\ d.ofs = SpS * n + (i - 1)
    BY <1>1, <1>4 DEF Place
  <2>2. d.sect \in Area(c) /\ d.sect - Clust2Sect(c) = o
    <3>1. Clust2Sect(c) \in Nat /\ Csize \in Nat /\ o \in Nat
      BY <1>1, <2>1, Area0, Numbers
    <3> HIDE DEF c
    <3> QED
      BY <2>1, <3>1 DEF Area
  <2>3. d.sect \in Sectors /\ d.sect >= Database /\ Cl(d.sect) = c
    BY <2>1, <2>2, InArea
  <2>4. n \in Nat
    BY <1>1, Numbers, Times
  <2> HIDE DEF n
  <2>5. d.ofs % SpS = i - 1
    <3>1. d.ofs \in Nat
      BY <1>1 DEF Dps
    <3>2. d.ofs = SpS * n + (i - 1)
      BY <2>1
    <3> QED
      BY <1>2, <2>4, <3>1, <3>2, DivIs, ZenonT(60)
  <2> QED
    BY <1>2, <1>4, <2>1, <2>2, <2>3, <2>5
<1> QED
  BY <1>3, <1>4

\* The position moves on within a sector, to the next sector, or to another cluster.
LEMMA PlaceNext ==
  ASSUME NEW d, NEW k, NEW o, NEW i, Place(d, k, o, i), NEW n, n = d.ofs + 1
  PROVE  /\ n \in Nat /\ (n % SpS = 0 <=> i = SpS)
         /\ i # SpS => Place(InSect(d, n), k, o, i + 1)
         /\ i = SpS /\ d.clust = 0 =>
              /\ n = SpS * (o + 1) /\ (n >= RootSlots <=> o + 1 = RootSects)
              /\ o + 1 # RootSects => Place(NextSect(d, n), k, o + 1, 1)
         /\ i = SpS /\ d.clust # 0 =>
              /\ n % (SpS * Csize) = 0 <=> o + 1 = Csize
              /\ o + 1 # Csize => Place(NextSect(d, n), k, o + 1, 1)
              /\ o + 1 = Csize =>
                   /\ n = SpS * (Csize * (k + 1))
                   /\ \A c \in Clus : Place(NextClus(d, n, c), k + 1, 0, 1)
<1>1. /\ d \in Dps /\ k \in Nat /\ o \in Nat /\ i \in 1 .. SpS /\ d.clust \in Clus \cup {0}
      /\ d.sect \in Nat /\ d.ofs \in Nat /\ n \in Nat /\ d.start \in Clus \cup {0}
  BY DEF Place, Slots, Dps
<1>2. /\ SpS \in Nat \ {0} /\ Csize \in Nat \ {0} /\ RootSects \in Nat \ {0} /\ SpS >= 2 /\ 1 \in Slots
      /\ 0 \notin Clus /\ RootAt \in Nat
  BY Numbers
<1>3. \A j \in 1 .. SpS : j \in Slots
  BY DEF Slots
<1>4. /\ InSect(d, n) \in Dps /\ InSect(d, n).ofs = n /\ InSect(d, n).sect = d.sect /\ InSect(d, n).clust = d.clust
      /\ NextSect(d, n) \in Dps /\ NextSect(d, n).ofs = n /\ NextSect(d, n).sect = d.sect + 1 /\ NextSect(d, n).clust = d.clust
      /\ \A c \in Clus : /\ NextClus(d, n, c) \in Dps /\ NextClus(d, n, c).ofs = n
                        /\ NextClus(d, n, c).sect = Clust2Sect(c) /\ NextClus(d, n, c).clust = c
  BY <1>1, NextIs, ZenonT(60)
<1>5. CASE d.clust = 0
  <2>1. o < RootSects /\ d.sect = RootAt + o /\ d.ofs = SpS * o + (i - 1)
    BY <1>5 DEF Place
  <2>2. d.ofs = SpS * (RootSects * 0 + o) + (i - 1) /\ o \in 0 .. RootSects - 1
    BY <1>1, <1>2, <2>1
  <2>3. (n % SpS = 0 <=> i = SpS) /\ (i = SpS => n = SpS * (RootSects * 0 + o + 1))
    BY <1>1, <1>2, <2>2, StepIs, SMTT(30)
  <2>4. i = SpS => n = SpS * (o + 1)
    BY <1>1, <1>2, <2>3
  <2>5. RootSlots = SpS * RootSects
    BY <1>2 DEF RootSlots
  <2>6. o + 1 = RootSects \/ SpS * (o + 1) + SpS <= SpS * RootSects
    BY <1>1, <1>2, <2>1, Times
  <2>6a. SpS * (o + 1) \in Nat /\ SpS * RootSects \in Nat
    BY <1>1, <1>2
  <2>7. i = SpS => (n >= RootSlots <=> o + 1 = RootSects)
    <3> DEFINE a == SpS * (o + 1)
               b == SpS * RootSects
    <3>1. (o + 1 = RootSects => a = b) /\ (o + 1 = RootSects \/ a + SpS <= b) /\ a \in Nat /\ b \in Nat
      BY <2>6, <2>6a
    <3>2. (i = SpS => n = a) /\ RootSlots = b
      BY <2>4, <2>5
    <3> HIDE DEF a, b
    <3> QED
      BY <1>2, <3>1, <3>2
  <2>8. i # SpS => Place(InSect(d, n), k, o, i + 1)
    <3>1. SUFFICES ASSUME i # SpS PROVE Place(InSect(d, n), k, o, i + 1)
      OBVIOUS
    <3>2. i + 1 \in Slots /\ n = SpS * o + ((i + 1) - 1)
      <4>1. SpS * o \in Nat
        BY <1>1, <1>2
      <4> QED
        BY <1>1, <1>2, <1>3, <2>1, <3>1, <4>1
    <3> QED
      BY <1>1, <1>4, <1>5, <2>1, <3>2 DEF Place
  <2>9. i = SpS /\ o + 1 # RootSects => Place(NextSect(d, n), k, o + 1, 1)
    <3>1. SUFFICES ASSUME i = SpS, o + 1 # RootSects
                   PROVE  Place(NextSect(d, n), k, o + 1, 1)
      OBVIOUS
    <3>2. n = SpS * (o + 1) + (1 - 1) /\ o + 1 < RootSects /\ o + 1 \in Nat /\ d.sect + 1 \in Nat /\ d.sect + 1 = RootAt + (o + 1)
      BY <1>1, <1>2, <2>1, <2>4, <2>6a, <3>1
    <3> QED
      BY <1>1, <1>2, <1>4, <1>5, <3>2 DEF Place
  <2> QED
    BY <1>1, <1>5, <2>3, <2>4, <2>7, <2>8, <2>9
<1>6. CASE d.clust # 0
  <2>1. o < Csize /\ d.sect = Clust2Sect(d.clust) + o /\ d.ofs = SpS * (Csize * k + o) + (i - 1) /\ d.clust \in Clus
    BY <1>1, <1>6 DEF Place
  <2>2. o \in 0 .. Csize - 1
    BY <1>1, <1>2, <2>1
  <2>3. /\ (n % SpS = 0 <=> i = SpS) /\ (i = SpS => n = SpS * (Csize * k + o + 1))
        /\ i = SpS => (n % (SpS * Csize) = 0 <=> o = Csize - 1)
        /\ o = Csize - 1 => Csize * k + o + 1 = Csize * (k + 1)
    <3>1. d.ofs = SpS * (Csize * k + o) + (i - 1)
      BY <2>1
    <3> DEFINE q == d.ofs
    <3>1a. q = SpS * (Csize * k + o) + (i - 1) /\ n = q + 1
      BY <3>1
    <3> HIDE DEF q
    <3>0. SpS \in Nat \ {0} /\ Csize \in Nat \ {0} /\ k \in Nat /\ i \in 1 .. SpS
      BY <1>1, <1>2
    <3>1b. ((q + 1) % SpS = 0 <=> i = SpS) /\ (i = SpS => q + 1 = SpS * (Csize * k + o + 1))
      BY <2>2, <3>0, <3>1a, StepIs, SMTT(30)
    <3>1c. i = SpS => ((q + 1) % (SpS * Csize) = 0 <=> o = Csize - 1)
      BY <2>2, <3>0, <3>1a, StepIs, SMTT(30)
    <3>2. /\ (n % SpS = 0 <=> i = SpS) /\ (i = SpS => n = SpS * (Csize * k + o + 1))
          /\ i = SpS => (n % (SpS * Csize) = 0 <=> o = Csize - 1)
      BY <3>1a, <3>1b, <3>1c
    <3>3. o = Csize - 1 => Csize * k + o + 1 = Csize * (k + 1)
      BY <1>1, <1>2, <2>2, <3>1, StepIs, SMTT(30)
    <3> QED
      BY <3>2, <3>3
  <2>4. o = Csize - 1 <=> o + 1 = Csize
    BY <1>1, <1>2
  <2>5. Csize * k \in Nat /\ Csize * (k + 1) \in Nat
    BY <1>1, <1>2
  <2>6. i # SpS => Place(InSect(d, n), k, o, i + 1)
    <3>1. SUFFICES ASSUME i # SpS PROVE Place(InSect(d, n), k, o, i + 1)
      OBVIOUS
    <3> DEFINE m == SpS * (Csize * k + o)
    <3>2. m \in Nat
      BY <1>1, <1>2, <2>5
    <3>2a. d.ofs = m + (i - 1)
      BY <2>1
    <3> HIDE DEF m
    <3>2b. i + 1 \in Slots /\ n = m + ((i + 1) - 1)
      BY <1>1, <1>2, <1>3, <3>1, <3>2, <3>2a
    <3>3. i + 1 \in Slots /\ n = SpS * (Csize * k + o) + ((i + 1) - 1)
      BY <3>2b DEF m
    <3> QED
      BY <1>1, <1>4, <1>6, <2>1, <3>3 DEF Place
  <2>7. i = SpS /\ o + 1 # Csize => Place(NextSect(d, n), k, o + 1, 1)
    <3>1. SUFFICES ASSUME i = SpS, o + 1 # Csize
                   PROVE  Place(NextSect(d, n), k, o + 1, 1)
      OBVIOUS
    <3>2. o + 1 < Csize /\ o + 1 \in Nat /\ d.sect + 1 \in Nat /\ d.sect + 1 = Clust2Sect(d.clust) + (o + 1)
      BY <1>1, <1>2, <2>1, <3>1, Area0
    <3>3. Csize * k + (o + 1) = Csize * k + o + 1
      BY <1>1, <2>5
    <3>4. n = SpS * (Csize * k + (o + 1)) + (1 - 1)
      BY <1>1, <2>3, <3>1, <3>3
    <3> QED
      BY <1>1, <1>2, <1>4, <1>6, <3>2, <3>4 DEF Place
  <2>8. ASSUME i = SpS, o + 1 = Csize
        PROVE  /\ n = SpS * (Csize * (k + 1))
               /\ \A c \in Clus : Place(NextClus(d, n, c), k + 1, 0, 1)
    <3>1. n = SpS * (Csize * (k + 1))
      BY <2>3, <2>4, <2>8
    <3>2. ASSUME NEW c \in Clus PROVE Place(NextClus(d, n, c), k + 1, 0, 1)
      <4>1. Clust2Sect(c) \in Nat /\ Clust2Sect(c) = Clust2Sect(c) + 0 /\ c # 0
        BY <1>2, Area0
      <4>2. Csize * (k + 1) = Csize * (k + 1) + 0
        BY <2>5
      <4>3. n = SpS * (Csize * (k + 1) + 0) + (1 - 1)
        BY <1>1, <3>1, <4>2
      <4>4. k + 1 \in Nat /\ 0 \in Nat /\ 0 < Csize
        BY <1>1, <1>2
      <4> DEFINE e == NextClus(d, n, c)
      <4>5. e \in Dps /\ e.ofs = n /\ e.sect = Clust2Sect(c) /\ e.clust = c
        BY <1>4, <4>1
      <4> HIDE DEF e
      <4>6. Place(e, k + 1, 0, 1)
        BY <1>2, <4>1, <4>3, <4>4, <4>5 DEF Place
      <4> QED
        BY <4>6 DEF e
    <3> QED
      BY <3>1, <3>2
  <2> QED
    BY <1>1, <1>6, <2>3, <2>4, <2>6, <2>7, <2>8
<1> QED
  BY <1>5, <1>6


\* The position is in a table as the sectors have it, wherever that table is now.
Fits(d) == \E k, o, i : Place(d, k, o, i)

\* The position is in the table start of the witness.
Depth(d, w) == IF d.clust = 0 THEN 0 ELSE w.idx[d.clust] - 1
AtSlot(d, w) ==
  /\ IF d.clust = 0 THEN d.start = 0 ELSE d.start \in Clus /\ w.own[d.clust] = d.start
  /\ \E o, i : Place(d, Depth(d, w), o, i)

\* It is a slot of that table.
LEMMA AtSlotIs ==
  ASSUME NEW f, NEW w \in Witness, Chained(f, w), NEW d, AtSlot(d, w)
  PROVE  LET i == (d.ofs % SpS) + 1
         IN  /\ d \in Dps /\ d.sect \in Sectors /\ i \in Slots /\ Fits(d)
             /\ Tab(w, d.sect) = d.start /\ d.start # Nobody /\ Pos(w, d.sect, i) = d.ofs
<1> DEFINE k == Depth(d, w)
<1>1. PICK o, i : Place(d, k, o, i)
  BY DEF AtSlot
<1>2. d \in Dps /\ k \in Nat /\ o \in Nat /\ i \in Slots
  BY <1>1 DEF Place
<1>3. /\ d.sect \in Sectors /\ (d.ofs % SpS) + 1 = i
      /\ d.clust = 0 => d.sect < Database
      /\ d.clust # 0 => d.clust \in Clus /\ d.sect >= Database /\ Cl(d.sect) = d.clust /\ d.sect - Clust2Sect(d.clust) = o
  BY <1>1, PlaceIs
<1>4. d.sect \in Nat
  BY <1>3, SectorsAre
<1>5. CASE d.clust = 0
  <2>1. d.start = 0 /\ Tab(w, d.sect) = 0
    BY <1>3, <1>5 DEF AtSlot, Tab
  <2>2. d.sect = RootAt + o /\ d.ofs = SpS * o + (i - 1)
    BY <1>1, <1>5 DEF Place
  <2>3. Num(w, d.sect) = o
    BY <1>2, <1>3, <1>5, <2>2, Numbers DEF Num
  <2> QED
    BY <1>1, <1>2, <1>3, <2>1, <2>2, <2>3, Numbers DEF Pos, Fits
<1>6. CASE d.clust # 0
  <2>1. d.start \in Clus /\ w.own[d.clust] = d.start
    BY <1>6 DEF AtSlot
  <2>2. Tab(w, d.sect) = d.start
    BY <1>3, <1>4, <1>6, <2>1, Numbers DEF Tab
  <2>3. k = w.idx[d.clust] - 1
    BY <1>6 DEF Depth
  <2>4. d.ofs = SpS * (Csize * k + o) + (i - 1)
    BY <1>1, <1>6 DEF Place
  <2>5. Num(w, d.sect) = Csize * k + o
    <3>1. ~(d.sect < Database)
      BY <1>3, <1>4, <1>6, Numbers
    <3> QED
      BY <1>3, <1>6, <2>3, <3>1 DEF Num
  <2> HIDE DEF k
  <2> QED
    BY <1>1, <1>2, <1>3, <2>1, <2>2, <2>4, <2>5, Numbers DEF Pos, Fits
<1> QED
  BY <1>5, <1>6

\* A walk begins at the first slot of its table.
StartOf(t) == [start |-> t, ofs |-> 0, clust |-> t, sect |-> IF t = 0 THEN RootAt ELSE Clust2Sect(t)]
\* A walk begins at the first slot of its table.
LEMMA AtStart ==
  ASSUME NEW t \in Clus \cup {0}
  PROVE  /\ StartOf(t) \in Dps /\ StartOf(t).sect \in Sectors /\ Fits(StartOf(t))
         /\ \A w \in Witness : (t # 0 => w.own[t] = t /\ w.idx[t] = 1) => AtSlot(StartOf(t), w)
<1> DEFINE s == IF t = 0 THEN RootAt ELSE Clust2Sect(t)
           d == StartOf(t)
<1>1. s \in Sectors /\ s \in Nat
  BY SectorsAre
<1>2. d \in Dps /\ d.start = t /\ d.ofs = 0 /\ d.clust = t /\ d.sect = s
  BY <1>1 DEF StartOf, Dps
<1> HIDE DEF d
<1>3. Place(d, 0, 0, 1)
  <2>1. 0 = SpS * (Csize * 0 + 0) + (1 - 1) /\ 0 = SpS * 0 + (1 - 1) /\ 0 < RootSects /\ 0 < Csize
    BY Numbers
  <2>2. t # 0 => s = Clust2Sect(t) + 0
    BY Area0
  <2>3. t = 0 => s = RootAt + 0
    BY Numbers
  <2> QED
    BY <1>2, <2>1, <2>2, <2>3, Numbers DEF Place
<1>4. ASSUME NEW w \in Witness, t # 0 => w.own[t] = t /\ w.idx[t] = 1 PROVE AtSlot(d, w)
  <2>1. Depth(d, w) = 0
    BY <1>2, <1>4 DEF Depth
  <2> QED
    BY <1>2, <1>3, <1>4, <2>1 DEF AtSlot
<1> QED
  BY <1>1, <1>2, <1>3, <1>4 DEF Fits, d

\* The position moves on to the next slot of the table, or past its end.
LEMMA AtNext ==
  ASSUME NEW f, NEW w \in Witness, Chained(f, w), NEW d, AtSlot(d, w), NEW n, n = d.ofs + 1
  PROVE  /\ n % SpS # 0 => AtSlot(InSect(d, n), w)
         /\ n % SpS = 0 /\ d.clust = 0 /\ n >= RootSlots => n = SpS * Size(w, d.start)
         /\ n % SpS = 0 /\ ((d.clust = 0 /\ n < RootSlots) \/ (d.clust # 0 /\ n % (SpS * Csize) # 0))
              => AtSlot(NextSect(d, n), w)
         /\ n % SpS = 0 /\ d.clust # 0 /\ n % (SpS * Csize) = 0 =>
              /\ d.clust \in Clus /\ f[d.clust] # 0
              /\ f[d.clust] \in Clus =>
                   AtSlot(NextClus(d, n, f[d.clust]), w)
              /\ f[d.clust] = EOC => n = SpS * Size(w, d.start) /\ w.idx[d.clust] = w.len[d.start] /\ w.own[d.clust] = d.start
<1> DEFINE k == Depth(d, w)
<1>1. PICK o, i : Place(d, k, o, i)
  BY DEF AtSlot
<1>2. d \in Dps /\ k \in Nat /\ o \in Nat /\ i \in Slots /\ i \in 1 .. SpS /\ d.start \in Clus \cup {0} /\ d.clust \in Clus \cup {0}
  BY <1>1 DEF Place, Dps, Slots
<1>3. IF d.clust = 0 THEN d.start = 0 ELSE d.start \in Clus /\ w.own[d.clust] = d.start
  BY DEF AtSlot
<1>4. /\ n \in Nat /\ (n % SpS = 0 <=> i = SpS)
      /\ i # SpS => Place(InSect(d, n), k, o, i + 1)
      /\ i = SpS /\ d.clust = 0 =>
           /\ n = SpS * (o + 1) /\ (n >= RootSlots <=> o + 1 = RootSects)
           /\ o + 1 # RootSects => Place(NextSect(d, n), k, o + 1, 1)
      /\ i = SpS /\ d.clust # 0 =>
           /\ n % (SpS * Csize) = 0 <=> o + 1 = Csize
           /\ o + 1 # Csize => Place(NextSect(d, n), k, o + 1, 1)
           /\ o + 1 = Csize =>
                /\ n = SpS * (Csize * (k + 1))
                /\ \A c \in Clus : Place(NextClus(d, n, c), k + 1, 0, 1)
  BY <1>1, PlaceNext
<1>5. ASSUME NEW e, e.clust = d.clust, e.start = d.start, NEW x, NEW y, Place(e, k, x, y) PROVE AtSlot(e, w)
  BY <1>3, <1>5 DEF AtSlot, Depth
<1>6. /\ InSect(d, n).clust = d.clust /\ InSect(d, n).start = d.start
      /\ NextSect(d, n).clust = d.clust /\ NextSect(d, n).start = d.start
      /\ \A c \in Clus : NextClus(d, n, c).clust = c /\ NextClus(d, n, c).start = d.start
  BY <1>2, <1>4, NextIs
<1>7. ASSUME n % SpS # 0 PROVE AtSlot(InSect(d, n), w)
  BY <1>4, <1>5, <1>6, <1>7, SMTT(30)
<1>8. ASSUME n % SpS = 0, d.clust = 0, n >= RootSlots PROVE n = SpS * Size(w, d.start)
  BY <1>3, <1>4, <1>8 DEF Size
<1>9. ASSUME n % SpS = 0, (d.clust = 0 /\ n < RootSlots) \/ (d.clust # 0 /\ n % (SpS * Csize) # 0)
      PROVE  AtSlot(NextSect(d, n), w)
  <2>1. RootSlots \in Nat
    BY Numbers DEF RootSlots
  <2>2. n < RootSlots => ~(n >= RootSlots)
    <3>1. n \in Nat
      BY <1>4
    <3> QED
      BY <2>1, <3>1
  <2>3. Place(NextSect(d, n), k, o + 1, 1)
    BY <1>4, <1>9, <2>2
  <2> QED
    BY <1>5, <1>6, <2>3
<1>10. ASSUME n % SpS = 0, d.clust # 0, n % (SpS * Csize) = 0
       PROVE  /\ d.clust \in Clus /\ f[d.clust] # 0
              /\ f[d.clust] \in Clus =>
                   AtSlot(NextClus(d, n, f[d.clust]), w)
              /\ f[d.clust] = EOC => n = SpS * Size(w, d.start) /\ w.idx[d.clust] = w.len[d.start] /\ w.own[d.clust] = d.start
  <2> DEFINE c == d.clust
             t == d.start
  <2>1. c \in Clus /\ t \in Clus /\ w.own[c] = t /\ k = w.idx[c] - 1 /\ t # Nobody /\ t # 0
    BY <1>2, <1>3, <1>10, Numbers DEF Depth
  <2> HIDE DEF c, t
  <2>2. /\ f[c] # 0 /\ w.idx[c] \in Nat /\ w.idx[c] >= 1 /\ w.len[t] \in Nat /\ w.idx[c] <= w.len[t]
        /\ w.idx[c] < w.len[t] => f[c] \in Clus /\ w.own[f[c]] = t /\ w.idx[f[c]] = w.idx[c] + 1
        /\ ~(w.idx[c] < w.len[t]) => f[c] = EOC
    BY <2>1, OwnedIs
  <2>3. n = SpS * (Csize * (k + 1)) /\ \A y \in Clus : Place(NextClus(d, n, y), k + 1, 0, 1)
    BY <1>4, <1>10
  <2>4. k + 1 = w.idx[c]
    BY <2>1, <2>2
  <2>5. f[c] \in Clus => AtSlot(NextClus(d, n, f[c]), w)
    <3>1. SUFFICES ASSUME f[c] \in Clus PROVE AtSlot(NextClus(d, n, f[c]), w)
      OBVIOUS
    <3> DEFINE e == NextClus(d, n, f[c])
    <3>2. w.own[f[c]] = t /\ w.idx[f[c]] = w.idx[c] + 1
      BY <2>2, <3>1, Numbers
    <3>3. e.clust = f[c] /\ e.start = t /\ Place(e, k + 1, 0, 1) /\ f[c] # 0
      BY <1>6, <2>3, <3>1, Numbers DEF t
    <3> HIDE DEF e
    <3>4. Depth(e, w) = k + 1
      BY <2>2, <2>4, <3>2, <3>3 DEF Depth
    <3>5. AtSlot(e, w)
      BY <2>1, <3>2, <3>3, <3>4 DEF AtSlot
    <3> QED
      BY <3>5 DEF e
  <2>6. f[c] = EOC => n = SpS * Size(w, t) /\ w.idx[c] = w.len[t]
    <3>1. SUFFICES ASSUME f[c] = EOC PROVE n = SpS * Size(w, t) /\ w.idx[c] = w.len[t]
      OBVIOUS
    <3>2. w.idx[c] = w.len[t]
      BY <2>2, <3>1, Numbers
    <3>3. Size(w, t) = Csize * (k + 1)
      BY <2>1, <2>4, <3>2 DEF Size
    <3> QED
      BY <2>3, <3>2, <3>3
  <2> QED
    BY <2>1, <2>2, <2>5, <2>6 DEF c, t
<1> QED
  BY <1>7, <1>8, <1>9, <1>10

\* Wherever it is, the position moves on within the sectors.
LEMMA FitsNext ==
  ASSUME NEW d, Fits(d), NEW n, n = d.ofs + 1
  PROVE  /\ n % SpS # 0 => Fits(InSect(d, n))
         /\ n % SpS = 0 /\ ((d.clust = 0 /\ n < RootSlots) \/ (d.clust # 0 /\ n % (SpS * Csize) # 0))
              => Fits(NextSect(d, n))
         /\ n % SpS = 0 /\ d.clust # 0 /\ n % (SpS * Csize) = 0 =>
              \A c \in Clus : Fits(NextClus(d, n, c))
<1>1. PICK k, o, i : Place(d, k, o, i)
  BY DEF Fits
<1>2. /\ n \in Nat /\ (n % SpS = 0 <=> i = SpS)
      /\ i # SpS => Place(InSect(d, n), k, o, i + 1)
      /\ i = SpS /\ d.clust = 0 =>
           /\ n = SpS * (o + 1) /\ (n >= RootSlots <=> o + 1 = RootSects)
           /\ o + 1 # RootSects => Place(NextSect(d, n), k, o + 1, 1)
      /\ i = SpS /\ d.clust # 0 =>
           /\ n % (SpS * Csize) = 0 <=> o + 1 = Csize
           /\ o + 1 # Csize => Place(NextSect(d, n), k, o + 1, 1)
           /\ o + 1 = Csize =>
                /\ n = SpS * (Csize * (k + 1))
                /\ \A c \in Clus : Place(NextClus(d, n, c), k + 1, 0, 1)
  BY <1>1, PlaceNext
<1>3. n < RootSlots => ~(n >= RootSlots)
  <2>1. n \in Nat /\ RootSlots \in Nat
    BY <1>2, Numbers DEF RootSlots
  <2> QED
    BY <2>1
<1> QED
  BY <1>2, <1>3 DEF Fits


-----------------------------------------------------------------------------
(* Recursive functions of numbers.                                         *)

\* Every set of numbers has a least one.
LEMMA LeastMember ==
  ASSUME NEW S, S \subseteq Nat, S # {}
  PROVE  \E n \in S : \A m \in S : n <= m
<1> DEFINE R == {p \in Nat \X Nat : p[1] < p[2]}
<1>1. IsWellFoundedOn(R, Nat)
  BY NatLessThanWellFounded DEF OpToRel
<1>2. \A m, n \in Nat : m < n => <<m, n>> \in R
  OBVIOUS
<1> HIDE DEF R
<1>3. PICK n \in S : \A m \in S : ~(<<m, n>> \in R)
  BY <1>1, WFMin
<1>4. \A m \in S : ~(m < n)
  BY <1>2, <1>3
<1> QED
  BY <1>4

\* What holds of 0 and passes from k - 1 to k holds up to N.
LEMMA UpTo ==
  ASSUME NEW N \in Nat, NEW S, 0 \in S, \A k \in 1 .. N : k - 1 \in S => k \in S
  PROVE  \A k \in 0 .. N : k \in S
<1> DEFINE Bad == {k \in 0 .. N : k \notin S}
<1>1. SUFFICES ASSUME Bad # {} PROVE FALSE
  OBVIOUS
<1>2. PICK n \in Bad : \A m \in Bad : n <= m
  <2>1. Bad \subseteq Nat
    OBVIOUS
  <2> HIDE DEF Bad
  <2> QED
    BY <1>1, <2>1, LeastMember
<1>3. n \in 0 .. N /\ n \notin S
  BY <1>2
<1>4. n \in 1 .. N /\ n - 1 \in 0 .. N /\ ~(n <= n - 1)
  BY <1>3
<1>5. n - 1 \in S
  BY <1>2, <1>4
<1> QED
  BY <1>3, <1>4, <1>5

-----------------------------------------------------------------------------
(* The steps of a walk.                                                    *)

\* The walk as a sequence of volumes.
Follows(at, v, kinds, names, stretch) ==
  /\ at[0] = InWindow(v)
  /\ \A n \in 1 .. AllSlots : at[n] = IF Ok(at[n - 1]) THEN Onward(at[n - 1], kinds, names, stretch) ELSE at[n - 1]

\* The number of steps a walk can take.
LEMMA AllSlotsIs == AllSlots \in Nat
<1>1. RootSlots \in Nat /\ NClust * Csize \in Nat
  BY Numbers DEF RootSlots
<1> DEFINE k == NClust * Csize
<1>2. AllSlots = RootSlots + k * SpS
  BY DEF AllSlots
<1> HIDE DEF k
<1>3. k * SpS \in Nat
  BY <1>1, Numbers DEF k
<1> QED
  BY <1>1, <1>2, <1>3

\* The walk is the last of a sequence of steps.
LEMMA WalkFollows ==
  ASSUME NEW v, NEW kinds, NEW names, NEW stretch
  PROVE  \E at : Follows(at, v, kinds, names, stretch) /\ Walk(v, kinds, names, stretch) = at[AllSlots]
<1> DEFINE F(p) == IF Ok(p) THEN Onward(p, kinds, names, stretch) ELSE p
           Upto(g, k) == g = [n \in 0 .. k |-> IF n = 0 THEN InWindow(v) ELSE F(g[n - 1])]
           S == {k \in 0 .. AllSlots : \E g : Upto(g, k)}
<1>1. 0 \in S
  <2> DEFINE g == [n \in 0 .. 0 |-> InWindow(v)]
  <2>1. Upto(g, 0)
    <3> HIDE DEF F
    <3> QED
      OBVIOUS
  <2> HIDE DEF Upto
  <2> QED
    BY <2>1, AllSlotsIs
<1>2. ASSUME NEW k \in 1 .. AllSlots, k - 1 \in S PROVE k \in S
  <2>1. PICK g : Upto(g, k - 1)
    BY <1>2
  <2> DEFINE h == [n \in 0 .. k |-> IF n = k THEN F(g[k - 1]) ELSE g[n]]
  <2> HIDE DEF F
  <2>2. /\ \A n \in 0 .. k - 1 : g[n] = IF n = 0 THEN InWindow(v) ELSE F(g[n - 1])
    BY <2>1
  <2>3. \A n \in 0 .. k : h[n] = IF n = 0 THEN InWindow(v) ELSE F(h[n - 1])
    <3>1. SUFFICES ASSUME NEW n \in 0 .. k PROVE h[n] = IF n = 0 THEN InWindow(v) ELSE F(h[n - 1])
      OBVIOUS
    <3>2. CASE n = k
      BY <3>2
    <3>3. CASE n # k
      BY <2>2, <3>3
    <3> QED
      BY <3>2, <3>3
  <2>4. h = [n \in 0 .. k |-> h[n]]
    OBVIOUS
  <2> HIDE DEF h
  <2>5. Upto(h, k)
    BY <2>3, <2>4
  <2> HIDE DEF Upto
  <2> QED
    BY <2>5
<1> HIDE DEF S
<1>3. AllSlots \in S
  BY <1>1, <1>2, AllSlotsIs, UpTo
<1>4. PICK g : Upto(g, AllSlots)
  BY <1>3 DEF S
<1> DEFINE at == CHOOSE h : h = [n \in 0 .. AllSlots |-> IF n = 0 THEN InWindow(v)
                                  ELSE Then(h[n - 1], LAMBDA p : Onward(p, kinds, names, stretch))]
<1>5. g = [n \in 0 .. AllSlots |-> IF n = 0 THEN InWindow(v)
                                  ELSE Then(g[n - 1], LAMBDA p : Onward(p, kinds, names, stretch))]
  BY <1>4 DEF Then
<1>6. at = [n \in 0 .. AllSlots |-> IF n = 0 THEN InWindow(v)
                                  ELSE Then(at[n - 1], LAMBDA p : Onward(p, kinds, names, stretch))]
  BY <1>5 DEF Then
<1>7. Walk(v, kinds, names, stretch) = at[AllSlots]
  BY DEF Walk, WalkFrom, Then
<1>8. at = [n \in 0 .. AllSlots |-> IF n = 0 THEN InWindow(v) ELSE F(at[n - 1])]
  BY <1>6 DEF Then
<1> HIDE DEF at, F
<1>9. \A n \in 0 .. AllSlots : at[n] = IF n = 0 THEN InWindow(v) ELSE F(at[n - 1])
  BY <1>8
<1>10. at[0] = InWindow(v) /\ \A n \in 1 .. AllSlots : at[n] = F(at[n - 1])
  BY <1>9, AllSlotsIs
<1>11. Follows(at, v, kinds, names, stretch)
  BY <1>10 DEF Follows, F
<1> QED
  BY <1>7, <1>11

\* The window is at the position.
Standing(x) == x.dp.sect \in Sectors /\ x.win.at = x.dp.sect

\* The sector of the position is brought into the window.
LEMMA InWindowIs ==
  ASSUME NEW v, NEW j, Vol(v, j), Ok(v), v.dp.sect # FatSect
  PROVE  LET x == InWindow(v)
         IN  /\ Reads(v, x, j) /\ x.dp = v.dp /\ x.val = v.val
             /\ (x.res = "OK" /\ Standing(x)) \/ x.res = "DISK_ERR"
<1>1. v.dp.sect \in Nat
  BY VolIs, Fields
<1> DEFINE x == MoveWindow(v, v.dp.sect)
<1>2. /\ Reads(v, x, j) /\ x.dp = v.dp /\ x.val = v.val
      /\ \/ x.res = "OK" /\ v.dp.sect \in Sectors \cup {FatSect} /\ x.win.at = v.dp.sect
         \/ x.res = "DISK_ERR"
  BY <1>1, MoveWindowIs
<1> HIDE DEF x
<1>3. Standing(x) \/ x.res = "DISK_ERR"
  BY <1>2 DEF Standing
<1> QED
  BY <1>2, <1>3 DEF InWindow, x

\* The slot at the position is the one seen in the sectors.
LEMMA CurIs ==
  ASSUME NEW x, NEW j, Vol(x, j), Standing(x)
  PROVE  /\ Index(x) \in Slots /\ Cur(x) = Seen(x)[x.dp.sect][Index(x)] /\ Cur(x) \in SlotSet
         /\ x.win.data \in Blocks /\ Seen(x)[x.dp.sect] = x.win.data /\ x.win.at # NoSect /\ x.win.at \in Sectors
<1>1. x \in Vols /\ WinFits(x.win, x.card) /\ x.dp.ofs \in Nat /\ x.win.at \in Sectors
  BY VolIs, Fields DEF Standing
<1>2. x.win.at # NoSect /\ x.win.data \in Blocks
  BY <1>1, SectorsAre DEF WinFits
<1>3. Seen(x)[x.dp.sect] = x.win.data
  BY <1>1, <1>2, SeenIs DEF Standing
<1>4. x.dp.ofs % SpS \in 0 .. SpS - 1
  <2> DEFINE a == x.dp.ofs
  <2>1. a \in Nat /\ SpS \in Nat \ {0}
    BY <1>1, Numbers
  <2> HIDE DEF a
  <2>2. a % SpS \in 0 .. SpS - 1
    BY <2>1, DivMod
  <2> QED
    BY <2>2 DEF a
<1>5. Index(x) \in Slots
  BY <1>4, Numbers DEF Index, Slots
<1>6. Cur(x) = x.win.data[Index(x)]
  BY DEF Cur
<1> QED
  BY <1>1, <1>2, <1>3, <1>5, <1>6 DEF Blocks

\* A step of a walk that does not stretch the table.
LEMMA DirNextReads ==
  ASSUME NEW v, NEW j, Vol(v, j), Ok(v), v.dp.sect # 0, v.dp.sect # FatSect
  PROVE  LET x == DirNext(v, FALSE)
         IN  /\ Reads(v, x, j) /\ x.dp.sect # FatSect /\ x.dp.start = v.dp.start
             /\ x.res \in {"OK", "DISK_ERR", "INT_ERR", "NO_FILE"}
             /\ x.res = "OK" => x.dp.sect # 0 /\ (Fits(v.dp) => Fits(x.dp))
             /\ x.res = "NO_FILE" => x.dp.sect = 0
<1> DEFINE x == DirNext(v, FALSE)
           d == v.dp
           n == d.ofs + 1
           f == Seen(v)[FatSect]
<1>1. d \in Dps /\ n \in Nat /\ d.sect \in Nat /\ d.start \in Clus \cup {0} /\ d.clust \in Clus \cup {0}
  BY VolIs, Fields
<1>2. Onto(v, x, j, FALSE)
  BY DirNextIs
<1>3. /\ InSect(d, n).sect = d.sect /\ InSect(d, n).start = d.start
      /\ NextSect(d, n).sect = d.sect + 1 /\ NextSect(d, n).start = d.start
      /\ \A c \in Clus : NextClus(d, n, c).sect = Clust2Sect(c) /\ NextClus(d, n, c).start = d.start
  BY <1>1, NextIs
<1>4. /\ [d EXCEPT !.sect = 0].sect = 0 /\ [d EXCEPT !.sect = 0].start = d.start
      /\ [d EXCEPT !.sect = d.sect + 1].sect = d.sect + 1 /\ [d EXCEPT !.sect = d.sect + 1].start = d.start
  BY <1>1 DEF Dps
<1>5. d.sect + 1 # FatSect /\ d.sect + 1 # 0 /\ 0 # FatSect
  BY <1>1, Numbers
<1>6. \A c \in Clus : Clust2Sect(c) # FatSect /\ Clust2Sect(c) # 0
  BY SectorsAre
<1>7. CASE n % SpS # 0 /\ MovedTo(v, x, j, InSect(d, n))
  <2>1. Fits(d) => Fits(InSect(d, n))
    BY <1>7, FitsNext
  <2> HIDE DEF x, n
  <2> QED
    BY <1>3, <1>7, <2>1 DEF MovedTo, x
<1>8. CASE /\ n % SpS = 0 /\ d.clust = 0 /\ n >= RootSlots
           /\ Reads(v, x, j) /\ x.res = "NO_FILE" /\ x.dp = [d EXCEPT !.sect = 0]
  <2> HIDE DEF x, n
  <2> QED
    BY <1>4, <1>5, <1>8 DEF x
<1>9. CASE /\ n % SpS = 0 /\ ((d.clust = 0 /\ n < RootSlots) \/ (d.clust # 0 /\ n % (SpS * Csize) # 0))
           /\ MovedTo(v, x, j, NextSect(d, n))
  <2>1. Fits(d) => Fits(NextSect(d, n))
    BY <1>9, FitsNext
  <2> HIDE DEF x, n
  <2> QED
    BY <1>3, <1>5, <1>9, <2>1 DEF MovedTo, x
<1>10. CASE /\ n % SpS = 0 /\ d.clust # 0 /\ n % (SpS * Csize) = 0
            /\ Reads(v, x, j) /\ x.res \in {"DISK_ERR", "INT_ERR"} /\ x.dp = [d EXCEPT !.sect = d.sect + 1]
  <2> HIDE DEF x, n
  <2> QED
    BY <1>4, <1>5, <1>10 DEF x
<1>11. CASE /\ n % SpS = 0 /\ d.clust # 0 /\ n % (SpS * Csize) = 0 /\ f[d.clust] \in Clus
            /\ MovedTo(v, x, j, NextClus(d, n, f[d.clust]))
  <2>1. Fits(d) => Fits(NextClus(d, n, f[d.clust]))
    BY <1>11, FitsNext
  <2> HIDE DEF x, n
  <2> QED
    BY <1>3, <1>6, <1>11, <2>1 DEF MovedTo, x
<1>12. CASE Reads(v, x, j) /\ x.res = "NO_FILE" /\ x.dp = [d EXCEPT !.sect = 0]
  <2> HIDE DEF x, n
  <2> QED
    BY <1>4, <1>5, <1>12 DEF x
<1> HIDE DEF x, d, n
<1> QED
  BY <1>2, <1>7, <1>8, <1>9, <1>10, <1>11, <1>12 DEF Onto, d, n, f


\* What a walk that does not stretch a table leaves as it was.
Walked(v, x, j) ==
  /\ Reads(v, x, j) /\ x.dp.start = v.dp.start /\ x.res \in {"OK", "DISK_ERR", "INT_ERR", "NO_FILE"}
  /\ x.res = "OK" => Standing(x) /\ (Fits(v.dp) => Fits(x.dp))

\* One step of a walk that does not stretch the table changes nothing.
LEMMA OnwardWalked ==
  ASSUME NEW v, NEW j, NEW p, Walked(v, p, j), Ok(p), NEW kinds, NEW names
  PROVE  Walked(v, Onward(p, kinds, names, FALSE), j)
<1> DEFINE y == DirNext(p, FALSE)
           z == InWindow(y)
           x == Onward(p, kinds, names, FALSE)
<1>1. Reads(v, p, j) /\ Vol(p, j) /\ p.res = "OK" /\ p.dp.sect \in Sectors /\ p.dp.start = v.dp.start /\ (Fits(v.dp) => Fits(p.dp))
  BY DEF Walked, Reads, Ok, Standing
<1>2. p.dp.sect # 0 /\ p.dp.sect # FatSect
  BY <1>1, SectorsAre
<1>3. /\ Reads(p, y, j) /\ y.dp.sect # FatSect /\ y.dp.start = p.dp.start
      /\ y.res \in {"OK", "DISK_ERR", "INT_ERR", "NO_FILE"}
      /\ y.res = "OK" => y.dp.sect # 0 /\ (Fits(p.dp) => Fits(y.dp))
  BY <1>1, <1>2, DirNextReads
<1>4. x = IF Stops(Cur(p), kinds, names) THEN p ELSE IF y.res = "OK" THEN z ELSE y
  BY DEF Onward, Then, Ok
<1> HIDE DEF y
<1>5. Reads(v, y, j)
  BY <1>1, <1>3, ReadsAfter
<1>6. y.res # "OK" => Walked(v, y, j)
  BY <1>1, <1>3, <1>5 DEF Walked
<1>7. ASSUME y.res = "OK" PROVE Walked(v, z, j)
  <2>1. Vol(y, j) /\ Ok(y)
    BY <1>5, <1>7 DEF Reads, Ok
  <2>2. Reads(y, z, j) /\ z.dp = y.dp /\ ((z.res = "OK" /\ Standing(z)) \/ z.res = "DISK_ERR")
    BY <1>3, <2>1, InWindowIs
  <2> HIDE DEF z
  <2>3. Reads(v, z, j)
    BY <1>5, <2>2, ReadsAfter
  <2> QED
    BY <1>1, <1>3, <1>7, <2>2, <2>3 DEF Walked
<1> HIDE DEF x, z
<1> QED
  BY <1>4, <1>6, <1>7 DEF x

\* So a whole walk changes nothing.
LEMMA WalkReads ==
  ASSUME NEW v, NEW j, Vol(v, j), Ok(v), v.dp.sect # FatSect, NEW kinds, NEW names
  PROVE  Walked(v, Walk(v, kinds, names, FALSE), j)
<1>1. PICK at : Follows(at, v, kinds, names, FALSE) /\ Walk(v, kinds, names, FALSE) = at[AllSlots]
  BY WalkFollows
<1> DEFINE S == {n \in 0 .. AllSlots : Walked(v, at[n], j)}
<1>2. at[0] = InWindow(v) /\ \A n \in 1 .. AllSlots : at[n] = IF Ok(at[n - 1]) THEN Onward(at[n - 1], kinds, names, FALSE) ELSE at[n - 1]
  BY <1>1 DEF Follows
<1>3. 0 \in S
  <2>1. /\ Reads(v, at[0], j) /\ at[0].dp = v.dp
        /\ (at[0].res = "OK" /\ Standing(at[0])) \/ at[0].res = "DISK_ERR"
    BY <1>2, InWindowIs
  <2>2. Walked(v, at[0], j)
    BY <2>1 DEF Walked
  <2> QED
    BY <2>2, AllSlotsIs
<1>4. ASSUME NEW n \in 1 .. AllSlots, n - 1 \in S PROVE n \in S
  <2>1. Walked(v, at[n - 1], j)
    BY <1>4
  <2>2. CASE Ok(at[n - 1])
    <3>1. Walked(v, at[n], j)
      BY <1>2, <2>1, <2>2, OnwardWalked
    <3> QED
      BY <3>1
  <2>3. CASE ~Ok(at[n - 1])
    <3>1. at[n] = at[n - 1]
      BY <1>2, <2>3
    <3> QED
      BY <2>1, <3>1
  <2> QED
    BY <2>2, <2>3
<1> HIDE DEF S
<1>5. AllSlots \in S
  BY <1>3, <1>4, AllSlotsIs, UpTo
<1> QED
  BY <1>1, <1>5 DEF S

-----------------------------------------------------------------------------
(* What a walk finds in a table.                                           *)

\* No slot of the table t with a position from a to before b stops the walk.
Passed(m, w, t, a, b, kinds, names) ==
  \A s \in Sectors, i \in Slots :
    Tab(w, s) = t /\ a <= Pos(w, s, i) /\ Pos(w, s, i) < b => ~Stops(m[s][i], kinds, names)

\* The walk from v is at x after n steps, or stopped.
Searched(v, x, j, w, n, kinds, names) ==
  LET t == v.dp.start
      a == v.dp.ofs
      m == Seen(v)
  IN  /\ Reads(v, x, j)
      /\ \/ /\ x.res = "OK" /\ Standing(x) /\ AtSlot(x.dp, w) /\ x.dp.start = t /\ a <= x.dp.ofs
            /\ Passed(m, w, t, a, x.dp.ofs, kinds, names)
            /\ Stops(Cur(x), kinds, names) \/ x.dp.ofs >= a + n
         \/ /\ x.res = "NO_FILE" /\ x.dp.start = t
            /\ Passed(m, w, t, a, SpS * Size(w, t), kinds, names)
         \/ x.res = "DISK_ERR"

\* The table is stretched: g is at the last slot of its last cluster, and y after it.
Stretches(v, y, j, w, n) ==
  LET t == v.dp.start
      m == Seen(v)
  IN  \E g : /\ Reads(v, g, j) /\ g.res = "OK" /\ g.dp.start = t /\ g.dp.clust \in Clus
             /\ w.own[g.dp.clust] = t /\ w.idx[g.dp.clust] = w.len[t] /\ m[FatSect][g.dp.clust] = EOC
             /\ n = SpS * Size(w, t) /\ y = Stretched(g, n)

\* One slot more has been passed.
LEMMA PassedOne ==
  ASSUME NEW m, NEW w \in Witness, NEW f, Chained(f, w), NEW t, NEW a \in Nat, NEW kinds, NEW names, NEW d,
         AtSlot(d, w), d.start = t, Passed(m, w, t, a, d.ofs, kinds, names),
         ~Stops(m[d.sect][(d.ofs % SpS) + 1], kinds, names)
  PROVE  Passed(m, w, t, a, d.ofs + 1, kinds, names)
<1> DEFINE k == (d.ofs % SpS) + 1
<1>1. /\ d \in Dps /\ d.sect \in Sectors /\ k \in Slots
      /\ Tab(w, d.sect) = d.start /\ d.start # Nobody /\ Pos(w, d.sect, k) = d.ofs
  BY AtSlotIs
<1>2. d.ofs \in Nat
  BY <1>1 DEF Dps
<1> HIDE DEF k
<1>3. ASSUME NEW s \in Sectors, NEW i \in Slots, Tab(w, s) = t, a <= Pos(w, s, i), Pos(w, s, i) < d.ofs + 1
      PROVE  ~Stops(m[s][i], kinds, names)
  <2>1. Pos(w, s, i) \in Nat
    BY <1>1, <1>3, PosIs
  <2>2. CASE Pos(w, s, i) = d.ofs
    <3>1. s = d.sect /\ i = k
      BY <1>1, <1>3, <2>2, PosUnique
    <3> QED
      BY <3>1 DEF k
  <2>3. CASE Pos(w, s, i) < d.ofs
    BY <1>3, <2>3 DEF Passed
  <2> QED
    BY <1>2, <1>3, <2>1, <2>2, <2>3
<1> QED
  BY <1>3 DEF Passed


\* A walk at a slot that does not stop it goes on to the next slot, or past the end of the table.
Grows(v, x, j, w, kinds, names) ==
  /\ Passed(Seen(v), w, v.dp.start, v.dp.ofs, SpS * Size(w, v.dp.start), kinds, names)
  /\ \E y, n : Stretches(v, y, j, w, n) /\ x = IF y.res = "OK" THEN InWindow(y) ELSE y

\* One step of a search: it has found, has passed one more slot, or is over.
LEMMA OnwardSearched ==
  ASSUME NEW v, NEW j, Vol(v, j), NEW w \in Witness, Chained(Seen(v)[FatSect], w),
         NEW k \in Nat, k > 0, NEW kinds, NEW names, NEW stretch \in BOOLEAN,
         NEW p, Searched(v, p, j, w, k - 1, kinds, names), Ok(p)
  PROVE  LET x == Onward(p, kinds, names, stretch)
         IN  Searched(v, x, j, w, k, kinds, names) \/ (stretch /\ Grows(v, x, j, w, kinds, names))
<1> DEFINE x == Onward(p, kinds, names, stretch)
           t == v.dp.start
           a == v.dp.ofs
           m == Seen(v)
           f == m[FatSect]
           d == p.dp
           n == d.ofs + 1
           y == DirNext(p, stretch)
           z == InWindow(y)
           i == (d.ofs % SpS) + 1
<1>1. /\ Reads(v, p, j) /\ p.res = "OK" /\ Standing(p) /\ AtSlot(d, w) /\ d.start = t /\ a <= d.ofs
      /\ Passed(m, w, t, a, d.ofs, kinds, names)
      /\ Stops(Cur(p), kinds, names) \/ d.ofs >= a + (k - 1)
  BY DEF Searched, Ok
<1>2. Vol(p, j) /\ Seen(p) = m /\ d.sect \in Sectors /\ d.sect # 0
  BY <1>1, SectorsAre DEF Reads, Standing
<1>3. /\ d \in Dps /\ d.ofs \in Nat /\ n \in Nat /\ a \in Nat /\ d.sect \in Nat /\ d.start \in Clus \cup {0} /\ d.clust \in Clus \cup {0}
  BY <1>2, VolIs, Fields
<1>4. x = IF Stops(Cur(p), kinds, names) THEN p ELSE IF y.res = "OK" THEN z ELSE y
  BY DEF Onward, Then, Ok
<1>5. Cur(p) = m[d.sect][i]
  BY <1>1, <1>2, CurIs DEF Index
<1> HIDE DEF x, y, z
<1>6. CASE Stops(Cur(p), kinds, names)
  <2>1. x = p
    BY <1>4, <1>6
  <2>2. Searched(v, x, j, w, k, kinds, names)
    BY <1>1, <1>6, <2>1 DEF Searched
  <2> QED
    BY <2>2 DEF x
<1>7. CASE ~Stops(Cur(p), kinds, names)
  <2>1. x = IF y.res = "OK" THEN z ELSE y
    BY <1>4, <1>7
  <2>2. Passed(m, w, t, a, n, kinds, names)
    BY <1>1, <1>3, <1>5, <1>7, PassedOne
  <2>3. Onto(p, y, j, stretch)
    BY <1>1, <1>2, DirNextIs DEF y, Ok
  <2>4. n >= a + k /\ a <= n
    BY <1>1, <1>3, <1>7
  <2>5. ASSUME NEW e, MovedTo(p, y, j, e), AtSlot(e, w), e.start = t, e.ofs = n
        PROVE  Searched(v, x, j, w, k, kinds, names)
    <3>1. Reads(p, y, j) /\ y.res = "OK" /\ y.dp = e /\ Vol(y, j) /\ Ok(y)
      BY <2>5 DEF MovedTo, Reads, Ok
    <3>2. e.sect # FatSect
      BY <2>5, AtSlotIs, SectorsAre
    <3>3. /\ Reads(y, z, j) /\ z.dp = e
          /\ (z.res = "OK" /\ Standing(z)) \/ z.res = "DISK_ERR"
      BY <3>1, <3>2, InWindowIs DEF z
    <3>4. Reads(v, z, j)
      BY <1>1, <3>1, <3>3, ReadsAfter
    <3>5. x = z
      BY <2>1, <3>1
    <3> QED
      BY <2>2, <2>4, <2>5, <3>3, <3>4, <3>5 DEF Searched
  <2>6. ASSUME Reads(p, y, j), y.res = "NO_FILE", y.dp = [d EXCEPT !.sect = 0], n = SpS * Size(w, t)
        PROVE  Searched(v, x, j, w, k, kinds, names)
    <3>1. x = y
      BY <2>1, <2>6
    <3>2. Reads(v, x, j)
      BY <1>1, <2>6, <3>1, ReadsAfter
    <3>3. x.dp.start = t
      BY <1>1, <1>3, <2>6, <3>1 DEF Dps
    <3> QED
      BY <2>2, <2>6, <3>1, <3>2, <3>3 DEF Searched
  <2>7. /\ InSect(d, n).ofs = n /\ InSect(d, n).start = t
        /\ NextSect(d, n).ofs = n /\ NextSect(d, n).start = t
        /\ \A c \in Clus : NextClus(d, n, c).ofs = n /\ NextClus(d, n, c).start = t
    BY <1>1, <1>3, NextIs, ZenonT(60)
  <2>8. /\ n % SpS # 0 => AtSlot(InSect(d, n), w)
        /\ n % SpS = 0 /\ d.clust = 0 /\ n >= RootSlots => n = SpS * Size(w, t)
        /\ n % SpS = 0 /\ ((d.clust = 0 /\ n < RootSlots) \/ (d.clust # 0 /\ n % (SpS * Csize) # 0))
              => AtSlot(NextSect(d, n), w)
        /\ n % SpS = 0 /\ d.clust # 0 /\ n % (SpS * Csize) = 0 =>
              /\ d.clust \in Clus /\ f[d.clust] # 0
              /\ f[d.clust] \in Clus => AtSlot(NextClus(d, n, f[d.clust]), w)
              /\ f[d.clust] = EOC => n = SpS * Size(w, t) /\ w.idx[d.clust] = w.len[t] /\ w.own[d.clust] = t
    BY <1>1, AtNext
  <2>9. CASE n % SpS # 0 /\ MovedTo(p, y, j, InSect(d, n))
    <3>1. Searched(v, x, j, w, k, kinds, names)
      BY <2>5, <2>7, <2>8, <2>9
    <3> QED
      BY <3>1 DEF x
  <2>10. CASE /\ n % SpS = 0 /\ d.clust = 0 /\ n >= RootSlots
              /\ Reads(p, y, j) /\ y.res = "NO_FILE" /\ y.dp = [d EXCEPT !.sect = 0]
    <3>1. Searched(v, x, j, w, k, kinds, names)
      BY <2>6, <2>8, <2>10
    <3> QED
      BY <3>1 DEF x
  <2>11. CASE /\ n % SpS = 0 /\ ((d.clust = 0 /\ n < RootSlots) \/ (d.clust # 0 /\ n % (SpS * Csize) # 0))
              /\ MovedTo(p, y, j, NextSect(d, n))
    <3>1. Searched(v, x, j, w, k, kinds, names)
      BY <2>5, <2>7, <2>8, <2>11
    <3> QED
      BY <3>1 DEF x
  <2>12. CASE Reads(p, y, j) /\ y.res = "DISK_ERR"
    <3>1. x = y /\ Reads(v, x, j)
      BY <1>1, <2>1, <2>12, ReadsAfter
    <3>2. Searched(v, x, j, w, k, kinds, names)
      BY <2>12, <3>1 DEF Searched
    <3> QED
      BY <3>2 DEF x
  <2>13. CASE /\ n % SpS = 0 /\ d.clust # 0 /\ n % (SpS * Csize) = 0 /\ f[d.clust] \in Clus
              /\ MovedTo(p, y, j, NextClus(d, n, f[d.clust]))
    <3>1. Searched(v, x, j, w, k, kinds, names)
      BY <2>5, <2>7, <2>8, <2>13
    <3> QED
      BY <3>1 DEF x
  <2>14. CASE /\ n % SpS = 0 /\ d.clust # 0 /\ n % (SpS * Csize) = 0 /\ f[d.clust] = EOC
              /\ Reads(p, y, j) /\ y.res = "NO_FILE" /\ y.dp = [d EXCEPT !.sect = 0]
    <3>1. Searched(v, x, j, w, k, kinds, names)
      BY <2>6, <2>8, <2>14
    <3> QED
      BY <3>1 DEF x
  <2>15. CASE /\ n % SpS = 0 /\ d.clust # 0 /\ n % (SpS * Csize) = 0 /\ f[d.clust] = EOC /\ stretch
              /\ \E g : /\ Reads(p, g, j) /\ g.res = "OK" /\ g.dp = [d EXCEPT !.sect = d.sect + 1]
                        /\ y = Stretched(g, n)
    <3>1. PICK g : /\ Reads(p, g, j) /\ g.res = "OK" /\ g.dp = [d EXCEPT !.sect = d.sect + 1]
                   /\ y = Stretched(g, n)
      BY <2>15
    <3>2. Reads(v, g, j)
      BY <1>1, <3>1, ReadsAfter
    <3>3. g.dp.start = t /\ g.dp.clust = d.clust
      BY <1>1, <1>3, <3>1 DEF Dps
    <3>4. d.clust \in Clus /\ n = SpS * Size(w, t) /\ w.idx[d.clust] = w.len[t] /\ w.own[d.clust] = t /\ f[d.clust] = EOC
      BY <2>8, <2>15
    <3> HIDE DEF d, n
    <3>5. Stretches(v, y, j, w, n)
      BY <3>1, <3>2, <3>3, <3>4 DEF Stretches
    <3>6. Grows(v, x, j, w, kinds, names)
      BY <2>1, <2>2, <3>4, <3>5 DEF Grows, z
    <3> QED
      BY <2>15, <3>6 DEF x
  <2> HIDE DEF d, n, i
  <2>16. f[d.clust] = 0 => ~(n % SpS = 0 /\ d.clust # 0 /\ n % (SpS * Csize) = 0)
    BY <2>8
  <2> QED
    BY <1>2, <2>3, <2>9, <2>10, <2>11, <2>12, <2>13, <2>14, <2>15, <2>16 DEF Onto, d, n
<1> QED
  BY <1>6, <1>7


\* The walk from slot a of table t finds the first slot that stops it, or there is none.
Finds(v, x, j, w, kinds, names) ==
  LET t == v.dp.start
      a == v.dp.ofs
      m == Seen(v)
  IN  /\ Reads(v, x, j)
      /\ \/ /\ x.res = "OK" /\ Standing(x) /\ AtSlot(x.dp, w) /\ x.dp.start = t
            /\ Passed(m, w, t, a, x.dp.ofs, kinds, names) /\ Stops(Cur(x), kinds, names)
         \/ /\ x.res = "NO_FILE" /\ x.dp.start = t
            /\ Passed(m, w, t, a, SpS * Size(w, t), kinds, names)
         \/ x.res = "DISK_ERR"

\* Nothing is passed before the first slot.
LEMMA PassedNone ==
  ASSUME NEW m, NEW w \in Witness, NEW f, Chained(f, w), NEW t, t # Nobody, NEW a \in Nat, NEW kinds, NEW names
  PROVE  Passed(m, w, t, a, a, kinds, names)
<1>1. ASSUME NEW s \in Sectors, NEW i \in Slots, Tab(w, s) = t, a <= Pos(w, s, i), Pos(w, s, i) < a PROVE FALSE
  <2>1. Pos(w, s, i) \in Nat
    BY <1>1, PosIs
  <2> QED
    BY <1>1, <2>1
<1> QED
  BY <1>1 DEF Passed

\* A walk finds the first slot at which it stops, or comes to the end of the table.
LEMMA WalkFinds ==
  ASSUME NEW v, NEW j, Vol(v, j), Ok(v), NEW w \in Witness, Chained(Seen(v)[FatSect], w), AtSlot(v.dp, w),
         NEW kinds, NEW names, NEW stretch \in BOOLEAN,
         stretch => \A x : Grows(v, x, j, w, kinds, names) /\ Ok(x) => Stops(Cur(x), kinds, names)
  PROVE  LET x == Walk(v, kinds, names, stretch)
         IN  Finds(v, x, j, w, kinds, names) \/ (stretch /\ Grows(v, x, j, w, kinds, names))
<1> DEFINE m == Seen(v)
           f == m[FatSect]
           t == v.dp.start
           a == v.dp.ofs
           P(n, x) == Searched(v, x, j, w, n, kinds, names) \/ (stretch /\ Grows(v, x, j, w, kinds, names))
<1>1. PICK at : Follows(at, v, kinds, names, stretch) /\ Walk(v, kinds, names, stretch) = at[AllSlots]
  BY WalkFollows
<1>2. at[0] = InWindow(v) /\ \A n \in 1 .. AllSlots : at[n] = IF Ok(at[n - 1]) THEN Onward(at[n - 1], kinds, names, stretch) ELSE at[n - 1]
  BY <1>1 DEF Follows
<1>3. v.dp \in Dps /\ v.dp.sect \in Sectors /\ t # Nobody /\ v.dp.sect # FatSect /\ a \in Nat
  <2>1. v.dp \in Dps /\ v.dp.sect \in Sectors /\ t # Nobody
    BY AtSlotIs
  <2> QED
    BY <2>1, SectorsAre DEF Dps
<1> DEFINE S == {n \in 0 .. AllSlots : P(n, at[n])}
<1>4. 0 \in S
  <2>1. /\ Reads(v, at[0], j) /\ at[0].dp = v.dp
        /\ (at[0].res = "OK" /\ Standing(at[0])) \/ at[0].res = "DISK_ERR"
    BY <1>2, <1>3, InWindowIs
  <2>2. Passed(m, w, t, a, a, kinds, names)
    BY <1>3, PassedNone
  <2>3. a <= a /\ a >= a + 0
    BY <1>3
  <2>4. Searched(v, at[0], j, w, 0, kinds, names)
    BY <2>1, <2>2, <2>3 DEF Searched
  <2> QED
    BY <2>4, AllSlotsIs
<1>5. ASSUME NEW n \in 1 .. AllSlots, n - 1 \in S PROVE n \in S
  <2> DEFINE p == at[n - 1]
             q == at[n]
  <2>1. P(n - 1, p) /\ n \in Nat /\ n > 0
    BY <1>5, AllSlotsIs
  <2>2. q = IF Ok(p) THEN Onward(p, kinds, names, stretch) ELSE p
    BY <1>2
  <2> HIDE DEF p, q
  <2>3. CASE Ok(p) /\ Searched(v, p, j, w, n - 1, kinds, names)
    <3>1. P(n, q)
      BY <2>1, <2>2, <2>3, OnwardSearched
    <3> QED
      BY <3>1 DEF q
  <2>4. CASE Ok(p) /\ stretch /\ Grows(v, p, j, w, kinds, names)
    <3>1. Stops(Cur(p), kinds, names)
      BY <2>4
    <3>2. q = p
      BY <2>2, <2>4, <3>1 DEF Onward
    <3> QED
      BY <2>4, <3>2 DEF q
  <2>5. CASE ~Ok(p)
    <3>1. q = p
      BY <2>2, <2>5
    <3>2. Searched(v, p, j, w, n - 1, kinds, names) => Searched(v, p, j, w, n, kinds, names)
      BY <2>5 DEF Searched, Ok
    <3> QED
      BY <2>1, <3>1, <3>2 DEF q
  <2> QED
    BY <2>1, <2>3, <2>4, <2>5
<1> HIDE DEF S, P
<1>6. AllSlots \in S
  BY <1>4, <1>5, AllSlotsIs, UpTo
<1> DEFINE x == at[AllSlots]
<1>7. P(AllSlots, x)
  BY <1>6 DEF S
<1> HIDE DEF x
<1>8. ASSUME Searched(v, x, j, w, AllSlots, kinds, names) PROVE Finds(v, x, j, w, kinds, names)
  <2>1. CASE /\ x.res = "OK" /\ Standing(x) /\ AtSlot(x.dp, w) /\ x.dp.start = t
             /\ Passed(m, w, t, a, x.dp.ofs, kinds, names)
             /\ Stops(Cur(x), kinds, names) \/ x.dp.ofs >= a + AllSlots
    <3> DEFINE i == (x.dp.ofs % SpS) + 1
               r == x.dp.sect
    <3>1. /\ r \in Sectors /\ i \in Slots /\ Tab(w, r) # Nobody /\ Pos(w, r, i) = x.dp.ofs
      BY <2>1, AtSlotIs
    <3> HIDE DEF i, r
    <3>2. Pos(w, r, i) < AllSlots /\ Pos(w, r, i) \in Nat
      BY <3>1, PosBound, PosIs
    <3>3. ~(x.dp.ofs >= a + AllSlots)
      BY <1>3, <3>1, <3>2, AllSlotsIs
    <3> QED
      BY <1>8, <2>1, <3>3 DEF Finds, Searched
  <2> QED
    BY <1>8, <2>1 DEF Searched, Finds
<1> QED
  BY <1>1, <1>7, <1>8 DEF P, x


-----------------------------------------------------------------------------
(* What keeps sectors sound.                                               *)

\* Only the slot i of the sector s changes, and becomes x.
Changed(m, n, s, i, x) ==
  /\ n[FatSect] = m[FatSect] /\ n[s][i] = x
  /\ \A r \in Sectors, k \in Slots : r # s \/ k # i => n[r][k] = m[r][k]

\* The slot x of a directory leads to a table with its dot entries.
HasTable(m, w, x) ==
  /\ x.clu \in Clus /\ w.own[x.clu] = x.clu
  /\ m[Clust2Sect(x.clu)][1] = Dot(x.clu) /\ m[Clust2Sect(x.clu)][2].kind = "dot"
\* Its second slot.
Back(m, x) == m[Clust2Sect(x.clu)][2]

\* What an entry of a directory, of a file, and junk are.
LEMMA LedIs ==
  ASSUME NEW m, NEW w, Led(m, w), NEW s \in Sectors, NEW i \in Slots
  PROVE  /\ m[s][i].kind = "dir" =>
              /\ HasTable(m, w, m[s][i])
              /\ Alone(m, s, i) => Back(m, m[s][i]) = Dot(Tab(w, s))
         /\ m[s][i].kind \in {"file", "label"} => m[s][i].clu = 0
         /\ m[s][i].kind = "junk" => m[s][i].name = Unnamed
BY DEF Led, HasTable, Back

\* What the slot x must be to be put at slot i of sector s: it keeps order,
Takes(m, w, j, s, i, x) ==
  /\ x.kind \notin {"end", "dot", "junk"}
  /\ x.kind \in {"file", "label"} => x.clu = 0
  /\ x.kind \in Used => Tab(w, s) # Nobody
  /\ x.kind = "label" => Tab(w, s) = 0
  /\ \A r \in Sectors, k \in Slots : r # s \/ k # i =>
       /\ x.kind \in Entry /\ m[r][k].kind \in Entry /\ Tab(w, r) = Tab(w, s) => m[r][k].name # x.name
       /\ x.kind = "label" => m[r][k].kind # "label"
       /\ x.kind \in Used /\ m[r][k].kind = "end" /\ Tab(w, r) = Tab(w, s) => Pos(w, s, i) < Pos(w, r, k)
       /\ x.kind = "dir" /\ m[r][k].kind = "junk" => j \/ Tab(w, r) # x.clu

\* and the entries of directories lead back.
LeadsBack(m, n, w, s, i, x) ==
  /\ x.kind = "dir" => HasTable(m, w, x) /\ (Alone(n, s, i) => Back(m, x) = Dot(Tab(w, s)))
  /\ \A r \in Sectors, k \in Slots :
       (r # s \/ k # i) /\ m[r][k].kind = "dir" /\ Alone(n, r, k) => Back(m, m[r][k]) = Dot(Tab(w, r))

\* A slot is replaced by one that may be there, and the tables are sound as before.
LEMMA SlotGood ==
  ASSUME NEW m, NEW n, NEW w, NEW j \in BOOLEAN, Good(m, w, j), NEW s \in Sectors, NEW i \in Slots, NEW x,
         Changed(m, n, s, i, x), m[s][i].kind # "dot", Takes(m, w, j, s, i, x), LeadsBack(m, n, w, s, i, x)
  PROVE  Good(n, w, j)
<1>1. w \in Witness /\ Chained(m[FatSect], w) /\ Led(m, w) /\ Ordered(m, w) /\ (j \/ Clean(m, w))
  BY DEF Good
<1>2. /\ n[FatSect] = m[FatSect] /\ n[s][i] = x
      /\ \A r \in Sectors, k \in Slots : r # s \/ k # i => n[r][k] = m[r][k]
  BY DEF Changed
<1>3. \A t \in Clus, k \in {1, 2} : m[Clust2Sect(t)][k].kind = "dot" => n[Clust2Sect(t)][k] = m[Clust2Sect(t)][k]
  <2>1. SUFFICES ASSUME NEW t \in Clus, NEW k \in {1, 2}, m[Clust2Sect(t)][k].kind = "dot"
                 PROVE  n[Clust2Sect(t)][k] = m[Clust2Sect(t)][k]
    OBVIOUS
  <2> DEFINE r == Clust2Sect(t)
  <2>2. r \in Sectors /\ k \in Slots
    BY <2>1, SectorsAre, Numbers
  <2>3. m[r][k].kind = "dot"
    BY <2>1
  <2> HIDE DEF r
  <2>4. r # s \/ k # i
    BY <2>3
  <2>5. n[r][k] = m[r][k]
    BY <1>2, <2>2, <2>4
  <2> QED
    BY <2>5 DEF r
<1>3a. \A t : Dot(t).kind = "dot"
  BY DEF Dot, Slot
<1>4. ASSUME NEW y, HasTable(m, w, y) PROVE HasTable(n, w, y) /\ Back(n, y) = Back(m, y)
  <2>1. /\ y.clu \in Clus /\ w.own[y.clu] = y.clu
        /\ m[Clust2Sect(y.clu)][1] = Dot(y.clu) /\ m[Clust2Sect(y.clu)][2].kind = "dot"
    BY <1>4 DEF HasTable
  <2>2. n[Clust2Sect(y.clu)][1] = m[Clust2Sect(y.clu)][1] /\ n[Clust2Sect(y.clu)][2] = m[Clust2Sect(y.clu)][2]
    BY <1>3, <1>3a, <2>1
  <2> QED
    BY <2>1, <2>2 DEF HasTable, Back
<1>5. Led(n, w)
  <2>1. ASSUME NEW r \in Sectors, NEW k \in Slots, n[r][k].kind = "dir"
        PROVE  HasTable(n, w, n[r][k]) /\ (Alone(n, r, k) => Back(n, n[r][k]) = Dot(Tab(w, r)))
    <3>1. CASE r = s /\ k = i
      <4>1. n[r][k] = x /\ x.kind = "dir"
        BY <1>2, <2>1, <3>1
      <4>2. HasTable(m, w, x) /\ (Alone(n, r, k) => Back(m, x) = Dot(Tab(w, r)))
        BY <3>1, <4>1 DEF LeadsBack
      <4> QED
        BY <1>4, <4>1, <4>2
    <3>2. CASE r # s \/ k # i
      <4>1. n[r][k] = m[r][k] /\ m[r][k].kind = "dir"
        BY <1>2, <2>1, <3>2
      <4>2. HasTable(m, w, m[r][k])
        BY <1>1, <4>1 DEF Led, HasTable
      <4>3. Alone(n, r, k) => Back(m, m[r][k]) = Dot(Tab(w, r))
        BY <3>2, <4>1 DEF LeadsBack
      <4> QED
        BY <1>4, <4>1, <4>2, <4>3
    <3> QED
      BY <3>1, <3>2
  <2>2. ASSUME NEW r \in Sectors, NEW k \in Slots, n[r][k].kind \in {"file", "label"} PROVE n[r][k].clu = 0
    <3>1. CASE r = s /\ k = i
      BY <1>2, <2>2, <3>1 DEF Takes
    <3>2. CASE r # s \/ k # i
      BY <1>1, <1>2, <2>2, <3>2 DEF Led
    <3> QED
      BY <3>1, <3>2
  <2>3. ASSUME NEW r \in Sectors, NEW k \in Slots, n[r][k].kind = "junk" PROVE n[r][k].name = Unnamed
    <3>1. CASE r = s /\ k = i
      BY <1>2, <2>3, <3>1 DEF Takes
    <3>2. CASE r # s \/ k # i
      <4>1. n[r][k] = m[r][k] /\ m[r][k].kind = "junk"
        BY <1>2, <2>3, <3>2
      <4>2. m[r][k].name = Unnamed
        BY <1>1, <4>1, LedIs
      <4> QED
        BY <4>1, <4>2
    <3> QED
      BY <3>1, <3>2
  <2> QED
    BY <2>1, <2>2, <2>3 DEF Led, HasTable, Back
<1>6. Ordered(n, w)
  <2>1. ASSUME NEW r \in Sectors, NEW k \in Slots
        PROVE  /\ n[r][k].kind \in Used => Tab(w, r) # Nobody
               /\ n[r][k].kind = "label" => Tab(w, r) = 0
    <3>1. CASE r = s /\ k = i
      BY <1>2, <3>1 DEF Takes
    <3>2. CASE r # s \/ k # i
      BY <1>1, <1>2, <3>2 DEF Ordered
    <3> QED
      BY <3>1, <3>2
  <2>2. ASSUME NEW r \in Sectors, NEW k \in Slots, NEW q \in Sectors, NEW l \in Slots
        PROVE  /\ n[r][k].kind \in Entry /\ n[q][l].kind \in Entry /\ Tab(w, r) = Tab(w, q)
                     /\ n[r][k].name = n[q][l].name => r = q /\ k = l
               /\ n[r][k].kind = "label" /\ n[q][l].kind = "label" => r = q /\ k = l
               /\ n[r][k].kind = "end" /\ n[q][l].kind \in Used /\ Tab(w, r) = Tab(w, q) => Pos(w, q, l) < Pos(w, r, k)
    <3>0. x.kind \notin {"end", "dot", "junk"} /\ Used = {"file", "dir", "label"} /\ Entry = {"file", "dir"}
      BY DEF Takes, Used, Entry
    <3>1. CASE r = s /\ k = i /\ q = s /\ l = i
      BY <1>2, <3>0, <3>1
    <3>2. CASE r = s /\ k = i /\ (q # s \/ l # i)
      <4>1. n[r][k] = x /\ n[q][l] = m[q][l]
        BY <1>2, <3>2
      <4>2. /\ x.kind \in Entry /\ m[q][l].kind \in Entry /\ Tab(w, q) = Tab(w, s) => m[q][l].name # x.name
            /\ x.kind = "label" => m[q][l].kind # "label"
        BY <3>2 DEF Takes
      <4> QED
        BY <3>0, <3>2, <4>1, <4>2
    <3>3. CASE (r # s \/ k # i) /\ q = s /\ l = i
      <4>1. n[r][k] = m[r][k] /\ n[q][l] = x
        BY <1>2, <3>3
      <4>2. /\ x.kind \in Entry /\ m[r][k].kind \in Entry /\ Tab(w, r) = Tab(w, s) => m[r][k].name # x.name
            /\ x.kind = "label" => m[r][k].kind # "label"
            /\ x.kind \in Used /\ m[r][k].kind = "end" /\ Tab(w, r) = Tab(w, s) => Pos(w, s, i) < Pos(w, r, k)
        BY <3>3 DEF Takes
      <4> QED
        BY <3>0, <3>3, <4>1, <4>2
    <3>4. CASE (r # s \/ k # i) /\ (q # s \/ l # i)
      <4>1. n[r][k] = m[r][k] /\ n[q][l] = m[q][l]
        BY <1>2, <3>4
      <4> QED
        BY <1>1, <4>1 DEF Ordered
    <3> QED
      BY <3>1, <3>2, <3>3, <3>4
  <2> QED
    BY <2>1, <2>2 DEF Ordered
<1>7. j \/ Clean(n, w)
  <2>1. SUFFICES ASSUME ~j, NEW r \in Sectors, NEW k \in Slots, n[r][k].kind = "junk"
                 PROVE  Tab(w, r) # 0 /\ \A q \in Sectors, l \in Slots : ~Leads(n, q, l, Tab(w, r))
    BY DEF Clean
  <2>2. r # s \/ k # i
    BY <1>2, <2>1 DEF Takes
  <2>3. m[r][k].kind = "junk" /\ Clean(m, w)
    BY <1>1, <1>2, <2>1, <2>2
  <2>4. Tab(w, r) # 0 /\ \A q \in Sectors, l \in Slots : ~Leads(m, q, l, Tab(w, r))
    BY <2>3 DEF Clean
  <2>5. ASSUME NEW q \in Sectors, NEW l \in Slots, Leads(n, q, l, Tab(w, r)) PROVE FALSE
    <3>1. CASE q = s /\ l = i
      <4>1. x.kind = "dir" /\ x.clu = Tab(w, r)
        BY <1>2, <2>5, <3>1 DEF Leads
      <4> QED
        BY <2>1, <2>2, <2>3, <4>1 DEF Takes
    <3>2. CASE q # s \/ l # i
      BY <1>2, <2>4, <2>5, <3>2 DEF Leads
    <3> QED
      BY <3>1, <3>2
  <2> QED
    BY <2>4, <2>5
<1> QED
  BY <1>1, <1>2, <1>5, <1>6, <1>7 DEF Good


\* A sector that holds nothing used, and where no table begins that an entry leads to, is
\* written with slots that are not used.
LEMMA BlockGood ==
  ASSUME NEW m, NEW n, NEW w, NEW j \in BOOLEAN, Good(m, w, j), NEW s \in Sectors,
         n[FatSect] = m[FatSect], \A r \in Sectors : r # s => n[r] = m[r],
         \A i \in Slots : m[s][i].kind \notin Used /\ n[s][i].kind \notin Used /\ n[s][i].kind # "junk",
         \A r \in Sectors, k \in Slots : m[r][k].kind = "dir" => Clust2Sect(m[r][k].clu) # s,
         \A i \in Slots, r \in Sectors, k \in Slots :
           n[s][i].kind = "end" /\ m[r][k].kind \in Used /\ Tab(w, r) = Tab(w, s) => Pos(w, r, k) < Pos(w, s, i)
  PROVE  Good(n, w, j)
<1>1. w \in Witness /\ Chained(m[FatSect], w) /\ Led(m, w) /\ Ordered(m, w) /\ (j \/ Clean(m, w))
  BY DEF Good
<1>2. \A r \in Sectors, k \in Slots : n[r][k].kind \in Used => r # s /\ n[r][k] = m[r][k]
  OBVIOUS
<1>3. \A r \in Sectors, k \in Slots : m[r][k].kind \in Used => r # s /\ n[r][k] = m[r][k]
  OBVIOUS
<1>4. Used = {"file", "dir", "label"} /\ Entry = {"file", "dir"}
  BY DEF Used, Entry
<1>5. Led(n, w)
  <2>1. ASSUME NEW r \in Sectors, NEW k \in Slots, n[r][k].kind = "dir"
        PROVE  LET t == n[r][k].clu
               IN  /\ t \in Clus /\ w.own[t] = t
                   /\ n[Clust2Sect(t)][1] = Dot(t) /\ n[Clust2Sect(t)][2].kind = "dot"
                   /\ Alone(n, r, k) => n[Clust2Sect(t)][2] = Dot(Tab(w, r))
    <3> DEFINE t == n[r][k].clu
               a == Clust2Sect(t)
    <3>1. n[r][k] = m[r][k] /\ m[r][k].kind = "dir" /\ t = m[r][k].clu
      BY <1>2, <1>4, <2>1
    <3>2. /\ t \in Clus /\ w.own[t] = t /\ m[a][1] = Dot(t) /\ m[a][2].kind = "dot"
          /\ Alone(m, r, k) => m[a][2] = Dot(Tab(w, r))
      <4>1. HasTable(m, w, m[r][k]) /\ (Alone(m, r, k) => Back(m, m[r][k]) = Dot(Tab(w, r)))
        BY <1>1, <3>1, LedIs
      <4> QED
        BY <3>1, <4>1 DEF HasTable, Back
    <3>3. a # s /\ a \in Sectors
      BY <3>1, <3>2, SectorsAre
    <3>4. n[a] = m[a]
      BY <3>3
    <3>5. Alone(n, r, k) => Alone(m, r, k)
      BY <1>3, <1>4, <3>1 DEF Alone, Leads
    <3> HIDE DEF a, t
    <3>6. /\ n[a][1] = Dot(t) /\ n[a][2].kind = "dot"
          /\ Alone(n, r, k) => n[a][2] = Dot(Tab(w, r))
      BY <3>2, <3>4, <3>5
    <3> QED
      BY <3>2, <3>6 DEF a, t
  <2>2. ASSUME NEW r \in Sectors, NEW k \in Slots, n[r][k].kind \in {"file", "label"} PROVE n[r][k].clu = 0
    <3>1. n[r][k] = m[r][k] /\ m[r][k].kind \in {"file", "label"}
      BY <1>2, <1>4, <2>2
    <3>2. m[r][k].clu = 0
      BY <1>1, <3>1, LedIs
    <3> QED
      BY <3>1, <3>2
  <2>3. ASSUME NEW r \in Sectors, NEW k \in Slots, n[r][k].kind = "junk" PROVE n[r][k].name = Unnamed
    <3>1. n[r][k] = m[r][k]
      BY <2>3
    <3> QED
      BY <1>1, <2>3, <3>1 DEF Led
  <2> QED
    BY <2>1, <2>2, <2>3 DEF Led
<1>6. Ordered(n, w)
  <2>1. ASSUME NEW r \in Sectors, NEW k \in Slots
        PROVE  /\ n[r][k].kind \in Used => Tab(w, r) # Nobody
               /\ n[r][k].kind = "label" => Tab(w, r) = 0
    BY <1>1, <1>2, <1>4 DEF Ordered
  <2>2. ASSUME NEW r \in Sectors, NEW k \in Slots, NEW q \in Sectors, NEW l \in Slots
        PROVE  /\ n[r][k].kind \in Entry /\ n[q][l].kind \in Entry /\ Tab(w, r) = Tab(w, q)
                     /\ n[r][k].name = n[q][l].name => r = q /\ k = l
               /\ n[r][k].kind = "label" /\ n[q][l].kind = "label" => r = q /\ k = l
    BY <1>1, <1>2, <1>4 DEF Ordered
  <2>3. ASSUME NEW r \in Sectors, NEW k \in Slots, NEW q \in Sectors, NEW l \in Slots,
               n[r][k].kind = "end", n[q][l].kind \in Used, Tab(w, r) = Tab(w, q)
        PROVE  Pos(w, q, l) < Pos(w, r, k)
    <3>1. n[q][l] = m[q][l] /\ m[q][l].kind \in Used
      BY <1>2, <2>3
    <3>2. CASE r = s
      BY <2>3, <3>1, <3>2
    <3>3. CASE r # s
      <4>1. m[r][k].kind = "end"
        BY <2>3, <3>3
      <4> QED
        BY <1>1, <2>3, <3>1, <4>1 DEF Ordered
    <3> QED
      BY <3>2, <3>3
  <2> QED
    BY <2>1, <2>2, <2>3 DEF Ordered
<1>7. j \/ Clean(n, w)
  <2>1. SUFFICES ASSUME ~j, NEW r \in Sectors, NEW k \in Slots, n[r][k].kind = "junk"
                 PROVE  Tab(w, r) # 0 /\ \A q \in Sectors, l \in Slots : ~Leads(n, q, l, Tab(w, r))
    BY DEF Clean
  <2>2. r # s /\ n[r][k] = m[r][k]
    BY <2>1
  <2>3. Tab(w, r) # 0 /\ \A q \in Sectors, l \in Slots : ~Leads(m, q, l, Tab(w, r))
    BY <1>1, <2>1, <2>2 DEF Clean
  <2> QED
    BY <1>2, <1>4, <2>3 DEF Leads
<1> QED
  BY <1>1, <1>5, <1>6, <1>7 DEF Good


\* The tables of the sectors change, and nothing used is touched.
LEMMA KeptGood ==
  ASSUME NEW m, NEW n, NEW w, NEW u \in Witness, NEW j \in BOOLEAN, NEW l \in BOOLEAN, Good(m, w, j),
         \A s \in Sectors : n[s] = m[s], Chained(n[FatSect], u), j => l,
         \A s \in Sectors, i \in Slots : m[s][i].kind \in Used => Tab(u, s) = Tab(w, s),
         \A s \in Sectors, i \in Slots : m[s][i].kind = "dir" => u.own[m[s][i].clu] = m[s][i].clu,
         \A s \in Sectors, i \in Slots, r \in Sectors, k \in Slots :
           m[s][i].kind = "end" /\ m[r][k].kind \in Used /\ Tab(u, r) = Tab(u, s) => Pos(u, r, k) < Pos(u, s, i),
         l \/ \A s \in Sectors, i \in Slots : m[s][i].kind = "junk" =>
                Tab(u, s) # 0 /\ \A r \in Sectors, k \in Slots : ~Leads(m, r, k, Tab(u, s))
  PROVE  Good(n, u, l)
<1>1. w \in Witness /\ Chained(m[FatSect], w) /\ Led(m, w) /\ Ordered(m, w)
  BY DEF Good
<1>4. Used = {"file", "dir", "label"} /\ Entry = {"file", "dir"}
  BY DEF Used, Entry
<1>5. Led(n, u)
  <2>1. ASSUME NEW r \in Sectors, NEW k \in Slots, n[r][k].kind = "dir"
        PROVE  LET t == n[r][k].clu
               IN  /\ t \in Clus /\ u.own[t] = t
                   /\ n[Clust2Sect(t)][1] = Dot(t) /\ n[Clust2Sect(t)][2].kind = "dot"
                   /\ Alone(n, r, k) => n[Clust2Sect(t)][2] = Dot(Tab(u, r))
    <3> DEFINE t == n[r][k].clu
               a == Clust2Sect(t)
    <3>1. n[r][k] = m[r][k] /\ m[r][k].kind = "dir" /\ t = m[r][k].clu /\ Tab(u, r) = Tab(w, r) /\ u.own[t] = t
      BY <1>4, <2>1
    <3>2. /\ t \in Clus /\ w.own[t] = t /\ m[a][1] = Dot(t) /\ m[a][2].kind = "dot"
          /\ Alone(m, r, k) => m[a][2] = Dot(Tab(w, r))
      <4>1. HasTable(m, w, m[r][k]) /\ (Alone(m, r, k) => Back(m, m[r][k]) = Dot(Tab(w, r)))
        BY <1>1, <3>1, LedIs
      <4> QED
        BY <3>1, <4>1 DEF HasTable, Back
    <3>3. n[a] = m[a]
      BY <3>2, SectorsAre
    <3>5. Alone(n, r, k) => Alone(m, r, k)
      BY <3>1 DEF Alone, Leads
    <3> HIDE DEF a, t
    <3>6. /\ n[a][1] = Dot(t) /\ n[a][2].kind = "dot"
          /\ Alone(n, r, k) => n[a][2] = Dot(Tab(u, r))
      BY <3>1, <3>2, <3>3, <3>5
    <3> QED
      BY <3>1, <3>2, <3>6 DEF a, t
  <2>2. ASSUME NEW r \in Sectors, NEW k \in Slots, n[r][k].kind \in {"file", "label"} PROVE n[r][k].clu = 0
    <3>1. n[r][k] = m[r][k] /\ m[r][k].kind \in {"file", "label"}
      BY <2>2
    <3>2. m[r][k].clu = 0
      BY <1>1, <3>1, LedIs
    <3> QED
      BY <3>1, <3>2
  <2>3. ASSUME NEW r \in Sectors, NEW k \in Slots, n[r][k].kind = "junk" PROVE n[r][k].name = Unnamed
    <3>1. n[r][k] = m[r][k]
      BY <2>3
    <3> QED
      BY <1>1, <2>3, <3>1 DEF Led
  <2> QED
    BY <2>1, <2>2, <2>3 DEF Led
<1>6. Ordered(n, u)
  <2>1. ASSUME NEW r \in Sectors, NEW k \in Slots
        PROVE  /\ n[r][k].kind \in Used => Tab(u, r) # Nobody
               /\ n[r][k].kind = "label" => Tab(u, r) = 0
    BY <1>1, <1>4 DEF Ordered
  <2>2. ASSUME NEW r \in Sectors, NEW k \in Slots, NEW q \in Sectors, NEW z \in Slots
        PROVE  /\ n[r][k].kind \in Entry /\ n[q][z].kind \in Entry /\ Tab(u, r) = Tab(u, q)
                     /\ n[r][k].name = n[q][z].name => r = q /\ k = z
               /\ n[r][k].kind = "label" /\ n[q][z].kind = "label" => r = q /\ k = z
               /\ n[r][k].kind = "end" /\ n[q][z].kind \in Used /\ Tab(u, r) = Tab(u, q) => Pos(u, q, z) < Pos(u, r, k)
    <3>1. n[r] = m[r] /\ n[q] = m[q]
      OBVIOUS
    <3>2. /\ m[r][k].kind \in Entry => Tab(u, r) = Tab(w, r)
          /\ m[q][z].kind \in Entry => Tab(u, q) = Tab(w, q)
      BY <1>4
    <3>3. /\ m[r][k].kind \in Entry /\ m[q][z].kind \in Entry /\ Tab(w, r) = Tab(w, q)
                     /\ m[r][k].name = m[q][z].name => r = q /\ k = z
          /\ m[r][k].kind = "label" /\ m[q][z].kind = "label" => r = q /\ k = z
      BY <1>1 DEF Ordered
    <3> QED
      BY <3>1, <3>2, <3>3
  <2> QED
    BY <2>1, <2>2 DEF Ordered
<1>7. l \/ Clean(n, u)
  BY DEF Clean, Leads
<1> QED
  BY <1>1, <1>5, <1>6, <1>7 DEF Good

\* The FAT in which the free cluster n is the end of a chain, behind c unless c is 0.
Taken(f, n, c) == IF c = 0 THEN [f EXCEPT ![n] = EOC] ELSE [[f EXCEPT ![n] = EOC] EXCEPT ![c] = n]

\* A free cluster is put behind the last cluster of the table t.
Extend(w, t, c) ==
  [own |-> [w.own EXCEPT ![c] = t], idx |-> [w.idx EXCEPT ![c] = w.len[t] + 1], len |-> [w.len EXCEPT ![t] = w.len[t] + 1]]

\* The witness of a chain that was stretched by the cluster c.
LEMMA ExtendChained ==
  ASSUME NEW f \in Fats, NEW w \in Witness, Chained(f, w), NEW p \in Clus, NEW t \in Clus, w.own[p] = t, w.idx[p] = w.len[t],
         NEW c \in Clus, f[c] = 0, NEW g, g = Taken(f, c, p), NEW u, u = Extend(w, t, c)
  PROVE  /\ u \in Witness /\ Chained(g, u) /\ c # p /\ c # t /\ u.own[c] = t /\ u.idx[c] = w.len[t] + 1
         /\ \A x \in Clus : x # c => u.own[x] = w.own[x] /\ u.idx[x] = w.idx[x]
<1>1. /\ w.own \in [Clus -> Clus \cup {Nobody}] /\ w.idx \in [Clus -> Nat] /\ w.len \in [Clus -> Nat]
      /\ f \in [Clus -> Clus \cup {0, EOC}]
  BY DEF Witness, Fats
<1>2. t # Nobody /\ w.own[c] = Nobody /\ EOC # 0 /\ c # 0 /\ EOC \notin Clus /\ Nobody \notin Clus
  BY Numbers DEF Chained
<1>3. /\ f[p] # 0 /\ w.own[t] = t /\ w.idx[t] = 1 /\ w.len[t] \in Nat /\ w.len[t] >= 1
  BY <1>2, OwnedIs
<1>4. c # p /\ c # t
  BY <1>2, <1>3
<1>5. /\ u.own = [w.own EXCEPT ![c] = t] /\ u.idx = [w.idx EXCEPT ![c] = w.len[t] + 1]
      /\ u.len = [w.len EXCEPT ![t] = w.len[t] + 1] /\ u \in Witness
  BY <1>1, <1>3 DEF Extend, Witness
<1>6. /\ u.own[c] = t /\ u.idx[c] = w.len[t] + 1 /\ u.len[t] = w.len[t] + 1
      /\ \A x \in Clus : x # c => u.own[x] = w.own[x] /\ u.idx[x] = w.idx[x]
      /\ \A x \in Clus : x # t => u.len[x] = w.len[x]
  BY <1>1, <1>5
<1>7. g[c] = EOC /\ g[p] = c /\ \A x \in Clus : x # c /\ x # p => g[x] = f[x]
  <2>1. g = [[f EXCEPT ![c] = EOC] EXCEPT ![p] = c]
    BY Numbers DEF Taken
  <2> QED
    BY <1>1, <1>4, <2>1
<1>8. \A x \in Clus : w.own[x] # Nobody => w.own[x] \in Clus /\ w.own[x] # c /\ x # c
  BY <1>1, <1>2, OwnedIs
<1>9. \A x \in Clus : g[x] = 0 <=> u.own[x] = Nobody
  <2>1. ASSUME NEW x \in Clus PROVE g[x] = 0 <=> u.own[x] = Nobody
    <3>1. f[x] = 0 <=> w.own[x] = Nobody
      BY DEF Chained
    <3> QED
      BY <1>2, <1>3, <1>6, <1>7, <3>1
  <2> QED
    BY <2>1
<1>10. ASSUME NEW x \in Clus, g[x] # 0
       PROVE  LET y == u.own[x]
              IN  /\ u.own[y] = y /\ u.idx[y] = 1 /\ u.idx[x] >= 1 /\ u.idx[x] <= u.len[y]
                  /\ IF u.idx[x] < u.len[y]
                     THEN g[x] \in Clus /\ u.own[g[x]] = y /\ u.idx[g[x]] = u.idx[x] + 1
                     ELSE g[x] = EOC
  <2>1. CASE x = c
    <3>1. u.own[x] = t /\ u.own[t] = t /\ u.idx[t] = 1 /\ u.idx[x] = u.len[t] /\ u.idx[x] >= 1 /\ u.idx[x] \in Nat
      BY <1>3, <1>4, <1>6, <2>1
    <3> QED
      BY <1>7, <2>1, <3>1
  <2>2. CASE x # c
    <3> DEFINE y == u.own[x]
    <3>1. y = w.own[x] /\ y # Nobody /\ u.idx[x] = w.idx[x] /\ y \in Clus /\ y # c
      BY <1>6, <1>8, <1>9, <1>10, <2>2
    <3> HIDE DEF y
    <3>2. /\ f[x] # 0 /\ w.own[y] = y /\ w.idx[y] = 1 /\ w.idx[x] \in Nat /\ w.idx[x] >= 1 /\ w.len[y] \in Nat /\ w.idx[x] <= w.len[y]
          /\ w.idx[x] < w.len[y] => f[x] \in Clus /\ w.own[f[x]] = y /\ w.idx[f[x]] = w.idx[x] + 1
          /\ ~(w.idx[x] < w.len[y]) => f[x] = EOC
      BY <3>1, OwnedIs
    <3>3. u.own[y] = y /\ u.idx[y] = 1
      BY <1>6, <3>1, <3>2
    <3>4. CASE x = p
      <4>1. y = t
        BY <3>1, <3>4
      <4>2. u.idx[x] = w.len[t] /\ u.len[y] = w.len[t] + 1 /\ g[x] = c
        BY <1>6, <1>7, <3>1, <3>4, <4>1
      <4>3. u.idx[x] < u.len[y] /\ u.idx[x] >= 1 /\ u.idx[x] <= u.len[y] /\ u.idx[c] = u.idx[x] + 1
        BY <1>3, <1>6, <4>2
      <4> QED
        BY <1>6, <3>3, <4>1, <4>2, <4>3 DEF y
    <3>5. CASE x # p /\ y = t
      <4>1. w.idx[x] # w.len[t]
        <5>1. f[x] # 0 /\ w.own[x] = w.own[p] /\ x # p
          BY <3>1, <3>2, <3>5
        <5>2. w.idx[x] # w.idx[p]
          BY <5>1 DEF Chained
        <5> QED
          BY <5>2
      <4>2. w.idx[x] < w.len[t] /\ u.len[y] = w.len[t] + 1
        BY <1>6, <3>2, <3>5, <4>1
      <4>3. f[x] \in Clus /\ w.own[f[x]] = t /\ w.idx[f[x]] = w.idx[x] + 1 /\ f[x] # c
        BY <1>2, <3>2, <3>5, <4>2
      <4>4. g[x] = f[x] /\ u.own[f[x]] = t /\ u.idx[f[x]] = w.idx[x] + 1
        BY <1>6, <1>7, <2>2, <3>5, <4>3
      <4>5. u.idx[x] < u.len[y] /\ u.idx[x] >= 1 /\ u.idx[x] <= u.len[y]
        BY <3>1, <3>2, <3>5, <4>2
      <4> QED
        BY <3>1, <3>3, <3>5, <4>3, <4>4, <4>5 DEF y
    <3>6. CASE x # p /\ y # t
      <4>1. u.len[y] = w.len[y] /\ g[x] = f[x]
        BY <1>6, <1>7, <2>2, <3>1, <3>6
      <4>2. w.idx[x] < w.len[y] => u.own[f[x]] = y /\ u.idx[f[x]] = w.idx[x] + 1
        BY <1>2, <1>6, <3>1, <3>2
      <4> QED
        BY <3>1, <3>2, <3>3, <4>1, <4>2 DEF y
    <3> QED
      BY <3>4, <3>5, <3>6
  <2> QED
    BY <2>1, <2>2
<1>11. ASSUME NEW x \in Clus, NEW z \in Clus, g[x] # 0, u.own[x] = u.own[z], u.idx[x] = u.idx[z] PROVE x = z
  <2>1. \A q \in Clus : q # c /\ w.own[q] = t => w.idx[q] # w.len[t] + 1
    <3>1. ASSUME NEW q \in Clus, w.own[q] = t PROVE w.idx[q] # w.len[t] + 1
      <4>1. w.idx[q] \in Nat /\ w.idx[q] <= w.len[t]
        BY <1>2, <3>1, OwnedIs
      <4> QED
        BY <1>3, <4>1
    <3> QED
      BY <3>1
  <2>2. CASE x = c \/ z = c
    BY <1>6, <1>11, <2>1, <2>2
  <2>3. CASE x # c /\ z # c
    <3>1. w.own[x] = w.own[z] /\ w.idx[x] = w.idx[z] /\ w.own[x] # Nobody
      BY <1>6, <1>9, <1>11, <2>3
    <3>2. f[x] # 0
      BY <3>1 DEF Chained
    <3> QED
      BY <3>1, <3>2 DEF Chained
  <2> QED
    BY <2>2, <2>3
<1>12. ASSUME NEW y \in Clus, u.own[y] = y, NEW k \in 1 .. u.len[y] PROVE \E x \in Clus : u.own[x] = y /\ u.idx[x] = k
  <2>1. y # c /\ w.own[y] = y
    BY <1>4, <1>6, <1>12
  <2>2. CASE k \in 1 .. w.len[y]
    <3>1. PICK x \in Clus : w.own[x] = y /\ w.idx[x] = k
      BY <2>1, <2>2 DEF Chained
    <3>2. x # c
      BY <1>2, <3>1
    <3> QED
      BY <1>6, <3>1, <3>2
  <2>3. CASE k \notin 1 .. w.len[y]
    <3>1. y = t
      BY <1>6, <1>12, <2>3
    <3>2. k = w.len[t] + 1
      BY <1>3, <1>6, <1>12, <2>3, <3>1
    <3> QED
      BY <1>6, <3>1, <3>2
  <2> QED
    BY <2>2, <2>3
<1>13. Chained(g, u)
  BY <1>9, <1>10, <1>11, <1>12 DEF Chained
<1> QED
  BY <1>4, <1>5, <1>6, <1>13


\* A free cluster becomes a table of its own.
Found1(w, c) ==
  [own |-> [w.own EXCEPT ![c] = c], idx |-> [w.idx EXCEPT ![c] = 1], len |-> [w.len EXCEPT ![c] = 1]]

\* The witness with a new chain of one cluster.
LEMMA AllocChained ==
  ASSUME NEW f \in Fats, NEW w \in Witness, Chained(f, w),
         NEW c \in Clus, f[c] = 0, NEW g, g = Taken(f, c, 0), NEW u, u = Found1(w, c)
  PROVE  /\ u \in Witness /\ Chained(g, u) /\ u.own[c] = c /\ u.idx[c] = 1
         /\ \A x \in Clus : x # c => u.own[x] = w.own[x] /\ u.idx[x] = w.idx[x]
<1>1. /\ w.own \in [Clus -> Clus \cup {Nobody}] /\ w.idx \in [Clus -> Nat] /\ w.len \in [Clus -> Nat]
      /\ f \in [Clus -> Clus \cup {0, EOC}]
  BY DEF Witness, Fats
<1>2. w.own[c] = Nobody /\ EOC # 0 /\ c # 0 /\ EOC \notin Clus /\ Nobody \notin Clus
  BY Numbers DEF Chained
<1>5. /\ u.own = [w.own EXCEPT ![c] = c] /\ u.idx = [w.idx EXCEPT ![c] = 1]
      /\ u.len = [w.len EXCEPT ![c] = 1] /\ u \in Witness
  BY <1>1 DEF Found1, Witness
<1>6. /\ u.own[c] = c /\ u.idx[c] = 1 /\ u.len[c] = 1
      /\ \A x \in Clus : x # c => u.own[x] = w.own[x] /\ u.idx[x] = w.idx[x] /\ u.len[x] = w.len[x]
  BY <1>1, <1>5
<1>7. g[c] = EOC /\ \A x \in Clus : x # c => g[x] = f[x]
  BY <1>1 DEF Taken
<1>8. \A x \in Clus : w.own[x] # Nobody => w.own[x] \in Clus /\ w.own[x] # c /\ x # c
  BY <1>1, <1>2, OwnedIs
<1>9. \A x \in Clus : g[x] = 0 <=> u.own[x] = Nobody
  <2>1. ASSUME NEW x \in Clus PROVE g[x] = 0 <=> u.own[x] = Nobody
    <3>1. f[x] = 0 <=> w.own[x] = Nobody
      BY DEF Chained
    <3> QED
      BY <1>2, <1>6, <1>7, <3>1
  <2> QED
    BY <2>1
<1>10. ASSUME NEW x \in Clus, g[x] # 0
       PROVE  LET y == u.own[x]
              IN  /\ u.own[y] = y /\ u.idx[y] = 1 /\ u.idx[x] >= 1 /\ u.idx[x] <= u.len[y]
                  /\ IF u.idx[x] < u.len[y]
                     THEN g[x] \in Clus /\ u.own[g[x]] = y /\ u.idx[g[x]] = u.idx[x] + 1
                     ELSE g[x] = EOC
  <2>1. CASE x = c
    BY <1>6, <1>7, <2>1
  <2>2. CASE x # c
    <3> DEFINE y == u.own[x]
    <3>1. y = w.own[x] /\ y # Nobody /\ u.idx[x] = w.idx[x] /\ y \in Clus /\ y # c
      BY <1>6, <1>8, <1>9, <1>10, <2>2
    <3> HIDE DEF y
    <3>2. /\ f[x] # 0 /\ w.own[y] = y /\ w.idx[y] = 1 /\ w.idx[x] \in Nat /\ w.idx[x] >= 1 /\ w.len[y] \in Nat /\ w.idx[x] <= w.len[y]
          /\ w.idx[x] < w.len[y] => f[x] \in Clus /\ w.own[f[x]] = y /\ w.idx[f[x]] = w.idx[x] + 1
          /\ ~(w.idx[x] < w.len[y]) => f[x] = EOC
      BY <3>1, OwnedIs
    <3>3. u.own[y] = y /\ u.idx[y] = 1 /\ u.len[y] = w.len[y] /\ g[x] = f[x]
      BY <1>6, <1>7, <2>2, <3>1, <3>2
    <3>4. w.idx[x] < w.len[y] => u.own[f[x]] = y /\ u.idx[f[x]] = w.idx[x] + 1
      BY <1>2, <1>6, <3>1, <3>2
    <3> QED
      BY <3>1, <3>2, <3>3, <3>4 DEF y
  <2> QED
    BY <2>1, <2>2
<1>11. ASSUME NEW x \in Clus, NEW z \in Clus, g[x] # 0, u.own[x] = u.own[z], u.idx[x] = u.idx[z] PROVE x = z
  <2>1. \A q \in Clus : q # c => w.own[q] # c
    BY <1>2, <1>8, Numbers
  <2>2. CASE x = c \/ z = c
    BY <1>6, <1>11, <2>1, <2>2
  <2>3. CASE x # c /\ z # c
    <3>1. w.own[x] = w.own[z] /\ w.idx[x] = w.idx[z] /\ w.own[x] # Nobody
      BY <1>6, <1>9, <1>11, <2>3
    <3>2. f[x] # 0
      BY <3>1 DEF Chained
    <3> QED
      BY <3>1, <3>2 DEF Chained
  <2> QED
    BY <2>2, <2>3
<1>12. ASSUME NEW y \in Clus, u.own[y] = y, NEW k \in 1 .. u.len[y] PROVE \E x \in Clus : u.own[x] = y /\ u.idx[x] = k
  <2>1. CASE y = c
    BY <1>6, <1>12, <2>1
  <2>2. CASE y # c
    <3>1. w.own[y] = y /\ k \in 1 .. w.len[y]
      BY <1>6, <1>12, <2>2
    <3>2. PICK x \in Clus : w.own[x] = y /\ w.idx[x] = k
      BY <3>1 DEF Chained
    <3>3. x # c
      BY <1>2, <3>2
    <3> QED
      BY <1>6, <3>2, <3>3
  <2> QED
    BY <2>1, <2>2
<1>13. Chained(g, u)
  BY <1>9, <1>10, <1>11, <1>12 DEF Chained
<1> QED
  BY <1>5, <1>6, <1>13

\* The sectors outside of a cluster that is put in a table keep their places.
LEMMA OutsideIs ==
  ASSUME NEW w \in Witness, NEW u \in Witness, NEW c \in Clus, w.own[c] = Nobody,
         \A x \in Clus : x # c => u.own[x] = w.own[x] /\ u.idx[x] = w.idx[x], NEW s \in Sectors
  PROVE  /\ Tab(w, s) # Nobody \/ s < Database \/ Cl(s) # c =>
              Tab(u, s) = Tab(w, s) /\ Num(u, s) = Num(w, s) /\ \A i \in Slots : Pos(u, s, i) = Pos(w, s, i)
         /\ s >= Database /\ Cl(s) = c => Tab(w, s) = Nobody /\ Tab(u, s) = u.own[c]
<1>1. s \in Nat /\ Database \in Nat
  BY SectorsAre, Numbers
<1>2. CASE s < Database
  <2>1. Tab(u, s) = Tab(w, s) /\ Num(u, s) = Num(w, s)
    BY <1>2 DEF Tab, Num
  <2> QED
    BY <1>1, <1>2, <2>1 DEF Pos
<1>3. CASE s >= Database
  <2>1. Cl(s) \in Clus /\ Tab(w, s) = w.own[Cl(s)] /\ Tab(u, s) = u.own[Cl(s)] /\ ~(s < Database)
    BY <1>1, <1>3, TabIs
  <2>2. CASE Cl(s) = c
    BY <1>3, <2>1, <2>2
  <2>3. CASE Cl(s) # c
    <3>1. Num(u, s) = Num(w, s) /\ Tab(u, s) = Tab(w, s)
      BY <2>1, <2>3 DEF Num
    <3> QED
      BY <2>3, <3>1 DEF Pos
  <2> QED
    BY <2>2, <2>3
<1> QED
  BY <1>1, <1>2, <1>3

\* The tables are sound when a free cluster is taken.
LEMMA AllocGood ==
  ASSUME NEW m, NEW n, NEW w, NEW j \in BOOLEAN, Good(m, w, j), m[FatSect] \in Fats, NEW c \in Clus, m[FatSect][c] = 0,
         \A s \in Sectors : n[s] = m[s], n[FatSect] = Taken(m[FatSect], c, 0), NEW u, u = Found1(w, c)
  PROVE  Good(n, u, j)
<1>1. w \in Witness /\ Chained(m[FatSect], w) /\ Led(m, w) /\ Ordered(m, w) /\ (j \/ Clean(m, w))
  BY DEF Good
<1>2. /\ u \in Witness /\ Chained(n[FatSect], u) /\ u.own[c] = c
      /\ \A x \in Clus : x # c => u.own[x] = w.own[x] /\ u.idx[x] = w.idx[x]
  BY <1>1, AllocChained
<1>3. w.own[c] = Nobody /\ Nobody \notin Clus /\ c # 0 /\ Nobody # 0
  BY <1>1, Numbers DEF Chained
<1>4. \A s \in Sectors :
        /\ Tab(w, s) # Nobody \/ s < Database \/ Cl(s) # c =>
              Tab(u, s) = Tab(w, s) /\ Num(u, s) = Num(w, s) /\ \A i \in Slots : Pos(u, s, i) = Pos(w, s, i)
        /\ s >= Database /\ Cl(s) = c => Tab(w, s) = Nobody /\ Tab(u, s) = u.own[c]
  BY <1>1, <1>2, <1>3, OutsideIs
<1>5. \A s \in Sectors, i \in Slots : m[s][i].kind \in Used => Tab(w, s) # Nobody /\ Tab(u, s) = Tab(w, s)
  BY <1>1, <1>4 DEF Ordered
<1>6. \A s \in Sectors, i \in Slots : m[s][i].kind = "dir" =>
        u.own[m[s][i].clu] = m[s][i].clu /\ m[s][i].clu # c /\ m[s][i].clu \in Clus
  <2>1. ASSUME NEW s \in Sectors, NEW i \in Slots, m[s][i].kind = "dir"
        PROVE  u.own[m[s][i].clu] = m[s][i].clu /\ m[s][i].clu # c /\ m[s][i].clu \in Clus
    <3>1. m[s][i].clu \in Clus /\ w.own[m[s][i].clu] = m[s][i].clu
      BY <1>1, <2>1 DEF Led
    <3> QED
      BY <1>2, <1>3, <3>1
  <2> QED
    BY <2>1
<1>7. \A s \in Sectors : Tab(w, s) # c
  <2>1. SUFFICES ASSUME NEW s \in Sectors, Tab(w, s) = c PROVE FALSE
    OBVIOUS
  <2>2. s >= Database /\ Cl(s) \in Clus /\ w.own[Cl(s)] = c
    BY <1>1, <1>3, <2>1, TabIs, SectorsAre, Numbers
  <2>3. w.own[c] = c
    BY <1>1, <1>3, <2>2, OwnedIs
  <2> QED
    BY <1>3, <2>3
<1>8. ASSUME NEW s \in Sectors, NEW i \in Slots, NEW r \in Sectors, NEW k \in Slots,
             m[s][i].kind = "end", m[r][k].kind \in Used, Tab(u, r) = Tab(u, s)
      PROVE  Pos(u, r, k) < Pos(u, s, i)
  <2>1. Tab(w, r) # Nobody /\ Tab(u, r) = Tab(w, r) /\ Pos(u, r, k) = Pos(w, r, k)
    BY <1>4, <1>5, <1>8
  <2>2. ~(s >= Database /\ Cl(s) = c)
    BY <1>2, <1>4, <1>7, <1>8, <2>1
  <2>3. s < Database \/ Cl(s) # c
    BY <2>2, SectorsAre, Numbers
  <2>4. Tab(u, s) = Tab(w, s) /\ Pos(u, s, i) = Pos(w, s, i)
    BY <1>4, <2>3
  <2> QED
    BY <1>1, <1>8, <2>1, <2>4 DEF Ordered
<1>9. ASSUME ~j, NEW s \in Sectors, NEW i \in Slots, m[s][i].kind = "junk"
      PROVE  Tab(u, s) # 0 /\ \A r \in Sectors, k \in Slots : ~Leads(m, r, k, Tab(u, s))
  <2>1. CASE s >= Database /\ Cl(s) = c
    BY <1>2, <1>3, <1>4, <1>6, <2>1 DEF Leads
  <2>2. CASE ~(s >= Database /\ Cl(s) = c)
    <3>1. s < Database \/ Cl(s) # c
      BY <2>2, SectorsAre, Numbers
    <3> QED
      BY <1>1, <1>4, <1>9, <3>1 DEF Clean
  <2> QED
    BY <2>1, <2>2
<1>10. j \/ \A s \in Sectors, i \in Slots : m[s][i].kind = "junk" =>
                Tab(u, s) # 0 /\ \A r \in Sectors, k \in Slots : ~Leads(m, r, k, Tab(u, s))
  BY <1>9
<1> QED
  BY <1>2, <1>5, <1>6, <1>8, <1>10, KeptGood


\* The slots of a cluster that is put behind the last one of a table come behind the others.
LEMMA ExtendPos ==
  ASSUME NEW w \in Witness, NEW t \in Clus, NEW c \in Clus, NEW u, u.own[c] = t, u.idx[c] = w.len[t] + 1,
         NEW s \in Area(c), NEW i \in Slots
  PROVE  /\ Tab(u, s) = t /\ Pos(u, s, i) \in Nat
         /\ SpS * Size(w, t) \in Nat /\ SpS * Size(w, t) <= Pos(u, s, i)
<1> DEFINE z == Csize * w.len[t]
           o == s - Clust2Sect(c)
           q == Num(u, s)
<1>1. s \in Sectors /\ s >= Database /\ Cl(s) = c /\ ~(s < Database)
  BY InArea, Numbers
<1>2. Size(w, t) = z /\ w.len[t] \in Nat
  BY Numbers DEF Size, Witness
<1>3. o \in 0 .. Csize - 1
  BY <1>1, AreaOf
<1>4. q = z + o /\ Tab(u, s) = t
  <2>1. q = Csize * (u.idx[c] - 1) + o
    BY <1>1 DEF Num
  <2>2. u.idx[c] - 1 = w.len[t]
    BY <1>2
  <2> QED
    BY <1>1, <2>1, <2>2 DEF Tab
<1>5. Pos(u, s, i) = SpS * q + (i - 1) /\ i \in 1 .. SpS
  BY DEF Pos, Slots
<1>6. z \in Nat
  BY <1>2, Numbers, Times
<1> HIDE DEF z, o, q
<1>7. q \in Nat /\ z <= q
  BY <1>3, <1>4, <1>6, Numbers
<1>8. SpS * z <= SpS * q /\ SpS * z \in Nat /\ SpS * q \in Nat
  BY <1>6, <1>7, Numbers, Times
<1>9. Pos(u, s, i) \in Nat /\ SpS * z <= Pos(u, s, i)
  BY <1>5, <1>8, Numbers
<1> QED
  BY <1>2, <1>4, <1>8, <1>9

\* A table goes on in a free cluster, which holds what was there before.
LEMMA ExtendGood ==
  ASSUME NEW m, NEW n, NEW w, NEW j \in BOOLEAN, Good(m, w, j), m[FatSect] \in Fats, NEW c \in Clus, m[FatSect][c] = 0,
         NEW p \in Clus, NEW t \in Clus, w.own[p] = t, w.idx[p] = w.len[t],
         \A s \in Sectors : n[s] = m[s], n[FatSect] = Taken(m[FatSect], c, p), NEW u, u = Extend(w, t, c)
  PROVE  Good(n, u, TRUE)
<1>1. w \in Witness /\ Chained(m[FatSect], w) /\ Led(m, w) /\ Ordered(m, w)
  BY DEF Good
<1>2. /\ u \in Witness /\ Chained(n[FatSect], u) /\ u.own[c] = t /\ u.idx[c] = w.len[t] + 1 /\ c # t
      /\ \A x \in Clus : x # c => u.own[x] = w.own[x] /\ u.idx[x] = w.idx[x]
  BY <1>1, ExtendChained
<1>3. w.own[c] = Nobody /\ Nobody \notin Clus /\ c # 0 /\ Nobody # 0 /\ t # Nobody /\ t # 0
  BY <1>1, Numbers DEF Chained
<1>3a. w.own[t] = t /\ w.len[t] \in Nat
  BY <1>1, <1>3, OwnedIs
<1>4. \A s \in Sectors :
        /\ Tab(w, s) # Nobody \/ s < Database \/ Cl(s) # c =>
              Tab(u, s) = Tab(w, s) /\ Num(u, s) = Num(w, s) /\ \A i \in Slots : Pos(u, s, i) = Pos(w, s, i)
        /\ s >= Database /\ Cl(s) = c => Tab(w, s) = Nobody /\ Tab(u, s) = u.own[c]
  BY <1>1, <1>2, <1>3, OutsideIs
<1>5. \A s \in Sectors, i \in Slots : m[s][i].kind \in Used => Tab(w, s) # Nobody /\ Tab(u, s) = Tab(w, s)
  BY <1>1, <1>4 DEF Ordered
<1>6. \A s \in Sectors, i \in Slots : m[s][i].kind = "dir" => u.own[m[s][i].clu] = m[s][i].clu
  <2>1. ASSUME NEW s \in Sectors, NEW i \in Slots, m[s][i].kind = "dir"
        PROVE  u.own[m[s][i].clu] = m[s][i].clu
    <3>1. m[s][i].clu \in Clus /\ w.own[m[s][i].clu] = m[s][i].clu
      BY <1>1, <2>1 DEF Led
    <3> QED
      BY <1>2, <1>3, <3>1
  <2> QED
    BY <2>1
<1>8. ASSUME NEW s \in Sectors, NEW i \in Slots, NEW r \in Sectors, NEW k \in Slots,
             m[s][i].kind = "end", m[r][k].kind \in Used, Tab(u, r) = Tab(u, s)
      PROVE  Pos(u, r, k) < Pos(u, s, i)
  <2>1. Tab(w, r) # Nobody /\ Tab(u, r) = Tab(w, r) /\ Pos(u, r, k) = Pos(w, r, k)
    BY <1>4, <1>5, <1>8
  <2>2. CASE s >= Database /\ Cl(s) = c
    <3>1. Tab(w, r) = t /\ Tab(u, s) = t
      BY <1>2, <1>4, <1>8, <2>1, <2>2
    <3>2. Pos(w, r, k) < SpS * Size(w, t) /\ Pos(w, r, k) \in Nat
      BY <1>1, <2>1, <3>1, <1>3, PosIs
    <3>3. s \in Area(c)
      BY <2>2, AreaOf
    <3>4. Pos(u, s, i) \in Nat /\ SpS * Size(w, t) \in Nat /\ SpS * Size(w, t) <= Pos(u, s, i)
      BY <1>1, <1>2, <1>3a, <3>3, ExtendPos
    <3> QED
      BY <2>1, <3>2, <3>4
  <2>3. CASE ~(s >= Database /\ Cl(s) = c)
    <3>1. s < Database \/ Cl(s) # c
      BY <2>3, SectorsAre, Numbers
    <3>2. Tab(u, s) = Tab(w, s) /\ Pos(u, s, i) = Pos(w, s, i)
      BY <1>4, <3>1
    <3> QED
      BY <1>1, <1>8, <2>1, <3>2 DEF Ordered
  <2> QED
    BY <2>2, <2>3
<1>9. ASSUME NEW l \in BOOLEAN, l PROVE Good(n, u, l)
  <2>1. /\ \A s \in Sectors, i \in Slots : m[s][i].kind \in Used => Tab(u, s) = Tab(w, s)
        /\ j => l
        /\ l \/ \A s \in Sectors, i \in Slots : m[s][i].kind = "junk" =>
                Tab(u, s) # 0 /\ \A r \in Sectors, k \in Slots : ~Leads(m, r, k, Tab(u, s))
    BY <1>5, <1>9
  <2> QED
    BY <1>2, <1>6, <1>8, <2>1, KeptGood
<1> QED
  BY <1>9

\* The clusters of a table become free.
Freed(w, t) == [w EXCEPT !.own = [x \in Clus |-> IF w.own[x] = t THEN Nobody ELSE w.own[x]]]

\* The FAT without the chain of that table.
Without(f, w, t) == [x \in Clus |-> IF w.own[x] = t THEN 0 ELSE f[x]]

\* The witness without the chain t.
LEMMA FreedChained ==
  ASSUME NEW f \in Fats, NEW w \in Witness, Chained(f, w), NEW t \in Clus, w.own[t] = t,
         NEW g, g = Without(f, w, t), NEW u, u = Freed(w, t)
  PROVE  /\ u \in Witness /\ Chained(g, u)
         /\ \A x \in Clus : u.own[x] = (IF w.own[x] = t THEN Nobody ELSE w.own[x]) /\ u.idx[x] = w.idx[x]
<1>1. /\ w.own \in [Clus -> Clus \cup {Nobody}] /\ w.idx \in [Clus -> Nat] /\ w.len \in [Clus -> Nat]
      /\ f \in [Clus -> Clus \cup {0, EOC}]
  BY DEF Witness, Fats
<1>2. EOC # 0 /\ EOC \notin Clus /\ Nobody \notin Clus /\ 0 \notin Clus
  BY Numbers
<1>3. /\ u \in Witness /\ u.idx = w.idx /\ u.len = w.len
      /\ \A x \in Clus : u.own[x] = IF w.own[x] = t THEN Nobody ELSE w.own[x]
  BY <1>1 DEF Freed, Witness
<1>4. \A x \in Clus : g[x] = IF w.own[x] = t THEN 0 ELSE f[x]
  BY DEF Without
<1>5. \A x \in Clus : g[x] = 0 <=> u.own[x] = Nobody
  <2>1. \A x \in Clus : f[x] = 0 <=> w.own[x] = Nobody
    BY DEF Chained
  <2> QED
    BY <1>3, <1>4, <2>1
<1>6. ASSUME NEW x \in Clus, g[x] # 0
      PROVE  LET y == u.own[x]
             IN  /\ u.own[y] = y /\ u.idx[y] = 1 /\ u.idx[x] >= 1 /\ u.idx[x] <= u.len[y]
                 /\ IF u.idx[x] < u.len[y]
                    THEN g[x] \in Clus /\ u.own[g[x]] = y /\ u.idx[g[x]] = u.idx[x] + 1
                    ELSE g[x] = EOC
  <2> DEFINE y == w.own[x]
  <2>1. y # t /\ u.own[x] = y /\ g[x] = f[x] /\ y # Nobody
    BY <1>3, <1>4, <1>5, <1>6
  <2> HIDE DEF y
  <2>2. /\ f[x] # 0 /\ y \in Clus /\ w.own[y] = y /\ w.idx[y] = 1 /\ w.idx[x] \in Nat /\ w.idx[x] >= 1 /\ w.len[y] \in Nat /\ w.idx[x] <= w.len[y]
        /\ w.idx[x] < w.len[y] => f[x] \in Clus /\ w.own[f[x]] = y /\ w.idx[f[x]] = w.idx[x] + 1
        /\ ~(w.idx[x] < w.len[y]) => f[x] = EOC
    BY <2>1, OwnedIs DEF y
  <2>3. u.own[y] = y /\ u.idx[y] = 1 /\ u.len[y] = w.len[y] /\ u.idx[x] = w.idx[x]
    BY <1>3, <2>1, <2>2
  <2>4. w.idx[x] < w.len[y] => u.own[f[x]] = y /\ u.idx[f[x]] = w.idx[x] + 1
    BY <1>3, <2>1, <2>2
  <2> QED
    BY <2>1, <2>2, <2>3, <2>4
<1>7. ASSUME NEW x \in Clus, NEW z \in Clus, g[x] # 0, u.own[x] = u.own[z], u.idx[x] = u.idx[z] PROVE x = z
  <2>1. u.own[x] # Nobody /\ f[x] # 0
    BY <1>4, <1>5, <1>7
  <2>2. w.own[x] = w.own[z] /\ w.idx[x] = w.idx[z]
    BY <1>3, <1>7, <2>1
  <2> QED
    BY <2>1, <2>2 DEF Chained
<1>8. ASSUME NEW y \in Clus, u.own[y] = y, NEW k \in 1 .. u.len[y] PROVE \E x \in Clus : u.own[x] = y /\ u.idx[x] = k
  <2>1. w.own[y] = y /\ y # t /\ k \in 1 .. w.len[y]
    BY <1>2, <1>3, <1>8
  <2>2. PICK x \in Clus : w.own[x] = y /\ w.idx[x] = k
    BY <2>1 DEF Chained
  <2> QED
    BY <1>3, <2>1, <2>2
<1>9. Chained(g, u)
  BY <1>5, <1>6, <1>7, <1>8 DEF Chained
<1> QED
  BY <1>3, <1>9

\* The tables are sound when a chain that no entry leads to is freed.
LEMMA FreedGood ==
  ASSUME NEW m, NEW n, NEW w, NEW j \in BOOLEAN, Good(m, w, j), m[FatSect] \in Fats, NEW t \in Clus, w.own[t] = t,
         \A s \in Sectors : n[s] = m[s],
         n[FatSect] = Without(m[FatSect], w, t), NEW u, u = Freed(w, t),
         \A s \in Sectors, i \in Slots : ~Leads(m, s, i, t) /\ (m[s][i].kind \in Used => Tab(w, s) # t)
  PROVE  Good(n, u, j)
<1>1. w \in Witness /\ Chained(m[FatSect], w) /\ Led(m, w) /\ Ordered(m, w) /\ (j \/ Clean(m, w))
  BY DEF Good
<1>2. /\ u \in Witness /\ Chained(n[FatSect], u)
      /\ \A x \in Clus : u.own[x] = (IF w.own[x] = t THEN Nobody ELSE w.own[x]) /\ u.idx[x] = w.idx[x]
  BY <1>1, FreedChained
<1>3. Nobody \notin Clus /\ t # 0 /\ Nobody # 0
  BY Numbers
<1>4. ASSUME NEW s \in Sectors
      PROVE  /\ Tab(u, s) = IF Tab(w, s) = t THEN Nobody ELSE Tab(w, s)
             /\ \A i \in Slots : Pos(u, s, i) = Pos(w, s, i)
  <2>1. CASE s < Database
    <3>1. Tab(u, s) = 0 /\ Tab(w, s) = 0 /\ Num(u, s) = Num(w, s)
      BY <2>1 DEF Tab, Num
    <3> QED
      BY <1>3, <3>1 DEF Pos
  <2>2. CASE s >= Database
    <3>1. Cl(s) \in Clus /\ Tab(w, s) = w.own[Cl(s)] /\ Tab(u, s) = u.own[Cl(s)]
      BY <1>1, <1>2, <2>2, TabIs
    <3>2. Num(u, s) = Num(w, s)
      BY <1>2, <3>1 DEF Num
    <3> QED
      BY <1>2, <3>1, <3>2 DEF Pos
  <2> QED
    BY <2>1, <2>2, SectorsAre, Numbers
<1>5. \A s \in Sectors, i \in Slots : m[s][i].kind \in Used => Tab(w, s) # Nobody /\ Tab(u, s) = Tab(w, s)
  BY <1>1, <1>4 DEF Ordered
<1>6. \A s \in Sectors, i \in Slots : m[s][i].kind = "dir" => u.own[m[s][i].clu] = m[s][i].clu /\ m[s][i].clu \in Clus
  BY <1>1, <1>2 DEF Led, Leads
<1>8. ASSUME NEW s \in Sectors, NEW i \in Slots, NEW r \in Sectors, NEW k \in Slots,
             m[s][i].kind = "end", m[r][k].kind \in Used, Tab(u, r) = Tab(u, s)
      PROVE  Pos(u, r, k) < Pos(u, s, i)
  <2>1. Tab(w, r) # Nobody /\ Tab(u, r) = Tab(w, r)
    BY <1>5, <1>8
  <2>2. Tab(w, s) = Tab(w, r)
    BY <1>4, <1>8, <2>1
  <2>3. Pos(w, r, k) < Pos(w, s, i)
    BY <1>1, <1>8, <2>2 DEF Ordered
  <2> QED
    BY <1>4, <2>3
<1>9. ASSUME ~j, NEW s \in Sectors, NEW i \in Slots, m[s][i].kind = "junk"
      PROVE  Tab(u, s) # 0 /\ \A r \in Sectors, k \in Slots : ~Leads(m, r, k, Tab(u, s))
  <2>1. Tab(w, s) # 0 /\ \A r \in Sectors, k \in Slots : ~Leads(m, r, k, Tab(w, s))
    BY <1>1, <1>9 DEF Clean
  <2>2. \A r \in Sectors, k \in Slots : ~Leads(m, r, k, Nobody)
    BY <1>3, <1>6 DEF Leads
  <2> QED
    BY <1>3, <1>4, <2>1, <2>2
<1>10. j \/ \A s \in Sectors, i \in Slots : m[s][i].kind = "junk" =>
                Tab(u, s) # 0 /\ \A r \in Sectors, k \in Slots : ~Leads(m, r, k, Tab(u, s))
  BY <1>9
<1>11. /\ \A s \in Sectors, i \in Slots : m[s][i].kind \in Used => Tab(u, s) = Tab(w, s)
       /\ \A s \in Sectors, i \in Slots : m[s][i].kind = "dir" => u.own[m[s][i].clu] = m[s][i].clu
       /\ j => j
  BY <1>5, <1>6
<1> QED
  BY <1>2, <1>8, <1>10, <1>11, KeptGood


-----------------------------------------------------------------------------
(* Writing through the window.                                             *)

\* What is sound is sound when a table may end in junk.
LEMMA MoreGood ==
  ASSUME NEW m, NEW w, NEW j \in BOOLEAN, NEW l \in BOOLEAN, j => l, Good(m, w, j)
  PROVE  Good(m, w, l)
BY DEF Good

\* The window was written: x after v.  The card is still sound.
Wrote(v, x, j) ==
  /\ x \in Vols /\ WinFits(x.win, x.card) /\ Calm(x) /\ Sane(x.card, j) /\ IsMem(Seen(x))
  /\ x.power = v.power /\ x.torn = v.torn

\* The volume is sound when what is seen is.
LEMMA WroteVol ==
  ASSUME NEW v, NEW x, NEW j \in BOOLEAN, NEW l \in BOOLEAN, j => l, Wrote(v, x, j), NEW w, Good(Seen(x), w, l)
  PROVE  Vol(x, l)
<1>1. Sane(x.card, l)
  BY MoreGood DEF Wrote, Sane
<1> QED
  BY <1>1 DEF Wrote, Vol, Sane

\* A volume that was only read may count as written.
LEMMA ReadsWrote ==
  ASSUME NEW v, NEW x, NEW j, Reads(v, x, j)
  PROVE  Wrote(v, x, j)
BY DEF Reads, Wrote, Vol, Sane

\* Sectors are what they are.
LEMMA MemIs ==
  ASSUME NEW m, m \in Mems, m[FatSect] \in Fats, \A s \in Sectors : m[s] \in Blocks
  PROVE  IsMem(m)
BY DEF IsMem, Mems

\* A window is stored.
PutWin(v, y) == [v EXCEPT !.win = y]

\* The content of the window is replaced, when it is clean for another sector.
LEMMA PutIs ==
  ASSUME NEW v, NEW j, Vol(v, j), NEW y \in Wins, y.dirty, y.at \in Sectors \cup {FatSect}, v.win.at = y.at \/ ~v.win.dirty,
         y.at = FatSect => y.data \in Fats, y.at \in Sectors => y.data \in Blocks, NEW x, x = PutWin(v, y)
  PROVE  /\ Wrote(v, x, j) /\ Seen(x)[y.at] = y.data
         /\ \A r \in Sectors \cup {FatSect} : r # y.at => Seen(x)[r] = Seen(v)[r]
         /\ x.dp = v.dp /\ x.val = v.val /\ x.res = v.res
         /\ x.win = y
<1>1. v \in Vols /\ WinFits(v.win, v.card) /\ Calm(v) /\ Sane(v.card, j)
  BY VolIs
<1> DEFINE s == y.at
           d == y.data
<1>2. /\ y \in Wins /\ y.at = s /\ y.data = d /\ y.dirty = TRUE /\ s \in Sectors \cup {FatSect}
      /\ (s = FatSect => d \in Fats) /\ (s \in Sectors => d \in Blocks) /\ (v.win.at = s \/ ~v.win.dirty)
  OBVIOUS
<1> HIDE DEF s, d
<1>3. /\ x \in Vols /\ x.card = v.card /\ x.win = y /\ x.left = v.left /\ x.hit = v.hit /\ x.power = v.power
      /\ x.res = v.res /\ x.val = v.val /\ x.dp = v.dp /\ x.torn = v.torn
  BY <1>1, <1>2 DEF Vols, PutWin
<1>6. s # NoSect /\ NoSect \notin Sectors \cup {FatSect} /\ FatSect \notin Sectors
  BY <1>2, SectorsAre, Numbers
<1>4. WinFits(y, v.card) /\ WinFits(x.win, x.card)
  <2>1. WinFits(y, v.card)
    BY <1>2, <1>6 DEF WinFits
  <2> QED
    BY <1>3, <2>1
<1>5. Calm(x)
  BY <1>1, <1>3 DEF Calm
<1>7. Seen(x)[s] = d /\ Seen(x) \in Mems /\ \A r \in Sectors \cup {FatSect} : r # s => Seen(x)[r] = v.card[r]
  <2>1. x.win.at = s /\ x.win.data = d
    BY <1>2, <1>3
  <2>2. /\ x.win.at # NoSect => Seen(x)[x.win.at] = x.win.data
        /\ \A r \in Sectors \cup {FatSect} : r # x.win.at => Seen(x)[r] = x.card[r]
        /\ Seen(x) \in Mems
    BY <1>3, <1>4, SeenIs
  <2> QED
    BY <1>3, <1>6, <2>1, <2>2
<1>8. \A r \in Sectors \cup {FatSect} : r # s => Seen(v)[r] = v.card[r]
  <2>1. CASE v.win.at = s
    BY <1>1, <2>1, SeenIs
  <2>2. CASE ~v.win.dirty
    BY <1>1, <2>2, SeenIs
  <2> QED
    BY <1>2, <2>1, <2>2
<1>9. Seen(x)[FatSect] \in Fats /\ \A r \in Sectors : Seen(x)[r] \in Blocks
  BY <1>2, <1>7, VolIs
<1>10. IsMem(Seen(x))
  BY <1>7, <1>9, MemIs
<1> QED
  BY <1>1, <1>2, <1>3, <1>4, <1>5, <1>7, <1>8, <1>10 DEF Wrote, s, d

\* An item of the window is replaced.
LEMMA WinPut ==
  ASSUME NEW a \in Wins, NEW i, NEW y, [a.data EXCEPT ![i] = y] \in Fats \cup Blocks, NEW b, b = [a EXCEPT !.data[i] = y, !.dirty = TRUE]
  PROVE  b \in Wins /\ b.at = a.at /\ b.data = [a.data EXCEPT ![i] = y] /\ b.dirty = TRUE
<1> DEFINE d == [a.data EXCEPT ![i] = y]
<1>1. b = [a EXCEPT !.data = d, !.dirty = TRUE]
  OBVIOUS
<1> HIDE DEF d
<1>2. b \in Wins /\ b.at = a.at /\ b.data = d /\ b.dirty = TRUE
  BY <1>1 DEF Wins, d
<1> QED
  BY <1>2 DEF d

\* A slot is put in its place.
LEMMA PutSlotIs ==
  ASSUME NEW v, NEW j, Vol(v, j), Standing(v), NEW y \in SlotSet
  PROVE  LET x == PutSlot(v, y)
         IN  /\ Wrote(v, x, j) /\ x.dp = v.dp /\ x.res = v.res
             /\ Changed(Seen(v), Seen(x), v.dp.sect, Index(v), y)
<1> DEFINE x == PutSlot(v, y)
           i == Index(v)
           s == v.dp.sect
           b == v.win.data
           d == [b EXCEPT ![i] = y]
<1>1. i \in Slots /\ b \in Blocks /\ Seen(v)[s] = b /\ s \in Sectors /\ v.win.at = s
  BY CurIs DEF Standing
<1>2. v \in Vols /\ v.win \in Wins
  BY VolIs, Fields
<1> DEFINE z == [v.win EXCEPT !.data[i] = y, !.dirty = TRUE]
<1>4. d \in Blocks /\ d[i] = y /\ \A k \in Slots : k # i => d[k] = b[k]
  <2> HIDE DEF i, b
  <2> QED
    BY <1>1 DEF Blocks
<1>3. z \in Wins /\ z.at = s /\ z.data = d /\ z.dirty = TRUE
  <2>1. d \in Fats \cup Blocks /\ d = [v.win.data EXCEPT ![i] = y]
    BY <1>4
  <2>2. z \in Wins /\ z.at = v.win.at /\ z.data = [v.win.data EXCEPT ![i] = y] /\ z.dirty = TRUE
    <3> HIDE DEF i
    <3> QED
      BY <1>2, <2>1, WinPut
  <2> HIDE DEF z, d
  <2> QED
    BY <1>1, <2>1, <2>2
<1>3a. x = PutWin(v, z)
  <2>1. x = [v EXCEPT !.win.data[i] = y, !.win.dirty = TRUE]
    BY DEF PutSlot
  <2> HIDE DEF i, x
  <2> QED
    BY <1>2, <2>1 DEF Vols, PutWin
<1>5. FatSect \notin Sectors /\ FatSect # s /\ s \in Sectors \cup {FatSect}
  BY <1>1, SectorsAre
<1>5a. (s = FatSect => d \in Fats) /\ (s \in Sectors => d \in Blocks) /\ (v.win.at = s \/ ~v.win.dirty)
  BY <1>1, <1>4, <1>5
<1> HIDE DEF x, d, i, s, z
<1>6. /\ Wrote(v, x, j) /\ Seen(x)[s] = d
      /\ \A r \in Sectors \cup {FatSect} : r # s => Seen(x)[r] = Seen(v)[r]
      /\ x.dp = v.dp /\ x.res = v.res
  <2>0. /\ z \in Wins /\ z.dirty /\ z.at \in Sectors \cup {FatSect} /\ (v.win.at = z.at \/ ~v.win.dirty)
        /\ (z.at = FatSect => z.data \in Fats) /\ (z.at \in Sectors => z.data \in Blocks)
    BY <1>3, <1>5, <1>5a
  <2>1. /\ Wrote(v, x, j) /\ Seen(x)[z.at] = z.data
        /\ \A r \in Sectors \cup {FatSect} : r # z.at => Seen(x)[r] = Seen(v)[r]
        /\ x.dp = v.dp /\ x.res = v.res
    BY <1>3a, <2>0, PutIs
  <2> QED
    BY <1>3, <2>1
<1>7. Changed(Seen(v), Seen(x), s, i, y)
  BY <1>1, <1>4, <1>5, <1>6 DEF Changed
<1> QED
  BY <1>6, <1>7 DEF x, i, s


-----------------------------------------------------------------------------
(* Clusters are taken and freed.                                           *)

\* An entry of the FAT is written in the window.
LEMMA PutFatIs ==
  ASSUME NEW g \in Vols, g.win.data \in Fats, NEW c \in Clus, NEW n \in Clus \cup {0, EOC}
  PROVE  \E z \in Wins : /\ PutFat(g, c, n) = PutWin(g, z) /\ PutFat(g, c, n) \in Vols
                         /\ z.at = g.win.at /\ z.data = [g.win.data EXCEPT ![c] = n] /\ z.data \in Fats /\ z.dirty
                         /\ PutFat(g, c, n).win = z
                         /\ \A y \in Wins : PutWin(PutFat(g, c, n), y) = PutWin(g, y)
<1> DEFINE d == [g.win.data EXCEPT ![c] = n]
           z == [g.win EXCEPT !.data[c] = n, !.dirty = TRUE]
           x == PutFat(g, c, n)
<1>1. g.win \in Wins
  BY Fields
<1>2. d \in Fats
  BY DEF Fats
<1>3. z \in Wins /\ z.at = g.win.at /\ z.data = d /\ z.dirty = TRUE
  <2>1. [g.win.data EXCEPT ![c] = n] \in Fats \cup Blocks
    BY <1>2
  <2> QED
    BY <1>1, <2>1, WinPut
<1>4. x = [g EXCEPT !.win = z]
  <2>1. x = [g EXCEPT !.win.data[c] = n, !.win.dirty = TRUE]
    BY DEF PutFat
  <2> HIDE DEF x
  <2> QED
    BY <2>1 DEF Vols
<1> HIDE DEF z, d, x
<1>5. x \in Vols /\ x.win = z /\ \A y \in Wins : PutWin(x, y) = PutWin(g, y)
  BY <1>3, <1>4 DEF Vols, PutWin
<1>6. z \in Wins /\ x = PutWin(g, z)
  BY <1>3, <1>4 DEF PutWin
<1> QED
  BY <1>2, <1>3, <1>5, <1>6 DEF d, x

\* There is a lowest free cluster, unless none is free.
LEMMA LowestFree ==
  ASSUME NEW S, S \subseteq Clus, S # {}
  PROVE  (CHOOSE x \in S : \A y \in S : x <= y) \in S
<1>1. S \subseteq Nat
  BY Numbers
<1>2. \E n \in S : \A m \in S : n <= m
  BY <1>1, LeastMember
<1> QED
  BY <1>2

\* A cluster is taken and written in the FAT, or nothing has changed.
LEMMA AllocateIs ==
  ASSUME NEW v, NEW g, NEW j, Reads(v, g, j), g.res = "OK", g.win.at = FatSect, g.win.data = Seen(v)[FatSect],
         NEW c \in Clus \cup {0}, c # 0 => g.val = EOC
  PROVE  LET a == Allocate(g, c)
             f == Seen(v)[FatSect]
         IN  /\ a.dp = g.dp /\ a.res = "OK"
             /\ \/ a.val = 0 /\ Reads(v, a, j)
                \/ /\ Wrote(v, a, j) /\ a.val \in Clus /\ f[a.val] = 0
                   /\ \A s \in Sectors : Seen(a)[s] = Seen(v)[s]
                   /\ Seen(a)[FatSect] = Taken(f, a.val, c)
<1> DEFINE a == Allocate(g, c)
           f == Seen(v)[FatSect]
           free == {x \in Clus : g.win.data[x] = 0}
           new == CHOOSE x \in free : \A y \in free : x <= y
           marked == PutFat(g, new, EOC)
           b == IF c = 0 THEN marked ELSE PutFat(marked, c, new)
<1>1. Vol(g, j) /\ g \in Vols /\ f \in Fats /\ Seen(g) = Seen(v) /\ g.power = v.power /\ g.torn = v.torn
  BY VolIs DEF Reads
<1>2. EOC \notin Clus /\ EOC \in Nat /\ ~(EOC < 2) /\ 0 \in Int
  BY Numbers DEF EOC
<1>3. a = IF free = {} THEN [g EXCEPT !.val = 0] ELSE [b EXCEPT !.val = new]
  BY <1>2 DEF Allocate, Ok
<1>4. CASE free = {}
  <2>1. a = [g EXCEPT !.val = 0]
    BY <1>3, <1>4
  <2> HIDE DEF a
  <2>2. a \in Vols /\ a.val = 0 /\ Alike(g, a) /\ a.torn = g.torn /\ a.res = g.res /\ a.dp = g.dp
    BY <1>1, <1>2, <2>1, StoreIs, StoreAlike, ZenonT(60)
  <2>3. Reads(g, a, j)
    BY <1>1, <2>2, AlikeVol
  <2>4. Reads(v, a, j)
    BY <2>3, ReadsAfter
  <2> QED
    BY <2>2, <2>4 DEF a
<1>5. CASE free # {}
  <2>1. a = [b EXCEPT !.val = new]
    BY <1>3, <1>5
  <2>2. new \in Clus /\ f[new] = 0
    <3>1. free \subseteq Clus
      OBVIOUS
    <3> HIDE DEF free
    <3>2. new \in free
      BY <1>5, <3>1, LowestFree
    <3> HIDE DEF new
    <3> QED
      BY <3>2 DEF free
  <2> HIDE DEF new
  <2>2a. g.win.data \in Fats /\ EOC \in Clus \cup {0, EOC}
    BY <1>1
  <2>3. PICK z \in Wins : /\ marked = PutWin(g, z) /\ marked \in Vols
                          /\ z.at = g.win.at /\ z.data = [g.win.data EXCEPT ![new] = EOC] /\ z.data \in Fats /\ z.dirty
                          /\ marked.win = z
                          /\ \A y \in Wins : PutWin(marked, y) = PutWin(g, y)
    BY <1>1, <2>2, <2>2a, PutFatIs
  <2> HIDE DEF marked
  <2>4. \E y \in Wins : b = PutWin(g, y) /\ y.at = FatSect /\ y.data = Taken(f, new, c) /\ y.data \in Fats /\ y.dirty
    <3>1. CASE c = 0
      <4>1. b = PutWin(g, z) /\ z.data = Taken(f, new, c)
        BY <2>3, <3>1 DEF Taken
      <4> QED
        BY <2>3, <4>1
    <3>2. CASE c # 0
      <4>1. c \in Clus /\ new \in Clus \cup {0, EOC}
        BY <2>2, <3>2
      <4>1a. marked \in Vols /\ marked.win.data \in Fats
        BY <2>3
      <4>2. PICK y \in Wins : /\ PutFat(marked, c, new) = PutWin(marked, y)
                              /\ y.at = marked.win.at /\ y.data = [marked.win.data EXCEPT ![c] = new] /\ y.data \in Fats /\ y.dirty
        BY <4>1, <4>1a, PutFatIs
      <4>3. b = PutWin(g, y)
        BY <2>3, <3>2, <4>2
      <4>4. y.data = Taken(f, new, c)
        BY <2>3, <3>2, <4>2 DEF Taken
      <4>5. y.at = FatSect
        BY <2>3, <4>2
      <4> QED
        BY <4>2, <4>3, <4>4, <4>5
    <3> QED
      BY <3>1, <3>2
  <2> HIDE DEF b
  <2>5. PICK y \in Wins : b = PutWin(g, y) /\ y.at = FatSect /\ y.data = Taken(f, new, c) /\ y.data \in Fats /\ y.dirty
    BY <2>4
  <2>6. /\ y.at \in Sectors \cup {FatSect} /\ (y.at = FatSect => y.data \in Fats) /\ (y.at \in Sectors => y.data \in Blocks)
        /\ (g.win.at = y.at \/ ~g.win.dirty)
    BY <2>5, SectorsAre
  <2>7. /\ Wrote(g, b, j) /\ Seen(b)[y.at] = y.data
        /\ \A r \in Sectors \cup {FatSect} : r # y.at => Seen(b)[r] = Seen(g)[r]
        /\ b.dp = g.dp /\ b.res = g.res
    BY <1>1, <2>5, <2>6, PutIs
  <2>8. b \in Vols /\ new \in Int \cup SlotSet
    <3>1. new \in Int
      BY <2>2, Numbers
    <3> QED
      BY <2>7, <3>1 DEF Wrote
  <2> HIDE DEF a
  <2>9. a \in Vols /\ a.val = new /\ Alike(b, a) /\ a.torn = b.torn /\ a.res = b.res /\ a.dp = b.dp
    BY <2>1, <2>8, StoreIs, StoreAlike
  <2>10. Seen(a) = Seen(b) /\ Calm(b) => Calm(a)
    BY <2>9 DEF Seen, Alike, Calm
  <2>11. Seen(a) = Seen(b)
    BY <2>9 DEF Seen, Alike
  <2>12. Wrote(v, a, j)
    BY <1>1, <2>7, <2>9, <2>10, <2>11 DEF Wrote, Alike
  <2>13. \A s \in Sectors : Seen(a)[s] = Seen(v)[s]
    BY <1>1, <2>5, <2>7, <2>11, SectorsAre
  <2>14. Seen(a)[FatSect] = Taken(f, new, c)
    BY <2>5, <2>7, <2>11
  <2> QED
    BY <2>2, <2>7, <2>9, <2>12, <2>13, <2>14 DEF a
<1> QED
  BY <1>4, <1>5

\* A cluster is taken, or an error says why not.
LEMMA NewClusterIs ==
  ASSUME NEW v, NEW j, Vol(v, j), Ok(v), NEW c \in Clus \cup {0}, c # 0 => Seen(v)[FatSect][c] = EOC
  PROVE  LET x == NewCluster(v, c)
             f == Seen(v)[FatSect]
         IN  /\ x.dp = v.dp
             /\ \/ x.res \in {"DENIED", "DISK_ERR"} /\ Reads(v, x, j) /\ x.val \notin Clus
                \/ /\ x.res = "OK" /\ Wrote(v, x, j) /\ x.val \in Clus /\ f[x.val] = 0
                   /\ \A s \in Sectors : Seen(x)[s] = Seen(v)[s]
                   /\ Seen(x)[FatSect] = Taken(f, x.val, c)
<1> DEFINE x == NewCluster(v, c)
           f == Seen(v)[FatSect]
           g == IF c = 0 THEN MoveWindow(v, FatSect) ELSE GetFat(v, c)
           a == Allocate(g, c)
<1>1. x = Checked(a)
  BY DEF NewCluster, CreateChain
<1>2. /\ Reads(v, g, j) /\ g.dp = v.dp
      /\ \/ g.res = "OK" /\ g.win.at = FatSect /\ g.win.data = f /\ (c # 0 => g.val = EOC)
         \/ g.res = "DISK_ERR"
  <2>1. CASE c = 0
    <3>1. FatSect \in Nat
      BY Numbers
    <3> QED
      BY <2>1, <3>1, MoveWindowIs
  <2>2. CASE c # 0
    <3>1. c \in Clus
      BY <2>2
    <3> QED
      BY <2>2, <3>1, GetFatIs
  <2> QED
    BY <2>1, <2>2
<1> HIDE DEF g
<1>3. DiskErr # 0 /\ DiskErr # 1 /\ DiskErr \notin Clus /\ 0 \notin Clus /\ 1 \notin Clus /\ DiskErr \in Int
  BY Numbers
<1>4. \A n \in Clus : ClusterError(n) = "OK"
  BY <1>3 DEF ClusterError
<1>5. ClusterError(0) = "DENIED" /\ ClusterError(DiskErr) = "DISK_ERR"
  BY <1>3 DEF ClusterError
<1>6. {"DENIED", "DISK_ERR"} \subseteq Results
  BY DEF Results
<1>7. ASSUME Reads(v, a, j), a.dp = v.dp, NEW n, a.val = n, n \notin Clus, ClusterError(n) \in {"DENIED", "DISK_ERR"}
      PROVE  x.dp = v.dp /\ x.res \in {"DENIED", "DISK_ERR"} /\ Reads(v, x, j) /\ x.val \notin Clus
  <2> DEFINE r == ClusterError(n)
  <2>1. x = Fail(a, r)
    BY <1>1, <1>7 DEF Checked
  <2>2. a \in Vols /\ Vol(a, j)
    BY <1>7, VolIs DEF Reads
  <2>3. r \in Results /\ r \in {"DENIED", "DISK_ERR"}
    BY <1>6, <1>7
  <2> HIDE DEF x, a, r
  <2>4. x \in Vols /\ x.res = r /\ Alike(a, x) /\ x.torn = a.torn /\ x.dp = a.dp /\ x.val = a.val
    BY <2>1, <2>2, <2>3, StoreIs, StoreAlike
  <2>5. Reads(a, x, j)
    BY <2>2, <2>4, AlikeVol
  <2>6. Reads(v, x, j)
    BY <1>7, <2>5, ReadsAfter
  <2>7. x.dp = v.dp /\ x.res \in {"DENIED", "DISK_ERR"} /\ x.val \notin Clus
    BY <1>7, <2>3, <2>4
  <2> QED
    BY <2>6, <2>7
<1>8. CASE g.res = "DISK_ERR"
  <2>1. a = [g EXCEPT !.val = DiskErr]
    BY <1>8 DEF Allocate, Ok
  <2> HIDE DEF a
  <2>2. Vol(g, j) /\ g \in Vols
    BY <1>2, VolIs DEF Reads
  <2>3. a \in Vols /\ a.val = DiskErr /\ Alike(g, a) /\ a.torn = g.torn /\ a.dp = g.dp
    BY <1>3, <2>1, <2>2, StoreIs, StoreAlike
  <2>4. Reads(g, a, j)
    BY <2>2, <2>3, AlikeVol
  <2>5. Reads(v, a, j) /\ a.dp = v.dp
    BY <1>2, <2>3, <2>4, ReadsAfter
  <2> HIDE DEF x
  <2>6. x.dp = v.dp /\ x.res \in {"DENIED", "DISK_ERR"} /\ Reads(v, x, j) /\ x.val \notin Clus
    BY <1>3, <1>5, <1>7, <2>3, <2>5
  <2> QED
    BY <2>6 DEF x
<1>9. CASE g.res = "OK"
  <2>1. /\ a.dp = g.dp /\ a.res = "OK"
        /\ \/ a.val = 0 /\ Reads(v, a, j)
           \/ /\ Wrote(v, a, j) /\ a.val \in Clus /\ f[a.val] = 0
              /\ \A s \in Sectors : Seen(a)[s] = Seen(v)[s]
              /\ Seen(a)[FatSect] = Taken(f, a.val, c)
    BY <1>2, <1>9, AllocateIs
  <2> HIDE DEF a, f
  <2>2. CASE a.val = 0 /\ Reads(v, a, j)
    <3> HIDE DEF x
    <3>1. x.dp = v.dp /\ x.res \in {"DENIED", "DISK_ERR"} /\ Reads(v, x, j) /\ x.val \notin Clus
      BY <1>2, <1>3, <1>5, <1>7, <2>1, <2>2
    <3> QED
      BY <3>1 DEF x
  <2>3. CASE a.val \in Clus
    <3>1. x = a
      BY <1>1, <1>4, <2>3 DEF Checked
    <3>2. ~(a.val = 0)
      BY <1>3, <2>3
    <3> QED
      BY <1>2, <2>1, <3>1, <3>2 DEF f
  <2> QED
    BY <2>1, <2>2, <2>3
<1> QED
  BY <1>2, <1>8, <1>9


\* The slots of a sector that was never used.
LEMMA BlankIs ==
  /\ End \in SlotSet /\ Del \in SlotSet /\ Blank \in Blocks
  /\ End.kind = "end" /\ Del.kind = "del" /\ End.clu = 0 /\ Del.clu = 0
  /\ \A i \in Slots : Blank[i] = End
<1>1. "end" \in Kinds /\ "del" \in Kinds /\ "" \in NameSet /\ 0 \in Nat
  BY DEF Kinds, NameSet
<1>2. End \in SlotSet /\ Del \in SlotSet /\ End.kind = "end" /\ Del.kind = "del" /\ End.clu = 0 /\ Del.clu = 0
  BY <1>1 DEF End, Del, Slot, SlotSet
<1> QED
  BY <1>2 DEF Blank, Blocks

\* A table is filled sector by sector.
Filled(p, c, n, first) ==
  [p EXCEPT !.win = [at |-> Clust2Sect(c) + n - 1, dirty |-> TRUE, data |-> IF n = 1 THEN first ELSE Blank]]

\* write_table, sector by sector.
LEMMA WriteFollows ==
  ASSUME NEW v, NEW c, NEW first
  PROVE  \E at : /\ at[0] = v /\ WriteTable(v, c, first) = at[Csize]
                 /\ \A n \in 1 .. Csize : at[n] = IF Ok(at[n - 1]) THEN SyncWindow(Filled(at[n - 1], c, n, first)) ELSE at[n - 1]
<1> DEFINE F(p, n) == IF Ok(p) THEN SyncWindow(Filled(p, c, n, first)) ELSE p
           Upto(g, k) == g = [n \in 0 .. k |-> IF n = 0 THEN v ELSE F(g[n - 1], n)]
           S == {k \in 0 .. Csize : \E g : Upto(g, k)}
<1>0. Csize \in Nat
  BY Numbers
<1>1. 0 \in S
  <2> DEFINE g == [n \in 0 .. 0 |-> v]
  <2>1. Upto(g, 0)
    <3> HIDE DEF F
    <3> QED
      OBVIOUS
  <2> HIDE DEF Upto
  <2> QED
    BY <1>0, <2>1
<1>2. ASSUME NEW k \in 1 .. Csize, k - 1 \in S PROVE k \in S
  <2>1. PICK g : Upto(g, k - 1)
    BY <1>2
  <2> DEFINE h == [n \in 0 .. k |-> IF n = k THEN F(g[k - 1], k) ELSE g[n]]
  <2> HIDE DEF F
  <2>2. \A n \in 0 .. k - 1 : g[n] = IF n = 0 THEN v ELSE F(g[n - 1], n)
    BY <2>1
  <2>3. \A n \in 0 .. k : h[n] = IF n = 0 THEN v ELSE F(h[n - 1], n)
    <3>1. SUFFICES ASSUME NEW n \in 0 .. k PROVE h[n] = IF n = 0 THEN v ELSE F(h[n - 1], n)
      OBVIOUS
    <3>2. CASE n = k
      BY <1>0, <3>2
    <3>3. CASE n # k
      BY <1>0, <2>2, <3>3
    <3> QED
      BY <3>2, <3>3
  <2>4. h = [n \in 0 .. k |-> h[n]]
    OBVIOUS
  <2> HIDE DEF h
  <2>5. Upto(h, k)
    BY <2>3, <2>4
  <2> HIDE DEF Upto
  <2> QED
    BY <2>5
<1> HIDE DEF S
<1>3. Csize \in S
  BY <1>0, <1>1, <1>2, UpTo
<1>4. PICK g : Upto(g, Csize)
  BY <1>3 DEF S
<1> DEFINE at == CHOOSE h : h = [n \in 0 .. Csize |-> IF n = 0 THEN v
                                  ELSE Then(h[n - 1],
                  LAMBDA w : SyncWindow([w EXCEPT !.win = [at |-> Clust2Sect(c) + n - 1, dirty |-> TRUE,
                                                           data |-> IF n = 1 THEN first ELSE Blank]]))]
<1>5. g = [n \in 0 .. Csize |-> IF n = 0 THEN v
                                  ELSE Then(g[n - 1],
                  LAMBDA w : SyncWindow([w EXCEPT !.win = [at |-> Clust2Sect(c) + n - 1, dirty |-> TRUE,
                                                           data |-> IF n = 1 THEN first ELSE Blank]]))]
  BY <1>4 DEF Then, Filled
<1>6. at = [n \in 0 .. Csize |-> IF n = 0 THEN v
                                  ELSE Then(at[n - 1],
                  LAMBDA w : SyncWindow([w EXCEPT !.win = [at |-> Clust2Sect(c) + n - 1, dirty |-> TRUE,
                                                           data |-> IF n = 1 THEN first ELSE Blank]]))]
  BY <1>5 DEF Then
<1>7. WriteTable(v, c, first) = at[Csize]
  BY DEF WriteTable, Then
<1>8. at = [n \in 0 .. Csize |-> IF n = 0 THEN v ELSE F(at[n - 1], n)]
  BY <1>6 DEF Then, Filled
<1> HIDE DEF at, F
<1>9. \A n \in 0 .. Csize : at[n] = IF n = 0 THEN v ELSE F(at[n - 1], n)
  BY <1>8
<1>10. at[0] = v /\ \A n \in 1 .. Csize : at[n] = F(at[n - 1], n)
  BY <1>0, <1>9
<1> QED
  BY <1>7, <1>10 DEF F

\* The cluster c of the witness may be filled with slots: nothing in it is used,
\* no entry leads to it, and it comes behind what is used in its table.
MayFill(m, w, c) ==
  /\ \A s \in Area(c), i \in Slots : m[s][i].kind \notin Used
  /\ \A r \in Sectors, k \in Slots : m[r][k].kind = "dir" => m[r][k].clu # c
  /\ \A s \in Area(c), i \in Slots, r \in Sectors, k \in Slots :
       m[r][k].kind \in Used /\ Tab(w, r) = Tab(w, s) => Pos(w, r, k) < Pos(w, s, i)
\* A block of a new table.
Fresh(b) == b \in Blocks /\ \A i \in Slots : b[i].kind \notin Used /\ b[i].kind # "junk"

\* The first n sectors of the cluster are filled: x after v.
Filling(v, x, j, w, c, first, n) ==
  /\ Vol(x, j) /\ Good(Seen(x), w, j) /\ x.power = v.power /\ x.torn = v.torn /\ x.dp = v.dp /\ x.val = v.val
  /\ Seen(x)[FatSect] = Seen(v)[FatSect]
  /\ \A s \in Sectors : s \notin Area(c) => Seen(x)[s] = Seen(v)[s]
  /\ MayFill(Seen(x), w, c)
  /\ \/ /\ x.res = "OK" /\ ~x.win.dirty /\ (n = 0 \/ x.win.at \in Area(c))
        /\ \A s \in Area(c) : s < Clust2Sect(c) + n => Seen(x)[s] = IF s = Clust2Sect(c) THEN first ELSE Blank
     \/ x.res = "DISK_ERR"

\* One sector more.
LEMMA FillOne ==
  ASSUME NEW v, NEW j \in BOOLEAN, NEW w, NEW c \in Clus, NEW first, Fresh(first), NEW n \in 1 .. Csize,
         NEW p, Filling(v, p, j, w, c, first, n - 1), Ok(p)
  PROVE  Filling(v, SyncWindow(Filled(p, c, n, first)), j, w, c, first, n)
<1> DEFINE s == Clust2Sect(c) + n - 1
           d == IF n = 1 THEN first ELSE Blank
           y == [at |-> s, dirty |-> TRUE, data |-> d]
           q == Filled(p, c, n, first)
           x == SyncWindow(q)
<1>1. /\ Vol(p, j) /\ Good(Seen(p), w, j) /\ p.power = v.power /\ p.torn = v.torn /\ p.dp = v.dp /\ p.val = v.val
      /\ Seen(p)[FatSect] = Seen(v)[FatSect]
      /\ \A r \in Sectors : r \notin Area(c) => Seen(p)[r] = Seen(v)[r]
      /\ MayFill(Seen(p), w, c) /\ p.res = "OK" /\ ~p.win.dirty
      /\ \A r \in Area(c) : r < Clust2Sect(c) + (n - 1) => Seen(p)[r] = IF r = Clust2Sect(c) THEN first ELSE Blank
  BY DEF Filling, Ok
<1>2. s \in Area(c) /\ s \in Sectors /\ (n = 1 <=> s = Clust2Sect(c)) /\ Cl(s) = c /\ s \in Nat /\ s = Clust2Sect(c) + (n - 1) /\ Clust2Sect(c) \in Nat
  <2>1. Clust2Sect(c) \in Nat /\ Csize \in Nat
    BY Area0, Numbers
  <2>2. s \in Area(c)
    BY <2>1 DEF Area
  <2> HIDE DEF s
  <2>3. s \in Sectors /\ Cl(s) = c /\ s \in Nat
    BY <2>2, InArea
  <2> QED
    BY <2>1, <2>2, <2>3 DEF s
<1>3. d \in Blocks /\ \A i \in Slots : d[i].kind \notin Used /\ d[i].kind # "junk"
  <2>1. CASE n = 1
    BY <2>1 DEF Fresh
  <2>2. CASE n # 1
    BY <2>2, BlankIs DEF Used
  <2> QED
    BY <2>1, <2>2
<1>4. y \in Wins /\ y.at = s /\ y.data = d /\ y.dirty
  <2> HIDE DEF s, d
  <2> QED
    BY <1>2, <1>3 DEF Wins
<1>5. q = PutWin(p, y)
  BY DEF Filled, PutWin
<1> HIDE DEF s, d, y, q, x
<1>6. /\ y.at \in Sectors \cup {FatSect} /\ (y.at = FatSect => y.data \in Fats) /\ (y.at \in Sectors => y.data \in Blocks)
      /\ (p.win.at = y.at \/ ~p.win.dirty)
  BY <1>1, <1>2, <1>3, <1>4, SectorsAre
<1>7. /\ Wrote(p, q, j) /\ Seen(q)[y.at] = y.data
      /\ \A r \in Sectors \cup {FatSect} : r # y.at => Seen(q)[r] = Seen(p)[r]
      /\ q.dp = p.dp /\ q.val = p.val /\ q.res = p.res /\ q.win = y
  BY <1>1, <1>4, <1>5, <1>6, PutIs
<1>8. /\ Seen(q)[FatSect] = Seen(p)[FatSect] /\ Seen(q)[s] = d
      /\ \A r \in Sectors : r # s => Seen(q)[r] = Seen(p)[r]
  BY <1>2, <1>4, <1>7, SectorsAre
<1>9. \A r \in Sectors, k \in Slots : Seen(p)[r][k].kind = "dir" => Clust2Sect(Seen(p)[r][k].clu) # s
  <2>1. SUFFICES ASSUME NEW r \in Sectors, NEW k \in Slots, Seen(p)[r][k].kind = "dir", Clust2Sect(Seen(p)[r][k].clu) = s PROVE FALSE
    OBVIOUS
  <2> DEFINE t == Seen(p)[r][k].clu
  <2>2. t # c
    BY <1>1, <2>1 DEF MayFill
  <2>3. t \in Clus
    BY <1>1, <2>1, LedIs DEF Good, HasTable
  <2> HIDE DEF t
  <2>4. Clust2Sect(t) \in Area(t)
    BY <2>3, SectorsAre
  <2>5. Cl(Clust2Sect(t)) = t
    BY <2>3, <2>4, InArea
  <2> QED
    BY <1>2, <2>1, <2>2, <2>5 DEF t
<1>10. \A i \in Slots : Seen(p)[s][i].kind \notin Used /\ Seen(q)[s][i].kind \notin Used /\ Seen(q)[s][i].kind # "junk"
  BY <1>1, <1>2, <1>3, <1>8 DEF MayFill
<1>11. \A i \in Slots, r \in Sectors, k \in Slots :
         Seen(q)[s][i].kind = "end" /\ Seen(p)[r][k].kind \in Used /\ Tab(w, r) = Tab(w, s) => Pos(w, r, k) < Pos(w, s, i)
  BY <1>1, <1>2 DEF MayFill
<1>12. Good(Seen(q), w, j)
  BY <1>1, <1>2, <1>8, <1>9, <1>10, <1>11, BlockGood
<1>13. Vol(q, j)
  BY <1>7, <1>12, WroteVol
<1>14. /\ Reads(q, x, j) /\ x.dp = q.dp /\ x.val = q.val /\ x.win.at = q.win.at
       /\ \/ x.res = q.res /\ ~x.win.dirty
          \/ x.res = "DISK_ERR"
  BY <1>13, SyncWindowIs DEF x
<1>15. Vol(x, j) /\ Seen(x) = Seen(q) /\ x.power = v.power /\ x.torn = v.torn /\ x.dp = v.dp /\ x.val = v.val
  BY <1>1, <1>7, <1>14 DEF Reads, Wrote
<1>16. MayFill(Seen(q), w, c)
  <2>1. \A r \in Sectors, k \in Slots : Seen(q)[r][k].kind \in Used => Seen(q)[r][k] = Seen(p)[r][k] /\ r # s
    BY <1>8, <1>10
  <2>2. \A r \in Area(c) : r \in Sectors
    BY InArea
  <2>3. "dir" \in Used
    BY DEF Used
  <2>4. /\ \A r \in Area(c), i \in Slots : Seen(p)[r][i].kind \notin Used
        /\ \A r \in Sectors, k \in Slots : Seen(p)[r][k].kind = "dir" => Seen(p)[r][k].clu # c
        /\ \A z \in Area(c), i \in Slots, r \in Sectors, k \in Slots :
             Seen(p)[r][k].kind \in Used /\ Tab(w, r) = Tab(w, z) => Pos(w, r, k) < Pos(w, z, i)
    BY <1>1 DEF MayFill
  <2>5. \A r \in Area(c), i \in Slots : Seen(q)[r][i].kind \notin Used
    BY <2>1, <2>2, <2>4
  <2>6. \A r \in Sectors, k \in Slots : Seen(q)[r][k].kind = "dir" => Seen(q)[r][k].clu # c
    BY <2>1, <2>3, <2>4
  <2>7. \A z \in Area(c), i \in Slots, r \in Sectors, k \in Slots :
             Seen(q)[r][k].kind \in Used /\ Tab(w, r) = Tab(w, z) => Pos(w, r, k) < Pos(w, z, i)
    BY <2>1, <2>4
  <2> QED
    BY <2>5, <2>6, <2>7 DEF MayFill
<1>17. \A r \in Area(c) : r < Clust2Sect(c) + n => Seen(x)[r] = IF r = Clust2Sect(c) THEN first ELSE Blank
  <2>1. SUFFICES ASSUME NEW r \in Area(c), r < Clust2Sect(c) + n PROVE Seen(x)[r] = IF r = Clust2Sect(c) THEN first ELSE Blank
    OBVIOUS
  <2>2. r \in Nat /\ r \in Sectors
    BY InArea
  <2>3. CASE r = s
    BY <1>2, <1>8, <1>15, <2>3 DEF d
  <2>4. CASE r # s
    <3>1. r < Clust2Sect(c) + (n - 1)
      BY <1>2, <2>1, <2>2, <2>4
    <3>2. Seen(x)[r] = Seen(p)[r]
      BY <1>8, <1>15, <2>2, <2>4
    <3> QED
      BY <1>1, <3>1, <3>2
  <2> QED
    BY <2>3, <2>4
<1>18. \A r \in Sectors : r \notin Area(c) => Seen(x)[r] = Seen(v)[r]
  BY <1>1, <1>2, <1>8, <1>15
<1>19. Seen(x)[FatSect] = Seen(v)[FatSect] /\ Good(Seen(x), w, j) /\ MayFill(Seen(x), w, c)
  BY <1>1, <1>8, <1>12, <1>15, <1>16
<1>20. \/ x.res = "OK" /\ ~x.win.dirty /\ x.win.at \in Area(c)
       \/ x.res = "DISK_ERR"
  BY <1>1, <1>2, <1>4, <1>7, <1>14
<1>21. Filling(v, x, j, w, c, first, n)
  BY <1>15, <1>17, <1>18, <1>19, <1>20 DEF Filling
<1> QED
  BY <1>21 DEF x, q

\* The whole cluster.
LEMMA WriteTableIs ==
  ASSUME NEW v, NEW j \in BOOLEAN, Vol(v, j), Ok(v), ~v.win.dirty, NEW w, Good(Seen(v), w, j),
         NEW c \in Clus, MayFill(Seen(v), w, c), NEW first, Fresh(first)
  PROVE  Filling(v, WriteTable(v, c, first), j, w, c, first, Csize)
<1>1. PICK at : /\ at[0] = v /\ WriteTable(v, c, first) = at[Csize]
                /\ \A n \in 1 .. Csize : at[n] = IF Ok(at[n - 1]) THEN SyncWindow(Filled(at[n - 1], c, n, first)) ELSE at[n - 1]
  BY WriteFollows
<1> DEFINE S == {n \in 0 .. Csize : Filling(v, at[n], j, w, c, first, n)}
<1>2. Csize \in Nat
  BY Numbers
<1>3. 0 \in S
  <2>1. Clust2Sect(c) \in Nat
    BY Area0
  <2>2. \A s \in Area(c) : ~(s < Clust2Sect(c) + 0)
    BY <2>1 DEF Area
  <2>3. Filling(v, v, j, w, c, first, 0)
    BY <2>2 DEF Filling, Ok
  <2> QED
    BY <1>1, <1>2, <2>3
<1>4. ASSUME NEW n \in 1 .. Csize, n - 1 \in S PROVE n \in S
  <2> DEFINE p == at[n - 1]
             q == at[n]
  <2>1. Filling(v, p, j, w, c, first, n - 1) /\ n \in 0 .. Csize
    BY <1>2, <1>4
  <2>2. q = IF Ok(p) THEN SyncWindow(Filled(p, c, n, first)) ELSE p
    BY <1>1
  <2> HIDE DEF p, q
  <2>3. CASE Ok(p)
    <3>1. Filling(v, q, j, w, c, first, n)
      BY <2>1, <2>2, <2>3, FillOne
    <3> QED
      BY <2>1, <3>1 DEF q
  <2>4. CASE ~Ok(p)
    <3>1. p.res # "OK" /\ q = p
      BY <2>2, <2>4 DEF Ok
    <3>2. Filling(v, q, j, w, c, first, n)
      BY <2>1, <3>1 DEF Filling
    <3> QED
      BY <2>1, <3>2 DEF q
  <2> QED
    BY <2>3, <2>4
<1> HIDE DEF S
<1>5. Csize \in S
  BY <1>2, <1>3, <1>4, UpTo
<1> QED
  BY <1>1, <1>5 DEF S


\* The clusters that a chain reaches after k steps.
Reach(f, g, c) ==
  g[0] = {c} /\ \A k \in 1 .. NClust : g[k] = g[k - 1] \cup ({f[x] : x \in g[k - 1]} \cap Clus)

\* Those of the table of c, when it begins there.
LEMMA ReachIs ==
  ASSUME NEW f, NEW w \in Witness, Chained(f, w), NEW c \in Clus, w.own[c] = c, NEW g, Reach(f, g, c)
  PROVE  g[NClust] = {x \in Clus : w.own[x] = c}
<1> DEFINE Upto(k) == {x \in Clus : w.own[x] = c /\ w.idx[x] <= k + 1}
           S == {k \in 0 .. NClust : g[k] = Upto(k)}
<1>0. NClust \in Nat /\ c # Nobody /\ EOC \notin Clus
  BY Numbers
<1>1. \A x \in Clus : w.own[x] = c =>
        /\ f[x] # 0 /\ w.idx[x] \in Nat /\ w.idx[x] >= 1 /\ w.len[c] \in Nat /\ w.idx[x] <= w.len[c]
        /\ w.idx[x] < w.len[c] => f[x] \in Clus /\ w.own[f[x]] = c /\ w.idx[f[x]] = w.idx[x] + 1
        /\ ~(w.idx[x] < w.len[c]) => f[x] = EOC
  BY <1>0, OwnedIs
<1>2. \A x, y \in Clus : w.own[x] = c /\ w.own[y] = c /\ w.idx[x] = w.idx[y] => x = y
  <2>1. \A x, y \in Clus : f[x] # 0 /\ w.own[x] = w.own[y] /\ w.idx[x] = w.idx[y] => x = y
    BY DEF Chained
  <2> QED
    BY <1>1, <2>1
<1>3. w.idx[c] = 1 /\ w.len[c] <= NClust /\ w.len[c] \in Nat
  BY <1>0, OwnedIs, LenFits
<1>4. 0 \in S
  <2>1. g[0] = {c}
    BY DEF Reach
  <2>2. Upto(0) = {c}
    <3>1. \A x \in Clus : w.own[x] = c /\ w.idx[x] <= 0 + 1 => x = c
      <4>1. SUFFICES ASSUME NEW x \in Clus, w.own[x] = c, w.idx[x] <= 0 + 1 PROVE x = c
        OBVIOUS
      <4>2. w.idx[x] = 1
        BY <1>1, <4>1
      <4> QED
        BY <1>2, <1>3, <4>1, <4>2
    <3>2. w.idx[c] <= 0 + 1
      BY <1>3
    <3> QED
      BY <3>1, <3>2
  <2> QED
    BY <1>0, <2>1, <2>2
<1>5. ASSUME NEW k \in 1 .. NClust, k - 1 \in S PROVE k \in S
  <2>1. g[k - 1] = {x \in Clus : w.own[x] = c /\ w.idx[x] <= k}
    <3>1. g[k - 1] = {x \in Clus : w.own[x] = c /\ w.idx[x] <= (k - 1) + 1}
      BY <1>5
    <3>2. (k - 1) + 1 = k
      BY <1>0
    <3> QED
      BY <3>1, <3>2
  <2>2. g[k] = g[k - 1] \cup ({f[x] : x \in g[k - 1]} \cap Clus)
    BY DEF Reach
  <2> HIDE DEF S
  <2>3. ASSUME NEW y \in g[k] PROVE y \in Upto(k)
    <3>1. CASE y \in g[k - 1]
      <4>1. y \in Clus /\ w.own[y] = c /\ w.idx[y] <= k
        BY <2>1, <3>1
      <4> QED
        BY <1>1, <4>1
    <3>2. CASE y \notin g[k - 1]
      <4>1. PICK x \in g[k - 1] : y = f[x] /\ y \in Clus
        BY <2>2, <2>3, <3>2
      <4>2. x \in Clus /\ w.own[x] = c /\ w.idx[x] <= k
        BY <2>1
      <4>3. w.own[y] = c /\ w.idx[y] = w.idx[x] + 1 /\ w.idx[x] \in Nat
        BY <1>0, <1>1, <4>1, <4>2
      <4> QED
        BY <4>1, <4>2, <4>3
    <3> QED
      BY <3>1, <3>2
  <2>4. ASSUME NEW y \in Upto(k) PROVE y \in g[k]
    <3>1. y \in Clus /\ w.own[y] = c /\ w.idx[y] <= k + 1 /\ w.idx[y] \in Nat
      BY <1>1, <2>4
    <3>2. CASE w.idx[y] <= k
      BY <2>1, <2>2, <3>1, <3>2
    <3>3. CASE ~(w.idx[y] <= k)
      <4>1. w.idx[y] = k + 1 /\ w.idx[y] <= w.len[c] /\ k \in 1 .. w.len[c] /\ k < w.len[c]
        BY <1>0, <1>1, <1>3, <3>1, <3>3
      <4>2. PICK x \in Clus : w.own[x] = c /\ w.idx[x] = k
        BY <4>1 DEF Chained
      <4>3. f[x] \in Clus /\ w.own[f[x]] = c /\ w.idx[f[x]] = k + 1
        BY <1>1, <4>1, <4>2
      <4>4. f[x] = y
        BY <1>2, <3>1, <4>1, <4>3
      <4>5. x \in g[k - 1]
        BY <2>1, <4>1, <4>2
      <4> QED
        BY <2>2, <3>1, <4>4, <4>5
    <3> QED
      BY <3>2, <3>3
  <2>5. g[k] = Upto(k)
    BY <2>3, <2>4
  <2> QED
    BY <1>0, <2>5 DEF S
<1> HIDE DEF S
<1>6. NClust \in S
  BY <1>0, <1>4, <1>5, UpTo
<1>7. g[NClust] = Upto(NClust)
  BY <1>6 DEF S
<1>8. \A x \in Clus : w.own[x] = c => w.idx[x] <= NClust + 1
  BY <1>0, <1>1, <1>3
<1> QED
  BY <1>7, <1>8

\* The recursion of remove_chain.
Unchain(v, used) ==
  IF used = {} THEN v
  ELSE [v EXCEPT !.win.data = [x \in Clus |-> IF x \in used THEN 0 ELSE v.win.data[x]], !.win.dirty = TRUE]

\* What remove_chain frees is reached from the cluster it begins with.
LEMMA ChainReaches ==
  ASSUME NEW v, NEW c
  PROVE  \E g : /\ Reach(v.win.data, g, c)
                /\ FreeChain(v, c) = Unchain(v, {x \in g[NClust] : v.win.data[x] # 0})
<1> DEFINE f == v.win.data
           F(p) == p \cup ({f[x] : x \in p} \cap Clus)
           Upto(g, k) == g = [n \in 0 .. k |-> IF n = 0 THEN {c} ELSE F(g[n - 1])]
           S == {k \in 0 .. NClust : \E g : Upto(g, k)}
<1>0. NClust \in Nat
  BY Numbers
<1>1. 0 \in S
  <2> DEFINE g == [n \in 0 .. 0 |-> {c}]
  <2>1. Upto(g, 0)
    <3> HIDE DEF F
    <3> QED
      OBVIOUS
  <2> HIDE DEF Upto
  <2> QED
    BY <1>0, <2>1
<1>2. ASSUME NEW k \in 1 .. NClust, k - 1 \in S PROVE k \in S
  <2>1. PICK g : Upto(g, k - 1)
    BY <1>2
  <2> DEFINE h == [n \in 0 .. k |-> IF n = k THEN F(g[k - 1]) ELSE g[n]]
  <2> HIDE DEF F
  <2>2. \A n \in 0 .. k - 1 : g[n] = IF n = 0 THEN {c} ELSE F(g[n - 1])
    BY <2>1
  <2>3. \A n \in 0 .. k : h[n] = IF n = 0 THEN {c} ELSE F(h[n - 1])
    <3>1. SUFFICES ASSUME NEW n \in 0 .. k PROVE h[n] = IF n = 0 THEN {c} ELSE F(h[n - 1])
      OBVIOUS
    <3>2. CASE n = k
      BY <1>0, <3>2
    <3>3. CASE n # k
      <4>1. n \in 0 .. k - 1 /\ (n # 0 => n - 1 \in 0 .. k - 1) /\ n - 1 # k
        BY <1>0, <3>3
      <4>2. h[n] = g[n] /\ (n # 0 => h[n - 1] = g[n - 1])
        BY <1>0, <3>3, <4>1
      <4> HIDE DEF h
      <4> QED
        BY <2>2, <4>1, <4>2
    <3> QED
      BY <3>2, <3>3
  <2>4. h = [n \in 0 .. k |-> h[n]]
    OBVIOUS
  <2> HIDE DEF h
  <2>5. Upto(h, k)
    BY <2>3, <2>4
  <2> HIDE DEF Upto
  <2> QED
    BY <2>5
<1> HIDE DEF S
<1>3. NClust \in S
  BY <1>0, <1>1, <1>2, UpTo
<1>4. PICK g : Upto(g, NClust)
  BY <1>3 DEF S
<1> DEFINE at == CHOOSE h : h = [k \in 0 .. NClust |->
        IF k = 0 THEN {c} ELSE LET p == h[k - 1] IN p \cup ({f[x] : x \in p} \cap Clus)]
           used == {x \in at[NClust] : f[x] # 0}
<1>5. g = [k \in 0 .. NClust |->
        IF k = 0 THEN {c} ELSE LET p == g[k - 1] IN p \cup ({f[x] : x \in p} \cap Clus)]
  BY <1>4
<1>6. at = [k \in 0 .. NClust |->
        IF k = 0 THEN {c} ELSE LET p == at[k - 1] IN p \cup ({f[x] : x \in p} \cap Clus)]
  BY <1>5
<1>7. FreeChain(v, c) =
        IF used = {} THEN v
        ELSE [v EXCEPT !.win.data = [x \in Clus |-> IF x \in used THEN 0 ELSE f[x]], !.win.dirty = TRUE]
  BY DEF FreeChain
<1>8. at = [n \in 0 .. NClust |-> IF n = 0 THEN {c} ELSE F(at[n - 1])]
  BY <1>6
<1>9. \A n \in 0 .. NClust : at[n] = IF n = 0 THEN {c} ELSE F(at[n - 1])
  <2> HIDE DEF at, F
  <2> QED
    BY <1>8
<1>10. at[0] = {c} /\ \A n \in 1 .. NClust : at[n] = F(at[n - 1])
  <2> HIDE DEF at, F
  <2> QED
    BY <1>0, <1>9
<1>11. FreeChain(v, c) = Unchain(v, used)
  BY <1>7 DEF Unchain
<1> HIDE DEF at
<1>12. Reach(f, at, c)
  BY <1>10 DEF Reach
<1> QED
  BY <1>11, <1>12

\* The table that begins at the cluster c becomes free, or nothing has changed.
LEMMA RemoveChainIs ==
  ASSUME NEW v, NEW j \in BOOLEAN, Vol(v, j), Ok(v), NEW w, Good(Seen(v), w, j), NEW c \in Clus, w.own[c] = c
  PROVE  LET x == RemoveChain(v, c)
         IN  /\ x.dp = v.dp
             /\ \/ x.res = "DISK_ERR" /\ Reads(v, x, j)
                \/ /\ x.res = "OK" /\ Wrote(v, x, j)
                   /\ \A s \in Sectors : Seen(x)[s] = Seen(v)[s]
                   /\ Seen(x)[FatSect] = Without(Seen(v)[FatSect], w, c)
<1> DEFINE f == Seen(v)[FatSect]
           g == GetFat(v, c)
           x == RemoveChain(v, c)
           a == FreeChain(g, c)
<1>1. x = IF g.res = "OK" THEN a ELSE g
  BY DEF RemoveChain, Then, Ok
<1>2. /\ Reads(v, g, j) /\ g.dp = v.dp
      /\ \/ g.res = "OK" /\ g.win.at = FatSect /\ g.win.data = f
         \/ g.res = "DISK_ERR"
  BY GetFatIs
<1> HIDE DEF g
<1>3. CASE g.res = "DISK_ERR"
  BY <1>1, <1>2, <1>3
<1>4. CASE g.res = "OK"
  <2>0. w \in Witness /\ Chained(f, w) /\ f \in Fats /\ Vol(g, j) /\ g \in Vols /\ g.win \in Wins
    BY <1>2, VolIs, Fields DEF Good, Reads
  <2>1. PICK h : Reach(g.win.data, h, c) /\ FreeChain(g, c) = Unchain(g, {y \in h[NClust] : g.win.data[y] # 0})
    BY ChainReaches
  <2>2. g.win.data = f /\ g.win.at = FatSect
    BY <1>2, <1>4
  <2>3. h[NClust] = {y \in Clus : w.own[y] = c}
    BY <2>0, <2>1, <2>2, ReachIs
  <2>4. \A y \in Clus : w.own[y] = c => f[y] # 0
    BY <2>0, OwnedIs, Numbers
  <2> DEFINE used == {y \in h[NClust] : g.win.data[y] # 0}
             n == [y \in Clus |-> IF w.own[y] = c THEN 0 ELSE f[y]]
             z == [g.win EXCEPT !.data = n, !.dirty = TRUE]
  <2>5. used = {y \in Clus : w.own[y] = c}
    BY <2>2, <2>3, <2>4
  <2>6. used # {} /\ [y \in Clus |-> IF y \in used THEN 0 ELSE g.win.data[y]] = n
    BY <2>2, <2>5
  <2>7. a = [g EXCEPT !.win.data = n, !.win.dirty = TRUE]
    <3>1. a = IF used = {} THEN g
              ELSE [g EXCEPT !.win.data = [y \in Clus |-> IF y \in used THEN 0 ELSE g.win.data[y]], !.win.dirty = TRUE]
      BY <2>1 DEF Unchain
    <3> HIDE DEF used, a, n
    <3> QED
      BY <2>6, <3>1
  <2>8. n \in Fats
    BY <2>0 DEF Fats
  <2> HIDE DEF n, used, a
  <2>9. z \in Wins /\ z.at = FatSect /\ z.data = n /\ z.dirty
    BY <2>0, <2>2, <2>8 DEF Wins
  <2>10. a = PutWin(g, z)
    BY <2>0, <2>7 DEF PutWin, Vols
  <2> HIDE DEF z
  <2>11. /\ z.at \in Sectors \cup {FatSect} /\ (z.at = FatSect => z.data \in Fats) /\ (z.at \in Sectors => z.data \in Blocks)
         /\ (g.win.at = z.at \/ ~g.win.dirty)
    BY <2>2, <2>8, <2>9, SectorsAre
  <2>12. /\ Wrote(g, a, j) /\ Seen(a)[z.at] = z.data
         /\ \A r \in Sectors \cup {FatSect} : r # z.at => Seen(a)[r] = Seen(g)[r]
         /\ a.dp = g.dp /\ a.res = g.res
    BY <2>0, <2>9, <2>10, <2>11, PutIs
  <2>13. Seen(g) = Seen(v) /\ g.power = v.power /\ g.torn = v.torn
    BY <1>2 DEF Reads
  <2>14. Wrote(v, a, j)
    BY <2>12, <2>13 DEF Wrote
  <2>15. \A s \in Sectors : Seen(a)[s] = Seen(v)[s]
    BY <2>9, <2>12, <2>13, SectorsAre
  <2>16. Seen(a)[FatSect] = n
    BY <2>9, <2>12
  <2>17. x = a
    BY <1>1, <1>4
  <2> QED
    BY <1>2, <1>4, <2>12, <2>14, <2>15, <2>16, <2>17 DEF n, Without
<1> QED
  BY <1>2, <1>3, <1>4


-----------------------------------------------------------------------------
(* A table grows.                                                          *)

\* The sectors n after m: the table t may have more clusters, and nothing else has changed.
Grown(m, w, n, u, t) ==
  /\ \A x \in Clus : \/ u.own[x] = w.own[x] /\ u.idx[x] = w.idx[x]
                     \/ w.own[x] = Nobody /\ u.own[x] = t /\ t \in Clus
  /\ \A s \in Sectors : Tab(w, s) # Nobody => n[s] = m[s]
  /\ \A s \in Sectors, i \in Slots : n[s][i].kind \in Used => Tab(w, s) # Nobody

\* A table that has not grown.
LEMMA GrownSame ==
  ASSUME NEW m, NEW w, Ordered(m, w), NEW t
  PROVE  Grown(m, w, m, w, t)
BY DEF Grown, Ordered

\* What was in a table is there as before.
LEMMA GrownIs ==
  ASSUME NEW m, NEW n, NEW w \in Witness, NEW u \in Witness, NEW t, Grown(m, w, n, u, t), NEW s \in Sectors
  PROVE  /\ Tab(w, s) # Nobody => /\ n[s] = m[s] /\ Tab(u, s) = Tab(w, s) /\ Num(u, s) = Num(w, s)
                                  /\ \A i \in Slots : Pos(u, s, i) = Pos(w, s, i)
         /\ Tab(w, s) = Nobody => Tab(u, s) \in {Nobody, t}
         /\ \A i \in Slots : n[s][i].kind \in Used => Tab(w, s) # Nobody
<1>1. CASE s < Database
  <2>1. Tab(u, s) = 0 /\ Tab(w, s) = 0 /\ Num(u, s) = Num(w, s) /\ Nobody # 0
    BY <1>1, Numbers DEF Tab, Num
  <2> QED
    BY <2>1 DEF Grown, Pos
<1>2. CASE s >= Database
  <2>1. Cl(s) \in Clus /\ Tab(w, s) = w.own[Cl(s)] /\ Tab(u, s) = u.own[Cl(s)]
    BY <1>2, TabIs
  <2>2. \/ u.own[Cl(s)] = w.own[Cl(s)] /\ u.idx[Cl(s)] = w.idx[Cl(s)]
        \/ w.own[Cl(s)] = Nobody /\ u.own[Cl(s)] = t
    BY <2>1 DEF Grown
  <2>3. CASE Tab(w, s) # Nobody
    <3>1. Tab(u, s) = Tab(w, s) /\ Num(u, s) = Num(w, s) /\ n[s] = m[s]
      BY <2>1, <2>2, <2>3 DEF Num, Grown
    <3> QED
      BY <2>3, <3>1 DEF Pos
  <2>4. CASE Tab(w, s) = Nobody
    BY <2>1, <2>2, <2>4 DEF Grown
  <2> QED
    BY <2>3, <2>4
<1> QED
  BY <1>1, <1>2, SectorsAre, Numbers

\* Tables stay where they are.
LEMMA GrownOwn ==
  ASSUME NEW m, NEW n, NEW w \in Witness, NEW u \in Witness, NEW t, Grown(m, w, n, u, t), NEW c \in Clus, w.own[c] # Nobody
  PROVE  u.own[c] = w.own[c] /\ u.idx[c] = w.idx[c]
BY DEF Grown

\* A position stays where it is when a table grows.
LEMMA GrownAt ==
  ASSUME NEW m, NEW n, NEW w \in Witness, NEW u \in Witness, NEW t, Grown(m, w, n, u, t), NEW d, AtSlot(d, w)
  PROVE  AtSlot(d, u)
<1>1. CASE d.clust = 0
  BY <1>1 DEF AtSlot, Depth
<1>2. CASE d.clust # 0
  <2>1. d.start \in Clus /\ w.own[d.clust] = d.start /\ d.clust \in Clus
    BY <1>2, PlaceIs DEF AtSlot
  <2>2. w.own[d.clust] # Nobody
    BY <2>1, Numbers
  <2>3. u.own[d.clust] = w.own[d.clust] /\ u.idx[d.clust] = w.idx[d.clust]
    BY <2>1, <2>2, GrownOwn
  <2>4. Depth(d, u) = Depth(d, w)
    BY <2>3 DEF Depth
  <2> QED
    BY <1>2, <2>1, <2>3, <2>4 DEF AtSlot
<1> QED
  BY <1>1, <1>2

\* The volume x after v: the table t has grown, or the call is stopped while it grows.
Grew(v, x, j, w, u, t) ==
  /\ u \in Witness /\ Grown(Seen(v), w, Seen(x), u, t)
  /\ x.power = v.power
  /\ \/ x.torn = v.torn /\ Vol(x, j) /\ Good(Seen(x), u, j)
     \/ x.torn /\ Vol(x, TRUE) /\ Good(Seen(x), u, TRUE)

\* dir_next stretches the table by a clean cluster, or is stopped.
LEMMA StretchedIs ==
  ASSUME NEW v, NEW j \in BOOLEAN, Vol(v, j), NEW w, Good(Seen(v), w, j), NEW y, NEW n, Stretches(v, y, j, w, n)
  PROVE  \E u : /\ Grew(v, y, j, w, u, v.dp.start)
                /\ \/ y.res \in {"DENIED", "DISK_ERR"}
                   \/ /\ y.res = "OK" /\ y.torn = v.torn /\ Vol(y, j) /\ Good(Seen(y), u, j)
                      /\ y.dp.start = v.dp.start /\ y.dp.ofs = n /\ AtSlot(y.dp, u) /\ y.win.at = y.dp.sect /\ y.win.data = Blank
                      /\ \A s \in Sectors, i \in Slots :
                           Tab(w, s) = Nobody /\ Tab(u, s) = v.dp.start => n <= Pos(u, s, i)
<1> DEFINE t == v.dp.start
           m == Seen(v)
           f == m[FatSect]
<1>1. PICK g : /\ Reads(v, g, j) /\ g.res = "OK" /\ g.dp.start = t /\ g.dp.clust \in Clus
               /\ w.own[g.dp.clust] = t /\ w.idx[g.dp.clust] = w.len[t] /\ f[g.dp.clust] = EOC
               /\ n = SpS * Size(w, t) /\ y = Stretched(g, n)
  BY DEF Stretches
<1> DEFINE p == g.dp.clust
           e == NewCluster(g, p)
           c == e.val
           u == Extend(w, t, c)
           s0 == SyncWindow(e)
           a == WriteTable(s0, s0.val, Blank)
           b == [a EXCEPT !.win.at = Clust2Sect(a.val)]
           q == IF s0.res = "OK" THEN (IF a.res = "OK" THEN b ELSE a) ELSE s0
           k == NextCluster(q, q.val, n)
<1>2. y = IF e.res = "OK" THEN (IF q.res = "OK" THEN k ELSE [q EXCEPT !.torn = TRUE]) ELSE e
  BY <1>1 DEF Stretched, Then, Ok, Enter, Cleaned
<1>3. /\ Vol(g, j) /\ Seen(g) = m /\ g.power = v.power /\ g.torn = v.torn /\ Ok(g) /\ f \in Fats
      /\ w \in Witness /\ Chained(f, w) /\ Ordered(m, w)
  BY <1>1, VolIs DEF Reads, Ok, Good
<1>4. t \in Clus /\ w.own[t] = t /\ p \in Clus /\ w.own[p] = t /\ w.idx[p] = w.len[t] /\ f[p] = EOC /\ w.len[t] \in Nat
  <2>1. f[p] # 0
    BY <1>1, Numbers
  <2>2. w.own[p] # Nobody
    BY <1>1, <1>3, <2>1 DEF Chained
  <2> QED
    BY <1>1, <1>3, <2>2, OwnedIs
<1>5. /\ e.dp = g.dp
      /\ \/ e.res \in {"DENIED", "DISK_ERR"} /\ Reads(g, e, j)
         \/ /\ e.res = "OK" /\ Wrote(g, e, j) /\ c \in Clus /\ f[c] = 0
            /\ \A s \in Sectors : Seen(e)[s] = m[s]
            /\ Seen(e)[FatSect] = Taken(f, c, p)
  <2>1. p \in Clus \cup {0} /\ (p # 0 => Seen(g)[FatSect][p] = EOC)
    BY <1>3, <1>4
  <2> QED
    BY <1>3, <2>1, NewClusterIs
<1> HIDE DEF k, q, b, a, s0, e
<1>6. CASE e.res \in {"DENIED", "DISK_ERR"} /\ Reads(g, e, j)
  <2>1. y = e
    BY <1>2, <1>6
  <2>2. Reads(v, e, j)
    BY <1>1, <1>6, ReadsAfter
  <2>3. Grown(m, w, m, w, t)
    BY <1>3, GrownSame
  <2>4. Vol(e, j) /\ Seen(e) = m /\ e.power = v.power /\ e.torn = v.torn /\ e.dp.start = t
    BY <1>1, <1>5, <2>2 DEF Reads
  <2> HIDE DEF t, m
  <2>5. Grew(v, e, j, w, w, t)
    BY <1>3, <2>3, <2>4 DEF Grew, m
  <2> QED
    BY <1>6, <2>1, <2>5 DEF t
<1>7. CASE /\ e.res = "OK" /\ Wrote(g, e, j) /\ c \in Clus /\ f[c] = 0
           /\ \A s \in Sectors : Seen(e)[s] = m[s]
           /\ Seen(e)[FatSect] = Taken(f, c, p)
  <2>1. p # 0 /\ c # 0 /\ w.own[c] = Nobody
    <3>1. p # 0 /\ c # 0
      BY <1>4, <1>7, Numbers
    <3>2. w.own[c] = Nobody
      BY <1>3, <1>7 DEF Chained
    <3> QED
      BY <3>1, <3>2
  <2> HIDE DEF c, p, t
  <2>2. Good(Seen(e), u, TRUE)
    BY <1>3, <1>4, <1>7, ExtendGood
  <2> HIDE DEF u, f, m
  <2>3. /\ u \in Witness /\ c # t /\ u.own[c] = t /\ u.idx[c] = w.len[t] + 1
        /\ \A x \in Clus : x # c => u.own[x] = w.own[x] /\ u.idx[x] = w.idx[x]
    BY <1>3, <1>4, <1>7, ExtendChained DEF u
  <2>4. \A s \in Sectors :
          /\ Tab(w, s) # Nobody \/ s < Database \/ Cl(s) # c =>
                Tab(u, s) = Tab(w, s) /\ Num(u, s) = Num(w, s) /\ \A i \in Slots : Pos(u, s, i) = Pos(w, s, i)
          /\ s >= Database /\ Cl(s) = c => Tab(w, s) = Nobody /\ Tab(u, s) = u.own[c]
    BY <1>3, <1>7, <2>1, <2>3, OutsideIs
  <2>5. Vol(e, TRUE)
    BY <1>7, <2>2, WroteVol
  <2>6. Grown(m, w, Seen(e), u, t)
    <3>1. \A x \in Clus : \/ u.own[x] = w.own[x] /\ u.idx[x] = w.idx[x]
                          \/ w.own[x] = Nobody /\ u.own[x] = t /\ t \in Clus
      BY <1>4, <2>1, <2>3
    <3>2. \A s \in Sectors, i \in Slots : Seen(e)[s][i].kind \in Used => Tab(w, s) # Nobody
      BY <1>3, <1>7 DEF Ordered
    <3> QED
      BY <1>7, <3>1, <3>2 DEF Grown
  <2>7. \A s \in Area(c) : s \in Sectors /\ s >= Database /\ Cl(s) = c /\ Tab(w, s) = Nobody /\ Tab(u, s) = t
    BY <1>7, <2>3, <2>4, InArea
  <2>8. \A s \in Area(c), i \in Slots : n <= Pos(u, s, i) /\ Pos(u, s, i) \in Nat /\ n \in Nat
    BY <1>1, <1>3, <1>4, <1>7, <2>3, ExtendPos DEF t
  <2>9. MayFill(Seen(e), u, c)
    <3>1. \A s \in Area(c), i \in Slots : Seen(e)[s][i].kind \notin Used
      BY <2>6, <2>7 DEF Grown
    <3>2. \A r \in Sectors, i \in Slots : Seen(e)[r][i].kind = "dir" => Seen(e)[r][i].clu # c
      <4>1. SUFFICES ASSUME NEW r \in Sectors, NEW i \in Slots, Seen(e)[r][i].kind = "dir", Seen(e)[r][i].clu = c PROVE FALSE
        OBVIOUS
      <4>2. HasTable(Seen(e), u, Seen(e)[r][i])
        BY <2>2, <4>1, LedIs DEF Good
      <4>3. u.own[c] = c
        BY <4>1, <4>2 DEF HasTable
      <4> QED
        BY <2>3, <4>3
    <3>3. ASSUME NEW s \in Area(c), NEW i \in Slots, NEW r \in Sectors, NEW l \in Slots,
                 Seen(e)[r][l].kind \in Used, Tab(u, r) = Tab(u, s)
          PROVE  Pos(u, r, l) < Pos(u, s, i)
      <4>1. Tab(w, r) # Nobody
        BY <2>6, <3>3 DEF Grown
      <4>2. Tab(w, r) = t /\ Pos(u, r, l) = Pos(w, r, l)
        BY <2>4, <2>7, <3>3, <4>1
      <4>3. Pos(w, r, l) < SpS * Size(w, t) /\ Pos(w, r, l) \in Nat
        BY <1>3, <4>1, <4>2, PosIs
      <4>4. n = SpS * Size(w, t) /\ n \in Nat /\ n <= Pos(u, s, i) /\ Pos(u, s, i) \in Nat
        BY <1>1, <2>8 DEF t
      <4> QED
        BY <4>2, <4>3, <4>4
    <3> QED
      BY <3>1, <3>2, <3>3 DEF MayFill
  <2>10. /\ Reads(e, s0, TRUE) /\ s0.dp = e.dp /\ s0.val = c
         /\ \/ s0.res = "OK" /\ ~s0.win.dirty
            \/ s0.res = "DISK_ERR"
    BY <1>7, <2>5, SyncWindowIs DEF s0, c
  <2>11. Vol(s0, TRUE) /\ Seen(s0) = Seen(e) /\ s0.power = v.power /\ s0.torn = v.torn /\ s0.dp = g.dp
    BY <1>3, <1>5, <1>7, <2>10 DEF Reads, Wrote
  \* A call that is stopped.
  <2>12. ASSUME NEW z, Vol(z, TRUE), z.power = v.power, z.dp = g.dp, Grown(m, w, Seen(z), u, t), Good(Seen(z), u, TRUE),
                z.res = "DISK_ERR", y = [z EXCEPT !.torn = TRUE]
         PROVE  Grew(v, y, j, w, u, t) /\ y.res \in {"DENIED", "DISK_ERR"}
    <3>1. z \in Vols
      BY <2>12, VolIs
    <3>2. y \in Vols /\ Alike(z, y) /\ y.torn /\ y.dp = z.dp /\ y.res = z.res
      BY <2>12, <3>1 DEF Vols, Alike
    <3>3. Vol(y, TRUE) /\ Seen(y) = Seen(z) /\ y.power = v.power /\ y.dp.start = t
      BY <1>1, <2>12, <3>2, AlikeVol DEF Alike, t
    <3> QED
      BY <2>3, <2>12, <3>2, <3>3 DEF Grew, m
  <2>13. CASE s0.res = "DISK_ERR"
    <3>1. y = [s0 EXCEPT !.torn = TRUE]
      BY <1>2, <1>7, <2>13 DEF q
    <3>2. Grew(v, y, j, w, u, t) /\ y.res \in {"DENIED", "DISK_ERR"}
      BY <2>2, <2>6, <2>11, <2>12, <2>13, <3>1
    <3> QED
      BY <3>2 DEF t
  <2>14. CASE s0.res = "OK" /\ ~s0.win.dirty
    <3>1. Fresh(Blank)
      BY BlankIs DEF Fresh, Used
    <3>2. Filling(s0, a, TRUE, u, c, Blank, Csize)
      BY <1>7, <2>2, <2>9, <2>10, <2>11, <2>14, <3>1, WriteTableIs DEF a, Ok
    <3>3. /\ Vol(a, TRUE) /\ Good(Seen(a), u, TRUE) /\ a.power = v.power /\ a.torn = v.torn /\ a.dp = g.dp /\ a.val = c
          /\ Seen(a)[FatSect] = Seen(e)[FatSect]
          /\ \A s \in Sectors : s \notin Area(c) => Seen(a)[s] = Seen(e)[s]
          /\ MayFill(Seen(a), u, c)
      BY <2>10, <2>11, <3>2 DEF Filling
    <3>4. Grown(m, w, Seen(a), u, t)
      <4>1. \A s \in Sectors : Tab(w, s) # Nobody => s \notin Area(c)
        BY <2>7
      <4>2. \A s \in Sectors, i \in Slots : Seen(a)[s][i].kind \in Used => s \notin Area(c)
        BY <3>3 DEF MayFill
      <4> QED
        BY <2>6, <3>3, <4>1, <4>2 DEF Grown
    <3>5. CASE a.res = "DISK_ERR"
      <4>1. y = [a EXCEPT !.torn = TRUE]
        BY <1>2, <1>7, <2>14, <3>5 DEF q
      <4>2. Grew(v, y, j, w, u, t) /\ y.res \in {"DENIED", "DISK_ERR"}
        BY <2>12, <3>3, <3>4, <3>5, <4>1
      <4> QED
        BY <4>2 DEF t
    <3>6. CASE a.res # "DISK_ERR"
      <4>1. /\ a.res = "OK" /\ ~a.win.dirty /\ a.win.at \in Area(c)
            /\ \A s \in Area(c) : Seen(a)[s] = Blank
        <5>1. Csize # 0 /\ Csize \in Nat /\ Clust2Sect(c) \in Nat
          BY <1>7, Numbers, Area0
        <5>2. \A s \in Area(c) : s < Clust2Sect(c) + Csize
          BY <5>1 DEF Area
        <5> QED
          BY <3>2, <3>6, <5>1, <5>2 DEF Filling
      <4>2. q = b /\ y = IF q.res = "OK" THEN k ELSE [q EXCEPT !.torn = TRUE]
        BY <1>2, <1>7, <2>14, <4>1 DEF q
      <4>3. /\ Clust2Sect(c) \in Area(c) /\ Clust2Sect(c) \in Sectors /\ a.win.at \in Sectors
            /\ \A s \in Area(c) : s # NoSect
        BY <1>7, <2>7, <4>1, SectorsAre
      <4>4. a \in Vols /\ WinFits(a.win, a.card) /\ Seen(a) = a.card /\ a.win.data = Blank /\ Calm(a) /\ a.win \in Wins
        <5>1. a \in Vols /\ WinFits(a.win, a.card) /\ Calm(a) /\ Seen(a) = a.card
          BY <3>3, <4>1, VolIs, SeenIs
        <5>2. a.win.data = a.card[a.win.at]
          BY <4>1, <4>3, <5>1 DEF WinFits
        <5> QED
          BY <4>1, <5>1, <5>2, Fields
      <4> DEFINE z == [a.win EXCEPT !.at = Clust2Sect(c)]
      <4>5. z \in Wins /\ z.at = Clust2Sect(c) /\ z.data = Blank /\ ~z.dirty
        BY <4>1, <4>3, <4>4 DEF Wins
      <4>6. b = PutWin(a, z)
        BY <3>3, <4>4 DEF b, PutWin, Vols
      <4> HIDE DEF z
      <4>7. /\ b \in Vols /\ b.card = a.card /\ b.win = z /\ b.left = a.left /\ b.hit = a.hit /\ b.power = a.power
            /\ b.res = a.res /\ b.val = a.val /\ b.dp = a.dp /\ b.torn = a.torn
        BY <4>4, <4>5, <4>6 DEF Vols, PutWin
      <4>8. WinFits(b.win, b.card)
        <5>1. WinFits(z, a.card)
          BY <4>1, <4>3, <4>4, <4>5, BlankIs, SectorsAre DEF WinFits
        <5> QED
          BY <4>7, <5>1
      <4>9. Seen(b) = a.card
        BY <4>5, <4>7, <4>8, SeenIs
      <4>10. Calm(b)
        BY <4>4, <4>7 DEF Calm
      <4>11. Good(Seen(a), u, j)
        <5>1. ASSUME ~j PROVE Clean(Seen(a), u)
          <6>1. SUFFICES ASSUME NEW r \in Sectors, NEW i \in Slots, Seen(a)[r][i].kind = "junk"
                         PROVE  Tab(u, r) # 0 /\ \A s \in Sectors, l \in Slots : ~Leads(Seen(a), s, l, Tab(u, r))
            BY DEF Clean
          <6>2. r \notin Area(c)
            BY <4>1, <6>1, BlankIs
          <6>3. Seen(a)[r] = m[r]
            BY <1>7, <3>3, <6>2
          <6>4. Tab(w, r) # 0 /\ \A s \in Sectors, l \in Slots : ~Leads(m, s, l, Tab(w, r))
            BY <5>1, <6>1, <6>3 DEF Good, Clean, m
          <6>5. Tab(u, r) = Tab(w, r)
            <7>1. r < Database \/ Cl(r) # c
              BY <6>2, AreaOf, SectorsAre, Numbers
            <7> QED
              BY <2>4, <7>1
          <6>6. \A s \in Sectors, l \in Slots : Leads(Seen(a), s, l, Tab(u, r)) => Leads(m, s, l, Tab(u, r))
            <7>1. SUFFICES ASSUME NEW s \in Sectors, NEW l \in Slots, Leads(Seen(a), s, l, Tab(u, r)) PROVE Leads(m, s, l, Tab(u, r))
              OBVIOUS
            <7>2. Seen(a)[s][l].kind \in Used
              BY <7>1 DEF Leads, Used
            <7>3. s \notin Area(c)
              BY <3>3, <7>2 DEF MayFill
            <7>4. Seen(a)[s] = m[s]
              BY <1>7, <3>3, <7>3
            <7> QED
              BY <7>1, <7>4 DEF Leads
          <6> QED
            BY <6>4, <6>5, <6>6
        <5> QED
          BY <3>3, <5>1 DEF Good
      <4>12. IsMem(Seen(a))
        BY <3>3 DEF Vol, Sane
      <4>13. Vol(b, j)
        BY <4>4, <4>7, <4>8, <4>9, <4>10, <4>11, <4>12 DEF Vol, Sane
      <4>14. q.res = "OK" /\ y = NextCluster(b, c, n)
        BY <3>3, <4>1, <4>2, <4>7 DEF k
      <4> DEFINE d == NextClus(g.dp, n, c)
      <4>15. b.dp = g.dp /\ g.dp \in Dps
        BY <1>3, <3>3, <4>7, VolIs, Fields
      <4>16. n \in Nat
        BY <1>7, <2>8, <4>3, Numbers
      <4>17. d \in Dps /\ d.ofs = n /\ d.sect = Clust2Sect(c) /\ d.clust = c /\ d.start = t
        BY <1>1, <1>7, <4>15, <4>16, NextIs, ZenonT(60) DEF t
      <4>18. y = At(b, d, "OK")
        <5>1. b.res = "OK"
          BY <4>1, <4>7
        <5>2. d = [b.dp EXCEPT !.ofs = n, !.clust = c, !.sect = Clust2Sect(c)]
          BY <4>15 DEF NextClus
        <5>3. y = [b EXCEPT !.dp.ofs = n, !.dp.clust = c, !.dp.sect = Clust2Sect(c)]
          BY <4>14 DEF NextCluster
        <5> HIDE DEF d
        <5> QED
          BY <4>7, <4>15, <5>1, <5>2, <5>3 DEF At, Vols
      <4> HIDE DEF d
      <4>19. Reads(b, y, j) /\ y.dp = d /\ y.res = "OK"
        <5>1. "OK" \in Results
          BY DEF Results
        <5> QED
          BY <4>13, <4>17, <4>18, <5>1, PutDp
      <4>20. y.win = b.win
        BY <4>7, <4>18 DEF At, Vols
      <4>21. Vol(y, j) /\ Seen(y) = Seen(a) /\ y.power = v.power /\ y.torn = v.torn
        BY <3>3, <4>4, <4>7, <4>9, <4>19 DEF Reads
      <4>22. AtSlot(d, u)
        <5>1. u.idx[c] - 1 = w.len[t]
          BY <1>4, <2>3
        <5>2. Place(d, Depth(d, u), 0, 1)
          <6>1. Depth(d, u) = w.len[t]
            BY <2>1, <4>17, <5>1 DEF Depth
          <6>2. d.ofs = SpS * (Csize * w.len[t] + 0) + (1 - 1)
            <7> DEFINE h == Csize * w.len[t]
            <7>1. n = SpS * h
              BY <1>1, <1>4, <2>1, Numbers DEF Size, t
            <7>2. h \in Nat
              BY <1>4, Numbers, Times
            <7> HIDE DEF h
            <7>3. SpS * h \in Nat
              BY <7>2, Numbers, Times
            <7>4. d.ofs = SpS * (h + 0) + (1 - 1)
              BY <4>17, <7>1, <7>2, <7>3
            <7> QED
              BY <7>4 DEF h
          <6>3. d.sect = Clust2Sect(d.clust) + 0
            BY <1>7, <4>17, Area0
          <6>4. 0 < Csize /\ 1 \in Slots
            BY Numbers
          <6>5. d \in Dps /\ w.len[t] \in Nat /\ d.clust # 0 /\ 0 \in Nat
            BY <1>4, <2>1, <4>17
          <6> QED
            BY <6>1, <6>2, <6>3, <6>4, <6>5 DEF Place
        <5>3. d.clust # 0 /\ d.start \in Clus /\ u.own[d.clust] = d.start
          BY <1>4, <2>1, <2>3, <4>17
        <5> QED
          BY <5>2, <5>3 DEF AtSlot
      <4>23. y.win.at = y.dp.sect /\ y.win.data = Blank
        BY <4>5, <4>7, <4>17, <4>19, <4>20
      <4>24. \A s \in Sectors, i \in Slots : Tab(w, s) = Nobody /\ Tab(u, s) = t => n <= Pos(u, s, i)
        <5>1. SUFFICES ASSUME NEW s \in Sectors, NEW i \in Slots, Tab(w, s) = Nobody, Tab(u, s) = t PROVE n <= Pos(u, s, i)
          OBVIOUS
        <5>2. t # Nobody
          BY <1>4, Numbers
        <5>3. s >= Database /\ Cl(s) = c
          BY <2>4, <5>1, <5>2, SectorsAre, Numbers
        <5>4. s \in Area(c)
          BY <5>3, AreaOf
        <5> QED
          BY <2>8, <5>4
      <4>25. Grew(v, y, j, w, u, t)
        BY <2>3, <3>4, <4>11, <4>17, <4>19, <4>21 DEF Grew, m
      <4>26. Good(Seen(y), u, j) /\ y.dp.start = t /\ y.dp.ofs = n /\ AtSlot(y.dp, u)
        BY <4>11, <4>17, <4>19, <4>21, <4>22
      <4> QED
        BY <4>19, <4>21, <4>23, <4>24, <4>25, <4>26 DEF t
    <3> QED
      BY <3>5, <3>6
  <2> QED
    BY <2>10, <2>13, <2>14
<1> QED
  BY <1>5, <1>6, <1>7


\* What was said of a volume that was only read holds of the one before.
LEMMA GrewAfter ==
  ASSUME NEW v, NEW d, NEW j, Reads(v, d, j), NEW x, NEW w, NEW u, NEW t, Grew(d, x, j, w, u, t)
  PROVE  Grew(v, x, j, w, u, t)
BY DEF Grew, Reads

\* A call that has only read.
LEMMA ReadsGrew ==
  ASSUME NEW v, NEW x, NEW j, Reads(v, x, j), NEW w, Good(Seen(v), w, j), NEW t
  PROVE  Grew(v, x, j, w, w, t)
<1>1. w \in Witness /\ Ordered(Seen(v), w)
  BY DEF Good
<1>2. Grown(Seen(v), w, Seen(v), w, t)
  BY <1>1, GrownSame
<1> QED
  BY <1>1, <1>2 DEF Grew, Reads

\* A result is replaced.
LEMMA GrewFail ==
  ASSUME NEW v, NEW x, NEW j, NEW w, NEW u, NEW t, Grew(v, x, j, w, u, t), NEW r \in Results
  PROVE  /\ Grew(v, Fail(x, r), j, w, u, t) /\ Fail(x, r).res = r /\ Fail(x, r).dp = x.dp
         /\ Fail(x, r).torn = x.torn /\ Fail(x, r).power = x.power /\ Fail(x, r).win = x.win
<1>1. x \in Vols
  BY VolIs DEF Grew
<1>2. /\ Fail(x, r) \in Vols /\ Fail(x, r).res = r /\ Alike(x, Fail(x, r)) /\ Fail(x, r).torn = x.torn
      /\ Fail(x, r).dp = x.dp
  BY <1>1, StoreIs, StoreAlike
<1>3. /\ Vol(x, j) => Vol(Fail(x, r), j)
      /\ Vol(x, TRUE) => Vol(Fail(x, r), TRUE)
      /\ Seen(Fail(x, r)) = Seen(x)
  BY <1>2, AlikeVol DEF Grew
<1> QED
  BY <1>2, <1>3 DEF Grew, Alike

\* The walk is at an unused slot, and nothing before it is unused.
Room(x, u, t) ==
  /\ Standing(x) /\ AtSlot(x.dp, u) /\ x.dp.start = t /\ Cur(x).kind \in {"del", "end"}
  /\ Passed(Seen(x), u, t, 0, x.dp.ofs, {"del", "end"}, {})

\* A walk that stretches a table is at the first slot of the new cluster.
LEMMA GrowsIs ==
  ASSUME NEW v, NEW j \in BOOLEAN, Vol(v, j), v.dp.ofs = 0, NEW w, Good(Seen(v), w, j), NEW x,
         Grows(v, x, j, w, {"del", "end"}, {})
  PROVE  /\ Ok(x) => Stops(Cur(x), {"del", "end"}, {})
         /\ \E u : /\ Grew(v, x, j, w, u, v.dp.start)
                   /\ \/ x.res \in {"DENIED", "DISK_ERR"}
                      \/ x.res = "OK" /\ x.torn = v.torn /\ Vol(x, j) /\ Good(Seen(x), u, j) /\ Room(x, u, v.dp.start)
<1> DEFINE t == v.dp.start
           m == Seen(v)
<1>1. Passed(m, w, t, 0, SpS * Size(w, t), {"del", "end"}, {})
  BY DEF Grows
<1>2. PICK y, n : Stretches(v, y, j, w, n) /\ x = IF y.res = "OK" THEN InWindow(y) ELSE y
  BY DEF Grows
<1>3. PICK u : /\ Grew(v, y, j, w, u, t)
               /\ \/ y.res \in {"DENIED", "DISK_ERR"}
                  \/ /\ y.res = "OK" /\ y.torn = v.torn /\ Vol(y, j) /\ Good(Seen(y), u, j)
                     /\ y.dp.start = t /\ y.dp.ofs = n /\ AtSlot(y.dp, u) /\ y.win.at = y.dp.sect /\ y.win.data = Blank
                     /\ \A s \in Sectors, i \in Slots :
                          Tab(w, s) = Nobody /\ Tab(u, s) = t => n <= Pos(u, s, i)
  BY <1>2, StretchedIs
<1>4. CASE y.res \in {"DENIED", "DISK_ERR"}
  <2>1. x = y /\ ~Ok(x)
    BY <1>2, <1>4 DEF Ok
  <2> QED
    BY <1>3, <1>4, <2>1
<1>5. CASE y.res = "OK"
  <2>1. x = y
    BY <1>2, <1>3, <1>5 DEF InWindow, MoveWindow
  <2>2. /\ Vol(x, j) /\ Good(Seen(x), u, j) /\ x.torn = v.torn /\ x.dp.start = t /\ x.dp.ofs = n /\ AtSlot(x.dp, u)
        /\ x.win.at = x.dp.sect /\ x.win.data = Blank
        /\ \A s \in Sectors, i \in Slots : Tab(w, s) = Nobody /\ Tab(u, s) = t => n <= Pos(u, s, i)
    BY <1>3, <1>5, <2>1
  <2>3. u \in Witness /\ Chained(Seen(x)[FatSect], u) /\ w \in Witness /\ Grown(m, w, Seen(x), u, t)
    BY <1>3, <2>1, <2>2 DEF Good, Grew
  <2>4. x.dp.sect \in Sectors /\ Index(x) \in Slots /\ t # Nobody
    BY <2>2, <2>3, AtSlotIs DEF Index
  <2>5. Standing(x)
    BY <2>2, <2>4 DEF Standing
  <2>6. Cur(x).kind = "end"
    BY <2>2, <2>4, BlankIs DEF Cur
  <2>7. n = SpS * Size(w, t)
    BY <1>2 DEF Stretches
  <2>8. Passed(Seen(x), u, t, 0, n, {"del", "end"}, {})
    <3>1. SUFFICES ASSUME NEW s \in Sectors, NEW i \in Slots, Tab(u, s) = t, 0 <= Pos(u, s, i), Pos(u, s, i) < n
                   PROVE  ~Stops(Seen(x)[s][i], {"del", "end"}, {})
      BY DEF Passed
    <3>2. n \in Nat /\ Pos(u, s, i) \in Nat
      BY <2>2, <2>3, <2>4, <3>1, AtSlotIs, PosIs, Fields, VolIs
    <3>3. Tab(w, s) # Nobody
      BY <2>2, <3>1, <3>2, SMTT(30)
    <3>4. Seen(x)[s] = m[s] /\ Tab(w, s) = t /\ Pos(w, s, i) = Pos(u, s, i)
      BY <2>3, <3>1, <3>3, GrownIs, SMTT(30)
    <3> QED
      BY <1>1, <2>7, <3>1, <3>4 DEF Passed
  <2>9. Room(x, u, t)
    BY <2>2, <2>5, <2>6, <2>8 DEF Room
  <2>10. Stops(Cur(x), {"del", "end"}, {})
    BY <2>6 DEF Stops
  <2> QED
    BY <1>3, <1>5, <2>1, <2>2, <2>9, <2>10
<1> QED
  BY <1>3, <1>4, <1>5

\* A table as the start of a walk: the root, or a table of the witness.
Root(w, t) == t \in Clus \cup {0} /\ (t # 0 => w.own[t] = t)

\* The first slot of a table.
LEMMA FirstSlot ==
  ASSUME NEW v, NEW j, Vol(v, j), Ok(v), NEW w, Good(Seen(v), w, j), NEW t, Root(w, t)
  PROVE  LET d == DirSdi(v, t)
         IN  /\ Reads(v, d, j) /\ Ok(d) /\ d.dp = StartOf(t) /\ d.dp.start = t /\ d.dp.ofs = 0
             /\ d.dp.sect # FatSect /\ d.dp.sect # 0
             /\ Fits(d.dp) /\ AtSlot(d.dp, w) /\ w \in Witness /\ Chained(Seen(v)[FatSect], w) /\ t # Nobody
<1>1. MovedTo(v, DirSdi(v, t), j, StartOf(t))
  BY DirSdiIs DEF Root, StartOf
<1>2. w \in Witness /\ Chained(Seen(v)[FatSect], w)
  BY DEF Good
<1>3. t # Nobody /\ (t # 0 => w.own[t] = t /\ w.idx[t] = 1)
  BY <1>2, OwnedIs, Numbers DEF Root
<1>4. StartOf(t) \in Dps /\ StartOf(t).sect \in Sectors /\ Fits(StartOf(t)) /\ AtSlot(StartOf(t), w)
  BY <1>2, <1>3, AtStart DEF Root
<1>5. StartOf(t).start = t /\ StartOf(t).ofs = 0
  BY DEF StartOf
<1> QED
  BY <1>1, <1>2, <1>3, <1>4, <1>5, SectorsAre DEF MovedTo, Ok

\* dir_alloc.
LEMMA DirAllocIs ==
  ASSUME NEW v, NEW j \in BOOLEAN, Vol(v, j), Ok(v), NEW w, Good(Seen(v), w, j), Root(w, v.dp.start)
  PROVE  LET x == DirAlloc(v)
         IN  \E u : /\ Grew(v, x, j, w, u, v.dp.start)
                    /\ \/ x.res \in {"DENIED", "DISK_ERR"}
                       \/ x.res = "OK" /\ x.torn = v.torn /\ Vol(x, j) /\ Good(Seen(x), u, j) /\ Room(x, u, v.dp.start)
<1> DEFINE t == v.dp.start
           d == DirSdi(v, t)
           K == {"del", "end"}
           y == Walk(d, K, {}, TRUE)
           x == DirAlloc(v)
<1>1. /\ Reads(v, d, j) /\ Ok(d) /\ d.dp.start = t /\ d.dp.ofs = 0
      /\ AtSlot(d.dp, w) /\ w \in Witness /\ Chained(Seen(v)[FatSect], w) /\ t # Nobody
  BY FirstSlot
<1>2. x = Fail(y, IF y.res = "NO_FILE" THEN "DENIED" ELSE y.res)
  BY <1>1 DEF DirAlloc, FromStart, Then, Fail
<1> HIDE DEF d
<1>3. Vol(d, j) /\ Seen(d) = Seen(v) /\ d.torn = v.torn /\ Good(Seen(d), w, j)
  BY <1>1 DEF Reads
<1>4. \A z : Grows(d, z, j, w, K, {}) =>
        /\ Ok(z) => Stops(Cur(z), K, {})
        /\ \E u : /\ Grew(d, z, j, w, u, t)
                  /\ \/ z.res \in {"DENIED", "DISK_ERR"}
                     \/ z.res = "OK" /\ z.torn = d.torn /\ Vol(z, j) /\ Good(Seen(z), u, j) /\ Room(z, u, t)
  BY <1>1, <1>3, GrowsIs
<1>5. Finds(d, y, j, w, K, {}) \/ Grows(d, y, j, w, K, {})
  BY <1>1, <1>3, <1>4, WalkFinds
<1> HIDE DEF y
<1>6. \E u : /\ Grew(d, y, j, w, u, t)
             /\ \/ y.res \in {"DENIED", "DISK_ERR", "NO_FILE"}
                \/ y.res = "OK" /\ y.torn = d.torn /\ Vol(y, j) /\ Good(Seen(y), u, j) /\ Room(y, u, t)
  <2>1. CASE Grows(d, y, j, w, K, {})
    BY <1>4, <2>1
  <2>2. CASE Finds(d, y, j, w, K, {})
    <3>1. Reads(d, y, j)
      BY <2>2 DEF Finds
    <3>2. Grew(d, y, j, w, w, t)
      BY <1>3, <3>1, ReadsGrew
    <3>3. Vol(y, j) /\ Seen(y) = Seen(d) /\ y.torn = d.torn
      BY <3>1 DEF Reads
    <3>4. CASE y.res = "OK"
      <4>1. /\ Standing(y) /\ AtSlot(y.dp, w) /\ y.dp.start = t
            /\ Passed(Seen(d), w, t, 0, y.dp.ofs, K, {}) /\ Stops(Cur(y), K, {})
        BY <1>1, <2>2, <3>4 DEF Finds
      <4>2. Cur(y).kind \in K
        BY <4>1 DEF Stops
      <4>3. Room(y, w, t)
        BY <3>3, <4>1, <4>2 DEF Room
      <4> QED
        BY <1>3, <3>2, <3>3, <3>4, <4>3
    <3>5. CASE y.res \in {"NO_FILE", "DISK_ERR"}
      BY <3>2, <3>5
    <3> QED
      BY <2>2, <3>4, <3>5 DEF Finds
  <2> QED
    BY <1>5, <2>1, <2>2
<1>7. PICK u : /\ Grew(d, y, j, w, u, t)
               /\ \/ y.res \in {"DENIED", "DISK_ERR", "NO_FILE"}
                  \/ y.res = "OK" /\ y.torn = d.torn /\ Vol(y, j) /\ Good(Seen(y), u, j) /\ Room(y, u, t)
  BY <1>6
<1>8. Grew(v, y, j, w, u, t)
  BY <1>1, <1>7, GrewAfter
<1> DEFINE r == IF y.res = "NO_FILE" THEN "DENIED" ELSE y.res
<1>9. r \in Results
  BY <1>7 DEF Results
<1>10. Grew(v, x, j, w, u, t) /\ x.res = r
  BY <1>2, <1>8, <1>9, GrewFail
<1>11. CASE y.res # "OK"
  <2>1. x.res \in {"DENIED", "DISK_ERR"}
    BY <1>7, <1>10, <1>11
  <2> QED
    BY <1>10, <2>1
<1>12. CASE y.res = "OK"
  <2>1. y \in Vols
    BY <1>7, <1>12, VolIs
  <2>2. x = y
    BY <1>2, <1>12, <2>1 DEF Fail, Vols
  <2> QED
    BY <1>3, <1>7, <1>10, <1>12, <2>2
<1> QED
  BY <1>11, <1>12


-----------------------------------------------------------------------------
(* Searching a table, and following a path.                                *)

\* What is used in a table is before the first slot that never was.
LEMMA BeforeEnd ==
  ASSUME NEW m, NEW w, NEW j, Good(m, w, j), NEW d, AtSlot(d, w), m[d.sect][(d.ofs % SpS) + 1].kind = "end",
         NEW s \in Sectors, NEW i \in Slots, Tab(w, s) = d.start, m[s][i].kind \in Used
  PROVE  0 <= Pos(w, s, i) /\ Pos(w, s, i) < d.ofs
<1> DEFINE k == (d.ofs % SpS) + 1
<1>1. w \in Witness /\ Chained(m[FatSect], w) /\ Ordered(m, w)
  BY DEF Good
<1>2. d.sect \in Sectors /\ k \in Slots /\ Tab(w, d.sect) = d.start /\ d.start # Nobody /\ Pos(w, d.sect, k) = d.ofs
  BY <1>1, AtSlotIs
<1>3. m[d.sect][k].kind = "end"
  OBVIOUS
<1> HIDE DEF k
<1>4. Pos(w, s, i) \in Nat
  BY <1>1, <1>2, PosIs
<1>5. Pos(w, s, i) < Pos(w, d.sect, k)
  BY <1>1, <1>2, <1>3 DEF Ordered
<1> QED
  BY <1>2, <1>4, <1>5

\* The search is over: at a slot that was never used, or behind the last one.
Over(v, y, j, w, kinds, names) ==
  \/ y.res = "NO_FILE"
  \/ y.res = "OK" /\ Cur(y).kind = "end"

\* A search that is over has passed every entry of the table.
LEMMA OverIs ==
  ASSUME NEW v, NEW j, Vol(v, j), v.dp.ofs = 0, NEW w, Good(Seen(v), w, j), v.dp.start # Nobody,
         NEW y, NEW kinds, NEW names, Finds(v, y, j, w, kinds, names), Over(v, y, j, w, kinds, names),
         NEW s \in Sectors, NEW i \in Slots, Tab(w, s) = v.dp.start, Seen(v)[s][i].kind \in Used
  PROVE  ~Stops(Seen(v)[s][i], kinds, names)
<1> DEFINE t == v.dp.start
           m == Seen(v)
<1>1. w \in Witness /\ Chained(m[FatSect], w)
  BY DEF Good
<1>2. CASE y.res = "NO_FILE"
  <2>1. Passed(m, w, t, 0, SpS * Size(w, t), kinds, names)
    BY <1>2 DEF Finds
  <2>2. Pos(w, s, i) \in Nat /\ Pos(w, s, i) < SpS * Size(w, t)
    BY <1>1, PosIs
  <2> QED
    BY <2>1, <2>2 DEF Passed
<1>3. CASE y.res = "OK" /\ Cur(y).kind = "end"
  <2>1. Standing(y) /\ AtSlot(y.dp, w) /\ y.dp.start = t /\ Passed(m, w, t, 0, y.dp.ofs, kinds, names) /\ Vol(y, j) /\ Seen(y) = m
    BY <1>3 DEF Finds, Reads
  <2>2. Cur(y) = m[y.dp.sect][(y.dp.ofs % SpS) + 1]
    BY <2>1, CurIs DEF Index
  <2>3. 0 <= Pos(w, s, i) /\ Pos(w, s, i) < y.dp.ofs
    BY <1>3, <2>1, <2>2, BeforeEnd
  <2> QED
    BY <2>1, <2>3 DEF Passed
<1> QED
  BY <1>2, <1>3 DEF Over

\* The volume is at an entry of a file or a directory.
There(x, w) == Standing(x) /\ AtSlot(x.dp, w) /\ Cur(x).kind \in Entry
\* No entry of the table t has the name.
NoName(m, w, t, name) ==
  \A s \in Sectors, i \in Slots : Tab(w, s) = t /\ m[s][i].kind \in Entry => m[s][i].name # name

\* dir_find.
LEMMA DirFindIs ==
  ASSUME NEW v, NEW j, Vol(v, j), Ok(v), NEW w, Good(Seen(v), w, j), Root(w, v.dp.start), NEW name, name # Unnamed
  PROVE  LET x == DirFind(v, name)
         IN  /\ Reads(v, x, j)
             /\ \/ x.res = "OK" /\ There(x, w) /\ x.dp.start = v.dp.start /\ Cur(x).name = name
                \/ x.res = "NO_FILE" /\ x.dp.start = v.dp.start /\ NoName(Seen(v), w, v.dp.start, name)
                \/ x.res = "DISK_ERR"
<1> DEFINE t == v.dp.start
           m == Seen(v)
           d == DirSdi(v, t)
           y == Walk(d, {"end"}, {name}, FALSE)
           x == DirFind(v, name)
<1>1. /\ Reads(v, d, j) /\ Ok(d) /\ d.dp.start = t /\ d.dp.ofs = 0
      /\ AtSlot(d.dp, w) /\ w \in Witness /\ Chained(m[FatSect], w) /\ t # Nobody
  <2> HIDE DEF t
  <2>1. Root(w, t)
    BY DEF t
  <2> QED
    BY <2>1, FirstSlot
<1>2. x = IF y.res = "OK" THEN (IF Cur(y).kind = "end" THEN Fail(y, "NO_FILE") ELSE y) ELSE y
  BY <1>1 DEF DirFind, FromStart, Then, Ok, UnlessEnd
<1> HIDE DEF d
<1>3. Vol(d, j) /\ Seen(d) = m /\ Good(Seen(d), w, j)
  BY <1>1 DEF Reads
<1>4. Finds(d, y, j, w, {"end"}, {name})
  BY <1>1, <1>3, WalkFinds
<1> HIDE DEF y, x
<1>5. Reads(v, y, j) /\ Vol(y, j) /\ y \in Vols /\ Seen(y) = m
  <2>1. Reads(d, y, j)
    BY <1>4 DEF Finds
  <2> QED
    BY <1>1, <2>1, ReadsAfter, VolIs DEF Reads
<1>6. CASE Over(d, y, j, w, {"end"}, {name})
  <2>1. NoName(m, w, t, name)
    <3>1. SUFFICES ASSUME NEW s \in Sectors, NEW i \in Slots, Tab(w, s) = t, m[s][i].kind \in Entry PROVE m[s][i].name # name
      BY DEF NoName
    <3>2. m[s][i].kind \in Used /\ m[s][i].kind \in Named
      BY <3>1 DEF Entry, Used, Named
    <3>3. ~Stops(m[s][i], {"end"}, {name})
      BY <1>1, <1>3, <1>4, <1>6, <3>1, <3>2, OverIs
    <3> QED
      BY <3>2, <3>3 DEF Stops
  <2>2. y.dp.start = t
    BY <1>1, <1>4, <1>6 DEF Finds, Over
  <2>3. (x = y /\ y.res = "NO_FILE") \/ x = Fail(y, "NO_FILE")
    BY <1>2, <1>6 DEF Over
  <2>4. /\ Fail(y, "NO_FILE").res = "NO_FILE" /\ Fail(y, "NO_FILE").dp = y.dp
        /\ Alike(y, Fail(y, "NO_FILE")) /\ Fail(y, "NO_FILE") \in Vols /\ Fail(y, "NO_FILE").torn = y.torn
    <3>1. "NO_FILE" \in Results
      BY DEF Results
    <3> QED
      BY <1>5, <3>1, StoreIs, StoreAlike
  <2>5. Reads(y, Fail(y, "NO_FILE"), j)
    BY <1>5, <2>4, AlikeVol
  <2>6. Reads(v, x, j) /\ x.res = "NO_FILE" /\ x.dp = y.dp
    BY <1>5, <2>3, <2>4, <2>5, ReadsAfter
  <2> QED
    BY <2>1, <2>2, <2>6 DEF x
<1>7. CASE ~Over(d, y, j, w, {"end"}, {name})
  <2>1. x = y
    BY <1>2, <1>7 DEF Over
  <2>2. y.res = "DISK_ERR" \/ (y.res = "OK" /\ Cur(y).kind # "end")
    BY <1>4, <1>7 DEF Finds, Over
  <2>3. ASSUME y.res = "OK", Cur(y).kind # "end" PROVE There(y, w) /\ y.dp.start = t /\ Cur(y).name = name
    <3>1. Standing(y) /\ AtSlot(y.dp, w) /\ y.dp.start = t /\ Stops(Cur(y), {"end"}, {name})
      BY <1>1, <1>4, <2>3 DEF Finds
    <3>2. Cur(y).kind \in Named /\ Cur(y).name = name
      BY <2>3, <3>1 DEF Stops
    <3>3. y.dp.sect \in Sectors /\ Index(y) \in Slots /\ Cur(y) = m[y.dp.sect][Index(y)]
      BY <1>5, <3>1, CurIs DEF Standing
    <3>4. Cur(y).kind # "junk"
      BY <3>2, <3>3, LedIs DEF Good
    <3> QED
      BY <3>1, <3>2, <3>4 DEF There, Named, Entry
  <2> QED
    BY <1>5, <2>1, <2>2, <2>3 DEF x
<1> QED
  BY <1>6, <1>7

\* An entry of a directory leads to a table.
LEMMA ThereIs ==
  ASSUME NEW x, NEW j, Vol(x, j), NEW w, Good(Seen(x), w, j), There(x, w)
  PROVE  /\ x.dp.sect \in Sectors /\ Index(x) \in Slots /\ Cur(x) = Seen(x)[x.dp.sect][Index(x)] /\ Cur(x) \in SlotSet
         /\ Root(w, Cur(x).clu)
         /\ x.dp.start = Tab(w, x.dp.sect) /\ Root(w, x.dp.start)
<1>1. /\ Standing(x) /\ AtSlot(x.dp, w) /\ Cur(x).kind \in Entry /\ Chained(Seen(x)[FatSect], w) /\ w \in Witness /\ Led(Seen(x), w)
  BY DEF There, Good
<1>2. x.dp.sect \in Sectors /\ Index(x) \in Slots /\ Cur(x) = Seen(x)[x.dp.sect][Index(x)] /\ Cur(x) \in SlotSet
  BY <1>1, CurIs DEF Standing
<1>3. Cur(x).kind = "dir" => HasTable(Seen(x), w, Cur(x))
  BY <1>1, <1>2, LedIs
<1>4. Cur(x).kind = "file" => Cur(x).clu = 0
  BY <1>1, <1>2, LedIs
<1>5. Root(w, Cur(x).clu)
  BY <1>1, <1>3, <1>4, Numbers DEF Root, HasTable, Entry
<1>6. x.dp.start = Tab(w, x.dp.sect) /\ x.dp.start # Nobody
  BY <1>1, AtSlotIs
<1>7. Root(w, x.dp.start)
  <2>1. x.dp.clust = 0 => x.dp.start = 0
    BY <1>1 DEF AtSlot
  <2>2. x.dp.clust # 0 => x.dp.start \in Clus /\ w.own[x.dp.clust] = x.dp.start /\ x.dp.clust \in Clus
    <3>1. x \in Vols
      BY VolIs
    <3> QED
      BY <1>1, <3>1, Fields DEF AtSlot
  <2>3. x.dp.clust # 0 => w.own[x.dp.start] = x.dp.start
    BY <1>1, <1>6, <2>2, OwnedIs
  <2> QED
    BY <2>1, <2>2, <2>3 DEF Root
<1> QED
  BY <1>2, <1>5, <1>6, <1>7

\* follow_path, segment by segment.
Followed(v, x, j, w, name) ==
  /\ Reads(v, x, j)
  /\ \/ x.res = "OK" /\ There(x, w)
     \/ x.res = "NO_FILE" /\ Root(w, x.dp.start) /\ NoName(Seen(v), w, x.dp.start, name)
     \/ x.res \in {"NO_PATH", "DISK_ERR"}

\* follow_path, segment by segment.
SegFollows(seg, v, path) ==
  /\ seg[1] = DirFind(At(v, NoDp, v.res), path[1])
  /\ \A i \in 2 .. Len(path) : seg[i] = Segment(seg[i - 1], path[i])

\* It is the last of such a sequence.
LEMMA FollowsSeg ==
  ASSUME NEW v, NEW path, Len(path) \in Nat, Len(path) >= 1, v \in Vols
  PROVE  \E seg : SegFollows(seg, v, path) /\ FollowPath(v, path) = seg[Len(path)]
<1> DEFINE N == Len(path)
           A == DirFind([v EXCEPT !.dp = NoDp], path[1])
           F(p, i) == Segment(p, path[i])
           Upto(g, k) == g = [n \in 1 .. k |-> IF n = 1 THEN A ELSE F(g[n - 1], n)]
           S == {k \in 0 .. N : \E g : Upto(g, k)}
<1> HIDE DEF A
<1>1. 0 \in S
  <2> DEFINE g == [n \in 1 .. 0 |-> A]
  <2>1. Upto(g, 0)
    <3> HIDE DEF F
    <3> QED
      OBVIOUS
  <2> HIDE DEF Upto
  <2> QED
    BY <2>1
<1>2. ASSUME NEW k \in 1 .. N, k - 1 \in S PROVE k \in S
  <2>1. PICK g : Upto(g, k - 1)
    BY <1>2
  <2> DEFINE h == [n \in 1 .. k |-> IF n = k THEN (IF k = 1 THEN A ELSE F(g[k - 1], k)) ELSE g[n]]
  <2> HIDE DEF F
  <2>2. \A n \in 1 .. k - 1 : g[n] = IF n = 1 THEN A ELSE F(g[n - 1], n)
    BY <2>1
  <2>3. \A n \in 1 .. k : h[n] = IF n = 1 THEN A ELSE F(h[n - 1], n)
    <3>1. SUFFICES ASSUME NEW n \in 1 .. k PROVE h[n] = IF n = 1 THEN A ELSE F(h[n - 1], n)
      OBVIOUS
    <3>2. CASE n = k
      BY <3>2
    <3>3. CASE n # k
      <4>1. n \in 1 .. k - 1 /\ (n # 1 => n - 1 \in 1 .. k - 1) /\ n - 1 # k
        BY <3>3
      <4>2. h[n] = g[n] /\ (n # 1 => h[n - 1] = g[n - 1])
        BY <3>3, <4>1
      <4> HIDE DEF h
      <4> QED
        BY <2>2, <4>1, <4>2
    <3> QED
      BY <3>2, <3>3
  <2>4. h = [n \in 1 .. k |-> h[n]]
    OBVIOUS
  <2> HIDE DEF h
  <2>5. Upto(h, k)
    BY <2>3, <2>4
  <2> HIDE DEF Upto
  <2> QED
    BY <2>5
<1> HIDE DEF S
<1>3. N \in S
  <2> HIDE DEF N
  <2>1. N \in Nat
    BY DEF N
  <2> QED
    BY <1>1, <1>2, <2>1, UpTo
<1>4. PICK g : Upto(g, N)
  BY <1>3 DEF S
<1> DEFINE at == CHOOSE h : h = [i \in 1 .. Len(path) |->
                    IF i = 1 THEN DirFind([v EXCEPT !.dp = NoDp], path[1]) ELSE Segment(h[i - 1], path[i])]
<1>5. g = [i \in 1 .. Len(path) |->
             IF i = 1 THEN DirFind([v EXCEPT !.dp = NoDp], path[1]) ELSE Segment(g[i - 1], path[i])]
  BY <1>4 DEF A
<1>6. at = [i \in 1 .. Len(path) |->
             IF i = 1 THEN DirFind([v EXCEPT !.dp = NoDp], path[1]) ELSE Segment(at[i - 1], path[i])]
  BY <1>5
<1>7. FollowPath(v, path) = at[N]
  BY DEF FollowPath
<1>8. at = [n \in 1 .. N |-> IF n = 1 THEN A ELSE F(at[n - 1], n)]
  BY <1>6 DEF A
<1> HIDE DEF at, F
<1>9. \A n \in 1 .. N : at[n] = IF n = 1 THEN A ELSE F(at[n - 1], n)
  BY <1>8
<1>10. at[1] = A /\ \A n \in 2 .. N : at[n] = F(at[n - 1], n)
  BY <1>9
<1>11. A = DirFind(At(v, NoDp, v.res), path[1])
  BY DEF A, At, Vols
<1>12. SegFollows(at, v, path)
  BY <1>10, <1>11 DEF SegFollows, F
<1> QED
  BY <1>7, <1>12

\* One more segment of the path.
LEMMA SegmentIs ==
  ASSUME NEW v, NEW j, NEW w, Good(Seen(v), w, j), NEW before, NEW p, Followed(v, p, j, w, before),
         NEW name, name # Unnamed
  PROVE  Followed(v, Segment(p, name), j, w, name)
<1> DEFINE x == Segment(p, name)
           e == [p EXCEPT !.dp.start = Cur(p).clu]
<1>1. Reads(v, p, j) /\ Vol(p, j) /\ p \in Vols /\ Seen(p) = Seen(v) /\ Good(Seen(p), w, j)
  BY VolIs DEF Followed, Reads
<1>2. CASE p.res = "NO_FILE" \/ (p.res = "OK" /\ Cur(p).kind # "dir")
  <2>1. x = Fail(p, "NO_PATH")
    BY <1>2 DEF Segment, Ok
  <2>2. Fail(p, "NO_PATH").res = "NO_PATH" /\ Alike(p, Fail(p, "NO_PATH")) /\ Fail(p, "NO_PATH") \in Vols /\ Fail(p, "NO_PATH").torn = p.torn
    BY <1>1, StoreIs, StoreAlike DEF Results
  <2>3. Reads(p, Fail(p, "NO_PATH"), j)
    BY <1>1, <2>2, AlikeVol
  <2> QED
    BY <1>1, <2>1, <2>2, <2>3, ReadsAfter DEF Followed
<1>3. CASE p.res \in {"NO_PATH", "DISK_ERR"}
  <2>1. x = p
    BY <1>3 DEF Segment, Ok, Then
  <2> QED
    BY <1>1, <1>3, <2>1 DEF Followed
<1>4. CASE p.res = "OK" /\ Cur(p).kind = "dir"
  <2>1. x = DirFind(e, name)
    BY <1>4 DEF Segment, Ok, Then
  <2>2. There(p, w)
    BY <1>4 DEF Followed
  <2>3. Root(w, Cur(p).clu) /\ Cur(p).clu \in Clus \cup {0}
    BY <1>1, <2>2, ThereIs DEF Root
  <2> DEFINE d == [p.dp EXCEPT !.start = Cur(p).clu]
             c == Cur(p).clu
  <2>4. d \in Dps /\ d.start = c
    <3> HIDE DEF c
    <3>1. p.dp \in Dps /\ c \in Clus \cup {0} /\ d = [p.dp EXCEPT !.start = c]
      BY <1>1, <2>3, Fields DEF c
    <3> QED
      BY <3>1 DEF Dps
  <2>5. e = At(p, d, "OK") /\ "OK" \in Results
    BY <1>1, <1>4 DEF At, Vols, Results
  <2> HIDE DEF d, e, c
  <2>6. Reads(p, e, j) /\ e.dp = d /\ e.res = "OK"
    BY <1>1, <1>4, <2>4, <2>5, PutDp
  <2>7. Vol(e, j) /\ Ok(e) /\ Good(Seen(e), w, j) /\ Root(w, e.dp.start) /\ Seen(e) = Seen(v) /\ e.dp.start = c
    BY <1>1, <2>3, <2>4, <2>6 DEF Reads, Ok, c
  <2>8. /\ Reads(e, x, j)
        /\ \/ x.res = "OK" /\ There(x, w)
           \/ x.res = "NO_FILE" /\ x.dp.start = e.dp.start /\ NoName(Seen(e), w, e.dp.start, name)
           \/ x.res = "DISK_ERR"
    BY <2>1, <2>7, DirFindIs
  <2> HIDE DEF x
  <2>9. Reads(v, x, j)
    BY <1>1, <2>6, <2>8, ReadsAfter
  <2>10. Followed(v, x, j, w, name)
    BY <2>7, <2>8, <2>9 DEF Followed
  <2> QED
    BY <2>10 DEF x
<1> QED
  BY <1>2, <1>3, <1>4 DEF Followed

\* follow_path finds the entry of the last name, or that there is none.
LEMMA FollowPathIs ==
  ASSUME NEW v, NEW j, Vol(v, j), Ok(v), NEW w, Good(Seen(v), w, j),
         NEW path \in Seq(Names), path # <<>>
  PROVE  Followed(v, FollowPath(v, path), j, w, LastName(path))
<1> DEFINE N == Len(path)
<1>1. N \in Nat /\ N >= 1 /\ \A i \in 1 .. N : path[i] # Unnamed
  <2>1. Unnamed \notin Names
    BY DEF Names
  <2>2. N \in Nat /\ \A i \in 1 .. N : path[i] \in Names
    OBVIOUS
  <2>3. N # 0
    OBVIOUS
  <2> QED
    BY <2>1, <2>2, <2>3
<1> HIDE DEF N
<1>2. v \in Vols /\ v.res = "OK"
  BY VolIs DEF Ok
<1>3. PICK seg : SegFollows(seg, v, path) /\ FollowPath(v, path) = seg[N]
  BY <1>1, <1>2, FollowsSeg DEF N
<1>4. Followed(v, seg[1], j, w, path[1])
  <2> DEFINE e == At(v, NoDp, "OK")
             x == seg[1]
  <2>1. NoDp \in Dps /\ NoDp.start = 0 /\ "OK" \in Results
    BY DEF NoDp, Dps, Results
  <2>2. Reads(v, e, j) /\ e.dp = NoDp /\ e.res = "OK"
    BY <1>2, <2>1, PutDp
  <2>3. x = DirFind(e, path[1]) /\ path[1] # Unnamed
    BY <1>1, <1>2, <1>3 DEF SegFollows
  <2> HIDE DEF e
  <2>4. Vol(e, j) /\ Ok(e) /\ Good(Seen(e), w, j) /\ Root(w, e.dp.start) /\ Seen(e) = Seen(v) /\ e.dp.start = 0
    BY <2>1, <2>2 DEF Reads, Ok, Root
  <2>5. /\ Reads(e, x, j)
        /\ \/ x.res = "OK" /\ There(x, w)
           \/ x.res = "NO_FILE" /\ x.dp.start = e.dp.start /\ NoName(Seen(e), w, e.dp.start, path[1])
           \/ x.res = "DISK_ERR"
    BY <2>3, <2>4, DirFindIs
  <2>6. Reads(v, x, j)
    BY <2>2, <2>5, ReadsAfter
  <2> HIDE DEF x
  <2>7. Followed(v, x, j, w, path[1])
    BY <2>4, <2>5, <2>6 DEF Followed
  <2> QED
    BY <2>7 DEF x
<1> DEFINE S == {k \in 0 .. N : k = 0 \/ Followed(v, seg[k], j, w, path[k])}
<1>5. 0 \in S
  BY <1>1
<1>6. ASSUME NEW k \in 1 .. N, k - 1 \in S PROVE k \in S
  <2>1. CASE k = 1
    BY <1>1, <1>4, <2>1
  <2>2. CASE k # 1
    <3>1. k \in 2 .. N /\ Followed(v, seg[k - 1], j, w, path[k - 1]) /\ path[k] # Unnamed
      BY <1>1, <1>6, <2>2
    <3>2. seg[k] = Segment(seg[k - 1], path[k])
      BY <1>3, <3>1 DEF SegFollows, N
    <3>3. Followed(v, seg[k], j, w, path[k])
      BY <3>1, <3>2, SegmentIs
    <3> QED
      BY <3>1, <3>3
  <2> QED
    BY <2>1, <2>2
<1> HIDE DEF S
<1>7. N \in S
  <2>1. N \in Nat /\ \A k \in 1 .. N : k - 1 \in S => k \in S
    BY <1>1, <1>6
  <2> QED
    BY <1>5, <2>1, UpTo
<1>8. Followed(v, seg[N], j, w, path[N])
  BY <1>1, <1>7 DEF S
<1> QED
  BY <1>3, <1>8 DEF LastName, N


-----------------------------------------------------------------------------
(* Entries that are put in a table, and removed.                           *)

\* A call that has gone on to x: x is sound, also when it has torn a table.
Kept(v, x, j) == Vol(x, j) /\ x.power = v.power /\ x.torn = v.torn
\* A call that was not stopped while it stretched a table, or was.
Fine(v, x, j) == Kept(v, x, j) \/ (Vol(x, TRUE) /\ x.power = v.power /\ x.torn)

\* A call goes on from what another one left.
LEMMA FineAfter ==
  ASSUME NEW v, NEW d, NEW x, NEW j \in BOOLEAN, Fine(v, d, j), \A k \in BOOLEAN : Vol(d, k) => Fine(d, x, k)
  PROVE  Fine(v, x, j)
<1>1. CASE Kept(v, d, j)
  <2>1. Fine(d, x, j)
    BY <1>1 DEF Kept
  <2> QED
    BY <1>1, <2>1 DEF Kept, Fine
<1>2. CASE Vol(d, TRUE) /\ d.power = v.power /\ d.torn
  <2>1. Fine(d, x, TRUE)
    BY <1>2
  <2> QED
    BY <1>2, <2>1 DEF Kept, Fine
<1> QED
  BY <1>1, <1>2 DEF Fine

\* What was only read, or has grown, is fine.
LEMMA FineIs ==
  ASSUME NEW v, NEW x, NEW j
  PROVE  /\ Reads(v, x, j) => Kept(v, x, j)
         /\ Kept(v, x, j) => Fine(v, x, j)
         /\ \A w, u, t : Grew(v, x, j, w, u, t) => Fine(v, x, j)
BY DEF Reads, Kept, Fine, Grew

\* What may be put in an unused slot of the table t: a directory has another entry
\* already, or its table is new and leads back to t.
Fills(m, w, j, t, y) ==
  /\ y.kind \in Used
  /\ y.kind \in {"file", "label"} => y.clu = 0
  /\ y.kind \in Entry => NoName(m, w, t, y.name)
  /\ y.kind = "label" => t = 0 /\ \A s \in Sectors, i \in Slots : m[s][i].kind # "label"
  /\ y.kind = "dir" =>
       /\ HasTable(m, w, y)
       /\ \/ \E s \in Sectors, i \in Slots : Leads(m, s, i, y.clu)
          \/ /\ Back(m, y) = Dot(t) /\ y.clu # t
             /\ j \/ \A r \in Sectors, k \in Slots : m[r][k].kind = "junk" => Tab(w, r) # y.clu

\* A table that grew holds the entries it held.
LEMMA NoNameGrown ==
  ASSUME NEW m, NEW n, NEW w \in Witness, NEW u \in Witness, NEW g, Grown(m, w, n, u, g), NEW t, NEW name, NoName(m, w, t, name)
  PROVE  NoName(n, u, t, name)
<1>1. SUFFICES ASSUME NEW s \in Sectors, NEW i \in Slots, Tab(u, s) = t, n[s][i].kind \in Entry PROVE n[s][i].name # name
  BY DEF NoName
<1>2. n[s][i].kind \in Used
  BY <1>1 DEF Entry, Used
<1>3. n[s] = m[s] /\ Tab(w, s) = t
  BY <1>1, <1>2, GrownIs
<1> QED
  BY <1>1, <1>3 DEF NoName

\* A directory keeps its table when another one grows.
LEMMA TableGrown ==
  ASSUME NEW m, NEW n, NEW w \in Witness, NEW u \in Witness, NEW g, Grown(m, w, n, u, g), NEW y, HasTable(m, w, y)
  PROVE  HasTable(n, u, y) /\ Back(n, y) = Back(m, y)
<1>1. y.clu \in Clus /\ w.own[y.clu] = y.clu /\ y.clu # Nobody
  BY Numbers DEF HasTable
<1>2. u.own[y.clu] = y.clu
  BY <1>1, GrownOwn
<1>3. Clust2Sect(y.clu) \in Sectors /\ Clust2Sect(y.clu) >= Database /\ Cl(Clust2Sect(y.clu)) = y.clu
  BY <1>1, SectorsAre, InArea
<1>4. Tab(w, Clust2Sect(y.clu)) # Nobody
  BY <1>1, <1>3, TabIs
<1>5. n[Clust2Sect(y.clu)] = m[Clust2Sect(y.clu)]
  BY <1>3, <1>4, GrownIs
<1> QED
  BY <1>1, <1>2, <1>5 DEF HasTable, Back

\* A slot in use stays where it is.
LEMMA UsedGrown ==
  ASSUME NEW m, NEW n, NEW w \in Witness, NEW u \in Witness, NEW g, Grown(m, w, n, u, g), Ordered(m, w),
         NEW s \in Sectors, NEW i \in Slots, m[s][i].kind \in Used \/ n[s][i].kind \in Used
  PROVE  n[s] = m[s] /\ Tab(w, s) # Nobody /\ Tab(u, s) = Tab(w, s)
<1>1. m[s][i].kind \in Used => Tab(w, s) # Nobody
  BY DEF Ordered
<1> QED
  BY <1>1, GrownIs

\* No entry leads elsewhere.
LEMMA LeadsGrown ==
  ASSUME NEW m, NEW n, NEW w \in Witness, NEW u \in Witness, NEW g, Grown(m, w, n, u, g), Ordered(m, w),
         NEW s \in Sectors, NEW i \in Slots, NEW c
  PROVE  /\ Leads(n, s, i, c) <=> Leads(m, s, i, c)
         /\ m[s][i].kind \in Used \/ n[s][i].kind \in Used => n[s] = m[s] /\ Tab(w, s) # Nobody /\ Tab(u, s) = Tab(w, s)
<1>1. m[s][i].kind \in Used \/ n[s][i].kind \in Used => n[s] = m[s] /\ Tab(w, s) # Nobody /\ Tab(u, s) = Tab(w, s)
  BY UsedGrown
<1>2. "dir" \in Used
  BY DEF Used
<1> QED
  BY <1>1, <1>2 DEF Leads

\* What may be entered may still be when the table has grown.
LEMMA FillsGrown ==
  ASSUME NEW m, NEW n, NEW w \in Witness, NEW u, NEW j \in BOOLEAN, NEW t, Grown(m, w, n, u, t), Ordered(m, w), Good(n, u, j),
         NEW y, Fills(m, w, j, t, y)
  PROVE  Fills(n, u, j, t, y)
<1>1. u \in Witness /\ (j \/ Clean(n, u))
  BY DEF Good
<1>2. y.kind \in Entry => NoName(n, u, t, y.name)
  BY <1>1, NoNameGrown DEF Fills
<1>3. y.kind = "label" => t = 0 /\ \A s \in Sectors, i \in Slots : n[s][i].kind # "label"
  <2>1. ASSUME y.kind = "label", NEW s \in Sectors, NEW i \in Slots, n[s][i].kind = "label" PROVE FALSE
    <3>1. n[s] = m[s]
      BY <1>1, <2>1, LeadsGrown DEF Used
    <3> QED
      BY <2>1, <3>1 DEF Fills
  <2> QED
    BY <2>1 DEF Fills
<1>4. ASSUME y.kind = "dir"
      PROVE  /\ HasTable(n, u, y)
             /\ \/ \E s \in Sectors, i \in Slots : Leads(n, s, i, y.clu)
                \/ /\ Back(n, y) = Dot(t) /\ y.clu # t
                   /\ j \/ \A r \in Sectors, k \in Slots : n[r][k].kind = "junk" => Tab(u, r) # y.clu
  <2>1. HasTable(n, u, y) /\ Back(n, y) = Back(m, y) /\ y.clu \in Clus /\ y.clu # Nobody
    <3>1. HasTable(m, w, y)
      BY <1>4 DEF Fills
    <3> QED
      BY <1>1, <3>1, TableGrown, Numbers DEF HasTable
  <2>2. CASE \E s \in Sectors, i \in Slots : Leads(m, s, i, y.clu)
    <3>1. PICK s \in Sectors, i \in Slots : Leads(m, s, i, y.clu)
      BY <2>2
    <3>2. Leads(n, s, i, y.clu)
      BY <1>1, <3>1, LeadsGrown
    <3> QED
      BY <2>1, <3>2
  <2>3. CASE /\ Back(m, y) = Dot(t) /\ y.clu # t
             /\ j \/ \A r \in Sectors, k \in Slots : m[r][k].kind = "junk" => Tab(w, r) # y.clu
    <3>1. ASSUME ~j, NEW r \in Sectors, NEW k \in Slots, n[r][k].kind = "junk", Tab(u, r) = y.clu PROVE FALSE
      <4>1. Tab(w, r) # Nobody
        BY <1>1, <2>1, <2>3, <3>1, GrownIs
      <4>2. n[r] = m[r] /\ Tab(w, r) = y.clu
        BY <1>1, <3>1, <4>1, GrownIs
      <4> QED
        BY <2>3, <3>1, <4>2
    <3> QED
      BY <2>1, <2>3, <3>1
  <2> QED
    BY <1>4, <2>2, <2>3 DEF Fills
<1> QED
  BY <1>2, <1>3, <1>4 DEF Fills

\* An entry in an unused slot.
LEMMA PutGood ==
  ASSUME NEW v, NEW j \in BOOLEAN, Vol(v, j), NEW w, Good(Seen(v), w, j), NEW t, Room(v, w, t),
         NEW y \in SlotSet, Fills(Seen(v), w, j, t, y)
  PROVE  LET x == PutSlot(v, y)
         IN  /\ Kept(v, x, j) /\ Good(Seen(x), w, j) /\ x.dp = v.dp /\ x.res = v.res
             /\ v.dp.sect \in Sectors /\ Index(v) \in Slots /\ Tab(w, v.dp.sect) = t
             /\ Changed(Seen(v), Seen(x), v.dp.sect, Index(v), y)
             /\ Seen(v)[v.dp.sect][Index(v)].kind \in {"del", "end"}
<1> DEFINE m == Seen(v)
           x == PutSlot(v, y)
           n == Seen(x)
           s == v.dp.sect
           i == Index(v)
<1>1. /\ Standing(v) /\ AtSlot(v.dp, w) /\ v.dp.start = t /\ Cur(v).kind \in {"del", "end"}
      /\ Passed(m, w, t, 0, v.dp.ofs, {"del", "end"}, {})
  BY DEF Room
<1>2. w \in Witness /\ Chained(m[FatSect], w) /\ Led(m, w) /\ Ordered(m, w) /\ (j \/ Clean(m, w))
  BY DEF Good
<1>3. s \in Sectors /\ i \in Slots /\ Cur(v) = m[s][i] /\ Tab(w, s) = t /\ t # Nobody /\ Pos(w, s, i) = v.dp.ofs
  BY <1>1, <1>2, CurIs, AtSlotIs DEF Index
<1>4. Wrote(v, x, j) /\ x.dp = v.dp /\ x.res = v.res /\ Changed(m, n, s, i, y)
  BY <1>1, PutSlotIs
<1>5. m[s][i].kind \in {"del", "end"}
  BY <1>1, <1>3
<1> HIDE DEF s, i, m, n, x
<1>6. Takes(m, w, j, s, i, y)
  <2>1. /\ y.kind \notin {"end", "dot", "junk"}
        /\ y.kind \in {"file", "label"} => y.clu = 0
        /\ y.kind \in Used => Tab(w, s) # Nobody
        /\ y.kind = "label" => Tab(w, s) = 0
    BY <1>3 DEF Fills, Used, m
  <2>2. ASSUME NEW r \in Sectors, NEW k \in Slots, r # s \/ k # i
        PROVE  /\ y.kind \in Entry /\ m[r][k].kind \in Entry /\ Tab(w, r) = Tab(w, s) => m[r][k].name # y.name
               /\ y.kind = "label" => m[r][k].kind # "label"
    BY <1>3 DEF Fills, NoName, m
  <2>3. ASSUME NEW r \in Sectors, NEW k \in Slots, r # s \/ k # i, m[r][k].kind = "end", Tab(w, r) = Tab(w, s)
        PROVE  Pos(w, s, i) < Pos(w, r, k)
    <3>1. Pos(w, r, k) # Pos(w, s, i)
      BY <1>2, <1>3, <2>3, PosUnique
    <3>2. Pos(w, r, k) \in Nat /\ Pos(w, s, i) \in Nat
      BY <1>2, <1>3, <2>3, PosIs
    <3>3. Stops(m[r][k], {"del", "end"}, {})
      BY <2>3 DEF Stops
    <3>4. ~(Pos(w, r, k) < Pos(w, s, i))
      BY <1>1, <1>3, <2>3, <3>2, <3>3 DEF Passed
    <3> QED
      BY <3>1, <3>2, <3>4
  <2>4. ASSUME NEW r \in Sectors, NEW k \in Slots, y.kind = "dir", m[r][k].kind = "junk"
        PROVE  j \/ Tab(w, r) # y.clu
    <3>1. CASE \E q \in Sectors, l \in Slots : Leads(m, q, l, y.clu)
      BY <1>2, <2>4, <3>1 DEF Clean
    <3>2. CASE ~\E q \in Sectors, l \in Slots : Leads(m, q, l, y.clu)
      BY <2>4, <3>2 DEF Fills, m
    <3> QED
      BY <3>1, <3>2
  <2> QED
    BY <2>1, <2>2, <2>3, <2>4 DEF Takes
<1>7. LeadsBack(m, n, w, s, i, y)
  <2>1. n[s][i] = y /\ \A r \in Sectors, k \in Slots : r # s \/ k # i => n[r][k] = m[r][k]
    BY <1>4 DEF Changed
  <2>2. ASSUME y.kind = "dir" PROVE HasTable(m, w, y) /\ (Alone(n, s, i) => Back(m, y) = Dot(Tab(w, s)))
    <3>1. HasTable(m, w, y)
      BY <2>2 DEF Fills, m
    <3>2. CASE \E r \in Sectors, k \in Slots : Leads(m, r, k, y.clu)
      <4>1. PICK r \in Sectors, k \in Slots : Leads(m, r, k, y.clu)
        BY <3>2
      <4>2. r # s \/ k # i
        BY <1>5, <4>1 DEF Leads
      <4>3. Leads(n, r, k, n[s][i].clu)
        BY <2>1, <4>1, <4>2 DEF Leads
      <4> QED
        BY <3>1, <4>2, <4>3 DEF Alone
    <3>3. CASE ~\E r \in Sectors, k \in Slots : Leads(m, r, k, y.clu)
      BY <1>3, <2>2, <3>1, <3>3 DEF Fills, m
    <3> QED
      BY <3>2, <3>3
  <2>3. ASSUME NEW r \in Sectors, NEW k \in Slots, r # s \/ k # i, m[r][k].kind = "dir", Alone(n, r, k)
        PROVE  Back(m, m[r][k]) = Dot(Tab(w, r))
    <3>1. Alone(m, r, k)
      <4>1. SUFFICES ASSUME NEW q \in Sectors, NEW l \in Slots, Leads(m, q, l, m[r][k].clu) PROVE q = r /\ l = k
        BY DEF Alone
      <4>2. q # s \/ l # i
        BY <1>5, <4>1 DEF Leads
      <4>3. Leads(n, q, l, n[r][k].clu)
        BY <2>1, <2>3, <4>1, <4>2 DEF Leads
      <4> QED
        BY <2>3, <4>3 DEF Alone
    <3> QED
      BY <1>2, <2>3, <3>1, LedIs
  <2> QED
    BY <2>2, <2>3 DEF LeadsBack
<1>8. Good(n, w, j)
  <2>1. m[s][i].kind # "dot" /\ Good(m, w, j)
    BY <1>5 DEF m
  <2> QED
    BY <1>3, <1>4, <1>6, <1>7, <2>1, SlotGood
<1>9. Vol(x, j)
  BY <1>4, <1>8, WroteVol DEF n
<1>10. Kept(v, x, j)
  BY <1>4, <1>9 DEF Kept, Wrote
<1> QED
  BY <1>3, <1>4, <1>5, <1>8, <1>10 DEF m, n, s, i, x

\* dir_register: the table has grown to n, and a slot of it was taken.
Entered(v, x, j, w, t, y) ==
  \E u, n : /\ Grown(Seen(v), w, n, u, t) /\ Good(n, u, j) /\ Kept(v, x, j) /\ Good(Seen(x), u, j)
            /\ x.dp.sect \in Sectors /\ Index(x) \in Slots /\ Tab(u, x.dp.sect) = t /\ x.dp.start = t
            /\ Changed(n, Seen(x), x.dp.sect, Index(x), y) /\ n[x.dp.sect][Index(x)].kind \in {"del", "end"}

\* dir_register enters the slot, or says why not.
LEMMA DirRegisterIs ==
  ASSUME NEW v, NEW j \in BOOLEAN, Vol(v, j), Ok(v), NEW w, Good(Seen(v), w, j), NEW t, t = v.dp.start, Root(w, t),
         NEW y \in SlotSet, Fills(Seen(v), w, j, t, y)
  PROVE  LET x == DirRegister(v, y)
         IN  \/ x.res \in {"DENIED", "DISK_ERR"} /\ \E u : Grew(v, x, j, w, u, t)
             \/ x.res = "OK" /\ Entered(v, x, j, w, t, y)
<1> DEFINE a == DirAlloc(v)
           x == DirRegister(v, y)
<1>1. x = IF a.res = "OK" THEN PutSlot(a, y) ELSE a
  BY DEF DirRegister, Then, Ok
<1>2. PICK u : /\ Grew(v, a, j, w, u, t)
               /\ \/ a.res \in {"DENIED", "DISK_ERR"}
                  \/ a.res = "OK" /\ a.torn = v.torn /\ Vol(a, j) /\ Good(Seen(a), u, j) /\ Room(a, u, t)
  BY DirAllocIs
<1> HIDE DEF a
<1>3. CASE a.res \in {"DENIED", "DISK_ERR"}
  BY <1>1, <1>2, <1>3
<1>4. CASE a.res = "OK" /\ a.torn = v.torn /\ Vol(a, j) /\ Good(Seen(a), u, j) /\ Room(a, u, t)
  <2>1. x = PutSlot(a, y)
    BY <1>1, <1>4
  <2>2. Grown(Seen(v), w, Seen(a), u, t) /\ a.power = v.power /\ w \in Witness /\ Ordered(Seen(v), w)
    BY <1>2 DEF Grew, Good
  <2>3. Fills(Seen(a), u, j, t, y)
    BY <1>4, <2>2, FillsGrown
  <2>4. /\ Kept(a, x, j) /\ Good(Seen(x), u, j) /\ x.dp = a.dp /\ x.res = a.res
        /\ a.dp.sect \in Sectors /\ Index(a) \in Slots /\ Tab(u, a.dp.sect) = t
        /\ Changed(Seen(a), Seen(x), a.dp.sect, Index(a), y)
        /\ Seen(a)[a.dp.sect][Index(a)].kind \in {"del", "end"}
    BY <1>4, <2>1, <2>3, PutGood
  <2>5. Index(x) = Index(a) /\ x.dp.start = t
    BY <1>4, <2>4 DEF Index, Room
  <2>6. Kept(v, x, j)
    BY <1>4, <2>2, <2>4 DEF Kept
  <2> HIDE DEF x
  <2>7. Entered(v, x, j, w, t, y)
    BY <1>4, <2>2, <2>4, <2>5, <2>6 DEF Entered
  <2> QED
    BY <1>4, <2>4, <2>7 DEF x
<1> QED
  BY <1>2, <1>3, <1>4

\* An entry is removed: if another one leads to the same table, that leads back.
LEMMA RemoveGood ==
  ASSUME NEW v, NEW j \in BOOLEAN, Vol(v, j), NEW w, Good(Seen(v), w, j), Standing(v),
         Cur(v).kind \in Used,
         \A r \in Sectors, k \in Slots :
           (r # v.dp.sect \/ k # Index(v)) /\ Cur(v).kind = "dir" /\ Leads(Seen(v), r, k, Cur(v).clu) =>
             Back(Seen(v), Seen(v)[r][k]) = Dot(Tab(w, r))
  PROVE  LET x == PutSlot(v, Del)
         IN  /\ Kept(v, x, j) /\ Good(Seen(x), w, j) /\ x.dp = v.dp /\ x.res = v.res
             /\ v.dp.sect \in Sectors /\ Index(v) \in Slots
             /\ Changed(Seen(v), Seen(x), v.dp.sect, Index(v), Del)
<1> DEFINE m == Seen(v)
           x == PutSlot(v, Del)
           n == Seen(x)
           s == v.dp.sect
           i == Index(v)
<1>1. s \in Sectors /\ i \in Slots /\ Cur(v) = m[s][i]
  BY CurIs DEF Standing
<1>2. Wrote(v, x, j) /\ x.dp = v.dp /\ x.res = v.res /\ Changed(m, n, s, i, Del)
  BY BlankIs, PutSlotIs
<1>3. /\ m[s][i].kind \in Used
      /\ \A r \in Sectors, k \in Slots :
           (r # s \/ k # i) /\ m[s][i].kind = "dir" /\ Leads(m, r, k, m[s][i].clu) => Back(m, m[r][k]) = Dot(Tab(w, r))
  BY <1>1
<1>4. Good(m, w, j) /\ Led(m, w)
  BY DEF Good
<1> HIDE DEF s, i, m, n, x
<1>5. Takes(m, w, j, s, i, Del)
  BY BlankIs DEF Takes, Used, Entry
<1>6. LeadsBack(m, n, w, s, i, Del)
  <2>1. n[s][i] = Del /\ \A r \in Sectors, k \in Slots : r # s \/ k # i => n[r][k] = m[r][k]
    BY <1>2 DEF Changed
  <2>2. ASSUME NEW r \in Sectors, NEW k \in Slots, r # s \/ k # i, m[r][k].kind = "dir", Alone(n, r, k)
        PROVE  Back(m, m[r][k]) = Dot(Tab(w, r))
    <3>1. CASE Leads(m, s, i, m[r][k].clu)
      BY <1>3, <2>2, <3>1 DEF Leads
    <3>2. CASE ~Leads(m, s, i, m[r][k].clu)
      <4>1. Alone(m, r, k)
        <5>1. SUFFICES ASSUME NEW q \in Sectors, NEW l \in Slots, Leads(m, q, l, m[r][k].clu) PROVE q = r /\ l = k
          BY DEF Alone
        <5>2. q # s \/ l # i
          BY <3>2, <5>1
        <5>3. Leads(n, q, l, n[r][k].clu)
          BY <2>1, <2>2, <5>1, <5>2 DEF Leads
        <5> QED
          BY <2>2, <5>3 DEF Alone
      <4> QED
        BY <1>4, <2>2, <4>1, LedIs
    <3> QED
      BY <3>1, <3>2
  <2> QED
    BY <2>2, BlankIs DEF LeadsBack
<1>7. Good(n, w, j)
  <2>1. m[s][i].kind # "dot"
    BY <1>3 DEF Used
  <2> QED
    BY <1>1, <1>2, <1>4, <1>5, <1>6, <2>1, SlotGood
<1>8. Vol(x, j)
  BY <1>2, <1>7, WroteVol DEF n
<1>9. Kept(v, x, j)
  BY <1>2, <1>8 DEF Kept, Wrote
<1> QED
  BY <1>1, <1>2, <1>7, <1>9 DEF m, n, s, i, x


-----------------------------------------------------------------------------
(* The calls.                                                              *)

\* An error is stored.
LEMMA FailReads ==
  ASSUME NEW v, NEW j, Vol(v, j), NEW r \in Results
  PROVE  LET x == Fail(v, r)
         IN  Reads(v, x, j) /\ x.res = r /\ x.dp = v.dp /\ x.val = v.val
<1>1. v \in Vols
  BY VolIs
<1>2. Fail(v, r) \in Vols /\ Fail(v, r).res = r /\ Alike(v, Fail(v, r)) /\ Fail(v, r).torn = v.torn
      /\ Fail(v, r).dp = v.dp /\ Fail(v, r).val = v.val
  BY <1>1, StoreIs, StoreAlike
<1> QED
  BY <1>2, AlikeVol

\* The results.
LEMMA ResultsAre ==
  /\ "OK" \in Results /\ "DISK_ERR" \in Results /\ "INT_ERR" \in Results /\ "NO_FILE" \in Results
  /\ "NO_PATH" \in Results /\ "DENIED" \in Results /\ "EXIST" \in Results
BY DEF Results

\* A path that leads to no entry gives the table in which there is none.
LEMMA AbsentIs ==
  ASSUME NEW v, NEW j, NEW w, NEW f, NEW name, Followed(v, f, j, w, name)
  PROVE  LET x == Absent(f)
         IN  /\ Reads(v, x, j)
             /\ \/ x.res = "OK" /\ Root(w, x.dp.start) /\ NoName(Seen(v), w, x.dp.start, name)
                \/ x.res \in {"EXIST", "NO_PATH", "DISK_ERR"}
<1> DEFINE r == IF f.res = "NO_FILE" THEN "OK" ELSE IF f.res = "OK" THEN "EXIST" ELSE f.res
           x == Absent(f)
<1>1. Reads(v, f, j) /\ Vol(f, j)
  BY DEF Followed, Reads
<1>2. r \in Results
  BY <1>1, VolIs, Fields, ResultsAre
<1>3. x = Fail(f, r)
  BY DEF Absent, Fail
<1> HIDE DEF r, x
<1>4. Reads(f, x, j) /\ x.res = r /\ x.dp = f.dp
  BY <1>1, <1>2, <1>3, FailReads
<1>5. Reads(v, x, j)
  BY <1>1, <1>4, ReadsAfter
<1> QED
  BY <1>4, <1>5 DEF Followed, r, x

\* The fields of a slot.
LEMMA SlotIs ==
  ASSUME NEW kind \in Kinds, NEW name \in NameSet, NEW id \in Nat, NEW clu \in Clus \cup {0}
  PROVE  LET y == Slot(kind, name, id, clu)
         IN  y \in SlotSet /\ y.kind = kind /\ y.name = name /\ y.clu = clu
BY DEF Slot, SlotSet

\* The paths are given by the application.
LEMMA PathsAre ==
  /\ \A p \in Paths : p \in Seq(Names) /\ p # <<>> /\ LastName(p) \in NameSet
  /\ \A p \in Listed : p \in Seq(Names)
<1>1. \A p \in Paths \cup Listed : p \in Seq(Names)
  BY PathAssumption DEF Names, Unnamed
<1>2. \A p \in Paths : p # <<>>
  BY PathAssumption
<1>3. ASSUME NEW p \in Paths PROVE LastName(p) \in NameSet
  <2>1. Len(p) \in DOMAIN p
    <3>1. p \in Seq(Names) /\ p # <<>>
      BY <1>1, <1>2
    <3> QED
      BY <3>1
  <2>2. LastName(p) \in {p[i] : i \in DOMAIN p}
    BY <2>1 DEF LastName
  <2> QED
    BY <2>2 DEF NameSet
<1> QED
  BY <1>1, <1>2, <1>3

\* A call in two parts.
LEMMA KeptAfter ==
  ASSUME NEW v, NEW d, NEW x, NEW j
  PROVE  /\ Kept(v, d, j) /\ Kept(d, x, j) => Kept(v, x, j)
         /\ Kept(v, d, j) /\ Fine(d, x, j) => Fine(v, x, j)
         /\ Reads(v, d, j) /\ Fine(d, x, j) => Fine(v, x, j)
         /\ Reads(v, d, j) /\ Kept(d, x, j) => Kept(v, x, j)
         /\ Kept(v, d, j) /\ Reads(d, x, j) => Kept(v, x, j)
BY DEF Kept, Fine, Reads

\* sync_fs at the end of a call.
LEMMA SyncKept ==
  ASSUME NEW v, NEW d, NEW j, Kept(v, d, j), Ok(d)
  PROVE  Kept(v, SyncFs(d), j)
<1>1. Vol(d, j)
  BY DEF Kept
<1>2. Reads(d, SyncFs(d), j)
  BY <1>1, SyncFsIs
<1> QED
  BY <1>2, KeptAfter

\* f_open, creating.
LEMMA CreateIs ==
  ASSUME NEW v, NEW j \in BOOLEAN, Vol(v, j), Ok(v), NEW path \in Paths, NEW id \in Nat
  PROVE  Fine(v, Create(v, path, id), j)
<1> DEFINE f == FollowPath(v, path)
           a == Absent(f)
           y == Slot("file", LastName(path), id, 0)
           x == Create(v, path, id)
<1>1. PICK w : Good(Seen(v), w, j)
  BY DEF Vol, Sane
<1>2. path \in Seq(Names) /\ path # <<>> /\ LastName(path) \in NameSet
  BY PathsAre
<1>3. Followed(v, f, j, w, LastName(path))
  BY <1>1, <1>2, FollowPathIs
<1>4. x = IF a.res = "OK" THEN DirRegister(a, y) ELSE a
  BY DEF Create, Then, Ok
<1> HIDE DEF f
<1>5. /\ Reads(v, a, j)
      /\ \/ a.res = "OK" /\ Root(w, a.dp.start) /\ NoName(Seen(v), w, a.dp.start, LastName(path))
         \/ a.res \in {"EXIST", "NO_PATH", "DISK_ERR"}
  BY <1>3, AbsentIs
<1>6. y \in SlotSet /\ y.kind = "file" /\ y.name = LastName(path) /\ y.clu = 0
  <2>1. "file" \in Kinds
    BY DEF Kinds
  <2> QED
    BY <1>2, <2>1, SlotIs
<1> HIDE DEF a, y, x
<1>7. CASE a.res # "OK"
  BY <1>4, <1>5, <1>7, FineIs DEF x
<1>8. CASE a.res = "OK"
  <2>1. Root(w, a.dp.start) /\ NoName(Seen(v), w, a.dp.start, LastName(path))
    BY <1>5, <1>8
  <2>2. Vol(a, j) /\ Ok(a) /\ Good(Seen(a), w, j) /\ Seen(a) = Seen(v)
    BY <1>1, <1>5, <1>8 DEF Reads, Ok
  <2>3. Fills(Seen(a), w, j, a.dp.start, y)
    BY <1>6, <2>1, <2>2 DEF Fills, Used, Entry
  <2>4. x = DirRegister(a, y)
    BY <1>4, <1>8
  <2>5. \/ \E u : Grew(a, x, j, w, u, a.dp.start)
        \/ Entered(a, x, j, w, a.dp.start, y)
    BY <1>6, <2>1, <2>2, <2>3, <2>4, DirRegisterIs
  <2>6. Fine(a, x, j)
    BY <2>5, FineIs DEF Entered
  <2> QED
    BY <1>5, <2>6, KeptAfter DEF x
<1> QED
  BY <1>7, <1>8

\* A search that has failed forgets its sector.
LEMMA ClosedIs ==
  ASSUME NEW v, NEW j, NEW u, Reads(v, u, j)
  PROVE  LET x == CloseOnError(u)
         IN  /\ Reads(v, x, j) /\ x.res = u.res /\ x.dp.start = u.dp.start
             /\ Ok(u) => x = u
             /\ ~Ok(u) => x.dp.sect = 0
<1> DEFINE x == CloseOnError(u)
           d == [u.dp EXCEPT !.sect = 0]
<1>1. Vol(u, j) /\ u \in Vols /\ u.res \in Results /\ u.dp \in Dps
  BY VolIs, Fields DEF Reads
<1>2. CASE Ok(u)
  BY <1>2 DEF CloseOnError
<1>3. CASE ~Ok(u)
  <2>1. x = At(u, d, u.res)
    BY <1>1, <1>3 DEF CloseOnError, At, Vols
  <2>2. d \in Dps /\ d.sect = 0 /\ d.start = u.dp.start
    BY <1>1 DEF Dps
  <2> HIDE DEF d, x
  <2>3. Reads(u, x, j) /\ x.dp = d /\ x.res = u.res
    BY <1>1, <2>1, <2>2, PutDp
  <2>4. Reads(v, x, j)
    BY <2>3, ReadsAfter
  <2> QED
    BY <1>3, <2>2, <2>3, <2>4 DEF x
<1> QED
  BY <1>2, <1>3

\* The end of a table is no entry.
LEMMA EndOrNot ==
  ASSUME NEW v, NEW j, NEW y, Reads(v, y, j), Ok(y)
  PROVE  LET u == UnlessEnd(y)
         IN  /\ Reads(v, u, j) /\ u.dp = y.dp
             /\ \/ Cur(y).kind = "end" /\ u.res = "NO_FILE"
                \/ Cur(y).kind # "end" /\ u = y /\ u.res = "OK"
<1>1. CASE Cur(y).kind = "end"
  <2>1. UnlessEnd(y) = Fail(y, "NO_FILE")
    BY <1>1 DEF UnlessEnd
  <2>2. Vol(y, j)
    BY DEF Reads
  <2>3. Reads(y, Fail(y, "NO_FILE"), j) /\ Fail(y, "NO_FILE").res = "NO_FILE" /\ Fail(y, "NO_FILE").dp = y.dp
    BY <2>2, ResultsAre, FailReads
  <2> QED
    BY <1>1, <2>1, <2>3, ReadsAfter
<1>2. CASE Cur(y).kind # "end"
  BY <1>2 DEF UnlessEnd, Ok
<1> QED
  BY <1>1, <1>2

\* dir_read from the start of a table.
LEMMA DirReadIs ==
  ASSUME NEW v, NEW j, Vol(v, j), Ok(v), NEW w, Good(Seen(v), w, j), AtSlot(v.dp, w), v.dp.ofs = 0,
         v.dp.sect # 0, v.dp.start # Nobody, NEW kinds
  PROVE  LET x == DirRead(v, kinds)
             t == v.dp.start
         IN  /\ Reads(v, x, j)
             /\ \/ x.res = "OK" /\ Standing(x) /\ AtSlot(x.dp, w) /\ x.dp.start = t /\ Cur(x).kind \in kinds
                \/ /\ x.res = "NO_FILE" /\ x.dp.start = t
                   /\ \A s \in Sectors, i \in Slots :
                        Tab(w, s) = t /\ Seen(v)[s][i].kind \in Used => Seen(v)[s][i].kind \notin kinds
                \/ x.res = "DISK_ERR"
<1> DEFINE t == v.dp.start
           m == Seen(v)
           K == kinds \cup {"end"}
           y == Walk(v, K, {}, FALSE)
           u == IF y.res = "OK" THEN UnlessEnd(y) ELSE y
           x == DirRead(v, kinds)
<1>1. x = CloseOnError(u)
  BY DEF DirRead, Then, Ok
<1>2. Chained(m[FatSect], w) /\ w \in Witness
  BY DEF Good
<1>3. Finds(v, y, j, w, K, {})
  BY <1>2, WalkFinds
<1>4. Reads(v, y, j)
  BY <1>3 DEF Finds
<1> HIDE DEF y, x, K
<1>5. CASE Over(v, y, j, w, K, {})
  <2>1. Reads(v, u, j) /\ u.res = "NO_FILE" /\ u.dp.start = t
    <3>1. CASE y.res = "NO_FILE"
      BY <1>3, <1>4, <3>1 DEF Finds
    <3>2. CASE y.res = "OK" /\ Cur(y).kind = "end"
      BY <1>3, <1>4, <3>2, EndOrNot DEF Finds, Ok
    <3> QED
      BY <1>5, <3>1, <3>2 DEF Over
  <2>2. ASSUME NEW s \in Sectors, NEW i \in Slots, Tab(w, s) = t, m[s][i].kind \in Used PROVE m[s][i].kind \notin kinds
    <3>1. ~Stops(m[s][i], K, {})
      BY <1>3, <1>5, <2>2, OverIs
    <3> QED
      BY <3>1 DEF Stops, K
  <2> HIDE DEF u
  <2>3. Reads(v, x, j) /\ x.res = "NO_FILE" /\ x.dp.start = t
    BY <1>1, <2>1, ClosedIs
  <2> QED
    BY <2>2, <2>3 DEF x
<1>6. CASE y.res = "OK" /\ Cur(y).kind # "end"
  <2>1. u = y /\ Ok(u)
    BY <1>4, <1>6, EndOrNot DEF Ok
  <2>2. x = y
    BY <1>1, <1>4, <2>1, ClosedIs
  <2>3. Standing(y) /\ AtSlot(y.dp, w) /\ y.dp.start = t /\ Stops(Cur(y), K, {})
    BY <1>3, <1>6 DEF Finds
  <2>4. Cur(y).kind \in kinds
    BY <1>6, <2>3 DEF Stops, K
  <2> QED
    BY <1>4, <1>6, <2>2, <2>3, <2>4 DEF x
<1>7. CASE y.res = "DISK_ERR"
  <2>1. u = y
    BY <1>7
  <2>2. Reads(v, x, j) /\ x.res = "DISK_ERR"
    BY <1>1, <1>4, <1>7, <2>1, ClosedIs
  <2> QED
    BY <2>2 DEF x
<1> QED
  BY <1>3, <1>5, <1>6, <1>7 DEF Finds, Over

\* The table at c, to which nothing leads and which holds nothing, is freed.
LEMMA FreeIs ==
  ASSUME NEW v, NEW j \in BOOLEAN, Vol(v, j), Ok(v), NEW w, Good(Seen(v), w, j), NEW c \in Clus, w.own[c] = c,
         \A s \in Sectors, i \in Slots : ~Leads(Seen(v), s, i, c) /\ (Seen(v)[s][i].kind \in Used => Tab(w, s) # c)
  PROVE  LET x == RemoveChain(v, c) IN Kept(v, x, j) /\ x.res \in {"OK", "DISK_ERR"}
<1> DEFINE x == RemoveChain(v, c)
<1>1. \/ x.res = "DISK_ERR" /\ Reads(v, x, j)
      \/ /\ x.res = "OK" /\ Wrote(v, x, j)
         /\ \A s \in Sectors : Seen(x)[s] = Seen(v)[s]
         /\ Seen(x)[FatSect] = Without(Seen(v)[FatSect], w, c)
  BY RemoveChainIs
<1> HIDE DEF x
<1>2. CASE x.res = "DISK_ERR" /\ Reads(v, x, j)
  BY <1>2, FineIs DEF x
<1>3. CASE /\ x.res = "OK" /\ Wrote(v, x, j)
           /\ \A s \in Sectors : Seen(x)[s] = Seen(v)[s]
           /\ Seen(x)[FatSect] = Without(Seen(v)[FatSect], w, c)
  <2>1. Seen(v)[FatSect] \in Fats
    BY VolIs
  <2>2. Good(Seen(x), Freed(w, c), j)
    BY <1>3, <2>1, FreedGood
  <2>3. Vol(x, j)
    BY <1>3, <2>2, WroteVol
  <2> QED
    BY <1>3, <2>3 DEF Kept, Wrote, x
<1> QED
  BY <1>1, <1>2, <1>3


\* No directory has two entries.
Unique(m) == \A s \in Sectors, i \in Slots : m[s][i].kind = "dir" => Alone(m, s, i)

\* The directory that is to be removed: its table holds nothing, or the call fails.
LEMMA EmptyIs ==
  ASSUME NEW f, NEW j, Vol(f, j), Ok(f), NEW w, Good(Seen(f), w, j), There(f, w), NEW d, d = Cur(f), d.kind = "dir",
         NEW e, e = MustBeEmpty(Then(DirSdi(f, d.clu), LAMBDA s : DirRead(s, Named)), f.dp)
  PROVE  /\ Reads(f, e, j)
         /\ \/ /\ e.res = "OK" /\ e.dp = f.dp
               /\ \A s \in Sectors, i \in Slots : Seen(f)[s][i].kind \in Used => Tab(w, s) # d.clu
            \/ e.res \in {"DENIED", "DISK_ERR"}
<1> DEFINE c == d.clu
           z == DirSdi(f, c)
           u == DirRead(z, Named)
           m == Seen(f)
<1>1. Root(w, c) /\ c # 0 /\ c \in Clus
  <2>1. Cur(f) = m[f.dp.sect][Index(f)] /\ f.dp.sect \in Sectors /\ Index(f) \in Slots
    BY ThereIs
  <2>2. HasTable(m, w, d)
    BY <2>1, LedIs DEF Good
  <2> QED
    BY <2>2, Numbers DEF HasTable, Root
<1>2. /\ Reads(f, z, j) /\ Ok(z) /\ z.dp.start = c /\ z.dp.ofs = 0 /\ z.dp.sect # 0 /\ AtSlot(z.dp, w) /\ c # Nobody
  BY <1>1, FirstSlot
<1>3. e = MustBeEmpty(u, f.dp)
  BY <1>2 DEF Then
<1> HIDE DEF z, c
<1>4. Vol(z, j) /\ Good(Seen(z), w, j) /\ Seen(z) = m
  BY <1>2 DEF Reads
<1>5. /\ Reads(z, u, j)
      /\ \/ u.res = "OK"
         \/ /\ u.res = "NO_FILE"
            /\ \A s \in Sectors, i \in Slots : Tab(w, s) = c /\ m[s][i].kind \in Used => m[s][i].kind \notin Named
         \/ u.res = "DISK_ERR"
  BY <1>2, <1>4, DirReadIs
<1> HIDE DEF u
<1>6. Reads(f, u, j) /\ Vol(u, j) /\ u \in Vols
  BY <1>2, <1>5, ReadsAfter, VolIs DEF Reads
<1>7. CASE u.res = "OK"
  <2>1. e = Fail(u, "DENIED")
    BY <1>3, <1>7 DEF MustBeEmpty, Ok
  <2>2. Reads(u, e, j) /\ e.res = "DENIED"
    BY <1>6, <2>1, ResultsAre, FailReads
  <2> QED
    BY <1>6, <2>2, ReadsAfter
<1>8. CASE u.res = "DISK_ERR"
  <2>1. e = u
    BY <1>3, <1>8 DEF MustBeEmpty, Ok
  <2> QED
    BY <1>6, <1>8, <2>1
<1>9. CASE u.res = "NO_FILE"
  <2>1. e = At(u, f.dp, "OK")
    BY <1>3, <1>6, <1>9 DEF MustBeEmpty, At, Vols
  <2>2. f.dp \in Dps
    BY VolIs, Fields
  <2>3. Reads(u, e, j) /\ e.dp = f.dp /\ e.res = "OK"
    BY <1>6, <2>1, <2>2, ResultsAre, PutDp
  <2>4. Reads(f, e, j)
    BY <1>6, <2>3, ReadsAfter
  <2>5. ASSUME NEW s \in Sectors, NEW i \in Slots, m[s][i].kind \in Used PROVE Tab(w, s) # c
    <3>1. SUFFICES ASSUME Tab(w, s) = c PROVE FALSE
      OBVIOUS
    <3>2. m[s][i].kind = "label"
      BY <1>5, <1>9, <2>5, <3>1 DEF Used, Named
    <3>3. Tab(w, s) = 0
      BY <3>2 DEF Good, Ordered
    <3> QED
      BY <1>1, <3>1, <3>3 DEF c
  <2> QED
    BY <2>3, <2>4, <2>5 DEF c
<1> QED
  BY <1>5, <1>7, <1>8, <1>9

\* The entry at the position is removed.
LEMMA DirRemoveIs ==
  ASSUME NEW f, NEW j \in BOOLEAN, Vol(f, j), Ok(f), NEW w, Good(Seen(f), w, j), f.dp.sect \in Sectors, Index(f) \in Slots,
         NEW d, d = Seen(f)[f.dp.sect][Index(f)], d.kind \in Used,
         \A r \in Sectors, k \in Slots :
           (r # f.dp.sect \/ k # Index(f)) /\ d.kind = "dir" /\ Leads(Seen(f), r, k, d.clu) =>
             Back(Seen(f), Seen(f)[r][k]) = Dot(Tab(w, r))
  PROVE  LET x == DirRemove(f)
         IN  \/ x.res = "DISK_ERR" /\ Reads(f, x, j)
             \/ /\ x.res = "OK" /\ Kept(f, x, j) /\ Good(Seen(x), w, j)
                /\ Changed(Seen(f), Seen(x), f.dp.sect, Index(f), Del)
<1> DEFINE p == InWindow(f)
           x == DirRemove(f)
<1>1. x = IF p.res = "OK" THEN PutSlot(p, Del) ELSE p
  BY DEF DirRemove, Then, Ok
<1>2. Reads(f, p, j) /\ p.dp = f.dp /\ ((p.res = "OK" /\ Standing(p)) \/ p.res = "DISK_ERR")
  BY InWindowIs, SectorsAre
<1> HIDE DEF p
<1>3. CASE p.res = "DISK_ERR"
  BY <1>1, <1>2, <1>3
<1>4. CASE p.res = "OK" /\ Standing(p)
  <2>1. Vol(p, j) /\ Seen(p) = Seen(f) /\ Index(p) = Index(f) /\ Good(Seen(p), w, j)
    BY <1>2 DEF Reads, Index
  <2>2. Cur(p) = d
    BY <1>2, <1>4, <2>1, CurIs
  <2>3. \A r \in Sectors, k \in Slots :
           (r # p.dp.sect \/ k # Index(p)) /\ Cur(p).kind = "dir" /\ Leads(Seen(p), r, k, Cur(p).clu) =>
             Back(Seen(p), Seen(p)[r][k]) = Dot(Tab(w, r))
    BY <1>2, <2>1, <2>2
  <2>4. x = PutSlot(p, Del)
    BY <1>1, <1>4
  <2>5. Kept(p, x, j) /\ Good(Seen(x), w, j) /\ x.res = p.res /\ Changed(Seen(p), Seen(x), p.dp.sect, Index(p), Del)
    BY <1>4, <2>1, <2>2, <2>3, <2>4, RemoveGood
  <2>6. Kept(f, x, j)
    BY <1>2, <2>5, KeptAfter
  <2> QED
    BY <1>2, <1>4, <2>1, <2>5, <2>6
<1> QED
  BY <1>2, <1>3, <1>4

\* The part of f_unlink after the entry was found.
LEMMA RemoveEntryIs ==
  ASSUME NEW f, NEW j \in BOOLEAN, Vol(f, j), Ok(f), NEW w, Good(Seen(f), w, j), There(f, w), Unique(Seen(f))
  PROVE  Kept(f, RemoveEntry(f, Cur(f)), j)
<1> DEFINE d == Cur(f)
           m == Seen(f)
           s0 == f.dp.sect
           i0 == Index(f)
           e == IF d.kind = "dir" THEN MustBeEmpty(Then(DirSdi(f, d.clu), LAMBDA s : DirRead(s, Named)), f.dp) ELSE f
           a == IF e.res = "OK" THEN DirRemove(e) ELSE e
           b == IF a.res = "OK" THEN (IF d.clu # 0 THEN RemoveChain(a, d.clu) ELSE a) ELSE a
           x == RemoveEntry(f, d)
<1>1. x = IF b.res = "OK" THEN SyncFs(b) ELSE b
  BY DEF RemoveEntry, Then, Ok
<1>2. /\ s0 \in Sectors /\ i0 \in Slots /\ d = m[s0][i0] /\ d.kind \in Used
      /\ d.kind = "dir" => d.clu \in Clus /\ w.own[d.clu] = d.clu /\ Alone(m, s0, i0)
      /\ d.kind = "file" => d.clu = 0
  <2>1. s0 \in Sectors /\ i0 \in Slots /\ d = m[s0][i0]
    BY ThereIs
  <2>2. d.kind \in Used
    BY DEF There, Entry, Used
  <2>3. d.kind = "dir" => HasTable(m, w, d)
    BY <2>1, LedIs DEF Good
  <2>4. d.kind = "file" => d.clu = 0
    BY <2>1, LedIs DEF Good
  <2>5. d.kind = "dir" => Alone(m, s0, i0)
    BY <2>1 DEF Unique
  <2> QED
    BY <2>1, <2>2, <2>3, <2>4, <2>5 DEF HasTable
<1>3. /\ Reads(f, e, j)
      /\ \/ /\ e.res = "OK" /\ e.dp = f.dp
            /\ d.kind = "dir" => \A s \in Sectors, i \in Slots : m[s][i].kind \in Used => Tab(w, s) # d.clu
         \/ e.res \in {"DENIED", "DISK_ERR"}
  <2>1. CASE d.kind = "dir"
    BY <2>1, EmptyIs
  <2>2. CASE d.kind # "dir"
    BY <2>2, VolIs DEF Ok
  <2> QED
    BY <2>1, <2>2
<1> HIDE DEF e, d, s0, i0, b
<1>4. /\ Kept(f, a, j)
      /\ a.res = "OK" =>
           /\ Vol(a, j) /\ Good(Seen(a), w, j) /\ Changed(m, Seen(a), s0, i0, Del)
           /\ d.kind = "dir" => \A s \in Sectors, i \in Slots : m[s][i].kind \in Used => Tab(w, s) # d.clu
  <2>1. CASE e.res # "OK"
    BY <1>3, <2>1, FineIs
  <2>2. CASE e.res = "OK"
    <3>1. /\ Vol(e, j) /\ Ok(e) /\ Seen(e) = m /\ Good(Seen(e), w, j) /\ e.dp.sect = s0 /\ Index(e) = i0
          /\ d.kind = "dir" => \A s \in Sectors, i \in Slots : m[s][i].kind \in Used => Tab(w, s) # d.clu
      BY <1>3, <2>2 DEF Reads, Ok, Index, s0, i0
    <3>2. \A r \in Sectors, k \in Slots :
            (r # e.dp.sect \/ k # Index(e)) /\ d.kind = "dir" /\ Leads(Seen(e), r, k, d.clu) =>
              Back(Seen(e), Seen(e)[r][k]) = Dot(Tab(w, r))
      BY <1>2, <3>1 DEF Alone
    <3>3. e.dp.sect \in Sectors /\ Index(e) \in Slots /\ d = Seen(e)[e.dp.sect][Index(e)] /\ d.kind \in Used
      BY <1>2, <3>1
    <3>4. a = DirRemove(e)
      BY <2>2
    <3> HIDE DEF a
    <3>5. \/ a.res = "DISK_ERR" /\ Reads(e, a, j)
          \/ /\ a.res = "OK" /\ Kept(e, a, j) /\ Good(Seen(a), w, j)
             /\ Changed(Seen(e), Seen(a), e.dp.sect, Index(e), Del)
      BY <3>1, <3>2, <3>3, <3>4, DirRemoveIs
    <3>6. Kept(e, a, j)
      BY <3>5, FineIs
    <3>7. Kept(f, a, j)
      BY <1>3, <3>6, KeptAfter
    <3> QED
      BY <3>1, <3>5, <3>7 DEF Kept
  <2> QED
    BY <2>1, <2>2
<1> HIDE DEF a
<1>5. Kept(f, b, j)
  <2>1. CASE a.res # "OK" \/ d.clu = 0
    <3>1. b = a
      BY <2>1 DEF b
    <3> QED
      BY <1>4, <3>1
  <2>2. CASE a.res = "OK" /\ d.clu # 0
    <3>1. b = RemoveChain(a, d.clu)
      BY <2>2 DEF b
    <3>2. d.kind = "dir"
      <4>1. d.kind \in Entry
        BY DEF There, d
      <4> QED
        BY <1>2, <2>2, <4>1 DEF Entry
    <3>3. /\ Vol(a, j) /\ Ok(a) /\ Good(Seen(a), w, j) /\ Changed(m, Seen(a), s0, i0, Del)
          /\ \A s \in Sectors, i \in Slots : m[s][i].kind \in Used => Tab(w, s) # d.clu
      BY <1>4, <2>2, <3>2 DEF Ok
    <3>4. ASSUME NEW s \in Sectors, NEW i \in Slots
          PROVE  ~Leads(Seen(a), s, i, d.clu) /\ (Seen(a)[s][i].kind \in Used => Tab(w, s) # d.clu)
      <4>1. CASE s = s0 /\ i = i0
        <5>1. Seen(a)[s][i].kind = "del"
          BY <3>3, <4>1, BlankIs DEF Changed
        <5> QED
          BY <5>1 DEF Leads, Used
      <4>2. CASE s # s0 \/ i # i0
        <5>1. Seen(a)[s][i] = m[s][i]
          BY <3>3, <4>2 DEF Changed
        <5>2. ~Leads(m, s, i, d.clu)
          BY <1>2, <3>2, <4>2 DEF Alone
        <5> QED
          BY <3>3, <5>1, <5>2 DEF Leads
      <4> QED
        BY <4>1, <4>2
    <3>5. Kept(a, b, j)
      BY <1>2, <3>1, <3>2, <3>3, <3>4, FreeIs
    <3> QED
      BY <1>4, <3>5, KeptAfter
  <2> QED
    BY <2>1, <2>2
<1>6. Kept(f, x, j)
  BY <1>1, <1>5, SyncKept DEF Ok
<1> QED
  BY <1>6 DEF x, d

\* f_unlink.
LEMMA UnlinkIs ==
  ASSUME NEW v, NEW j \in BOOLEAN, Vol(v, j), Ok(v), Unique(Seen(v)), NEW path \in Paths, NEW rdo \in BOOLEAN
  PROVE  Fine(v, Unlink(v, path, rdo), j)
<1> DEFINE f == FollowPath(v, path)
           x == Unlink(v, path, rdo)
<1>1. PICK w : Good(Seen(v), w, j)
  BY DEF Vol, Sane
<1>2. path \in Seq(Names) /\ path # <<>>
  BY PathsAre
<1>3. Followed(v, f, j, w, LastName(path))
  BY <1>1, <1>2, FollowPathIs
<1>4. x = IF f.res = "OK" THEN (IF rdo THEN Fail(f, "DENIED") ELSE RemoveEntry(f, Cur(f))) ELSE f
  BY DEF Unlink, Then, Ok
<1> HIDE DEF f, x
<1>5. Reads(v, f, j) /\ Vol(f, j) /\ Seen(f) = Seen(v) /\ Good(Seen(f), w, j)
  BY <1>1, <1>3 DEF Followed, Reads
<1>6. CASE f.res # "OK"
  BY <1>4, <1>5, <1>6, FineIs DEF x
<1>7. CASE f.res = "OK" /\ rdo
  <2>1. Reads(f, Fail(f, "DENIED"), j)
    BY <1>5, ResultsAre, FailReads
  <2> QED
    BY <1>4, <1>5, <1>7, <2>1, ReadsAfter, FineIs DEF x
<1>8. CASE f.res = "OK" /\ ~rdo
  <2>1. There(f, w) /\ Ok(f) /\ Unique(Seen(f))
    BY <1>3, <1>5, <1>8 DEF Followed, Ok
  <2>2. Kept(f, RemoveEntry(f, Cur(f)), j)
    BY <1>5, <2>1, RemoveEntryIs
  <2> QED
    BY <1>4, <1>5, <1>8, <2>2, KeptAfter, FineIs DEF x
<1> QED
  BY <1>6, <1>7, <1>8

-----------------------------------------------------------------------------
(* Calls that change an entry or the label.                                *)

\* Sectors with the same slots are the same.
LEMMA SameIs ==
  ASSUME NEW m, NEW n, IsMem(m), IsMem(n), n[FatSect] = m[FatSect],
         \A s \in Sectors, i \in Slots : n[s][i] = m[s][i]
  PROVE  n = m
<1>1. \A s \in Sectors : m[s] = [i \in Slots |-> m[s][i]] /\ n[s] = [i \in Slots |-> n[s][i]]
  BY DEF IsMem, Blocks
<1>2. \A s \in Sectors : n[s] = m[s]
  <2>1. ASSUME NEW s \in Sectors PROVE n[s] = m[s]
    BY <1>1
  <2> QED
    BY <2>1
<1>3. \A s \in Sectors \cup {FatSect} : n[s] = m[s]
  BY <1>2
<1>4. m = [s \in Sectors \cup {FatSect} |-> m[s]] /\ n = [s \in Sectors \cup {FatSect} |-> n[s]]
  BY DEF IsMem
<1> QED
  BY <1>3, <1>4

\* f_chmod.
LEMMA ChmodIs ==
  ASSUME NEW v, NEW j \in BOOLEAN, Vol(v, j), Ok(v), NEW path \in Paths
  PROVE  Fine(v, Chmod(v, path), j)
<1> DEFINE f == FollowPath(v, path)
           y == PutSlot(f, Cur(f))
           x == Chmod(v, path)
<1>1. PICK w : Good(Seen(v), w, j)
  BY DEF Vol, Sane
<1>2. path \in Seq(Names) /\ path # <<>>
  BY PathsAre
<1>3. Followed(v, f, j, w, LastName(path))
  BY <1>1, <1>2, FollowPathIs
<1>4. x = IF f.res = "OK" THEN SyncFs(y) ELSE f
  BY DEF Chmod, Then, Ok
<1> HIDE DEF f, x
<1>5. Reads(v, f, j) /\ Vol(f, j) /\ Good(Seen(f), w, j)
  BY <1>1, <1>3 DEF Followed, Reads
<1>6. CASE f.res # "OK"
  BY <1>4, <1>5, <1>6, FineIs DEF x
<1>7. CASE f.res = "OK"
  <2>1. There(f, w)
    BY <1>3, <1>7 DEF Followed
  <2>2. f.dp.sect \in Sectors /\ Index(f) \in Slots /\ Cur(f) = Seen(f)[f.dp.sect][Index(f)] /\ Cur(f) \in SlotSet
    BY <1>5, <2>1, ThereIs
  <2>3. Wrote(f, y, j) /\ y.res = f.res /\ Changed(Seen(f), Seen(y), f.dp.sect, Index(f), Cur(f))
    BY <1>5, <2>1, <2>2, PutSlotIs DEF There
  <2> HIDE DEF y
  <2>4. IsMem(Seen(f)) /\ IsMem(Seen(y)) /\ Seen(y)[FatSect] = Seen(f)[FatSect]
    BY <1>5, <2>3 DEF Vol, Sane, Wrote, Changed
  <2>5. \A s \in Sectors, i \in Slots : Seen(y)[s][i] = Seen(f)[s][i]
    BY <2>2, <2>3 DEF Changed
  <2>6. Good(Seen(y), w, j)
    BY <1>5, <2>4, <2>5, SameIs
  <2>7. Vol(y, j)
    BY <2>3, <2>6, WroteVol
  <2>8. Kept(f, y, j) /\ Ok(y)
    BY <1>7, <2>3, <2>7 DEF Kept, Wrote, Ok
  <2>9. Kept(f, SyncFs(y), j)
    BY <2>8, SyncKept
  <2> QED
    BY <1>4, <1>5, <1>7, <2>9, KeptAfter, FineIs DEF x
<1> QED
  BY <1>6, <1>7

\* The label takes the place of the label.
LEMMA RelabelIs ==
  ASSUME NEW v, NEW j \in BOOLEAN, Vol(v, j), NEW w, Good(Seen(v), w, j), Standing(v), Cur(v).kind = "label",
         NEW y \in SlotSet, y.kind = "label", y.clu = 0
  PROVE  Kept(v, PutSlot(v, y), j) /\ PutSlot(v, y).res = v.res
<1> DEFINE m == Seen(v)
           x == PutSlot(v, y)
           n == Seen(x)
           s == v.dp.sect
           i == Index(v)
<1>1. s \in Sectors /\ i \in Slots /\ m[s][i].kind = "label"
  BY CurIs DEF Standing
<1>2. Wrote(v, x, j) /\ x.res = v.res /\ Changed(m, n, s, i, y)
  BY PutSlotIs
<1>3. Good(m, w, j) /\ Led(m, w) /\ Ordered(m, w)
  BY DEF Good
<1> HIDE DEF s, i, m, n, x
<1>4. Takes(m, w, j, s, i, y)
  <2>1. Tab(w, s) # Nobody /\ Tab(w, s) = 0
    BY <1>1, <1>3 DEF Ordered, Used
  <2>2. ASSUME NEW r \in Sectors, NEW k \in Slots, r # s \/ k # i PROVE m[r][k].kind # "label"
    BY <1>1, <1>3, <2>2 DEF Ordered
  <2>3. ASSUME NEW r \in Sectors, NEW k \in Slots, m[r][k].kind = "end", Tab(w, r) = Tab(w, s) PROVE Pos(w, s, i) < Pos(w, r, k)
    BY <1>1, <1>3, <2>3 DEF Ordered, Used
  <2> QED
    BY <2>1, <2>2, <2>3 DEF Takes, Entry
<1>5. LeadsBack(m, n, w, s, i, y)
  <2>1. n[s][i] = y /\ \A r \in Sectors, k \in Slots : r # s \/ k # i => n[r][k] = m[r][k]
    BY <1>2 DEF Changed
  <2>2. ASSUME NEW r \in Sectors, NEW k \in Slots, r # s \/ k # i, m[r][k].kind = "dir", Alone(n, r, k)
        PROVE  Back(m, m[r][k]) = Dot(Tab(w, r))
    <3>1. Alone(m, r, k)
      <4>1. SUFFICES ASSUME NEW q \in Sectors, NEW l \in Slots, Leads(m, q, l, m[r][k].clu) PROVE q = r /\ l = k
        BY DEF Alone
      <4>2. q # s \/ l # i
        BY <1>1, <4>1 DEF Leads
      <4>3. Leads(n, q, l, n[r][k].clu)
        BY <2>1, <2>2, <4>1, <4>2 DEF Leads
      <4> QED
        BY <2>2, <4>3 DEF Alone
    <3> QED
      BY <1>3, <2>2, <3>1, LedIs
  <2> QED
    BY <2>2 DEF LeadsBack
<1>6. Good(n, w, j)
  <2>1. m[s][i].kind # "dot"
    BY <1>1
  <2> QED
    BY <1>1, <1>2, <1>3, <1>4, <1>5, <2>1, SlotGood
<1>7. Vol(x, j)
  BY <1>2, <1>6, WroteVol DEF n
<1> QED
  BY <1>2, <1>7 DEF Kept, Wrote, x

\* f_getlabel and f_setlabel look for the label.
LEMMA FindLabelIs ==
  ASSUME NEW v, NEW j, Vol(v, j), Ok(v), NEW w, Good(Seen(v), w, j)
  PROVE  LET x == FindLabel(v)
         IN  /\ Reads(v, x, j)
             /\ \/ x.res = "OK" /\ Standing(x) /\ Cur(x).kind = "label"
                \/ /\ x.res = "NO_FILE" /\ x.dp.start = 0
                   /\ \A s \in Sectors, i \in Slots : Seen(v)[s][i].kind # "label"
                \/ x.res = "DISK_ERR"
<1> DEFINE z == DirSdi(v, 0)
           x == FindLabel(v)
           m == Seen(v)
<1>1. Root(w, 0)
  BY DEF Root
<1>2. /\ Reads(v, z, j) /\ Ok(z) /\ z.dp.start = 0 /\ z.dp.ofs = 0 /\ z.dp.sect # 0 /\ AtSlot(z.dp, w) /\ 0 # Nobody
  BY <1>1, FirstSlot
<1>3. x = DirRead(z, {"label"})
  BY DEF FindLabel
<1> HIDE DEF z, x
<1>4. Vol(z, j) /\ Good(Seen(z), w, j) /\ Seen(z) = m
  BY <1>2 DEF Reads
<1>5. /\ Reads(z, x, j)
      /\ \/ x.res = "OK" /\ Standing(x) /\ Cur(x).kind \in {"label"}
         \/ /\ x.res = "NO_FILE" /\ x.dp.start = 0
            /\ \A s \in Sectors, i \in Slots : Tab(w, s) = 0 /\ m[s][i].kind \in Used => m[s][i].kind \notin {"label"}
         \/ x.res = "DISK_ERR"
  BY <1>2, <1>3, <1>4, DirReadIs
<1>6. \A s \in Sectors, i \in Slots : m[s][i].kind = "label" => Tab(w, s) = 0 /\ m[s][i].kind \in Used
  BY DEF Good, Ordered, Used
<1>7. Reads(v, x, j)
  BY <1>2, <1>5, ReadsAfter
<1> QED
  BY <1>5, <1>6, <1>7 DEF x

\* f_setlabel.
LEMMA SetLabelIs ==
  ASSUME NEW v, NEW j \in BOOLEAN, Vol(v, j), Ok(v), NEW label \in {Unnamed} \cup Labels
  PROVE  Fine(v, SetLabel(v, label), j)
<1> DEFINE f == FindLabel(v)
           slot == IF label = Unnamed THEN Del ELSE Slot("label", label, 0, 0)
           e == Fail(f, "OK")
           a == DirAlloc(e)
           g == DirRegister(e, slot)
           x == SetLabel(v, label)
<1>1. PICK w : Good(Seen(v), w, j)
  BY DEF Vol, Sane
<1>2. /\ Reads(v, f, j)
      /\ \/ f.res = "OK" /\ Standing(f) /\ Cur(f).kind = "label"
         \/ /\ f.res = "NO_FILE" /\ f.dp.start = 0
            /\ \A s \in Sectors, i \in Slots : Seen(v)[s][i].kind # "label"
         \/ f.res = "DISK_ERR"
  BY <1>1, FindLabelIs
<1>3. x = IF f.res = "OK" THEN SyncFs(PutSlot(f, slot))
          ELSE IF f.res # "NO_FILE" \/ label = Unnamed THEN Fail(f, IF f.res = "NO_FILE" THEN "OK" ELSE f.res)
          ELSE (IF a.res = "OK" THEN SyncFs(PutSlot(a, slot)) ELSE a)
  BY DEF SetLabel, PutLabel, Then, Ok, Unnamed
<1>4. Vol(f, j) /\ Seen(f) = Seen(v) /\ Good(Seen(f), w, j)
  BY <1>1, <1>2 DEF Reads
<1>5. slot \in SlotSet /\ (slot = Del \/ (slot.kind = "label" /\ slot.clu = 0))
  <2>1. CASE label = Unnamed
    BY <2>1, BlankIs
  <2>2. CASE label # Unnamed
    <3>1. label \in NameSet /\ "label" \in Kinds
      BY <2>2 DEF NameSet, Kinds
    <3>2. Slot("label", label, 0, 0) \in SlotSet /\ Slot("label", label, 0, 0).kind = "label" /\ Slot("label", label, 0, 0).clu = 0
      BY <3>1, SlotIs
    <3> QED
      BY <2>2, <3>2
  <2> QED
    BY <2>1, <2>2
<1>6. label # Unnamed => slot.kind = "label" /\ slot.clu = 0
  BY <1>5, BlankIs DEF Slot
<1> HIDE DEF f, slot, x
<1>7. CASE f.res = "OK"
  <2>1. Standing(f) /\ Cur(f).kind = "label"
    BY <1>2, <1>7
  <2>2. Kept(f, PutSlot(f, slot), j) /\ PutSlot(f, slot).res = f.res
    <3>1. CASE slot = Del
      <4>1. Cur(f).kind \in Used /\ Cur(f).kind # "dir"
        BY <2>1 DEF Used
      <4> QED
        BY <1>4, <2>1, <3>1, <4>1, RemoveGood
    <3>2. CASE slot.kind = "label" /\ slot.clu = 0
      BY <1>4, <1>5, <2>1, <3>2, RelabelIs
    <3> QED
      BY <1>5, <3>1, <3>2
  <2>3. Kept(f, SyncFs(PutSlot(f, slot)), j)
    BY <1>7, <2>2, SyncKept DEF Ok
  <2> QED
    BY <1>2, <1>3, <1>7, <2>3, KeptAfter, FineIs DEF x
<1>8. CASE f.res # "OK" /\ (f.res # "NO_FILE" \/ label = Unnamed)
  <2>1. PICK r \in Results : x = Fail(f, r)
    BY <1>2, <1>3, <1>8, ResultsAre
  <2>2. Reads(f, Fail(f, r), j)
    BY <1>4, FailReads
  <2> QED
    BY <1>2, <2>1, <2>2, ReadsAfter, FineIs DEF x
<1>9. CASE f.res = "NO_FILE" /\ label # Unnamed
  <2>1. Reads(f, e, j) /\ e.res = "OK" /\ e.dp = f.dp
    BY <1>4, ResultsAre, FailReads
  <2>2. x = IF a.res = "OK" THEN SyncFs(PutSlot(a, slot)) ELSE a
    BY <1>3, <1>9
  <2>3. g = IF a.res = "OK" THEN PutSlot(a, slot) ELSE a
    BY DEF DirRegister, Then, Ok
  <2> HIDE DEF e
  <2>4. /\ Vol(e, j) /\ Ok(e) /\ Seen(e) = Seen(v) /\ Good(Seen(e), w, j) /\ e.dp.start = 0 /\ Root(w, 0)
        /\ \A s \in Sectors, i \in Slots : Seen(e)[s][i].kind # "label"
    BY <1>2, <1>4, <1>9, <2>1 DEF Reads, Ok, Root
  <2>5. Fills(Seen(e), w, j, 0, slot)
    BY <1>6, <1>9, <2>4 DEF Fills, Used, Entry
  <2>6. \/ g.res \in {"DENIED", "DISK_ERR"} /\ \E u : Grew(e, g, j, w, u, 0)
        \/ g.res = "OK" /\ Entered(e, g, j, w, 0, slot)
    BY <1>5, <2>4, <2>5, DirRegisterIs
  <2>7. PutSlot(a, slot).res = a.res
    <3>1. \E u : /\ Grew(e, a, j, w, u, 0)
    BY <2>4, DirAllocIs
    <3>2. a \in Vols
      BY <3>1, VolIs DEF Grew
    <3> HIDE DEF a
    <3> QED
      BY <3>2 DEF PutSlot, Vols
  <2> HIDE DEF a, g
  <2>8. Fine(e, x, j)
    <3>1. CASE a.res = "OK"
      <4>1. g.res = "OK" /\ x = SyncFs(g)
        BY <2>2, <2>3, <2>7, <3>1
      <4>2. Kept(e, g, j)
        BY <2>6, <4>1 DEF Entered
      <4> QED
        BY <4>1, <4>2, SyncKept, FineIs DEF Ok
    <3>2. CASE a.res # "OK"
      <4>1. x = g /\ g.res # "OK"
        BY <2>2, <2>3, <3>2
      <4> QED
        BY <2>6, <4>1, FineIs
    <3> QED
      BY <3>1, <3>2
  <2>9. Reads(v, e, j)
    BY <1>2, <2>1, ReadsAfter
  <2> QED
    BY <2>8, <2>9, KeptAfter DEF x
<1> QED
  BY <1>7, <1>8, <1>9


-----------------------------------------------------------------------------
(* f_mkdir.                                                                *)

\* The window is blank when dir_register begins, and is not looked at.
LEMMA ReadAnew ==
  ASSUME NEW v \in Vols, Ok(v), NEW y \in Wins, ~v.win.dirty, ~y.dirty, NEW d \in Vols, d = PutWin(v, y), NEW s, s # v.win.at, s # y.at
  PROVE  MoveWindow(d, s) = MoveWindow(v, s)
<1>1. d.win = y /\ d.left = v.left /\ d.card = v.card /\ d.res = v.res
  BY DEF PutWin, Vols
<1>2. SyncWindow(v) = v /\ SyncWindow(d) = d
  BY <1>1 DEF SyncWindow
<1>3. ReadSector(d, s) = ReadSector(v, s)
  BY <1>1 DEF ReadSector, Spent, Stopped, Fail, PutWin, Vols
<1>4. MoveWindow(v, s) = ReadSector(v, s)
  BY <1>2 DEF MoveWindow, Then, Ok
<1>5. MoveWindow(d, s) = ReadSector(d, s)
  BY <1>1, <1>2 DEF MoveWindow, Then, Ok
<1> QED
  BY <1>3, <1>4, <1>5

\* dir_register does not see what the window held before.
LEMMA BlankedIs ==
  ASSUME NEW v \in Vols, Ok(v), ~v.win.dirty, v.dp.start \in Clus \cup {0}, v.win.at # StartOf(v.dp.start).sect, NEW y
  PROVE  DirRegister([v EXCEPT !.win.data = Blank], y) = DirRegister(v, y)
<1> DEFINE t == v.dp.start
           d == StartOf(t)
           z == [v.win EXCEPT !.data = Blank]
           b == [v EXCEPT !.win.data = Blank]
           e == At(v, d, v.res)
           g == At(b, d, v.res)
<1>1. v.win \in Wins /\ v.dp \in Dps /\ d \in Dps /\ d.sect \in Sectors /\ v.res = "OK" /\ v.res \in Results
  BY Fields, AtStart DEF Ok
<1>2. z \in Wins /\ ~z.dirty /\ z.at = v.win.at
  BY <1>1, BlankIs DEF Wins
<1>3. b = PutWin(v, z)
  BY DEF PutWin
<1> HIDE DEF z, b
<1>4. b \in Vols /\ b.res = v.res /\ b.dp = v.dp
  BY <1>2, <1>3 DEF PutWin, Vols
<1>5. d.sect # 0 /\ d.sect = (IF t = 0 THEN RootAt ELSE Clust2Sect(t))
  BY <1>1, SectorsAre DEF StartOf
<1>6. FromStart(v) = [v EXCEPT !.dp = d]
  BY <1>5 DEF FromStart, DirSdi, StartOf
<1>7. FromStart(b) = [b EXCEPT !.dp = d]
  BY <1>4, <1>5 DEF FromStart, DirSdi, StartOf
<1> HIDE DEF d, t
<1>8. FromStart(v) = e /\ e \in Vols /\ e.res = "OK" /\ e.win = v.win /\ e.dp = d
  BY <1>1, <1>6 DEF At, Vols
<1>9. FromStart(b) = g /\ g.dp = d /\ g.res = "OK"
  BY <1>1, <1>4, <1>7 DEF At, Vols
<1>10. g = PutWin(e, z)
  BY <1>1, <1>2, <1>3 DEF At, PutWin, Vols
<1> HIDE DEF e, g
<1>11. g \in Vols
  BY <1>2, <1>8, <1>10 DEF PutWin, Vols
<1>12. InWindow(g) = InWindow(e)
  <2>1. d.sect # e.win.at /\ d.sect # z.at
    BY <1>2, <1>8 DEF d, t
  <2>2. MoveWindow(g, d.sect) = MoveWindow(e, d.sect)
    BY <1>2, <1>8, <1>10, <1>11, <2>1, ReadAnew DEF Ok
  <2> QED
    BY <1>8, <1>9, <2>2 DEF InWindow
<1>13. DirAlloc(b) = DirAlloc(v)
  BY <1>8, <1>9, <1>12 DEF DirAlloc, Then, Ok, Walk
<1> QED
  BY <1>13 DEF DirRegister, b

\* The cluster of a table without an entry is freed.
LEMMA UnmakeIs ==
  ASSUME NEW r, NEW j \in BOOLEAN, Vol(r, j), ~Ok(r), NEW w, Good(Seen(r), w, j), NEW c \in Clus, w.own[c] = c,
         \A s \in Sectors, i \in Slots : ~Leads(Seen(r), s, i, c) /\ (Seen(r)[s][i].kind \in Used => Tab(w, s) # c)
  PROVE  Kept(r, SyncOrFree(r, c), j)
<1> DEFINE a == Fail(r, "OK")
           b == RemoveChain(a, c)
<1>1. Reads(r, a, j) /\ a.res = "OK"
  BY ResultsAre, FailReads
<1>2. SyncOrFree(r, c) = Fail(b, r.res)
  BY DEF SyncOrFree
<1> HIDE DEF a
<1>3. Vol(a, j) /\ Ok(a) /\ Seen(a) = Seen(r)
  BY <1>1 DEF Reads, Ok
<1>4. Kept(a, b, j)
  BY <1>3, FreeIs
<1> HIDE DEF b
<1>5. r.res \in Results /\ Vol(b, j)
  BY <1>4, VolIs, Fields DEF Kept
<1>6. Reads(b, Fail(b, r.res), j)
  BY <1>5, FailReads
<1> QED
  BY <1>1, <1>2, <1>4, <1>6, KeptAfter


\* The first sector of a new table.
Dots(c, t) == [Blank EXCEPT ![1] = Dot(c), ![2] = Dot(t)]

\* The first sector of a new table.
LEMMA DotsAre ==
  ASSUME NEW c \in Clus, NEW t \in Clus \cup {0}, NEW b, b = Dots(c, t)
  PROVE  Fresh(b) /\ b[1] = Dot(c) /\ b[2] = Dot(t) /\ Dot(t).kind = "dot"
<1>1. \A e \in Clus \cup {0} : Dot(e) \in SlotSet /\ Dot(e).kind = "dot"
  <2> SUFFICES ASSUME NEW e \in Clus \cup {0} PROVE Dot(e) \in SlotSet /\ Dot(e).kind = "dot"
    OBVIOUS
  <2>1. "dot" \in Kinds /\ "" \in NameSet
    BY DEF Kinds, NameSet
  <2> QED
    BY <2>1 DEF Dot, Slot, SlotSet
<1>2. 1 \in Slots /\ 2 \in Slots /\ Blank \in Blocks /\ \A i \in Slots : Blank[i] = End
  BY Numbers, BlankIs
<1>3. b[1] = Dot(c) /\ b[2] = Dot(t) /\ \A i \in Slots : i # 1 /\ i # 2 => b[i] = End
  BY <1>2 DEF Blocks, Dots
<1>4. b \in Blocks
  BY <1>1, <1>2 DEF Blocks, Dots
<1>5. End.kind = "end"
  BY BlankIs
<1>6. \A i \in Slots : b[i].kind \in {"dot", "end"}
  BY <1>1, <1>3, <1>5
<1> QED
  BY <1>1, <1>3, <1>4, <1>6 DEF Fresh, Used

\* The cluster that f_mkdir took may be filled.
LEMMA MayFillNew ==
  ASSUME NEW m, NEW n, NEW w, NEW j, Good(m, w, j), NEW c \in Clus, w.own[c] = Nobody,
         NEW u \in Witness, u = Found1(w, c), u.own[c] = c, \A x \in Clus : x # c => u.own[x] = w.own[x] /\ u.idx[x] = w.idx[x],
         \A s \in Sectors : n[s] = m[s]
  PROVE  /\ MayFill(n, u, c)
         /\ \A s \in Sectors : Tab(u, s) = c => s \in Area(c)
         /\ \A s \in Sectors : s \notin Area(c) => Tab(u, s) = Tab(w, s)
<1>1. w \in Witness /\ Led(m, w) /\ Ordered(m, w)
  BY DEF Good
<1>2. \A s \in Sectors :
        /\ Tab(w, s) # Nobody \/ s < Database \/ Cl(s) # c => Tab(u, s) = Tab(w, s)
        /\ s >= Database /\ Cl(s) = c => Tab(w, s) = Nobody /\ Tab(u, s) = c
  BY <1>1, OutsideIs
<1>3. \A s \in Area(c) : s \in Sectors /\ Tab(w, s) = Nobody /\ Tab(u, s) = c
  BY <1>2, InArea
<1>4. \A s \in Sectors : s \notin Area(c) => Tab(u, s) = Tab(w, s)
  <2>1. SUFFICES ASSUME NEW s \in Sectors, s \notin Area(c) PROVE Tab(u, s) = Tab(w, s)
    OBVIOUS
  <2>2. s < Database \/ Cl(s) # c
    BY <2>1, AreaOf, SectorsAre, Numbers
  <2> QED
    BY <1>2, <2>2
<1>5. \A r \in Sectors, k \in Slots : m[r][k].kind = "dir" => m[r][k].clu # c
  <2>1. SUFFICES ASSUME NEW r \in Sectors, NEW k \in Slots, m[r][k].kind = "dir", m[r][k].clu = c PROVE FALSE
    OBVIOUS
  <2>2. HasTable(m, w, m[r][k])
    BY <1>1, <2>1, LedIs
  <2>3. w.own[c] = c
    BY <2>1, <2>2 DEF HasTable
  <2> QED
    BY <2>3, Numbers
<1>6. \A s \in Sectors, i \in Slots : m[s][i].kind \in Used => Tab(w, s) # Nobody
  BY <1>1 DEF Ordered
<1>7. \A s \in Sectors : Tab(u, s) = c => s \in Area(c)
  <2>1. SUFFICES ASSUME NEW s \in Sectors, Tab(u, s) = c, s \notin Area(c) PROVE FALSE
    OBVIOUS
  <2>2. Tab(w, s) = c
    BY <1>4, <2>1
  <2>3. s >= Database
    BY <1>1, <2>2, TabIs, SectorsAre, Numbers
  <2>4. Cl(s) \in Clus /\ w.own[Cl(s)] = c
    BY <1>1, <2>2, <2>3, TabIs
  <2>5. Chained(m[FatSect], w)
    BY DEF Good
  <2>6. c # Nobody
    BY Numbers
  <2>7. w.own[c] = c
    BY <1>1, <2>4, <2>5, <2>6, OwnedIs
  <2> QED
    BY <2>6, <2>7
<1>8. \A r \in Sectors, k \in Slots : m[r][k].kind \in Used => Tab(u, r) # c
  BY <1>3, <1>6, <1>7
<1>9. MayFill(n, u, c)
  BY <1>3, <1>5, <1>6, <1>8 DEF MayFill
<1> QED
  BY <1>4, <1>7, <1>9

\* The table of a new directory is written, then its entry, or its cluster is freed.
LEMMA TableMade ==
  ASSUME NEW a, NEW j \in BOOLEAN, Vol(a, j), Ok(a), NEW w, Good(Seen(a), w, j), NEW t, t = a.dp.start, Root(w, t),
         NEW name \in NameSet, NoName(Seen(a), w, t, name), NEW id \in Nat,
         NEW c, c.dp = a.dp, c.res = "OK", Wrote(a, c, j), c.val \in Clus, Seen(a)[FatSect][c.val] = 0,
         \A s \in Sectors : Seen(c)[s] = Seen(a)[s], Seen(c)[FatSect] = Taken(Seen(a)[FatSect], c.val, 0)
  PROVE  Fine(a, MakeDir(c, name, id), j)
<1> DEFINE m == Seen(a)
           f == m[FatSect]
           k == c.val
           u == Found1(w, k)
           dots == [Blank EXCEPT ![1] = Dot(k), ![2] = Dot(t)]
           y == Slot("dir", name, id, k)
           s0 == SyncWindow(c)
           b == WriteTable(s0, k, dots)
           z == [b EXCEPT !.win.data = Blank]
           q == IF s0.res = "OK" THEN b ELSE s0
           r == IF q.res = "OK" THEN DirRegister([q EXCEPT !.win.data = Blank], y) ELSE q
           x == MakeDir(c, name, id)
<1>1. x = SyncOrFree(r, k)
  BY DEF MakeDir, Then, Ok
<1>2. /\ w \in Witness /\ Chained(f, w) /\ Ordered(m, w) /\ f \in Fats /\ t \in Clus \cup {0} /\ (t # 0 => w.own[t] = t)
      /\ w.own[k] = Nobody
  <2>1. w \in Witness /\ Chained(f, w) /\ Ordered(m, w) /\ f \in Fats
    BY VolIs DEF Good
  <2>2. w.own[k] = Nobody
    BY <2>1 DEF Chained
  <2> QED
    BY <2>1, <2>2 DEF Root
<1>3. /\ u \in Witness /\ u.own[k] = k
      /\ \A e \in Clus : e # k => u.own[e] = w.own[e] /\ u.idx[e] = w.idx[e]
  BY <1>2, AllocChained
<1>4. k # t
  BY <1>2, Numbers
<1> HIDE DEF r, q, z, b, s0, u, y
<1>5. Good(Seen(c), u, j)
  BY <1>2, AllocGood DEF u
<1>6. Vol(c, j) /\ Kept(a, c, j)
  <2>1. Vol(c, j)
    BY <1>5, WroteVol
  <2> QED
    BY <2>1 DEF Kept, Wrote
<1>7. /\ MayFill(Seen(c), u, k)
      /\ \A s \in Sectors : Tab(u, s) = k => s \in Area(k)
      /\ \A s \in Sectors : s \notin Area(k) => Tab(u, s) = Tab(w, s)
  BY <1>2, <1>3, MayFillNew DEF u
\* An error: nothing leads to the cluster, nothing is in it.
<1>8. ASSUME NEW e, Kept(a, e, j), Good(Seen(e), u, j), ~Ok(e), MayFill(Seen(e), u, k)
      PROVE  Fine(a, SyncOrFree(e, k), j)
  <2>1. \A s \in Sectors, i \in Slots : ~Leads(Seen(e), s, i, k) /\ (Seen(e)[s][i].kind \in Used => Tab(u, s) # k)
    BY <1>7, <1>8 DEF MayFill, Leads
  <2>2. Vol(e, j)
    BY <1>8 DEF Kept
  <2>3. Kept(e, SyncOrFree(e, k), j)
    BY <1>3, <1>8, <2>1, <2>2, UnmakeIs
  <2> QED
    BY <1>8, <2>3, KeptAfter, FineIs
<1>9. /\ Reads(c, s0, j) /\ s0.dp = a.dp /\ s0.val = k
      /\ \/ s0.res = "OK" /\ ~s0.win.dirty
         \/ s0.res = "DISK_ERR"
  BY <1>6, SyncWindowIs DEF s0
<1>10. Kept(a, s0, j) /\ Seen(s0) = Seen(c) /\ Vol(s0, j)
  BY <1>6, <1>9, KeptAfter DEF Reads
<1>11. CASE s0.res = "DISK_ERR"
  <2>1. r = s0 /\ ~Ok(s0)
    BY <1>11 DEF r, q, Ok
  <2> QED
    BY <1>1, <1>5, <1>7, <1>8, <1>10, <2>1
<1>12. CASE s0.res = "OK" /\ ~s0.win.dirty
  <2> HIDE DEF dots
  <2>1. Fresh(dots) /\ dots[1] = Dot(k) /\ dots[2] = Dot(t) /\ Dot(t).kind = "dot"
    <3> HIDE DEF k
    <3>1. k \in Clus
      BY DEF k
    <3>2. dots = Dots(k, t)
      BY DEF dots, Dots
    <3> QED
      BY <1>2, <3>1, <3>2, DotsAre
  <2>2. Filling(s0, b, j, u, k, dots, Csize)
    BY <1>5, <1>7, <1>9, <1>10, <1>12, <2>1, WriteTableIs DEF b, Ok
  <2>3. /\ Vol(b, j) /\ Good(Seen(b), u, j) /\ Kept(s0, b, j) /\ b.dp = a.dp
        /\ \A s \in Sectors : s \notin Area(k) => Seen(b)[s] = m[s]
        /\ MayFill(Seen(b), u, k)
    BY <1>9, <1>10, <2>2 DEF Filling, Kept
  <2>4. Kept(a, b, j)
    BY <1>10, <2>3, KeptAfter DEF Kept
  <2>5. q = b
    BY <1>12 DEF q
  <2>6. CASE b.res # "OK"
    BY <1>1, <1>8, <2>3, <2>4, <2>5, <2>6 DEF r, Ok
  <2>7. CASE b.res = "OK"
    <3>1. /\ ~b.win.dirty /\ b.win.at \in Area(k)
          /\ \A s \in Area(k) : Seen(b)[s] = IF s = Clust2Sect(k) THEN dots ELSE Blank
      <4>1. Csize # 0 /\ Csize \in Nat /\ Clust2Sect(k) \in Nat
        BY Numbers, Area0
      <4>2. \A s \in Area(k) : s < Clust2Sect(k) + Csize
        BY <4>1 DEF Area
      <4> QED
        BY <2>2, <2>7, <4>1, <4>2 DEF Filling
    <3>2. b.win.at # StartOf(t).sect
      <4>1. CASE t = 0
        <5>1. StartOf(t).sect = RootAt /\ b.win.at >= Database
          BY <3>1, <4>1, InArea DEF StartOf
        <5> QED
          BY <5>1, Numbers
      <4>2. CASE t # 0
        <5>1. StartOf(t).sect = Clust2Sect(t) /\ t \in Clus
          BY <1>2, <4>2 DEF StartOf
        <5>2. Cl(Clust2Sect(t)) = t /\ Cl(b.win.at) = k
          BY <3>1, <5>1, InArea, SectorsAre
        <5> QED
          BY <1>4, <5>1, <5>2
      <4> QED
        BY <4>1, <4>2
    <3>3. r = DirRegister(b, y)
      <4>1. b \in Vols /\ Ok(b) /\ b.dp.start = t
        BY <2>3, <2>7, VolIs DEF Ok
      <4>2. r = DirRegister([b EXCEPT !.win.data = Blank], y)
        BY <2>5, <2>7 DEF r
      <4> QED
        BY <1>2, <3>1, <3>2, <4>1, <4>2, BlankedIs
    <3>4. y \in SlotSet /\ y.kind = "dir" /\ y.name = name /\ y.clu = k
      <4>1. "dir" \in Kinds
        BY DEF Kinds
      <4> QED
        BY <4>1, SlotIs DEF y
    <3>5. Fills(Seen(b), u, j, t, y)
      <4>1. NoName(Seen(b), u, t, name)
        <5>1. SUFFICES ASSUME NEW s \in Sectors, NEW i \in Slots, Tab(u, s) = t, Seen(b)[s][i].kind \in Entry
                       PROVE  Seen(b)[s][i].name # name
          BY DEF NoName
        <5>2. s \notin Area(k)
          BY <2>3, <5>1 DEF MayFill, Used, Entry
        <5> QED
          BY <1>7, <2>3, <5>1, <5>2 DEF NoName
      <4>2. Seen(b)[Clust2Sect(k)] = dots
        BY <3>1, SectorsAre
      <4>3. HasTable(Seen(b), u, y) /\ Back(Seen(b), y) = Dot(t)
        BY <1>3, <2>1, <3>4, <4>2 DEF HasTable, Back
      <4>4. \A s \in Sectors, i \in Slots : Seen(b)[s][i].kind = "junk" => Tab(u, s) # k
        <5>1. SUFFICES ASSUME NEW s \in Sectors, NEW i \in Slots, Seen(b)[s][i].kind = "junk", Tab(u, s) = k PROVE FALSE
          OBVIOUS
        <5>2. s \in Area(k)
          BY <1>7, <5>1
        <5>3. Blank[i].kind # "junk" /\ dots[i].kind # "junk"
          BY <2>1, BlankIs DEF Fresh
        <5> QED
          BY <3>1, <5>1, <5>2, <5>3
      <4> QED
        BY <1>4, <3>4, <4>1, <4>3, <4>4 DEF Fills, Used, Entry
    <3>6. Root(u, t)
      BY <1>2, <1>3, <1>4 DEF Root
    <3>7. \/ r.res \in {"DENIED", "DISK_ERR"} /\ \E l : Grew(b, r, j, u, l, t)
          \/ r.res = "OK" /\ Entered(b, r, j, u, t, y)
      BY <2>3, <2>7, <3>3, <3>4, <3>5, <3>6, DirRegisterIs DEF Ok
    <3>8. CASE r.res = "OK" /\ Entered(b, r, j, u, t, y)
      <4>1. Kept(b, r, j)
        BY <3>8 DEF Entered
      <4>2. Kept(a, r, j)
        BY <2>4, <4>1, KeptAfter
      <4>3. x = SyncFs(r)
        BY <1>1, <3>8 DEF SyncOrFree, Ok
      <4> HIDE DEF x
      <4>4. Kept(a, x, j)
        BY <3>8, <4>2, <4>3, SyncKept DEF Ok
      <4> QED
        BY <4>4, FineIs DEF x
    <3>9. CASE r.res \in {"DENIED", "DISK_ERR"} /\ \E l : Grew(b, r, j, u, l, t)
      <4>1. PICK l : Grew(b, r, j, u, l, t)
        BY <3>9
      <4>2. l \in Witness /\ Grown(Seen(b), u, Seen(r), l, t) /\ Ordered(Seen(b), u)
        BY <2>3, <4>1 DEF Grew, Good
      <4>3. l.own[k] = k
        BY <1>3, <4>2, GrownOwn, Numbers
      <4>4. ASSUME NEW s \in Sectors, NEW i \in Slots
            PROVE  ~Leads(Seen(r), s, i, k) /\ (Seen(r)[s][i].kind \in Used => Tab(l, s) # k)
        <5>1. /\ Leads(Seen(r), s, i, k) <=> Leads(Seen(b), s, i, k)
              /\ Seen(r)[s][i].kind \in Used => Seen(r)[s] = Seen(b)[s] /\ Tab(l, s) = Tab(u, s)
          <6>1. u \in Witness /\ l \in Witness /\ Grown(Seen(b), u, Seen(r), l, t) /\ Ordered(Seen(b), u)
            BY <1>3, <4>2
          <6> HIDE DEF k
          <6>2. Leads(Seen(r), s, i, k) <=> Leads(Seen(b), s, i, k)
            BY <6>1, LeadsGrown DEF Leads
          <6>3. Seen(r)[s][i].kind \in Used => Seen(r)[s] = Seen(b)[s] /\ Tab(l, s) = Tab(u, s)
            BY <6>1, LeadsGrown
          <6> QED
            BY <6>2, <6>3
        <5>2. ~Leads(Seen(b), s, i, k) /\ (Seen(b)[s][i].kind \in Used => Tab(u, s) # k)
          BY <1>7, <2>3 DEF MayFill, Leads
        <5> QED
          BY <5>1, <5>2
      <4>5. \E h \in BOOLEAN : Vol(r, h) /\ Good(Seen(r), l, h) /\ (Kept(r, x, h) => Fine(b, x, j))
        <5>1. r.power = b.power
          BY <4>1 DEF Grew
        <5>2. CASE r.torn = b.torn /\ Vol(r, j) /\ Good(Seen(r), l, j)
          <6>1. Kept(r, x, j) => Kept(b, x, j)
            BY <5>1, <5>2 DEF Kept
          <6> QED
            BY <5>2, <6>1, FineIs
        <5>3. CASE r.torn /\ Vol(r, TRUE) /\ Good(Seen(r), l, TRUE)
          <6>1. Kept(r, x, TRUE) => Fine(b, x, j)
            BY <5>1, <5>3 DEF Kept, Fine
          <6> QED
            BY <5>3, <6>1
        <5> QED
          BY <4>1, <5>2, <5>3 DEF Grew
      <4>6. PICK h \in BOOLEAN : Vol(r, h) /\ Good(Seen(r), l, h) /\ (Kept(r, x, h) => Fine(b, x, j))
        BY <4>5
      <4>7. ~Ok(r)
        BY <3>9 DEF Ok
      <4>8. Kept(r, x, h)
        BY <1>1, <4>3, <4>4, <4>6, <4>7, UnmakeIs
      <4> HIDE DEF x
      <4>9. Fine(a, x, j)
        BY <2>4, <4>6, <4>8, KeptAfter
      <4> QED
        BY <4>9 DEF x
    <3> QED
      BY <3>7, <3>8, <3>9
  <2> QED
    BY <2>6, <2>7
<1> QED
  BY <1>9, <1>11, <1>12

\* f_mkdir.
LEMMA MkdirIs ==
  ASSUME NEW v, NEW j \in BOOLEAN, Vol(v, j), Ok(v), NEW path \in Paths, NEW id \in Nat
  PROVE  Fine(v, Mkdir(v, path, id), j)
<1> DEFINE f == FollowPath(v, path)
           a == Absent(f)
           c == NewCluster(a, 0)
           name == LastName(path)
           x == Mkdir(v, path, id)
<1>1. PICK w : Good(Seen(v), w, j)
  BY DEF Vol, Sane
<1>2. path \in Seq(Names) /\ path # <<>> /\ name \in NameSet
  BY PathsAre
<1>3. Followed(v, f, j, w, name)
  BY <1>1, <1>2, FollowPathIs
<1>4. x = IF a.res = "OK" THEN MakeDir(c, name, id) ELSE a
  BY DEF Mkdir, Then, Ok
<1> HIDE DEF f
<1>5. /\ Reads(v, a, j)
      /\ \/ a.res = "OK" /\ Root(w, a.dp.start) /\ NoName(Seen(v), w, a.dp.start, name)
         \/ a.res \in {"EXIST", "NO_PATH", "DISK_ERR"}
  BY <1>3, AbsentIs
<1> HIDE DEF a, c, x
<1>6. CASE a.res # "OK"
  BY <1>4, <1>5, <1>6, FineIs DEF x
<1>7. CASE a.res = "OK"
  <2>1. /\ Vol(a, j) /\ Ok(a) /\ Seen(a) = Seen(v) /\ Good(Seen(a), w, j) /\ Root(w, a.dp.start)
        /\ NoName(Seen(a), w, a.dp.start, name)
    BY <1>1, <1>5, <1>7 DEF Reads, Ok
  <2>2. /\ c.dp = a.dp
        /\ \/ c.res \in {"DENIED", "DISK_ERR"} /\ Reads(a, c, j) /\ c.val \notin Clus
           \/ /\ c.res = "OK" /\ Wrote(a, c, j) /\ c.val \in Clus /\ Seen(a)[FatSect][c.val] = 0
              /\ \A s \in Sectors : Seen(c)[s] = Seen(a)[s]
              /\ Seen(c)[FatSect] = Taken(Seen(a)[FatSect], c.val, 0)
    BY <2>1, NewClusterIs DEF c
  <2>3. x = MakeDir(c, name, id)
    BY <1>4, <1>7
  <2>4. CASE c.res = "OK"
    <3>1. Fine(a, MakeDir(c, name, id), j)
      BY <1>2, <2>1, <2>2, <2>4, TableMade
    <3> QED
      BY <1>5, <2>3, <3>1, KeptAfter DEF x
  <2>5. CASE c.res \in {"DENIED", "DISK_ERR"} /\ Reads(a, c, j) /\ c.val \notin Clus
    <3>1. x = Fail(Fail(Fail(c, "OK"), "INT_ERR"), c.res)
      BY <2>3, <2>5 DEF MakeDir, Then, Ok, SyncOrFree, RemoveChain
    <3>2. Vol(c, j) /\ c.res \in Results
      BY <2>5, VolIs, Fields DEF Reads
    <3>3. Reads(c, Fail(c, "OK"), j)
      BY <3>2, FailReads, ResultsAre
    <3>4. Vol(Fail(c, "OK"), j)
      BY <3>3 DEF Reads
    <3>5. Reads(Fail(c, "OK"), Fail(Fail(c, "OK"), "INT_ERR"), j)
      BY <3>4, FailReads, ResultsAre
    <3>6. Vol(Fail(Fail(c, "OK"), "INT_ERR"), j)
      BY <3>5 DEF Reads
    <3>7. Reads(Fail(Fail(c, "OK"), "INT_ERR"), x, j)
      BY <3>1, <3>2, <3>6, FailReads
    <3>8. Reads(c, x, j)
      BY <3>3, <3>5, <3>7, ReadsAfter
    <3> QED
      BY <1>5, <2>5, <3>8, ReadsAfter, FineIs DEF x
  <2> QED
    BY <2>2, <2>4, <2>5
<1> QED
  BY <1>6, <1>7


-----------------------------------------------------------------------------
(* f_rename.                                                               *)

\* ".." of a directory with two entries is changed.
LEMMA DotGood ==
  ASSUME NEW m, NEW n, NEW w, NEW j \in BOOLEAN, Good(m, w, j), NEW c \in Clus, NEW t, Dot(t).kind = "dot",
         Changed(m, n, Clust2Sect(c), 2, Dot(t)), m[Clust2Sect(c)][2].kind = "dot",
         \A r \in Sectors, k \in Slots : Leads(m, r, k, c) => ~Alone(m, r, k)
  PROVE  Good(n, w, j)
<1> DEFINE s == Clust2Sect(c)
<1>1. w \in Witness /\ Chained(m[FatSect], w) /\ Led(m, w) /\ Ordered(m, w) /\ (j \/ Clean(m, w))
  BY DEF Good
<1>2. /\ n[FatSect] = m[FatSect] /\ s \in Sectors /\ 2 \in Slots /\ 1 \in Slots
      /\ n[s][2].kind = "dot" /\ m[s][2].kind = "dot"
      /\ \A r \in Sectors, k \in Slots : r # s \/ k # 2 => n[r][k] = m[r][k]
  BY SectorsAre, Numbers DEF Changed
<1> HIDE DEF s
<1>3. \A r \in Sectors, k \in Slots :
        n[r][k].kind # "dot" \/ m[r][k].kind # "dot" => n[r][k] = m[r][k]
  BY <1>2
<1>4. Used = {"file", "dir", "label"} /\ Entry = {"file", "dir"}
  BY DEF Used, Entry
<1>5. \A r \in Sectors, k \in Slots : \A e : Leads(n, r, k, e) <=> Leads(m, r, k, e)
  BY <1>3 DEF Leads
<1>6. Led(n, w)
  <2>1. ASSUME NEW r \in Sectors, NEW k \in Slots, n[r][k].kind = "dir"
        PROVE  LET e == n[r][k].clu
               IN  /\ e \in Clus /\ w.own[e] = e
                   /\ n[Clust2Sect(e)][1] = Dot(e) /\ n[Clust2Sect(e)][2].kind = "dot"
                   /\ Alone(n, r, k) => n[Clust2Sect(e)][2] = Dot(Tab(w, r))
    <3> DEFINE e == n[r][k].clu
               a == Clust2Sect(e)
    <3>1. n[r][k] = m[r][k] /\ m[r][k].kind = "dir" /\ e = m[r][k].clu
      BY <1>3, <2>1
    <3>2. /\ e \in Clus /\ w.own[e] = e /\ m[a][1] = Dot(e) /\ m[a][2].kind = "dot"
          /\ Alone(m, r, k) => m[a][2] = Dot(Tab(w, r))
      <4>1. HasTable(m, w, m[r][k]) /\ (Alone(m, r, k) => Back(m, m[r][k]) = Dot(Tab(w, r)))
        BY <1>1, <3>1, LedIs
      <4> QED
        BY <3>1, <4>1 DEF HasTable, Back
    <3>3. a \in Sectors
      BY <3>2, SectorsAre
    <3>4. n[a][1] = m[a][1] /\ n[a][2].kind = "dot"
      BY <1>2, <3>2, <3>3
    <3>5. Alone(n, r, k) => Alone(m, r, k)
      BY <1>5, <3>1 DEF Alone
    <3>6. Alone(m, r, k) => e # c
      BY <3>1 DEF Leads
    <3>7. e # c => a # s
      BY <3>2, SectorsAre, InArea DEF s
    <3>8. a # s => n[a][2] = m[a][2]
      BY <1>2, <3>3
    <3> HIDE DEF a, e
    <3>9. Alone(n, r, k) => n[a][2] = Dot(Tab(w, r))
      BY <3>2, <3>5, <3>6, <3>7, <3>8
    <3> QED
      BY <3>2, <3>4, <3>9 DEF a, e
  <2>2. ASSUME NEW r \in Sectors, NEW k \in Slots, n[r][k].kind \in {"file", "label"} PROVE n[r][k].clu = 0
    <3>1. n[r][k] = m[r][k] /\ m[r][k].kind \in {"file", "label"}
      BY <1>3, <2>2
    <3> QED
      BY <1>1, <3>1, LedIs
  <2>3. ASSUME NEW r \in Sectors, NEW k \in Slots, n[r][k].kind = "junk" PROVE n[r][k].name = Unnamed
    <3>1. n[r][k] = m[r][k] /\ m[r][k].kind = "junk"
      BY <1>3, <2>3
    <3> QED
      BY <1>1, <3>1, LedIs
  <2> QED
    BY <2>1, <2>2, <2>3 DEF Led
<1>7. \A r \in Sectors, k \in Slots : n[r][k].kind \in Used \cup {"end", "junk"} => n[r][k] = m[r][k]
  BY <1>3, <1>4
<1>8. Ordered(n, w)
  <2>1. ASSUME NEW r \in Sectors, NEW k \in Slots
        PROVE  /\ n[r][k].kind \in Used => Tab(w, r) # Nobody
               /\ n[r][k].kind = "label" => Tab(w, r) = 0
    BY <1>1, <1>4, <1>7 DEF Ordered
  <2>2. ASSUME NEW q \in Sectors, NEW i \in Slots, NEW r \in Sectors, NEW k \in Slots
        PROVE  /\ n[q][i].kind \in Entry /\ n[r][k].kind \in Entry /\ Tab(w, q) = Tab(w, r)
                    /\ n[q][i].name = n[r][k].name => q = r /\ i = k
               /\ n[q][i].kind = "label" /\ n[r][k].kind = "label" => q = r /\ i = k
               /\ n[q][i].kind = "end" /\ n[r][k].kind \in Used /\ Tab(w, q) = Tab(w, r) =>
                    Pos(w, r, k) < Pos(w, q, i)
    <3>1. n[q][i].kind \in Used \cup {"end"} => n[q][i] = m[q][i]
      BY <1>7
    <3>2. n[r][k].kind \in Used => n[r][k] = m[r][k]
      BY <1>7
    <3>3. /\ m[q][i].kind \in Entry /\ m[r][k].kind \in Entry /\ Tab(w, q) = Tab(w, r)
               /\ m[q][i].name = m[r][k].name => q = r /\ i = k
          /\ m[q][i].kind = "label" /\ m[r][k].kind = "label" => q = r /\ i = k
          /\ m[q][i].kind = "end" /\ m[r][k].kind \in Used /\ Tab(w, q) = Tab(w, r) =>
               Pos(w, r, k) < Pos(w, q, i)
      BY <1>1 DEF Ordered
    <3> QED
      BY <1>4, <3>1, <3>2, <3>3
  <2> QED
    BY <2>1, <2>2 DEF Ordered
<1>9. j \/ Clean(n, w)
  <2>1. ASSUME ~j, NEW r \in Sectors, NEW k \in Slots, n[r][k].kind = "junk"
        PROVE  Tab(w, r) # 0 /\ \A q \in Sectors, l \in Slots : ~Leads(n, q, l, Tab(w, r))
    <3>1. m[r][k].kind = "junk"
      BY <1>7, <2>1
    <3> QED
      BY <1>1, <1>5, <2>1, <3>1 DEF Clean
  <2> QED
    BY <2>1 DEF Clean
<1> QED
  BY <1>1, <1>2, <1>6, <1>8, <1>9 DEF Good

\* The window is at the first sector of a table.
LEMMA PutDotIs ==
  ASSUME NEW v, NEW j, Vol(v, j), NEW s \in Sectors, v.win.at = s, v.win.data = Seen(v)[s], NEW y \in SlotSet,
         NEW x, x = [v EXCEPT !.win.data[2] = y, !.win.dirty = TRUE]
  PROVE  Wrote(v, x, j) /\ x.dp = v.dp /\ x.res = v.res /\ Changed(Seen(v), Seen(x), s, 2, y)
<1> DEFINE b == v.win.data
           d == [b EXCEPT ![2] = y]
           z == [v.win EXCEPT !.data[2] = y, !.dirty = TRUE]
<1>1. b \in Blocks /\ 2 \in Slots
  BY VolIs, Numbers
<1>2. v \in Vols /\ v.win \in Wins
  BY VolIs, Fields
<1>3. d \in Blocks /\ d[2] = y /\ \A k \in Slots : k # 2 => d[k] = b[k]
  <2> HIDE DEF b
  <2> QED
    BY <1>1 DEF Blocks
<1>4. z \in Wins /\ z.at = s /\ z.data = d /\ z.dirty
  <2>1. d \in Fats \cup Blocks /\ d = [v.win.data EXCEPT ![2] = y]
    BY <1>3
  <2>2. z \in Wins /\ z.at = v.win.at /\ z.data = [v.win.data EXCEPT ![2] = y] /\ z.dirty = TRUE
    BY <1>2, <2>1, WinPut
  <2> HIDE DEF z, d
  <2> QED
    BY <2>1, <2>2
<1>5. x = PutWin(v, z)
  BY <1>2 DEF Vols, PutWin
<1>6. FatSect # s /\ s \in Sectors \cup {FatSect}
  BY SectorsAre
<1> HIDE DEF d, z
<1>7. /\ z.at \in Sectors \cup {FatSect} /\ (v.win.at = z.at \/ ~v.win.dirty)
      /\ (z.at = FatSect => z.data \in Fats) /\ (z.at \in Sectors => z.data \in Blocks)
  BY <1>3, <1>4, <1>6
<1>8. /\ Wrote(v, x, j) /\ Seen(x)[z.at] = z.data
      /\ \A r \in Sectors \cup {FatSect} : r # z.at => Seen(x)[r] = Seen(v)[r]
      /\ x.dp = v.dp /\ x.res = v.res
  BY <1>4, <1>5, <1>7, PutIs
<1>9. /\ Seen(x)[s] = d /\ Seen(v)[s] = b
      /\ \A r \in Sectors \cup {FatSect} : r # s => Seen(x)[r] = Seen(v)[r]
  BY <1>4, <1>8
<1> HIDE DEF b
<1>10. Changed(Seen(v), Seen(x), s, 2, y)
  BY <1>3, <1>6, <1>9 DEF Changed
<1> QED
  BY <1>8, <1>10

\* ".." of a directory that was moved leads to its new parent.
LEMMA RelinkedIs ==
  ASSUME NEW v, NEW j \in BOOLEAN, Vol(v, j), Ok(v), NEW w, Good(Seen(v), w, j), NEW c \in Clus, NEW t \in Clus \cup {0},
         Seen(v)[Clust2Sect(c)][2].kind = "dot",
         \A r \in Sectors, k \in Slots : Leads(Seen(v), r, k, c) => ~Alone(Seen(v), r, k)
  PROVE  LET x == Relinked(v, c, t)
         IN  \/ x.res = "DISK_ERR" /\ Reads(v, x, j)
             \/ /\ x.res = "OK" /\ Kept(v, x, j) /\ Good(Seen(x), w, j)
                /\ Changed(Seen(v), Seen(x), Clust2Sect(c), 2, Dot(t))
<1> DEFINE s == Clust2Sect(c)
           p == MoveWindow(v, s)
           q == [p EXCEPT !.win.data[2] = Dot(t), !.win.dirty = TRUE]
           x == Relinked(v, c, t)
<1>1. x = IF p.res = "OK" THEN (IF p.win.data[2].kind = "dot" THEN q ELSE p) ELSE p
  BY DEF Relinked, Then, Ok
<1>2. s \in Sectors /\ s \in Nat
  BY SectorsAre
<1> HIDE DEF q, s
<1>3. /\ Reads(v, p, j)
      /\ (p.res = "OK" /\ p.win.at = s /\ p.win.data = Seen(v)[s]) \/ p.res = "DISK_ERR"
  BY <1>2, MoveWindowIs
<1> HIDE DEF p
<1>4. CASE p.res = "DISK_ERR"
  BY <1>1, <1>3, <1>4
<1>5. CASE p.res = "OK" /\ p.win.at = s /\ p.win.data = Seen(v)[s]
  <2>1. Vol(p, j) /\ Seen(p) = Seen(v)
    BY <1>3 DEF Reads
  <2>2. x = q
    BY <1>1, <1>5 DEF s
  <2>3. Dot(t) \in SlotSet /\ Dot(t).kind = "dot"
    <3>1. "dot" \in Kinds /\ Unnamed \in NameSet /\ 0 \in Nat
      BY DEF Kinds, NameSet, Unnamed
    <3>2. Dot(t) = Slot("dot", Unnamed, 0, t)
      BY DEF Dot, Unnamed
    <3> QED
      BY <3>1, <3>2, SlotIs
  <2>4. Wrote(p, q, j) /\ q.res = p.res /\ Changed(Seen(p), Seen(q), s, 2, Dot(t))
    BY <1>2, <1>5, <2>1, <2>3, PutDotIs, ZenonT(60) DEF q
  <2> HIDE DEF x
  <2>5. Good(Seen(q), w, j)
    BY <2>1, <2>3, <2>4, DotGood DEF s
  <2>6. Vol(q, j)
    BY <2>4, <2>5, WroteVol
  <2>7. Kept(p, q, j)
    BY <2>4, <2>6 DEF Kept, Wrote
  <2>8. Kept(v, q, j)
    BY <1>3, <2>7, KeptAfter
  <2> QED
    BY <1>5, <2>1, <2>2, <2>4, <2>5, <2>8 DEF x, s
<1> QED
  BY <1>3, <1>4, <1>5

\* The entry under the new name.
LEMMA RenamedIs ==
  ASSUME NEW d \in SlotSet, NEW name \in NameSet, NEW y, y = [d EXCEPT !.name = name]
  PROVE  y \in SlotSet /\ y.kind = d.kind /\ y.name = name /\ y.clu = d.clu
BY DEF SlotSet

\* A directory that is entered a second time: the two entries of it.
LEMMA TwoEntries ==
  ASSUME NEW m, NEW w \in Witness, NEW g, NEW u \in Witness, NEW t, Grown(m, w, g, u, t), Ordered(m, w), Unique(m),
         NEW n, NEW s \in Sectors, NEW i \in Slots, NEW y, Changed(g, n, s, i, y), g[s][i].kind \in {"del", "end"},
         NEW s0 \in Sectors, NEW i0 \in Slots, m[s0][i0].kind = "dir", y.kind = "dir", y.clu = m[s0][i0].clu
  PROVE  /\ Leads(n, s0, i0, y.clu) /\ Leads(n, s, i, y.clu) /\ (s # s0 \/ i # i0)
         /\ \A r \in Sectors, k \in Slots : Leads(n, r, k, y.clu) => (r = s /\ k = i) \/ (r = s0 /\ k = i0)
         /\ \A r \in Sectors, k \in Slots : Leads(n, r, k, y.clu) => ~Alone(n, r, k)
<1>1. /\ n[s][i] = y
      /\ \A r \in Sectors, k \in Slots : r # s \/ k # i => n[r][k] = g[r][k]
  BY DEF Changed
<1>2. Leads(m, s0, i0, y.clu)
  BY DEF Leads
<1>3. Leads(g, s0, i0, y.clu)
  BY <1>2, LeadsGrown DEF Leads
<1>4. s # s0 \/ i # i0
  BY <1>3 DEF Leads
<1>5. Leads(n, s0, i0, y.clu) /\ Leads(n, s, i, y.clu)
  BY <1>1, <1>3, <1>4 DEF Leads
<1>6. ASSUME NEW r \in Sectors, NEW k \in Slots, Leads(n, r, k, y.clu), r # s \/ k # i PROVE r = s0 /\ k = i0
  <2>1. Leads(g, r, k, y.clu)
    BY <1>1, <1>6 DEF Leads
  <2>2. Leads(m, r, k, y.clu)
    BY <2>1, LeadsGrown, SMTT(30) DEF Leads
  <2>3. Alone(m, s0, i0)
    BY DEF Unique
  <2> QED
    BY <2>2, <2>3 DEF Alone
<1>7. ASSUME NEW r \in Sectors, NEW k \in Slots, Leads(n, r, k, y.clu) PROVE ~Alone(n, r, k)
  <2>1. n[r][k].clu = y.clu
    BY <1>7 DEF Leads
  <2> QED
    BY <1>4, <1>5, <2>1 DEF Alone
<1> QED
  BY <1>4, <1>5, <1>6, <1>7

\* The new entry is there; ".." and the old entry follow.
LEMMA MovedIs ==
  ASSUME NEW n, NEW j \in BOOLEAN, NEW w, Good(Seen(n), w, j), Unique(Seen(n)), NEW t, Root(w, t),
         NEW from \in Dps, from.sect \in Sectors, (from.ofs % SpS) + 1 \in Slots, from.start = Tab(w, from.sect),
         NEW d, d = Seen(n)[from.sect][(from.ofs % SpS) + 1], d.kind \in Entry,
         NEW y, y.kind = d.kind, y.clu = d.clu,
         NEW r, Ok(r), Entered(n, r, j, w, t, y)
  PROVE  LET p == Reparent(r, d, from)
             x == Then(p, LAMBDA q : DirRemove([q EXCEPT !.dp = from]))
         IN  Kept(n, Then(x, SyncFs), j)
<1> DEFINE m == Seen(n)
           s0 == from.sect
           i0 == (from.ofs % SpS) + 1
           s == r.dp.sect
           i == Index(r)
           c == d.clu
           p == Reparent(r, d, from)
           q == [p EXCEPT !.dp = from]
           x == IF p.res = "OK" THEN DirRemove(q) ELSE p
           z == IF x.res = "OK" THEN SyncFs(x) ELSE x
<1>1. PICK u, g : /\ Grown(m, w, g, u, t) /\ Good(g, u, j) /\ Kept(n, r, j) /\ Good(Seen(r), u, j)
                  /\ s \in Sectors /\ i \in Slots /\ Tab(u, s) = t /\ r.dp.start = t
                  /\ Changed(g, Seen(r), s, i, y) /\ g[s][i].kind \in {"del", "end"}
  BY DEF Entered
<1>2. w \in Witness /\ u \in Witness /\ Ordered(m, w) /\ Vol(r, j) /\ t \in Clus \cup {0} /\ Led(m, w)
  BY <1>1 DEF Good, Kept, Root
<1>3. s0 \in Sectors /\ i0 \in Slots /\ d = m[s0][i0] /\ d.kind \in Used
  BY DEF Used, Entry
<1>4. g[s0] = m[s0] /\ Tab(u, s0) = from.start /\ Seen(r)[s0][i0] = d /\ (s # s0 \/ i # i0)
  <2> HIDE DEF m, s, i, s0, i0
  <2>1. g[s0] = m[s0] /\ Tab(u, s0) = Tab(w, s0)
    BY <1>1, <1>2, <1>3, UsedGrown
  <2>2. s # s0 \/ i # i0
    BY <1>1, <1>3, <2>1 DEF Used
  <2>3. Seen(r)[s0][i0] = g[s0][i0]
    BY <1>1, <1>3, <2>2 DEF Changed
  <2> QED
    BY <1>3, <2>1, <2>2, <2>3 DEF s0
<1> HIDE DEF q, p, x, m, s, i, i0, z, s0
<1>5. ASSUME d.kind = "dir"
      PROVE  /\ c \in Clus /\ HasTable(g, u, d) /\ Back(g, d) = Dot(from.start)
             /\ Leads(Seen(r), s0, i0, c) /\ Leads(Seen(r), s, i, c)
             /\ \A a \in Sectors, k \in Slots : Leads(Seen(r), a, k, c) => (a = s /\ k = i) \/ (a = s0 /\ k = i0)
             /\ \A a \in Sectors, k \in Slots : Leads(Seen(r), a, k, c) => ~Alone(Seen(r), a, k)
             /\ Seen(r)[Clust2Sect(c)][2] = Dot(from.start) /\ Seen(r)[Clust2Sect(c)][2].kind = "dot"
  <2>1. HasTable(m, w, d) /\ Back(m, d) = Dot(from.start)
    <3>1. Alone(m, s0, i0)
      BY <1>3, <1>5 DEF Unique, m
    <3> QED
      BY <1>2, <1>3, <1>5, <3>1, LedIs DEF s0
  <2>2. HasTable(g, u, d) /\ Back(g, d) = Dot(from.start)
    BY <1>1, <1>2, <2>1, TableGrown
  <2>3. c \in Clus /\ Clust2Sect(c) \in Sectors
    BY <2>2, SectorsAre DEF HasTable
  <2>4. /\ Leads(Seen(r), s0, i0, c) /\ Leads(Seen(r), s, i, c)
        /\ \A a \in Sectors, k \in Slots : Leads(Seen(r), a, k, c) => (a = s /\ k = i) \/ (a = s0 /\ k = i0)
        /\ \A a \in Sectors, k \in Slots : Leads(Seen(r), a, k, c) => ~Alone(Seen(r), a, k)
    <3>1. y.kind = "dir" /\ y.clu = c /\ m[s0][i0].kind = "dir" /\ y.clu = m[s0][i0].clu /\ Unique(m)
      BY <1>3, <1>5 DEF m
    <3> HIDE DEF c
    <3> QED
      BY <1>1, <1>2, <1>3, <3>1, TwoEntries
  <2>5. Seen(r)[Clust2Sect(c)][2] = g[Clust2Sect(c)][2] /\ g[Clust2Sect(c)][2].kind = "dot"
    <3>1. g[Clust2Sect(c)][2].kind = "dot"
      BY <2>2 DEF HasTable
    <3>2. Clust2Sect(c) # s \/ 2 # i
      BY <1>1, <3>1
    <3> QED
      BY <1>1, <2>3, <3>1, <3>2, Numbers DEF Changed
  <2> QED
    BY <2>2, <2>3, <2>4, <2>5 DEF Back
\* ".."
<1>6. \/ p.res = "DISK_ERR" /\ Reads(r, p, j)
      \/ /\ p.res = "OK" /\ Kept(r, p, j) /\ Good(Seen(p), u, j) /\ Seen(p)[s0][i0] = d
         /\ d.kind = "dir" => /\ Seen(p)[Clust2Sect(c)][2] = Dot(t)
                              /\ \A a \in Sectors, k \in Slots : Leads(Seen(p), a, k, c) => (a = s /\ k = i) \/ (a = s0 /\ k = i0)
  <2>1. CASE d.kind = "dir" /\ r.dp.start # from.start
    <3>1. p = Relinked(r, c, t)
      BY <1>1, <2>1 DEF Reparent, p
    <3>2. \/ p.res = "DISK_ERR" /\ Reads(r, p, j)
          \/ /\ p.res = "OK" /\ Kept(r, p, j) /\ Good(Seen(p), u, j)
             /\ Changed(Seen(r), Seen(p), Clust2Sect(c), 2, Dot(t))
      BY <1>1, <1>2, <1>5, <2>1, <3>1, RelinkedIs
    <3>3. CASE /\ p.res = "OK" /\ Kept(r, p, j) /\ Good(Seen(p), u, j)
               /\ Changed(Seen(r), Seen(p), Clust2Sect(c), 2, Dot(t))
      <4>1. /\ Seen(p)[Clust2Sect(c)][2] = Dot(t)
            /\ \A a \in Sectors, k \in Slots : a # Clust2Sect(c) \/ k # 2 => Seen(p)[a][k] = Seen(r)[a][k]
        BY <3>3 DEF Changed
      <4>2. Seen(p)[s0][i0] = d
        BY <1>3, <1>4, <1>5, <2>1, <4>1
      <4>3. \A a \in Sectors, k \in Slots : Leads(Seen(p), a, k, c) => Leads(Seen(r), a, k, c)
        <5>1. Dot(t).kind # "dir"
          BY DEF Dot, Slot
        <5> HIDE DEF c
        <5>2. ASSUME NEW a \in Sectors, NEW k \in Slots, Leads(Seen(p), a, k, c) PROVE Leads(Seen(r), a, k, c)
          <6>1. a # Clust2Sect(c) \/ k # 2
            BY <4>1, <5>1, <5>2 DEF Leads
          <6> QED
            BY <4>1, <5>2, <6>1 DEF Leads
        <5> QED
          BY <5>2
      <4> QED
        BY <1>5, <2>1, <3>3, <4>1, <4>2, <4>3
    <3> QED
      BY <3>2, <3>3
  <2>2. CASE ~(d.kind = "dir" /\ r.dp.start # from.start)
    <3>1. p = r
      BY <2>2 DEF Reparent, p
    <3>2. Kept(r, r, j) /\ r.res = "OK"
      BY <1>2, VolIs, FineIs DEF Ok
    <3> QED
      BY <1>1, <1>4, <1>5, <2>2, <3>1, <3>2
  <2> QED
    BY <2>1, <2>2
\* The old entry.
<1>7. Kept(r, x, j)
  <2>1. CASE p.res = "DISK_ERR"
    BY <1>6, <2>1, FineIs DEF x
  <2>2. CASE p.res = "OK"
    <3>1. /\ Kept(r, p, j) /\ Good(Seen(p), u, j) /\ Seen(p)[s0][i0] = d /\ Vol(p, j)
          /\ d.kind = "dir" => /\ Seen(p)[Clust2Sect(c)][2] = Dot(t)
                               /\ \A a \in Sectors, k \in Slots : Leads(Seen(p), a, k, c) => (a = s /\ k = i) \/ (a = s0 /\ k = i0)
      BY <1>6, <2>2, FineIs DEF Kept
    <3>2. q = At(p, from, p.res)
      <4>1. p \in Vols
        BY <3>1, VolIs
      <4> QED
        BY <4>1 DEF q, At, Vols
    <3>3. Reads(p, q, j) /\ q.dp = from /\ q.res = "OK"
      BY <2>2, <3>1, <3>2, PutDp, ResultsAre
    <3>4. Vol(q, j) /\ Ok(q) /\ Seen(q) = Seen(p) /\ Good(Seen(q), u, j) /\ q.dp.sect = s0 /\ Index(q) = i0
      BY <3>1, <3>3 DEF Reads, Ok, Index, s0, i0
    <3>5. ASSUME NEW a \in Sectors, NEW k \in Slots, a # s0 \/ k # i0, d.kind = "dir", Leads(Seen(q), a, k, d.clu)
          PROVE  Back(Seen(q), Seen(q)[a][k]) = Dot(Tab(u, a))
      <4>1. a = s /\ k = i
        BY <3>1, <3>4, <3>5
      <4>2. Seen(q)[a][k].clu = c
        BY <3>5 DEF Leads
      <4>3. Back(Seen(q), Seen(q)[a][k]) = Dot(t)
        BY <3>1, <3>4, <3>5, <4>2 DEF Back
      <4> QED
        BY <1>1, <4>1, <4>3
    <3>6. x = DirRemove(q)
      BY <2>2 DEF x
    <3> HIDE DEF c
    <3>7. \/ x.res = "DISK_ERR" /\ Reads(q, x, j)
          \/ x.res = "OK" /\ Kept(q, x, j)
      BY <1>3, <3>1, <3>4, <3>5, <3>6, DirRemoveIs
    <3>8. Kept(q, x, j)
      BY <3>7, FineIs
    <3> QED
      BY <3>1, <3>3, <3>8, KeptAfter, FineIs
  <2> QED
    BY <1>6, <2>1, <2>2
<1>8. Kept(n, x, j)
  BY <1>1, <1>7, KeptAfter
<1>9. Kept(n, z, j)
  BY <1>8, SyncKept DEF z, Ok
<1> QED
  BY <1>9 DEF z, x, q, p, Then, Ok

\* The part of f_rename after both paths were followed.
LEMMA MoveIs ==
  ASSUME NEW n, NEW j \in BOOLEAN, Vol(n, j), Ok(n), NEW w, Good(Seen(n), w, j), Unique(Seen(n)),
         NEW t, t = n.dp.start, Root(w, t), NEW name \in NameSet, NoName(Seen(n), w, t, name),
         NEW from \in Dps, from.sect \in Sectors, (from.ofs % SpS) + 1 \in Slots, from.start = Tab(w, from.sect),
         NEW d \in SlotSet, d = Seen(n)[from.sect][(from.ofs % SpS) + 1], d.kind \in Entry
  PROVE  Fine(n, Move(n, d, from, name), j)
<1> DEFINE y == [d EXCEPT !.name = name]
           r == DirRegister(n, y)
           p == IF r.res = "OK" THEN Reparent(r, d, from) ELSE r
           x == IF p.res = "OK" THEN DirRemove([p EXCEPT !.dp = from]) ELSE p
           z == IF x.res = "OK" THEN SyncFs(x) ELSE x
<1>1. Move(n, d, from, name) = z
  BY DEF Move, Then, Ok
<1>2. y \in SlotSet /\ y.kind = d.kind /\ y.name = name /\ y.clu = d.clu
  BY RenamedIs
<1> HIDE DEF y
<1>3. Fills(Seen(n), w, j, t, y)
  <2> DEFINE s == from.sect
             i == (from.ofs % SpS) + 1
             m == Seen(n)
  <2>1. s \in Sectors /\ i \in Slots /\ d = m[s][i] /\ Led(m, w)
    BY DEF Good
  <2> HIDE DEF s, i, m
  <2>2. /\ d.kind = "dir" => HasTable(m, w, d)
        /\ d.kind \in {"file", "label"} => d.clu = 0
    BY <2>1, LedIs
  <2>3. d.kind = "dir" => HasTable(m, w, y) /\ \E a \in Sectors, k \in Slots : Leads(m, a, k, y.clu)
    BY <1>2, <2>1, <2>2 DEF HasTable, Leads
  <2>4. y.kind \in {"file", "dir"} /\ NoName(m, w, t, y.name)
    BY <1>2 DEF Entry, m
  <2> QED
    BY <1>2, <2>2, <2>3, <2>4 DEF Fills, Used, Entry, m
<1>4. \/ r.res \in {"DENIED", "DISK_ERR"} /\ \E u : Grew(n, r, j, w, u, t)
      \/ r.res = "OK" /\ Entered(n, r, j, w, t, y)
  BY <1>2, <1>3, DirRegisterIs
<1> HIDE DEF r
<1>5. CASE r.res \in {"DENIED", "DISK_ERR"} /\ \E u : Grew(n, r, j, w, u, t)
  <2>1. z = r
    BY <1>5
  <2>2. Fine(n, r, j)
    BY <1>5, FineIs
  <2> QED
    BY <1>1, <2>1, <2>2
<1>6. CASE r.res = "OK" /\ Entered(n, r, j, w, t, y)
  <2>1. LET b == Reparent(r, d, from)
            a == Then(b, LAMBDA q : DirRemove([q EXCEPT !.dp = from]))
        IN  Kept(n, Then(a, SyncFs), j)
    BY <1>2, <1>6, MovedIs DEF Ok
  <2>2. Kept(n, z, j)
    BY <1>6, <2>1 DEF Then, Ok
  <2> HIDE DEF z
  <2> QED
    BY <1>1, <2>2, FineIs
<1> QED
  BY <1>4, <1>5, <1>6

\* f_rename.
LEMMA RenameIs ==
  ASSUME NEW v, NEW j \in BOOLEAN, Vol(v, j), Ok(v), Unique(Seen(v)), NEW old \in Paths, NEW new \in Paths
  PROVE  Fine(v, Rename(v, old, new), j)
<1> DEFINE f == FollowPath(v, old)
           a == FollowPath(f, new)
           n == Absent(a)
           d == Cur(f)
           name == LastName(new)
           x == Rename(v, old, new)
<1>1. PICK w : Good(Seen(v), w, j)
  BY DEF Vol, Sane
<1>2. /\ old \in Seq(Names) /\ old # <<>>
      /\ new \in Seq(Names) /\ new # <<>> /\ name \in NameSet
  BY PathsAre
<1>3. Followed(v, f, j, w, LastName(old))
  BY <1>1, <1>2, FollowPathIs
<1>4. x = IF f.res = "OK" THEN Move(n, d, f.dp, name) ELSE f
  BY DEF Rename, Then, Ok
<1> HIDE DEF f, x
<1>5. Reads(v, f, j) /\ Vol(f, j) /\ Seen(f) = Seen(v) /\ Good(Seen(f), w, j)
  BY <1>1, <1>3 DEF Followed, Reads
<1>6. CASE f.res # "OK"
  BY <1>4, <1>5, <1>6, FineIs DEF x
<1>7. CASE f.res = "OK"
  <2>1. There(f, w) /\ Ok(f) /\ d.kind \in Entry
    BY <1>3, <1>7 DEF Followed, There, Ok
  <2>2. /\ f.dp \in Dps /\ f.dp.sect \in Sectors /\ Index(f) \in Slots /\ d = Seen(f)[f.dp.sect][Index(f)] /\ d \in SlotSet
        /\ f.dp.start = Tab(w, f.dp.sect)
    BY <1>5, <2>1, ThereIs, VolIs, Fields
  <2>3. Followed(f, a, j, w, name)
    BY <1>2, <1>5, <2>1, FollowPathIs
  <2> HIDE DEF a, d
  <2>4. /\ Reads(f, n, j)
        /\ \/ n.res = "OK" /\ Root(w, n.dp.start) /\ NoName(Seen(f), w, n.dp.start, name)
           \/ n.res \in {"EXIST", "NO_PATH", "DISK_ERR"}
    BY <2>3, AbsentIs
  <2>5. Vol(n, j) /\ Seen(n) = Seen(f) /\ Good(Seen(n), w, j) /\ Unique(Seen(n))
    BY <1>5, <2>4 DEF Reads
  <2> HIDE DEF n
  <2>6. Fine(n, x, j)
    <3>1. CASE n.res = "OK"
      <4>1. x = Move(n, d, f.dp, name)
        BY <1>4, <1>7
      <4>2. /\ Ok(n) /\ Root(w, n.dp.start) /\ NoName(Seen(n), w, n.dp.start, name)
            /\ (f.dp.ofs % SpS) + 1 \in Slots /\ d = Seen(n)[f.dp.sect][(f.dp.ofs % SpS) + 1]
        BY <2>2, <2>4, <2>5, <3>1 DEF Ok, Index
      <4> QED
        BY <1>2, <2>1, <2>2, <2>5, <4>1, <4>2, MoveIs
    <3>2. CASE n.res # "OK"
      <4>1. x = n
        BY <1>4, <1>7, <3>2 DEF Move, Then, Ok
      <4>2. Reads(n, n, j)
        BY <2>5, VolIs
      <4> QED
        BY <4>1, <4>2, FineIs
    <3> QED
      BY <3>1, <3>2
  <2>7. Reads(v, n, j)
    BY <1>5, <2>4, ReadsAfter
  <2> QED
    BY <2>6, <2>7, KeptAfter DEF x
<1> QED
  BY <1>6, <1>7


-----------------------------------------------------------------------------
(* The calls that list a directory.                                        *)

\* f_opendir.
LEMMA OpendirIs ==
  ASSUME NEW v, NEW j \in BOOLEAN, Vol(v, j), Ok(v), NEW path \in Listed
  PROVE  LET x == Opendir(v, path)
         IN  Reads(v, x, j) /\ (Ok(x) => Fits(x.dp) /\ x.dp.sect \in Sectors)
<1> DEFINE x == Opendir(v, path)
<1>1. PICK w : Good(Seen(v), w, j)
  BY DEF Vol, Sane
\* dir_sdi, and a value.
<1>2. ASSUME NEW d, Reads(v, d, j), Ok(d), NEW t \in Clus \cup {0}, NEW e \in Nat, x = [DirSdi(d, t) EXCEPT !.val = e]
      PROVE  Reads(v, x, j) /\ (Ok(x) => Fits(x.dp) /\ x.dp.sect \in Sectors)
  <2> DEFINE y == DirSdi(d, t)
  <2>1. Vol(d, j)
    BY <1>2 DEF Reads
  <2>2. Reads(d, y, j) /\ y.dp = StartOf(t)
    BY <1>2, <2>1, DirSdiIs DEF MovedTo, StartOf
  <2> HIDE DEF y
  <2>3. y \in Vols /\ e \in Int \cup SlotSet
    BY <2>2, VolIs DEF Reads
  <2>4. [y EXCEPT !.val = e] \in Vols /\ Alike(y, [y EXCEPT !.val = e]) /\ [y EXCEPT !.val = e].torn = y.torn
        /\ [y EXCEPT !.val = e].dp = y.dp
    BY <2>3, StoreIs, StoreAlike
  <2>5. x = [y EXCEPT !.val = e]
    BY <1>2 DEF y
  <2>6. Vol(y, j)
    BY <2>2 DEF Reads
  <2> HIDE DEF x
  <2>7. Reads(y, x, j) /\ x.dp = StartOf(t)
    BY <2>2, <2>4, <2>5, <2>6, AlikeVol
  <2>8. Reads(v, x, j)
    BY <1>2, <2>2, <2>7, ReadsAfter
  <2>9. Fits(x.dp) /\ x.dp.sect \in Sectors
    BY <2>7, AtStart
  <2> QED
    BY <2>8, <2>9 DEF x
<1>3. CASE path = <<>>
  <2>1. x = [DirSdi(v, 0) EXCEPT !.val = 0]
    BY <1>3 DEF Opendir
  <2>2. Reads(v, v, j)
    BY VolIs
  <2> QED
    BY <1>2, <2>1, <2>2
<1>4. CASE path # <<>>
  <2> DEFINE f == FollowPath(v, path)
  <2>1. Followed(v, f, j, w, LastName(path))
    BY <1>1, <1>4, PathsAre, FollowPathIs
  <2>2. x = IF f.res = "NO_FILE" \/ (Ok(f) /\ Cur(f).kind # "dir") THEN Fail(f, "NO_PATH")
            ELSE IF Ok(f) THEN [DirSdi(f, Cur(f).clu) EXCEPT !.val = Cur(f).id] ELSE f
    BY <1>4 DEF Opendir, OpenTable, Then
  <2> HIDE DEF f, x
  <2>3. Reads(v, f, j) /\ Vol(f, j) /\ Good(Seen(f), w, j)
    BY <1>1, <2>1 DEF Followed, Reads
  <2>4. CASE x = Fail(f, "NO_PATH")
    <3>1. Reads(f, x, j) /\ x.res = "NO_PATH"
      BY <2>3, <2>4, FailReads, ResultsAre
    <3> QED
      BY <2>3, <3>1, ReadsAfter DEF Ok, x
  <2>5. CASE Ok(f) /\ x = [DirSdi(f, Cur(f).clu) EXCEPT !.val = Cur(f).id]
    <3>1. There(f, w)
      BY <2>1, <2>5 DEF Followed, Ok
    <3>2. Root(w, Cur(f).clu) /\ Cur(f) \in SlotSet
      BY <2>3, <3>1, ThereIs
    <3>3. Cur(f).clu \in Clus \cup {0} /\ Cur(f).id \in Nat
      BY <3>2 DEF SlotSet
    <3> QED
      BY <1>2, <2>3, <2>5, <3>3 DEF x
  <2>6. CASE x = f /\ ~Ok(f)
    BY <2>3, <2>6 DEF x
  <2> QED
    BY <2>2, <2>4, <2>5, <2>6
<1> QED
  BY <1>3, <1>4

\* dir_read, from where the listing is.
LEMMA ReadOn ==
  ASSUME NEW v, NEW j, Vol(v, j), Ok(v), v.dp.sect # FatSect, NEW kinds
  PROVE  LET x == DirRead(v, kinds)
         IN  /\ Reads(v, x, j)
             /\ \/ Ok(x) /\ Standing(x) /\ (Fits(v.dp) => Fits(x.dp)) /\ v.dp.sect # 0
                \/ ~Ok(x) /\ x.dp.sect = 0
<1> DEFINE y == Walk(v, kinds \cup {"end"}, {}, FALSE)
           u == IF y.res = "OK" THEN UnlessEnd(y) ELSE y
           x == DirRead(v, kinds)
<1>1. CASE v.dp.sect = 0
  <2>1. x = Fail(v, "NO_FILE")
    BY <1>1 DEF DirRead
  <2>2. Reads(v, x, j) /\ x.dp = v.dp /\ x.res = "NO_FILE"
    BY <2>1, FailReads, ResultsAre
  <2> QED
    BY <1>1, <2>2 DEF Ok
<1>2. CASE v.dp.sect # 0
  <2>1. x = CloseOnError(u)
    BY <1>2 DEF DirRead, Then, Ok
  <2>2. Walked(v, y, j)
    BY WalkReads
  <2> HIDE DEF y
  <2>3. Reads(v, u, j) /\ (Ok(u) => Standing(u) /\ (Fits(v.dp) => Fits(u.dp)))
    <3>1. CASE y.res = "OK"
      <4>1. Reads(v, y, j) /\ Ok(y) /\ Standing(y) /\ (Fits(v.dp) => Fits(y.dp))
        BY <2>2, <3>1 DEF Walked, Ok
      <4>2. u = UnlessEnd(y)
        BY <3>1
      <4> HIDE DEF u
      <4>3. Reads(v, u, j) /\ (u.res = "NO_FILE" \/ u = y)
        BY <4>1, <4>2, EndOrNot
      <4> QED
        BY <4>1, <4>3 DEF Ok
    <3>2. CASE y.res # "OK"
      BY <2>2, <3>2 DEF Walked, Ok
    <3> QED
      BY <3>1, <3>2
  <2> HIDE DEF u
  <2>4. Reads(v, x, j) /\ x.res = u.res /\ (Ok(u) => x = u) /\ (~Ok(u) => x.dp.sect = 0)
    BY <2>1, <2>3, ClosedIs
  <2> QED
    BY <1>2, <2>3, <2>4 DEF Ok
<1> QED
  BY <1>1, <1>2

\* f_readdir.
LEMMA ReaddirIs ==
  ASSUME NEW v, NEW j \in BOOLEAN, Vol(v, j), Ok(v), v.dp.sect # FatSect
  PROVE  LET x == Readdir(v)
         IN  /\ Reads(v, x, j) /\ x.dp.sect # FatSect
             /\ Ok(x) /\ (v.dp.sect = 0 \/ Fits(v.dp)) => x.dp.sect = 0 \/ Fits(x.dp)
<1> DEFINE r == DirRead(v, Named)
           n == DirNext(r, FALSE)
           e == Cur(r)
           b == IF Ok(r) THEN n ELSE r
           a == IF Ok(r) THEN e ELSE End
           d == [b EXCEPT !.val = a]
           q == IF d.res = "NO_FILE" THEN "OK" ELSE d.res
           x == Readdir(v)
<1>1. x = [d EXCEPT !.res = q]
  BY DEF Readdir, Deliver
<1>2. /\ Reads(v, r, j)
      /\ \/ Ok(r) /\ Standing(r) /\ (Fits(v.dp) => Fits(r.dp)) /\ v.dp.sect # 0
         \/ ~Ok(r) /\ r.dp.sect = 0
  BY ReadOn
<1> HIDE DEF r
<1>3. Vol(r, j)
  BY <1>2 DEF Reads
<1>4. /\ Reads(v, b, j) /\ a \in SlotSet /\ b.dp.sect # FatSect
      /\ (b.res = "OK" \/ b.res = "NO_FILE") /\ (v.dp.sect = 0 \/ Fits(v.dp)) => b.dp.sect = 0 \/ Fits(b.dp)
  <2>1. CASE Ok(r)
    <3>1. Standing(r) /\ r.dp.sect # 0 /\ r.dp.sect # FatSect /\ (Fits(v.dp) => Fits(r.dp)) /\ v.dp.sect # 0
      BY <1>2, <2>1, SectorsAre DEF Standing
    <3>2. Reads(r, n, j) /\ n.dp.sect # FatSect /\ (n.res = "OK" /\ Fits(r.dp) => Fits(n.dp)) /\ (n.res = "NO_FILE" => n.dp.sect = 0)
      BY <1>3, <2>1, <3>1, DirNextReads
    <3>3. Reads(v, n, j) /\ b = n /\ a = e
      BY <1>2, <2>1, <3>2, ReadsAfter
    <3>4. e \in SlotSet
      BY <1>3, <3>1, CurIs
    <3> HIDE DEF n, b, e, a
    <3> QED
      BY <3>1, <3>2, <3>3, <3>4
  <2>2. CASE ~Ok(r)
    <3>1. b = r /\ a = End /\ r.dp.sect = 0
      BY <1>2, <2>2
    <3>2. End \in SlotSet /\ 0 # FatSect
      BY BlankIs, Numbers
    <3> HIDE DEF b, a
    <3> QED
      BY <1>2, <3>1, <3>2
  <2> QED
    BY <2>1, <2>2
<1> HIDE DEF b, a
<1>5. b \in Vols /\ b.res \in Results /\ Vol(b, j)
  BY <1>4, VolIs, Fields DEF Reads
<1>6. d \in Vols /\ Alike(b, d) /\ d.torn = b.torn /\ d.res = b.res /\ d.dp = b.dp
  BY <1>4, <1>5, StoreIs, StoreAlike
<1> HIDE DEF d
<1>7. Reads(b, d, j) /\ Vol(d, j)
  BY <1>5, <1>6, AlikeVol DEF Reads
<1>8. q \in Results
  BY <1>5, <1>6, ResultsAre
<1>9. x = Fail(d, q)
  BY <1>1 DEF Fail
<1> HIDE DEF q, x
<1>10. Reads(d, x, j) /\ x.res = q /\ x.dp = d.dp
  BY <1>7, <1>8, <1>9, FailReads
<1>11. Reads(v, x, j)
  BY <1>4, <1>7, <1>10, ReadsAfter
<1>12. Ok(x) => b.res = "OK" \/ b.res = "NO_FILE"
  BY <1>6, <1>10 DEF Ok, q
<1> QED
  BY <1>4, <1>6, <1>10, <1>11, <1>12 DEF x


-----------------------------------------------------------------------------
(* The invariant.                                                          *)

\* The DIR object of the application, and where it stands.
Dirs == [open : BOOLEAN, dp : Dps, id : Int \cup SlotSet, failed : BOOLEAN]
Listens == dir.dp.sect # FatSect /\ (dir.failed \/ dir.dp.sect = 0 \/ Fits(dir.dp))
\* The card, and what the calls see, hold sound tables.
Sound == card \in Mems /\ WinFits(win, card) /\ Sane(card, torn) /\ Sane(Now, torn) /\ torn \in BOOLEAN
\* The invariant.
Inv ==
  /\ Sound
  /\ created \in 0 .. MaxObjs /\ stops \in 0 .. MaxStops
  /\ dir \in Dirs /\ Listens

\* A call that starts: the transfer at which it is stopped.
Starts(n, power) == n \in Nat /\ power \in BOOLEAN /\ (stops = MaxStops => n = 0 /\ ~power)

\* There is no listing at first.
LEMMA NoDpIs == NoDp \in Dps /\ NoDp.sect = 0 /\ NoDp.sect # FatSect /\ NoListing \in Dirs /\ NoListing.dp = NoDp /\ ~NoListing.failed
<1>1. NoDp \in Dps
  BY DEF NoDp, Dps
<1>2. NoDp.sect = 0 /\ 0 # FatSect
  BY Numbers DEF NoDp
<1> QED
  BY <1>1, <1>2 DEF NoListing, Dirs

\* A call begins on a sound volume.
LEMMA StartIs ==
  ASSUME Inv, NEW n, NEW power, Starts(n, power)
  PROVE  LET v == Volume(n, power)
         IN  /\ Vol(v, torn) /\ Ok(v) /\ Seen(v) = Now /\ v.power = power /\ ~v.torn /\ v.left = n /\ v.card = card /\ v.win = win
             /\ torn \in BOOLEAN
<1> DEFINE v == Volume(n, power)
<1>1. /\ v.card = card /\ v.win = win /\ v.left = n /\ v.hit = FALSE /\ v.power = power /\ v.res = "OK" /\ v.val = 0
      /\ v.dp = NoDp /\ v.torn = FALSE
  BY DEF Volume
<1>2. Sound /\ n \in Nat /\ power \in BOOLEAN /\ (stops = MaxStops => n = 0 /\ ~power)
  BY DEF Inv, Starts
<1>3. v \in Vols
  <2>1. card \in Mems /\ win \in Wins
    BY <1>2 DEF Sound, WinFits
  <2> QED
    BY <1>2, <2>1, NoDpIs, ResultsAre DEF Vols, Volume
<1>4. Seen(v) = Now
  BY <1>1 DEF Seen, Now
<1>5. Calm(v)
  BY <1>1, <1>2 DEF Calm
<1> HIDE DEF v
<1>6. Vol(v, torn)
  BY <1>1, <1>2, <1>3, <1>4, <1>5 DEF Vol, Sound
<1> QED
  BY <1>1, <1>2, <1>4, <1>6 DEF v, Ok, Sound

\* A torn table is allowed once one is torn.
LEMMA SaneAs ==
  ASSUME NEW m, NEW k \in BOOLEAN, NEW l \in BOOLEAN, k => l, Sane(m, k)
  PROVE  Sane(m, l)
<1>1. IsMem(m) /\ \E w : Good(m, w, k)
  BY DEF Sane
<1> QED
  BY <1>1, MoreGood DEF Sane

\* A call ends, or is stopped.
LEMMA EndedIs ==
  ASSUME Inv, NEW n, NEW power, Starts(n, power), NEW v, Fine(Volume(n, power), v, torn), NEW op, Ended(op, v)
  PROVE  Sound' /\ stops' \in 0 .. MaxStops
<1>1. \E k \in BOOLEAN : Vol(v, k) /\ (k => torn \/ v.torn)
  <2>1. torn \in BOOLEAN
    BY DEF Inv, Sound
  <2>2. CASE Kept(Volume(n, power), v, torn)
    BY <2>1, <2>2 DEF Kept
  <2>3. CASE Vol(v, TRUE) /\ v.torn
    BY <2>3
  <2> QED
    BY <2>2, <2>3 DEF Fine
<1>2. PICK k \in BOOLEAN : Vol(v, k) /\ (k => torn \/ v.torn)
  BY <1>1
<1>3. /\ card' = v.card /\ win' = (IF v.power THEN Empty ELSE v.win) /\ torn' = (torn \/ v.torn)
      /\ stops' = stops + (IF v.hit \/ v.power THEN 1 ELSE 0)
  BY DEF Ended
<1>4. /\ v \in Vols /\ WinFits(v.win, v.card) /\ Sane(v.card, k) /\ Sane(Seen(v), k)
      /\ (v.hit \/ v.power => stops # MaxStops)
  BY <1>2, VolIs DEF Calm
<1>5. torn' \in BOOLEAN /\ (k => torn')
  BY <1>2, <1>3
<1>6. Sane(card', torn')
  BY <1>3, <1>4, <1>5, SaneAs
<1>7. /\ Empty \in Wins /\ WinFits(Empty, v.card) /\ View(v.card, Empty) = v.card
  <2>1. Empty.at = NoSect /\ Empty.data = Blank /\ ~Empty.dirty /\ Empty \in Wins
    BY BlankIs DEF Empty, Wins
  <2>2. NoSect # FatSect /\ NoSect \notin Sectors
    BY Numbers, SectorsAre
  <2> HIDE DEF Empty
  <2> QED
    BY <2>1, <2>2 DEF WinFits, View
<1>8. WinFits(win', card')
  BY <1>3, <1>4, <1>7
<1>9. Now' = IF v.power THEN v.card ELSE Seen(v)
  BY <1>3, <1>7 DEF Now, Seen
<1>10. Sane(Now', torn')
  BY <1>4, <1>5, <1>9, SaneAs
<1>11. card' \in Mems
  BY <1>3, <1>4, Fields
<1>12. Sound'
  BY <1>5, <1>6, <1>8, <1>10, <1>11 DEF Sound
<1>13. stops' \in 0 .. MaxStops
  <2>1. stops \in 0 .. MaxStops /\ MaxStops \in Nat
    BY Numbers DEF Inv
  <2>2. v.hit \/ v.power => stops # MaxStops
    BY <1>4
  <2> QED
    BY <1>3, <2>1, <2>2
<1> QED
  BY <1>12, <1>13

\* The listing, when the call is no part of it.
LEMMA AsideIs ==
  ASSUME Inv, NEW v, Aside(v)
  PROVE  dir' \in Dirs /\ Listens'
<1>1. dir' = IF v.power THEN NoListing ELSE dir
  BY DEF Aside
<1>2. CASE dir' = NoListing
  BY <1>2, NoDpIs DEF Listens
<1>3. CASE dir' = dir
  BY <1>3 DEF Listens, Inv
<1> QED
  BY <1>1, <1>2, <1>3

\* In terms of the slots.
LEMMA SingleIs ==
  ASSUME Single
  PROVE  Unique(Now)
BY DEF Single, Unique, Alone, Leads


-----------------------------------------------------------------------------
(* The steps.                                                              *)

\* A call is stopped only while stops may come.
LEMMA PointsAre ==
  ASSUME NEW m, NEW s \in Points(m)
  PROVE  Starts(s[1], s[2])
<1>1. CASE s = <<0, FALSE>>
  BY <1>1 DEF Starts
<1>2. CASE s \in (1 .. IF stops = MaxStops THEN 0 ELSE m) \X BOOLEAN
  <2>1. stops = MaxStops => s \in (1 .. 0) \X BOOLEAN
    BY <1>2
  <2>2. stops # MaxStops
    BY <2>1
  <2>3. s \in (1 .. m) \X BOOLEAN
    BY <1>2, <2>2
  <2>4. s[1] \in 1 .. m /\ s[2] \in BOOLEAN
    BY <2>3
  <2>5. s[1] \in Nat
    BY <2>4
  <2> QED
    BY <2>2, <2>4, <2>5 DEF Starts
<1> QED
  BY <1>1, <1>2 DEF Points

\* Each action keeps the invariant.
LEMMA FOpenKeeps ==
  ASSUME Inv, FOpen
  PROVE  Inv'
<1>1. PICK p \in Paths : NewObject("create", LAMBDA v : Create(v, p, created + 1))
  BY DEF FOpen
<1>2. created < MaxObjs /\ \E v \in Endings(LAMBDA v : Create(v, p, created + 1)) :
        Ended("create", v) /\ Aside(v) /\ created' = created + (IF v.res \in {"OK", "DISK_ERR"} THEN 1 ELSE 0)
  BY <1>1 DEF NewObject
<1>3. PICK v \in Endings(LAMBDA v : Create(v, p, created + 1)) :
        Ended("create", v) /\ Aside(v) /\ created' = created + (IF v.res \in {"OK", "DISK_ERR"} THEN 1 ELSE 0)
  BY <1>2
<1>4. \E n, power : Starts(n, power) /\ v = Create(Volume(n, power), p, created + 1)
  <2>1. v \in {Create(Volume(s[1], s[2]), p, created + 1) : s \in Points(0 - Create(Volume(0, FALSE), p, created + 1).left)}
    BY <1>3 DEF Endings
  <2> QED
    BY <2>1, PointsAre
<1>5. PICK n, power : Starts(n, power) /\ v = Create(Volume(n, power), p, created + 1)
  BY <1>4
<1>6. created \in 0 .. MaxObjs /\ MaxObjs \in Nat
  BY Numbers DEF Inv
<1>7. Fine(Volume(n, power), v, torn)
  BY <1>5, <1>6, StartIs, CreateIs
<1>8. Sound' /\ stops' \in 0 .. MaxStops
  BY <1>3, <1>5, <1>7, EndedIs
<1>9. created' \in 0 .. MaxObjs
  BY <1>2, <1>3, <1>6
<1> QED
  BY <1>3, <1>8, <1>9, AsideIs DEF Inv

LEMMA FMkdirKeeps ==
  ASSUME Inv, FMkdir
  PROVE  Inv'
<1>1. PICK p \in Paths : NewObject("mkdir", LAMBDA v : Mkdir(v, p, created + 1))
  BY DEF FMkdir
<1>2. created < MaxObjs /\ \E v \in Endings(LAMBDA v : Mkdir(v, p, created + 1)) :
        Ended("mkdir", v) /\ Aside(v) /\ created' = created + (IF v.res \in {"OK", "DISK_ERR"} THEN 1 ELSE 0)
  BY <1>1 DEF NewObject
<1>3. PICK v \in Endings(LAMBDA v : Mkdir(v, p, created + 1)) :
        Ended("mkdir", v) /\ Aside(v) /\ created' = created + (IF v.res \in {"OK", "DISK_ERR"} THEN 1 ELSE 0)
  BY <1>2
<1>4. \E n, power : Starts(n, power) /\ v = Mkdir(Volume(n, power), p, created + 1)
  <2>1. v \in {Mkdir(Volume(s[1], s[2]), p, created + 1) : s \in Points(0 - Mkdir(Volume(0, FALSE), p, created + 1).left)}
    BY <1>3 DEF Endings
  <2> QED
    BY <2>1, PointsAre
<1>5. PICK n, power : Starts(n, power) /\ v = Mkdir(Volume(n, power), p, created + 1)
  BY <1>4
<1>6. created \in 0 .. MaxObjs /\ MaxObjs \in Nat
  BY Numbers DEF Inv
<1>7. Fine(Volume(n, power), v, torn)
  BY <1>5, <1>6, StartIs, MkdirIs
<1>8. Sound' /\ stops' \in 0 .. MaxStops
  BY <1>3, <1>5, <1>7, EndedIs
<1>9. created' \in 0 .. MaxObjs
  BY <1>2, <1>3, <1>6
<1> QED
  BY <1>3, <1>8, <1>9, AsideIs DEF Inv

LEMMA FUnlinkKeeps ==
  ASSUME Inv, FUnlink
  PROVE  Inv'
<1>1. PICK p \in Paths, rdo \in BOOLEAN : Call("unlink", LAMBDA v : Unlink(v, p, rdo))
  BY DEF FUnlink
<1>2. PICK v \in Endings(LAMBDA v : Unlink(v, p, rdo)) : Ended("unlink", v) /\ Aside(v)
  BY <1>1 DEF Call
<1>3. \E n, power : Starts(n, power) /\ v = Unlink(Volume(n, power), p, rdo)
  <2>1. v \in {Unlink(Volume(s[1], s[2]), p, rdo) : s \in Points(0 - Unlink(Volume(0, FALSE), p, rdo).left)}
    BY <1>2 DEF Endings
  <2> QED
    BY <2>1, PointsAre
<1>4. PICK n, power : Starts(n, power) /\ v = Unlink(Volume(n, power), p, rdo)
  BY <1>3
<1>5. Single /\ created' = created
  BY DEF FUnlink
<1>6. Fine(Volume(n, power), v, torn)
  BY <1>4, <1>5, StartIs, SingleIs, UnlinkIs
<1>7. Sound' /\ stops' \in 0 .. MaxStops
  BY <1>2, <1>4, <1>6, EndedIs
<1> QED
  BY <1>2, <1>5, <1>7, AsideIs DEF Inv

LEMMA FRenameKeeps ==
  ASSUME Inv, FRename
  PROVE  Inv'
<1>1. PICK p \in Paths, q \in Paths : Call("rename", LAMBDA v : Rename(v, p, q))
  BY DEF FRename
<1>2. PICK v \in Endings(LAMBDA v : Rename(v, p, q)) : Ended("rename", v) /\ Aside(v)
  BY <1>1 DEF Call
<1>3. \E n, power : Starts(n, power) /\ v = Rename(Volume(n, power), p, q)
  <2>1. v \in {Rename(Volume(s[1], s[2]), p, q) : s \in Points(0 - Rename(Volume(0, FALSE), p, q).left)}
    BY <1>2 DEF Endings
  <2> QED
    BY <2>1, PointsAre
<1>4. PICK n, power : Starts(n, power) /\ v = Rename(Volume(n, power), p, q)
  BY <1>3
<1>5. Single /\ created' = created
  BY DEF FRename
<1>6. Fine(Volume(n, power), v, torn)
  BY <1>4, <1>5, StartIs, SingleIs, RenameIs
<1>7. Sound' /\ stops' \in 0 .. MaxStops
  BY <1>2, <1>4, <1>6, EndedIs
<1> QED
  BY <1>2, <1>5, <1>7, AsideIs DEF Inv

LEMMA FChmodKeeps ==
  ASSUME Inv, FChmod
  PROVE  Inv'
<1>1. PICK p \in Paths : Call("other", LAMBDA v : Chmod(v, p))
  BY DEF FChmod
<1>2. PICK v \in Endings(LAMBDA v : Chmod(v, p)) : Ended("other", v) /\ Aside(v)
  BY <1>1 DEF Call
<1>3. \E n, power : Starts(n, power) /\ v = Chmod(Volume(n, power), p)
  <2>1. v \in {Chmod(Volume(s[1], s[2]), p) : s \in Points(0 - Chmod(Volume(0, FALSE), p).left)}
    BY <1>2 DEF Endings
  <2> QED
    BY <2>1, PointsAre
<1>4. PICK n, power : Starts(n, power) /\ v = Chmod(Volume(n, power), p)
  BY <1>3
<1>5. created' = created
  BY DEF FChmod
<1>6. Fine(Volume(n, power), v, torn)
  BY <1>4, StartIs, ChmodIs
<1>7. Sound' /\ stops' \in 0 .. MaxStops
  BY <1>2, <1>4, <1>6, EndedIs
<1> QED
  BY <1>2, <1>5, <1>7, AsideIs DEF Inv

LEMMA FSetlabelKeeps ==
  ASSUME Inv, FSetlabel
  PROVE  Inv'
<1>1. PICK l \in {Unnamed} \cup Labels : Call("other", LAMBDA v : SetLabel(v, l))
  BY DEF FSetlabel, Unnamed
<1>2. PICK v \in Endings(LAMBDA v : SetLabel(v, l)) : Ended("other", v) /\ Aside(v)
  BY <1>1 DEF Call
<1>3. \E n, power : Starts(n, power) /\ v = SetLabel(Volume(n, power), l)
  <2>1. v \in {SetLabel(Volume(s[1], s[2]), l) : s \in Points(0 - SetLabel(Volume(0, FALSE), l).left)}
    BY <1>2 DEF Endings
  <2> QED
    BY <2>1, PointsAre
<1>4. PICK n, power : Starts(n, power) /\ v = SetLabel(Volume(n, power), l)
  BY <1>3
<1>5. created' = created
  BY DEF FSetlabel
<1>6. Fine(Volume(n, power), v, torn)
  BY <1>4, StartIs, SetLabelIs
<1>7. Sound' /\ stops' \in 0 .. MaxStops
  BY <1>2, <1>4, <1>6, EndedIs
<1> QED
  BY <1>2, <1>5, <1>7, AsideIs DEF Inv

LEMMA FOpendirKeeps ==
  ASSUME Inv, FOpendir
  PROVE  Inv'
<1>1. PICK p \in Listed : \E v \in Endings(LAMBDA v : Opendir(v, p)) :
        /\ Ended("other", v)
        /\ dir' = IF Ok(v) /\ ~v.power
                  THEN [NoListing EXCEPT !.open = TRUE, !.dp = v.dp, !.id = v.val] ELSE dir
  BY DEF FOpendir
<1>2. PICK v \in Endings(LAMBDA v : Opendir(v, p)) :
        /\ Ended("other", v)
        /\ dir' = IF Ok(v) /\ ~v.power
                  THEN [NoListing EXCEPT !.open = TRUE, !.dp = v.dp, !.id = v.val] ELSE dir
  BY <1>1
<1>3. \E n, power : Starts(n, power) /\ v = Opendir(Volume(n, power), p)
  <2>1. v \in {Opendir(Volume(s[1], s[2]), p) : s \in Points(0 - Opendir(Volume(0, FALSE), p).left)}
    BY <1>2 DEF Endings
  <2> QED
    BY <2>1, PointsAre
<1>4. PICK n, power : Starts(n, power) /\ v = Opendir(Volume(n, power), p)
  BY <1>3
<1>5. created' = created
  BY DEF FOpendir
<1>6. Reads(Volume(n, power), v, torn) /\ (Ok(v) => Fits(v.dp) /\ v.dp.sect \in Sectors)
  BY <1>4, StartIs, OpendirIs
<1>7. Sound' /\ stops' \in 0 .. MaxStops
  <2>1. Fine(Volume(n, power), v, torn)
    BY <1>6, FineIs
  <2> QED
    BY <1>2, <1>4, <2>1, EndedIs
<1>8. dir' \in Dirs /\ Listens'
  <2>1. v.dp \in Dps /\ v.val \in Int \cup SlotSet
    BY <1>6, VolIs, Fields DEF Reads
  <2>2. CASE dir' = dir
    BY <2>2 DEF Inv, Listens
  <2>3. CASE Ok(v) /\ dir' = [NoListing EXCEPT !.open = TRUE, !.dp = v.dp, !.id = v.val]
    <3>1. dir' = [open |-> TRUE, dp |-> v.dp, id |-> v.val, failed |-> FALSE]
      BY <2>3 DEF NoListing
    <3>2. dir' \in Dirs /\ dir'.dp = v.dp
      BY <2>1, <3>1 DEF Dirs
    <3>3. v.dp.sect # FatSect /\ Fits(v.dp)
      BY <1>6, <2>3, SectorsAre
    <3> QED
      BY <3>2, <3>3 DEF Listens
  <2> QED
    BY <1>2, <2>2, <2>3
<1> QED
  BY <1>5, <1>7, <1>8 DEF Inv

LEMMA FReaddirKeeps ==
  ASSUME Inv, FReaddir
  PROVE  Inv'
<1>1. PICK v \in Endings(LAMBDA x : Readdir([x EXCEPT !.dp = dir.dp])) :
        /\ Ended("other", v)
        /\ dir' = IF v.power THEN NoListing ELSE [dir EXCEPT !.dp = v.dp, !.failed = @ \/ ~Ok(v)]
  BY DEF FReaddir
<1>2. \E n, power : Starts(n, power) /\ v = Readdir([Volume(n, power) EXCEPT !.dp = dir.dp])
  <2>1. v \in {Readdir([Volume(s[1], s[2]) EXCEPT !.dp = dir.dp]) : s \in Points(0 - Readdir([Volume(0, FALSE) EXCEPT !.dp = dir.dp]).left)}
    BY <1>1 DEF Endings
  <2> QED
    BY <2>1, PointsAre
<1>3. PICK n, power : Starts(n, power) /\ v = Readdir([Volume(n, power) EXCEPT !.dp = dir.dp])
  BY <1>2
<1>4. created' = created
  BY DEF FReaddir
<1>5. dir \in Dirs /\ Listens /\ dir.dp \in Dps
  BY DEF Inv, Dirs
<1> DEFINE a == Volume(n, power)
           b == [a EXCEPT !.dp = dir.dp]
<1>6. Vol(a, torn) /\ Ok(a) /\ torn \in BOOLEAN /\ a \in Vols
  BY <1>3, StartIs, VolIs
<1> HIDE DEF a
<1>7. b = At(a, dir.dp, "OK")
  BY <1>6 DEF At, Vols, Ok
<1>8. Reads(a, b, torn) /\ b.dp = dir.dp /\ Ok(b)
  BY <1>5, <1>6, <1>7, PutDp, ResultsAre DEF Ok
<1>9. v = Readdir(b)
  BY <1>3 DEF a
<1> HIDE DEF b
<1>10. Vol(b, torn) /\ b.dp.sect # FatSect
  BY <1>5, <1>8 DEF Reads, Listens
<1>11. /\ Reads(b, v, torn) /\ v.dp.sect # FatSect
       /\ Ok(v) /\ (b.dp.sect = 0 \/ Fits(b.dp)) => v.dp.sect = 0 \/ Fits(v.dp)
  BY <1>6, <1>8, <1>9, <1>10, ReaddirIs
<1>12. Sound' /\ stops' \in 0 .. MaxStops
  <2>1. Fine(a, v, torn)
    BY <1>8, <1>11, ReadsAfter, FineIs
  <2> QED
    BY <1>1, <1>3, <2>1, EndedIs DEF a
<1>13. dir' \in Dirs /\ Listens'
  <2>1. v.dp \in Dps
    BY <1>11, VolIs, Fields DEF Reads
  <2>2. CASE dir' = NoListing
    BY <2>2, NoDpIs DEF Listens
  <2>3. CASE dir' = [dir EXCEPT !.dp = v.dp, !.failed = dir.failed \/ ~Ok(v)]
    <3>1. dir' = [open |-> dir.open, dp |-> v.dp, id |-> dir.id, failed |-> dir.failed \/ ~Ok(v)]
      BY <1>5, <2>3 DEF Dirs
    <3>2. dir' \in Dirs /\ dir'.dp = v.dp /\ dir'.failed = (dir.failed \/ ~Ok(v))
      BY <1>5, <2>1, <3>1 DEF Dirs
    <3>3. dir.failed \/ ~Ok(v) \/ v.dp.sect = 0 \/ Fits(v.dp)
      BY <1>5, <1>8, <1>11 DEF Listens
    <3> QED
      BY <1>11, <3>2, <3>3 DEF Listens
  <2> QED
    BY <1>1, <2>2, <2>3
<1> QED
  BY <1>4, <1>12, <1>13 DEF Inv

LEMMA FRewindKeeps ==
  ASSUME Inv, FRewind
  PROVE  Inv'
<1>1. /\ dir' = [dir EXCEPT !.dp = DirSdi(Volume(0, FALSE), dir.dp.start).dp, !.failed = FALSE]
      /\ UNCHANGED <<card, win, created, stops, torn>>
  BY DEF FRewind
<1>2. dir \in Dirs /\ dir.dp.start \in Clus \cup {0}
  BY DEF Inv, Dirs, Dps
<1>3. DirSdi(Volume(0, FALSE), dir.dp.start).dp = StartOf(dir.dp.start)
  BY DEF DirSdi, Volume, StartOf, Fail
<1> DEFINE d == StartOf(dir.dp.start)
<1>4. d \in Dps /\ d.sect \in Sectors /\ Fits(d)
  BY <1>2, AtStart
<1> HIDE DEF d
<1>5. dir' = [open |-> dir.open, dp |-> d, id |-> dir.id, failed |-> FALSE]
  BY <1>1, <1>2, <1>3 DEF Dirs, d
<1>6. dir' \in Dirs /\ dir'.dp = d
  BY <1>2, <1>4, <1>5 DEF Dirs
<1>7. Listens'
  BY <1>4, <1>6, SectorsAre DEF Listens
<1>8. Sound'
  BY <1>1 DEF Inv, Sound, Now
<1> QED
  BY <1>1, <1>6, <1>7, <1>8 DEF Inv

LEMMA FClosedirKeeps ==
  ASSUME Inv, FClosedir
  PROVE  Inv'
<1>1. dir' = NoListing /\ UNCHANGED <<card, win, created, stops, torn>>
  BY DEF FClosedir
<1>2. Sound'
  BY <1>1 DEF Inv, Sound, Now
<1>3. Listens'
  BY <1>1, NoDpIs DEF Listens
<1> QED
  BY <1>1, <1>2, <1>3, NoDpIs DEF Inv

LEMMA PowerLossKeeps ==
  ASSUME Inv, PowerLoss
  PROVE  Inv'
<1> DEFINE v == Volume(1, TRUE)
<1>1. Ended("other", v) /\ Aside(v) /\ created' = created /\ stops < MaxStops
  BY DEF PowerLoss
<1>2. Starts(1, TRUE)
  BY <1>1, Numbers DEF Starts, Inv
<1>3. Vol(v, torn)
  BY <1>2, StartIs
<1> HIDE DEF v
<1>4. Fine(v, v, torn)
  BY <1>3, VolIs, FineIs
<1>5. Sound' /\ stops' \in 0 .. MaxStops
  BY <1>1, <1>2, <1>4, EndedIs DEF v
<1> QED
  BY <1>1, <1>5, AsideIs DEF Inv


-----------------------------------------------------------------------------
(* The volume that f_mkfs leaves.                                          *)

\* The witness of the new volume: no cluster is in a table.
NoTables == [own |-> [c \in Clus |-> Nobody], idx |-> [c \in Clus |-> 0], len |-> [c \in Clus |-> 0]]

\* The sectors of the new volume.
LEMMA FormattedIs ==
  ASSUME NEW s \in Sectors
  PROVE  /\ Formatted[s] \in Blocks
         /\ s < Database => Formatted[s] = Blank
         /\ s >= Database => \A i \in Slots : Formatted[s][i] = Junk
<1>1. Formatted[s] = IF s < Database THEN Blank ELSE [i \in Slots |-> Junk]
  BY DEF Formatted
<1>2. Junk \in SlotSet
  <2>1. "junk" \in Kinds /\ Unnamed \in NameSet /\ 0 \in Nat
    BY DEF Kinds, NameSet, Unnamed
  <2>2. Junk = Slot("junk", Unnamed, 0, 0)
    BY DEF Junk, Unnamed
  <2> QED
    BY <2>1, <2>2, SlotIs
<1>3. [i \in Slots |-> Junk] \in Blocks
  BY <1>2 DEF Blocks
<1>4. s \in Nat /\ Database \in Nat
  BY SectorsAre, Numbers
<1> QED
  BY <1>1, <1>3, <1>4, BlankIs

\* They are sound.
LEMMA FirstGood ==
  ASSUME NEW m, m[FatSect] = [c \in Clus |-> 0], \A s \in Sectors : m[s] = Formatted[s]
  PROVE  Good(m, NoTables, FALSE)
<1> DEFINE w == NoTables
<1>1. w \in Witness /\ \A c \in Clus : w.own[c] = Nobody
  <2>1. 0 \in Nat /\ Nobody \in Clus \cup {Nobody}
    OBVIOUS
  <2> QED
    BY <2>1 DEF Witness, NoTables
<1>2. Chained(m[FatSect], w)
  <2>1. \A c \in Clus : m[FatSect][c] = 0 /\ w.own[c] = Nobody /\ w.own[c] # c
    BY <1>1, Numbers
  <2> HIDE DEF w
  <2> QED
    BY <2>1 DEF Chained
<1>3. \A s \in Sectors, i \in Slots : m[s][i].kind \in {"end", "junk"} /\ (m[s][i].kind = "junk" => s >= Database /\ m[s][i].name = Unnamed)
  <2>1. SUFFICES ASSUME NEW s \in Sectors, NEW i \in Slots
                 PROVE  m[s][i].kind \in {"end", "junk"} /\ (m[s][i].kind = "junk" => s >= Database /\ m[s][i].name = Unnamed)
    OBVIOUS
  <2>2. Junk.kind = "junk" /\ Junk.name = Unnamed
    BY DEF Junk, Slot, Unnamed
  <2>3. s \in Nat /\ Database \in Nat
    BY SectorsAre, Numbers
  <2> QED
    BY <2>2, <2>3, FormattedIs, BlankIs
<1>4. Led(m, w)
  BY <1>3 DEF Led
<1>5. Ordered(m, w)
  BY <1>3 DEF Ordered, Used, Entry
<1>6. Clean(m, w)
  <2>1. ASSUME NEW s \in Sectors, s >= Database PROVE Tab(w, s) # 0
    <3>1. Cl(s) \in Clus /\ Tab(w, s) = w.own[Cl(s)]
      BY <1>1, <2>1, TabIs
    <3> QED
      BY <1>1, <3>1, Numbers
  <2>2. \A r \in Sectors, k \in Slots : \A t : ~Leads(m, r, k, t)
    BY <1>3 DEF Leads
  <2> QED
    BY <1>3, <2>1, <2>2 DEF Clean
<1> QED
  BY <1>1, <1>2, <1>4, <1>5, <1>6 DEF Good

\* The invariant holds at first.
LEMMA InitSound ==
  ASSUME Init
  PROVE  Inv
<1>1. /\ card = [s \in Sectors \cup {FatSect} |-> IF s = FatSect THEN [c \in Clus |-> 0] ELSE Formatted[s]]
      /\ win = Empty /\ dir = NoListing /\ created = 0 /\ stops = 0 /\ torn = FALSE
  BY DEF Init
<1>2. card[FatSect] = [c \in Clus |-> 0] /\ \A s \in Sectors : card[s] = Formatted[s]
  BY <1>1, SectorsAre
<1>3. card[FatSect] \in Fats /\ \A s \in Sectors : card[s] \in Blocks
  BY <1>2, FormattedIs DEF Fats
<1>4. card \in Mems
  <2>1. \A s \in Sectors \cup {FatSect} : card[s] \in Fats \cup Blocks
    BY <1>3
  <2>2. card = [s \in Sectors \cup {FatSect} |-> card[s]]
    BY <1>1
  <2> QED
    BY <2>1, <2>2 DEF Mems
<1>5. Sane(card, FALSE)
  <2>1. IsMem(card)
    BY <1>3, <1>4, MemIs
  <2> QED
    BY <1>2, <2>1, FirstGood DEF Sane
<1>6. Empty \in Wins /\ WinFits(Empty, card) /\ View(card, Empty) = card
  <2>1. Empty.at = NoSect /\ ~Empty.dirty /\ Empty \in Wins
    BY BlankIs DEF Empty, Wins
  <2>2. NoSect # FatSect /\ NoSect \notin Sectors
    BY Numbers, SectorsAre
  <2> HIDE DEF Empty
  <2> QED
    BY <2>1, <2>2 DEF WinFits, View
<1>7. Sound
  <2>1. Now = card
    BY <1>1, <1>6 DEF Now
  <2> QED
    BY <1>1, <1>4, <1>5, <1>6, <2>1 DEF Sound
<1>8. dir \in Dirs /\ Listens
  BY <1>1, NoDpIs DEF Listens
<1>9. created \in 0 .. MaxObjs /\ stops \in 0 .. MaxStops
  BY <1>1, Numbers
<1> QED
  BY <1>7, <1>8, <1>9 DEF Inv

\* Every step keeps it.
LEMMA NextKeeps ==
  ASSUME Inv, [Next]_vars
  PROVE  Inv'
<1>1. CASE Next
  BY <1>1, FOpenKeeps, FMkdirKeeps, FUnlinkKeeps, FRenameKeeps, FChmodKeeps, FSetlabelKeeps,
     FOpendirKeeps, FReaddirKeeps, FRewindKeeps, FClosedirKeeps, PowerLossKeeps DEF Next
<1>2. CASE UNCHANGED vars
  <2>1. UNCHANGED <<card, win, created, stops, torn, dir>>
    BY <1>2 DEF vars
  <2>2. Sound' /\ Listens'
    BY <2>1 DEF Inv, Sound, Now, Listens
  <2> QED
    BY <2>1, <2>2 DEF Inv
<1> QED
  BY <1>1, <1>2

\* The tables on the card, and those that the calls see, stay sound through every
\* failure and power loss.
THEOREM TablesStaySane == Spec => []Inv
<1>1. Init => Inv
  BY InitSound
<1>2. Inv /\ [Next]_vars => Inv'
  BY NextKeeps
<1> QED
  BY <1>1, <1>2, PTL DEF Spec

\* The variables hold what the C types hold; a clean window is a copy of its sector.
THEOREM DirectoryTyped == Spec => []TypeOK
<1>1. Inv => TypeOK
  <2>1. SUFFICES ASSUME Inv PROVE TypeOK
    OBVIOUS
  <2>2. card[FatSect] \in [Clus -> Clus \cup {0, EOC}]
    BY <2>1 DEF Inv, Sound, Sane, IsMem, Fats
  <2>3. win.at \in Sectors \cup {FatSect, NoSect} /\ (win.dirty \/ win.at = NoSect \/ win.data = card[win.at])
    BY <2>1 DEF Inv, Sound, WinFits, Wins
  <2>4. dir.dp.sect \in Sectors \cup {0} \/ dir.failed
    BY <2>1, PlaceIs DEF Inv, Listens, Fits
  <2>5. created \in 0 .. MaxObjs /\ stops \in 0 .. MaxStops
    BY <2>1 DEF Inv
  <2> QED
    BY <2>2, <2>3, <2>4, <2>5 DEF TypeOK
<1> QED
  BY <1>1, TablesStaySane, PTL

-----------------------------------------------------------------------------
(* What the properties say of a table.                                     *)

\* One step of ChainOf.
OneMore(f, p) == IF f[p[Len(p)]] \in Clus THEN Append(p, f[p[Len(p)]]) ELSE p

ChainSteps(ch, m, start) ==
  /\ ch[1] = <<start>> /\ ChainOf(m, start) = ch[NClust]
  /\ \A k \in 2 .. NClust : ch[k] = OneMore(m[FatSect], ch[k - 1])

\* ChainOf is the last of a sequence of steps.
LEMMA ChainFollows ==
  ASSUME NEW m, NEW start
  PROVE  \E ch : ChainSteps(ch, m, start)
<1> DEFINE F(p) == OneMore(m[FatSect], p)
           Upto(g, k) == g = [n \in 1 .. k |-> IF n = 1 THEN <<start>> ELSE F(g[n - 1])]
           S == {k \in 0 .. NClust : \E g : Upto(g, k)}
<1>0. NClust \in Nat \ {0}
  BY Numbers
<1>1. 0 \in S
  <2> DEFINE g == [n \in 1 .. 0 |-> <<start>>]
  <2>1. Upto(g, 0)
    <3> HIDE DEF F
    <3> QED
      OBVIOUS
  <2> HIDE DEF Upto
  <2> QED
    BY <1>0, <2>1
<1>2. ASSUME NEW k \in 1 .. NClust, k - 1 \in S PROVE k \in S
  <2>1. PICK g : Upto(g, k - 1)
    BY <1>2
  <2> DEFINE h == [n \in 1 .. k |-> IF n = k THEN (IF k = 1 THEN <<start>> ELSE F(g[k - 1])) ELSE g[n]]
  <2> HIDE DEF F
  <2>2. \A n \in 1 .. k - 1 : g[n] = IF n = 1 THEN <<start>> ELSE F(g[n - 1])
    BY <2>1
  <2>3. \A n \in 1 .. k : h[n] = IF n = 1 THEN <<start>> ELSE F(h[n - 1])
    <3>1. SUFFICES ASSUME NEW n \in 1 .. k PROVE h[n] = IF n = 1 THEN <<start>> ELSE F(h[n - 1])
      OBVIOUS
    <3>2. CASE n = k
      BY <1>0, <3>2
    <3>3. CASE n # k
      BY <1>0, <2>2, <3>3
    <3> QED
      BY <3>2, <3>3
  <2>4. h = [n \in 1 .. k |-> h[n]]
    OBVIOUS
  <2> HIDE DEF h
  <2>5. Upto(h, k)
    BY <2>3, <2>4
  <2> HIDE DEF Upto
  <2> QED
    BY <2>5
<1> HIDE DEF S
<1>3. NClust \in S
  BY <1>0, <1>1, <1>2, UpTo
<1>4. PICK g : Upto(g, NClust)
  BY <1>3 DEF S
<1> DEFINE ch == CHOOSE h : h = [k \in 1 .. NClust |-> IF k = 1 THEN <<start>>
                                   ELSE LET p == h[k - 1]
                                            next == m[FatSect][p[Len(p)]]
                                        IN  IF next \in Clus THEN Append(p, next) ELSE p]
<1>5. g = [k \in 1 .. NClust |-> IF k = 1 THEN <<start>>
                                   ELSE LET p == g[k - 1]
                                            next == m[FatSect][p[Len(p)]]
                                        IN  IF next \in Clus THEN Append(p, next) ELSE p]
  BY <1>4 DEF OneMore
<1>6. ch = [k \in 1 .. NClust |-> IF k = 1 THEN <<start>>
                                   ELSE LET p == ch[k - 1]
                                            next == m[FatSect][p[Len(p)]]
                                        IN  IF next \in Clus THEN Append(p, next) ELSE p]
  BY <1>5
<1>7. ChainOf(m, start) = ch[NClust]
  BY DEF ChainOf
<1>8. ch = [k \in 1 .. NClust |-> IF k = 1 THEN <<start>> ELSE F(ch[k - 1])]
  BY <1>6 DEF OneMore
<1> HIDE DEF ch, F
<1>9. \A k \in 1 .. NClust : ch[k] = IF k = 1 THEN <<start>> ELSE F(ch[k - 1])
  BY <1>8
<1>10. ch[1] = <<start>> /\ \A k \in 2 .. NClust : ch[k] = F(ch[k - 1])
  BY <1>0, <1>9
<1> QED
  BY <1>7, <1>10 DEF F, ChainSteps

\* The first clusters of the table t in the witness.
Prefix(p, w, t) == p \in Seq(Clus) /\ \A i \in 1 .. Len(p) : w.own[p[i]] = t /\ w.idx[p[i]] = i

\* One more, unless it was the last.
LEMMA OneMoreIs ==
  ASSUME NEW f \in Fats, NEW w \in Witness, Chained(f, w), NEW t \in Clus, w.own[t] = t,
         NEW p, Prefix(p, w, t), Len(p) >= 1, Len(p) <= w.len[t]
  PROVE  LET q == OneMore(f, p)
         IN  Prefix(q, w, t) /\ Len(q) = IF Len(p) < w.len[t] THEN Len(p) + 1 ELSE Len(p)
<1> DEFINE n == Len(p)
           c == p[n]
<1>1. n \in Nat /\ n \in 1 .. n /\ p \in Seq(Clus) /\ c \in Clus /\ w.own[c] = t /\ w.idx[c] = n
  BY DEF Prefix
<1>2. t # Nobody
  BY Numbers
<1>3. w.len[t] \in Nat
  BY LenFits
<1>4. CASE n < w.len[t]
  <2>1. f[c] \in Clus /\ w.own[f[c]] = t /\ w.idx[f[c]] = n + 1
    BY <1>1, <1>2, <1>4, OwnedIs
  <2> DEFINE d == f[c]
             q == Append(p, d)
  <2>2. OneMore(f, p) = q
    BY <2>1 DEF OneMore
  <2>3. q \in Seq(Clus) /\ Len(q) = n + 1 /\ q[n + 1] = d /\ \A i \in 1 .. n : q[i] = p[i]
    BY <1>1, <2>1
  <2> HIDE DEF q, d
  <2>4. \A i \in 1 .. n + 1 : w.own[q[i]] = t /\ w.idx[q[i]] = i
    BY <1>1, <2>1, <2>3 DEF Prefix, d
  <2> QED
    BY <1>4, <2>2, <2>3, <2>4 DEF Prefix
<1>5. CASE ~(n < w.len[t])
  <2>1. f[c] = EOC
    BY <1>1, <1>2, <1>5, OwnedIs
  <2>2. OneMore(f, p) = p
    BY <2>1, Numbers DEF OneMore
  <2> QED
    BY <1>5, <2>2
<1> QED
  BY <1>4, <1>5

\* ChainOf lists the clusters of a table in their order.
LEMMA ChainOfIs ==
  ASSUME NEW m, m[FatSect] \in Fats, NEW w \in Witness, Chained(m[FatSect], w), NEW t \in Clus, w.own[t] = t
  PROVE  Prefix(ChainOf(m, t), w, t) /\ Len(ChainOf(m, t)) = w.len[t]
<1> DEFINE f == m[FatSect]
           n == w.len[t]
<1>1. n \in Nat /\ n >= 1 /\ n <= NClust /\ NClust \in Nat \ {0}
  BY LenFits, Numbers
<1>2. PICK ch : ChainSteps(ch, m, t)
  BY ChainFollows
<1>20. /\ ch[1] = <<t>> /\ ChainOf(m, t) = ch[NClust]
       /\ \A k \in 2 .. NClust : ch[k] = OneMore(f, ch[k - 1])
  BY <1>2 DEF ChainSteps
<1> HIDE DEF f
<1> DEFINE S == {k \in 0 .. NClust : k = 0 \/ (Prefix(ch[k], w, t) /\ Len(ch[k]) = IF k < n THEN k ELSE n)}
<1>3. 0 \in S
  BY <1>1
<1>4. ASSUME NEW k \in 1 .. NClust, k - 1 \in S PROVE k \in S
  <2>1. CASE k = 1
    <3>1. w.idx[t] = 1
      BY Numbers, OwnedIs
    <3> DEFINE p == <<t>>
    <3>2. p \in Seq(Clus) /\ Len(p) = 1 /\ p[1] = t
      OBVIOUS
    <3> HIDE DEF p
    <3>3. Prefix(p, w, t)
      BY <3>1, <3>2 DEF Prefix
    <3>4. ch[k] = p
      BY <1>20, <2>1 DEF p
    <3>5. 1 = IF 1 < n THEN 1 ELSE n
      BY <1>1
    <3>6. Prefix(ch[k], w, t) /\ Len(ch[k]) = IF k < n THEN k ELSE n
      BY <2>1, <3>2, <3>3, <3>4, <3>5
    <3> QED
      BY <3>6
  <2>2. CASE k # 1
    <3>1. k - 1 \in Nat /\ k - 1 >= 1 /\ k \in 2 .. NClust
      BY <2>2
    <3>2. Prefix(ch[k - 1], w, t) /\ Len(ch[k - 1]) = IF k - 1 < n THEN k - 1 ELSE n
      BY <1>4, <3>1
    <3>3. ch[k] = OneMore(f, ch[k - 1])
      BY <1>20, <3>1
    <3>4. Prefix(ch[k], w, t) /\ Len(ch[k]) = IF Len(ch[k - 1]) < n THEN Len(ch[k - 1]) + 1 ELSE Len(ch[k - 1])
      <4>1. Len(ch[k - 1]) >= 1 /\ Len(ch[k - 1]) <= n
        BY <1>1, <3>1, <3>2
      <4> QED
        BY <3>2, <3>3, <4>1, OneMoreIs DEF f
    <3>5. Len(ch[k]) = IF k < n THEN k ELSE n
      BY <1>1, <3>1, <3>2, <3>4
    <3> QED
      BY <3>4, <3>5
  <2> QED
    BY <2>1, <2>2
<1> HIDE DEF S
<1>5. NClust \in S
  BY <1>1, <1>3, <1>4, UpTo
<1>6. Prefix(ch[NClust], w, t) /\ Len(ch[NClust]) = IF NClust < n THEN NClust ELSE n
  BY <1>1, <1>5 DEF S
<1> QED
  BY <1>1, <1>20, <1>6


\* The length of a sequence.
LEMMA LenIs ==
  ASSUME NEW S, NEW n \in Nat, NEW s \in [1 .. n -> S]
  PROVE  s \in Seq(S) /\ Len(s) = n
<1>1. s \in Seq(S)
  OBVIOUS
<1>2. Len(s) \in Nat /\ 1 .. Len(s) = 1 .. n
  BY <1>1
<1>3. CASE Len(s) < n
  BY <1>2, <1>3
<1>4. CASE n < Len(s)
  BY <1>2, <1>4
<1> QED
  BY <1>1, <1>2, <1>3, <1>4

\* The sectors of the table t in their order.
Lists(s, w, t) ==
  /\ s \in [1 .. Size(w, t) -> Sectors] /\ Len(s) = Size(w, t)
  /\ \A i \in 1 .. Size(w, t) : Tab(w, s[i]) = t /\ Num(w, s[i]) = i - 1

\* A sector with the number r in the cluster c.
LEMMA SectorOfIs ==
  ASSUME NEW w \in Witness, NEW t \in Clus, NEW c \in Clus, w.own[c] = t, w.idx[c] >= 1, NEW r \in 0 .. Csize - 1
  PROVE  LET s == Clust2Sect(c) + r
         IN  s \in Sectors /\ Tab(w, s) = t /\ Num(w, s) = Csize * (w.idx[c] - 1) + r
<1> DEFINE s == Clust2Sect(c) + r
<1>1. Clust2Sect(c) \in Nat /\ Csize \in Nat /\ Database \in Nat
  BY Area0, Numbers
<1>2. s \in Area(c)
  BY <1>1 DEF Area
<1>3. s \in Sectors /\ s >= Database /\ Cl(s) = c /\ s \in Nat
  BY <1>2, InArea
<1>4. ~(s < Database) /\ s - Clust2Sect(c) = r
  BY <1>1, <1>3
<1>5. Tab(w, s) = t
  BY <1>3, <1>4 DEF Tab
<1> HIDE DEF s
<1>6. Num(w, s) = Csize * (w.idx[c] - 1) + r
  BY <1>3, <1>4 DEF Num
<1> QED
  BY <1>3, <1>5, <1>6 DEF s

\* A number below a product is one part of it and a rest.
LEMMA PartOf ==
  ASSUME NEW a \in Nat, NEW b \in Nat \ {0}, NEW x \in Nat, x < b * a
  PROVE  x \div b \in Nat /\ x \div b < a /\ x % b \in 0 .. b - 1 /\ b * (x \div b) + (x % b) = x
<1> DEFINE q == x \div b
           r == x % b
<1>1. q \in Nat /\ r \in 0 .. b - 1 /\ x = b * q + r
  BY DivMod
<1> HIDE DEF q, r
<1>2. CASE a <= q
  <2>1. b * a <= b * q /\ b * a \in Nat /\ b * q \in Nat
    BY <1>1, <1>2, Times
  <2> DEFINE y == b * a
             z == b * q
  <2> HIDE DEF y, z
  <2>2. y <= z /\ y \in Nat /\ z \in Nat /\ x < y /\ x = z + r
    BY <1>1, <2>1 DEF y, z
  <2> QED
    BY <1>1, <2>2
<1> QED
  BY <1>1, <1>2 DEF q, r

\* SectorsOf lists them.
LEMMA SectorsOfIs ==
  ASSUME NEW m, m[FatSect] \in Fats, NEW w \in Witness, Chained(m[FatSect], w), NEW t, Root(w, t)
  PROVE  Lists(SectorsOf(m, t), w, t)
<1>1. CASE t = 0
  <2> DEFINE s == [i \in 1 .. RootSects |-> RootAt + i - 1]
  <2>1. SectorsOf(m, t) = s
    BY <1>1 DEF SectorsOf
  <2>2. Size(w, t) = RootSects
    BY <1>1 DEF Size
  <2>3. ASSUME NEW i \in 1 .. RootSects
        PROVE  s[i] \in Sectors /\ Tab(w, s[i]) = 0 /\ Num(w, s[i]) = i - 1
    <3>1. s[i] = RootAt + i - 1 /\ s[i] \in Nat /\ RootAt <= s[i] /\ s[i] < Database /\ s[i] - RootAt = i - 1
      BY <2>3, Numbers
    <3> HIDE DEF s
    <3>2. s[i] \in Sectors
      BY <3>1, InRoot
    <3> QED
      BY <3>1, <3>2 DEF Tab, Num
  <2>4. s \in [1 .. RootSects -> Sectors]
    BY <2>3
  <2> HIDE DEF s
  <2>5. Len(s) = RootSects
    BY <2>4, LenIs, Numbers
  <2> QED
    BY <1>1, <2>1, <2>2, <2>3, <2>4, <2>5 DEF Lists
<1>2. CASE t # 0
  <2>1. t \in Clus /\ w.own[t] = t
    BY <1>2 DEF Root
  <2> DEFINE ch == ChainOf(m, t)
             n == Len(ch) * Csize
             s == [i \in 1 .. n |-> Clust2Sect(ch[((i - 1) \div Csize) + 1]) + ((i - 1) % Csize)]
  <2>2. Prefix(ch, w, t) /\ Len(ch) = w.len[t] /\ w.len[t] \in Nat
    BY <2>1, ChainOfIs, LenFits
  <2>3. SectorsOf(m, t) = s
    BY <1>2 DEF SectorsOf
  <2> HIDE DEF ch
  <2>4. Size(w, t) = Csize * Len(ch) /\ n = Csize * Len(ch) /\ n \in Nat
    <3>1. Csize \in Nat /\ Len(ch) \in Nat
      BY <2>2, Numbers
    <3> QED
      BY <1>2, <2>2, <3>1 DEF Size
  <2>5. ASSUME NEW i \in 1 .. n
        PROVE  s[i] \in Sectors /\ Tab(w, s[i]) = t /\ Num(w, s[i]) = i - 1
    <3> DEFINE q == (i - 1) \div Csize
               r == (i - 1) % Csize
               c == ch[q + 1]
    <3>1. s[i] = Clust2Sect(c) + r
      BY <2>5
    <3>2. q \in Nat /\ q < Len(ch) /\ r \in 0 .. Csize - 1 /\ Csize * q + r = i - 1
      <4> DEFINE x == i - 1
                 a == Len(ch)
      <4>1. x \in Nat /\ x < Csize * a /\ a \in Nat /\ Csize \in Nat \ {0}
        BY <2>2, <2>4, <2>5, Numbers
      <4> HIDE DEF x, a
      <4>2. x \div Csize \in Nat /\ x \div Csize < a /\ x % Csize \in 0 .. Csize - 1
            /\ Csize * (x \div Csize) + (x % Csize) = x
        BY <4>1, PartOf
      <4> QED
        BY <4>2 DEF x, a
    <3> HIDE DEF q, r, s
    <3>3. q + 1 \in 1 .. Len(ch) /\ (q + 1) - 1 = q /\ q + 1 >= 1
      BY <2>2, <3>2
    <3>4. c \in Clus /\ w.own[c] = t /\ w.idx[c] = q + 1
      BY <2>2, <3>3 DEF Prefix
    <3> HIDE DEF c
    <3>5. LET x == Clust2Sect(c) + r
          IN  x \in Sectors /\ Tab(w, x) = t /\ Num(w, x) = Csize * (w.idx[c] - 1) + r
      BY <2>1, <3>2, <3>3, <3>4, SectorOfIs
    <3>6. w.idx[c] - 1 = q
      BY <3>3, <3>4
    <3> QED
      BY <3>1, <3>2, <3>5, <3>6
  <2>6. s \in [1 .. n -> Sectors]
    BY <2>5
  <2> HIDE DEF s, n
  <2>7. Len(s) = n
    BY <2>4, <2>6, LenIs
  <2> QED
    BY <2>3, <2>4, <2>5, <2>6, <2>7 DEF Lists
<1> QED
  BY <1>1, <1>2

\* The slot b[x] of the table t.
At1(m, w, t, b, x) ==
  \E s \in Sectors, i \in Slots : b[x] = m[s][i] /\ Tab(w, s) = t /\ Pos(w, s, i) = x - 1

\* Table lists its slots.
LEMMA TableIs ==
  ASSUME NEW m, m[FatSect] \in Fats, NEW w \in Witness, Chained(m[FatSect], w), NEW t, Root(w, t)
  PROVE  LET b == Table(m, t)
         IN  DOMAIN b = 1 .. SpS * Size(w, t) /\ Size(w, t) \in Nat \ {0} /\ \A x \in DOMAIN b : At1(m, w, t, b, x)
<1> DEFINE s == SectorsOf(m, t)
           n == Len(s) * SpS
           b == [i \in 1 .. n |-> m[s[((i - 1) \div SpS) + 1]][((i - 1) % SpS) + 1]]
<1>1. Lists(s, w, t)
  BY SectorsOfIs
<1>2. Table(m, t) = b
  BY DEF Table
<1> HIDE DEF s
<1>3. Size(w, t) \in Nat \ {0}
  <2>1. CASE t = 0
    BY <2>1, Numbers DEF Size
  <2>2. CASE t # 0
    <3>1. w.len[t] \in Nat /\ w.len[t] >= 1 /\ Csize \in Nat \ {0}
      BY <2>2, LenFits, Numbers DEF Root
    <3>2. Csize * 1 <= Csize * w.len[t] /\ Csize * w.len[t] \in Nat
      BY <3>1, Times
    <3> DEFINE z == Csize * w.len[t]
    <3> HIDE DEF z
    <3>3. z \in Nat /\ z >= 1 /\ Size(w, t) = z
      BY <2>2, <3>1, <3>2 DEF z, Size
    <3> QED
      BY <3>3
  <2> QED
    BY <2>1, <2>2
<1>4. Len(s) = Size(w, t) /\ n = SpS * Size(w, t)
  <2>1. Len(s) = Size(w, t)
    BY <1>1 DEF Lists
  <2> QED
    BY <1>3, <2>1, Numbers
<1>5. ASSUME NEW x \in 1 .. n
      PROVE  At1(m, w, t, b, x)
  <2> DEFINE q == (x - 1) \div SpS
             r == (x - 1) % SpS
             c == s[q + 1]
  <2>1. b[x] = m[c][r + 1]
    BY <1>5
  <2>2. q \in Nat /\ q < Size(w, t) /\ r \in 0 .. SpS - 1 /\ SpS * q + r = x - 1
    <3>1. SpS * Size(w, t) \in Nat
      BY <1>3, Times, Numbers
    <3> DEFINE z == SpS * Size(w, t)
    <3> HIDE DEF z
    <3>2. n = z /\ z \in Nat
      BY <1>4, <3>1 DEF z
    <3>3. x - 1 \in Nat /\ x - 1 < z
      BY <1>5, <3>2
    <3> DEFINE a == Size(w, t)
               y == x - 1
    <3>4. a \in Nat /\ SpS \in Nat \ {0} /\ y \in Nat /\ y < SpS * a
      BY <1>3, <3>3, Numbers DEF z
    <3> HIDE DEF a, y
    <3>5. y \div SpS \in Nat /\ y \div SpS < a /\ y % SpS \in 0 .. SpS - 1 /\ SpS * (y \div SpS) + (y % SpS) = y
      BY <3>4, PartOf
    <3> QED
      BY <3>5 DEF a, y
  <2> HIDE DEF q, r, b
  <2>3. q + 1 \in 1 .. Size(w, t) /\ (q + 1) - 1 = q /\ r + 1 \in Slots /\ (r + 1) - 1 = r
    BY <1>3, <2>2, Numbers DEF Slots
  <2>4. c \in Sectors /\ Tab(w, c) = t /\ Num(w, c) = q
    BY <1>1, <2>3 DEF Lists
  <2> HIDE DEF c
  <2>5. Pos(w, c, r + 1) = x - 1
    BY <2>2, <2>3, <2>4 DEF Pos
  <2> QED
    BY <2>1, <2>3, <2>4, <2>5 DEF At1
<1>6. DOMAIN b = 1 .. n
  OBVIOUS
<1> HIDE DEF b, n
<1> QED
  BY <1>2, <1>3, <1>4, <1>5, <1>6


\* One step of Tables.
Below(m, p) == UNION {{<<e.clu, e.id>> : e \in Entries(m, t[1], {"dir"})} : t \in p}
TableSteps(at, m) ==
  /\ at[0] = {<<0, 0>>} /\ Tables(m) = at[MaxObjs]
  /\ \A k \in 1 .. MaxObjs : at[k] = at[k - 1] \cup Below(m, at[k - 1])

\* Tables is the last of a sequence of steps.
LEMMA TablesFollow ==
  ASSUME NEW m
  PROVE  \E at : TableSteps(at, m)
<1> DEFINE F(p) == p \cup Below(m, p)
           Upto(g, k) == g = [n \in 0 .. k |-> IF n = 0 THEN {<<0, 0>>} ELSE F(g[n - 1])]
           S == {k \in 0 .. MaxObjs : \E g : Upto(g, k)}
<1>0. MaxObjs \in Nat
  BY Numbers
<1>1. 0 \in S
  <2> DEFINE g == [n \in 0 .. 0 |-> {<<0, 0>>}]
  <2>1. Upto(g, 0)
    <3> HIDE DEF F
    <3> QED
      OBVIOUS
  <2> HIDE DEF Upto
  <2> QED
    BY <1>0, <2>1
<1>2. ASSUME NEW k \in 1 .. MaxObjs, k - 1 \in S PROVE k \in S
  <2>1. PICK g : Upto(g, k - 1)
    BY <1>2
  <2> DEFINE h == [n \in 0 .. k |-> IF n = k THEN F(g[k - 1]) ELSE g[n]]
  <2> HIDE DEF F
  <2>2. \A n \in 0 .. k - 1 : g[n] = IF n = 0 THEN {<<0, 0>>} ELSE F(g[n - 1])
    BY <2>1
  <2>3. \A n \in 0 .. k : h[n] = IF n = 0 THEN {<<0, 0>>} ELSE F(h[n - 1])
    <3>1. SUFFICES ASSUME NEW n \in 0 .. k PROVE h[n] = IF n = 0 THEN {<<0, 0>>} ELSE F(h[n - 1])
      OBVIOUS
    <3>2. CASE n = k
      BY <1>0, <3>2
    <3>3. CASE n # k
      BY <1>0, <2>2, <3>3
    <3> QED
      BY <3>2, <3>3
  <2>4. h = [n \in 0 .. k |-> h[n]]
    OBVIOUS
  <2> HIDE DEF h
  <2>5. Upto(h, k)
    BY <2>3, <2>4
  <2> HIDE DEF Upto
  <2> QED
    BY <2>5
<1> HIDE DEF S
<1>3. MaxObjs \in S
  BY <1>0, <1>1, <1>2, UpTo
<1>4. PICK g : Upto(g, MaxObjs)
  BY <1>3 DEF S
<1> DEFINE G(h) == [k \in 0 .. MaxObjs |-> IF k = 0 THEN {<<0, 0>>}
                      ELSE LET p == h[k - 1]
                           IN  p \cup UNION {{<<e.clu, e.id>> : e \in Entries(m, t[1], {"dir"})} : t \in p}]
           at == CHOOSE h : h = G(h)
<1>5. g = G(g)
  BY <1>4 DEF Below
<1>6. at = G(at)
  <2> HIDE DEF G
  <2> QED
    BY <1>5
<1>7. Tables(m) = at[MaxObjs]
  BY DEF Tables
<1>8. at = [k \in 0 .. MaxObjs |-> IF k = 0 THEN {<<0, 0>>} ELSE F(at[k - 1])]
  BY <1>6 DEF Below
<1> HIDE DEF at, F
<1>9. \A k \in 0 .. MaxObjs : at[k] = IF k = 0 THEN {<<0, 0>>} ELSE F(at[k - 1])
  BY <1>8
<1>10. at[0] = {<<0, 0>>} /\ \A k \in 1 .. MaxObjs : at[k] = F(at[k - 1])
  BY <1>0, <1>9
<1> QED
  BY <1>7, <1>10 DEF F, TableSteps

\* An entry of a table is one of its slots.
LEMMA EntriesAre ==
  ASSUME NEW m, m[FatSect] \in Fats, NEW w \in Witness, Chained(m[FatSect], w), NEW t, Root(w, t),
         NEW kinds, NEW e \in Entries(m, t, kinds)
  PROVE  \E s \in Sectors, i \in Slots : e = m[s][i] /\ m[s][i].kind \in kinds /\ Tab(w, s) = t
<1> DEFINE b == Table(m, t)
<1>1. PICK x \in DOMAIN b : b[x].kind \in kinds /\ e = b[x]
  BY DEF Entries
<1>2. At1(m, w, t, b, x)
  BY <1>1, TableIs
<1> HIDE DEF b
<1> QED
  BY <1>1, <1>2 DEF At1

\* The root, or a directory that a slot is the entry of.
Reached(m, t) ==
  t = <<0, 0>> \/ \E s \in Sectors, i \in Slots : m[s][i].kind = "dir" /\ t = <<m[s][i].clu, m[s][i].id>>

\* It has a table.
LEMMA ReachedIs ==
  ASSUME NEW m, NEW w, Led(m, w), NEW t, Reached(m, t)
  PROVE  /\ Root(w, t[1])
         /\ t = <<0, 0>> \/ (t[1] \in Clus /\ \E s \in Sectors, i \in Slots : Leads(m, s, i, t[1]) /\ t[2] = m[s][i].id)
         /\ t = <<t[1], t[2]>>
<1>1. CASE t = <<0, 0>>
  BY <1>1 DEF Root
<1>2. ASSUME NEW s \in Sectors, NEW i \in Slots, m[s][i].kind = "dir", t = <<m[s][i].clu, m[s][i].id>>
      PROVE  Root(w, t[1]) /\ t[1] \in Clus /\ Leads(m, s, i, t[1]) /\ t[2] = m[s][i].id /\ t = <<t[1], t[2]>>
  <2>1. m[s][i].clu \in Clus /\ w.own[m[s][i].clu] = m[s][i].clu
    BY <1>2 DEF Led
  <2> QED
    BY <1>2, <2>1 DEF Root, Leads
<1> QED
  BY <1>1, <1>2 DEF Reached

\* Tables finds only such directories.
LEMMA TablesAre ==
  ASSUME NEW m, m[FatSect] \in Fats, NEW w, NEW j, Good(m, w, j), NEW t \in Tables(m)
  PROVE  Reached(m, t)
<1>0. w \in Witness /\ Chained(m[FatSect], w) /\ Led(m, w) /\ MaxObjs \in Nat
  BY Numbers DEF Good
<1>1. PICK at : TableSteps(at, m)
  BY TablesFollow
<1> DEFINE S == {k \in 0 .. MaxObjs : \A u \in at[k] : Reached(m, u)}
<1>2. 0 \in S
  BY <1>0, <1>1 DEF TableSteps, Reached
<1>3. ASSUME NEW k \in 1 .. MaxObjs, k - 1 \in S PROVE k \in S
  <2>1. at[k] = at[k - 1] \cup Below(m, at[k - 1])
    BY <1>1 DEF TableSteps
  <2>2. ASSUME NEW u \in Below(m, at[k - 1]) PROVE Reached(m, u)
    <3>1. PICK p \in at[k - 1] : \E e \in Entries(m, p[1], {"dir"}) : u = <<e.clu, e.id>>
      BY <2>2 DEF Below
    <3>2. PICK e \in Entries(m, p[1], {"dir"}) : u = <<e.clu, e.id>>
      BY <3>1
    <3>3. Root(w, p[1])
      BY <1>0, <1>3, ReachedIs
    <3>4. PICK s \in Sectors, i \in Slots : e = m[s][i] /\ m[s][i].kind \in {"dir"}
      BY <1>0, <3>3, EntriesAre
    <3> QED
      BY <3>2, <3>4 DEF Reached
  <2> QED
    BY <1>3, <2>1, <2>2
<1> HIDE DEF S
<1>4. MaxObjs \in S
  BY <1>0, <1>2, <1>3, UpTo
<1>5. t \in at[MaxObjs]
  BY <1>1 DEF TableSteps
<1> QED
  BY <1>4, <1>5 DEF S


-----------------------------------------------------------------------------
(* Tables and tree are sound.                                              *)

\* The slots of some kinds in a table, by their numbers.
NumbersOf(b, kinds) == {i \in DOMAIN b : b[i].kind \in kinds}

\* What TablesSound says of one table.
LEMMA TableSound ==
  ASSUME NEW m, m[FatSect] \in Fats, NEW w, NEW j \in BOOLEAN, Good(m, w, j), NEW t, Reached(m, t), NEW b, b = Table(m, t[1])
  PROVE  /\ \A x, y \in NumbersOf(b, {"file", "dir"}) : b[x].name = b[y].name => x = y
         /\ Cardinality(NumbersOf(b, {"label"})) <= IF t[1] = 0 THEN 1 ELSE 0
         /\ \A x \in NumbersOf(b, {"end"}), y \in NumbersOf(b, {"file", "dir", "label"}) : y < x
         /\ j \/ NumbersOf(b, {"junk"}) = {}
<1> DEFINE r == t[1]
<1>1. w \in Witness /\ Chained(m[FatSect], w) /\ Led(m, w) /\ Ordered(m, w) /\ (j \/ Clean(m, w))
  BY DEF Good
<1>2. Root(w, r) /\ r # Nobody
  <2>1. Root(w, r)
    BY <1>1, ReachedIs
  <2> QED
    BY <2>1, Numbers DEF Root
<1>3. DOMAIN b \subseteq Nat /\ \A x \in DOMAIN b : At1(m, w, r, b, x)
  <2>1. DOMAIN b = 1 .. SpS * Size(w, r) /\ \A x \in DOMAIN b : At1(m, w, r, b, x)
    BY <1>1, <1>2, TableIs
  <2> QED
    BY <2>1
<1> HIDE DEF r
<1>4. ASSUME NEW x \in NumbersOf(b, {"file", "dir"}), NEW y \in NumbersOf(b, {"file", "dir"}), b[x].name = b[y].name
      PROVE  x = y
  <2>1. x \in Nat /\ y \in Nat /\ b[x].kind \in {"file", "dir"} /\ b[y].kind \in {"file", "dir"} /\ At1(m, w, r, b, x) /\ At1(m, w, r, b, y)
    BY <1>3 DEF NumbersOf
  <2>2. PICK s \in Sectors, i \in Slots : b[x] = m[s][i] /\ Tab(w, s) = r /\ Pos(w, s, i) = x - 1
    BY <2>1 DEF At1
  <2>3. PICK s2 \in Sectors, i2 \in Slots : b[y] = m[s2][i2] /\ Tab(w, s2) = r /\ Pos(w, s2, i2) = y - 1
    BY <2>1 DEF At1
  <2>4. s = s2 /\ i = i2
    BY <1>1, <1>4, <2>1, <2>2, <2>3 DEF Ordered, Entry
  <2> QED
    BY <2>1, <2>2, <2>3, <2>4
<1>5. ASSUME NEW x \in NumbersOf(b, {"label"}) PROVE r = 0 /\ \A y \in NumbersOf(b, {"label"}) : y = x
  <2>1. x \in Nat /\ b[x].kind = "label" /\ At1(m, w, r, b, x)
    BY <1>3 DEF NumbersOf
  <2>2. PICK s \in Sectors, i \in Slots : b[x] = m[s][i] /\ Tab(w, s) = r /\ Pos(w, s, i) = x - 1
    BY <2>1 DEF At1
  <2>3. r = 0
    BY <1>1, <2>1, <2>2 DEF Ordered
  <2>4. ASSUME NEW y \in NumbersOf(b, {"label"}) PROVE y = x
    <3>1. y \in Nat /\ b[y].kind = "label" /\ At1(m, w, r, b, y)
      BY <1>3 DEF NumbersOf
    <3>2. PICK s2 \in Sectors, i2 \in Slots : b[y] = m[s2][i2] /\ Tab(w, s2) = r /\ Pos(w, s2, i2) = y - 1
      BY <3>1 DEF At1
    <3>3. s = s2 /\ i = i2
      BY <1>1, <2>1, <2>2, <3>1, <3>2 DEF Ordered
    <3> QED
      BY <2>1, <2>2, <3>1, <3>2, <3>3
  <2> QED
    BY <2>3, <2>4
<1>6. Cardinality(NumbersOf(b, {"label"})) <= IF r = 0 THEN 1 ELSE 0
  <2> DEFINE L == NumbersOf(b, {"label"})
  <2> HIDE DEF L
  <2>1. CASE L = {}
    <3>1. Cardinality(L) = 0
      BY <2>1, FS_EmptySet
    <3> QED
      BY <3>1 DEF L
  <2>2. ASSUME NEW x \in L PROVE Cardinality(L) <= IF r = 0 THEN 1 ELSE 0
    <3>1. r = 0 /\ L = {x}
      BY <1>5, <2>2 DEF L
    <3>2. Cardinality({x}) = 1
      BY FS_Singleton
    <3> QED
      BY <3>1, <3>2
  <2> QED
    BY <2>1, <2>2 DEF L
<1>7. ASSUME NEW x \in NumbersOf(b, {"end"}), NEW y \in NumbersOf(b, {"file", "dir", "label"})
      PROVE  y < x
  <2>1. x \in Nat /\ y \in Nat /\ b[x].kind = "end" /\ b[y].kind \in {"file", "dir", "label"} /\ At1(m, w, r, b, x) /\ At1(m, w, r, b, y)
    BY <1>3 DEF NumbersOf
  <2>2. PICK s \in Sectors, i \in Slots : b[x] = m[s][i] /\ Tab(w, s) = r /\ Pos(w, s, i) = x - 1
    BY <2>1 DEF At1
  <2>3. PICK s2 \in Sectors, i2 \in Slots : b[y] = m[s2][i2] /\ Tab(w, s2) = r /\ Pos(w, s2, i2) = y - 1
    BY <2>1 DEF At1
  <2>4. Pos(w, s2, i2) < Pos(w, s, i)
    BY <1>1, <2>1, <2>2, <2>3 DEF Ordered, Used
  <2> QED
    BY <2>1, <2>2, <2>3, <2>4
<1>8. j \/ NumbersOf(b, {"junk"}) = {}
  <2>1. ASSUME ~j, NEW x \in NumbersOf(b, {"junk"}) PROVE FALSE
    <3>1. b[x].kind = "junk" /\ At1(m, w, r, b, x)
      BY <1>3, <2>1 DEF NumbersOf
    <3>2. PICK s \in Sectors, i \in Slots : b[x] = m[s][i] /\ Tab(w, s) = r
      BY <3>1 DEF At1
    <3>3. r # 0 /\ \A k \in Sectors, n \in Slots : ~Leads(m, k, n, r)
      BY <1>1, <2>1, <3>1, <3>2 DEF Clean
    <3>4. t = <<0, 0>> \/ \E k \in Sectors, n \in Slots : Leads(m, k, n, r)
      BY <1>1, ReachedIs DEF r
    <3> QED
      BY <3>3, <3>4 DEF r
  <2> QED
    BY <2>1
<1> QED
  BY <1>4, <1>6, <1>7, <1>8 DEF r

\* In every table that can be reached names are unique, there is at most one label,
\* in the root, nothing is behind the end, and no junk unless a call was stopped
\* while it stretched a table: dir_alloc, dir_next, f_mkdir, f_setlabel.
THEOREM TablesStaySound == Spec => []TablesSound
<1>1. Inv => TablesSound
  <2>1. SUFFICES ASSUME Inv PROVE TablesSound
    OBVIOUS
  <2>2. Sane(Now, torn) /\ torn \in BOOLEAN
    BY <2>1 DEF Inv, Sound
  <2>3. PICK w : Good(Now, w, torn)
    BY <2>2 DEF Sane
  <2>4. Now[FatSect] \in Fats
    BY <2>2 DEF Sane, IsMem
  <2> DEFINE Fine1(b, t) ==
        /\ \A x, y \in NumbersOf(b, {"file", "dir"}) : b[x].name = b[y].name => x = y
        /\ Cardinality(NumbersOf(b, {"label"})) <= IF t[1] = 0 THEN 1 ELSE 0
        /\ \A x \in NumbersOf(b, {"end"}), y \in NumbersOf(b, {"file", "dir", "label"}) : y < x
        /\ torn \/ NumbersOf(b, {"junk"}) = {}
  <2>5. ASSUME NEW t \in Tables(Now) PROVE Fine1(Table(Now, t[1]), t)
    <3>1. Reached(Now, t)
      BY <2>3, <2>4, TablesAre
    <3> QED
      BY <2>2, <2>3, <2>4, <3>1, TableSound
  <2> QED
    BY <2>5 DEF TablesSound, NumbersOf
<1> QED
  BY <1>1, TablesStaySane, PTL

\* What TreeSound says of two directories, and of one.
LEMMA TablesApart ==
  ASSUME NEW m, m[FatSect] \in Fats, NEW w, NEW j \in BOOLEAN, Good(m, w, j), Unique(m),
         NEW t, Reached(m, t), NEW u, Reached(m, u), t # u, NEW s, s = SectorsOf(m, t[1]), NEW r, r = SectorsOf(m, u[1])
  PROVE  {s[i] : i \in DOMAIN s} \cap {r[i] : i \in DOMAIN r} = {}
<1>1. w \in Witness /\ Chained(m[FatSect], w) /\ Led(m, w)
  BY DEF Good
<1>2. Root(w, t[1]) /\ Root(w, u[1])
  BY <1>1, ReachedIs
<1>3. t[1] # u[1]
  <2>1. SUFFICES ASSUME t[1] = u[1] PROVE FALSE
    OBVIOUS
  <2>2. t[2] # u[2]
    <3>1. t = <<t[1], t[2]>> /\ u = <<u[1], u[2]>>
      BY <1>1, ReachedIs
    <3> QED
      BY <2>1, <3>1
  <2>3. t[1] \in Clus
    <3>1. t = <<0, 0>> \/ t[1] \in Clus
      BY <1>1, ReachedIs
    <3>2. u = <<0, 0>> \/ u[1] \in Clus
      BY <1>1, ReachedIs
    <3> QED
      BY <2>1, <2>2, <3>1, <3>2, Numbers
  <2>4. t # <<0, 0>> /\ u # <<0, 0>>
    BY <2>1, <2>3, Numbers
  <2>5. PICK a \in Sectors, x \in Slots : Leads(m, a, x, t[1]) /\ t[2] = m[a][x].id
    BY <1>1, <2>4, ReachedIs
  <2>6. PICK b \in Sectors, y \in Slots : Leads(m, b, y, u[1]) /\ u[2] = m[b][y].id
    BY <1>1, <2>4, ReachedIs
  <2>7. a = b /\ x = y
    BY <2>1, <2>5, <2>6 DEF Unique, Alone, Leads
  <2> QED
    BY <2>2, <2>5, <2>6, <2>7
<1>4. Lists(s, w, t[1]) /\ Lists(r, w, u[1])
  BY <1>1, <1>2, SectorsOfIs
<1>5. \A i \in DOMAIN s : Tab(w, s[i]) = t[1]
  BY <1>4 DEF Lists
<1>6. \A i \in DOMAIN r : Tab(w, r[i]) = u[1]
  BY <1>4 DEF Lists
<1> QED
  BY <1>3, <1>5, <1>6

\* The first two slots of a table of its own are those of its first sector.
LEMMA TableBegins ==
  ASSUME NEW m, m[FatSect] \in Fats, NEW w \in Witness, Chained(m[FatSect], w), NEW t \in Clus, w.own[t] = t
  PROVE  Table(m, t)[1] = m[Clust2Sect(t)][1] /\ Table(m, t)[2] = m[Clust2Sect(t)][2]
<1> DEFINE b == Table(m, t)
           c == Clust2Sect(t)
<1>1. Root(w, t) /\ t # Nobody
  BY Numbers DEF Root
<1>2. DOMAIN b = 1 .. SpS * Size(w, t) /\ Size(w, t) \in Nat \ {0} /\ \A x \in DOMAIN b : At1(m, w, t, b, x)
  BY <1>1, TableIs
<1> HIDE DEF b
<1>3. 1 \in DOMAIN b /\ 2 \in DOMAIN b
  <2> DEFINE z == SpS * Size(w, t)
  <2>1. SpS * 1 <= z /\ z \in Nat /\ SpS * 1 = SpS
    BY <1>2, Times, Numbers
  <2> HIDE DEF z
  <2>2. 1 \in 1 .. z /\ 2 \in 1 .. z
    BY <2>1, Numbers
  <2> QED
    BY <1>2, <2>2 DEF z
<1>4. c \in Sectors /\ Tab(w, c) = t /\ Pos(w, c, 1) = 0 /\ Pos(w, c, 2) = 1
  <2>1. w.idx[t] = 1
    BY <1>1, OwnedIs
  <2>2. LET s == c + 0
        IN  s \in Sectors /\ Tab(w, s) = t /\ Num(w, s) = Csize * (w.idx[t] - 1) + 0
    <3>1. 0 \in 0 .. Csize - 1 /\ w.idx[t] >= 1
      BY <2>1, Numbers
    <3> QED
      BY <3>1, SectorOfIs
  <2>3. c + 0 = c
    BY Area0
  <2>4. Csize * (w.idx[t] - 1) + 0 = 0
    BY <2>1, Numbers
  <2>5. Num(w, c) = 0
    BY <2>2, <2>3, <2>4
  <2> QED
    BY <2>2, <2>3, <2>5, Numbers DEF Pos
<1> HIDE DEF c
<1>5. PICK s \in Sectors, i \in Slots : b[1] = m[s][i] /\ Tab(w, s) = t /\ Pos(w, s, i) = 0
  BY <1>2, <1>3 DEF At1
<1>6. s = c /\ i = 1
  BY <1>1, <1>4, <1>5, PosUnique, Numbers
<1>7. PICK r \in Sectors, k \in Slots : b[2] = m[r][k] /\ Tab(w, r) = t /\ Pos(w, r, k) = 1
  BY <1>2, <1>3 DEF At1
<1>8. r = c /\ k = 2
  BY <1>1, <1>4, <1>7, PosUnique, Numbers
<1> QED
  BY <1>5, <1>6, <1>7, <1>8 DEF b, c

\* What TreeSound says of the entry of a directory.
LEMMA EntrySound ==
  ASSUME NEW m, m[FatSect] \in Fats, NEW w, NEW j \in BOOLEAN, Good(m, w, j), Unique(m),
         NEW t, Reached(m, t), NEW e \in Entries(m, t[1], {"dir"})
  PROVE  /\ Table(m, e.clu)[1] = Dot(e.clu) /\ Table(m, e.clu)[2] = Dot(t[1])
         /\ \A i \in DOMAIN ChainOf(m, e.clu) : m[FatSect][ChainOf(m, e.clu)[i]] # 0
<1>1. w \in Witness /\ Chained(m[FatSect], w) /\ Led(m, w)
  BY DEF Good
<1>2. Root(w, t[1])
  BY <1>1, ReachedIs
<1>3. PICK s \in Sectors, i \in Slots : e = m[s][i] /\ m[s][i].kind \in {"dir"} /\ Tab(w, s) = t[1]
  BY <1>1, <1>2, EntriesAre
<1> DEFINE c == e.clu
<1>4. c = m[s][i].clu /\ m[s][i].kind = "dir"
  BY <1>3
<1>5. Alone(m, s, i)
  BY <1>4 DEF Unique
<1>6. c \in Clus /\ w.own[c] = c /\ m[Clust2Sect(c)][1] = Dot(c) /\ m[Clust2Sect(c)][2] = Dot(t[1])
  BY <1>1, <1>3, <1>4, <1>5 DEF Led
<1> HIDE DEF c
<1>7. Table(m, c)[1] = Dot(c) /\ Table(m, c)[2] = Dot(t[1])
  BY <1>1, <1>6, TableBegins
<1>8. ASSUME NEW k \in DOMAIN ChainOf(m, c) PROVE m[FatSect][ChainOf(m, c)[k]] # 0
  <2>1. Prefix(ChainOf(m, c), w, c)
    BY <1>1, <1>6, ChainOfIs
  <2> DEFINE x == ChainOf(m, c)[k]
  <2>2. x \in Clus /\ w.own[x] = c
    BY <1>8, <2>1 DEF Prefix
  <2> HIDE DEF x
  <2>3. m[FatSect][x] # 0
    BY <1>1, <1>6, <2>2, OwnedIs, Numbers
  <2> QED
    BY <2>3 DEF x
<1> QED
  BY <1>7, <1>8 DEF c

\* While no directory has two entries, the tables of two directories share no sector,
\* each begins with its dot entries, ".." leads to the directory that holds the entry,
\* and every cluster of it is taken: f_mkdir, f_rename, f_unlink.
THEOREM TreeStaysSound == Spec => []TreeSound
<1>1. Inv => TreeSound
  <2>1. SUFFICES ASSUME Inv, Single PROVE TreeSound
    BY DEF TreeSound
  <2>2. Sane(Now, torn) /\ torn \in BOOLEAN
    BY <2>1 DEF Inv, Sound
  <2>3. PICK w : Good(Now, w, torn)
    BY <2>2 DEF Sane
  <2>4. Now[FatSect] \in Fats
    BY <2>2 DEF Sane, IsMem
  <2>5. Unique(Now)
    BY <2>1, SingleIs
  <2>6. ASSUME NEW t \in Tables(Now) PROVE Reached(Now, t)
    BY <2>3, <2>4, TablesAre
  <2> DEFINE Apart(t, u) ==
        LET s == SectorsOf(Now, t[1])
            r == SectorsOf(Now, u[1])
        IN  t = u \/ {s[i] : i \in DOMAIN s} \cap {r[i] : i \in DOMAIN r} = {}
             EntryFine(t, e) ==
        /\ Table(Now, e.clu)[1] = Dot(e.clu) /\ Table(Now, e.clu)[2] = Dot(t[1])
        /\ \A i \in DOMAIN ChainOf(Now, e.clu) : Now[FatSect][ChainOf(Now, e.clu)[i]] # 0
  <2>7. ASSUME NEW t \in Tables(Now), NEW u \in Tables(Now) PROVE Apart(t, u)
    <3>1. Reached(Now, t) /\ Reached(Now, u)
      BY <2>6, <2>7
    <3> QED
      BY <2>2, <2>3, <2>4, <2>5, <3>1, TablesApart
  <2>8. ASSUME NEW t \in Tables(Now), NEW e \in Entries(Now, t[1], {"dir"}) PROVE EntryFine(t, e)
    <3>1. Reached(Now, t)
      BY <2>6, <2>8
    <3> QED
      BY <2>2, <2>3, <2>4, <2>5, <3>1, EntrySound
  <2>9. TreeSound <=> (Single => \A t, u \in Tables(Now) : Apart(t, u) /\ \A e \in Entries(Now, t[1], {"dir"}) : EntryFine(t, e))
    BY DEF TreeSound
  <2> HIDE DEF Apart, EntryFine
  <2> QED
    BY <2>7, <2>8, <2>9
<1> QED
  BY <1>1, TablesStaySane, PTL

-----------------------------------------------------------------------------
(* Calls of which no transfer fails.                                       *)

\* No transfer has failed, and none will.
Steady(v) == v.left \in Int /\ v.left <= 0 /\ v.res # "DISK_ERR"

\* A transfer.
LEMMA SpentSteady ==
  ASSUME NEW v \in Vols, Steady(v)
  PROVE  Steady(Spent(v)) /\ Spent(v) \in Vols /\ ~Stopped(v) /\ Spent(v).res = v.res
<1>1. ~Stopped(v)
  BY DEF Steady, Stopped
<1>2. Spent(v).left = v.left - 1
  BY <1>1 DEF Spent, Vols
<1>3. Spent(v) \in Vols /\ Spent(v).res = v.res
  BY SpentIs
<1> HIDE DEF Vols
<1> QED
  BY <1>1, <1>2, <1>3 DEF Steady

\* sync_window.
LEMMA SyncWindowSteady ==
  ASSUME NEW v \in Vols, Steady(v)
  PROVE  Steady(SyncWindow(v))
<1> DEFINE u == Spent(v)
<1>1. Steady(u) /\ u \in Vols /\ ~Stopped(v)
  BY SpentSteady
<1>2. SyncWindow(v) = IF ~v.win.dirty THEN v ELSE [u EXCEPT !.card[v.win.at] = v.win.data, !.win.dirty = FALSE]
  BY <1>1 DEF SyncWindow
<1> HIDE DEF u
<1>3. [u EXCEPT !.card[v.win.at] = v.win.data, !.win.dirty = FALSE].left = u.left
  BY <1>1 DEF Vols
<1>4. [u EXCEPT !.card[v.win.at] = v.win.data, !.win.dirty = FALSE].res = u.res
  BY <1>1 DEF Vols
<1> QED
  BY <1>1, <1>2, <1>3, <1>4 DEF Steady

\* disk_read of a sector that exists.
LEMMA ReadSectorSteady ==
  ASSUME NEW v \in Vols, Steady(v), NEW s \in Sectors \cup {FatSect}
  PROVE  Steady(ReadSector(v, s))
<1> DEFINE u == Spent(v)
<1>1. Steady(u) /\ u \in Vols /\ ~Stopped(v)
  BY SpentSteady
<1>2. s \in DOMAIN v.card
  BY Fields DEF Mems
<1>3. ReadSector(v, s) = [u EXCEPT !.win = [at |-> s, data |-> v.card[s], dirty |-> FALSE]]
  BY <1>1, <1>2 DEF ReadSector
<1> DEFINE x == [at |-> s, data |-> v.card[s], dirty |-> FALSE]
<1> HIDE DEF u, x
<1>4. [u EXCEPT !.win = x].left = u.left /\ [u EXCEPT !.win = x].res = u.res
  BY <1>1 DEF Vols
<1> QED
  BY <1>1, <1>3, <1>4 DEF Steady, x

\* move_window.
LEMMA MoveWindowSteady ==
  ASSUME NEW v, NEW j, Vol(v, j), Ok(v), Steady(v), NEW s \in Sectors \cup {FatSect}
  PROVE  Steady(MoveWindow(v, s))
<1> DEFINE u == SyncWindow(v)
<1>1. v \in Vols
  BY VolIs
<1>2. Steady(u)
  BY <1>1, SyncWindowSteady
<1>3. u \in Vols
  <2>1. Reads(v, u, j)
    BY SyncWindowIs
  <2> QED
    BY <2>1, VolIs DEF Reads
<1>4. MoveWindow(v, s) \in {v, u, ReadSector(u, s)}
  BY DEF MoveWindow, Then
<1> HIDE DEF u
<1>5. Steady(ReadSector(u, s))
  BY <1>2, <1>3, ReadSectorSteady
<1> QED
  BY <1>2, <1>4, <1>5

\* get_fat.
LEMMA GetFatSteady ==
  ASSUME NEW v, NEW j, Vol(v, j), Ok(v), Steady(v), NEW c \in Clus
  PROVE  Steady(GetFat(v, c))
<1> DEFINE u == MoveWindow(v, FatSect)
           x == IF Ok(u) THEN u.win.data[c] ELSE DiskErr
<1>1. Steady(u)
  BY MoveWindowSteady
<1>2. u \in Vols
  <2>1. FatSect \in Nat
    BY Numbers
  <2>2. Reads(v, u, j)
    BY <2>1, MoveWindowIs
  <2> QED
    BY <2>2, VolIs DEF Reads
<1>3. GetFat(v, c) = [u EXCEPT !.val = x]
  BY DEF GetFat, FatValue
<1> HIDE DEF u, x
<1>4. [u EXCEPT !.val = x].left = u.left /\ [u EXCEPT !.val = x].res = u.res
  BY <1>2 DEF Vols
<1> QED
  BY <1>1, <1>3, <1>4 DEF Steady

\* A position or a result that is stored.
LEMMA StoredSteady ==
  ASSUME NEW v \in Vols, Steady(v)
  PROVE  /\ \A d : Steady([v EXCEPT !.dp = d])
         /\ \A x : Steady([v EXCEPT !.val = x])
         /\ \A r \in Results \ {"DISK_ERR"} : Steady(Fail(v, r))
         /\ \A d : \A r \in Results \ {"DISK_ERR"} : Steady(At(v, d, r))
<1>1. \A d : [v EXCEPT !.dp = d].left = v.left /\ [v EXCEPT !.dp = d].res = v.res
  BY DEF Vols
<1>2. \A x : [v EXCEPT !.val = x].left = v.left /\ [v EXCEPT !.val = x].res = v.res
  BY DEF Vols
<1>3. \A r : Fail(v, r).left = v.left /\ Fail(v, r).res = r
  BY DEF Vols, Fail
<1>4. \A d, r : At(v, d, r).left = v.left /\ At(v, d, r).res = r
  BY DEF Vols, At
<1> QED
  BY <1>1, <1>2, <1>3, <1>4 DEF Steady

\* The next slot.
LEMMA DirNextSteady ==
  ASSUME NEW v, NEW j, Vol(v, j), Ok(v), Steady(v)
  PROVE  Steady(DirNext(v, FALSE))
<1> DEFINE d == v.dp
           n == d.ofs + 1
           e == [d EXCEPT !.sect = d.sect + 1]
           s == At(v, e, "OK")
           g == GetFat(s, d.clust)
<1>1. v \in Vols /\ v.res = "OK" /\ d \in Dps /\ n \in Nat
  BY VolIs, Fields DEF Ok
<1>2. e \in Dps /\ "OK" \in Results
  BY <1>1 DEF Dps, Results
<1>3. s = [v EXCEPT !.dp.sect = @ + 1]
  BY <1>1 DEF Vols, At
<1>4. Reads(v, s, j) /\ s.dp = e /\ s.res = "OK" /\ Steady(s)
  <2> HIDE DEF e
  <2> QED
    BY <1>1, <1>2, PutDp, StoredSteady
<1>5. Vol(s, j) /\ Ok(s) /\ s \in Vols
  BY <1>4, VolIs DEF Reads, Ok
<1>6. DirNext(v, FALSE) \in {Fail(v, "NO_FILE"), [v EXCEPT !.dp.ofs = n], EndOfTable(s), [s EXCEPT !.dp.ofs = n]}
        \/ (d.clust # 0 /\ DirNext(v, FALSE) = NextInChain(g, n, FALSE))
  <2> HIDE DEF s, g, n
  <2> QED
    BY <1>3 DEF DirNext, s, g, n
<1> HIDE DEF s, e
<1>7. \A x \in Vols : Steady(x) => \A k : Steady([x EXCEPT !.dp.ofs = k])
  <2>1. SUFFICES ASSUME NEW x \in Vols, Steady(x), NEW k PROVE Steady([x EXCEPT !.dp.ofs = k])
    OBVIOUS
  <2>2. [x EXCEPT !.dp.ofs = k].left = x.left /\ [x EXCEPT !.dp.ofs = k].res = x.res
    BY <2>1 DEF Vols
  <2> QED
    BY <2>1, <2>2 DEF Steady
<1>8. \A x \in Vols : Steady(x) => Steady(EndOfTable(x))
  <2>1. SUFFICES ASSUME NEW x \in Vols, Steady(x) PROVE Steady(EndOfTable(x))
    OBVIOUS
  <2>2. EndOfTable(x).left = x.left /\ EndOfTable(x).res = "NO_FILE"
    BY <2>1 DEF Vols, EndOfTable, Fail
  <2> QED
    BY <2>1, <2>2 DEF Steady
<1>9. d.clust # 0 => Steady(g) /\ g \in Vols
  <2>1. SUFFICES ASSUME d.clust # 0 PROVE Steady(g) /\ g \in Vols
    OBVIOUS
  <2>2. d.clust \in Clus
    BY <1>1, <2>1 DEF Dps
  <2> HIDE DEF d
  <2>3. Steady(g)
    BY <1>4, <1>5, <2>2, GetFatSteady
  <2>4. Reads(s, g, j)
    BY <1>4, <1>5, <2>2, GetFatIs
  <2> QED
    BY <2>3, <2>4, VolIs DEF Reads
<1> HIDE DEF g, n, d
<1>10. ASSUME g \in Vols, Steady(g) PROVE Steady(NextInChain(g, n, FALSE))
  <2>1. \A c : Steady(NextCluster(g, c, n))
    <3>1. \A c : NextCluster(g, c, n).left = g.left /\ NextCluster(g, c, n).res = g.res
      BY <1>10 DEF Vols, NextCluster
    <3> QED
      BY <1>10, <3>1 DEF Steady
  <2>2. Steady(Fail(g, "INT_ERR"))
    BY <1>10, StoredSteady DEF Results
  <2> QED
    BY <1>8, <1>10, <2>1, <2>2 DEF NextInChain
<1>11. Steady(Fail(v, "NO_FILE"))
  BY <1>1, StoredSteady DEF Results
<1> QED
  BY <1>1, <1>4, <1>5, <1>6, <1>7, <1>8, <1>9, <1>10, <1>11

\* A walk that does not stretch the table.
LEMMA WalkSteady ==
  ASSUME NEW v, NEW j, Vol(v, j), Ok(v), Fits(v.dp), Steady(v), NEW kinds, NEW names
  PROVE  Steady(Walk(v, kinds, names, FALSE))
<1>1. PICK at : Follows(at, v, kinds, names, FALSE) /\ Walk(v, kinds, names, FALSE) = at[AllSlots]
  BY WalkFollows
<1>2. at[0] = InWindow(v) /\ \A n \in 1 .. AllSlots : at[n] = IF Ok(at[n - 1]) THEN Onward(at[n - 1], kinds, names, FALSE) ELSE at[n - 1]
  BY <1>1 DEF Follows
<1>3. ASSUME NEW d, Fits(d) PROVE d.sect \in Sectors /\ d.sect # FatSect
  BY <1>3, PlaceIs, SectorsAre DEF Fits
<1> DEFINE S == {n \in 0 .. AllSlots : Walked(v, at[n], j) /\ Steady(at[n])}
<1>4. 0 \in S
  <2>1. v.dp.sect \in Sectors /\ v.dp.sect # FatSect
    BY <1>3
  <2>2. /\ Reads(v, at[0], j) /\ at[0].dp = v.dp
        /\ (at[0].res = "OK" /\ Standing(at[0])) \/ at[0].res = "DISK_ERR"
    BY <1>2, <2>1, InWindowIs
  <2>3. Walked(v, at[0], j)
    BY <2>2 DEF Walked
  <2>4. Steady(at[0])
    BY <1>2, <2>1, MoveWindowSteady DEF InWindow
  <2> QED
    BY <2>3, <2>4, AllSlotsIs
<1>5. ASSUME NEW n \in 1 .. AllSlots, n - 1 \in S PROVE n \in S
  <2> DEFINE p == at[n - 1]
             q == at[n]
             y == DirNext(p, FALSE)
  <2>1. Walked(v, p, j) /\ Steady(p)
    BY <1>5
  <2>2. q = IF Ok(p) THEN Onward(p, kinds, names, FALSE) ELSE p
    BY <1>2
  <2> HIDE DEF p, q
  <2>3. ASSUME Ok(p) PROVE Walked(v, q, j) /\ Steady(q)
    <3>1. Walked(v, q, j)
      BY <2>1, <2>2, <2>3, OnwardWalked
    <3>2. Vol(p, j) /\ Fits(p.dp) /\ p.dp.sect # 0 /\ p.dp.sect # FatSect
      BY <1>3, <2>1, <2>3, SectorsAre DEF Walked, Reads, Ok
    <3>3. Steady(y)
      BY <2>1, <2>3, <3>2, DirNextSteady
    <3>4. Reads(p, y, j) /\ (y.res = "OK" => Fits(y.dp))
      BY <2>3, <3>2, DirNextReads
    <3>5. q = IF Stops(Cur(p), kinds, names) THEN p ELSE IF y.res = "OK" THEN InWindow(y) ELSE y
      BY <2>2, <2>3 DEF Onward, Then, Ok
    <3> HIDE DEF y
    <3>6. ASSUME y.res = "OK" PROVE Steady(InWindow(y))
      <4>1. Vol(y, j) /\ Ok(y) /\ y.dp.sect \in Sectors
        BY <1>3, <3>4, <3>6 DEF Reads, Ok
      <4> QED
        BY <3>3, <4>1, MoveWindowSteady DEF InWindow
    <3> QED
      BY <2>1, <3>1, <3>3, <3>5, <3>6
  <2>4. Walked(v, q, j) /\ Steady(q)
    BY <2>1, <2>2, <2>3
  <2> QED
    BY <2>4, AllSlotsIs DEF q
<1> HIDE DEF S
<1>6. AllSlots \in S
  BY <1>4, <1>5, AllSlotsIs, UpTo
<1> QED
  BY <1>1, <1>6 DEF S


-----------------------------------------------------------------------------
(* What f_stat and f_getlabel answer.                                      *)

\* dir_sdi.
LEMMA DirSdiSteady ==
  ASSUME NEW v \in Vols, Steady(v), NEW t
  PROVE  Steady(DirSdi(v, t))
<1> DEFINE d == [start |-> t, ofs |-> 0, clust |-> t, sect |-> IF t = 0 THEN RootAt ELSE Clust2Sect(t)]
           w == [v EXCEPT !.dp = d]
<1>1. DirSdi(v, t) \in {w, Fail(w, "INT_ERR")}
  BY DEF DirSdi
<1>2. w.left = v.left /\ w.res = v.res /\ Fail(w, "INT_ERR").left = v.left /\ Fail(w, "INT_ERR").res = "INT_ERR"
  <2> HIDE DEF d
  <2> QED
    BY DEF Vols, Fail
<1> HIDE DEF w
<1> QED
  BY <1>1, <1>2 DEF Steady

\* dir_find.
LEMMA DirFindSteady ==
  ASSUME NEW v, NEW j, Vol(v, j), Ok(v), NEW w, Good(Seen(v), w, j), Root(w, v.dp.start), NEW name, Steady(v)
  PROVE  Steady(DirFind(v, name))
<1> DEFINE t == v.dp.start
           d == DirSdi(v, t)
           y == Walk(d, {"end"}, {name}, FALSE)
<1>1. Reads(v, d, j) /\ Ok(d) /\ Fits(d.dp) /\ d.dp.sect # FatSect
  <2> HIDE DEF t
  <2>1. Root(w, t)
    BY DEF t
  <2> QED
    BY <2>1, FirstSlot
<1>2. DirFind(v, name) \in {y, Fail(y, "NO_FILE")}
  BY <1>1 DEF DirFind, FromStart, Then, UnlessEnd
<1>3. Steady(d)
  BY VolIs, DirSdiSteady
<1> HIDE DEF d
<1>4. Vol(d, j)
  BY <1>1 DEF Reads
<1>5. Steady(y) /\ y \in Vols
  <2>1. Walked(d, y, j)
    BY <1>1, <1>4, WalkReads
  <2>2. Steady(y)
    BY <1>1, <1>3, <1>4, WalkSteady
  <2> QED
    BY <2>1, <2>2, VolIs DEF Walked, Reads
<1> HIDE DEF y
<1>6. Steady(Fail(y, "NO_FILE"))
  BY <1>5, StoredSteady DEF Results
<1> QED
  BY <1>2, <1>5, <1>6

\* The search for the label.
LEMMA FindLabelSteady ==
  ASSUME NEW v, NEW j, Vol(v, j), Ok(v), NEW w, Good(Seen(v), w, j), Steady(v)
  PROVE  Steady(FindLabel(v))
<1> DEFINE d == DirSdi(v, 0)
           y == Walk(d, {"label"} \cup {"end"}, {}, FALSE)
           z == Fail(y, "NO_FILE")
<1>1. Reads(v, d, j) /\ Ok(d) /\ Fits(d.dp) /\ d.dp.sect # FatSect /\ d.dp.sect # 0
  <2>1. Root(w, 0)
    BY DEF Root
  <2> QED
    BY <2>1, FirstSlot
<1>2. FindLabel(v) = CloseOnError(y) \/ FindLabel(v) = CloseOnError(z)
  BY <1>1 DEF FindLabel, DirRead, Then, UnlessEnd
<1>3. Steady(d)
  BY VolIs, DirSdiSteady
<1> HIDE DEF d
<1>4. Vol(d, j)
  BY <1>1 DEF Reads
<1>5. Steady(y) /\ y \in Vols
  <2>1. Walked(d, y, j)
    BY <1>1, <1>4, WalkReads
  <2>2. Steady(y)
    BY <1>1, <1>3, <1>4, WalkSteady
  <2> QED
    BY <2>1, <2>2, VolIs DEF Walked, Reads
<1> HIDE DEF y
<1>6. Steady(z) /\ z \in Vols
  <2>1. "NO_FILE" \in Results \ {"DISK_ERR"}
    BY DEF Results
  <2> QED
    BY <1>5, <2>1, StoredSteady, StoreIs
<1> HIDE DEF z
<1>7. ASSUME NEW x \in Vols, Steady(x) PROVE Steady(CloseOnError(x))
  <2>1. CloseOnError(x) \in {x, [x EXCEPT !.dp.sect = 0]}
    BY DEF CloseOnError
  <2>2. [x EXCEPT !.dp.sect = 0].left = x.left /\ [x EXCEPT !.dp.sect = 0].res = x.res
    BY DEF Vols
  <2> QED
    BY <1>7, <2>1, <2>2 DEF Steady
<1> QED
  BY <1>2, <1>5, <1>6, <1>7

\* Entries has every slot of the table.
LEMMA EntriesHave ==
  ASSUME NEW m, m[FatSect] \in Fats, NEW w \in Witness, Chained(m[FatSect], w), NEW t, Root(w, t),
         NEW kinds, NEW s \in Sectors, NEW i \in Slots, Tab(w, s) = t, m[s][i].kind \in kinds
  PROVE  m[s][i] \in Entries(m, t, kinds)
<1> DEFINE b == Table(m, t)
           x == Pos(w, s, i) + 1
<1>1. t # Nobody
  BY Numbers DEF Root
<1>2. Pos(w, s, i) \in Nat /\ Pos(w, s, i) < SpS * Size(w, t)
  BY <1>1, PosIs
<1>3. DOMAIN b = 1 .. SpS * Size(w, t) /\ Size(w, t) \in Nat /\ \A k \in DOMAIN b : At1(m, w, t, b, k)
  BY TableIs
<1>4. SpS * Size(w, t) \in Nat
  <2> DEFINE k == Size(w, t)
  <2> HIDE DEF k
  <2>1. k \in Nat => SpS * k \in Nat
    BY Numbers
  <2> QED
    BY <1>3, <2>1 DEF k
<1> DEFINE n == SpS * Size(w, t)
<1>5. x \in 1 .. n
  <2> HIDE DEF n
  <2>1. n \in Nat /\ Pos(w, s, i) < n
    BY <1>2, <1>4 DEF n
  <2> QED
    BY <1>2, <2>1
<1>6. x \in DOMAIN b /\ At1(m, w, t, b, x) /\ x - 1 = Pos(w, s, i)
  <2>1. x \in DOMAIN b
    BY <1>3, <1>5
  <2>2. At1(m, w, t, b, x)
    BY <1>3, <2>1
  <2> QED
    BY <1>2, <2>1, <2>2
<1> HIDE DEF b, x, n
<1>7. PICK r \in Sectors, k \in Slots : b[x] = m[r][k] /\ Tab(w, r) = t /\ Pos(w, r, k) = Pos(w, s, i)
  BY <1>6 DEF At1
<1>8. r = s /\ k = i
  BY <1>1, <1>7, PosUnique
<1> QED
  BY <1>6, <1>7, <1>8 DEF Entries, b

\* The entry of a name is a slot of the table.
InTable(m, w, t, kinds, name, e) ==
  \E s \in Sectors, i \in Slots : e = m[s][i] /\ e.kind \in kinds /\ Tab(w, s) = t /\ e.name = name

\* Called finds those slots.
LEMMA CalledIs ==
  ASSUME NEW m, m[FatSect] \in Fats, NEW w \in Witness, Chained(m[FatSect], w), NEW t, Root(w, t),
         NEW kinds, NEW name, NEW e
  PROVE  e \in Called(m, t, kinds, name) <=> InTable(m, w, t, kinds, name, e)
<1>1. ASSUME e \in Called(m, t, kinds, name) PROVE InTable(m, w, t, kinds, name, e)
  <2>1. e \in Entries(m, t, kinds) /\ e.name = name
    BY <1>1 DEF Called
  <2>2. PICK s \in Sectors, i \in Slots : e = m[s][i] /\ m[s][i].kind \in kinds /\ Tab(w, s) = t
    BY <2>1, EntriesAre
  <2> QED
    BY <2>1, <2>2 DEF InTable
<1>2. ASSUME InTable(m, w, t, kinds, name, e) PROVE e \in Called(m, t, kinds, name)
  <2>1. PICK s \in Sectors, i \in Slots : e = m[s][i] /\ e.kind \in kinds /\ Tab(w, s) = t /\ e.name = name
    BY <1>2 DEF InTable
  <2>2. m[s][i] \in Entries(m, t, kinds)
    BY <2>1, EntriesHave
  <2> QED
    BY <2>1, <2>2 DEF Called
<1> QED
  BY <1>1, <1>2


\* One step of Leading.
NextLead(m, D, name) == UNION {{e.clu : e \in Called(m, c, {"dir"}, name)} : c \in D}
LeadSteps(at, m, path) ==
  /\ at[0] = {0} /\ Leading(m, path) = at[Len(path) - 1]
  /\ \A k \in 1 .. Len(path) - 1 : at[k] = NextLead(m, at[k - 1], path[k])

\* Leading is the last of a sequence of steps.
LEMMA LeadFollows ==
  ASSUME NEW m, NEW path, Len(path) \in Nat, Len(path) >= 1
  PROVE  \E at : LeadSteps(at, m, path)
<1> DEFINE N == Len(path) - 1
           F(p, k) == NextLead(m, p, path[k])
           Upto(g, k) == g = [n \in 0 .. k |-> IF n = 0 THEN {0} ELSE F(g[n - 1], n)]
           S == {k \in 0 .. N : \E g : Upto(g, k)}
<1>0. N \in Nat
  OBVIOUS
<1> HIDE DEF N
<1>1. 0 \in S
  <2> DEFINE g == [n \in 0 .. 0 |-> {0}]
  <2>1. Upto(g, 0)
    <3> HIDE DEF F
    <3> QED
      OBVIOUS
  <2> HIDE DEF Upto
  <2> QED
    BY <1>0, <2>1
<1>2. ASSUME NEW k \in 1 .. N, k - 1 \in S PROVE k \in S
  <2>1. PICK g : Upto(g, k - 1)
    BY <1>2
  <2> DEFINE h == [n \in 0 .. k |-> IF n = k THEN F(g[k - 1], k) ELSE g[n]]
  <2> HIDE DEF F
  <2>2. \A n \in 0 .. k - 1 : g[n] = IF n = 0 THEN {0} ELSE F(g[n - 1], n)
    BY <2>1
  <2>3. \A n \in 0 .. k : h[n] = IF n = 0 THEN {0} ELSE F(h[n - 1], n)
    <3>1. SUFFICES ASSUME NEW n \in 0 .. k PROVE h[n] = IF n = 0 THEN {0} ELSE F(h[n - 1], n)
      OBVIOUS
    <3>2. CASE n = k
      BY <1>0, <3>2
    <3>3. CASE n # k
      BY <1>0, <2>2, <3>3
    <3> QED
      BY <3>2, <3>3
  <2>4. h = [n \in 0 .. k |-> h[n]]
    OBVIOUS
  <2> HIDE DEF h
  <2>5. Upto(h, k)
    BY <2>3, <2>4
  <2> HIDE DEF Upto
  <2> QED
    BY <2>5
<1> HIDE DEF S
<1>3. N \in S
  BY <1>0, <1>1, <1>2, UpTo
<1>4. PICK g : Upto(g, N)
  BY <1>3 DEF S
<1> DEFINE G(h) == [k \in 0 .. Len(path) - 1 |->
                      IF k = 0 THEN {0}
                      ELSE UNION {{e.clu : e \in Called(m, c, {"dir"}, path[k])} : c \in h[k - 1]}]
           at == CHOOSE h : h = G(h)
<1>5. g = G(g)
  BY <1>4 DEF NextLead, N
<1>6. at = G(at)
  <2> HIDE DEF G
  <2> QED
    BY <1>5
<1>7. Leading(m, path) = at[N]
  BY DEF Leading, N
<1>8. at = [k \in 0 .. N |-> IF k = 0 THEN {0} ELSE F(at[k - 1], k)]
  BY <1>6 DEF NextLead, N
<1> HIDE DEF at, F
<1>9. \A k \in 0 .. N : at[k] = IF k = 0 THEN {0} ELSE F(at[k - 1], k)
  BY <1>8
<1>10. at[0] = {0} /\ \A k \in 1 .. N : at[k] = F(at[k - 1], k)
  BY <1>0, <1>9
<1> QED
  BY <1>7, <1>10 DEF F, LeadSteps, N

\* At most one table.
OneTable(w, D) == (\A c \in D : Root(w, c)) /\ \A c, d \in D : c = d

\* Names are unique, so that one leads to one table at most.
LEMMA LeadOne ==
  ASSUME NEW m, m[FatSect] \in Fats, NEW w, NEW j, Good(m, w, j), NEW D, OneTable(w, D), NEW name
  PROVE  OneTable(w, NextLead(m, D, name))
<1>1. w \in Witness /\ Chained(m[FatSect], w) /\ Led(m, w) /\ Ordered(m, w)
  BY DEF Good
<1>2. ASSUME NEW t \in NextLead(m, D, name)
      PROVE  \E c \in D : \E e : InTable(m, w, c, {"dir"}, name, e) /\ t = e.clu
  <2>1. PICK c \in D : \E e \in Called(m, c, {"dir"}, name) : t = e.clu
    BY <1>2 DEF NextLead
  <2>2. PICK e \in Called(m, c, {"dir"}, name) : t = e.clu
    BY <2>1
  <2>3. InTable(m, w, c, {"dir"}, name, e)
    BY <1>1, <2>2, CalledIs DEF OneTable
  <2> QED
    BY <2>2, <2>3
<1>3. ASSUME NEW t \in NextLead(m, D, name) PROVE Root(w, t)
  <2>1a. PICK c \in D : \E e : InTable(m, w, c, {"dir"}, name, e) /\ t = e.clu
    BY <1>2
  <2>1. PICK e : InTable(m, w, c, {"dir"}, name, e) /\ t = e.clu
    BY <2>1a
  <2>2. PICK s \in Sectors, i \in Slots : e = m[s][i] /\ e.kind = "dir"
    BY <2>1 DEF InTable
  <2>3. e.clu \in Clus /\ w.own[e.clu] = e.clu
    BY <1>1, <2>2 DEF Led
  <2> QED
    BY <2>1, <2>3 DEF Root
<1>4. ASSUME NEW t \in NextLead(m, D, name), NEW u \in NextLead(m, D, name) PROVE t = u
  <2>1a. PICK c \in D : \E e : InTable(m, w, c, {"dir"}, name, e) /\ t = e.clu
    BY <1>2
  <2>1. PICK e : InTable(m, w, c, {"dir"}, name, e) /\ t = e.clu
    BY <2>1a
  <2>2a. PICK d \in D : \E f : InTable(m, w, d, {"dir"}, name, f) /\ u = f.clu
    BY <1>2
  <2>2. PICK f : InTable(m, w, d, {"dir"}, name, f) /\ u = f.clu
    BY <2>2a
  <2>3. c = d
    BY DEF OneTable
  <2>4. PICK s \in Sectors, i \in Slots : e = m[s][i] /\ e.kind \in {"dir"} /\ Tab(w, s) = c /\ e.name = name
    BY <2>1 DEF InTable
  <2>5. PICK r \in Sectors, k \in Slots : f = m[r][k] /\ f.kind \in {"dir"} /\ Tab(w, r) = c /\ f.name = name
    BY <2>2, <2>3 DEF InTable
  <2>6. m[s][i].kind \in Entry /\ m[r][k].kind \in Entry
    BY <2>4, <2>5 DEF Entry
  <2>7. s = r /\ i = k
    BY <1>1, <2>4, <2>5, <2>6 DEF Ordered
  <2> QED
    BY <2>1, <2>2, <2>4, <2>5, <2>7
<1> QED
  BY <1>3, <1>4 DEF OneTable

\* The search for the name in the tables D ended in x.
Meets(m, w, D, name, x) ==
  \/ x.res = "OK" /\ There(x, w) /\ x.dp.start \in D /\ Cur(x).name = name
  \/ x.res = "NO_FILE" /\ \A c \in D : NoName(m, w, c, name)
  \/ x.res = "NO_PATH" /\ D = {}

\* One more segment of a path meets what the next tables hold.
LEMMA SegmentMeets ==
  ASSUME NEW v, NEW j, NEW w, Good(Seen(v), w, j), NEW before, NEW p, Followed(v, p, j, w, before), Steady(p),
         NEW D, OneTable(w, D), Meets(Seen(v), w, D, before, p), NEW name, name # Unnamed
  PROVE  Steady(Segment(p, name)) /\ Meets(Seen(v), w, NextLead(Seen(v), D, before), name, Segment(p, name))
<1> DEFINE x == Segment(p, name)
           e == [p EXCEPT !.dp.start = Cur(p).clu]
           m == Seen(v)
           E == NextLead(m, D, before)
<1>1. Reads(v, p, j) /\ Vol(p, j) /\ p \in Vols /\ Seen(p) = m /\ Good(Seen(p), w, j) /\ m[FatSect] \in Fats
  BY VolIs DEF Followed, Reads
<1>2. w \in Witness /\ Chained(m[FatSect], w) /\ Ordered(m, w)
  BY DEF Good
<1>3. \A t \in E : \E c \in D : \E d : InTable(m, w, c, {"dir"}, before, d) /\ t = d.clu
  <2>1. SUFFICES ASSUME NEW t \in E PROVE \E c \in D : \E d : InTable(m, w, c, {"dir"}, before, d) /\ t = d.clu
    OBVIOUS
  <2>2. PICK c \in D : \E d \in Called(m, c, {"dir"}, before) : t = d.clu
    BY <2>1 DEF NextLead
  <2>3. PICK d \in Called(m, c, {"dir"}, before) : t = d.clu
    BY <2>2
  <2>4. InTable(m, w, c, {"dir"}, before, d)
    BY <1>1, <1>2, <2>3, CalledIs DEF OneTable
  <2> QED
    BY <2>3, <2>4
<1>4. ASSUME p.res = "OK"
      PROVE  /\ There(p, w) /\ p.dp.start \in D /\ Cur(p).name = before /\ p.dp.sect \in Sectors /\ Index(p) \in Slots
             /\ Cur(p) = m[p.dp.sect][Index(p)] /\ Tab(w, p.dp.sect) = p.dp.start /\ Root(w, Cur(p).clu) /\ Cur(p).kind \in Entry
  <2>1. There(p, w) /\ p.dp.start \in D /\ Cur(p).name = before
    BY <1>4 DEF Meets
  <2> QED
    BY <1>1, <2>1, ThereIs DEF There
<1> HIDE DEF E
<1>5. CASE p.res = "NO_FILE" \/ (p.res = "OK" /\ Cur(p).kind # "dir")
  <2>1. x = Fail(p, "NO_PATH")
    BY <1>5 DEF Segment, Ok
  <2>2. Fail(p, "NO_PATH").res = "NO_PATH" /\ Steady(Fail(p, "NO_PATH"))
    BY <1>1, StoreIs, StoredSteady DEF Results
  <2>3. ASSUME NEW t \in E PROVE FALSE
    <3>1a. PICK c \in D : \E d : InTable(m, w, c, {"dir"}, before, d)
      BY <1>3
    <3>1. PICK d : InTable(m, w, c, {"dir"}, before, d)
      BY <3>1a
    <3>2. PICK s \in Sectors, i \in Slots : d = m[s][i] /\ d.kind \in {"dir"} /\ Tab(w, s) = c /\ d.name = before
      BY <3>1 DEF InTable
    <3>3. m[s][i].kind \in Entry
      BY <3>2 DEF Entry
    <3>4. CASE p.res = "NO_FILE"
      <4>1. NoName(m, w, c, before)
        BY <3>4 DEF Meets
      <4> QED
        BY <3>2, <3>3, <4>1 DEF NoName
    <3>5. CASE p.res = "OK" /\ Cur(p).kind # "dir"
      <4>1. p.dp.start = c
        BY <1>4, <3>5 DEF OneTable
      <4> DEFINE r == p.dp.sect
                 k == Index(p)
      <4>2. r \in Sectors /\ k \in Slots /\ m[r][k].kind \in Entry /\ m[r][k].name = before /\ Tab(w, r) = c /\ m[r][k].kind # "dir"
        BY <1>4, <3>5, <4>1
      <4> HIDE DEF r, k
      <4>3. r = s /\ k = i
        BY <1>2, <3>2, <3>3, <4>2 DEF Ordered
      <4> QED
        BY <3>2, <4>2, <4>3
    <3> QED
      BY <1>5, <3>4, <3>5
  <2>4. E = {}
    BY <2>3
  <2> QED
    BY <2>1, <2>2, <2>4 DEF Meets, E
<1>6. CASE p.res = "NO_PATH"
  <2>1. x = p
    BY <1>6 DEF Segment, Ok, Then
  <2>2. D = {}
    BY <1>6 DEF Meets
  <2>3. E = {}
    BY <1>3, <2>2
  <2> QED
    BY <1>6, <2>1, <2>3 DEF Meets, E
<1>7. CASE p.res = "OK" /\ Cur(p).kind = "dir"
  <2>1. x = DirFind(e, name)
    BY <1>7 DEF Segment, Ok, Then
  <2> DEFINE d == [p.dp EXCEPT !.start = Cur(p).clu]
             c == Cur(p).clu
  <2>2. Root(w, c) /\ c \in Clus \cup {0}
    BY <1>4, <1>7 DEF Root
  <2>3. d \in Dps /\ d.start = c
    <3> HIDE DEF c
    <3>1. p.dp \in Dps /\ d = [p.dp EXCEPT !.start = c]
      BY <1>1, Fields DEF c
    <3> QED
      BY <2>2, <3>1 DEF Dps
  <2>4. e = At(p, d, "OK") /\ "OK" \in Results \ {"DISK_ERR"}
    BY <1>1, <1>7 DEF At, Vols, Results
  <2>5. c \in E
    <3>1. InTable(m, w, p.dp.start, {"dir"}, before, Cur(p))
      BY <1>4, <1>7 DEF InTable
    <3>2. Cur(p) \in Called(m, p.dp.start, {"dir"}, before)
      BY <1>1, <1>2, <1>4, <1>7, <3>1, CalledIs DEF OneTable
    <3> QED
      BY <1>4, <1>7, <3>2 DEF E, NextLead
  <2> HIDE DEF d, e, c
  <2>6. Reads(p, e, j) /\ e.dp = d /\ e.res = "OK" /\ Steady(e)
    BY <1>1, <1>7, <2>3, <2>4, PutDp, StoredSteady
  <2>7. Vol(e, j) /\ Ok(e) /\ Good(Seen(e), w, j) /\ Root(w, e.dp.start) /\ Seen(e) = m /\ e.dp.start = c
    BY <1>1, <2>2, <2>3, <2>6 DEF Reads, Ok
  <2>8. \/ x.res = "OK" /\ There(x, w) /\ x.dp.start = c /\ Cur(x).name = name
        \/ x.res = "NO_FILE" /\ NoName(m, w, c, name)
        \/ x.res = "DISK_ERR"
    BY <2>1, <2>7, DirFindIs
  <2>9. Steady(x)
    BY <2>1, <2>6, <2>7, DirFindSteady
  <2>10. OneTable(w, E)
    BY <1>1, LeadOne DEF E
  <2>11. \A t \in E : t = c
    BY <2>5, <2>10 DEF OneTable
  <2> HIDE DEF x
  <2> QED
    BY <2>5, <2>8, <2>9, <2>11 DEF Meets, Steady, E, x
<1> QED
  BY <1>5, <1>6, <1>7 DEF Meets


\* follow_path meets what the tables hold that the path leads to.
LEMMA FollowMeets ==
  ASSUME NEW v, NEW j, Vol(v, j), Ok(v), Steady(v), NEW w, Good(Seen(v), w, j), NEW path \in Seq(Names), path # <<>>
  PROVE  /\ Meets(Seen(v), w, Leading(Seen(v), path), LastName(path), FollowPath(v, path))
         /\ OneTable(w, Leading(Seen(v), path))
<1> DEFINE N == Len(path)
           m == Seen(v)
<1>1. N \in Nat /\ N >= 1 /\ \A i \in 1 .. N : path[i] # Unnamed
  <2>1. Unnamed \notin Names
    BY DEF Names
  <2>2. N \in Nat /\ \A i \in 1 .. N : path[i] \in Names
    OBVIOUS
  <2>3. N # 0
    OBVIOUS
  <2> QED
    BY <2>1, <2>2, <2>3
<1> HIDE DEF N
<1>2. v \in Vols /\ v.res = "OK" /\ m[FatSect] \in Fats
  BY VolIs DEF Ok
<1>3. PICK seg : SegFollows(seg, v, path) /\ FollowPath(v, path) = seg[N]
  BY <1>1, <1>2, FollowsSeg DEF N
<1>4. PICK at : LeadSteps(at, m, path)
  BY <1>1, LeadFollows DEF N
<1>5. at[0] = {0} /\ Leading(m, path) = at[N - 1] /\ \A k \in 1 .. N - 1 : at[k] = NextLead(m, at[k - 1], path[k])
  BY <1>4 DEF LeadSteps, N
<1> DEFINE P(k) == /\ Followed(v, seg[k], j, w, path[k]) /\ Steady(seg[k])
                   /\ OneTable(w, at[k - 1]) /\ Meets(m, w, at[k - 1], path[k], seg[k])
<1>6. P(1)
  <2> DEFINE e == At(v, NoDp, "OK")
             x == seg[1]
  <2>1. NoDp \in Dps /\ NoDp.start = 0 /\ "OK" \in Results \ {"DISK_ERR"}
    BY DEF NoDp, Dps, Results
  <2>2. Reads(v, e, j) /\ e.dp = NoDp /\ e.res = "OK" /\ Steady(e)
    BY <1>2, <2>1, PutDp, StoredSteady
  <2>3. x = DirFind(e, path[1]) /\ path[1] # Unnamed
    BY <1>1, <1>2, <1>3 DEF SegFollows
  <2> HIDE DEF e
  <2>4. Vol(e, j) /\ Ok(e) /\ Good(Seen(e), w, j) /\ Root(w, e.dp.start) /\ Seen(e) = m /\ e.dp.start = 0
    BY <2>1, <2>2 DEF Reads, Ok, Root
  <2>5. /\ Reads(e, x, j)
        /\ \/ x.res = "OK" /\ There(x, w) /\ x.dp.start = 0 /\ Cur(x).name = path[1]
           \/ x.res = "NO_FILE" /\ x.dp.start = 0 /\ NoName(m, w, 0, path[1])
           \/ x.res = "DISK_ERR"
    BY <2>3, <2>4, DirFindIs
  <2>6. Steady(x)
    BY <2>2, <2>3, <2>4, DirFindSteady
  <2>7. Reads(v, x, j)
    BY <2>2, <2>5, ReadsAfter
  <2>8. at[1 - 1] = {0} /\ Root(w, 0)
    BY <1>5 DEF Root
  <2> HIDE DEF x, m
  <2>9. Followed(v, x, j, w, path[1])
    BY <2>4, <2>5, <2>7 DEF Followed, m
  <2>10. OneTable(w, {0})
    BY <2>8 DEF OneTable
  <2>11. Meets(m, w, {0}, path[1], x)
    BY <2>5, <2>6 DEF Meets, Steady
  <2> QED
    BY <2>6, <2>8, <2>9, <2>10, <2>11 DEF x
<1> DEFINE S == {k \in 0 .. N : k = 0 \/ P(k)}
<1>7. 0 \in S
  BY <1>1
<1>8. ASSUME NEW k \in 1 .. N, k - 1 \in S PROVE k \in S
  <2>1. CASE k = 1
    BY <1>1, <1>6, <2>1
  <2>2. CASE k # 1
    <3>1. k \in 2 .. N /\ k - 1 \in 1 .. N - 1 /\ P(k - 1) /\ path[k] # Unnamed /\ path[k - 1] # Unnamed
      BY <1>1, <1>8, <2>2
    <3> DEFINE p == seg[k - 1]
               D == at[(k - 1) - 1]
               before == path[k - 1]
    <3>2. seg[k] = Segment(p, path[k]) /\ at[k - 1] = NextLead(m, D, before)
      BY <1>3, <1>5, <3>1 DEF SegFollows, N
    <3>3. Followed(v, p, j, w, before) /\ Steady(p) /\ OneTable(w, D) /\ Meets(m, w, D, before, p)
      BY <3>1
    <3> HIDE DEF p, D, before, P
    <3>4. Followed(v, seg[k], j, w, path[k])
      BY <3>1, <3>2, <3>3, SegmentIs
    <3>5. Steady(seg[k]) /\ Meets(m, w, at[k - 1], path[k], seg[k])
      BY <3>1, <3>2, <3>3, SegmentMeets
    <3>6. OneTable(w, at[k - 1])
      BY <1>2, <3>2, <3>3, LeadOne
    <3>7. P(k)
      BY <3>4, <3>5, <3>6 DEF P
    <3> QED
      BY <1>1, <3>7
  <2> QED
    BY <2>1, <2>2
<1> HIDE DEF S
<1>9. N \in S
  <2>1. N \in Nat /\ \A k \in 1 .. N : k - 1 \in S => k \in S
    BY <1>1, <1>8
  <2> QED
    BY <1>7, <2>1, UpTo
<1> HIDE DEF P
<1>10. P(N)
  BY <1>1, <1>9 DEF S
<1> QED
  BY <1>3, <1>5, <1>10 DEF LastName, N, P

\* f_stat answers what the tables hold.
LEMMA StatIs ==
  ASSUME NEW v, NEW j, Vol(v, j), Ok(v), Steady(v), NEW path \in Seq(Names), path # <<>>
  PROVE  Ok(Stat(v, path)) <=> Found(Seen(v), path)
<1> DEFINE m == Seen(v)
           x == FollowPath(v, path)
           D == Leading(m, path)
           name == LastName(path)
<1>1. PICK w : Good(m, w, j)
  BY DEF Vol, Sane
<1>2. w \in Witness /\ Chained(m[FatSect], w) /\ m[FatSect] \in Fats
  BY <1>1, VolIs DEF Good
<1>3. Meets(m, w, D, name, x) /\ OneTable(w, D) /\ Followed(v, x, j, w, name)
  BY <1>1, FollowMeets, FollowPathIs
<1> HIDE DEF x, D, name
<1>4. Vol(x, j) /\ Seen(x) = m
  BY <1>3 DEF Followed, Reads
<1> HIDE DEF m
<1>5. ASSUME x.res = "OK" PROVE \E c \in D : Called(m, c, {"file", "dir"}, name) # {}
  <2>1. There(x, w) /\ x.dp.start \in D /\ Cur(x).name = name
    BY <1>3, <1>5 DEF Meets
  <2>2. /\ x.dp.sect \in Sectors /\ Index(x) \in Slots /\ Cur(x) = m[x.dp.sect][Index(x)]
        /\ x.dp.start = Tab(w, x.dp.sect) /\ Cur(x).kind \in {"file", "dir"}
    BY <1>1, <1>4, <2>1, ThereIs DEF There, Entry
  <2>3. InTable(m, w, x.dp.start, {"file", "dir"}, name, Cur(x))
    BY <2>1, <2>2 DEF InTable
  <2>4. Cur(x) \in Called(m, x.dp.start, {"file", "dir"}, name)
    BY <1>2, <1>3, <2>1, <2>3, CalledIs DEF OneTable
  <2> QED
    BY <2>1, <2>4
<1>6. ASSUME NEW c \in D, NEW e \in Called(m, c, {"file", "dir"}, name) PROVE x.res = "OK"
  <2>1. InTable(m, w, c, {"file", "dir"}, name, e)
    BY <1>2, <1>3, CalledIs DEF OneTable
  <2>2. PICK s \in Sectors, i \in Slots : e = m[s][i] /\ e.kind \in {"file", "dir"} /\ Tab(w, s) = c /\ e.name = name
    BY <2>1 DEF InTable
  <2>3. m[s][i].kind \in Entry /\ m[s][i].name = name
    BY <2>2 DEF Entry
  <2>4. ~NoName(m, w, c, name)
    BY <2>2, <2>3 DEF NoName
  <2> QED
    BY <1>3, <2>4 DEF Meets
<1>7. Ok(Stat(v, path)) <=> x.res = "OK"
  BY DEF Stat, Ok, x
<1>8. Found(m, path) <=> \E c \in D : Called(m, c, {"file", "dir"}, name) # {}
  BY DEF Found, D, name
<1> QED
  BY <1>5, <1>6, <1>7, <1>8 DEF m

\* f_getlabel tells the label, which there is one of at most.
LEMMA GetLabelIs ==
  ASSUME NEW v, NEW j, Vol(v, j), Ok(v), Steady(v), NEW labels, labels = {e.name : e \in Entries(Seen(v), 0, {"label"})}
  PROVE  {GetLabel(v)} = IF labels = {} THEN {Unnamed} ELSE labels
<1> DEFINE m == Seen(v)
           x == FindLabel(v)
           L == Entries(m, 0, {"label"})
<1>1. PICK w : Good(m, w, j)
  BY DEF Vol, Sane
<1>2. w \in Witness /\ Chained(m[FatSect], w) /\ m[FatSect] \in Fats /\ Ordered(m, w) /\ Root(w, 0)
  BY <1>1, VolIs DEF Good, Root
<1>3. /\ Reads(v, x, j)
      /\ \/ x.res = "OK" /\ Standing(x) /\ Cur(x).kind = "label"
         \/ x.res = "NO_FILE" /\ \A s \in Sectors, i \in Slots : m[s][i].kind # "label"
  <2>1. Steady(x)
    BY <1>1, FindLabelSteady
  <2>2. /\ Reads(v, x, j)
        /\ \/ x.res = "OK" /\ Standing(x) /\ Cur(x).kind = "label"
           \/ x.res = "NO_FILE" /\ \A s \in Sectors, i \in Slots : m[s][i].kind # "label"
           \/ x.res = "DISK_ERR"
    BY <1>1, FindLabelIs
  <2> HIDE DEF x, m
  <2> QED
    BY <2>1, <2>2 DEF Steady
<1>4. GetLabel(v) = IF x.res = "OK" THEN Cur(x).name ELSE Unnamed
  BY DEF GetLabel, LabelName, Ok, Unnamed
<1> HIDE DEF x
<1>5. Vol(x, j) /\ Seen(x) = m
  BY <1>3 DEF Reads
<1> HIDE DEF m, L
<1>6. \A e \in L : \E s \in Sectors, i \in Slots : e = m[s][i] /\ m[s][i].kind = "label"
  <2>1. SUFFICES ASSUME NEW e \in L PROVE \E s \in Sectors, i \in Slots : e = m[s][i] /\ m[s][i].kind = "label"
    OBVIOUS
  <2>2. PICK s \in Sectors, i \in Slots : e = m[s][i] /\ m[s][i].kind \in {"label"}
    BY <1>2, EntriesAre DEF L
  <2> QED
    BY <2>2
<1>7. CASE x.res = "OK"
  <2>1. x.dp.sect \in Sectors /\ Index(x) \in Slots /\ Cur(x) = m[x.dp.sect][Index(x)] /\ Cur(x).kind = "label"
    BY <1>3, <1>5, <1>7, CurIs DEF Standing
  <2> DEFINE s == x.dp.sect
             i == Index(x)
  <2>2. s \in Sectors /\ i \in Slots /\ m[s][i].kind = "label" /\ Cur(x) = m[s][i]
    BY <2>1
  <2> HIDE DEF s, i
  <2>3. Tab(w, s) = 0
    BY <1>2, <2>2 DEF Ordered
  <2>4. m[s][i] \in L
    BY <1>2, <2>2, <2>3, EntriesHave DEF L
  <2>5. \A e \in L : e = m[s][i]
    BY <1>2, <1>6, <2>2 DEF Ordered
  <2>6. L = {m[s][i]}
    BY <2>4, <2>5
  <2>7. labels = {m[s][i].name}
    BY <2>6 DEF L, m
  <2> QED
    BY <1>4, <1>7, <2>2, <2>7
<1>8. CASE x.res = "NO_FILE"
  <2>1. L = {}
    BY <1>3, <1>6, <1>8
  <2>2. labels = {}
    BY <2>1 DEF L, m
  <2> QED
    BY <1>4, <1>8, <2>2
<1> QED
  BY <1>3, <1>7, <1>8

\* f_stat finds a name exactly when a table has it that the path leads to, and f_getlabel
\* the label: Answers.
THEOREM AnswersHold == Spec => []Answers
<1>1. Inv => Answers
  <2> SUFFICES ASSUME Inv PROVE Answers
    OBVIOUS
  <2> DEFINE v == Volume(0, FALSE)
  <2>1. Starts(0, FALSE)
    BY DEF Starts
  <2>2. Vol(v, torn) /\ Ok(v) /\ Seen(v) = Now /\ v.left = 0
    BY <2>1, StartIs
  <2> HIDE DEF v
  <2>3. Steady(v)
    BY <2>2 DEF Steady, Ok
  <2>4. \A p \in Paths : Ok(Stat(v, p)) <=> Found(Now, p)
    <3>1. SUFFICES ASSUME NEW p \in Paths PROVE Ok(Stat(v, p)) <=> Found(Now, p)
      OBVIOUS
    <3>2. p \in Seq(Names) /\ p # <<>>
      BY PathsAre
    <3> QED
      BY <2>2, <2>3, <3>2, StatIs
  <2> DEFINE labels == {e.name : e \in Entries(Now, 0, {"label"})}
  <2>5. {GetLabel(v)} = IF labels = {} THEN {Unnamed} ELSE labels
    BY <2>2, <2>3, GetLabelIs
  <2> HIDE DEF labels
  <2> QED
    BY <2>4, <2>5 DEF Answers, v, labels, Unnamed
<1> QED
  BY <1>1, TablesStaySane, PTL

=============================================================================
