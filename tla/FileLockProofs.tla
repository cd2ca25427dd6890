--------------------------- MODULE FileLockProofs ---------------------------
(***************************************************************************)
(* Proofs about FileLock, for every set of handles smaller than the write  *)
(* mark and every size of the table.  The inductive invariant is TypeOK    *)
(* with TableInv; a step is followed in the two stages of the code, first  *)
(* what find_volume leaves, then what inc_lock or dec_lock makes of it.    *)
(***************************************************************************)
EXTENDS FileLock, FiniteSetTheorems, WellFoundedInduction, TLAPS

TableType(fs) == fs \in [Slots -> [key : Keys \cup {NoKey}, ctr : 0 .. MaxCtr]]
HandleType(hs) == hs \in [Handles -> HandleRec]

\* The first element of a non-empty set of slots is one of them.
LEMMA FirstIn ==
  ASSUME NEW S \in SUBSET Slots, S # {}
  PROVE  First(S) \in S
<1> DEFINE Less == {p \in Nat \X Nat : p[1] < p[2]}
<1>1. S \subseteq Nat
  BY ConstantsAssumption DEF Slots
<1>2. IsWellFoundedOn(Less, Nat)
  BY NatLessThanWellFounded DEF OpToRel
<1> HIDE DEF Less
<1>3. PICK i \in S : \A j \in S : ~ (<<j, i>> \in Less)
  BY <1>1, <1>2, WFMin
<1>4. ASSUME NEW j \in S PROVE i <= j
  <2>1. i \in Nat /\ j \in Nat
    BY <1>1
  <2>2. <<j, i>> \in Nat \X Nat /\ <<j, i>>[1] = j /\ <<j, i>>[2] = i
    BY <2>1
  <2>3. ~ (j < i)
    BY <1>3, <2>2 DEF Less
  <2> QED
    BY <2>1, <2>3
<1> QED
  BY <1>4 DEF First

\* The largest counter value is a number.
LEMMA MaxCtrNat == MaxCtr \in Nat
  BY DEF MaxCtr

\* A counter below the width of a WORD does not wrap.
LEMMA NoWrap == ASSUME NEW x \in Nat, NEW m \in Nat, x <= m PROVE x % (m + 1) = x
  OBVIOUS

\* NoKey is nobody's key.
LEMMA NoKeyIsNoKey == NoKey \notin Keys
  BY ConstantsAssumption DEF NoKey, Keys, DirKeys, EntryKey, SelfKey

\* The entry of a file is not a directory's own key.
LEMMA EntryNotDir == \A o \in Offs : EntryKey(o) \notin DirKeys
  BY ConstantsAssumption DEF DirKeys, EntryKey, SelfKey

\* The slot inc_lock chooses is a slot, and carries its key or none.
LEMMA LockSlotFacts ==
  ASSUME NEW t, TableType(t), NEW k, LockSlot(t, k) # 0
  PROVE  /\ LockSlot(t, k) \in Slots
         /\ t[LockSlot(t, k)].key \in {k, NoKey}
         /\ Matching(t, k) # {} => t[LockSlot(t, k)].key = k
         /\ Matching(t, k) # {} => LockCount(t, k) = t[LockSlot(t, k)].ctr
         /\ Matching(t, k) = {} => t[LockSlot(t, k)].key = NoKey /\ LockCount(t, k) = 0
<1>1. CASE Matching(t, k) # {}
  <2>1. First(Matching(t, k)) \in Matching(t, k)
    BY <1>1, FirstIn DEF Matching
  <2> QED
    BY <1>1, <2>1 DEF LockSlot, LockCount, Matching
<1>2. CASE Matching(t, k) = {}
  <2>1. Blank(t) # {}
    BY <1>2 DEF LockSlot
  <2>2. First(Blank(t)) \in Blank(t)
    BY <2>1, FirstIn DEF Blank
  <2> QED
    BY <1>2, <2>1, <2>2 DEF LockSlot, LockCount, Blank
<1> QED
  BY <1>1, <1>2

-----------------------------------------------------------------------------
(* Handles that change without any of them coming to life or dying.        *)

\* A table that agrees with its handles still does when the handles change
\* only in what makes none of them live, or no longer live.
LEMMA SameHolders ==
  ASSUME NEW fs, NEW hs, NEW hs2, NEW vo, NEW id,
         TableInv(fs, hs, vo, id),
         PastIds(hs2, id),
         \A g \in Handles : LiveIn(hs2, vo, id, g) <=> LiveIn(hs, vo, id, g),
         \A g \in Handles : LiveIn(hs, vo, id, g) =>
           /\ hs2[g].key = hs[g].key
           /\ hs2[g].lockid = hs[g].lockid
           /\ hs2[g].acc = hs[g].acc
  PROVE  TableInv(fs, hs2, vo, id)
<1>1. \A i : HoldersIn(hs2, vo, id, i) = HoldersIn(hs, vo, id, i)
  BY DEF HoldersIn
<1>2. HeldSlots(fs, hs2, vo, id)
  BY DEF TableInv, HeldSlots
<1>3. \A i : \A h \in HoldersIn(hs, vo, id, i) : hs2[h].acc = hs[h].acc
  BY DEF HoldersIn
<1>4. Counted(fs, hs2, vo, id)
  BY <1>1, <1>3 DEF TableInv, Counted
<1> QED
  BY <1>2, <1>4 DEF TableInv

\* No handle is live: the volume is not mounted, or has just been mounted.
LEMMA NobodyLive ==
  ASSUME NEW fs, NEW hs, NEW vo, NEW id,
         \A g \in Handles : ~ LiveIn(hs, vo, id, g),
         OneSlotEach(fs), DirsRead(fs), PastIds(hs, id),
         vo = "mounted" => \A i \in Slots : fs[i].key = NoKey
  PROVE  TableInv(fs, hs, vo, id)
  BY DEF TableInv, HeldSlots, Counted

\* clear_lock leaves a typed table without a key in any slot.
LEMMA ClearLockFacts ==
  ASSUME NEW fs, TableType(fs)
  PROVE  /\ TableType(ClearLock(fs))
         /\ OneSlotEach(ClearLock(fs))
         /\ DirsRead(ClearLock(fs))
         /\ \A i \in Slots : ClearLock(fs)[i].key = NoKey
<1>2. TableType(ClearLock(fs))
  BY DEF ClearLock, TableType
<1>3. NoKey \notin DirKeys
  BY NoKeyIsNoKey DEF Keys
<1>4. \A i \in Slots : ClearLock(fs)[i].key = NoKey
  BY DEF ClearLock
<1> QED
  BY <1>2, <1>3, <1>4 DEF OneSlotEach, DirsRead

\* What find_volume leaves: the table and the handles still agree, nobody
\* becomes live, and a success means a mounted volume.
LEMMA VolumeStep ==
  ASSUME TypeOK, TableAgrees, NEW v \in FindVolume
  PROVE  /\ TableType(v.files)
         /\ v.vol \in {"none", "registered", "mounted"}
         /\ v.id \in 0 .. MaxMounts
         /\ v.ready \in BOOLEAN
         /\ v.ok => v.vol = "mounted"
         /\ \A g \in Handles : LiveIn(hnd, v.vol, v.id, g) => Live(g)
         /\ PastIds(hnd, v.id)
         /\ TableInv(v.files, hnd, v.vol, v.id)
         /\ \/ v.vol = vol /\ v.id = fsid /\ v.files = files
            \/ \A g \in Handles : ~ LiveIn(hnd, v.vol, v.id, g)
<1> USE DEF TableType
<1>1. CASE vol = "none" \/ (vol = "mounted" /\ ready)
  <2>1. /\ v.files = files /\ v.vol = vol /\ v.id = fsid /\ v.ready = ready
        /\ v.ok => vol = "mounted"
    <3>1. CASE v = Same /\ vol # "none"
      BY <1>1, <3>1 DEF Same
    <3>2. CASE v = [Same EXCEPT !.ok = FALSE]
      BY <3>2 DEF Same
    <3> QED
      BY <1>1, <3>1, <3>2 DEF FindVolume
  <2> QED
    BY <2>1 DEF TypeOK, TableAgrees, TableInv, Live
<1>2. CASE ~ (vol = "none" \/ (vol = "mounted" /\ ready))
  <2>1. CASE v = Mounted /\ fsid < MaxMounts
    <3>1. /\ v.files = ClearLock(files) /\ v.vol = "mounted" /\ v.id = fsid + 1
          /\ v.ready = TRUE /\ v.id \in 0 .. MaxMounts
      BY <2>1, ConstantsAssumption DEF Mounted, TypeOK
    <3>2. \A g \in Handles : hnd[g].id \in Nat /\ hnd[g].id <= fsid
      BY DEF TableAgrees, TableInv, PastIds, TypeOK, HandleRec
    <3>3. \A g \in Handles : ~ LiveIn(hnd, v.vol, v.id, g)
      BY <3>1, <3>2 DEF LiveIn, TypeOK
    <3>4. PastIds(hnd, v.id)
      BY <3>1, <3>2 DEF PastIds, TypeOK
    <3>5. TableType(files)
      BY DEF TypeOK
    <3>6. TableInv(v.files, hnd, v.vol, v.id)
      BY <3>1, <3>3, <3>4, <3>5, ClearLockFacts, NobodyLive
    <3> QED
      BY <3>1, <3>3, <3>4, <3>5, <3>6, ClearLockFacts
  <2>2. CASE \E r \in BOOLEAN : v = [Same EXCEPT !.ok = FALSE, !.vol = "registered", !.ready = r]
    <3>1. /\ v.files = files /\ v.vol = "registered" /\ v.id = fsid
          /\ v.ready \in BOOLEAN /\ ~ v.ok
      BY <2>2 DEF Same
    <3>2. \A g \in Handles : ~ LiveIn(hnd, v.vol, v.id, g)
      BY <3>1 DEF LiveIn
    <3>3. TableInv(v.files, hnd, v.vol, v.id)
      BY <3>1, <3>2, NobodyLive DEF TableAgrees, TableInv
    <3> QED
      BY <3>1, <3>2, <3>3 DEF TypeOK, TableInv
  <2> QED
    BY <1>2, <2>1, <2>2 DEF FindVolume
<1> QED
  BY <1>1, <1>2
-----------------------------------------------------------------------------
(* One slot taken.                                                         *)

\* The holders of a slot are finitely many, at most the handles there are.
LEMMA HoldersFinite ==
  ASSUME NEW hs, NEW vo, NEW id, NEW i
  PROVE  /\ IsFiniteSet(HoldersIn(hs, vo, id, i))
         /\ Cardinality(HoldersIn(hs, vo, id, i)) \in Nat
         /\ Cardinality(HoldersIn(hs, vo, id, i)) < WriteMark
<1>1. HoldersIn(hs, vo, id, i) \in SUBSET Handles
  BY DEF HoldersIn
<1>2. /\ IsFiniteSet(HoldersIn(hs, vo, id, i))
      /\ Cardinality(HoldersIn(hs, vo, id, i)) <= Cardinality(Handles)
  BY <1>1, FS_Subset, ConstantsAssumption DEF ConstantsAssumption
<1>3. Cardinality(HoldersIn(hs, vo, id, i)) \in Nat /\ Cardinality(Handles) \in Nat
  BY <1>2, FS_CardinalityType, ConstantsAssumption
<1> QED
  BY <1>2, <1>3, HandlesBelowMark, ConstantsAssumption

\* The state of the slot inc_lock takes, before it does: it counts its readers,
\* and counts nobody when the object is opened for writing.
LEMMA BeforeTaking ==
  ASSUME NEW fs, NEW hs, NEW id, NEW k \in Keys, NEW acc \in {0, 1},
         TableType(fs), TableInv(fs, hs, "mounted", id),
         IncLockId(fs, k, acc) # 0,
         acc = 0 => ~ (Matching(fs, k) # {} /\ LockCount(fs, k) = WriteMark)
  PROVE  LET i == LockSlot(fs, k)
             H == HoldersIn(hs, "mounted", id, i)
         IN  /\ i = IncLockId(fs, k, acc)
             /\ i \in Slots
             /\ fs[i].key \in {k, NoKey}
             /\ LockCount(fs, k) = Cardinality(H)
             /\ \A h \in H : hs[h].acc = 0
             /\ acc = 1 => H = {}
             /\ \A j \in Slots : fs[j].key = k => j = i
<1> DEFINE i == LockSlot(fs, k)
           H == HoldersIn(hs, "mounted", id, i)
<1>1. /\ i = IncLockId(fs, k, acc) /\ LockSlot(fs, k) # 0
      /\ acc = 1 => LockCount(fs, k) = 0
  BY DEF IncLockId
<1>2. /\ i \in Slots /\ fs[i].key \in {k, NoKey}
      /\ Matching(fs, k) # {} => fs[i].key = k /\ LockCount(fs, k) = fs[i].ctr
      /\ Matching(fs, k) = {} => fs[i].key = NoKey /\ LockCount(fs, k) = 0
  BY <1>1, LockSlotFacts
<1>3. k # NoKey
  BY NoKeyIsNoKey
<1>4. \A j \in Slots : fs[j].key = k => j = i
  BY <1>2, <1>3 DEF Matching, TableInv, OneSlotEach
<1>5. CASE Matching(fs, k) # {}
  <2>1. fs[i].ctr # WriteMark
    BY <1>1, <1>2, <1>5, ConstantsAssumption
  <2>2. /\ fs[i].ctr = Cardinality(H)
        /\ \A h \in H : hs[h].acc = 0
    BY <1>2, <1>3, <1>5, <2>1 DEF TableInv, Counted
  <2>3. acc = 1 => H = {}
    BY <1>1, <1>2, <1>5, <2>2, HoldersFinite, FS_EmptySet
  <2> QED
    BY <1>1, <1>2, <1>4, <1>5, <2>2, <2>3
<1>6. CASE Matching(fs, k) = {}
  <2>1. \A h \in Handles : LiveIn(hs, "mounted", id, h) => hs[h].lockid # i
    BY <1>2, <1>6, NoKeyIsNoKey DEF TableInv, HeldSlots
  <2>2. H = {}
    BY <2>1 DEF HoldersIn
  <2>3. Cardinality(H) = 0
    BY <2>2, FS_EmptySet
  <2> QED
    BY <1>1, <1>2, <1>4, <1>6, <2>2, <2>3
<1> QED
  BY <1>5, <1>6

\* inc_lock for an object that is then opened, or, for a writer, abandoned
\* (the append seek failed): the table and the handles agree again.
LEMMA TakeSlot ==
  ASSUME NEW fs, NEW hs, NEW id \in Nat, NEW k \in Keys, NEW acc \in {0, 1},
         NEW what, NEW h \in Handles, NEW r,
         TableType(fs), HandleType(hs), TableInv(fs, hs, "mounted", id),
         ~ LiveIn(hs, "mounted", id, h),
         IncLockId(fs, k, acc) # 0,
         acc = 0 => ~ (Matching(fs, k) # {} /\ LockCount(fs, k) = WriteMark),
         acc = 1 => k \notin DirKeys,
         \/ r = Handle(what, k, IncLockId(fs, k, acc), id, acc)
         \/ r = Closed /\ acc = 1
  PROVE  /\ TableType(IncLock(fs, k, acc))
         /\ TableInv(IncLock(fs, k, acc), [hs EXCEPT ![h] = r], "mounted", id)
<1> DEFINE i == LockSlot(fs, k)
           H == HoldersIn(hs, "mounted", id, i)
           c == IF acc # 0 THEN WriteMark ELSE LockCount(fs, k) + 1
           n == IncLock(fs, k, acc)
           hs2 == [hs EXCEPT ![h] = r]
<1>1. /\ i = IncLockId(fs, k, acc)
      /\ i \in Slots
      /\ fs[i].key \in {k, NoKey}
      /\ LockCount(fs, k) = Cardinality(H)
      /\ \A g \in H : hs[g].acc = 0
      /\ acc = 1 => H = {}
      /\ \A j \in Slots : fs[j].key = k => j = i
  BY BeforeTaking
<1>2. k # NoKey
  BY NoKeyIsNoKey
<1>3. /\ Cardinality(H) \in Nat /\ Cardinality(H) < WriteMark /\ IsFiniteSet(H)
  BY HoldersFinite
<1> HIDE DEF H
<1>4. c \in 0 .. MaxCtr /\ MaxCtr \in Nat
  BY <1>1, <1>3, MaxCtrNat, ConstantsAssumption
<1>5. n = [fs EXCEPT ![i] = [key |-> k, ctr |-> c]]
  <2>1. CASE acc = 0
    <3>1. LockCount(fs, k) + 1 \in 0 .. MaxCtr
      BY <1>4, <2>1
    <3>2. (LockCount(fs, k) + 1) % (MaxCtr + 1) = LockCount(fs, k) + 1
      <4> DEFINE x == LockCount(fs, k) + 1
      <4>1. x \in Nat /\ x <= MaxCtr
        BY <3>1, MaxCtrNat
      <4> HIDE DEF x
      <4>2. x % (MaxCtr + 1) = x
        BY <4>1, MaxCtrNat, NoWrap
      <4> QED
        BY <4>2 DEF x
    <3> QED
      BY <2>1, <3>2 DEF IncLock
  <2>2. CASE acc = 1
    BY <2>2 DEF IncLock
  <2> QED
    BY <2>1, <2>2
<1> HIDE DEF c, n
<1>6. /\ TableType(n)
      /\ n[i].key = k /\ n[i].ctr = c
      /\ \A j \in Slots : j # i => n[j] = fs[j]
  BY <1>1, <1>4, <1>5 DEF TableType
<1>7. \A g \in Handles : g # h => hs2[g] = hs[g]
  BY DEF HandleType
<1>8. hs2[h] = r
  BY DEF HandleType
<1> HIDE DEF hs2
<1>9. \/ /\ LiveIn(hs2, "mounted", id, h) /\ r.lockid = i /\ r.key = k /\ r.acc = acc
         /\ r.id = id
      \/ ~ LiveIn(hs2, "mounted", id, h) /\ acc = 1 /\ r.id = 0
  <2>1. CASE r = Handle(what, k, IncLockId(fs, k, acc), id, acc)
    BY <1>1, <1>8, <2>1 DEF LiveIn, Handle
  <2>2. CASE r = Closed /\ acc = 1
    BY <1>8, <2>2 DEF LiveIn, Closed
  <2> QED
    BY <2>1, <2>2
<1>10. \A g \in Handles : g # h =>
         (LiveIn(hs2, "mounted", id, g) <=> LiveIn(hs, "mounted", id, g))
  BY <1>7 DEF LiveIn
<1>11. \A j \in Slots : j # i =>
          HoldersIn(hs2, "mounted", id, j) = HoldersIn(hs, "mounted", id, j)
  BY <1>7, <1>8, <1>9, <1>10 DEF HoldersIn
<1>12. /\ HoldersIn(hs2, "mounted", id, i) \in {H, H \cup {h}}
       /\ acc = 0 => HoldersIn(hs2, "mounted", id, i) = H \cup {h} /\ r.acc = 0
       /\ h \in HoldersIn(hs2, "mounted", id, i) => r.acc = acc
       /\ h \notin H
  BY <1>7, <1>8, <1>9, <1>10 DEF HoldersIn, H
<1>13. HeldSlots(n, hs2, "mounted", id)
  <2> SUFFICES ASSUME NEW g \in Handles, LiveIn(hs2, "mounted", id, g)
               PROVE  /\ hs2[g].key \in Keys
                      /\ hs2[g].lockid \in Slots
                      /\ n[hs2[g].lockid].key = hs2[g].key
    BY DEF HeldSlots
  <2>1. CASE g = h
    BY <1>1, <1>6, <1>8, <1>9, <2>1
  <2>2. CASE g # h
    <3>1. /\ hs[g].key \in Keys /\ hs[g].lockid \in Slots
          /\ fs[hs[g].lockid].key = hs[g].key
      BY <1>10, <2>2 DEF TableInv, HeldSlots
    <3>2. hs[g].lockid = i => hs[g].key = k
      BY <1>1, <3>1, NoKeyIsNoKey
    <3> QED
      BY <1>6, <1>7, <2>2, <3>1, <3>2
  <2> QED
    BY <2>1, <2>2
<1>14. OneSlotEach(n)
  BY <1>1, <1>6 DEF TableInv, OneSlotEach
<1>15. Counted(n, hs2, "mounted", id)
  <2> SUFFICES ASSUME NEW j \in Slots, n[j].key # NoKey
               PROVE  IF n[j].ctr = WriteMark
                      THEN \A g, f \in HoldersIn(hs2, "mounted", id, j) : g = f /\ hs2[f].acc = 1
                      ELSE /\ n[j].ctr = Cardinality(HoldersIn(hs2, "mounted", id, j))
                           /\ \A f \in HoldersIn(hs2, "mounted", id, j) : hs2[f].acc = 0
    BY DEF Counted
  <2>1. CASE j # i
    <3>1. n[j] = fs[j] /\ HoldersIn(hs2, "mounted", id, j) = HoldersIn(hs, "mounted", id, j)
      BY <1>6, <1>11, <2>1
    <3>2. \A f \in HoldersIn(hs, "mounted", id, j) : hs2[f] = hs[f]
      BY <1>7, <1>8, <1>9, <2>1, <1>11 DEF HoldersIn
    <3> QED
      BY <3>1, <3>2 DEF TableInv, Counted
  <2>2. CASE j = i /\ acc = 1
    <3>1. n[i].ctr = WriteMark
      BY <1>6, <2>2 DEF c
    <3>2. HoldersIn(hs2, "mounted", id, i) \subseteq {h}
      BY <1>1, <1>12, <2>2
    <3>3. h \in HoldersIn(hs2, "mounted", id, i) => hs2[h].acc = 1
      BY <1>8, <1>12, <2>2
    <3> QED
      BY <2>2, <3>1, <3>2, <3>3
  <2>3. CASE j = i /\ acc = 0
    <3>1. HoldersIn(hs2, "mounted", id, i) = H \cup {h} /\ h \notin H
      BY <1>12, <2>3
    <3>2. Cardinality(HoldersIn(hs2, "mounted", id, i)) = Cardinality(H) + 1
      BY <1>3, <3>1, FS_AddElement
    <3>3. n[i].ctr = Cardinality(HoldersIn(hs2, "mounted", id, i))
      BY <1>1, <1>6, <2>3, <3>2 DEF c
    <3>4. n[i].ctr # WriteMark
      BY <3>3, HoldersFinite, ConstantsAssumption
    <3>5. \A f \in H : f # h /\ f \in Handles
      BY <3>1 DEF H, HoldersIn
    <3>6. \A f \in H \cup {h} : hs2[f].acc = 0
      BY <1>1, <1>7, <1>8, <1>12, <2>3, <3>5
    <3> QED
      BY <2>3, <3>1, <3>3, <3>4, <3>6
  <2> QED
    BY <2>1, <2>2, <2>3
<1>16. DirsRead(n)
  <2>1. acc = 0 => c # WriteMark
    <3>1. CASE acc = 0
      <4>1. HoldersIn(hs2, "mounted", id, i) = H \cup {h} /\ h \notin H
        BY <1>12, <3>1
      <4>2. Cardinality(HoldersIn(hs2, "mounted", id, i)) = Cardinality(H) + 1
        BY <1>3, <4>1, FS_AddElement
      <4> QED
        BY <1>1, <3>1, <4>2, HoldersFinite, ConstantsAssumption DEF c
    <3> QED
      BY <3>1
  <2> QED
    BY <1>6, <2>1 DEF TableInv, DirsRead
<1>17. PastIds(hs2, id)
  BY <1>7, <1>8, <1>9 DEF TableInv, PastIds
<1> QED
  BY <1>6, <1>13, <1>14, <1>15, <1>16, <1>17 DEF TableInv, n, hs2

-----------------------------------------------------------------------------
(* One slot given back.                                                    *)

\* dec_lock for a handle that is then closed.
LEMMA ReleaseSlot ==
  ASSUME NEW fs, NEW hs, NEW id \in Nat, NEW h \in Handles,
         TableType(fs), HandleType(hs), TableInv(fs, hs, "mounted", id),
         LiveIn(hs, "mounted", id, h)
  PROVE  /\ TableType(DecLock(fs, hs[h].lockid))
         /\ TableInv(DecLock(fs, hs[h].lockid), [hs EXCEPT ![h] = Closed], "mounted", id)
<1> DEFINE i == hs[h].lockid
           H == HoldersIn(hs, "mounted", id, i)
           c == DecCount(fs[i].ctr)
           n == DecLock(fs, i)
           hs2 == [hs EXCEPT ![h] = Closed]
<1>1. /\ i \in Slots /\ fs[i].key = hs[h].key /\ hs[h].key \in Keys
      /\ fs[i].key # NoKey
  BY NoKeyIsNoKey DEF TableInv, HeldSlots
<1>2. h \in H
  BY DEF HoldersIn
<1>3. fs[i].ctr \in 0 .. MaxCtr /\ c \in 0 .. MaxCtr
  BY <1>1, MaxCtrNat DEF TableType, DecCount
<1>4. n = [fs EXCEPT ![i] = [key |-> IF c = 0 THEN NoKey ELSE fs[i].key, ctr |-> c]]
  BY DEF DecLock
<1> HIDE DEF c, n
<1>5. /\ TableType(n)
      /\ n[i].key = (IF c = 0 THEN NoKey ELSE fs[i].key)
      /\ n[i].ctr = c
      /\ \A j \in Slots : j # i => n[j] = fs[j]
  BY <1>1, <1>3, <1>4 DEF TableType
<1>6. /\ hs2[h] = Closed
      /\ \A g \in Handles : g # h => hs2[g] = hs[g]
  BY DEF HandleType
<1> HIDE DEF hs2
<1>7. ~ LiveIn(hs2, "mounted", id, h)
  BY <1>6 DEF LiveIn, Closed
<1>8. \A j : HoldersIn(hs2, "mounted", id, j) = HoldersIn(hs, "mounted", id, j) \ {h}
  BY <1>6, <1>7 DEF HoldersIn, LiveIn
<1>9. \A j \in Slots : j # i => h \notin HoldersIn(hs, "mounted", id, j)
  BY DEF HoldersIn
<1>10. \/ fs[i].ctr = WriteMark /\ c = 0 /\ H = {h}
       \/ /\ fs[i].ctr # WriteMark
          /\ fs[i].ctr = Cardinality(H)
          /\ c = Cardinality(H) - 1
          /\ \A g \in H : hs[g].acc = 0
  <2>1. CASE fs[i].ctr = WriteMark
    BY <1>1, <1>2, <2>1 DEF TableInv, Counted, DecCount, c
  <2>2. CASE fs[i].ctr # WriteMark
    <3>1. /\ fs[i].ctr = Cardinality(H)
          /\ \A g \in H : hs[g].acc = 0
      BY <1>1, <2>2 DEF TableInv, Counted
    <3>2. Cardinality(H) # 0
      BY <1>2, HoldersFinite, FS_EmptySet
    <3> QED
      BY <2>2, <3>1, <3>2 DEF DecCount, c
  <2> QED
    BY <2>1, <2>2
<1>11. /\ IsFiniteSet(H) /\ Cardinality(H) \in Nat /\ Cardinality(H) < WriteMark
  BY HoldersFinite
<1>12. Cardinality(H \ {h}) = Cardinality(H) - 1 /\ IsFiniteSet(H \ {h})
  BY <1>2, <1>11, FS_RemoveElement
<1>13. c = 0 => H \ {h} = {}
  BY <1>10, <1>11, <1>12, FS_EmptySet
<1>14. HoldersIn(hs2, "mounted", id, i) = H \ {h}
  BY <1>8
<1>15. c # WriteMark
  BY <1>3, <1>10, <1>11, ConstantsAssumption
<1>16. HeldSlots(n, hs2, "mounted", id)
  <2> SUFFICES ASSUME NEW g \in Handles, LiveIn(hs2, "mounted", id, g)
               PROVE  /\ hs2[g].key \in Keys
                      /\ hs2[g].lockid \in Slots
                      /\ n[hs2[g].lockid].key = hs2[g].key
    BY DEF HeldSlots
  <2>1. g # h /\ hs2[g] = hs[g] /\ LiveIn(hs, "mounted", id, g)
    BY <1>6, <1>7 DEF LiveIn
  <2>2. /\ hs[g].key \in Keys /\ hs[g].lockid \in Slots
        /\ fs[hs[g].lockid].key = hs[g].key
    BY <2>1 DEF TableInv, HeldSlots
  <2>3. hs[g].lockid = i => c # 0
    BY <1>13, <2>1 DEF HoldersIn
  <2> QED
    BY <1>5, <2>1, <2>2, <2>3
<1>17. OneSlotEach(n)
  BY <1>1, <1>5 DEF TableInv, OneSlotEach
<1> HIDE DEF H
<1>18. Counted(n, hs2, "mounted", id)
  <2> SUFFICES ASSUME NEW j \in Slots, n[j].key # NoKey
               PROVE  IF n[j].ctr = WriteMark
                      THEN \A g, f \in HoldersIn(hs2, "mounted", id, j) : g = f /\ hs2[f].acc = 1
                      ELSE /\ n[j].ctr = Cardinality(HoldersIn(hs2, "mounted", id, j))
                           /\ \A f \in HoldersIn(hs2, "mounted", id, j) : hs2[f].acc = 0
    BY DEF Counted
  <2>1. CASE j # i
    <3>1. n[j] = fs[j] /\ HoldersIn(hs2, "mounted", id, j) = HoldersIn(hs, "mounted", id, j)
      BY <1>5, <1>8, <1>9, <2>1
    <3>2. \A f \in HoldersIn(hs, "mounted", id, j) : hs2[f] = hs[f]
      BY <1>6, <1>9, <2>1 DEF HoldersIn
    <3> QED
      BY <3>1, <3>2 DEF TableInv, Counted
  <2>2. CASE j = i
    <3>1. c # 0 /\ n[i].ctr = c
      BY <1>5, <2>2
    <3>2. fs[i].ctr # WriteMark /\ c = Cardinality(H) - 1 /\ \A g \in H : hs[g].acc = 0
      BY <1>10, <3>1
    <3>3. \A f \in H \ {h} : hs2[f].acc = 0
      BY <1>6, <3>2 DEF H, HoldersIn
    <3> QED
      BY <1>12, <1>14, <1>15, <2>2, <3>1, <3>2, <3>3
  <2> QED
    BY <2>1, <2>2
<1>19. DirsRead(n)
  BY <1>5, <1>15 DEF TableInv, DirsRead
<1>20. PastIds(hs2, id)
  BY <1>6 DEF TableInv, PastIds, Closed
<1> QED
  BY <1>5, <1>16, <1>17, <1>18, <1>19, <1>20 DEF TableInv, n, hs2

-----------------------------------------------------------------------------
(* The steps of the specification.                                         *)

IInv == TypeOK /\ TableAgrees

\* The key under which f_open locks a file is a key.
LEMMA EntryKeys ==
  /\ \A o \in Offs : EntryKey(o) \in Keys /\ EntryKey(o) \notin DirKeys
  /\ \A c \in Clusters : SelfKey(c) \in Keys
  BY EntryNotDir DEF Keys, DirKeys

\* inc_lock returns 0 or the number of a slot.
LEMMA IdRange ==
  ASSUME NEW t, TableType(t), NEW k, NEW acc
  PROVE  IncLockId(t, k, acc) \in 0 .. NLock
<1>1. CASE LockSlot(t, k) = 0
  BY <1>1, ConstantsAssumption DEF IncLockId
<1>2. CASE LockSlot(t, k) # 0
  <2>1. LockSlot(t, k) \in 1 .. NLock
    BY <1>2, LockSlotFacts DEF Slots
  <2> QED
    BY <2>1, ConstantsAssumption DEF IncLockId
<1> QED
  BY <1>1, <1>2

\* A handle made by an open has its type.
LEMMA HandleInRec ==
  ASSUME NEW w \in {"file", "dir"}, NEW k \in Keys, NEW i \in 0 .. NLock,
         NEW id \in 0 .. MaxMounts, NEW acc \in {0, 1}
  PROVE  Handle(w, k, i, id, acc) \in HandleRec
  BY DEF Handle, HandleRec

\* A closed handle has the type of a handle.
LEMMA ClosedInRec == Closed \in HandleRec
  BY ConstantsAssumption DEF Closed, HandleRec

\* Closing a handle that is not live changes nothing the table counts.
LEMMA CloseDead ==
  ASSUME NEW fs, NEW hs, NEW vo, NEW id \in Nat, NEW h \in Handles,
         HandleType(hs), TableInv(fs, hs, vo, id), ~ LiveIn(hs, vo, id, h)
  PROVE  /\ HandleType([hs EXCEPT ![h] = Closed])
         /\ TableInv(fs, [hs EXCEPT ![h] = Closed], vo, id)
<1> DEFINE hs2 == [hs EXCEPT ![h] = Closed]
<1>1. /\ hs2[h] = Closed
      /\ \A g \in Handles : g # h => hs2[g] = hs[g]
      /\ HandleType(hs2)
  BY ClosedInRec DEF HandleType
<1> HIDE DEF hs2
<1>2. PastIds(hs2, id)
  BY <1>1 DEF TableInv, PastIds, Closed
<1>3. \A g \in Handles : LiveIn(hs2, vo, id, g) <=> LiveIn(hs, vo, id, g)
  BY <1>1 DEF LiveIn, Closed
<1>4. \A g \in Handles : LiveIn(hs, vo, id, g) =>
        hs2[g].key = hs[g].key /\ hs2[g].lockid = hs[g].lockid /\ hs2[g].acc = hs[g].acc
  BY <1>1
<1>5. TableInv(fs, hs2, vo, id)
  BY <1>2, <1>3, <1>4, SameHolders
<1> QED
  BY <1>1, <1>5 DEF hs2

\* A failed f_open or f_opendir.
LEMMA OpenFailsStep ==
  ASSUME IInv, NEW v \in FindVolume, SetVolume(v),
         NEW h \in Handles, ~ Live(h), OpenFails(h, v)
  PROVE  IInv'
<1>1. /\ TableType(v.files) /\ v.vol \in {"none", "registered", "mounted"}
      /\ v.id \in 0 .. MaxMounts /\ v.ready \in BOOLEAN
      /\ TableInv(v.files, hnd, v.vol, v.id) /\ ~ LiveIn(hnd, v.vol, v.id, h)
  BY VolumeStep DEF IInv
<1>2. v.id \in Nat
  BY <1>1, ConstantsAssumption
<1>3. HandleType(hnd)
  BY DEF IInv, TypeOK, HandleType
<1>4. HandleType(hnd') /\ TableInv(v.files, hnd', v.vol, v.id)
  BY <1>1, <1>2, <1>3, CloseDead DEF OpenFails
<1> QED
  BY <1>1, <1>4 DEF IInv, TypeOK, TableAgrees, OpenFails, SetVolume, TableType, HandleType

\* The tail of f_open.
LEMMA OpenEntryStep ==
  ASSUME IInv, NEW v \in FindVolume, v.ok, SetVolume(v),
         NEW h \in Handles, ~ Live(h), NEW o \in Offs, NEW m \in Modes,
         Acc(m) = 0 => ~ (/\ Matching(v.files, EntryKey(o)) # {}
                          /\ LockCount(v.files, EntryKey(o)) = WriteMark),
         OpenEntry(h, v, o, m), ent' \in [Offs -> Entries]
  PROVE  IInv'
<1> DEFINE k == EntryKey(o)
           i == IncLockId(v.files, k, Acc(m))
<1>1. /\ TableType(v.files) /\ v.vol = "mounted"
      /\ v.id \in 0 .. MaxMounts /\ v.ready \in BOOLEAN
      /\ TableInv(v.files, hnd, "mounted", v.id) /\ ~ LiveIn(hnd, "mounted", v.id, h)
  BY VolumeStep DEF IInv
<1>2. v.id \in Nat /\ k \in Keys /\ k \notin DirKeys /\ Acc(m) \in {0, 1}
  BY <1>1, ConstantsAssumption, EntryKeys DEF Acc
<1>3. HandleType(hnd)
  BY DEF IInv, TypeOK, HandleType
<1>4. CASE i = 0
  <2>1. files' = v.files /\ hnd' = [hnd EXCEPT ![h] = Closed]
    BY <1>4 DEF OpenEntry, IncLock
  <2>2. HandleType(hnd') /\ TableInv(v.files, hnd', "mounted", v.id)
    BY <1>1, <1>2, <1>3, <2>1, CloseDead
  <2> QED
    BY <1>1, <2>1, <2>2 DEF IInv, TypeOK, TableAgrees, SetVolume, TableType, HandleType
<1>5. CASE i # 0
  <2>1. PICK r \in {Closed, Handle("file", k, i, v.id, Acc(m))} :
          /\ hnd' = [hnd EXCEPT ![h] = r]
          /\ \/ r = Closed /\ m = "append"
             \/ r = Handle("file", k, i, v.id, Acc(m))
    BY <1>5 DEF OpenEntry
  <2>2. m = "append" => Acc(m) = 1
    BY DEF Acc
  <2>3. files' = IncLock(v.files, k, Acc(m))
    BY DEF OpenEntry
  <2>4. TableType(files') /\ TableInv(files', hnd', "mounted", v.id)
    BY <1>1, <1>2, <1>3, <1>5, <2>1, <2>2, <2>3, TakeSlot
  <2>5. i \in 0 .. NLock
    BY <1>1, IdRange
  <2>6. r \in HandleRec
    BY <1>1, <1>2, <2>1, <2>5, HandleInRec, ClosedInRec
  <2>7. HandleType(hnd')
    BY <1>3, <2>1, <2>6 DEF HandleType
  <2> QED
    BY <1>1, <2>4, <2>7 DEF IInv, TypeOK, TableAgrees, SetVolume, TableType, HandleType
<1> QED
  BY <1>4, <1>5

\* What the calls put into a directory are directory entries.
LEMMA EntryTypes ==
  /\ Free \in Entries
  /\ \A n \in Names : FileEntry(n) \in Entries
  /\ \A n \in Names, c \in Clusters : DirEntry(n, c) \in Entries
  /\ \A e \in Entries, n \in Names : e.kind # "free" => [e EXCEPT !.name = n] \in Entries
<1>1. ASSUME NEW e \in Entries, NEW n \in Names, e.kind # "free"
      PROVE  [e EXCEPT !.name = n] \in Entries
  <2>1. CASE \E a \in Names : e = FileEntry(a)
    <3>1. [e EXCEPT !.name = n] = FileEntry(n)
      BY <2>1 DEF FileEntry
    <3> QED
      BY <3>1 DEF Entries
  <2>2. CASE \E a \in Names, c \in Clusters : e = DirEntry(a, c)
    <3>1. PICK c \in Clusters : [e EXCEPT !.name = n] = DirEntry(n, c)
      BY <2>2 DEF DirEntry
    <3> QED
      BY <3>1 DEF Entries
  <2> QED
    BY <1>1, <2>1, <2>2 DEF Entries, Free
<1> QED
  BY <1>1 DEF Entries

\* A call that ends after find_volume leaves the invariant, whatever it does to
\* the directory.
LEMMA VolumeOnlyStep ==
  ASSUME IInv, NEW v \in FindVolume, SetVolume(v), files' = v.files, hnd' = hnd,
         ent' \in [Offs -> Entries]
  PROVE  IInv'
<1>1. /\ TableType(v.files) /\ v.vol \in {"none", "registered", "mounted"}
      /\ v.id \in 0 .. MaxMounts /\ v.ready \in BOOLEAN
      /\ TableInv(v.files, hnd, v.vol, v.id)
  BY VolumeStep DEF IInv
<1> QED
  BY <1>1 DEF IInv, TypeOK, TableAgrees, SetVolume, TableType

\* f_open preserves the invariant.
LEMMA FOpenStep ==
  ASSUME IInv, NEW h \in Handles, NEW n \in Names, NEW m \in Modes, FOpen(h, n, m)
  PROVE  IInv'
<1>1. PICK v \in FindVolume :
        /\ SetVolume(v)
        /\ \/ ~v.ok /\ OpenFails(h, v)
           \/ v.ok /\ \E o \in Named(n) : OpenExisting(h, v, o, m)
           \/ v.ok /\ Named(n) = {} /\ OpenNew(h, v, n, m)
  BY DEF FOpen
<1>2. ~ Live(h)
  BY DEF FOpen
<1>3. CASE OpenFails(h, v)
  BY <1>1, <1>2, <1>3, OpenFailsStep
<1>4. ASSUME v.ok, NEW o \in Offs, OpenExisting(h, v, o, m), ~ OpenFails(h, v)
      PROVE  IInv'
  <2> DEFINE k == EntryKey(o)
  <2>1. /\ ChkLock(v.files, k, Acc(m)) = "OK" /\ OpenEntry(h, v, o, m) /\ ent' = ent
    BY <1>4 DEF OpenExisting
  <2>2. Acc(m) = 0 => ~ (Matching(v.files, k) # {} /\ LockCount(v.files, k) = WriteMark)
    BY <2>1 DEF ChkLock, LockCount
  <2>3. ent' \in [Offs -> Entries]
    BY <2>1 DEF IInv, TypeOK
  <2> QED
    BY <1>1, <1>2, <1>4, <2>1, <2>2, <2>3, OpenEntryStep
<1>5. ASSUME v.ok, OpenNew(h, v, n, m), ~ OpenFails(h, v)
      PROVE  IInv'
  <2>1. PICK o \in FreeOffs :
          ent' = [ent EXCEPT ![o] = FileEntry(n)] /\ OpenEntry(h, v, o, m)
    BY <1>5 DEF OpenNew
  <2>2. o \in Offs /\ Acc(m) = 1
    BY <1>5 DEF OpenNew, Creating, Acc, FreeOffs
  <2>3. ent' \in [Offs -> Entries]
    BY <2>1, EntryTypes DEF IInv, TypeOK
  <2> QED
    BY <1>1, <1>2, <1>5, <2>1, <2>2, <2>3, OpenEntryStep
<1> QED
  BY <1>1, <1>3, <1>4, <1>5 DEF Named

\* f_opendir preserves the invariant.
LEMMA FOpendirStep ==
  ASSUME IInv, NEW h \in Handles, NEW n \in Names, FOpendir(h, n)
  PROVE  IInv'
<1>1. PICK v \in FindVolume :
        /\ SetVolume(v)
        /\ \/ OpenFails(h, v)
           \/ /\ v.ok
              /\ \E o \in Named(n) :
                   /\ ent[o].kind = "dir"
                   /\ LET k == SelfKey(ent[o].clu)
                          i == IncLockId(v.files, k, 0)
                      IN  /\ i # 0
                          /\ files' = IncLock(v.files, k, 0)
                          /\ hnd' = [hnd EXCEPT ![h] = Handle("dir", k, i, v.id, 0)]
              /\ UNCHANGED ent
  BY DEF FOpendir
<1>2. ~ Live(h)
  BY DEF FOpendir
<1>3. CASE OpenFails(h, v)
  BY <1>1, <1>2, <1>3, OpenFailsStep
<1>4. CASE ~ OpenFails(h, v)
  <2>1. PICK o \in Offs :
          /\ v.ok
          /\ ent[o].kind = "dir"
          /\ IncLockId(v.files, SelfKey(ent[o].clu), 0) # 0
          /\ files' = IncLock(v.files, SelfKey(ent[o].clu), 0)
          /\ hnd' = [hnd EXCEPT ![h] =
                       Handle("dir", SelfKey(ent[o].clu),
                              IncLockId(v.files, SelfKey(ent[o].clu), 0), v.id, 0)]
          /\ ent' = ent
    BY <1>1, <1>4 DEF Named
  <2>2. ent[o].clu \in Clusters
    BY <2>1 DEF IInv, TypeOK, Entries, Free, FileEntry, DirEntry
  <2> DEFINE k == SelfKey(ent[o].clu)
             i == IncLockId(v.files, k, 0)
             r == Handle("dir", k, i, v.id, 0)
  <2>3. k \in Keys /\ k \in DirKeys
    BY <2>2, EntryKeys DEF DirKeys
  <2>4. /\ TableType(v.files) /\ v.vol = "mounted"
        /\ v.id \in 0 .. MaxMounts /\ v.ready \in BOOLEAN
        /\ TableInv(v.files, hnd, "mounted", v.id) /\ ~ LiveIn(hnd, "mounted", v.id, h)
    BY <1>2, <2>1, VolumeStep DEF IInv
  <2>5. v.id \in Nat
    BY <2>4, ConstantsAssumption
  <2>6. ~ (Matching(v.files, k) # {} /\ LockCount(v.files, k) = WriteMark)
    <3> SUFFICES ASSUME Matching(v.files, k) # {} PROVE LockCount(v.files, k) # WriteMark
      OBVIOUS
    <3>1. First(Matching(v.files, k)) \in Matching(v.files, k)
      BY FirstIn DEF Matching
    <3>2. /\ First(Matching(v.files, k)) \in Slots
          /\ v.files[First(Matching(v.files, k))].key = k
      BY <3>1 DEF Matching
    <3> QED
      BY <2>3, <2>4, <3>2 DEF TableInv, DirsRead, LockCount
  <2>7. HandleType(hnd)
    BY DEF IInv, TypeOK, HandleType
  <2>8. TableType(files') /\ TableInv(files', hnd', "mounted", v.id)
    <3>1. /\ files' = IncLock(v.files, k, 0) /\ hnd' = [hnd EXCEPT ![h] = r]
          /\ IncLockId(v.files, k, 0) # 0
      BY <2>1
    <3>2. r = Handle("dir", k, IncLockId(v.files, k, 0), v.id, 0)
      OBVIOUS
    <3>3. PICK a \in {0, 1} : a = 0
      OBVIOUS
    <3>4. /\ IncLockId(v.files, k, a) # 0
          /\ r = Handle("dir", k, IncLockId(v.files, k, a), v.id, a)
          /\ a # 1
      BY <3>1, <3>3
    <3> HIDE DEF k, r, i
    <3>5. /\ TableType(IncLock(v.files, k, a))
          /\ TableInv(IncLock(v.files, k, a), [hnd EXCEPT ![h] = r], "mounted", v.id)
      BY <2>3, <2>4, <2>5, <2>6, <2>7, <3>4, TakeSlot
    <3> QED
      BY <3>1, <3>3, <3>5
  <2>9. r \in HandleRec
    BY <2>3, <2>4, IdRange, HandleInRec
  <2>10. HandleType(hnd')
    BY <2>1, <2>7, <2>9 DEF HandleType
  <2> QED
    BY <1>1, <2>1, <2>4, <2>8, <2>10 DEF IInv, TypeOK, TableAgrees, SetVolume, TableType, HandleType
<1> QED
  BY <1>3, <1>4

\* Both halves of f_close, and f_closedir, preserve the invariant.
LEMMA FCloseStep ==
  ASSUME IInv, NEW h \in Handles, FCloseSync(h) \/ FCloseRelease(h) \/ FClosedir(h)
  PROVE  IInv'
<1>1. /\ TableType(files) /\ HandleType(hnd) /\ TableInv(files, hnd, vol, fsid) /\ fsid \in Nat
  BY ConstantsAssumption DEF IInv, TypeOK, TableType, HandleType, TableAgrees
<1>2. UNCHANGED <<ent, vol, fsid, ready>>
  BY DEF FCloseSync, FCloseRelease, FClosedir
<1>3. ASSUME NEW st \in {"open", "closing"}, hnd[h].st # "closed",
             hnd' = [hnd EXCEPT ![h].st = st], files' = files
      PROVE  IInv'
  <2>1. /\ hnd'[h] = [hnd[h] EXCEPT !.st = st]
        /\ \A g \in Handles : g # h => hnd'[g] = hnd[g]
    BY <1>1, <1>3 DEF HandleType
  <2>2. hnd[h] \in HandleRec
    BY <1>1 DEF HandleType
  <2>3. /\ hnd'[h] \in HandleRec /\ hnd'[h].st = st
        /\ hnd'[h].id = hnd[h].id /\ hnd'[h].key = hnd[h].key
        /\ hnd'[h].lockid = hnd[h].lockid /\ hnd'[h].acc = hnd[h].acc
    BY <2>1, <2>2 DEF HandleRec
  <2>4. hnd' \in [Handles -> HandleRec]
    BY <1>1, <1>3, <2>1, <2>3 DEF HandleType
  <2>5. \A g \in Handles : /\ hnd'[g].id = hnd[g].id /\ hnd'[g].key = hnd[g].key
                           /\ hnd'[g].lockid = hnd[g].lockid /\ hnd'[g].acc = hnd[g].acc
                           /\ hnd'[g].st = "closed" <=> hnd[g].st = "closed"
    BY <1>3, <2>1, <2>3
  <2>6. PastIds(hnd', fsid)
    BY <1>1, <2>5 DEF TableInv, PastIds
  <2>7. \A g \in Handles : LiveIn(hnd', vol, fsid, g) <=> LiveIn(hnd, vol, fsid, g)
    BY <2>5 DEF LiveIn
  <2>8. TableInv(files, hnd', vol, fsid)
    BY <1>1, <2>5, <2>6, <2>7, SameHolders
  <2> QED
    BY <1>2, <1>3, <2>4, <2>8 DEF IInv, TypeOK, TableAgrees
<1>4. ASSUME Valid(h), Release(h)
      PROVE  IInv'
  <2>1. vol = "mounted" /\ LiveIn(hnd, "mounted", fsid, h)
    BY <1>4 DEF Valid, Live, LiveIn
  <2>2. TableType(files') /\ TableInv(files', hnd', "mounted", fsid)
    BY <1>1, <1>4, <2>1, ReleaseSlot DEF Release
  <2>3. HandleType(hnd')
    BY <1>1, <1>4, ClosedInRec DEF Release, HandleType
  <2> QED
    BY <1>2, <2>1, <2>2, <2>3 DEF IInv, TypeOK, TableAgrees, TableType, HandleType
<1>5. CASE FCloseSync(h)
  BY <1>3, <1>5 DEF FCloseSync
<1>6. CASE FCloseRelease(h)
  BY <1>3, <1>4, <1>6 DEF FCloseRelease
<1>7. CASE FClosedir(h)
  BY <1>4, <1>7 DEF FClosedir
<1> QED
  BY <1>5, <1>6, <1>7

\* f_unlink, f_mkdir and f_rename preserve the invariant.
LEMMA DirectoryStep ==
  ASSUME IInv, NEW n \in Names,
         FUnlink(n) \/ FMkdir(n) \/ \E new \in Names : FRename(n, new)
  PROVE  IInv'
<1>1. ent \in [Offs -> Entries]
  BY DEF IInv, TypeOK
<1>2. CASE FUnlink(n)
  <2>1. ent' \in [Offs -> Entries]
    BY <1>1, <1>2, EntryTypes DEF FUnlink
  <2> QED
    BY <1>2, <2>1, VolumeOnlyStep DEF FUnlink
<1>3. CASE FMkdir(n)
  <2>1. ent' \in [Offs -> Entries]
    BY <1>1, <1>3, EntryTypes DEF FMkdir
  <2> QED
    BY <1>3, <2>1, VolumeOnlyStep DEF FMkdir
<1>4. ASSUME NEW new \in Names, FRename(n, new)
      PROVE  IInv'
  <2>1. ent' \in [Offs -> Entries]
    <3>1. CASE ent' = ent
      BY <1>1, <3>1
    <3>2. CASE ent' # ent
      <4>1. PICK o \in Named(n), p \in FreeOffs : \E old \in {Free, ent[o]} :
              ent' = [ent EXCEPT ![o] = old, ![p] = [ent[o] EXCEPT !.name = new]]
        BY <1>4, <3>2 DEF FRename
      <4>2. o \in Offs /\ p \in Offs /\ ent[o] \in Entries /\ ent[o].kind # "free"
        BY <1>1 DEF Named, FreeOffs
      <4> DEFINE e == [ent[o] EXCEPT !.name = new]
      <4>3. e \in Entries
        BY <4>2, EntryTypes
      <4> HIDE DEF e
      <4>4. PICK old \in Entries : ent' = [ent EXCEPT ![o] = old, ![p] = e]
        BY <4>1, <4>2, EntryTypes DEF e
      <4> QED
        BY <1>1, <4>2, <4>3, <4>4
    <3> QED
      BY <3>1, <3>2
  <2> QED
    BY <1>4, <2>1, VolumeOnlyStep DEF FRename
<1> QED
  BY <1>2, <1>3, <1>4

\* A call that only finds the volume preserves the invariant.
LEMMA OtherStep ==
  ASSUME IInv, FOther
  PROVE  IInv'
<1>1. ent' \in [Offs -> Entries]
  BY DEF FOther, IInv, TypeOK
<1> QED
  BY <1>1, VolumeOnlyStep DEF FOther

\* f_mount preserves the invariant.
LEMMA FMountStep ==
  ASSUME IInv, FMount
  PROVE  IInv'
<1>1. /\ TableType(files) /\ HandleType(hnd) /\ TableInv(files, hnd, vol, fsid)
      /\ fsid \in Nat /\ ent' = ent /\ hnd' = hnd
  BY ConstantsAssumption DEF IInv, TypeOK, TableType, HandleType, TableAgrees, FMount
<1>2. /\ TableType(files') /\ OneSlotEach(files') /\ DirsRead(files')
  <2>1. files' = files \/ files' = ClearLock(files)
    BY DEF FMount
  <2> QED
    BY <1>1, <2>1, ClearLockFacts DEF TableInv
<1>3. CASE vol' \in {"none", "registered"} /\ fsid' = fsid /\ ready' \in BOOLEAN
  <2>1. \A g \in Handles : ~ LiveIn(hnd', vol', fsid', g)
    BY <1>3 DEF LiveIn
  <2>2. TableInv(files', hnd', vol', fsid')
    BY <1>1, <1>2, <1>3, <2>1, NobodyLive DEF TableInv
  <2> QED
    BY <1>1, <1>2, <1>3, <2>2 DEF IInv, TypeOK, TableAgrees, TableType
<1>4. CASE /\ fsid < MaxMounts /\ files' = ClearLock(files)
           /\ vol' = "mounted" /\ fsid' = fsid + 1 /\ ready' = TRUE
  <2>1. fsid' \in 0 .. MaxMounts
    BY <1>1, <1>4, ConstantsAssumption
  <2>2. \A g \in Handles : hnd[g].id \in Nat /\ hnd[g].id <= fsid
    BY <1>1, ConstantsAssumption DEF HandleType, HandleRec, TableInv, PastIds
  <2>3. PastIds(hnd', fsid') /\ \A g \in Handles : ~ LiveIn(hnd', vol', fsid', g)
    BY <1>1, <1>4, <2>2 DEF PastIds, LiveIn
  <2>4. \A i \in Slots : files'[i].key = NoKey
    BY <1>1, <1>4, ClearLockFacts
  <2>5. TableInv(files', hnd', vol', fsid')
    BY <1>2, <2>3, <2>4, NobodyLive
  <2> QED
    BY <1>1, <1>2, <1>4, <2>1, <2>5 DEF IInv, TypeOK, TableAgrees, TableType
<1> QED
  BY <1>3, <1>4 DEF FMount, IInv, TypeOK

-----------------------------------------------------------------------------
(* The theorems.                                                           *)

\* The invariant holds before the first mount.
LEMMA Initially == Init => IInv
<1> SUFFICES ASSUME Init PROVE IInv
  OBVIOUS
<1>1. /\ TableType(files) /\ HandleType(hnd) /\ ent \in [Offs -> Entries] /\ fsid \in 0 .. MaxMounts
  BY ClosedInRec, EntryTypes, MaxCtrNat, ConstantsAssumption DEF Init, TableType, HandleType
<1>2. \A i \in Slots : files[i].key = NoKey
  BY DEF Init
<1>3. OneSlotEach(files) /\ DirsRead(files)
  BY <1>2, NoKeyIsNoKey DEF OneSlotEach, DirsRead, Keys
<1>4. PastIds(hnd, fsid) /\ \A g \in Handles : ~ LiveIn(hnd, vol, fsid, g)
  BY DEF Init, PastIds, LiveIn, Closed
<1>5. TableInv(files, hnd, vol, fsid)
  BY <1>2, <1>3, <1>4, NobodyLive
<1> QED
  BY <1>1, <1>5 DEF IInv, TypeOK, TableAgrees, TableType, HandleType, Init

\* Every step of the table preserves the invariant.
LEMMA Step == IInv /\ [Next]_vars => IInv'
<1> SUFFICES ASSUME IInv, [Next]_vars PROVE IInv'
  OBVIOUS
<1>1. ASSUME NEW h \in Handles, NEW n \in Names, FOpendir(h, n) PROVE IInv'
  BY <1>1, FOpendirStep
<1>2. ASSUME NEW h \in Handles, NEW n \in Names, NEW m \in Modes, FOpen(h, n, m) PROVE IInv'
  BY <1>2, FOpenStep
<1>3. ASSUME NEW h \in Handles, FCloseSync(h) \/ FCloseRelease(h) \/ FClosedir(h) PROVE IInv'
  BY <1>3, FCloseStep
<1>4. ASSUME NEW n \in Names, FUnlink(n) \/ FMkdir(n) \/ \E new \in Names : FRename(n, new)
      PROVE  IInv'
  BY <1>4, DirectoryStep
<1>5. CASE FOther
  BY <1>5, OtherStep
<1>6. CASE FMount
  BY <1>6, FMountStep
<1>7. CASE DriveLost
  BY <1>7 DEF DriveLost, IInv, TypeOK, TableAgrees
<1>8. CASE UNCHANGED vars
  BY <1>8 DEF vars, IInv, TypeOK, TableAgrees
<1> QED
  BY <1>1, <1>2, <1>3, <1>4, <1>5, <1>6, <1>7, <1>8 DEF Next

\* Every reachable state is well typed: no slot number outside the table, no
\* counter outside a WORD, no handle with an id still to be given out.
THEOREM TypeCorrect == Spec => []TypeOK
<1>1. IInv => TypeOK
  BY DEF IInv
<1> QED
  BY <1>1, Initially, Step, PTL DEF Spec

\* In every reachable state the table and the live handles agree: one slot per
\* object, and a counter that is the number of readers or one writer's mark.
THEOREM TableAlwaysAgrees == Spec => []TableAgrees
<1>1. IInv => TableAgrees
  BY DEF IInv
<1> QED
  BY <1>1, Initially, Step, PTL DEF Spec

\* A table that agrees with its handles has no live writer beside another live handle of its object.
LEMMA AgreementExcludes == IInv => WriterExclusive
<1> SUFFICES ASSUME IInv, NEW g \in Handles, NEW h \in Handles, g # h, Live(g), Live(h),
                    hnd[g].key = hnd[h].key
             PROVE  hnd[g].acc = 0 /\ hnd[h].acc = 0
  BY DEF WriterExclusive
<1> DEFINE i == hnd[g].lockid
<1>1. /\ i \in Slots /\ hnd[h].lockid \in Slots
      /\ files[i].key = hnd[g].key /\ files[hnd[h].lockid].key = hnd[h].key
      /\ hnd[g].key # NoKey
  BY NoKeyIsNoKey DEF IInv, TableAgrees, TableInv, HeldSlots, Live
<1>2. hnd[h].lockid = i
  BY <1>1 DEF IInv, TableAgrees, TableInv, OneSlotEach
<1>3. g \in HoldersIn(hnd, vol, fsid, i) /\ h \in HoldersIn(hnd, vol, fsid, i)
  BY <1>2 DEF HoldersIn, Live
<1>4. vol = "mounted"
  BY DEF Live, LiveIn
<1> QED
  BY <1>1, <1>3, <1>4 DEF IInv, TableAgrees, TableInv, Counted

\* The file sharing policy holds for any number of handles and slots: no object
\* is open twice while one of the opens can write.
THEOREM WritersExclude == Spec => []WriterExclusive
<1> QED
  BY AgreementExcludes, Initially, Step, PTL DEF Spec

-----------------------------------------------------------------------------
(* What the callers may rely on: the table implements SharingPolicy, and   *)
(* the directory entry of an open file stays.  Both proofs look at a step  *)
(* in the order of the code.  find_volume comes first: it leaves the opens *)
(* as they are or, after a remount, none of them; then the call itself     *)
(* changes at most one handle.                                             *)

\* What the handles hs have open on a volume in state vo with id.
ViewOf(hs, vo, id) ==
  [h \in Handles |->
     IF LiveIn(hs, vo, id, h)
     THEN [obj |-> hs[h].key, acc |-> IF hs[h].acc = 1 THEN "write" ELSE "read"]
     ELSE [acc |-> "none"]]

-----------------------------------------------------------------------------
(* Steps seen through the view.                                            *)

LEMMA ViewNow == OpenView = ViewOf(hnd, vol, fsid) /\ OpenView' = ViewOf(hnd', vol', fsid')
  BY DEF OpenView, ViewOf, Live

\* find_volume keeps what is open, or nothing is open after it.
LEMMA VolumeView ==
  ASSUME IInv, NEW v \in FindVolume
  PROVE  ViewOf(hnd, v.vol, v.id) \in {OpenView, Policy!AllClosed}
<1>1. CASE v.vol = vol /\ v.id = fsid
  BY <1>1, ViewNow
<1>2. CASE \A g \in Handles : ~ LiveIn(hnd, v.vol, v.id, g)
  BY <1>2 DEF ViewOf, Policy!AllClosed, Policy!NotOpen
<1> QED
  BY <1>1, <1>2, VolumeStep DEF IInv

\* Closing a handle closes it in the view and touches no other.
LEMMA CloseView ==
  ASSUME NEW hs, NEW vo, NEW id, NEW h \in Handles,
         NEW hs2, hs2[h] = Closed, \A g \in Handles : g # h => hs2[g] = hs[g]
  PROVE  \A g \in Handles :
           ViewOf(hs2, vo, id)[g] = IF g = h THEN Policy!NotOpen ELSE ViewOf(hs, vo, id)[g]
<1>1. \A g \in Handles : LiveIn(hs2, vo, id, g) <=> g # h /\ LiveIn(hs, vo, id, g)
  BY DEF LiveIn, Closed
<1> QED
  BY <1>1 DEF ViewOf, Policy!NotOpen

\* Opening a handle opens it in the view and touches no other.
LEMMA OpenedView ==
  ASSUME NEW hs, NEW id, NEW h \in Handles, NEW what, NEW k, NEW i, NEW acc,
         NEW hs2, hs2[h] = Handle(what, k, i, id, acc),
         \A g \in Handles : g # h => hs2[g] = hs[g],
         NEW a, a = (IF acc = 1 THEN "write" ELSE "read")
  PROVE  /\ ViewOf(hs2, "mounted", id)[h] = Policy!Opened(k, a)
         /\ \A g \in Handles :
              g # h => ViewOf(hs2, "mounted", id)[g] = ViewOf(hs, "mounted", id)[g]
<1> DEFINE r == Handle(what, k, i, id, acc)
<1>1. r.st = "open" /\ r.id = id /\ r.key = k /\ r.acc = acc
  BY DEF Handle
<1>2. hs2[h] = r /\ \A g \in Handles : g # h => hs2[g] = hs[g]
  OBVIOUS
<1> HIDE DEF r
<1>3. /\ LiveIn(hs2, "mounted", id, h)
      /\ \A g \in Handles : g # h => (LiveIn(hs2, "mounted", id, g) <=> LiveIn(hs, "mounted", id, g))
  BY <1>1, <1>2 DEF LiveIn
<1> QED
  BY <1>1, <1>2, <1>3 DEF ViewOf, Policy!Opened

\* The view of the state after find_volume allows a step of the policy that
\* leaves it so.
LEMMA SameOrLost ==
  ASSUME OpenView' \in {OpenView, Policy!AllClosed}
  PROVE  [Policy!Next]_OpenView
  BY DEF Policy!Next, Policy!VolumeLost

\* The sharing policy holds after the step too.
LEMMA ExcludesNext == IInv' => WriterExclusive'
  BY AgreementExcludes, PTL

\* A handle that becomes live is compatible with those open beside it: the
\* invariant of the next state says so.
LEMMA OpenIsCompatible ==
  ASSUME IInv', NEW h \in Handles, NEW k \in Keys, NEW acc \in {0, 1},
         NEW s \in {OpenView, Policy!AllClosed},
         s = ViewOf(hnd, vol', fsid'), s[h] = Policy!NotOpen,
         NEW what, NEW i, vol' = "mounted",
         hnd'[h] = Handle(what, k, i, fsid', acc),
         \A g \in Handles : g # h => hnd'[g] = hnd[g]
  PROVE  Policy!Next
<1> DEFINE a == IF acc = 1 THEN "write" ELSE "read"
<1>1. OpenView' = [s EXCEPT ![h] = Policy!Opened(k, a)]
  <2>1. /\ ViewOf(hnd', "mounted", fsid')[h] = Policy!Opened(k, a)
        /\ \A g \in Handles :
             g # h => ViewOf(hnd', "mounted", fsid')[g] = ViewOf(hnd, "mounted", fsid')[g]
    BY OpenedView
  <2>2. ViewOf(hnd', "mounted", fsid') = [s EXCEPT ![h] = Policy!Opened(k, a)]
    BY <2>1 DEF ViewOf
  <2> QED
    BY <2>2, ViewNow
<1>2. Policy!Compatible(s, k, a)
  <2> SUFFICES ASSUME NEW g \in Handles, s[g] # Policy!NotOpen, s[g].obj = k
               PROVE  a = "read" /\ s[g].acc = "read"
    BY DEF Policy!Compatible
  <2>1. g # h
    OBVIOUS
  <2>2. LiveIn(hnd, vol', fsid', g)
    BY DEF ViewOf, Policy!NotOpen
  <2>3. hnd'[g] = hnd[g] /\ hnd'[h] = Handle(what, k, i, fsid', acc)
    BY <2>1
  <2>4. hnd'[h].st = "open" /\ hnd'[h].id = fsid' /\ hnd'[h].key = k /\ hnd'[h].acc = acc
    BY <2>3 DEF Handle
  <2>5. Live(g)' /\ Live(h)'
    BY <2>2, <2>3, <2>4 DEF Live, LiveIn
  <2>6. s[g] = [obj |-> hnd[g].key, acc |-> IF hnd[g].acc = 1 THEN "write" ELSE "read"]
    BY <2>2 DEF ViewOf
  <2>7. hnd'[g].key = k
    BY <2>3, <2>6
  <2>8. WriterExclusive'
    BY ExcludesNext
  <2>9. hnd'[g].acc = 0 /\ hnd'[h].acc = 0
    BY <2>1, <2>4, <2>5, <2>7, <2>8 DEF WriterExclusive
  <2> QED
    BY <2>3, <2>4, <2>6, <2>9
<1>3. Policy!Open(h, k, a)
  BY <1>1, <1>2 DEF Policy!Open
<1> QED
  BY <1>3 DEF Policy!Next

-----------------------------------------------------------------------------
(* Every step of the table is a step of the policy.                        *)

\* A call that closes or leaves alone the handle h, after find_volume.
LEMMA ClosedView ==
  ASSUME IInv, NEW h \in Handles,
         hnd'[h] = Closed, \A g \in Handles : g # h => hnd'[g] = hnd[g],
         ~ LiveIn(hnd, vol', fsid', h),
         ViewOf(hnd, vol', fsid') \in {OpenView, Policy!AllClosed}
  PROVE  [Policy!Next]_OpenView
<1>1. ViewOf(hnd', vol', fsid') = [ViewOf(hnd, vol', fsid') EXCEPT ![h] = Policy!NotOpen]
  <2>1. \A g \in Handles : ViewOf(hnd', vol', fsid')[g] =
          IF g = h THEN Policy!NotOpen ELSE ViewOf(hnd, vol', fsid')[g]
    BY CloseView
  <2> QED
    BY <2>1 DEF ViewOf
<1>2. [ViewOf(hnd, vol', fsid') EXCEPT ![h] = Policy!NotOpen] = ViewOf(hnd, vol', fsid')
  BY DEF ViewOf, Policy!NotOpen
<1> QED
  BY <1>1, <1>2, ViewNow, SameOrLost

\* f_open and f_opendir open what is compatible, or nothing.
LEMMA OpenRefines ==
  ASSUME IInv, IInv', NEW h \in Handles, NEW n \in Names,
         FOpendir(h, n) \/ \E m \in Modes : FOpen(h, n, m)
  PROVE  [Policy!Next]_OpenView
<1>1. PICK v \in FindVolume : /\ SetVolume(v)
        /\ \/ hnd' = [hnd EXCEPT ![h] = Closed]
           \/ \E what \in {"file", "dir"}, k \in Keys, i \in 0 .. NLock, acc \in {0, 1} :
                v.ok /\ hnd' = [hnd EXCEPT ![h] = Handle(what, k, i, v.id, acc)]
  <2>1. CASE FOpendir(h, n)
    <3>1. PICK v \in FindVolume : /\ SetVolume(v)
            /\ \/ OpenFails(h, v)
               \/ /\ v.ok
                  /\ \E o \in Named(n) :
                       /\ ent[o].kind = "dir"
                       /\ IncLockId(v.files, SelfKey(ent[o].clu), 0) # 0
                       /\ hnd' = [hnd EXCEPT ![h] = Handle("dir", SelfKey(ent[o].clu),
                                    IncLockId(v.files, SelfKey(ent[o].clu), 0), v.id, 0)]
      BY <2>1 DEF FOpendir
    <3>2. TableType(v.files)
      BY VolumeStep DEF IInv
    <3>3. ASSUME NEW o \in Named(n), ent[o].kind = "dir" PROVE SelfKey(ent[o].clu) \in Keys
      <4>1. ent[o] \in Entries
        BY DEF IInv, TypeOK, Named
      <4>2. ent[o].clu \in Clusters
        BY <3>3, <4>1 DEF Entries, Free, FileEntry, DirEntry
      <4> QED
        BY <4>2, EntryKeys
    <3> QED
      BY <3>1, <3>2, <3>3, IdRange DEF OpenFails
  <2>2. ASSUME NEW m \in Modes, FOpen(h, n, m)
        PROVE  \E v \in FindVolume : /\ SetVolume(v)
                 /\ \/ hnd' = [hnd EXCEPT ![h] = Closed]
                    \/ \E what \in {"file", "dir"}, k \in Keys, i \in 0 .. NLock, acc \in {0, 1} :
                         v.ok /\ hnd' = [hnd EXCEPT ![h] = Handle(what, k, i, v.id, acc)]
    <3>1. PICK v \in FindVolume : /\ SetVolume(v)
            /\ \/ OpenFails(h, v)
               \/ v.ok /\ \E o \in Offs : OpenEntry(h, v, o, m)
      BY <2>2 DEF FOpen, OpenExisting, OpenNew, Named, FreeOffs
    <3>2. TableType(v.files)
      BY VolumeStep DEF IInv
    <3>3. ASSUME NEW o \in Offs, OpenEntry(h, v, o, m)
          PROVE  \/ hnd' = [hnd EXCEPT ![h] = Closed]
                 \/ \E k \in Keys, i \in 0 .. NLock, acc \in {0, 1} :
                      hnd' = [hnd EXCEPT ![h] = Handle("file", k, i, v.id, acc)]
      <4>1. EntryKey(o) \in Keys /\ Acc(m) \in {0, 1}
        BY EntryKeys DEF Acc
      <4>2. IncLockId(v.files, EntryKey(o), Acc(m)) \in 0 .. NLock
        BY <3>2, IdRange
      <4> QED
        BY <3>3, <4>1, <4>2 DEF OpenEntry
    <3> QED
      BY <3>1, <3>3 DEF OpenFails
  <2> QED
    BY <2>1, <2>2
<1>2. /\ vol' = v.vol /\ fsid' = v.id
      /\ v.ok => v.vol = "mounted"
      /\ ~ LiveIn(hnd, v.vol, v.id, h)
  <2>1. ~ Live(h)
    BY DEF FOpendir, FOpen
  <2> QED
    BY <1>1, <2>1, VolumeStep DEF SetVolume, IInv
<1>3. ViewOf(hnd, vol', fsid') \in {OpenView, Policy!AllClosed}
  BY <1>2, VolumeView
<1>4. CASE hnd' = [hnd EXCEPT ![h] = Closed]
  <2>1. hnd'[h] = Closed /\ \A g \in Handles : g # h => hnd'[g] = hnd[g]
    BY <1>4 DEF IInv, TypeOK
  <2> QED
    BY <1>2, <1>3, <2>1, ClosedView
<1>5. ASSUME NEW what \in {"file", "dir"}, NEW k \in Keys, NEW i \in 0 .. NLock, NEW acc \in {0, 1},
             v.ok, hnd' = [hnd EXCEPT ![h] = Handle(what, k, i, v.id, acc)]
      PROVE  Policy!Next
  <2> DEFINE s == ViewOf(hnd, vol', fsid')
  <2>2. s[h] = Policy!NotOpen
    BY <1>2 DEF ViewOf, Policy!NotOpen
  <2>3. s \in {OpenView, Policy!AllClosed} /\ vol' = "mounted"
    BY <1>2, <1>3, <1>5
  <2>4. /\ hnd'[h] = Handle(what, k, i, fsid', acc)
        /\ \A g \in Handles : g # h => hnd'[g] = hnd[g]
    BY <1>2, <1>5 DEF IInv, TypeOK
  <2>5. s = ViewOf(hnd, vol', fsid')
    OBVIOUS
  <2> HIDE DEF s
  <2> QED
    BY <2>2, <2>3, <2>4, <2>5, OpenIsCompatible
<1> QED
  BY <1>1, <1>4, <1>5

\* f_close, in either critical section, and f_closedir end one open at most.
LEMMA CloseRefines ==
  ASSUME IInv, NEW h \in Handles, FCloseSync(h) \/ FCloseRelease(h) \/ FClosedir(h)
  PROVE  [Policy!Next]_OpenView
<1>1. HandleType(hnd) /\ vol' = vol /\ fsid' = fsid
  BY DEF IInv, TypeOK, HandleType, FCloseSync, FCloseRelease, FClosedir
<1>2. CASE Release(h)
  <2>1. hnd' = [hnd EXCEPT ![h] = Closed]
    BY <1>2 DEF Release
  <2>2. ViewOf(hnd', vol', fsid') = [ViewOf(hnd, vol', fsid') EXCEPT ![h] = Policy!NotOpen]
      <3>1. \A g \in Handles : ViewOf(hnd', vol', fsid')[g] =
            IF g = h THEN Policy!NotOpen ELSE ViewOf(hnd, vol', fsid')[g]
      <4>1. hnd'[h] = Closed /\ \A g \in Handles : g # h => hnd'[g] = hnd[g]
        BY <1>1, <2>1 DEF HandleType
      <4> QED
        BY <4>1, CloseView
    <3> QED
      BY <3>1 DEF ViewOf
  <2>3. OpenView' = [OpenView EXCEPT ![h] = Policy!NotOpen]
    BY <1>1, <2>2, ViewNow
  <2> QED
    BY <2>3 DEF Policy!Next, Policy!Close
<1>3. ASSUME NEW st \in {"open", "closing"}, hnd[h].st # "closed", hnd' = [hnd EXCEPT ![h].st = st]
      PROVE  OpenView' = OpenView
  <2>1. \A g \in Handles : /\ hnd'[g].id = hnd[g].id /\ hnd'[g].key = hnd[g].key
                           /\ hnd'[g].acc = hnd[g].acc
                           /\ hnd'[g].st = "closed" <=> hnd[g].st = "closed"
    BY <1>1, <1>3 DEF HandleType, HandleRec
  <2>2. \A g \in Handles : LiveIn(hnd', vol, fsid, g) <=> LiveIn(hnd, vol, fsid, g)
    BY <2>1 DEF LiveIn
  <2> QED
    BY <1>1, <2>1, <2>2, ViewNow DEF ViewOf
<1>4. CASE FCloseSync(h)
  BY <1>3, <1>4, SameOrLost DEF FCloseSync
<1>5. CASE FCloseRelease(h)
  BY <1>2, <1>3, <1>5, SameOrLost DEF FCloseRelease
<1>6. CASE FClosedir(h)
  BY <1>2, <1>6 DEF FClosedir
<1> QED
  BY <1>4, <1>5, <1>6

\* A call that only finds the volume loses every open, or none.
LEMMA VolumeRefines ==
  ASSUME IInv, NEW v \in FindVolume, SetVolume(v), hnd' = hnd
  PROVE  [Policy!Next]_OpenView
<1>1. OpenView' \in {OpenView, Policy!AllClosed}
  BY VolumeView, ViewNow DEF SetVolume
<1> QED
  BY <1>1, SameOrLost

\* f_mount leaves no open handle.
LEMMA MountCloses ==
  ASSUME IInv, FMount
  PROVE  \A g \in Handles : ~ LiveIn(hnd', vol', fsid', g)
<1>1. CASE vol' \in {"none", "registered"}
  BY <1>1 DEF LiveIn
<1>2. CASE fsid' = fsid + 1
  <2>1. \A g \in Handles : hnd[g].id \in Nat /\ hnd[g].id <= fsid /\ fsid \in Nat
    BY ConstantsAssumption DEF IInv, TypeOK, HandleRec, TableAgrees, TableInv, PastIds
  <2> QED
    BY <1>2, <2>1 DEF LiveIn, FMount
<1>3. CASE vol' = "none" \/ vol' = "registered"
  BY <1>1, <1>3
<1> QED
  BY <1>1, <1>2, <1>3 DEF FMount

\* Seen from the callers, the volume is lost.
LEMMA MountRefines ==
  ASSUME IInv, FMount
  PROVE  [Policy!Next]_OpenView
<1>1. \A g \in Handles : ~ LiveIn(hnd', vol', fsid', g)
  BY MountCloses
<1>2. OpenView' = Policy!AllClosed
  BY <1>1, ViewNow DEF ViewOf, Policy!AllClosed, Policy!NotOpen
<1> QED
  BY <1>2, SameOrLost

\* Every step of FileLock is a step of SharingPolicy or a stutter.
LEMMA StepRefines == IInv /\ IInv' /\ [Next]_vars => [Policy!Next]_OpenView
<1> SUFFICES ASSUME IInv, IInv', [Next]_vars PROVE [Policy!Next]_OpenView
  OBVIOUS
<1>1. ASSUME NEW h \in Handles, NEW n \in Names, FOpendir(h, n) \/ \E m \in Modes : FOpen(h, n, m)
      PROVE  [Policy!Next]_OpenView
  BY <1>1, OpenRefines
<1>2. ASSUME NEW h \in Handles, FCloseSync(h) \/ FCloseRelease(h) \/ FClosedir(h)
      PROVE  [Policy!Next]_OpenView
  BY <1>2, CloseRefines
<1>3. ASSUME NEW n \in Names, FUnlink(n) \/ FMkdir(n) \/ \E new \in Names : FRename(n, new)
      PROVE  [Policy!Next]_OpenView
  BY <1>3, VolumeRefines DEF FUnlink, FMkdir, FRename
<1>4. CASE FOther
  BY <1>4, VolumeRefines DEF FOther
<1>5. CASE FMount
  BY <1>5, MountRefines
<1>6. CASE DriveLost \/ UNCHANGED vars
  <2>1. hnd' = hnd /\ vol' = vol /\ fsid' = fsid
    BY <1>6 DEF DriveLost, vars
  <2> QED
    BY <2>1, ViewNow
<1> QED
  BY <1>1, <1>2, <1>3, <1>4, <1>5, <1>6 DEF Next

\* The table starts with nothing open.
LEMMA InitRefines == Init => Policy!Init
  BY DEF Init, Policy!Init, Policy!AllClosed, Policy!NotOpen, OpenView, Live, LiveIn, Closed

\* The open-object table implements the sharing policy, for any number of
\* handles, slots and mounts: an open succeeds only beside compatible opens, a
\* call on one handle ends no other handle's open, and only the loss of the
\* volume ends many together.
THEOREM ImplementsPolicy == Spec => SharingRefinement
<1>1. Spec => []IInv
  BY Initially, Step, PTL DEF Spec
<1> QED
  BY <1>1, InitRefines, StepRefines, PTL DEF Spec, SharingRefinement, Policy!Spec

-----------------------------------------------------------------------------
(* The entry of an open file.                                              *)

\* The key of an entry tells its offset.
LEMMA EntryKeyOne == \A o, p : EntryKey(o) = EntryKey(p) => o = p
  BY DEF EntryKey

\* A handle live after find_volume was live before, with the same volume.
LEMMA LiveAfter ==
  ASSUME IInv, NEW v \in FindVolume, SetVolume(v)
  PROVE  \A g \in Handles : LiveIn(hnd, vol', fsid', g) => Live(g)
  BY VolumeStep DEF IInv, SetVolume

\* chk_lock agrees to a removal only when no handle has the object open.
LEMMA RemovableNotHeld ==
  ASSUME IInv, NEW v \in FindVolume, NEW k, ChkLock(v.files, k, 2) = "OK"
  PROVE  \A g \in Handles : LiveIn(hnd, v.vol, v.id, g) => hnd[g].key # k
<1>1. Matching(v.files, k) = {}
  BY DEF ChkLock
<1>2. HeldSlots(v.files, hnd, v.vol, v.id)
  BY VolumeStep DEF IInv, TableInv
<1> QED
  BY <1>1, <1>2 DEF HeldSlots, Matching

\* The invariant is kept when handles come to have a file open only with its
\* entry there, and no entry goes from under an open one.
LEMMA EntryStep ==
  ASSUME OpenFileKeepsEntry,
         \A g \in Handles : LiveIn(hnd', vol', fsid', g) /\ hnd'[g].what = "file" =>
           \/ \E o \in Offs : hnd'[g].key = EntryKey(o) /\ ent'[o].kind = "file"
           \/ Live(g) /\ hnd[g].what = "file" /\ hnd'[g].key = hnd[g].key,
         \A o \in Offs : ent[o].kind = "file" =>
           \/ ent'[o].kind = "file"
           \/ \A g \in Handles : LiveIn(hnd', vol', fsid', g) => hnd'[g].key # EntryKey(o)
  PROVE  OpenFileKeepsEntry'
<1> SUFFICES ASSUME NEW h \in Handles, LiveIn(hnd', vol', fsid', h), hnd'[h].what = "file"
             PROVE  \E o \in Offs : hnd'[h].key = EntryKey(o) /\ ent'[o].kind = "file"
  BY DEF OpenFileKeepsEntry, Live
<1>1. CASE Live(h) /\ hnd[h].what = "file" /\ hnd'[h].key = hnd[h].key
  <2>1. PICK o \in Offs : hnd[h].key = EntryKey(o) /\ ent[o].kind = "file"
    BY <1>1 DEF OpenFileKeepsEntry
  <2> QED
    BY <1>1, <2>1
<1> QED
  BY <1>1

\* An open that ends with the handle closed, or with the file of an entry open.
LEMMA OpenKeeps ==
  ASSUME IInv, OpenFileKeepsEntry, NEW h \in Handles, NEW v \in FindVolume, SetVolume(v),
         \A o \in Offs : ent[o].kind = "file" => ent'[o].kind = "file",
         \A g \in Handles : g # h => hnd'[g] = hnd[g],
         \/ hnd'[h].st = "closed"
         \/ hnd'[h].what = "dir"
         \/ \E o \in Offs : hnd'[h].key = EntryKey(o) /\ ent'[o].kind = "file"
  PROVE  OpenFileKeepsEntry'
<1>1. ASSUME NEW g \in Handles, g # h, LiveIn(hnd', vol', fsid', g)
      PROVE  Live(g) /\ hnd'[g] = hnd[g]
  BY <1>1, LiveAfter DEF LiveIn
<1>2. hnd'[h].what = "dir" => hnd'[h].what # "file"
  OBVIOUS
<1> QED
  BY <1>1, <1>2, EntryStep DEF LiveIn

\* f_open and f_opendir.
LEMMA OpensKeep ==
  ASSUME IInv, OpenFileKeepsEntry, NEW h \in Handles, NEW n \in Names,
         FOpendir(h, n) \/ \E m \in Modes : FOpen(h, n, m)
  PROVE  OpenFileKeepsEntry'
<1>1. /\ hnd \in [Handles -> HandleRec] /\ ent \in [Offs -> Entries] /\ Closed.st = "closed"
  BY DEF IInv, TypeOK, Closed
<1>2. ASSUME NEW v \in FindVolume, SetVolume(v), OpenFails(h, v) PROVE OpenFileKeepsEntry'
  BY <1>1, <1>2, OpenKeeps DEF OpenFails
<1>3. CASE FOpendir(h, n)
  <2>1. ASSUME NEW v \in FindVolume, SetVolume(v), NEW k, NEW i,
               hnd' = [hnd EXCEPT ![h] = Handle("dir", k, i, v.id, 0)], ent' = ent
        PROVE  OpenFileKeepsEntry'
    <3>1. hnd'[h].what = "dir" /\ \A g \in Handles : g # h => hnd'[g] = hnd[g]
      BY <1>1, <2>1 DEF Handle
    <3> QED
      BY <2>1, <3>1, OpenKeeps
  <2> QED
    BY <1>2, <1>3, <2>1 DEF FOpendir
<1>4. ASSUME NEW m \in Modes, FOpen(h, n, m) PROVE OpenFileKeepsEntry'
  <2>1. PICK v \in FindVolume : /\ SetVolume(v)
          /\ \/ OpenFails(h, v)
             \/ \E o \in Named(n) : ent[o].kind = "file" /\ OpenEntry(h, v, o, m) /\ ent' = ent
             \/ \E o \in FreeOffs : ent' = [ent EXCEPT ![o] = FileEntry(n)] /\ OpenEntry(h, v, o, m)
    BY <1>4 DEF FOpen, OpenExisting, OpenNew
  <2>2. ASSUME NEW o \in Offs, OpenEntry(h, v, o, m), ent'[o].kind = "file",
               \A p \in Offs : ent[p].kind = "file" => ent'[p].kind = "file"
        PROVE  OpenFileKeepsEntry'
    <3>1. \/ hnd'[h].st = "closed"
          \/ hnd'[h].key = EntryKey(o)
      BY <1>1, <2>2 DEF OpenEntry, Handle
    <3>2. \A g \in Handles : g # h => hnd'[g] = hnd[g]
      BY <1>1, <2>2 DEF OpenEntry
    <3> QED
      BY <2>1, <2>2, <3>1, <3>2, OpenKeeps
  <2>3. ASSUME NEW o \in FreeOffs, ent' = [ent EXCEPT ![o] = FileEntry(n)], OpenEntry(h, v, o, m)
        PROVE  OpenFileKeepsEntry'
    <3>1. ent'[o].kind = "file" /\ \A p \in Offs : p # o => ent'[p] = ent[p]
      BY <1>1, <2>3 DEF FileEntry, FreeOffs
    <3> QED
      BY <2>2, <2>3, <3>1 DEF FreeOffs
  <2> QED
    BY <1>2, <2>1, <2>2, <2>3 DEF Named
<1> QED
  BY <1>3, <1>4

\* f_close and f_closedir open nothing and touch no entry.
LEMMA ClosesKeep ==
  ASSUME IInv, OpenFileKeepsEntry, NEW h \in Handles,
         FCloseSync(h) \/ FCloseRelease(h) \/ FClosedir(h)
  PROVE  OpenFileKeepsEntry'
<1>1. /\ hnd \in [Handles -> HandleRec] /\ Closed.st = "closed" /\ Closed.what = "file"
      /\ ent' = ent /\ vol' = vol /\ fsid' = fsid
  BY DEF IInv, TypeOK, Closed, FCloseSync, FCloseRelease, FClosedir
<1>2. \A g \in Handles : g # h => hnd'[g] = hnd[g]
  BY <1>1 DEF FCloseSync, FCloseRelease, FClosedir, Release
<1>3. \/ hnd'[h].st = "closed"
      \/ /\ hnd[h].st # "closed" /\ hnd'[h].id = hnd[h].id
         /\ hnd'[h].what = hnd[h].what /\ hnd'[h].key = hnd[h].key
  BY <1>1 DEF FCloseSync, FCloseRelease, FClosedir, Release, HandleRec
<1>4. ASSUME NEW g \in Handles, LiveIn(hnd', vol', fsid', g)
      PROVE  Live(g) /\ hnd'[g].what = hnd[g].what /\ hnd'[g].key = hnd[g].key
  BY <1>1, <1>2, <1>3, <1>4 DEF LiveIn, Live
<1> QED
  BY <1>1, <1>4, EntryStep

\* f_unlink, f_rename and f_mkdir.
LEMMA DirectoryKeeps ==
  ASSUME IInv, OpenFileKeepsEntry, NEW n \in Names,
         FUnlink(n) \/ FMkdir(n) \/ \E new \in Names : FRename(n, new)
  PROVE  OpenFileKeepsEntry'
<1>1. /\ ent \in [Offs -> Entries] /\ hnd' = hnd
  BY DEF IInv, TypeOK, FUnlink, FMkdir, FRename
<1>2. PICK v \in FindVolume : /\ SetVolume(v)
        /\ \/ ent' = ent
           \/ \E o \in Offs : \E e : ent[o].kind = "free" /\ ent' = [ent EXCEPT ![o] = e]
           \/ \E o \in Offs : ChkLock(v.files, EntryKey(o), 2) = "OK"
                              /\ ent' = [ent EXCEPT ![o] = Free]
           \/ \E o, p \in Offs : \E e, f :
                /\ ChkLock(v.files, EntryKey(o), 2) = "OK"
                /\ ent[p].kind = "free"
                /\ ent' = [ent EXCEPT ![o] = e, ![p] = f]
  <2>1. CASE FUnlink(n)
    BY <2>1 DEF FUnlink, Named
  <2>2. CASE FMkdir(n)
    BY <2>2 DEF FMkdir, FreeOffs
  <2>3. CASE \E new \in Names : FRename(n, new)
    BY <2>3 DEF FRename, Named, FreeOffs
  <2> QED
    BY <2>1, <2>2, <2>3
<1>3. \A o \in Offs : ent[o].kind = "file" =>
        \/ ent'[o].kind = "file"
        \/ ChkLock(v.files, EntryKey(o), 2) = "OK"
  BY <1>1, <1>2
<1>4. \A g \in Handles : LiveIn(hnd', vol', fsid', g) =>
        Live(g) /\ LiveIn(hnd, v.vol, v.id, g)
  BY <1>1, <1>2, LiveAfter DEF SetVolume
<1>5. \A o \in Offs : ChkLock(v.files, EntryKey(o), 2) = "OK" =>
        \A g \in Handles : LiveIn(hnd', vol', fsid', g) => hnd'[g].key # EntryKey(o)
  BY <1>1, <1>4, RemovableNotHeld
<1>6. \A g \in Handles : hnd'[g] = hnd[g]
  BY <1>1
<1> QED
  BY <1>3, <1>4, <1>5, <1>6, EntryStep

\* A step that only moves the volume.
LEMMA VolumeKeeps ==
  ASSUME OpenFileKeepsEntry, \A g \in Handles : LiveIn(hnd', vol', fsid', g) => Live(g),
         hnd' = hnd, ent' = ent
  PROVE  OpenFileKeepsEntry'
  BY DEF OpenFileKeepsEntry, Live

LEMMA KeepsStep == IInv /\ OpenFileKeepsEntry /\ [Next]_vars => OpenFileKeepsEntry'
<1> SUFFICES ASSUME IInv, OpenFileKeepsEntry, [Next]_vars PROVE OpenFileKeepsEntry'
  OBVIOUS
<1>1. ASSUME NEW h \in Handles, NEW n \in Names, FOpendir(h, n) \/ \E m \in Modes : FOpen(h, n, m)
      PROVE  OpenFileKeepsEntry'
  BY <1>1, OpensKeep
<1>2. ASSUME NEW h \in Handles, FCloseSync(h) \/ FCloseRelease(h) \/ FClosedir(h)
      PROVE  OpenFileKeepsEntry'
  BY <1>2, ClosesKeep
<1>3. ASSUME NEW n \in Names, FUnlink(n) \/ FMkdir(n) \/ \E new \in Names : FRename(n, new)
      PROVE  OpenFileKeepsEntry'
  BY <1>3, DirectoryKeeps
<1>4. CASE FOther
  <2>1. \A g \in Handles : LiveIn(hnd', vol', fsid', g) => Live(g)
    BY <1>4, LiveAfter DEF FOther
  <2>2. hnd' = hnd /\ ent' = ent
    BY <1>4 DEF FOther
  <2> QED
    BY <2>1, <2>2, VolumeKeeps
<1>5. CASE FMount
  <2>1. hnd' = hnd /\ ent' = ent
    BY <1>5 DEF FMount
  <2>2. \A g \in Handles : ~ LiveIn(hnd', vol', fsid', g)
    BY <1>5, MountCloses
  <2> QED
    BY <2>1, <2>2, VolumeKeeps
<1>6. CASE DriveLost \/ UNCHANGED vars
  BY <1>6 DEF DriveLost, vars, OpenFileKeepsEntry, Live
<1> QED
  BY <1>1, <1>2, <1>3, <1>4, <1>5, <1>6 DEF Next

\* No call takes the directory entry of an open file away, so f_sync finds its
\* entry where f_open left it: for any number of handles, slots and entries.
THEOREM EntriesStay == Spec => []OpenFileKeepsEntry
<1>1. Init => OpenFileKeepsEntry
  BY DEF Init, OpenFileKeepsEntry, Live, LiveIn
<1>2. Spec => []IInv
  BY Initially, Step, PTL DEF Spec
<1> QED
  BY <1>1, <1>2, KeepsStep, PTL DEF Spec
=============================================================================
