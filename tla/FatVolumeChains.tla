----------------------------- MODULE FatVolumeChains -----------------------------
(***************************************************************************)
(* Proofs about FatVolume, first part: chains, the inductive invariant,    *)
(* and the steps of create_chain, remove_chain, f_open, f_unlink, f_mkdir, *)
(* f_getfree, f_sync and f_close.                                          *)
(*                                                                         *)
(* A chain is a list in the FAT, and nothing can be proved by induction    *)
(* over it.  Instead the invariant says that there is a witness w, which   *)
(* gives every cluster an owner and a place in the chain of that owner     *)
(* (w.own, w.idx), and every owner the length of its chain (w.len), such   *)
(* that each cluster but the last links to the one in the next place       *)
(* (Good).  Each step is then local: it says which few clusters change     *)
(* owner or place (AllocGood, LinkGood, CutGood, FreeGood, MoveGood,       *)
(* DropGood, RowGood).  That Walk and Reach see what w says is proved      *)
(* once, by the least number for which it would be wrong.                  *)
(***************************************************************************)
EXTENDS FatVolume, WellFoundedInduction, FiniteSetTheorems, TLAPS

\* The owners of clusters: what the object of f leads to, what its entry still
\* leads to while the object leads elsewhere, the clusters a call has in hand, nobody.
Now(f) == <<f, "now">>
Old(f) == <<f, "old">>
Hand == <<NoFile, "now">>
Nobody == <<NoFile, "old">>
Tags == (Files \cup {NoFile}) \X {"now", "old"}

\* The cluster c is in its place: before the next one of its owner, or the last.
InPlace(t, w, c) ==
  /\ 1 <= w.idx[c] /\ w.idx[c] <= w.len[w.own[c]]
  /\ w.idx[c] = w.len[w.own[c]] => t[c] = EOC
  /\ w.idx[c] # w.len[w.own[c]] =>
       t[c] \in Clus /\ w.own[t[c]] = w.own[c] /\ w.idx[t[c]] = w.idx[c] + 1

\* A witness w says who owns each cluster and as which one of its chain, and how
\* long the chain of each owner is.
Typed(w) ==
  /\ \A c \in Clus : w.own[c] \in Tags /\ w.idx[c] \in Nat
  /\ \A o \in Tags : w.len[o] \in Nat

\* No two clusters have one place.
Apart(w) == \A c, d \in Clus : w.own[c] # Nobody /\ w.own[c] = w.own[d] /\ w.idx[c] = w.idx[d] => c = d

\* The FAT t is what the witness w says of it.
Good(t, w) ==
  /\ Typed(w)
  /\ \A c \in Clus : w.own[c] # Nobody => InPlace(t, w, c)
  /\ Apart(w)

\* The start and size of an entry lead to the chain of o, which is long enough,
\* and whose first clusters are those of s.
Leads(w, o, start, size, s) ==
  /\ size \in Nat
  /\ \/ start = 0 /\ size = 0
     \/ start \in Clus /\ w.own[start] = o /\ w.idx[start] = 1 /\ size <= w.len[o]
  /\ Len(s) <= size
  /\ \A i \in 1 .. Len(s) : s[i] \in Clus /\ w.own[s[i]] = o /\ w.idx[s[i]] = i

\* What is the chain of p in w is part of the chain of q in v.
Carries(w, v, p, q) ==
  /\ \A c \in Clus : w.own[c] = p => v.own[c] = q /\ v.idx[c] = w.idx[c]
  /\ w.len[p] <= v.len[q]

-----------------------------------------------------------------------------

\* The owners differ.
LEMMA Tagging ==
  /\ Hand \in Tags /\ Nobody \in Tags /\ Hand # Nobody
  /\ \A f \in Files : /\ Now(f) \in Tags /\ Old(f) \in Tags /\ Now(f) # Old(f)
                      /\ Now(f) # Hand /\ Now(f) # Nobody /\ Old(f) # Hand /\ Old(f) # Nobody
  /\ \A f, g \in Files : f # g => Now(f) # Now(g) /\ Old(f) # Old(g) /\ Now(f) # Old(g)
BY VolumeAssumption DEF Hand, Nobody, Now, Old, Tags

\* The clusters among the numbers of the model.
LEMMA Numbers ==
  /\ NClust \in Nat /\ NClust >= 1 /\ EOC = NClust + 2 /\ NFatEnt = NClust + 2
  /\ EOC \notin Clus /\ 0 \notin Clus /\ 1 \notin Clus /\ EOC # 0 /\ DiskErr \notin Clus /\ IntErr = 1 /\ Full = 0
  /\ \A c : c \in Clus <=> c \in Nat /\ 2 <= c /\ c < NFatEnt
BY VolumeAssumption DEF EOC, Clus, NFatEnt, DiskErr, IntErr, Full

\* What led to a chain leads to the one it was carried to.
LEMMA CarryLeads ==
  ASSUME NEW w, NEW v, NEW p \in Tags, NEW q \in Tags, NEW start, NEW size \in Nat, NEW s \in Seq(Clus),
         Typed(w), Typed(v), Carries(w, v, p, q), Leads(w, p, start, size, s)
  PROVE  Leads(v, q, start, size, s)
<1>1. w.len[p] \in Nat /\ v.len[q] \in Nat /\ w.len[p] <= v.len[q]
  BY DEF Typed, Carries
<1>2. \A c \in Clus : w.own[c] = p => v.own[c] = q /\ v.idx[c] = w.idx[c]
  BY DEF Carries
<1> QED
  BY <1>1, <1>2 DEF Leads

\* An entry nobody owns may change.
LEMMA KeepGood ==
  ASSUME NEW t, NEW t2, NEW w, Good(t, w),
         \A c \in Clus : w.own[c] # Nobody => t2[c] = t[c]
  PROVE  Good(t2, w)
BY DEF Good, InPlace

\* A cluster nobody owns and that has been made an end of chain is in hand.
LEMMA AllocGood ==
  ASSUME NEW t, NEW t2, NEW w, Good(t, w), NEW b \in Clus, w.own[b] = Nobody, NEW i \in Nat, i >= 1,
         \A c \in Clus : w.own[c] # Hand,
         t2[b] = EOC, \A c \in Clus : c # b => t2[c] = t[c]
  PROVE  \E v : /\ Good(t2, v)
                /\ v.own[b] = Hand /\ v.idx[b] = i /\ v.len[Hand] = i
                /\ \A c \in Clus : c # b => v.own[c] = w.own[c] /\ v.idx[c] = w.idx[c]
                /\ \A o \in Tags : o # Hand => v.len[o] = w.len[o]
<1> DEFINE v == [own |-> [c \in Clus |-> IF c = b THEN Hand ELSE w.own[c]],
                 idx |-> [c \in Clus |-> IF c = b THEN i ELSE w.idx[c]],
                 len |-> [o \in Tags |-> IF o = Hand THEN i ELSE w.len[o]]]
<1>1. /\ v.own[b] = Hand /\ v.idx[b] = i /\ v.len[Hand] = i
      /\ \A c \in Clus : c # b => v.own[c] = w.own[c] /\ v.idx[c] = w.idx[c]
      /\ \A o \in Tags : o # Hand => v.len[o] = w.len[o]
  BY Tagging
<1> HIDE DEF v
<1>2. Typed(v)
  BY <1>1, Tagging DEF Good, Typed
<1>3. ASSUME NEW c \in Clus, v.own[c] # Nobody PROVE InPlace(t2, v, c)
  <2>1. CASE c = b
    BY <2>1, <1>1 DEF InPlace
  <2>2. CASE c # b
    <3>1. w.own[c] # Nobody /\ w.own[c] # Hand /\ w.own[c] \in Tags /\ InPlace(t, w, c)
      BY <2>2, <1>1, <1>3 DEF Good, Typed
    <3>2. t[c] # b \/ t[c] \notin Clus \/ w.own[t[c]] # w.own[c]
      BY <3>1
    <3> QED
      BY <2>2, <1>1, <3>1, <3>2 DEF InPlace
  <2> QED
    BY <2>1, <2>2
<1>4. Apart(v)
  BY <1>1 DEF Good, Apart
<1> QED
  BY <1>1, <1>2, <1>3, <1>4 DEF Good

\* The cluster in hand is linked to the last one of a chain.
LEMMA LinkGood ==
  ASSUME NEW t, NEW t2, NEW w, Good(t, w), NEW a \in Clus, NEW b \in Clus, NEW o \in Tags,
         o # Nobody, o # Hand, w.own[a] = o, w.idx[a] = w.len[o],
         w.own[b] = Hand, \A c \in Clus : w.own[c] = Hand => c = b,
         w.idx[b] = w.len[o] + 1, w.len[Hand] = w.len[o] + 1,
         t2[a] = b, \A c \in Clus : c # a => t2[c] = t[c]
  PROVE  \E v : /\ Good(t2, v)
                /\ v.own[b] = o /\ v.len[o] = w.len[o] + 1
                /\ \A c \in Clus : v.idx[c] = w.idx[c] /\ (c # b => v.own[c] = w.own[c])
                /\ \A p \in Tags : p # o => v.len[p] = w.len[p]
<1> DEFINE v == [own |-> [c \in Clus |-> IF c = b THEN o ELSE w.own[c]],
                 idx |-> [c \in Clus |-> w.idx[c]],
                 len |-> [p \in Tags |-> IF p = o THEN w.len[o] + 1 ELSE w.len[p]]]
<1>1. /\ v.own[b] = o /\ v.len[o] = w.len[o] + 1
      /\ \A c \in Clus : v.idx[c] = w.idx[c] /\ (c # b => v.own[c] = w.own[c])
      /\ \A p \in Tags : p # o => v.len[p] = w.len[p]
  OBVIOUS
<1> HIDE DEF v
<1>2. Typed(v) /\ w.len[o] \in Nat
  BY <1>1 DEF Good, Typed
<1>3. ASSUME NEW c \in Clus, v.own[c] # Nobody PROVE InPlace(t2, v, c)
  <2>0. a # b
    OBVIOUS
  <2>1. CASE c = b
    <3>1. t2[b] = EOC
      BY <2>0, Tagging DEF Good, InPlace
    <3> QED
      BY <2>1, <1>1, <1>2, <3>1 DEF InPlace
  <2>2. CASE c = a
    <3>1. w.idx[a] # w.len[o] + 1 /\ w.len[o] <= w.len[o] + 1 /\ 1 <= w.idx[a]
      BY <1>2 DEF Good, InPlace
    <3> QED
      BY <2>2, <2>0, <1>1, <1>2, <3>1 DEF InPlace
  <2>3. CASE c # b /\ c # a
    <3>1. w.own[c] # Nobody /\ w.own[c] # Hand /\ w.own[c] \in Tags /\ InPlace(t, w, c) /\ w.idx[c] \in Nat
      BY <2>3, <1>1, <1>3 DEF Good, Typed
    <3>2. t[c] # b \/ t[c] \notin Clus \/ w.own[t[c]] # w.own[c]
      BY <3>1
    <3>3. CASE w.own[c] # o
      BY <2>3, <1>1, <3>1, <3>2, <3>3 DEF InPlace
    <3>4. CASE w.own[c] = o
      <4>1. w.idx[c] # w.len[o]
        BY <2>3, <3>4 DEF Good, Apart
      <4> QED
        BY <2>3, <1>1, <1>2, <3>1, <3>2, <3>4, <4>1 DEF InPlace
    <3> QED
      BY <3>3, <3>4
  <2> QED
    BY <2>1, <2>2, <2>3
<1>4. Apart(v)
  <2>1. SUFFICES ASSUME NEW c \in Clus, NEW d \in Clus, v.own[c] # Nobody, v.own[c] = v.own[d], v.idx[c] = v.idx[d], c # d
                 PROVE FALSE
    BY DEF Apart
  <2>2. \A e \in Clus : w.own[e] = o => w.idx[e] <= w.len[o]
    BY DEF Good, InPlace
  <2>3. w.own[c] = w.own[d] => c = d
    BY <2>1, <1>1 DEF Good, Apart
  <2> QED
    BY <2>1, <2>2, <2>3, <1>1, <1>2 DEF Good, Typed
<1> QED
  BY <1>1, <1>2, <1>3, <1>4 DEF Good

\* v is w with what follows a in the chain o in hand.
Severed(t2, w, a, o, v) ==
  /\ Good(t2, v)
  /\ \A c \in Clus : v.idx[c] = w.idx[c]
  /\ \A c \in Clus : w.own[c] = o /\ w.idx[c] > w.idx[a] => v.own[c] = Hand
  /\ \A c \in Clus : ~(w.own[c] = o /\ w.idx[c] > w.idx[a]) => v.own[c] = w.own[c]
  /\ v.len[o] = w.idx[a] /\ v.len[Hand] = w.len[o]
  /\ \A p \in Tags : p # o /\ p # Hand => v.len[p] = w.len[p]

\* A chain ends at the cluster a: the rest of it is in hand.
LEMMA CutGood ==
  ASSUME NEW t, NEW t2, NEW w, Good(t, w), NEW a \in Clus, NEW o \in Tags,
         o # Nobody, o # Hand, w.own[a] = o, \A c \in Clus : w.own[c] # Hand,
         t2[a] = EOC, \A c \in Clus : c # a => t2[c] = t[c]
  PROVE  \E v : Severed(t2, w, a, o, v)
<1> DEFINE v == [own |-> [c \in Clus |-> IF w.own[c] = o /\ w.idx[c] > w.idx[a] THEN Hand ELSE w.own[c]],
                 idx |-> [c \in Clus |-> w.idx[c]],
                 len |-> [p \in Tags |-> IF p = o THEN w.idx[a] ELSE IF p = Hand THEN w.len[o] ELSE w.len[p]]]
<1>1. /\ \A c \in Clus : v.idx[c] = w.idx[c]
      /\ \A c \in Clus : w.own[c] = o /\ w.idx[c] > w.idx[a] => v.own[c] = Hand
      /\ \A c \in Clus : ~(w.own[c] = o /\ w.idx[c] > w.idx[a]) => v.own[c] = w.own[c]
      /\ v.len[o] = w.idx[a] /\ v.len[Hand] = w.len[o]
      /\ \A p \in Tags : p # o /\ p # Hand => v.len[p] = w.len[p]
  BY Tagging
<1> HIDE DEF v
<1>2. Typed(v) /\ w.len[o] \in Nat /\ w.idx[a] \in Nat
  BY <1>1, Tagging DEF Good, Typed
<1>3. ASSUME NEW c \in Clus, v.own[c] # Nobody PROVE InPlace(t2, v, c)
  <2>1. w.own[c] # Nobody /\ w.own[c] # Hand /\ w.own[c] \in Tags /\ InPlace(t, w, c) /\ w.idx[c] \in Nat
    BY <1>1, <1>3 DEF Good, Typed
  <2>2. CASE c = a
    BY <2>1, <2>2, <1>1, <1>2 DEF InPlace
  <2>3. CASE c # a /\ w.own[c] # o
    BY <2>1, <2>3, <1>1 DEF InPlace
  <2>4. CASE c # a /\ w.own[c] = o
    <3>1. w.idx[c] # w.idx[a]
      BY <2>4 DEF Good, Apart
    <3>2. CASE w.idx[c] > w.idx[a]
      <4>1. v.own[c] = Hand /\ v.len[Hand] = w.len[o] /\ v.idx[c] = w.idx[c] /\ t2[c] = t[c]
        BY <1>1, <2>4, <3>2
      <4>2. w.idx[c] # w.len[o] => /\ t[c] \in Clus /\ w.own[t[c]] = o /\ w.idx[t[c]] = w.idx[c] + 1
                                   /\ w.idx[t[c]] > w.idx[a]
        BY <1>2, <2>1, <2>4, <3>2 DEF InPlace
      <4> QED
        BY <4>1, <4>2, <1>1, <2>1, <2>4 DEF InPlace
    <3>3. CASE w.idx[c] < w.idx[a]
      <4>1. v.own[c] = o /\ v.len[o] = w.idx[a] /\ v.idx[c] = w.idx[c] /\ t2[c] = t[c]
        BY <1>1, <1>2, <2>1, <2>4, <3>3
      <4>2. w.idx[c] # w.len[o]
        BY <3>3, <1>2, <2>1 DEF Good, InPlace
      <4>3. /\ t[c] \in Clus /\ w.own[t[c]] = o /\ w.idx[t[c]] = w.idx[c] + 1
            /\ ~(w.idx[t[c]] > w.idx[a])
        BY <4>2, <1>2, <2>1, <2>4, <3>3 DEF InPlace
      <4> QED
        BY <4>1, <4>3, <1>1, <1>2, <2>1, <3>3 DEF InPlace
    <3> QED
      BY <3>1, <3>2, <3>3, <2>1, <1>2
  <2> QED
    BY <2>2, <2>3, <2>4
<1>4. Apart(v)
  <2>1. SUFFICES ASSUME NEW c \in Clus, NEW d \in Clus, v.own[c] # Nobody, v.own[c] = v.own[d], v.idx[c] = v.idx[d]
                 PROVE c = d
    BY DEF Apart
  <2>2. w.own[c] # Nobody /\ w.own[c] = w.own[d]
    BY <1>1, <2>1
  <2> QED
    BY <2>1, <2>2, <1>1 DEF Good, Apart
<1>5. Severed(t2, w, a, o, v)
  BY <1>1, <1>2, <1>3, <1>4 DEF Good, Severed
<1> QED
  BY <1>5

\* The first cluster in hand is freed.
LEMMA FreeGood ==
  ASSUME NEW t, NEW t2, NEW w, Good(t, w), NEW b \in Clus, w.own[b] = Hand,
         \A c \in Clus : w.own[c] = Hand => w.idx[b] <= w.idx[c],
         \A c \in Clus : c # b => t2[c] = t[c]
  PROVE  \E v : /\ Good(t2, v)
                /\ v.own[b] = Nobody
                /\ \A c \in Clus : v.idx[c] = w.idx[c] /\ (c # b => v.own[c] = w.own[c])
                /\ \A p \in Tags : v.len[p] = w.len[p]
<1> DEFINE v == [own |-> [c \in Clus |-> IF c = b THEN Nobody ELSE w.own[c]],
                 idx |-> [c \in Clus |-> w.idx[c]],
                 len |-> [p \in Tags |-> w.len[p]]]
<1>1. /\ v.own[b] = Nobody
      /\ \A c \in Clus : v.idx[c] = w.idx[c] /\ (c # b => v.own[c] = w.own[c])
      /\ \A p \in Tags : v.len[p] = w.len[p]
  OBVIOUS
<1> HIDE DEF v
<1>2. Typed(v)
  BY <1>1, Tagging DEF Good, Typed
<1>3. ASSUME NEW c \in Clus, v.own[c] # Nobody PROVE InPlace(t2, v, c)
  <2>1. c # b /\ w.own[c] # Nobody /\ w.own[c] \in Tags /\ InPlace(t, w, c) /\ w.idx[c] \in Nat /\ w.idx[b] \in Nat
    BY <1>1, <1>3 DEF Good, Typed
  <2>2. t[c] = b /\ w.own[t[c]] = w.own[c] => w.idx[t[c]] # w.idx[c] + 1
    BY <2>1
  <2> QED
    BY <2>1, <2>2, <1>1 DEF InPlace
<1>4. Apart(v)
  BY <1>1 DEF Good, Apart
<1> QED
  BY <1>1, <1>2, <1>3, <1>4 DEF Good

\* The chain of p becomes the chain of q, whatever q had.
LEMMA MoveGood ==
  ASSUME NEW t, NEW w, Good(t, w), NEW p \in Tags, NEW q \in Tags, p # Nobody, p # q
  PROVE  \E v : /\ Good(t, v)
                /\ \A c \in Clus : v.idx[c] = w.idx[c]
                /\ \A c \in Clus : w.own[c] = p => v.own[c] = q
                /\ \A c \in Clus : w.own[c] = q => v.own[c] = Nobody
                /\ \A c \in Clus : w.own[c] # p /\ w.own[c] # q => v.own[c] = w.own[c]
                /\ v.len[q] = w.len[p]
                /\ \A o \in Tags : o # q => v.len[o] = w.len[o]
<1> DEFINE v == [own |-> [c \in Clus |-> IF w.own[c] = p THEN q ELSE IF w.own[c] = q THEN Nobody ELSE w.own[c]],
                 idx |-> [c \in Clus |-> w.idx[c]],
                 len |-> [o \in Tags |-> IF o = q THEN w.len[p] ELSE w.len[o]]]
<1>1. /\ \A c \in Clus : v.idx[c] = w.idx[c]
      /\ \A c \in Clus : w.own[c] = p => v.own[c] = q
      /\ \A c \in Clus : w.own[c] = q => v.own[c] = Nobody
      /\ \A c \in Clus : w.own[c] # p /\ w.own[c] # q => v.own[c] = w.own[c]
      /\ v.len[q] = w.len[p]
      /\ \A o \in Tags : o # q => v.len[o] = w.len[o]
  OBVIOUS
<1> HIDE DEF v
<1>2. Typed(v)
  BY <1>1, Tagging DEF Good, Typed
<1>3. ASSUME NEW c \in Clus, v.own[c] # Nobody PROVE InPlace(t, v, c)
  <2>1. w.own[c] # q /\ w.own[c] # Nobody /\ w.own[c] \in Tags /\ InPlace(t, w, c) /\ v.idx[c] = w.idx[c]
    BY <1>1, <1>3 DEF Good, Typed
  <2>2. v.own[c] = IF w.own[c] = p THEN q ELSE w.own[c]
    BY <2>1, <1>1
  <2>3. v.len[v.own[c]] = w.len[w.own[c]]
    BY <2>1, <2>2, <1>1
  <2>4. t[c] \in Clus /\ w.own[t[c]] = w.own[c] => v.own[t[c]] = v.own[c] /\ v.idx[t[c]] = w.idx[t[c]]
    BY <2>1, <2>2, <1>1
  <2> QED
    BY <2>1, <2>3, <2>4 DEF InPlace
<1>4. Apart(v)
  <2>1. SUFFICES ASSUME NEW c \in Clus, NEW d \in Clus, v.own[c] # Nobody, v.own[c] = v.own[d], v.idx[c] = v.idx[d]
                 PROVE c = d
    BY DEF Apart
  <2>2. w.own[c] # Nobody /\ w.own[c] = w.own[d]
    BY <1>1, <2>1
  <2> QED
    BY <2>1, <2>2, <1>1 DEF Good, Apart
<1> QED
  BY <1>1, <1>2, <1>3, <1>4 DEF Good

\* The chain of p is nobody's.
LEMMA DropGood ==
  ASSUME NEW t, NEW w, Good(t, w), NEW p \in Tags, p # Nobody
  PROVE  \E v : /\ Good(t, v)
                /\ \A c \in Clus : v.idx[c] = w.idx[c]
                /\ \A c \in Clus : w.own[c] = p => v.own[c] = Nobody
                /\ \A c \in Clus : w.own[c] # p => v.own[c] = w.own[c]
                /\ \A o \in Tags : o # Nobody => v.len[o] = w.len[o]
<1>1. PICK v : /\ Good(t, v)
               /\ \A c \in Clus : v.idx[c] = w.idx[c]
               /\ \A c \in Clus : w.own[c] = p => v.own[c] = Nobody
               /\ \A c \in Clus : w.own[c] = Nobody => v.own[c] = Nobody
               /\ \A c \in Clus : w.own[c] # p /\ w.own[c] # Nobody => v.own[c] = w.own[c]
               /\ v.len[Nobody] = w.len[p]
               /\ \A o \in Tags : o # Nobody => v.len[o] = w.len[o]
  BY MoveGood, Tagging
<1>2. \A c \in Clus : w.own[c] # p => v.own[c] = w.own[c]
  BY <1>1
<1> QED
  BY <1>1, <1>2

\* v is w with the clusters from a to b as the chain of o.
Rowed(t, w, o, a, b, v) ==
  /\ Good(t, v)
  /\ \A c \in Clus : a <= c /\ c <= b => v.own[c] = o /\ v.idx[c] = c - a + 1
  /\ \A c \in Clus : ~(a <= c /\ c <= b) => v.own[c] = w.own[c] /\ v.idx[c] = w.idx[c]
  /\ v.len[o] = b - a + 1
  /\ \A p \in Tags : p # o => v.len[p] = w.len[p]

\* A row of clusters nobody owned, linked in order, becomes the chain of o.
LEMMA RowGood ==
  ASSUME NEW t, NEW w, Good(t, w), NEW o \in Tags, o # Nobody, NEW a \in Clus, NEW b \in Clus, a <= b,
         \A c \in Clus : w.own[c] # o,
         \A c \in Clus : a <= c /\ c <= b => w.own[c] = Nobody,
         \A c \in Clus : a <= c /\ c < b => t[c] = c + 1,
         t[b] = EOC
  PROVE  \E v : Rowed(t, w, o, a, b, v)
<1> SUFFICES \E v : /\ Good(t, v)
                    /\ \A c \in Clus : a <= c /\ c <= b => v.own[c] = o /\ v.idx[c] = c - a + 1
                    /\ \A c \in Clus : ~(a <= c /\ c <= b) => v.own[c] = w.own[c] /\ v.idx[c] = w.idx[c]
                    /\ v.len[o] = b - a + 1
                    /\ \A p \in Tags : p # o => v.len[p] = w.len[p]
  BY DEF Rowed
<1> DEFINE v == [own |-> [c \in Clus |-> IF a <= c /\ c <= b THEN o ELSE w.own[c]],
                 idx |-> [c \in Clus |-> IF a <= c /\ c <= b THEN c - a + 1 ELSE w.idx[c]],
                 len |-> [p \in Tags |-> IF p = o THEN b - a + 1 ELSE w.len[p]]]
<1>1. /\ \A c \in Clus : a <= c /\ c <= b => v.own[c] = o /\ v.idx[c] = c - a + 1
      /\ \A c \in Clus : ~(a <= c /\ c <= b) => v.own[c] = w.own[c] /\ v.idx[c] = w.idx[c]
      /\ v.len[o] = b - a + 1
      /\ \A p \in Tags : p # o => v.len[p] = w.len[p]
  OBVIOUS
<1> HIDE DEF v
<1>n. \A c \in Clus : c \in Nat
  BY Numbers
<1>2. Typed(v)
  BY <1>1, <1>n, Tagging DEF Good, Typed
<1>3. ASSUME NEW c \in Clus, v.own[c] # Nobody PROVE InPlace(t, v, c)
  <2>1. CASE a <= c /\ c < b
    <3>1. c + 1 \in Clus /\ c + 1 <= b /\ a <= c + 1
      BY <2>1, Numbers
    <3>2. t[c] = c + 1 /\ v.own[c + 1] = o /\ v.idx[c + 1] = (c + 1) - a + 1 /\ v.own[c] = o /\ v.idx[c] = c - a + 1
      BY <2>1, <3>1, <1>1, <1>n
    <3> QED
      BY <2>1, <3>1, <3>2, <1>1, <1>n DEF InPlace
  <2>2. CASE c = b
    BY <2>2, <1>1, <1>n DEF InPlace
  <2>3. CASE ~(a <= c /\ c <= b)
    <3>1. w.own[c] # Nobody /\ w.own[c] # o /\ w.own[c] \in Tags /\ InPlace(t, w, c)
      BY <2>3, <1>1, <1>3 DEF Good, Typed
    <3>2. t[c] \in Clus /\ w.own[t[c]] = w.own[c] => ~(a <= t[c] /\ t[c] <= b)
      BY <3>1
    <3> QED
      BY <2>3, <1>1, <3>1, <3>2 DEF InPlace
  <2> QED
    BY <2>1, <2>2, <2>3, <1>n
<1>4. Apart(v)
  <2>1. SUFFICES ASSUME NEW c \in Clus, NEW d \in Clus, v.own[c] # Nobody, v.own[c] = v.own[d], v.idx[c] = v.idx[d]
                 PROVE c = d
    BY DEF Apart
  <2>2. CASE a <= c /\ c <= b
    BY <2>1, <2>2, <1>1, <1>n
  <2>3. CASE ~(a <= c /\ c <= b)
    <3>1. ~(a <= d /\ d <= b)
      BY <2>1, <2>3, <1>1
    <3> QED
      BY <2>1, <2>3, <3>1, <1>1 DEF Good, Apart
  <2> QED
    BY <2>2, <2>3
<1> QED
  BY <1>1, <1>2, <1>3, <1>4 DEF Good

-----------------------------------------------------------------------------
(* Least numbers and iteration.                                            *)

\* Every nonempty set of natural numbers has a least element.
LEMMA Least ==
  ASSUME NEW S, S \subseteq Nat, S # {}
  PROVE  \E n \in S : \A m \in S : n <= m
<1> DEFINE R == {p \in Nat \X Nat : p[1] < p[2]}
<1>1. IsWellFoundedOn(R, Nat)
  BY NatLessThanWellFounded DEF OpToRel
<1>2. \A m, n \in Nat : m < n => <<m, n>> \in R
  OBVIOUS
<1> HIDE DEF R
<1>3. PICK n \in S : \A m \in S : ~(<<m, n>> \in R)
  BY <1>1, WFMin
<1>4. \A m \in S : ~(m < n)
  BY <1>2, <1>3
<1> QED
  BY <1>4

\* A set of numbers up to N that has 0 and with k - 1 has k.
LEMMA UpTo ==
  ASSUME NEW N \in Nat, NEW S, 0 \in S, \A k \in 1 .. N : k - 1 \in S => k \in S
  PROVE  \A k \in 0 .. N : k \in S
<1> DEFINE Bad == {k \in 0 .. N : k \notin S}
<1>1. SUFFICES ASSUME Bad # {} PROVE FALSE
  OBVIOUS
<1>2. PICK n \in Bad : \A m \in Bad : n <= m
  <2>1. Bad \subseteq Nat
    OBVIOUS
  <2> HIDE DEF Bad
  <2> QED
    BY <1>1, <2>1, Least
<1>3. n \in 0 .. N /\ n \notin S
  BY <1>2
<1>4. n \in 1 .. N /\ n - 1 \in 0 .. N /\ ~(n <= n - 1)
  BY <1>3
<1>5. n - 1 \in S
  BY <1>2, <1>4
<1> QED
  BY <1>3, <1>4, <1>5

\* g lists the steps F from a on.
Iterates(N, V, a, F, g) ==
  /\ g \in [0 .. N -> V] /\ g[0] = a
  /\ \A k \in 1 .. N : g[k] = F[<<k, g[k - 1]>>]

\* The steps F, taken N times from a, stay in the set V that F is closed on.
LEMMA Iterate ==
  ASSUME NEW N \in Nat, NEW V, NEW a \in V, NEW F \in [(1 .. N) \X V -> V]
  PROVE  \E g : Iterates(N, V, a, F, g)
<1> DEFINE Is(n, g) == g[0] = a /\ \A k \in 1 .. n : g[k] = F[<<k, g[k - 1]>>]
           S == {n \in 0 .. N : \E g \in [0 .. n -> V] : Is(n, g)}
<1>1. 0 \in S
  <2> DEFINE h == [k \in 0 .. 0 |-> a]
  <2>1. h \in [0 .. 0 -> V] /\ h[0] = a /\ 1 .. 0 = {}
    OBVIOUS
  <2> HIDE DEF h
  <2>2. Is(0, h)
    BY <2>1
  <2> QED
    BY <2>1, <2>2
<1>2. ASSUME NEW n \in 1 .. N, n - 1 \in S PROVE n \in S
  <2>1. PICK g \in [0 .. n - 1 -> V] : Is(n - 1, g)
    BY <1>2
  <2> DEFINE h == [k \in 0 .. n |-> IF k = n THEN F[<<n, g[n - 1]>>] ELSE g[k]]
  <2>2. g[n - 1] \in V /\ F[<<n, g[n - 1]>>] \in V
    BY <1>2
  <2>3. h \in [0 .. n -> V]
    BY <2>2, <1>2
  <2>4. h[n] = F[<<n, g[n - 1]>>] /\ \A k \in 0 .. n - 1 : h[k] = g[k]
    BY <1>2
  <2> HIDE DEF h
  <2>5. h[0] = a
    BY <2>1, <2>4, <1>2
  <2>6. \A k \in 1 .. n : h[k] = F[<<k, h[k - 1]>>]
    <3>1. TAKE k \in 1 .. n
    <3>2. h[k - 1] = g[k - 1]
      BY <2>4, <1>2
    <3>3. CASE k = n
      BY <3>2, <3>3, <2>4
    <3>4. CASE k # n
      <4>1. k \in 1 .. n - 1
        BY <3>4, <1>2
      <4> QED
        BY <4>1, <3>2, <2>1, <2>4, <1>2
    <3> QED
      BY <3>3, <3>4
  <2> QED
    BY <2>3, <2>5, <2>6
<1> HIDE DEF S
<1>3. \A n \in 0 .. N : n \in S
  BY <1>1, <1>2, UpTo
<1>4. N \in S
  BY <1>3
<1> QED
  BY <1>4 DEF S, Iterates

-----------------------------------------------------------------------------
(* The searches for free clusters.                                         *)

\* The search of create_chain looks at clusters only, and at all of them.
LEMMA AfterInside ==
  ASSUME NEW s \in Nat, 1 <= s, s < NFatEnt, NEW i \in 1 .. NClust
  PROVE  After(s, i) \in Clus
BY Numbers DEF After

LEMMA AfterAll ==
  ASSUME NEW s \in Nat, 1 <= s, s < NFatEnt, NEW c \in Clus
  PROVE  \E i \in 1 .. NClust : After(s, i) = c
<1>1. CASE c > s
  <2>1. c - s \in 1 .. NClust /\ After(s, c - s) = c
    BY <1>1, Numbers DEF After
  <2> QED
    BY <2>1
<1>2. CASE ~(c > s)
  <2>1. c - s + NClust \in 1 .. NClust /\ After(s, c - s + NClust) = c
    BY <1>2, Numbers DEF After
  <2> QED
    BY <2>1
<1> QED
  BY <1>1, <1>2

\* It finds a free cluster if there is one: find_free in create_chain wraps at
\* n_fatent and stops where it began.
LEMMA FreeSearch ==
  ASSUME NEW s \in Nat, 1 <= s, s < NFatEnt
  PROVE  \/ FreeAt(s) = 0 /\ \A c \in Clus : fat[c] # 0
         \/ FreeAt(s) \in 1 .. NClust /\ After(s, FreeAt(s)) \in Clus /\ fat[After(s, FreeAt(s))] = 0
<1>1. CASE \A c \in Clus : fat[c] # 0
  BY <1>1 DEF FreeAt
<1>2. CASE ~ \A c \in Clus : fat[c] # 0
  <2> DEFINE S == {i \in 1 .. NClust : fat[After(s, i)] = 0}
             P(i) == fat[After(s, i)] = 0 /\ \A j \in 1 .. i - 1 : fat[After(s, j)] # 0
  <2>1. S # {} /\ S \subseteq Nat
    BY <1>2, AfterAll
  <2>2. PICK i \in S : \A j \in S : i <= j
    <3> HIDE DEF S
    <3> QED
      BY <2>1, Least
  <2>3. i \in 1 .. NClust /\ fat[After(s, i)] = 0
    BY <2>2
  <2>4. \A j \in 1 .. i - 1 : j \in 1 .. NClust /\ ~(i <= j)
    BY <2>3, Numbers
  <2>5. P(i)
    BY <2>2, <2>3, <2>4
  <2>6. FreeAt(s) = CHOOSE k \in 1 .. NClust : P(k)
    BY <1>2 DEF FreeAt
  <2>7. FreeAt(s) \in 1 .. NClust /\ P(FreeAt(s))
    <3> HIDE DEF P
    <3> QED
      BY <2>3, <2>5, <2>6
  <2> QED
    BY <2>7, AfterInside
<1> QED
  BY <1>1, <1>2

\* The search of f_expand finds a row of k free clusters, or nothing.
LEMMA RowSearch ==
  ASSUME NEW s \in Clus, NEW k \in Nat, k >= 1
  PROVE  \/ RowAt(s, k) = 0
         \/ LET i == RowAt(s, k)
                c == After(s - 1, i - k + 1)
            IN  /\ i \in 1 .. NClust
                /\ c \in Clus /\ \A x \in Clus : c <= x /\ x < c + k => fat[x] = 0
<1> DEFINE Row(i) == i >= k /\ \A j \in i - k + 1 .. i : fat[After(s - 1, j)] = 0
           P(i) == Row(i) /\ \A j \in 1 .. i - 1 : ~Row(j)
           i == RowAt(s, k)
           c == After(s - 1, i - k + 1)
<1>s. s - 1 \in Nat /\ 1 <= s - 1 /\ s - 1 < NFatEnt
  BY Numbers
<1>1. CASE \A m \in 1 .. NClust : ~Row(m)
  BY <1>1 DEF RowAt
<1>2. CASE ~ \A m \in 1 .. NClust : ~Row(m)
  <2> DEFINE S == {m \in 1 .. NClust : Row(m)}
  <2>1. S # {} /\ S \subseteq Nat
    BY <1>2
  <2>2. PICK m \in S : \A j \in S : m <= j
    <3> HIDE DEF S
    <3> QED
      BY <2>1, Least
  <2>3. m \in 1 .. NClust /\ Row(m)
    BY <2>2
  <2>4. \A j \in 1 .. m - 1 : j \in 1 .. NClust /\ ~(m <= j)
    BY <2>3, Numbers
  <2>5. P(m)
    <3> HIDE DEF Row
    <3>1. \A j \in 1 .. m - 1 : ~Row(j)
      BY <2>2, <2>4
    <3> QED
      BY <2>3, <3>1
  <2>6. RowAt(s, k) = CHOOSE j \in 1 .. NClust : P(j)
    BY <1>2 DEF RowAt
  <2>7. i \in 1 .. NClust /\ P(i)
    <3> HIDE DEF P
    <3> QED
      BY <2>3, <2>5, <2>6
  <2>8. i >= k /\ \A j \in i - k + 1 .. i : fat[After(s - 1, j)] = 0
    BY <2>7
  <2> HIDE DEF i, P, Row
  <2>9. i - k + 1 \in 1 .. NClust
    BY <2>7, <2>8, Numbers
  <2>10. c \in Clus
    BY <1>s, <2>9, AfterInside
  <2>11. ASSUME NEW x \in Clus, c <= x, x < c + k PROVE fat[x] = 0
    <3> DEFINE j == i - k + 1 + (x - c)
    <3>1. c \in Nat /\ x \in Nat /\ x < NFatEnt /\ i \in Nat
      BY <2>7, <2>10, Numbers
    <3>2. j \in i - k + 1 .. i
      BY <2>11, <3>1
    <3>3. After(s - 1, j) = x
      BY <2>9, <2>11, <3>1, <1>s, Numbers DEF After
    <3> QED
      BY <2>8, <3>2, <3>3
  <2> QED
    BY <2>7, <2>10, <2>11 DEF i
<1> QED
  BY <1>1, <1>2

-----------------------------------------------------------------------------
(* Walks and reaches.                                                      *)

\* One step of Walk.
WalkNext(t, c, k, v) ==
  LET x == IF k = 1 THEN c ELSE IF Len(v) = k - 1 THEN t[v[k - 1]] ELSE 0
  IN  IF x \in Clus THEN Append(v, x) ELSE v

\* g lists the steps of Walk(t, c, n).
Walks(t, c, n, g) ==
  /\ g \in [0 .. n -> Seq(Clus)] /\ Walk(t, c, n) = g[n] /\ g[0] = << >>
  /\ \A k \in 1 .. n : g[k] = WalkNext(t, c, k, g[k - 1])

\* Walk is defined by its steps.
LEMMA WalkSteps ==
  ASSUME NEW t, NEW c, NEW n \in Nat
  PROVE  \E g : Walks(t, c, n, g)
<1> DEFINE V == Seq(Clus)
           F == [p \in (1 .. n) \X V |-> WalkNext(t, c, p[1], p[2])]
           IsWalk(g) == g = [k \in 0 .. n |->
              IF k = 0 THEN << >>
              ELSE LET x == IF k = 1 THEN c ELSE IF Len(g[k - 1]) = k - 1 THEN t[g[k - 1][k - 1]] ELSE 0
                   IN  IF x \in Clus THEN Append(g[k - 1], x) ELSE g[k - 1]]
<1>1. \A k \in 1 .. n, v \in V : WalkNext(t, c, k, v) \in V
  BY DEF WalkNext
<1>2. F \in [(1 .. n) \X V -> V]
  BY <1>1
<1>3. \A k \in 1 .. n, v \in V : F[<<k, v>>] = WalkNext(t, c, k, v)
  OBVIOUS
<1> HIDE DEF F
<1>3a. << >> \in V /\ n \in 0 .. n /\ 0 \in 0 .. n
  OBVIOUS
<1> HIDE DEF V
<1>3b. PICK g : Iterates(n, V, << >>, F, g)
  BY <1>2, <1>3a, Iterate
<1>4. g \in [0 .. n -> V] /\ g[0] = << >> /\ \A k \in 1 .. n : g[k] = F[<<k, g[k - 1]>>]
  BY <1>3b DEF Iterates
<1>5. \A k \in 1 .. n : g[k - 1] \in V /\ g[k] = WalkNext(t, c, k, g[k - 1])
  <2>1. TAKE k \in 1 .. n
  <2>2. k - 1 \in 0 .. n
    OBVIOUS
  <2>3. g[k - 1] \in V
    BY <1>4, <2>2
  <2> QED
    BY <1>3, <1>4, <2>3
<1>6. IsWalk(g)
  <2>1. \A k \in 0 .. n : g[k] = IF k = 0 THEN << >> ELSE WalkNext(t, c, k, g[k - 1])
    BY <1>4, <1>5
  <2>2. g = [k \in 0 .. n |-> IF k = 0 THEN << >> ELSE WalkNext(t, c, k, g[k - 1])]
    BY <1>4, <2>1
  <2> QED
    BY <2>2 DEF WalkNext
<1> DEFINE h == CHOOSE h : IsWalk(h)
<1>7. IsWalk(h)
  <2> HIDE DEF IsWalk
  <2> QED
    BY <1>6
<1>8. Walk(t, c, n) = h[n]
  BY DEF Walk
<1> HIDE DEF h
<1>9. h[0] = << >> /\ \A k \in 1 .. n : h[k] = WalkNext(t, c, k, h[k - 1])
  <2>1. h = [k \in 0 .. n |-> IF k = 0 THEN << >> ELSE WalkNext(t, c, k, h[k - 1])]
    BY <1>7 DEF WalkNext
  <2> QED
    BY <2>1
<1>10. DOMAIN h = 0 .. n /\ h = [k \in 0 .. n |-> h[k]]
  <2>1. h = [k \in 0 .. n |-> IF k = 0 THEN << >> ELSE WalkNext(t, c, k, h[k - 1])]
    BY <1>7 DEF WalkNext
  <2> DEFINE E(k) == IF k = 0 THEN << >> ELSE WalkNext(t, c, k, h[k - 1])
  <2>2. h = [k \in 0 .. n |-> E(k)]
    BY <2>1
  <2> HIDE DEF E
  <2> QED
    BY <2>2
<1>11. \A k \in 0 .. n : h[k] \in V
  <2> DEFINE S == {k \in 0 .. n : h[k] \in V}
  <2>1. 0 \in S
    BY <1>3a, <1>9
  <2>2. ASSUME NEW k \in 1 .. n, k - 1 \in S PROVE k \in S
    <3>1. h[k - 1] \in V
      BY <2>2
    <3> QED
      BY <1>1, <1>9, <3>1
  <2> HIDE DEF S
  <2>3. \A k \in 0 .. n : k \in S
    BY <2>1, <2>2, UpTo
  <2> QED
    BY <2>3 DEF S
<1>12. h \in [0 .. n -> V]
  BY <1>10, <1>11
<1> QED
  BY <1>8, <1>9, <1>12 DEF V, Walks

\* The first n clusters of the chain o are those in its places 1 to n.
LEMMA WalkChain ==
  ASSUME NEW t, NEW w, Good(t, w), NEW o \in Tags, o # Nobody, NEW c \in Clus, w.own[c] = o, w.idx[c] = 1,
         NEW n \in Nat, n <= w.len[o]
  PROVE  /\ Walk(t, c, n) \in Seq(Clus) /\ Len(Walk(t, c, n)) = n
         /\ \A i \in 1 .. n : w.own[Walk(t, c, n)[i]] = o /\ w.idx[Walk(t, c, n)[i]] = i
<1>0. PICK g : Walks(t, c, n, g)
  BY WalkSteps
<1>1. /\ g \in [0 .. n -> Seq(Clus)] /\ Walk(t, c, n) = g[n] /\ g[0] = << >>
      /\ \A k \in 1 .. n : g[k] = WalkNext(t, c, k, g[k - 1])
  BY <1>0 DEF Walks
<1> DEFINE Is(k) == Len(g[k]) = k /\ \A i \in 1 .. k : w.own[g[k][i]] = o /\ w.idx[g[k][i]] = i
           S == {k \in 0 .. n : Is(k)}
<1>2. 0 \in S
  BY <1>1
<1>3. ASSUME NEW k \in 1 .. n, k - 1 \in S PROVE k \in S
  <2>1. k - 1 \in 0 .. n /\ g[k - 1] \in Seq(Clus) /\ Is(k - 1)
    <3>1. k - 1 \in 0 .. n /\ Is(k - 1)
      BY <1>3
    <3> QED
      BY <1>1, <3>1
  <2> DEFINE x == IF k = 1 THEN c ELSE t[g[k - 1][k - 1]]
  <2>2. x \in Clus /\ w.own[x] = o /\ w.idx[x] = k
    <3>1. CASE k = 1
      BY <3>1
    <3>2. CASE k # 1
      <4> DEFINE y == g[k - 1][k - 1]
      <4>1. y \in Clus /\ w.own[y] = o /\ w.idx[y] = k - 1
        BY <2>1, <3>2
      <4> HIDE DEF y
      <4>2. InPlace(t, w, y) /\ w.idx[y] # w.len[o]
        BY <4>1 DEF Good, Typed
      <4>3. t[y] \in Clus /\ w.own[t[y]] = o /\ w.idx[t[y]] = k
        BY <4>1, <4>2 DEF InPlace
      <4> QED
        BY <4>3, <3>2 DEF y
    <3> QED
      BY <3>1, <3>2
  <2>3. g[k] = Append(g[k - 1], x)
    BY <1>1, <2>1, <2>2 DEF WalkNext
  <2> HIDE DEF x
  <2> DEFINE v == g[k - 1]
  <2>4. v \in Seq(Clus) /\ Len(v) = k - 1 /\ \A i \in 1 .. k - 1 : w.own[v[i]] = o /\ w.idx[v[i]] = i
    BY <2>1
  <2> HIDE DEF v
  <2>5. /\ Len(Append(v, x)) = k /\ Append(v, x)[k] = x
        /\ \A i \in 1 .. k - 1 : Append(v, x)[i] = v[i]
    BY <2>2, <2>4
  <2>6. Is(k)
    BY <2>2, <2>3, <2>4, <2>5 DEF v
  <2> QED
    BY <2>6
<1>4. \A k \in 0 .. n : k \in S
  <2> HIDE DEF S
  <2> QED
    BY <1>2, <1>3, UpTo
<1>5. Is(n) /\ g[n] \in Seq(Clus)
  <2>1. n \in 0 .. n /\ n \in S
    BY <1>4
  <2> QED
    BY <1>1, <2>1
<1> QED
  BY <1>1, <1>5

\* No cluster is walked in no step.
LEMMA WalkNone ==
  ASSUME NEW t, NEW c
  PROVE  Walk(t, c, 0) = << >>
BY WalkSteps DEF Walks

\* A chain is no longer than the volume, and has that many clusters.
LEMMA ChainSize ==
  ASSUME NEW t, NEW w, Good(t, w), NEW o \in Tags, o # Nobody, NEW c \in Clus, w.own[c] = o, w.idx[c] = 1
  PROVE  /\ w.len[o] \in 1 .. NClust
         /\ IsFiniteSet({x \in Clus : w.own[x] = o})
         /\ w.len[o] <= Cardinality({x \in Clus : w.own[x] = o})
<1> DEFINE n == w.len[o]
           s == Walk(t, c, n)
           M == [i \in 1 .. n |-> s[i]]
           C == {x \in Clus : w.own[x] = o}
<1>1. n \in Nat /\ 1 <= n
  BY DEF Good, Typed, InPlace
<1>2. s \in Seq(Clus) /\ Len(s) = n /\ \A i \in 1 .. n : w.own[s[i]] = o /\ w.idx[s[i]] = i
  BY <1>1, WalkChain
<1> HIDE DEF n, s
<1>3. M \in [1 .. n -> C] /\ M \in [1 .. n -> Clus]
  BY <1>1, <1>2
<1>4. \A i, j \in 1 .. n : M[i] = M[j] => i = j
  BY <1>2
<1>5. M \in Injection(1 .. n, C) /\ M \in Injection(1 .. n, Clus)
  BY <1>3, <1>4 DEF Injection, IsInjective
<1>6. IsFiniteSet(Clus) /\ Cardinality(Clus) = NClust
  <2>1. Clus = 2 .. NClust + 1 /\ NClust + 1 \in Int /\ NClust >= 1 /\ NClust \in Nat
    BY Numbers DEF Clus
  <2> QED
    BY <2>1, FS_Interval
<1>7. IsFiniteSet(C)
  BY <1>6, FS_Subset
<1>8. Cardinality(1 .. n) = n
  BY <1>1, FS_Interval
<1> HIDE DEF M, C
<1>9. n <= Cardinality(C)
  BY <1>5, <1>7, <1>8, FS_Injection
<1>10. n <= NClust
  BY <1>5, <1>6, <1>8, FS_Injection
<1> QED
  BY <1>1, <1>7, <1>9, <1>10, Numbers DEF n, C

\* One step of Reach.
ReachNext(t, v) == v \cup ({t[x] : x \in v} \cap Clus)

\* g lists the steps of Reach(t, c).
Reaches(t, c, g) ==
  /\ g \in [0 .. NClust -> SUBSET Clus] /\ Reach(t, c) = g[NClust] /\ g[0] = {c} \cap Clus
  /\ \A k \in 1 .. NClust : g[k] = ReachNext(t, g[k - 1])

\* Reach is defined by its steps.
LEMMA ReachSteps ==
  ASSUME NEW t, NEW c
  PROVE  \E g : Reaches(t, c, g)
<1> DEFINE V == SUBSET Clus
           F == [p \in (1 .. NClust) \X V |-> ReachNext(t, p[2])]
           IsReach(g) == g = [k \in 0 .. NClust |->
              IF k = 0 THEN {c} \cap Clus ELSE g[k - 1] \cup ({t[x] : x \in g[k - 1]} \cap Clus)]
<1>0. NClust \in Nat
  BY Numbers
<1>1. \A v \in V : ReachNext(t, v) \in V
  BY DEF ReachNext
<1>2. F \in [(1 .. NClust) \X V -> V]
  BY <1>1
<1>3. \A k \in 1 .. NClust, v \in V : F[<<k, v>>] = ReachNext(t, v)
  OBVIOUS
<1> HIDE DEF F
<1> DEFINE a == {c} \cap Clus
<1>3a. a \in V
  OBVIOUS
<1> HIDE DEF V, a
<1>3b. PICK g : Iterates(NClust, V, a, F, g)
  BY <1>0, <1>2, <1>3a, Iterate
<1>4. g \in [0 .. NClust -> V] /\ g[0] = {c} \cap Clus /\ \A k \in 1 .. NClust : g[k] = F[<<k, g[k - 1]>>]
  BY <1>3b DEF Iterates, a
<1>5. \A k \in 1 .. NClust : g[k - 1] \in V /\ g[k] = ReachNext(t, g[k - 1])
  <2>1. TAKE k \in 1 .. NClust
  <2>2. k - 1 \in 0 .. NClust
    BY <1>0
  <2>3. g[k - 1] \in V
    BY <1>4, <2>2
  <2> QED
    BY <1>3, <1>4, <2>3
<1> DEFINE IsR(g_) == g_ = [k \in 0 .. NClust |-> IF k = 0 THEN {c} \cap Clus ELSE ReachNext(t, g_[k - 1])]
<1>6. IsR(g)
  <2>1. \A k \in 0 .. NClust : g[k] = IF k = 0 THEN {c} \cap Clus ELSE ReachNext(t, g[k - 1])
    BY <1>4, <1>5
  <2> QED
    BY <1>4, <2>1
<1> DEFINE h == CHOOSE h : IsR(h)
<1>7. IsR(h)
  <2> HIDE DEF IsR
  <2> QED
    BY <1>6
<1>8. Reach(t, c) = h[NClust]
  BY DEF Reach, ReachNext
<1> HIDE DEF h
<1>9. h[0] = {c} \cap Clus /\ \A k \in 1 .. NClust : h[k] = ReachNext(t, h[k - 1])
  <2> DEFINE E(k) == IF k = 0 THEN {c} \cap Clus ELSE ReachNext(t, h[k - 1])
  <2>1. h = [k \in 0 .. NClust |-> E(k)]
    BY <1>7
  <2> HIDE DEF E
  <2>2. h[0] = E(0) /\ \A k \in 1 .. NClust : h[k] = E(k)
    BY <2>1, <1>0
  <2> QED
    BY <2>2 DEF E
<1>10. DOMAIN h = 0 .. NClust /\ h = [k \in 0 .. NClust |-> h[k]]
  <2> DEFINE E(k) == IF k = 0 THEN {c} \cap Clus ELSE ReachNext(t, h[k - 1])
  <2>2. h = [k \in 0 .. NClust |-> E(k)]
    BY <1>7
  <2> HIDE DEF E
  <2> QED
    BY <2>2
<1>11. \A k \in 0 .. NClust : h[k] \in V
  <2> DEFINE S == {k \in 0 .. NClust : h[k] \in V}
  <2>1. 0 \in S
    BY <1>9, <1>0, <1>3a DEF a
  <2>2. ASSUME NEW k \in 1 .. NClust, k - 1 \in S PROVE k \in S
    <3>1. h[k - 1] \in V
      BY <2>2
    <3> QED
      BY <1>0, <1>1, <1>9, <3>1
  <2> HIDE DEF S
  <2>3. \A k \in 0 .. NClust : k \in S
    BY <1>0, <2>1, <2>2, UpTo
  <2> QED
    BY <2>3 DEF S
<1>12. h \in [0 .. NClust -> V]
  BY <1>10, <1>11
<1> QED
  BY <1>8, <1>9, <1>12 DEF V, Reaches

\* What a chain reaches is the chain.
LEMMA ReachChain ==
  ASSUME NEW t, NEW w, Good(t, w), NEW o \in Tags, o # Nobody, NEW c \in Clus, w.own[c] = o, w.idx[c] = 1
  PROVE  Reach(t, c) = {x \in Clus : w.own[x] = o}
<1>0. PICK g : Reaches(t, c, g)
  BY ReachSteps
<1>1. /\ g \in [0 .. NClust -> SUBSET Clus] /\ Reach(t, c) = g[NClust] /\ g[0] = {c} \cap Clus
      /\ \A k \in 1 .. NClust : g[k] = ReachNext(t, g[k - 1])
  BY <1>0 DEF Reaches
<1>2. NClust \in Nat /\ w.len[o] \in 1 .. NClust
  BY Numbers, ChainSize
<1>3. ASSUME NEW x \in Clus, w.own[x] = o
      PROVE  /\ t[x] \in Clus => w.own[t[x]] = o
             /\ w.idx[x] # w.len[o] => t[x] \in Clus /\ w.idx[t[x]] = w.idx[x] + 1
  BY <1>3, Numbers DEF Good, InPlace
<1> DEFINE S == {k \in 0 .. NClust : \A x \in g[k] : w.own[x] = o}
           T == {k \in 0 .. NClust : \A j \in 1 .. k + 1 : j <= w.len[o] =>
                   \E x \in g[k] : w.own[x] = o /\ w.idx[x] = j}
<1>4. 0 \in S /\ 0 \in T
  <2>1. g[0] = {c} /\ 1 .. 0 + 1 = {1}
    BY <1>1
  <2> QED
    BY <2>1, <1>2
<1>5. ASSUME NEW k \in 1 .. NClust, k - 1 \in S PROVE k \in S
  <2>1. g[k - 1] \subseteq Clus /\ \A x \in g[k - 1] : w.own[x] = o
    <3>1. k - 1 \in 0 .. NClust
      BY <1>2
    <3> QED
      BY <1>1, <1>5, <3>1
  <2>2. \A y \in g[k] : y \in g[k - 1] \/ \E x \in g[k - 1] : y = t[x] /\ y \in Clus
    BY <1>1 DEF ReachNext
  <2>3. \A y \in g[k] : w.own[y] = o
    BY <2>1, <2>2, <1>3
  <2> QED
    BY <2>3, <1>2
<1>6. ASSUME NEW k \in 1 .. NClust, k - 1 \in T PROVE k \in T
  <2>1. /\ g[k - 1] \subseteq Clus
        /\ \A j \in 1 .. k : j <= w.len[o] => \E x \in g[k - 1] : w.own[x] = o /\ w.idx[x] = j
    <3>1. k - 1 \in 0 .. NClust /\ (k - 1) + 1 = k
      BY <1>2
    <3> QED
      BY <1>1, <1>6, <3>1
  <2>2. ASSUME NEW x \in g[k - 1] PROVE x \in g[k] /\ (t[x] \in Clus => t[x] \in g[k])
    BY <1>1 DEF ReachNext
  <2>3. ASSUME NEW j \in 1 .. k + 1, j <= w.len[o] PROVE \E x \in g[k] : w.own[x] = o /\ w.idx[x] = j
    <3>1. CASE j \in 1 .. k
      BY <3>1, <2>1, <2>2, <2>3
    <3>2. CASE j = k + 1
      <4>1. k \in 1 .. k /\ k <= w.len[o] /\ k # w.len[o]
        BY <3>2, <2>3, <1>2
      <4>2. PICK x \in g[k - 1] : w.own[x] = o /\ w.idx[x] = k
        BY <2>1, <4>1
      <4>3. t[x] \in Clus /\ w.own[t[x]] = o /\ w.idx[t[x]] = k + 1
        BY <1>3, <2>1, <4>1, <4>2
      <4> QED
        BY <2>2, <3>2, <4>3
    <3> QED
      BY <3>1, <3>2
  <2> QED
    BY <2>3, <1>2
<1>7. NClust \in S /\ NClust \in T
  <2> HIDE DEF S, T
  <2>1. \A k \in 0 .. NClust : k \in S
    BY <1>2, <1>4, <1>5, UpTo
  <2>2. \A k \in 0 .. NClust : k \in T
    BY <1>2, <1>4, <1>6, UpTo
  <2> QED
    BY <1>2, <2>1, <2>2
<1>8. \A x \in g[NClust] : x \in Clus /\ w.own[x] = o
  BY <1>1, <1>2, <1>7
<1>9. ASSUME NEW x \in Clus, w.own[x] = o PROVE x \in g[NClust]
  <2>1. w.idx[x] \in 1 .. NClust + 1 /\ w.idx[x] <= w.len[o]
    BY <1>2, <1>9 DEF Good, Typed, InPlace
  <2>2. PICK y \in g[NClust] : w.own[y] = o /\ w.idx[y] = w.idx[x]
    BY <1>7, <2>1
  <2>3. y = x
    BY <1>8, <1>9, <2>2 DEF Good, Apart
  <2> QED
    BY <2>2, <2>3
<1> QED
  BY <1>1, <1>8, <1>9

\* A file without clusters reaches none.
LEMMA ReachNone ==
  ASSUME NEW t
  PROVE  Reach(t, 0) = {}
<1>0. PICK g : Reaches(t, 0, g)
  BY ReachSteps
<1>1. /\ g \in [0 .. NClust -> SUBSET Clus] /\ Reach(t, 0) = g[NClust] /\ g[0] = {0} \cap Clus
      /\ \A k \in 1 .. NClust : g[k] = ReachNext(t, g[k - 1])
  BY <1>0 DEF Reaches
<1> DEFINE S == {k \in 0 .. NClust : g[k] = {}}
<1>2. NClust \in Nat /\ 0 \in S
  BY <1>1, Numbers
<1>3. ASSUME NEW k \in 1 .. NClust, k - 1 \in S PROVE k \in S
  BY <1>1, <1>2, <1>3 DEF ReachNext
<1>4. NClust \in S
  <2> HIDE DEF S
  <2>1. \A k \in 0 .. NClust : k \in S
    BY <1>2, <1>3, UpTo
  <2> QED
    BY <1>2, <2>1
<1> QED
  BY <1>1, <1>4

\* What an entry leads to: the clusters of one chain, as many as its size at least.
LEMMA LeadsReach ==
  ASSUME NEW t, NEW w, Good(t, w), NEW o \in Tags, o # Nobody, NEW start, NEW size \in Nat, NEW s,
         Leads(w, o, start, size, s)
  PROVE  /\ size <= NClust
         /\ \A x \in Reach(t, start) : x \in Clus /\ w.own[x] = o /\ t[x] # 0
         /\ size <= Cardinality(Reach(t, start))
         /\ start # 0 => \A x \in Clus : w.own[x] = o => x \in Reach(t, start)
<1>1. CASE start = 0 /\ size = 0
  <2>1. Reach(t, start) = {} /\ Cardinality({}) = 0
    BY <1>1, ReachNone, FS_EmptySet
  <2> QED
    BY <1>1, <2>1, Numbers
<1>2. CASE start \in Clus /\ w.own[start] = o /\ w.idx[start] = 1 /\ size <= w.len[o]
  <2> DEFINE C == {x \in Clus : w.own[x] = o}
  <2>1. Reach(t, start) = C
    BY <1>2, ReachChain
  <2>2. /\ w.len[o] \in 1 .. NClust
        /\ IsFiniteSet(C)
        /\ w.len[o] <= Cardinality(C)
    BY <1>2, ChainSize
  <2>3. \A x \in C : x \in Clus /\ w.own[x] = o /\ t[x] # 0
    BY Numbers DEF Good, InPlace
  <2>4. Cardinality(C) \in Nat
    BY <2>2, FS_CardinalityType
  <2>5. \A x \in Clus : w.own[x] = o => x \in C
    OBVIOUS
  <2> HIDE DEF C
  <2> QED
    BY <1>2, <2>1, <2>2, <2>3, <2>4, <2>5, Numbers
<1> QED
  BY <1>1, <1>2 DEF Leads

\* v is the first n clusters of the chain o.
Places(w, o, n, v) ==
  /\ v \in Seq(Clus) /\ Len(v) = n
  /\ \A i \in 1 .. n : w.own[v[i]] = o /\ w.idx[v[i]] = i

\* The cluster in place n is where the walk of n clusters ends.
LEMMA LeadsTo ==
  ASSUME NEW t, NEW w, Good(t, w), NEW o \in Tags, o # Nobody, NEW start, NEW size \in Nat, NEW s,
         Leads(w, o, start, size, s), NEW n \in Nat, n <= size
  PROVE  /\ Places(w, o, n, Walk(t, start, n))
         /\ \A c \in Clus : n > 0 /\ w.own[c] = o /\ w.idx[c] = n => Walk(t, start, n)[n] = c
<1> DEFINE v == Walk(t, start, n)
<1>1. /\ v \in Seq(Clus) /\ Len(v) = n
      /\ \A i \in 1 .. n : w.own[v[i]] = o /\ w.idx[v[i]] = i
  <2>1. CASE start = 0 /\ size = 0
    <3>1. n = 0 /\ v = << >>
      BY <2>1, WalkNone
    <3> HIDE DEF v
    <3> QED
      BY <3>1
  <2>2. CASE start \in Clus /\ w.own[start] = o /\ w.idx[start] = 1 /\ size <= w.len[o]
    <3>1. n <= w.len[o]
      BY <2>2 DEF Good, Typed
    <3> QED
      BY <2>2, <3>1, WalkChain
  <2> QED
    BY <2>1, <2>2 DEF Leads
<1> HIDE DEF v
<1>2. ASSUME NEW c \in Clus, n > 0, w.own[c] = o, w.idx[c] = n PROVE v[n] = c
  <2>1. n \in 1 .. n /\ v[n] \in Clus
    BY <1>1, <1>2
  <2> QED
    BY <1>1, <1>2, <2>1 DEF Good, Apart
<1> QED
  BY <1>1, <1>2 DEF v, Places

\* A sequence that is in the first places of a chain is its beginning.
LEMMA LeadsWalk ==
  ASSUME NEW t, NEW w, Good(t, w), NEW o \in Tags, o # Nobody, NEW start, NEW size \in Nat, NEW s \in Seq(Clus),
         Leads(w, o, start, size, s)
  PROVE  Walk(t, start, Len(s)) = s
<1> DEFINE n == Len(s)
           v == Walk(t, start, n)
<1>1. n \in Nat /\ n <= size
  BY DEF Leads
<1> HIDE DEF n, v
<1>2. /\ v \in Seq(Clus) /\ Len(v) = n
      /\ \A i \in 1 .. n : w.own[v[i]] = o /\ w.idx[v[i]] = i
  <2>1. Places(w, o, n, Walk(t, start, n))
    BY <1>1, LeadsTo
  <2> QED
    BY <2>1 DEF Places, v
<1>3. \A i \in 1 .. n : s[i] \in Clus /\ w.own[s[i]] = o /\ w.idx[s[i]] = i
  BY DEF Leads, n
<1>4. ASSUME NEW i \in 1 .. n PROVE v[i] = s[i]
  <2>1. v[i] \in Clus
    BY <1>2, <1>4
  <2> QED
    BY <1>2, <1>3, <2>1 DEF Good, Apart
<1>5. v = s
  BY <1>2, <1>4 DEF n
<1> QED
  BY <1>5 DEF v, n

-----------------------------------------------------------------------------
(* The types.                                                              *)

\* The values of the variables; a size is any number here.
Entry == {e \in [used : BOOLEAN, dir : BOOLEAN, start : {0} \cup Clus, size : Nat] : ~e.used => e.size = 0}
Object == [open : BOOLEAN, sclust : {0} \cup Clus, size : Nat, pos : Nat, clust : {0} \cup Clus,
           mod : BOOLEAN, err : BOOLEAN]
Link == {0, 1, EOC} \cup Clus
Ops == {"none", "create", "write", "lseek", "truncate", "undo", "expand", "sync", "close", "unlink", "mkdir"}
Pcs == {"idle", "chain", "link", "cut", "free", "got", "fill", "sync", "register"}
Call == [op : Ops, f : Files \cup {NoFile}, pc : Pcs, a : {0} \cup Clus, b : {0, EOC} \cup Clus,
         n : Nat, r : Int]

WindowTypes ==
  /\ disk = [fat |-> disk.fat, ents |-> disk.ents]
  /\ disk.fat \in [Clus -> Link] /\ disk.ents \in [Files -> Entry]
  /\ win \in FatSecs \cup {Dir, Data, NoSect} /\ wflag \in BOOLEAN /\ cut \in SUBSET Files

Types ==
  /\ fat \in [Clus -> Link] /\ ents \in [Files -> Entry] /\ WindowTypes
  /\ fil \in [Files -> Object] /\ snap \in [Files -> Seq(Clus)]
  /\ last \in {NoHint} \cup Clus /\ free \in Int /\ Unknown <= free /\ free <= NClust + 1
  /\ call \in Call /\ crashes \in Nat

\* A step leaves the card as it is, or writes the window to it first.
Held == disk' = disk /\ cut \subseteq cut' /\ win' = win /\ (wflag => wflag')
Wrote == disk' = Flushed.disk /\ Flushed.cut \subseteq cut'

\* The values of FAT entries.
LEMMA ClusLink == Clus \subseteq Link /\ 0 \in Link /\ EOC \in Link /\ \A v \in Link : v < 2 => v \notin Clus
BY Numbers DEF Link

\* sync_window keeps the types of what is on the card.
LEMMA FlushTypes ==
  ASSUME Types
  PROVE  /\ Flushed.disk = [fat |-> Flushed.disk.fat, ents |-> Flushed.disk.ents]
         /\ Flushed.disk.fat \in [Clus -> Link] /\ Flushed.disk.ents \in [Files -> Entry]
         /\ Flushed.cut \subseteq cut
<1>1. CASE ~wflag
  <2>1. Flushed.disk = disk /\ Flushed.cut = cut
    BY <1>1 DEF Flushed, OnCard
  <2> QED
    BY <2>1 DEF Types, WindowTypes
<1>2. CASE wflag
  <2> DEFINE F == [c \in Clus |-> IF FatSec[c] = win THEN fat[c] ELSE disk.fat[c]]
             E == IF win = Dir THEN ents ELSE disk.ents
             C == IF win = Dir THEN {f \in cut : Stale(f)} ELSE cut
  <2>1. F \in [Clus -> Link]
    BY DEF Types, WindowTypes
  <2>2. E \in [Files -> Entry]
    BY DEF Types, WindowTypes
  <2>3. C \subseteq cut
    BY DEF Types, WindowTypes
  <2>4. Flushed = [disk |-> [fat |-> F, ents |-> E], cut |-> C]
    BY <1>2 DEF Flushed
  <2> HIDE DEF F, E, C
  <2> QED
    BY <2>1, <2>2, <2>3, <2>4
<1> QED
  BY <1>1, <1>2

\* What an access to the sectors S that ends at s may come to.
LEMMA AccessIs ==
  ASSUME wflag \in BOOLEAN, NEW S, NEW s, NEW o \in MoveWindow(S, s), s \in S
  PROVE  /\ o.ok \in BOOLEAN
         /\ o.ok => o.win = s
         /\ \/ o.card = OnCard /\ o.win = win /\ o.wflag = wflag
            \/ o.card = Flushed /\ o.win \in {s, NoSect} /\ o.wflag = FALSE
<1>1. CASE S = {win}
  <2>1. o = [ok |-> TRUE, win |-> win, wflag |-> wflag, card |-> OnCard, cost |-> 0] /\ s = win
    BY <1>1 DEF MoveWindow
  <2> QED
    BY <2>1
<1>2. CASE S # {win}
  <2>1. \/ o = [ok |-> TRUE, win |-> s, wflag |-> FALSE, card |-> Flushed, cost |-> 0]
        \/ o = [ok |-> FALSE, win |-> NoSect, wflag |-> FALSE, card |-> Flushed, cost |-> 1]
        \/ o = [ok |-> FALSE, win |-> win, wflag |-> TRUE, card |-> OnCard, cost |-> 1] /\ wflag = TRUE
    BY <1>2 DEF MoveWindow
  <2>2. CASE o = [ok |-> TRUE, win |-> s, wflag |-> FALSE, card |-> Flushed, cost |-> 0]
    BY <2>2
  <2>3. CASE o = [ok |-> FALSE, win |-> NoSect, wflag |-> FALSE, card |-> Flushed, cost |-> 1]
    BY <2>3
  <2>4. CASE o = [ok |-> FALSE, win |-> win, wflag |-> TRUE, card |-> OnCard, cost |-> 1] /\ wflag = TRUE
    BY <2>4
  <2> QED
    BY <2>1, <2>2, <2>3, <2>4
<1> QED
  BY <1>1, <1>2

\* The window after the access.
LEMMA MovedIs ==
  ASSUME Types, NEW S, NEW s \in FatSecs \cup {Dir, Data}, NEW o \in MoveWindow(S, s), s \in S,
         NEW d \in BOOLEAN, Moved(o, d)
  PROVE  /\ o.ok \in BOOLEAN /\ WindowTypes' /\ (Held \/ Wrote) /\ cut' \subseteq cut
         /\ o.ok => win' = s
         /\ d => wflag'
<1>0. wflag \in BOOLEAN /\ win \in FatSecs \cup {Dir, Data, NoSect}
  BY DEF Types, WindowTypes
<1>1. /\ o.ok \in BOOLEAN
      /\ o.ok => o.win = s
      /\ \/ o.card = OnCard /\ o.win = win /\ o.wflag = wflag
         \/ o.card = Flushed /\ o.win \in {s, NoSect} /\ o.wflag = FALSE
  BY <1>0, AccessIs
<1>2. win' = o.win /\ wflag' = (o.wflag \/ d) /\ disk' = o.card.disk /\ cut' = o.card.cut
  BY DEF Moved
<1>3. wflag' \in BOOLEAN /\ (d => wflag') /\ (o.wflag => wflag')
  BY <1>0, <1>1, <1>2
<1>4. CASE o.card = OnCard /\ o.win = win /\ o.wflag = wflag
  <2>1. disk' = disk /\ cut' = cut /\ win' = win
    BY <1>2, <1>4 DEF OnCard
  <2>2. WindowTypes'
    BY <2>1, <1>3 DEF Types, WindowTypes
  <2> QED
    BY <2>1, <2>2, <1>1, <1>2, <1>3, <1>4 DEF Held
<1>5. CASE o.card = Flushed /\ o.win \in {s, NoSect} /\ o.wflag = FALSE
  <2>1. disk' = Flushed.disk /\ cut' = Flushed.cut /\ win' \in FatSecs \cup {Dir, Data, NoSect}
    BY <1>2, <1>5
  <2>2. WindowTypes'
    BY <2>1, <1>3, FlushTypes DEF WindowTypes, Types
  <2> QED
    BY <2>1, <2>2, <1>1, <1>2, <1>3, FlushTypes DEF Wrote
<1> QED
  BY <1>1, <1>4, <1>5

-----------------------------------------------------------------------------
(* The inductive invariant.                                                *)

\* What the window does not hold, or has not changed, is on the card.
Windows ==
  /\ ~wflag => disk = [fat |-> fat, ents |-> ents]
  /\ \A c \in Clus : FatSec[c] # win => disk.fat[c] = fat[c]
  /\ win # Dir => disk.ents = ents

\* The entry e of the file f leads to the clusters s and on.
Seen1(w, f, e, s) == \E o \in {Now(f), Old(f)} : Leads(w, o, e.start, e.size, s)

\* What the object of f leads to; while f_truncate runs, what it will lead to.
StartNow(f) == IF f \in Shrinking /\ fil[f].pos = 0 THEN 0 ELSE fil[f].sclust
SizeNow(f) == IF f \in Shrinking THEN fil[f].pos ELSE fil[f].size

\* f_lseek on f is in progress: its cursor means nothing until it arrives.
Seeking(f) == call.op = "lseek" /\ call.f = f

\* The object of an open file leads to its chain.
ObjectOk(w, f) == fil[f].open => Leads(w, Now(f), StartNow(f), SizeNow(f), snap[f])

\* The entry leads to the chain of the object, or to the one it led to before;
\* but f_truncate leaves it behind until f_sync.
EntryOk(w, f) == f \notin Shrinking /\ (~fil[f].open \/ f \notin cut \/ ~fil[f].mod) => Seen1(w, f, ents[f], snap[f])

\* clust is the cluster in place pos of the chain.
CursorOk(w, f) ==
  fil[f].open /\ ~Seeking(f) =>
    /\ fil[f].pos <= fil[f].size
    /\ fil[f].pos > 0 => /\ fil[f].clust \in Clus
                         /\ w.own[fil[f].clust] = Now(f) /\ w.idx[fil[f].clust] = fil[f].pos

FileOk(w, f) ==
  /\ ObjectOk(w, f) /\ EntryOk(w, f) /\ CursorOk(w, f)
  /\ f \in cut => snap[f] = << >>
  /\ fil[f].open => ents[f].used

\* A call has nothing in hand; one new cluster b, as place i; the rest of a chain
\* from b on.
NoHand(w) == \A c \in Clus : w.own[c] # Hand
Only(w, b, i) == /\ b \in Clus /\ w.own[b] = Hand /\ w.len[Hand] = i /\ w.idx[b] = i
                 /\ \A c \in Clus : w.own[c] = Hand => c = b
HandFrom(w, b) == /\ b \in Clus /\ w.own[b] = Hand
                  /\ \A c \in Clus : w.own[c] = Hand => w.idx[b] <= w.idx[c]

\* The object can be used.
Live(f) == fil[f].open /\ ~fil[f].err

\* The place create_chain goes on from, and whether it begins a chain.
Reached == IF call.op = "mkdir" \/ call.a = 0 THEN 0
           ELSE IF call.op = "write" THEN fil[call.f].pos ELSE fil[call.f].pos + 1
Fresh == call.a = 0 /\ ~(call.op = "write" /\ fil[call.f].sclust # 0)

\* create_chain has come back: with the cluster in the next place, the first one
\* of a new chain, the truth about a full volume, or an error.
Got(w, f) ==
  /\ call.r = Full => \A c \in Clus : fat[c] # 0
  /\ call.r \in Clus /\ Fresh => Only(w, call.r, 1)
  /\ ~(call.r \in Clus /\ Fresh) => NoHand(w)
  /\ call.r \in Clus /\ ~Fresh => w.own[call.r] = Now(f) /\ w.idx[call.r] = Reached + 1

\* A call that calls create_chain.
Growing(w, f) ==
  /\ call.op \in {"write", "lseek", "mkdir"} /\ call.pc \in {"chain", "link", "got"}
  /\ call.op = "mkdir" => ~fil[f].open /\ snap[f] = << >> /\ call.a = 0
  /\ call.op # "mkdir" => Live(f) /\ call.n >= 1
  /\ call.a = 0 /\ call.op # "mkdir" =>
       fil[f].pos = 0 /\ (fil[f].sclust # 0 => call.op = "write" /\ call.pc = "got")
  /\ call.a # 0 => w.own[call.a] = Now(f) /\ w.idx[call.a] = Reached /\ (call.op # "mkdir" => fil[f].sclust # 0)
  /\ call.op = "lseek" => call.a = fil[f].clust /\ (call.a # 0 => call.n >= 2)
  /\ call.pc = "chain" => NoHand(w)
  /\ call.pc = "link" => call.a # 0 /\ w.len[Now(f)] = w.idx[call.a] /\ Only(w, call.b, w.idx[call.a] + 1)
  /\ call.pc = "got" => Got(w, f)

\* A call that calls remove_chain.
Removing(w, f) ==
  /\ call.op \in {"create", "unlink", "truncate", "undo"} /\ call.pc \in {"cut", "free", "got"}
  /\ call.op = "create" => snap[f] = << >> /\ ~fil[f].open /\ ents[f].used /\ call.a # 0
  /\ call.op = "truncate" => Live(f) /\ f \in cut /\ fil[f].pos < fil[f].size
  /\ call.pc = "cut" => /\ call.op = "truncate" /\ NoHand(w)
                        /\ fil[f].pos > 0 /\ call.a = fil[f].clust
                        /\ call.b \in Clus /\ w.own[call.b] = Now(f) /\ w.idx[call.b] = fil[f].pos + 1
  /\ call.pc = "free" => HandFrom(w, call.b)
  /\ call.pc = "got" => NoHand(w)

\* f_expand is linking its row: what it has linked is nobody's yet.
Expanding(w, f) ==
  /\ call.op = "expand" /\ call.pc = "fill"
  /\ Live(f) /\ fil[f].size = 0 /\ NoHand(w)
  /\ call.a \in Clus /\ call.a <= call.b /\ call.n >= 1
  /\ \A c \in Clus : /\ call.a <= c /\ c < call.b => w.own[c] = Nobody /\ fat[c] = c + 1
                     /\ call.b <= c /\ c < call.b + call.n => fat[c] = 0

\* f_mkdir has its cluster and no entry yet.
Registering(w, f) ==
  /\ call.op = "mkdir" /\ call.pc = "register"
  /\ ~fil[f].open /\ snap[f] = << >> /\ Only(w, call.b, 1)

\* f_sync and f_close with the entry in the window.
Syncing(w, f) ==
  /\ call.op \in {"sync", "close"} /\ call.pc = "sync"
  /\ fil[f].open /\ win = Dir /\ wflag /\ NoHand(w)
  /\ ents[f] = FileEntry(fil[f].sclust, fil[f].size)

\* The last sync_fs of f_unlink and f_mkdir.
Ending(w) == call.op \in {"unlink", "mkdir"} /\ call.pc = "sync" /\ NoHand(w)

CallOk(w) ==
  \/ call = Idle /\ NoHand(w)
  \/ /\ call.f \in Files
     /\ \/ Growing(w, call.f) \/ Removing(w, call.f) \/ Expanding(w, call.f)
        \/ Registering(w, call.f) \/ Syncing(w, call.f) \/ Ending(w)

\* The card is sound by itself: a witness of its own for it.
CardIs(u) == Good(disk.fat, u) /\ \A f \in Files : f \notin cut => Seen1(u, f, disk.ents[f], snap[f])
CardOk == \E u : CardIs(u)

\* The inductive invariant, for the witness w.
Inv(w) ==
  /\ Types /\ Windows /\ CardOk /\ Good(fat, w)
  /\ \A f \in Files : FileOk(w, f)
  /\ CallOk(w)

IInv == \E w : Inv(w)

-----------------------------------------------------------------------------
(* The card.                                                               *)

\* Only the sector in the window can differ from the card, so that once it is
\* written the card is what a read sees.
LEMMA FlushIs ==
  ASSUME Types, Windows
  PROVE  Flushed.disk = [fat |-> fat, ents |-> ents]
<1>1. CASE ~wflag
  BY <1>1 DEF Flushed, OnCard, Windows
<1>2. CASE wflag
  <2> DEFINE F == [c \in Clus |-> IF FatSec[c] = win THEN fat[c] ELSE disk.fat[c]]
             E == IF win = Dir THEN ents ELSE disk.ents
  <2>1. F = fat
    BY DEF Types, Windows
  <2>2. E = ents
    BY DEF Windows
  <2>3. Flushed.disk = [fat |-> F, ents |-> E]
    BY <1>2 DEF Flushed
  <2> QED
    BY <2>1, <2>2, <2>3
<1> QED
  BY <1>1, <1>2

\* A step that changes the FAT or the directory has the sector in the window,
\* and leaves it dirty.
LEMMA WindowsNext ==
  ASSUME Types, Windows, Held \/ Wrote, WindowTypes',
         fat' \in [Clus -> Link],
         \A c \in Clus : fat'[c] # fat[c] => FatSec[c] = win' /\ wflag',
         ents' # ents => win' = Dir /\ wflag'
  PROVE  Windows'
<1>1. fat \in [Clus -> Link]
  BY DEF Types
<1>2. ~wflag' => fat' = fat /\ ents' = ents
  BY <1>1
<1>3. CASE Held
  <2>1. disk' = disk /\ win' = win /\ (~wflag' => ~wflag)
    BY <1>3 DEF Held
  <2> QED
    BY <1>2, <2>1 DEF Windows
<1>4. CASE Wrote
  <2>1. disk' = [fat |-> fat, ents |-> ents]
    BY <1>4, FlushIs DEF Wrote
  <2> QED
    BY <1>2, <2>1 DEF Windows
<1> QED
  BY <1>3, <1>4

\* f_truncate in progress, and its file.
LEMMA ShrinkingIs ==
  ASSUME NEW w, CallOk(w)
  PROVE  Shrinking \subseteq cut /\ \A f \in Files : f \in Shrinking <=> call.op = "truncate" /\ call.f = f
BY DEF CallOk, Shrinking, Idle, Growing, Removing, Expanding, Registering, Syncing, Ending

\* A file whose entry on the card is right after the window was written: its
\* entry in the directory is right.
LEMMA FlushSeen ==
  ASSUME NEW w, Inv(w), NEW f \in Files, f \notin Flushed.cut
  PROVE  Seen1(w, f, ents[f], snap[f])
<1>0. FileOk(w, f) /\ Shrinking \subseteq cut /\ (f \in Shrinking <=> call.op = "truncate" /\ call.f = f)
  BY ShrinkingIs DEF Inv
<1>1. CASE f \notin cut
  BY <1>0, <1>1 DEF FileOk, EntryOk
<1>2. CASE f \in cut
  <2>1. wflag /\ win = Dir /\ ~Stale(f)
    BY <1>2 DEF Flushed, OnCard
  <2>2. f \notin Shrinking
    BY <1>0, <2>1 DEF Stale
  <2>3. CASE ~fil[f].open
    BY <1>0, <2>2, <2>3 DEF FileOk, EntryOk
  <2>4. CASE fil[f].open
    <3>1. ents[f].start = fil[f].sclust /\ ents[f].size = fil[f].size
      BY <2>1, <2>4 DEF Stale
    <3>2. Leads(w, Now(f), fil[f].sclust, fil[f].size, snap[f])
      BY <1>0, <2>2, <2>4 DEF FileOk, ObjectOk, StartNow, SizeNow
    <3> QED
      BY <3>1, <3>2 DEF Seen1
  <2> QED
    BY <2>3, <2>4
<1> QED
  BY <1>1, <1>2

\* After a step that does no more to snap than to forget files.
LEMMA CardNext ==
  ASSUME NEW w, Inv(w), Held \/ Wrote,
         \A f \in Files : snap'[f] = snap[f] \/ snap'[f] = << >>
  PROVE  CardOk'
<1>1. ASSUME NEW u, NEW f \in Files, NEW e, Seen1(u, f, e, snap[f]) PROVE Seen1(u, f, e, snap'[f])
  <2>1. PICK o \in {Now(f), Old(f)} : Leads(u, o, e.start, e.size, snap[f])
    BY <1>1 DEF Seen1
  <2>2. Leads(u, o, e.start, e.size, << >>)
    <3>1. Len(<< >>) = 0 /\ 1 .. 0 = {}
      OBVIOUS
    <3> QED
      BY <2>1, <3>1 DEF Leads
  <2>3. Leads(u, o, e.start, e.size, snap'[f])
    BY <2>1, <2>2
  <2> QED
    BY <2>3 DEF Seen1
<1>2. CASE Held
  <2>1. PICK u : CardIs(u)
    BY DEF Inv, CardOk
  <2>2. disk' = disk /\ \A f \in Files : f \notin cut' => f \notin cut
    BY <1>2 DEF Held
  <2>3. Good(disk'.fat, u)
    BY <2>1, <2>2 DEF CardIs
  <2>4. \A f \in Files : f \notin cut' => Seen1(u, f, disk'.ents[f], snap'[f])
    BY <1>1, <2>1, <2>2 DEF CardIs
  <2> QED
    BY <2>3, <2>4 DEF CardOk, CardIs
<1>3. CASE Wrote
  <2>1. disk' = [fat |-> fat, ents |-> ents] /\ \A f \in Files : f \notin cut' => f \notin Flushed.cut
    BY <1>3, FlushIs DEF Wrote, Inv
  <2>2. Good(disk'.fat, w)
    BY <2>1 DEF Inv
  <2>3. \A f \in Files : f \notin cut' => Seen1(w, f, disk'.ents[f], snap'[f])
    BY <1>1, <2>1, FlushSeen
  <2> QED
    BY <2>2, <2>3 DEF CardOk, CardIs
<1> QED
  BY <1>2, <1>3

-----------------------------------------------------------------------------
(* What a step leaves alone.                                               *)

\* Nothing moved.
LEMMA CarrySame ==
  ASSUME NEW w, Typed(w), NEW o \in Tags
  PROVE  Carries(w, w, o, o)
BY DEF Typed, Carries

\* Carried chains are seen by the entries as before.
LEMMA CarrySeen ==
  ASSUME NEW w, NEW v, Typed(w), Typed(v), NEW f \in Files, NEW e, NEW s \in Seq(Clus),
         Carries(w, v, Now(f), Now(f)), Carries(w, v, Old(f), Old(f)), Seen1(w, f, e, s)
  PROVE  Seen1(v, f, e, s)
<1>1. PICK o \in {Now(f), Old(f)} : Leads(w, o, e.start, e.size, s)
  BY DEF Seen1
<1>2. o \in Tags /\ Carries(w, v, o, o) /\ e.size \in Nat
  BY <1>1, Tagging DEF Leads
<1>3. Leads(v, o, e.start, e.size, s)
  BY <1>1, <1>2, CarryLeads
<1> QED
  BY <1>1, <1>3 DEF Seen1

\* A file whose entry on the card will be right has the right entry in the window.
LEMMA SeenOnCard ==
  ASSUME NEW w, Inv(w), Held \/ Wrote, NEW f \in Files, f \notin cut'
  PROVE  Seen1(w, f, ents[f], snap[f])
<1>1. CASE Held
  <2>1. f \notin cut /\ f \notin Shrinking /\ FileOk(w, f)
    BY <1>1, ShrinkingIs DEF Held, Inv
  <2> QED
    BY <2>1 DEF FileOk, EntryOk
<1>2. CASE Wrote
  BY <1>2, FlushSeen DEF Wrote
<1> QED
  BY <1>1, <1>2

\* Nothing happens to the file g.
Alike(g) ==
  /\ fil'[g] = fil[g] /\ ents'[g] = ents[g] /\ snap'[g] = snap[g] /\ (g \in cut' => g \in cut)
  /\ (g \in Shrinking)' <=> g \in Shrinking
  /\ Seeking(g) => Seeking(g)'

\* A file nothing happens to stays right.
LEMMA FileStays ==
  ASSUME NEW w, Inv(w), NEW v, Typed(v), NEW g \in Files, Held \/ Wrote, Alike(g),
         Carries(w, v, Now(g), Now(g)), Carries(w, v, Old(g), Old(g))
  PROVE  FileOk(v, g)'
<1>1. /\ Typed(w) /\ FileOk(w, g) /\ snap[g] \in Seq(Clus) /\ Now(g) \in Tags /\ Old(g) \in Tags
      /\ fil[g].pos \in Nat /\ fil[g].size \in Nat /\ fil[g].open \in BOOLEAN /\ fil[g].mod \in BOOLEAN
  BY Tagging DEF Inv, Good, Types, Object
<1>2. /\ fil'[g] = fil[g] /\ ents'[g] = ents[g] /\ snap'[g] = snap[g] /\ (g \in cut' => g \in cut)
      /\ StartNow(g)' = StartNow(g) /\ SizeNow(g)' = SizeNow(g)
      /\ (g \notin Shrinking)' <=> g \notin Shrinking
  BY DEF Alike, StartNow, SizeNow
<1>3. ObjectOk(v, g)'
  <2>1. SUFFICES ASSUME fil[g].open PROVE Leads(v, Now(g), StartNow(g), SizeNow(g), snap[g])
    BY <1>2 DEF ObjectOk
  <2>2. Leads(w, Now(g), StartNow(g), SizeNow(g), snap[g]) /\ SizeNow(g) \in Nat
    BY <1>1, <2>1 DEF FileOk, ObjectOk, SizeNow
  <2> QED
    BY <1>1, <2>2, CarryLeads
<1>4. EntryOk(v, g)'
  <2>1. SUFFICES ASSUME g \notin Shrinking, ~fil[g].open \/ g \notin cut' \/ ~fil[g].mod
                 PROVE  Seen1(v, g, ents[g], snap[g])
    BY <1>2 DEF EntryOk
  <2>2. Seen1(w, g, ents[g], snap[g])
    <3>1. CASE g \notin cut'
      BY <3>1, SeenOnCard
    <3>2. CASE ~fil[g].open \/ ~fil[g].mod
      BY <3>2, <2>1, <1>1 DEF FileOk, EntryOk
    <3> QED
      BY <2>1, <3>1, <3>2
  <2> QED
    BY <1>1, <2>2, CarrySeen
<1>5. CursorOk(v, g)'
  <2>1. SUFFICES ASSUME fil[g].open, ~Seeking(g)
                 PROVE  /\ fil[g].pos <= fil[g].size
                        /\ fil[g].pos > 0 => /\ fil[g].clust \in Clus
                                             /\ v.own[fil[g].clust] = Now(g) /\ v.idx[fil[g].clust] = fil[g].pos
    BY <1>2 DEF CursorOk, Alike
  <2>2. /\ fil[g].pos <= fil[g].size
        /\ fil[g].pos > 0 => /\ fil[g].clust \in Clus
                             /\ w.own[fil[g].clust] = Now(g) /\ w.idx[fil[g].clust] = fil[g].pos
    BY <1>1, <2>1 DEF FileOk, CursorOk
  <2> QED
    BY <2>2 DEF Carries
<1> QED
  BY <1>1, <1>2, <1>3, <1>4, <1>5 DEF FileOk

\* The FAT and the directory change in the window only.
InWindow ==
  /\ \A c \in Clus : fat'[c] # fat[c] => FatSec[c] = win' /\ wflag'
  /\ ents' # ents => win' = Dir /\ wflag'

\* A step after which the clusters are owned as v says, and that only changes
\* the files of S.
LEMMA Onward ==
  ASSUME NEW w, Inv(w), NEW v, NEW S,
         Types', Held \/ Wrote, InWindow, CardOk', Good(fat', v),
         \A g \in Files : g \notin S => Alike(g) /\ Carries(w, v, Now(g), Now(g)) /\ Carries(w, v, Old(g), Old(g)),
         \A f \in Files : f \in S => FileOk(v, f)',
         CallOk(v)'
  PROVE  IInv'
<1>1. Windows'
  BY WindowsNext DEF Inv, InWindow, Types
<1>2. ASSUME NEW g \in Files PROVE FileOk(v, g)'
  <2>1. CASE g \in S
    BY <2>1
  <2>2. CASE g \notin S
    BY <2>2, FileStays DEF Good
  <2> QED
    BY <2>1, <2>2
<1>3. Inv(v)'
  BY <1>1, <1>2 DEF Inv
<1> QED
  BY <1>3 DEF IInv

\* A step that only moves the call on.
LEMMA Quiet ==
  ASSUME NEW w, Inv(w), NEW v,
         Types', Held \/ Wrote, InWindow, Good(fat', v),
         \A g \in Files : Alike(g) /\ Carries(w, v, Now(g), Now(g)) /\ Carries(w, v, Old(g), Old(g)),
         CallOk(v)'
  PROVE  IInv'
<1>1. CardOk'
  <2>1. \A f \in Files : snap'[f] = snap[f] \/ snap'[f] = << >>
    BY DEF Alike
  <2> QED
    BY <2>1, CardNext
<1> DEFINE S == {}
<1>2. \A g \in Files : g \notin S => Alike(g) /\ Carries(w, v, Now(g), Now(g)) /\ Carries(w, v, Old(g), Old(g))
  OBVIOUS
<1>3. \A f \in Files : f \in S => FileOk(v, f)'
  OBVIOUS
<1> HIDE DEF S
<1> QED
  BY <1>1, <1>2, <1>3, Onward

-----------------------------------------------------------------------------
(* create_chain.                                                           *)

\* create_chain: the place of the search.
LEMMA SearchPlace ==
  ASSUME Types, NEW a \in {0} \cup Clus
  PROVE  SearchFrom(a) \in Nat /\ 1 <= SearchFrom(a) /\ SearchFrom(a) < NFatEnt
BY Numbers DEF SearchFrom, Types, NoHint

\* Where the entry of a cluster is.
LEMMA SectorOf ==
  ASSUME NEW c \in Clus
  PROVE  FatSec[c] \in FatSecs \cup {Dir, Data}
BY DEF FatSecs

\* FSINFO after an allocation.
LEMMA TakenTypes ==
  ASSUME Types, NEW c \in Clus, Taken(c)
  PROVE  last' \in Clus /\ free' \in Int /\ Unknown <= free' /\ free' <= NClust + 1
BY Numbers DEF Taken, Types, Unknown

\* The parts of a call.
LEMMA CallTypes ==
  ASSUME Types
  PROVE  /\ call.op \in Ops /\ call.f \in Files \cup {NoFile} /\ call.pc \in Pcs
         /\ call.a \in {0} \cup Clus /\ call.b \in {0, EOC} \cup Clus /\ call.n \in Nat /\ call.r \in Int
BY DEF Types, Call

\* create_chain or remove_chain has come back.
LEMMA BackTypes ==
  ASSUME Types, NEW r \in Int, Back(r)
  PROVE  /\ call' \in Call /\ call'.op = call.op /\ call'.f = call.f /\ call'.pc = "got"
         /\ call'.a = call.a /\ call'.n = call.n /\ call'.r = r
<1>1. call' = [call EXCEPT !.pc = "got", !.b = 0, !.r = r]
  BY DEF Back, Goto
<1>2. call = [op |-> call.op, f |-> call.f, pc |-> call.pc, a |-> call.a, b |-> call.b, n |-> call.n, r |-> call.r]
  BY DEF Types, Call
<1>3. call' = [op |-> call.op, f |-> call.f, pc |-> "got", a |-> call.a, b |-> 0, n |-> call.n, r |-> r]
  BY <1>1, <1>2
<1>4. call.op \in Ops /\ call.f \in Files \cup {NoFile} /\ call.a \in {0} \cup Clus /\ call.n \in Nat
  BY CallTypes
<1>7. "got" \in Pcs
  BY DEF Pcs
<1>6. 0 \in {0, EOC} \cup Clus
  OBVIOUS
<1>5. call' \in Call
  BY <1>3, <1>4, <1>6, <1>7 DEF Call
<1> QED
  BY <1>3, <1>5

\* The call that goes on to link the cluster b.
LEMMA LinkTypes ==
  ASSUME Types, NEW b \in Clus, call' = [call EXCEPT !.pc = "link", !.b = b]
  PROVE  /\ call' \in Call /\ call'.op = call.op /\ call'.f = call.f /\ call'.pc = "link"
         /\ call'.a = call.a /\ call'.n = call.n /\ call'.b = b
<1>2. call = [op |-> call.op, f |-> call.f, pc |-> call.pc, a |-> call.a, b |-> call.b, n |-> call.n, r |-> call.r]
  BY DEF Types, Call
<1>3. call' = [op |-> call.op, f |-> call.f, pc |-> "link", a |-> call.a, b |-> b, n |-> call.n, r |-> call.r]
  BY <1>2
<1>4. call.op \in Ops /\ call.f \in Files \cup {NoFile} /\ call.a \in {0} \cup Clus /\ call.n \in Nat /\ call.r \in Int
  BY CallTypes
<1>5. b \in {0, EOC} \cup Clus
  OBVIOUS
<1>6. "link" \in Pcs
  BY DEF Pcs
<1> QED
  BY <1>3, <1>4, <1>5, <1>6 DEF Call

\* The results of create_chain.
LEMMA DiskErrIs == DiskErr \in Int /\ DiskErr \notin Clus /\ DiskErr # Full /\ IntErr \in Int /\ Full \in Int
BY Numbers DEF DiskErr, Full, IntErr

\* What holds of files when a step changes none of fil, ents and snap and the
\* call goes on or returns from another call than f_truncate and f_lseek.
LEMMA FilesAlike ==
  ASSUME UNCHANGED <<fil, ents, snap>>, cut' \subseteq cut,
         \/ call'.op = call.op /\ call'.f = call.f
         \/ call.op \notin {"truncate", "lseek"} /\ call'.op # "truncate"
  PROVE  \A g \in Files : Alike(g)
BY DEF Alike, Shrinking, Seeking

\* The search ends in a sector it has read.
LEMMA SearchEnds ==
  ASSUME NEW s \in Nat, 1 <= s, s < NFatEnt, NEW i \in 1 .. NClust, NEW T
  PROVE  FatSec[After(s, i)] \in FatSecs /\ FatSec[After(s, i)] \in T \cup Seen(s, i)
BY AfterInside DEF Seen, FatSecs

\* A chain whose last link is an end of chain has no further place.
LEMMA EndOfChain ==
  ASSUME NEW t, NEW w, Good(t, w), NEW a \in Clus, w.own[a] # Nobody
  PROVE  /\ t[a] \notin Clus => t[a] = EOC /\ w.len[w.own[a]] = w.idx[a]
         /\ t[a] \in Clus => w.own[t[a]] = w.own[a] /\ w.idx[t[a]] = w.idx[a] + 1 /\ w.idx[a] < w.len[w.own[a]]
         /\ t[a] \in Clus \/ t[a] = EOC
<1>1. InPlace(t, w, a) /\ w.len[w.own[a]] \in Nat /\ w.idx[a] \in Nat
  BY DEF Good, Typed
<1> QED
  BY <1>1, Numbers DEF InPlace

\* A free cluster is nobody's.
LEMMA FreeIsNobodys ==
  ASSUME NEW t, NEW w, Good(t, w), NEW b \in Clus, t[b] = 0
  PROVE  w.own[b] = Nobody
BY EndOfChain, Numbers

-----------------------------------------------------------------------------

\* create_chain comes back with what it has got.
LEMMA ChainBack ==
  ASSUME NEW w, Inv(w), NEW v, NEW f \in Files, NEW r \in Int, f = call.f, Growing(w, f), call.pc # "got",
         UNCHANGED <<ents, fil, snap>>, Types', Held \/ Wrote, cut' \subseteq cut, InWindow,
         Good(fat', v), \A g \in Files : Carries(w, v, Now(g), Now(g)) /\ Carries(w, v, Old(g), Old(g)),
         Back(r), Got(v, f)'
  PROVE  IInv'
<1>1. /\ call'.op = call.op /\ call'.f = call.f /\ call'.pc = "got"
      /\ call'.a = call.a /\ call'.n = call.n
  BY BackTypes DEF Inv
<1>2. Reached' = Reached
  BY <1>1 DEF Reached
<1>3. call.a # 0 => v.own[call.a] = Now(f) /\ v.idx[call.a] = Reached
  <2>1. call.a # 0 => call.a \in Clus /\ w.own[call.a] = Now(f) /\ w.idx[call.a] = Reached
    BY CallTypes DEF Growing, Inv
  <2> QED
    BY <2>1 DEF Carries
<1>4. Growing(v, f)'
  BY <1>1, <1>2, <1>3 DEF Growing, Live
<1>5. CallOk(v)'
  BY <1>1, <1>4 DEF CallOk
<1>6. \A g \in Files : Alike(g)
  BY <1>1, FilesAlike
<1> QED
  BY <1>5, <1>6, Quiet

\* create_chain looks for a cluster: what follows is followed, a free one is in
\* hand, a full volume is known to be full.
LEMMA ChainFindStep ==
  ASSUME NEW w, Inv(w), ChainFind
  PROVE  IInv'
<1>0. PICK f \in Files : f = call.f
  BY DEF ChainFind, Inv, CallOk, Idle
<1> DEFINE a == call.a
           here == IF a = 0 THEN {} ELSE {FatSec[a]}
           next == IF a = 0 THEN EOC ELSE fat[a]
           s == SearchFrom(a)
           i == FreeAt(s)
           c == After(s, i)
<1>1. /\ Types /\ Good(fat, w) /\ Typed(w) /\ f = call.f /\ Growing(w, f) /\ call.pc = "chain" /\ NoHand(w)
      /\ a \in {0} \cup Clus /\ FileOk(w, f)
  BY <1>0, CallTypes DEF ChainFind, Inv, Good, CallOk, Idle, Removing, Expanding, Registering, Syncing, Ending, Growing
<1>2. UNCHANGED <<ents, fil, snap, crashes>>
  BY DEF ChainFind, hist, budget
<1>10. UNCHANGED <<ents, fil, snap>> /\ f = call.f /\ call.pc # "got"
  BY <1>1, <1>2
<1>3. s \in Nat /\ 1 <= s /\ s < NFatEnt
  BY <1>1, SearchPlace
<1>4. \A g \in Files : Now(g) \in Tags /\ Old(g) \in Tags /\ Now(g) # Hand /\ Old(g) # Hand
  BY Tagging
<1>9. \A g \in Files : Carries(w, w, Now(g), Now(g)) /\ Carries(w, w, Old(g), Old(g))
  BY <1>1, <1>4, CarrySame
<1>5. CASE /\ next < EOC
           /\ \E o \in GetFat(a) :
                 /\ Moved(o, FALSE)
                 /\ Back(IF ~o.ok THEN DiskErr ELSE IF next < 2 THEN IntErr ELSE next)
           /\ UNCHANGED <<fat, last, free>>
  <2>1. a # 0 /\ a \in Clus /\ next = fat[a]
    BY <1>1, <1>5, Numbers
  <2>2. PICK o \in GetFat(a) : /\ Moved(o, FALSE)
                               /\ Back(IF ~o.ok THEN DiskErr ELSE IF next < 2 THEN IntErr ELSE next)
    BY <1>5
  <2>3. o.ok \in BOOLEAN /\ WindowTypes' /\ (Held \/ Wrote) /\ cut' \subseteq cut
    <3> DEFINE q == FatSec[a]
               S == {q}
               d == FALSE
    <3>1. o \in MoveWindow(S, q)
      BY <2>2 DEF GetFat, Load
    <3>2. q \in FatSecs \cup {Dir, Data} /\ q \in S /\ d \in BOOLEAN /\ Moved(o, d)
      BY <2>1, <2>2, SectorOf
    <3> HIDE DEF q, S, d
    <3> QED
      BY <1>1, <3>1, <3>2, MovedIs
  <2>4. next \in Clus /\ w.own[next] = Now(f) /\ w.idx[next] = Reached + 1
    <3>1. w.own[a] = Now(f) /\ w.idx[a] = Reached
      BY <1>1, <2>1 DEF Growing
    <3>2. InPlace(fat, w, a)
      BY <1>1, <2>1, <3>1, Tagging DEF Good
    <3> QED
      BY <1>5, <2>1, <3>1, <3>2, Numbers DEF InPlace
  <2> DEFINE r == IF ~o.ok THEN DiskErr ELSE next
  <2>5. Back(r) /\ r \in Int /\ (r = DiskErr \/ r = next)
    BY <2>2, <2>4, Numbers, DiskErrIs
  <2>6. /\ call' \in Call /\ call'.op = call.op /\ call'.f = call.f /\ call'.pc = "got"
        /\ call'.a = call.a /\ call'.n = call.n /\ call'.r = r
    BY <1>1, <2>5, BackTypes
  <2> HIDE DEF r, next
  <2>7. Types'
    BY <1>1, <1>2, <1>5, <2>3, <2>6 DEF Types, Removing
  <2>8. Got(w, f)'
    <3>1. Reached' = Reached /\ ~Fresh'
      BY <1>2, <2>1, <2>6 DEF Reached, Fresh
    <3> QED
      BY <1>1, <2>4, <2>5, <2>6, <3>1, DiskErrIs, Numbers DEF Got, NoHand
  <2>10. InWindow /\ Good(fat', w)
    BY <1>1, <1>2, <1>5 DEF InWindow
  <2> QED
    BY <1>1, <1>10, <1>9, <2>3, <2>5, <2>7, <2>8, <2>10, ChainBack
<1>6. ASSUME NEW o, NEW S, NEW z \in FatSecs, z \in S, o \in MoveWindow(S, z), Moved(o, FALSE), NEW r \in Int, r \notin Clus, Back(r),
             r = Full => \A x \in Clus : fat[x] # 0, UNCHANGED <<fat, last, free>>
      PROVE  IInv'
  <2>3. o.ok \in BOOLEAN /\ WindowTypes' /\ (Held \/ Wrote) /\ cut' \subseteq cut
    BY <1>1, <1>6, MovedIs
  <2>6. /\ call' \in Call /\ call'.op = call.op /\ call'.f = call.f /\ call'.pc = "got"
        /\ call'.a = call.a /\ call'.n = call.n /\ call'.r = r
    BY <1>1, <1>6, BackTypes
  <2>7. Types'
    BY <1>1, <1>2, <1>6, <2>3, <2>6 DEF Types
  <2>8. Got(w, f)'
    BY <1>1, <1>6, <2>6 DEF Got, NoHand
  <2>10. InWindow /\ Good(fat', w)
    BY <1>1, <1>2, <1>6 DEF InWindow
  <2> QED
    BY <1>1, <1>10, <1>6, <1>9, <2>3, <2>7, <2>8, <2>10, ChainBack
<1>7. CASE /\ next >= EOC /\ i = 0
           /\ \E o \in MoveWindow(here \cup Seen(s, NClust), FatSec[After(s, NClust)]) :
                 Moved(o, FALSE) /\ Back(IF o.ok THEN Full ELSE DiskErr)
           /\ UNCHANGED <<fat, last, free>>
  <2>1. NClust \in 1 .. NClust
    BY Numbers
  <2>2. FatSec[After(s, NClust)] \in FatSecs /\ FatSec[After(s, NClust)] \in here \cup Seen(s, NClust)
    BY <1>3, <2>1, SearchEnds
  <2>3. \A x \in Clus : fat[x] # 0
    BY <1>3, <1>7, FreeSearch
  <2> DEFINE S == here \cup Seen(s, NClust)
             z == FatSec[After(s, NClust)]
  <2>4. PICK o \in MoveWindow(S, z) : Moved(o, FALSE) /\ Back(IF o.ok THEN Full ELSE DiskErr)
    BY <1>7
  <2> DEFINE r == IF o.ok THEN Full ELSE DiskErr
  <2>5. r \in Int /\ r \notin Clus
    BY DiskErrIs, Numbers
  <2>6. z \in FatSecs /\ z \in S /\ Back(r)
    BY <2>2, <2>4
  <2> HIDE DEF r, S, z, s, i, a
  <2> QED
    BY <1>6, <1>7, <2>3, <2>4, <2>5, <2>6
<1>8. CASE /\ next >= EOC /\ i # 0
           /\ \E o \in MoveWindow(here \cup Seen(s, i), FatSec[c]) :
                 /\ Moved(o, o.ok)
                 /\ PutFat(o, c, EOC)
                 /\ \/ ~o.ok /\ Back(DiskErr) /\ UNCHANGED <<last, free>>
                    \/ o.ok /\ a = 0 /\ Back(c) /\ Taken(c)
                    \/ o.ok /\ a # 0 /\ Goto([call EXCEPT !.pc = "link", !.b = c])
                       /\ UNCHANGED <<last, free>>
  <2>1. i \in 1 .. NClust /\ c \in Clus /\ fat[c] = 0
    BY <1>3, <1>8, FreeSearch
  <2> DEFINE S == here \cup Seen(s, i)
             z == FatSec[c]
  <2>2. z \in FatSecs /\ z \in S
    BY <1>3, <2>1, SearchEnds
  <2>3. PICK o \in MoveWindow(S, z) :
                 /\ Moved(o, o.ok)
                 /\ PutFat(o, c, EOC)
                 /\ \/ ~o.ok /\ Back(DiskErr) /\ UNCHANGED <<last, free>>
                    \/ o.ok /\ a = 0 /\ Back(c) /\ Taken(c)
                    \/ o.ok /\ a # 0 /\ Goto([call EXCEPT !.pc = "link", !.b = c])
                       /\ UNCHANGED <<last, free>>
    BY <1>8
  <2> HIDE DEF S, i, s, c
  <2>4. o.ok \in BOOLEAN
    <3>1. wflag \in BOOLEAN /\ o \in MoveWindow(S, z) /\ z \in S
      BY <1>1, <2>2, <2>3 DEF Types, WindowTypes
    <3> HIDE DEF z
    <3> QED
      BY <3>1, AccessIs
  <2>5. CASE ~o.ok
    <3>1. Moved(o, FALSE) /\ fat' = fat /\ UNCHANGED <<last, free>> /\ Back(DiskErr)
      <4>1. o.ok = FALSE
        BY <2>4, <2>5
      <4> QED
        BY <2>3, <4>1 DEF PutFat
    <3>2. UNCHANGED <<fat, last, free>> /\ DiskErr \in Int /\ DiskErr \notin Clus /\ DiskErr # Full
      BY <3>1, DiskErrIs
    <3> HIDE DEF z
    <3> QED
      BY <1>6, <2>2, <2>3, <3>1, <3>2
  <2>6. CASE o.ok
    <3>1. Moved(o, TRUE) /\ fat' = [fat EXCEPT ![c] = EOC]
      <4>1. o.ok = TRUE
        BY <2>4, <2>6
      <4> QED
        BY <2>3, <4>1 DEF PutFat
    <3>2. WindowTypes' /\ (Held \/ Wrote) /\ cut' \subseteq cut /\ win' = FatSec[c] /\ wflag'
      BY <1>1, <2>2, <2>3, <2>6, <3>1, MovedIs
    <3>3. fat' \in [Clus -> Link] /\ fat'[c] = EOC /\ \A x \in Clus : x # c => fat'[x] = fat[x]
      BY <1>1, <2>1, <3>1, ClusLink DEF Types
    <3>4. InWindow
      BY <1>2, <3>2, <3>3 DEF InWindow
    <3>5. w.own[c] = Nobody
      BY <1>1, <2>1, FreeIsNobodys
    <3> DEFINE j == IF a = 0 THEN 1 ELSE w.idx[a] + 1
    <3>6. j \in Nat /\ j >= 1
      BY <1>1 DEF Typed
    <3> HIDE DEF j
    <3>7. PICK v : /\ Good(fat', v)
                   /\ v.own[c] = Hand /\ v.idx[c] = j /\ v.len[Hand] = j
                   /\ \A x \in Clus : x # c => v.own[x] = w.own[x] /\ v.idx[x] = w.idx[x]
                   /\ \A p \in Tags : p # Hand => v.len[p] = w.len[p]
      BY <1>1, <2>1, <3>3, <3>5, <3>6, AllocGood DEF NoHand
    <3>8. \A g \in Files : Carries(w, v, Now(g), Now(g)) /\ Carries(w, v, Old(g), Old(g))
      BY <1>1, <1>4, <3>5, <3>7, Tagging DEF Carries, Typed
    <3>9. Only(v, c, j)
      BY <1>1, <2>1, <3>7 DEF Only, NoHand
    <3>10. CASE a = 0
      <4>1. Back(c) /\ Taken(c) /\ c \in Int
        BY <2>1, <2>3, <2>6, <3>10, Numbers
      <4>2. last' \in Clus /\ free' \in Int /\ Unknown <= free' /\ free' <= NClust + 1
        BY <1>1, <2>1, <4>1, TakenTypes
      <4>3. /\ call' \in Call /\ call'.op = call.op /\ call'.f = call.f /\ call'.pc = "got"
            /\ call'.a = call.a /\ call'.n = call.n /\ call'.r = c
        BY <1>1, <4>1, BackTypes
      <4>4. Types'
        BY <1>1, <1>2, <3>2, <3>3, <4>2, <4>3 DEF Types
      <4>5. c # Full /\ Fresh' /\ j = 1
        BY <1>1, <1>2, <2>1, <3>10, <4>3, Numbers DEF Fresh, Growing, j
      <4>6. Got(v, f)'
        BY <2>1, <3>9, <4>3, <4>5 DEF Got, Only
      <4> QED
        BY <1>1, <1>10, <4>1, <4>4, <4>6, <3>2, <3>4, <3>7, <3>8, ChainBack
    <3>11. CASE a # 0
      <4>1. Goto([call EXCEPT !.pc = "link", !.b = c]) /\ UNCHANGED <<last, free>>
        BY <2>3, <2>6, <3>11
      <4>2. /\ call' \in Call /\ call'.op = call.op /\ call'.f = call.f /\ call'.pc = "link"
            /\ call'.a = call.a /\ call'.n = call.n /\ call'.b = c
        BY <1>1, <2>1, <4>1, LinkTypes DEF Goto
      <4>3. Types'
        BY <1>1, <1>2, <3>2, <3>3, <4>1, <4>2 DEF Types
      <4>4. w.own[a] = Now(f) /\ w.idx[a] = Reached /\ a \in Clus
        BY <1>1, <3>11 DEF Growing
      <4>5. fat[a] \notin Clus
        BY <1>8, <3>11, Numbers
      <4>6. w.len[Now(f)] = w.idx[a]
        BY <1>1, <4>4, <4>5, EndOfChain, Tagging
      <4>7. v.own[a] = Now(f) /\ v.idx[a] = w.idx[a] /\ v.len[Now(f)] = v.idx[a]
        BY <1>4, <3>7, <3>8, <4>4, <4>6 DEF Carries
      <4>8. Reached' = Reached
        BY <1>2, <4>2 DEF Reached
      <4>9. Only(v, c, v.idx[a] + 1)
        BY <3>9, <3>11, <4>7 DEF j
      <4>10. Growing(v, f)'
        BY <1>1, <1>2, <3>11, <4>2, <4>4, <4>7, <4>8, <4>9 DEF Growing, Live, Only
      <4>11. CallOk(v)'
        BY <1>1, <4>2, <4>10 DEF CallOk
      <4>12. \A g \in Files : Alike(g)
        BY <1>10, <3>2, <4>2, FilesAlike
      <4> QED
        BY <3>2, <3>4, <3>7, <3>8, <4>3, <4>11, <4>12, Quiet
    <3> QED
      BY <3>10, <3>11
  <2> QED
    BY <2>5, <2>6, <2>4
<1> QED
  BY <1>5, <1>7, <1>8 DEF ChainFind

\* The accesses of create_chain and remove_chain to the entry of a cluster c.
LEMMA EntryAccess ==
  ASSUME Types, NEW c \in Clus, NEW o \in GetFat(c), NEW d \in BOOLEAN, Moved(o, d)
  PROVE  /\ o.ok \in BOOLEAN /\ WindowTypes' /\ (Held \/ Wrote) /\ cut' \subseteq cut
         /\ o.ok => win' = FatSec[c]
         /\ d => wflag'
BY MovedIs, SectorOf DEF GetFat, Load

\* An access to a FAT entry succeeds or fails.
LEMMA EntryOkIs ==
  ASSUME Types, NEW c \in Clus, NEW o \in GetFat(c)
  PROVE  o.ok \in BOOLEAN
<1>1. wflag \in BOOLEAN /\ FatSec[c] \in {FatSec[c]}
  BY DEF Types, WindowTypes
<1> QED
  BY <1>1, AccessIs DEF GetFat, Load

\* put_fat changes one entry, in the window.
LEMMA PutFatIs ==
  ASSUME Types, NEW c \in Clus, NEW v \in Link, fat' = [fat EXCEPT ![c] = v], win' = FatSec[c], wflag', ents' = ents
  PROVE  /\ fat' \in [Clus -> Link] /\ fat'[c] = v /\ \A x \in Clus : x # c => fat'[x] = fat[x]
         /\ InWindow
<1>1. fat' \in [Clus -> Link] /\ fat'[c] = v /\ \A x \in Clus : x # c => fat'[x] = fat[x]
  BY DEF Types
<1> QED
  BY <1>1 DEF InWindow

\* The FAT and the directory stay.
LEMMA SameFat ==
  ASSUME fat' = fat, ents' = ents
  PROVE  InWindow
BY DEF InWindow

\* The cluster in hand, or all of them, is given up.
LEMMA DropHand ==
  ASSUME NEW t, NEW w, Good(t, w)
  PROVE  \E v : /\ Good(t, v) /\ NoHand(v)
                /\ \A g \in Files : Carries(w, v, Now(g), Now(g)) /\ Carries(w, v, Old(g), Old(g))
<1>1. PICK v : /\ Good(t, v)
               /\ \A c \in Clus : v.idx[c] = w.idx[c]
               /\ \A c \in Clus : w.own[c] = Hand => v.own[c] = Nobody
               /\ \A c \in Clus : w.own[c] # Hand => v.own[c] = w.own[c]
               /\ \A o \in Tags : o # Nobody => v.len[o] = w.len[o]
  BY DropGood, Tagging
<1>2. NoHand(v)
  BY <1>1, Tagging DEF NoHand
<1>3. \A g \in Files : Now(g) \in Tags /\ Old(g) \in Tags /\ Now(g) # Hand /\ Old(g) # Hand /\ Now(g) # Nobody /\ Old(g) # Nobody
  BY Tagging
<1>4. Typed(w)
  BY DEF Good
<1>5. \A g \in Files : Carries(w, v, Now(g), Now(g)) /\ Carries(w, v, Old(g), Old(g))
  BY <1>1, <1>3, <1>4 DEF Carries, Typed
<1> QED
  BY <1>1, <1>2, <1>5

\* create_chain links its new cluster to the last one of the chain.
LEMMA ChainLinkStep ==
  ASSUME NEW w, Inv(w), ChainLink
  PROVE  IInv'
<1>0. PICK f \in Files : f = call.f
  BY DEF ChainLink, Inv, CallOk, Idle
<1> DEFINE a == call.a
           b == call.b
<1>1. /\ Types /\ Good(fat, w) /\ Typed(w) /\ f = call.f /\ Growing(w, f) /\ call.pc = "link"
      /\ a \in {0} \cup Clus
  BY <1>0, CallTypes DEF ChainLink, Inv, Good, CallOk, Idle, Removing, Expanding, Registering, Syncing, Ending, Growing
<1>2. UNCHANGED <<ents, fil, snap, crashes>>
  BY DEF ChainLink, hist, budget
<1>3. UNCHANGED <<ents, fil, snap>> /\ f = call.f /\ call.pc # "got"
  BY <1>1, <1>2
<1>4. /\ a \in Clus /\ w.own[a] = Now(f) /\ w.idx[a] = Reached /\ w.len[Now(f)] = w.idx[a]
      /\ b \in Clus /\ w.own[b] = Hand /\ w.len[Hand] = w.idx[a] + 1 /\ w.idx[b] = w.idx[a] + 1
      /\ \A c \in Clus : w.own[c] = Hand => c = b
  BY <1>1 DEF Growing, Only
<1>5. PICK o \in GetFat(a) :
       /\ Moved(o, o.ok)
       /\ PutFat(o, a, b)
       /\ \/ o.ok /\ Back(b) /\ Taken(b)
          \/ ~o.ok /\ Back(DiskErr) /\ UNCHANGED <<last, free>>
  BY DEF ChainLink
<1>6. o.ok \in BOOLEAN
  BY <1>1, <1>4, EntryOkIs
<1>7. WindowTypes' /\ (Held \/ Wrote) /\ cut' \subseteq cut /\ (o.ok => win' = FatSec[a] /\ wflag')
  BY <1>1, <1>4, <1>5, <1>6, EntryAccess
<1>8. CASE ~o.ok
  <2>1. UNCHANGED <<fat, last, free>> /\ Back(DiskErr) /\ DiskErr \in Int
    BY <1>5, <1>8, DiskErrIs DEF PutFat
  <2>2. PICK v : /\ Good(fat, v) /\ NoHand(v)
                 /\ \A g \in Files : Carries(w, v, Now(g), Now(g)) /\ Carries(w, v, Old(g), Old(g))
    BY <1>1, DropHand
  <2>3. /\ call' \in Call /\ call'.r = DiskErr
    BY <1>1, <2>1, BackTypes
  <2>4. Types'
    BY <1>1, <1>2, <1>7, <2>1, <2>3 DEF Types
  <2>5. Got(v, f)'
    BY <2>2, <2>3, DiskErrIs DEF Got, NoHand
  <2>6. InWindow /\ Good(fat', v)
    BY <1>2, <2>1, <2>2, SameFat
  <2> QED
    BY <1>1, <1>3, <1>7, <2>1, <2>2, <2>4, <2>5, <2>6, ChainBack
<1>9. CASE o.ok
  <2>1. fat' = [fat EXCEPT ![a] = b] /\ Back(b) /\ Taken(b) /\ b \in Int /\ b \in Link
    BY <1>4, <1>5, <1>9, Numbers, ClusLink DEF PutFat
  <2>2. fat' \in [Clus -> Link] /\ fat'[a] = b /\ (\A x \in Clus : x # a => fat'[x] = fat[x]) /\ InWindow
    BY <1>1, <1>2, <1>4, <1>7, <1>9, <2>1, PutFatIs
  <2>3. Now(f) \in Tags /\ Now(f) # Nobody /\ Now(f) # Hand
    BY Tagging
  <2>4. PICK v : /\ Good(fat', v)
                 /\ v.own[b] = Now(f) /\ v.len[Now(f)] = w.len[Now(f)] + 1
                 /\ \A c \in Clus : v.idx[c] = w.idx[c] /\ (c # b => v.own[c] = w.own[c])
                 /\ \A p \in Tags : p # Now(f) => v.len[p] = w.len[p]
    <3>1. w.idx[a] = w.len[Now(f)] /\ w.idx[b] = w.len[Now(f)] + 1 /\ w.len[Hand] = w.len[Now(f)] + 1
      BY <1>4
    <3> HIDE DEF a, b
    <3> QED
      BY <1>1, <1>4, <2>2, <2>3, <3>1, LinkGood
  <2>5. \A g \in Files : Now(g) \in Tags /\ Old(g) \in Tags /\ Now(g) # Hand /\ Old(g) # Hand
    BY Tagging
  <2>6. \A g \in Files : Carries(w, v, Now(g), Now(g)) /\ Carries(w, v, Old(g), Old(g))
    <3>1. \A p \in Tags : w.len[p] <= v.len[p] /\ w.len[p] \in Nat
      BY <1>1, <2>3, <2>4 DEF Typed
    <3> QED
      BY <1>4, <2>4, <2>5, <3>1 DEF Carries
  <2>7. NoHand(v)
    BY <1>4, <2>3, <2>4 DEF NoHand
  <2>8. last' \in Clus /\ free' \in Int /\ Unknown <= free' /\ free' <= NClust + 1
    BY <1>1, <1>4, <2>1, TakenTypes
  <2>9. /\ call' \in Call /\ call'.op = call.op /\ call'.f = call.f /\ call'.pc = "got"
        /\ call'.a = call.a /\ call'.n = call.n /\ call'.r = b
    BY <1>1, <2>1, BackTypes
  <2>10. Types'
    BY <1>1, <1>2, <1>7, <2>2, <2>8, <2>9 DEF Types
  <2>11. Reached' = Reached /\ ~Fresh' /\ b # Full /\ v.idx[b] = Reached + 1
    BY <1>2, <1>4, <2>4, <2>9, Numbers DEF Reached, Fresh
  <2>12. Got(v, f)'
    BY <1>4, <2>4, <2>7, <2>9, <2>11 DEF Got, NoHand
  <2> QED
    BY <1>1, <1>3, <1>7, <2>1, <2>2, <2>4, <2>6, <2>10, <2>12, ChainBack
<1> QED
  BY <1>6, <1>8, <1>9

-----------------------------------------------------------------------------
(* remove_chain.                                                           *)

\* A call, made of its parts.
LEMMA CallMade ==
  ASSUME NEW op \in Ops, NEW g \in Files \cup {NoFile}, NEW pc \in Pcs, NEW a \in {0} \cup Clus,
         NEW b \in {0, EOC} \cup Clus, NEW n \in Nat, NEW r \in Int
  PROVE  [op |-> op, f |-> g, pc |-> pc, a |-> a, b |-> b, n |-> n, r |-> r] \in Call
BY DEF Call

\* A call, taken apart.
LEMMA CallIs ==
  ASSUME Types
  PROVE  call = [op |-> call.op, f |-> call.f, pc |-> call.pc, a |-> call.a, b |-> call.b, n |-> call.n, r |-> call.r]
BY DEF Types, Call

\* The call goes on at another step, with another cluster to remove.
LEMMA CallOn ==
  ASSUME Types, NEW pc \in Pcs, NEW b \in Clus,
         call' = [op |-> call.op, f |-> call.f, pc |-> pc, a |-> call.a, b |-> b, n |-> call.n, r |-> call.r]
  PROVE  /\ call' \in Call /\ call'.op = call.op /\ call'.f = call.f /\ call'.pc = pc /\ call'.a = call.a /\ call'.b = b
BY CallMade, CallTypes

\* While f_truncate runs no write of the window makes the entry of its file right.
LEMMA StaysCut ==
  ASSUME Held \/ Wrote, NEW f \in cut, call.op = "truncate", call.f = f
  PROVE  f \in cut'
<1>1. f \in Flushed.cut
  BY DEF Flushed, OnCard, Stale
<1> QED
  BY <1>1 DEF Held, Wrote

\* remove_chain goes on or comes back.
LEMMA RemoveOn ==
  ASSUME NEW w, Inv(w), NEW v, NEW f \in Files, f = call.f, Removing(w, f),
         UNCHANGED <<ents, fil, snap>>, Types', Held \/ Wrote, cut' \subseteq cut, InWindow,
         Good(fat', v), \A g \in Files : Carries(w, v, Now(g), Now(g)) /\ Carries(w, v, Old(g), Old(g)),
         call'.op = call.op, call'.f = call.f, call'.a = call.a,
         \/ call'.pc = "free" /\ HandFrom(v, call'.b)
         \/ call'.pc = "got" /\ NoHand(v)
  PROVE  IInv'
<1>0. call.op = "truncate" => f \in cut'
  BY StaysCut DEF Removing
<1>1. Removing(v, f)'
  BY <1>0 DEF Removing, Live, HandFrom, NoHand
<1>2. CallOk(v)'
  BY <1>1 DEF CallOk
<1>3. \A g \in Files : Alike(g)
  BY FilesAlike
<1> QED
  BY <1>2, <1>3, Quiet

\* remove_chain frees one cluster, and goes on with the next.
LEMMA RemoveOneStep ==
  ASSUME NEW w, Inv(w), RemoveOne
  PROVE  IInv'
<1>0. PICK f \in Files : f = call.f
  BY DEF RemoveOne, Inv, CallOk, Idle
<1> DEFINE c == call.b
<1>1. /\ Types /\ Good(fat, w) /\ Typed(w) /\ f = call.f /\ Removing(w, f) /\ call.pc = "free"
  BY <1>0 DEF RemoveOne, Inv, Good, CallOk, Idle, Growing, Expanding, Registering, Syncing, Ending
<1>2. UNCHANGED <<ents, fil, last, snap, crashes>>
  BY DEF RemoveOne, hist, budget
<1>3. UNCHANGED <<ents, fil, snap>>
  BY <1>2
<1>4. /\ c \in Clus /\ w.own[c] = Hand
      /\ \A d \in Clus : w.own[d] = Hand => w.idx[c] <= w.idx[d]
  BY <1>1 DEF Removing, HandFrom
<1>5. fat[c] # 0 /\ w.own[c] # Nobody
  <2>1. w.own[c] # Nobody
    BY <1>4, Tagging
  <2> QED
    BY <1>1, <1>4, <2>1, EndOfChain, Numbers
<1>6. PICK o \in GetFat(c) :
           /\ Moved(o, o.ok /\ fat[c] # 0)
           /\ PutFat(o, c, 0)
           /\ free' = IF o.ok /\ fat[c] # 0 THEN OneMore ELSE free
           /\ IF ~o.ok THEN Back(DiskErr)
              ELSE IF fat[c] \in Clus THEN Goto([call EXCEPT !.b = fat[c]])
              ELSE Back(0)
  BY DEF RemoveOne
<1>7. o.ok \in BOOLEAN
  BY <1>1, <1>4, EntryOkIs
<1>8. Moved(o, o.ok)
  <2>1. (o.ok /\ fat[c] # 0) = o.ok
    BY <1>5, <1>7
  <2> QED
    BY <2>1, <1>6
<1>9. WindowTypes' /\ (Held \/ Wrote) /\ cut' \subseteq cut /\ (o.ok => win' = FatSec[c] /\ wflag')
  BY <1>1, <1>4, <1>6, <1>7, <1>8, EntryAccess
<1>11. CASE ~o.ok
  <2>1. UNCHANGED <<fat, free>> /\ Back(DiskErr) /\ DiskErr \in Int
    BY <1>6, <1>11, DiskErrIs DEF PutFat
  <2>2. PICK v : /\ Good(fat, v) /\ NoHand(v)
                 /\ \A g \in Files : Carries(w, v, Now(g), Now(g)) /\ Carries(w, v, Old(g), Old(g))
    BY <1>1, DropHand
  <2>3. /\ call' \in Call /\ call'.op = call.op /\ call'.f = call.f /\ call'.a = call.a /\ call'.pc = "got"
    BY <1>1, <2>1, BackTypes
  <2>4. Types'
    BY <1>1, <1>2, <1>9, <2>1, <2>3 DEF Types
  <2>5. InWindow /\ Good(fat', v)
    BY <1>2, <2>1, <2>2, SameFat
  <2> QED
    BY <1>1, <1>3, <1>9, <2>2, <2>3, <2>4, <2>5, RemoveOn
<1>12. CASE o.ok
  <2>1. fat' = [fat EXCEPT ![c] = 0] /\ free' = OneMore /\ 0 \in Link
    BY <1>5, <1>6, <1>12, ClusLink DEF PutFat
  <2>2. fat' \in [Clus -> Link] /\ (\A x \in Clus : x # c => fat'[x] = fat[x]) /\ InWindow
    BY <1>1, <1>2, <1>4, <1>9, <1>12, <2>1, PutFatIs
  <2>3. PICK v : /\ Good(fat', v)
                 /\ v.own[c] = Nobody
                 /\ \A d \in Clus : v.idx[d] = w.idx[d] /\ (d # c => v.own[d] = w.own[d])
                 /\ \A p \in Tags : v.len[p] = w.len[p]
    BY <1>1, <1>4, <2>2, FreeGood
  <2>4. \A g \in Files : Now(g) \in Tags /\ Old(g) \in Tags /\ Now(g) # Hand /\ Old(g) # Hand
    BY Tagging
  <2>5. \A g \in Files : Carries(w, v, Now(g), Now(g)) /\ Carries(w, v, Old(g), Old(g))
    <3>1. \A p \in Tags : w.len[p] <= v.len[p]
      BY <1>1, <2>3 DEF Typed
    <3> QED
      BY <1>4, <2>3, <2>4, <3>1 DEF Carries
  <2>6. free' \in Int /\ Unknown <= free' /\ free' <= NClust + 1
    BY <1>1, <2>1, Numbers DEF Types, OneMore, Unknown
  <2>7. CASE fat[c] \in Clus
    <3>1. call' = [call EXCEPT !.b = fat[c]]
      BY <1>6, <1>12, <2>7 DEF Goto
    <3>2. call' = [op |-> call.op, f |-> call.f, pc |-> call.pc, a |-> call.a, b |-> fat[c], n |-> call.n, r |-> call.r]
      BY <1>1, <3>1, CallIs
    <3>3. /\ call' \in Call /\ call'.op = call.op /\ call'.f = call.f /\ call'.a = call.a /\ call'.pc = "free" /\ call'.b = fat[c]
      BY <1>1, <2>7, <3>2, CallTypes, CallOn
    <3>4. Types'
      BY <1>1, <1>2, <1>9, <2>2, <2>6, <3>3 DEF Types
    <3>5. w.own[fat[c]] = Hand /\ w.idx[fat[c]] = w.idx[c] + 1 /\ w.idx[c] \in Nat
      BY <1>1, <1>4, <1>5, <2>7, EndOfChain DEF Typed
    <3>6. ASSUME NEW d \in Clus, v.own[d] = Hand PROVE w.idx[c] + 1 <= w.idx[d]
      <4>1. d # c /\ w.own[d] = Hand /\ w.idx[d] \in Nat /\ w.idx[c] <= w.idx[d]
        BY <1>1, <1>4, <2>3, <3>6, Tagging DEF Typed
      <4>2. w.idx[d] # w.idx[c]
        BY <1>1, <1>4, <1>5, <4>1 DEF Good, Apart
      <4> QED
        BY <3>5, <4>1, <4>2
    <3>7. fat[c] # c
      BY <3>5
    <3>8. HandFrom(v, call'.b)
      BY <2>3, <2>7, <3>3, <3>5, <3>6, <3>7 DEF HandFrom
    <3> QED
      BY <1>1, <1>3, <1>9, <2>2, <2>3, <2>5, <3>3, <3>4, <3>8, RemoveOn
  <2>8. CASE fat[c] \notin Clus
    <3>1. Back(0)
      BY <1>6, <1>12, <2>8
    <3>2. /\ call' \in Call /\ call'.op = call.op /\ call'.f = call.f /\ call'.a = call.a /\ call'.pc = "got"
      BY <1>1, <3>1, BackTypes
    <3>3. Types'
      BY <1>1, <1>2, <1>9, <2>2, <2>6, <3>2 DEF Types
    <3>4. w.len[Hand] = w.idx[c]
      BY <1>1, <1>4, <1>5, <2>8, EndOfChain
    <3>5. ASSUME NEW d \in Clus, v.own[d] = Hand PROVE FALSE
      <4>1. d # c /\ w.own[d] = Hand /\ w.idx[d] \in Nat /\ w.idx[c] <= w.idx[d] /\ w.idx[c] \in Nat
        BY <1>1, <1>4, <2>3, <3>5, Tagging DEF Typed
      <4>2. w.idx[d] # w.idx[c]
        BY <1>1, <1>4, <1>5, <4>1 DEF Good, Apart
      <4>3. w.idx[d] <= w.len[Hand]
        BY <1>1, <1>4, <1>5, <4>1 DEF Good, InPlace
      <4> QED
        BY <3>4, <4>1, <4>2, <4>3
    <3> QED
      BY <1>1, <1>3, <1>9, <2>2, <2>3, <2>5, <3>2, <3>3, <3>5, RemoveOn DEF NoHand
  <2> QED
    BY <2>7, <2>8
<1> QED
  BY <1>7, <1>11, <1>12

\* remove_chain ends the chain at the previous cluster: the rest is in hand.
LEMMA RemoveCutStep ==
  ASSUME NEW w, Inv(w), RemoveCut
  PROVE  IInv'
<1>0. PICK f \in Files : f = call.f
  BY DEF RemoveCut, Inv, CallOk, Idle
<1> DEFINE a == call.a
           b == call.b
<1>1. /\ Types /\ Good(fat, w) /\ Typed(w) /\ f = call.f /\ Removing(w, f) /\ call.pc = "cut" /\ FileOk(w, f)
      /\ CardOk
  BY <1>0 DEF RemoveCut, Inv, Good, CallOk, Idle, Growing, Expanding, Registering, Syncing, Ending
<1>2. UNCHANGED <<ents, fil, last, free, snap, crashes>>
  BY DEF RemoveCut, hist, budget
<1>3. UNCHANGED <<ents, fil, snap>>
  BY <1>2
<1>4. /\ call.op = "truncate" /\ NoHand(w) /\ fil[f].pos > 0 /\ a = fil[f].clust /\ fil[f].pos < fil[f].size
      /\ b \in Clus /\ w.own[b] = Now(f) /\ w.idx[b] = fil[f].pos + 1 /\ fil[f].open /\ f \in cut
      /\ f \in Shrinking
  BY <1>1 DEF Removing, Live, Shrinking
<1>5. a \in Clus /\ w.own[a] = Now(f) /\ w.idx[a] = fil[f].pos /\ fil[f].pos \in Nat
  BY <1>1, <1>4 DEF FileOk, CursorOk, Seeking, Types, Object
<1>6. PICK o \in GetFat(a) :
       /\ Moved(o, o.ok)
       /\ PutFat(o, a, EOC)
       /\ IF o.ok THEN Goto([call EXCEPT !.pc = "free"]) ELSE Back(DiskErr)
  BY DEF RemoveCut
<1>7. o.ok \in BOOLEAN
  BY <1>1, <1>5, EntryOkIs
<1>8. WindowTypes' /\ (Held \/ Wrote) /\ cut' \subseteq cut /\ (o.ok => win' = FatSec[a] /\ wflag')
  BY <1>1, <1>5, <1>6, <1>7, EntryAccess
<1>9. CASE ~o.ok
  <2>1. UNCHANGED <<fat, last, free>> /\ Back(DiskErr) /\ DiskErr \in Int
    BY <1>2, <1>6, <1>9, DiskErrIs DEF PutFat
  <2>3. /\ call' \in Call /\ call'.op = call.op /\ call'.f = call.f /\ call'.a = call.a /\ call'.pc = "got"
    BY <1>1, <2>1, BackTypes
  <2>4. Types'
    BY <1>1, <1>2, <1>8, <2>1, <2>3 DEF Types
  <2>5. InWindow /\ Good(fat', w)
    BY <1>1, <1>2, <2>1, SameFat
  <2>6. \A g \in Files : Carries(w, w, Now(g), Now(g)) /\ Carries(w, w, Old(g), Old(g))
    BY <1>1, Tagging, CarrySame
  <2> QED
    BY <1>1, <1>3, <1>4, <1>8, <2>3, <2>4, <2>5, <2>6, RemoveOn
<1>10. CASE o.ok
  <2>1. fat' = [fat EXCEPT ![a] = EOC] /\ EOC \in Link
    BY <1>6, <1>10, ClusLink DEF PutFat
  <2>2. fat' \in [Clus -> Link] /\ fat'[a] = EOC /\ (\A x \in Clus : x # a => fat'[x] = fat[x]) /\ InWindow
    BY <1>1, <1>2, <1>5, <1>8, <1>10, <2>1, PutFatIs
  <2>3. call' = [call EXCEPT !.pc = "free"]
    BY <1>6, <1>10 DEF Goto
  <2>4. call' = [op |-> call.op, f |-> call.f, pc |-> "free", a |-> call.a, b |-> call.b, n |-> call.n, r |-> call.r]
    BY <1>1, <2>3, CallIs
  <2>5. /\ call' \in Call /\ call'.op = call.op /\ call'.f = call.f /\ call'.a = call.a /\ call'.pc = "free" /\ call'.b = b
    <3>1. "free" \in Pcs
      BY DEF Pcs
    <3> QED
      BY <1>1, <1>4, <2>4, <3>1, CallOn
  <2>6. Types'
    BY <1>1, <1>2, <1>8, <2>2, <2>5 DEF Types
  <2>7. Now(f) \in Tags /\ Now(f) # Nobody /\ Now(f) # Hand
    BY Tagging
  <2>8. PICK v : /\ Good(fat', v)
                 /\ \A c \in Clus : v.idx[c] = w.idx[c]
                 /\ \A c \in Clus : w.own[c] = Now(f) /\ w.idx[c] > w.idx[a] => v.own[c] = Hand
                 /\ \A c \in Clus : ~(w.own[c] = Now(f) /\ w.idx[c] > w.idx[a]) => v.own[c] = w.own[c]
                 /\ v.len[Now(f)] = w.idx[a] /\ v.len[Hand] = w.len[Now(f)]
                 /\ \A p \in Tags : p # Now(f) /\ p # Hand => v.len[p] = w.len[p]
    <3>1. \A c \in Clus : w.own[c] # Hand
      BY <1>4 DEF NoHand
    <3> DEFINE t == fat
               t2 == fat'
               n == Now(f)
    <3>2. Good(t, w) /\ a \in Clus /\ w.own[a] = n /\ n \in Tags /\ n # Nobody /\ n # Hand
      BY <1>1, <1>5, <2>7
    <3>3. t2[a] = EOC /\ \A x \in Clus : x # a => t2[x] = t[x]
      BY <2>2
    <3> HIDE DEF a, b, t, t2, n
    <3>4. PICK v : Severed(t2, w, a, n, v)
      BY <3>1, <3>2, <3>3, CutGood
    <3> QED
      BY <3>4 DEF t2, n, Severed
  <2>9. HandFrom(v, call'.b)
    <3>1. w.idx[b] > w.idx[a]
      BY <1>4, <1>5
    <3>2. v.own[b] = Hand /\ v.idx[b] = fil[f].pos + 1
      BY <1>4, <2>8, <3>1
    <3>3. ASSUME NEW c \in Clus, v.own[c] = Hand PROVE fil[f].pos + 1 <= v.idx[c]
      <4>1. w.own[c] # Hand /\ w.idx[c] \in Nat
        BY <1>1, <1>4 DEF NoHand, Typed
      <4>2. w.idx[c] > w.idx[a]
        BY <2>8, <3>3, <4>1
      <4> QED
        BY <1>5, <2>8, <4>1, <4>2
    <3> QED
      BY <1>4, <2>5, <3>2, <3>3 DEF HandFrom
  <2>10. \A g \in Files : Now(g) \in Tags /\ Old(g) \in Tags /\ Now(g) # Hand /\ Old(g) # Hand /\ Old(g) # Now(f)
                          /\ (g # f => Now(g) # Now(f))
    BY Tagging
  <2>11. \A g \in Files : g # f => Carries(w, v, Now(g), Now(g)) /\ Carries(w, v, Old(g), Old(g))
    BY <1>1, <2>8, <2>10 DEF Carries, Typed
  <2>12. \A g \in Files : Alike(g)
    BY <1>3, <1>8, <2>5, FilesAlike
  <2> DEFINE S == {f}
  <2>13. \A g \in Files : g \notin S => Alike(g) /\ Carries(w, v, Now(g), Now(g)) /\ Carries(w, v, Old(g), Old(g))
    BY <2>11, <2>12
  <2>14. FileOk(v, f)'
    <3>1. ObjectOk(v, f)'
      <4>1. Leads(w, Now(f), fil[f].sclust, fil[f].pos, snap[f]) /\ snap[f] = << >>
        BY <1>1, <1>4 DEF FileOk, ObjectOk, StartNow, SizeNow
      <4>2. /\ fil[f].sclust \in Clus /\ w.own[fil[f].sclust] = Now(f) /\ w.idx[fil[f].sclust] = 1
        BY <1>4, <4>1 DEF Leads
      <4>3. v.own[fil[f].sclust] = Now(f) /\ v.idx[fil[f].sclust] = 1 /\ fil[f].pos <= v.len[Now(f)]
        BY <1>4, <1>5, <2>8, <4>2
      <4>4. Leads(v, Now(f), fil[f].sclust, fil[f].pos, << >>)
        <5>1. Len(<< >>) = 0 /\ 1 .. 0 = {}
          OBVIOUS
        <5> QED
          BY <1>5, <4>2, <4>3, <5>1 DEF Leads
      <4>5. StartNow(f)' = fil[f].sclust /\ SizeNow(f)' = fil[f].pos
        BY <1>2, <1>4, <2>5 DEF StartNow, SizeNow, Shrinking
      <4> QED
        BY <1>2, <4>1, <4>4, <4>5 DEF ObjectOk
    <3>2. EntryOk(v, f)'
      BY <1>4, <2>5, <1>0 DEF EntryOk, Shrinking
    <3>3. CursorOk(v, f)'
      <4>1. fil[f].size \in Nat
        BY <1>1 DEF Types, Object
      <4>2. ~(w.idx[a] > w.idx[a])
        BY <1>5
      <4>3. v.own[a] = Now(f) /\ v.idx[a] = fil[f].pos
        BY <1>5, <2>8, <4>2
      <4> QED
        BY <1>2, <1>4, <1>5, <4>1, <4>3 DEF CursorOk
    <3> QED
      BY <1>1, <1>2, <3>1, <3>2, <3>3 DEF FileOk, Removing
  <2>15. \A g \in Files : g \in S => FileOk(v, g)'
    <3>1. \A g \in Files : g \in S => g = f
      OBVIOUS
    <3> QED
      BY <2>14, <3>1
  <2>16. Removing(v, f)'
    BY <1>1, <1>2, <1>4, <1>8, <2>5, <2>9, StaysCut DEF Removing, Live
  <2>17. CallOk(v)'
    BY <1>1, <2>5, <2>16 DEF CallOk
  <2>18. CardOk'
    BY <1>2, <1>8, CardNext
  <2> HIDE DEF S
  <2> QED
    BY <1>8, <2>2, <2>6, <2>8, <2>13, <2>15, <2>17, <2>18, Onward
<1> QED
  BY <1>7, <1>9, <1>10

-----------------------------------------------------------------------------
(* Calls, objects and entries.                                             *)

\* An access to the directory.
LEMMA DirAccess ==
  ASSUME Types, NEW S, Dir \in S, NEW o \in MoveWindow(S, Dir), NEW d \in BOOLEAN, Moved(o, d)
  PROVE  /\ o.ok \in BOOLEAN /\ WindowTypes' /\ (Held \/ Wrote) /\ cut' \subseteq cut
         /\ o.ok => win' = Dir
         /\ d => wflag'
BY MovedIs

\* An access to the directory succeeds or fails.
LEMMA DirOkIs ==
  ASSUME Types, NEW S, Dir \in S, NEW o \in MoveWindow(S, Dir)
  PROVE  o.ok \in BOOLEAN
<1>1. wflag \in BOOLEAN
  BY DEF Types, WindowTypes
<1> QED
  BY <1>1, AccessIs

\* Between two calls nothing is in hand.
LEMMA IdleIs ==
  ASSUME NEW w, Inv(w), CanBegin
  PROVE  call = Idle /\ call.op = "none" /\ NoHand(w) /\ Shrinking = {}
BY DEF Inv, CallOk, CanBegin, Growing, Removing, Expanding, Registering, Syncing, Ending, Idle, Shrinking

\* No call is a call.
LEMMA IdleTypes == Idle \in Call /\ Idle.op = "none" /\ Idle.pc = "idle"
<1>1. "none" \in Ops /\ "idle" \in Pcs
  BY DEF Ops, Pcs
<1>2. NoFile \in Files \cup {NoFile} /\ 0 \in {0} \cup Clus /\ 0 \in {0, EOC} \cup Clus /\ 0 \in Nat /\ 0 \in Int
  OBVIOUS
<1> QED
  BY <1>1, <1>2, CallMade DEF Idle

\* A call at its beginning.
LEMMA AtTypes ==
  ASSUME NEW op \in Ops, NEW g \in Files, NEW pc \in Pcs, NEW a \in {0} \cup Clus,
         NEW b \in {0, EOC} \cup Clus, NEW n \in Nat
  PROVE  /\ At(op, g, pc, a, b, n) \in Call
         /\ At(op, g, pc, a, b, n).op = op /\ At(op, g, pc, a, b, n).f = g /\ At(op, g, pc, a, b, n).pc = pc
         /\ At(op, g, pc, a, b, n).a = a /\ At(op, g, pc, a, b, n).b = b /\ At(op, g, pc, a, b, n).n = n
         /\ At(op, g, pc, a, b, n).r = 0
<1>1. At(op, g, pc, a, b, n) = [op |-> op, f |-> g, pc |-> pc, a |-> a, b |-> b, n |-> n, r |-> 0]
  BY DEF At
<1> QED
  BY <1>1, CallMade

\* A step that changes the object, the entry or the history of one file.
LEMMA OneFile ==
  ASSUME NEW w, Inv(w), NEW v, NEW f \in Files, Types', Held \/ Wrote, InWindow, CardOk', Good(fat', v),
         \A g \in Files : g # f => Alike(g) /\ Carries(w, v, Now(g), Now(g)) /\ Carries(w, v, Old(g), Old(g)),
         FileOk(v, f)', CallOk(v)'
  PROVE  IInv'
<1> DEFINE S == {f}
<1>1. \A g \in Files : g \notin S => Alike(g) /\ Carries(w, v, Now(g), Now(g)) /\ Carries(w, v, Old(g), Old(g))
  OBVIOUS
<1>2. \A g \in Files : g \in S => FileOk(v, g)'
  <2>1. \A g \in Files : g \in S => g = f
    OBVIOUS
  <2> QED
    BY <2>1
<1> HIDE DEF S
<1> QED
  BY <1>1, <1>2, Onward

\* A step on one file does nothing to the others.
LEMMA OthersAlike ==
  ASSUME NEW f \in Files, cut' \subseteq cut \cup {f},
         \A g \in Files : g # f => fil'[g] = fil[g] /\ ents'[g] = ents[g] /\ snap'[g] = snap[g],
         call.op = "truncate" \/ call.op = "lseek" => call.f = f,
         call'.op = "truncate" => call'.f = f
  PROVE  \A g \in Files : g # f => Alike(g)
BY DEF Alike, Shrinking, Seeking

\* Nothing moved, for any file.
LEMMA CarryAll ==
  ASSUME NEW t, NEW w, Good(t, w)
  PROVE  \A g \in Files : Carries(w, w, Now(g), Now(g)) /\ Carries(w, w, Old(g), Old(g))
BY CarrySame, Tagging DEF Good

\* The chain an entry leads to becomes the one the object leads to.
LEMMA TakeOver ==
  ASSUME NEW t, NEW w, Good(t, w), NEW f \in Files, NEW e, NEW s \in Seq(Clus), Seen1(w, f, e, s)
  PROVE  \E v : /\ Good(t, v) /\ (NoHand(w) => NoHand(v))
                /\ Leads(v, Now(f), e.start, e.size, s)
                /\ \A g \in Files : g # f => Carries(w, v, Now(g), Now(g)) /\ Carries(w, v, Old(g), Old(g))
<1>1. CASE Leads(w, Now(f), e.start, e.size, s)
  BY <1>1, CarryAll
<1>2. CASE Leads(w, Old(f), e.start, e.size, s)
  <2>1. /\ Now(f) \in Tags /\ Old(f) \in Tags /\ Now(f) # Old(f) /\ Old(f) # Nobody /\ Now(f) # Hand /\ Nobody # Hand
        /\ \A g \in Files : g # f => /\ Now(g) \in Tags /\ Old(g) \in Tags /\ Now(g) # Now(f) /\ Now(g) # Old(f)
                                     /\ Old(g) # Now(f) /\ Old(g) # Old(f)
    BY Tagging
  <2>2. PICK v : /\ Good(t, v)
                 /\ \A c \in Clus : v.idx[c] = w.idx[c]
                 /\ \A c \in Clus : w.own[c] = Old(f) => v.own[c] = Now(f)
                 /\ \A c \in Clus : w.own[c] = Now(f) => v.own[c] = Nobody
                 /\ \A c \in Clus : w.own[c] # Old(f) /\ w.own[c] # Now(f) => v.own[c] = w.own[c]
                 /\ v.len[Now(f)] = w.len[Old(f)]
                 /\ \A o \in Tags : o # Now(f) => v.len[o] = w.len[o]
    BY <2>1, MoveGood
  <2>3. Typed(w) /\ Typed(v)
    BY <2>2 DEF Good
  <2>4. NoHand(w) => NoHand(v)
    BY <2>1, <2>2 DEF NoHand
  <2>5. Carries(w, v, Old(f), Now(f))
    BY <2>1, <2>2, <2>3 DEF Carries, Typed
  <2>6. Leads(v, Now(f), e.start, e.size, s)
    <3>1. e.size \in Nat
      BY <1>2 DEF Leads
    <3> QED
      BY <1>2, <2>1, <2>3, <2>5, <3>1, CarryLeads
  <2>7. \A g \in Files : g # f => Carries(w, v, Now(g), Now(g)) /\ Carries(w, v, Old(g), Old(g))
    BY <2>1, <2>2, <2>3 DEF Carries, Typed
  <2> QED
    BY <2>2, <2>4, <2>6, <2>7
<1> QED
  BY <1>1, <1>2 DEF Seen1

\* A chain is about to be removed.
LEMMA GiveUp ==
  ASSUME NEW t, NEW w, Good(t, w), NoHand(w), NEW f \in Files, NEW o \in {Now(f), Old(f)},
         NEW b \in Clus, w.own[b] = o, w.idx[b] = 1
  PROVE  \E v : /\ Good(t, v) /\ HandFrom(v, b)
                /\ \A g \in Files : g # f => Carries(w, v, Now(g), Now(g)) /\ Carries(w, v, Old(g), Old(g))
                /\ \A q \in {Now(f), Old(f)} : q # o => Carries(w, v, q, q)
<1>0. o \in Tags /\ o # Nobody /\ o # Hand /\ Hand \in Tags /\ Hand # Nobody
  BY Tagging
<1>1. /\ \A g \in Files : /\ Now(g) \in Tags /\ Old(g) \in Tags /\ Now(g) # Hand /\ Old(g) # Hand
                          /\ (g # f => Now(g) # o /\ Old(g) # o)
  BY Tagging
<1>2. PICK v : /\ Good(t, v)
               /\ \A c \in Clus : v.idx[c] = w.idx[c]
               /\ \A c \in Clus : w.own[c] = o => v.own[c] = Hand
               /\ \A c \in Clus : w.own[c] = Hand => v.own[c] = Nobody
               /\ \A c \in Clus : w.own[c] # o /\ w.own[c] # Hand => v.own[c] = w.own[c]
               /\ v.len[Hand] = w.len[o]
               /\ \A p \in Tags : p # Hand => v.len[p] = w.len[p]
  BY <1>0, MoveGood
<1>3. Typed(w) /\ Typed(v)
  BY <1>2 DEF Good
<1>4. HandFrom(v, b)
  <2>1. \A c \in Clus : v.own[c] = Hand => 1 <= v.idx[c]
    BY <1>0, <1>2 DEF Good, InPlace
  <2> QED
    BY <1>2, <2>1 DEF HandFrom
<1>5. \A q \in Tags : q # o /\ q # Hand => Carries(w, v, q, q)
  BY <1>0, <1>2, <1>3 DEF Carries, Typed, NoHand
<1> QED
  BY <1>0, <1>1, <1>2, <1>4, <1>5, Tagging

\* Nothing, at the start of a file.
LEMMA LeadsNone ==
  ASSUME NEW w, NEW o
  PROVE  Leads(w, o, 0, 0, << >>)
<1>1. Len(<< >>) = 0 /\ 1 .. 0 = {}
  OBVIOUS
<1> QED
  BY <1>1 DEF Leads

\* The parts of an object and an entry.
LEMMA ObjectIs ==
  ASSUME Types, NEW f \in Files
  PROVE  /\ fil[f] \in Object /\ ents[f] \in Entry /\ snap[f] \in Seq(Clus)
         /\ fil[f].open \in BOOLEAN /\ fil[f].mod \in BOOLEAN /\ fil[f].err \in BOOLEAN
         /\ fil[f].sclust \in {0} \cup Clus /\ fil[f].clust \in {0} \cup Clus
         /\ fil[f].size \in Nat /\ fil[f].pos \in Nat
         /\ ents[f].start \in {0} \cup Clus /\ ents[f].size \in Nat /\ (~ents[f].used => ents[f].size = 0)
BY DEF Types, Object, Entry

\* The object of one file changes.
LEMMA FilTo ==
  ASSUME Types, NEW f \in Files, NEW x \in Object, fil' = [fil EXCEPT ![f] = x]
  PROVE  fil' \in [Files -> Object] /\ fil'[f] = x /\ \A g \in Files : g # f => fil'[g] = fil[g]
BY DEF Types

\* The entry of one file changes.
LEMMA EntsTo ==
  ASSUME Types, NEW f \in Files, NEW e \in Entry, ents' = [ents EXCEPT ![f] = e]
  PROVE  ents' \in [Files -> Entry] /\ ents'[f] = e /\ \A g \in Files : g # f => ents'[g] = ents[g]
BY DEF Types

\* The history of one file is forgotten.
LEMMA SnapTo ==
  ASSUME Types, NEW f \in Files, snap' = [snap EXCEPT ![f] = << >>]
  PROVE  snap' \in [Files -> Seq(Clus)] /\ snap'[f] = << >> /\ \A g \in Files : g # f => snap'[g] = snap[g]
<1>1. << >> \in Seq(Clus)
  OBVIOUS
<1> QED
  BY <1>1 DEF Types

\* A new object.
LEMMA OpenedIs ==
  ASSUME NEW s \in {0} \cup Clus, NEW n \in Nat, NEW m \in BOOLEAN
  PROVE  /\ Opened(s, n, m) \in Object
         /\ Opened(s, n, m).open /\ Opened(s, n, m).sclust = s /\ Opened(s, n, m).size = n
         /\ Opened(s, n, m).pos = 0 /\ Opened(s, n, m).mod = m
<1>1. Opened(s, n, m) = [open |-> TRUE, sclust |-> s, size |-> n, pos |-> 0, clust |-> 0, mod |-> m, err |-> FALSE]
  <2> DEFINE z == [open |-> FALSE, sclust |-> 0, size |-> 0, pos |-> 0, clust |-> 0, mod |-> FALSE, err |-> FALSE]
  <2>1. Opened(s, n, m) = [z EXCEPT !.open = TRUE, !.sclust = s, !.size = n, !.mod = m]
    BY DEF Opened, Closed
  <2> QED
    BY <2>1
<1> QED
  BY <1>1 DEF Object

\* The object of a new file.
LEMMA OpenedNew ==
  /\ Opened(0, 0, TRUE) \in Object /\ Opened(0, 0, TRUE).open
  /\ Opened(0, 0, TRUE).sclust = 0 /\ Opened(0, 0, TRUE).size = 0 /\ Opened(0, 0, TRUE).pos = 0
<1> DEFINE z == 0
           m == TRUE
<1>1. z \in {0} \cup Clus /\ z \in Nat /\ m \in BOOLEAN
  OBVIOUS
<1> HIDE DEF z, m
<1>2. /\ Opened(z, z, m) \in Object /\ Opened(z, z, m).open = m
      /\ Opened(z, z, m).sclust = z /\ Opened(z, z, m).size = z /\ Opened(z, z, m).pos = 0
  <2>1. Opened(z, z, m).open = m
    BY <1>1 DEF Opened, Closed, m
  <2> QED
    BY <1>1, <2>1, OpenedIs
<1> QED
  BY <1>2 DEF z, m

\* The entries.
LEMMA EntriesAre ==
  /\ NoEntry \in Entry /\ NoEntry.start = 0 /\ NoEntry.size = 0
  /\ \A s \in {0} \cup Clus, n \in Nat :
       /\ FileEntry(s, n) \in Entry /\ FileEntry(s, n).start = s /\ FileEntry(s, n).size = n /\ FileEntry(s, n).used
       /\ DirEntry(s) \in Entry /\ DirEntry(s).start = s /\ DirEntry(s).size = 0
BY DEF NoEntry, FileEntry, DirEntry, Entry

-----------------------------------------------------------------------------
(* f_open.                                                                 *)

\* A call that ends in its first step and changes nothing but the window.
LEMMA NothingDone ==
  ASSUME NEW w, Inv(w), CanBegin, WindowTypes', Held \/ Wrote, cut' \subseteq cut,
         UNCHANGED <<fat, ents, fil, last, free, call, snap, crashes>>
  PROVE  IInv'
<1>1. Types /\ Good(fat, w)
  BY DEF Inv
<1>2. Types'
  BY <1>1 DEF Types
<1>3. InWindow /\ Good(fat', w)
  BY <1>1, SameFat
<1>4. \A g \in Files : Alike(g)
  BY FilesAlike
<1>5. CallOk(w)'
  BY IdleIs DEF CallOk, NoHand
<1> QED
  BY <1>1, <1>2, <1>3, <1>4, <1>5, CarryAll, Quiet

\* f_open of an existing file: its object leads where the entry leads.
LEMMA OpenExistingStep ==
  ASSUME NEW w, Inv(w), NEW f \in Files, OpenExisting(f)
  PROVE  IInv'
<1>1. /\ Types /\ Good(fat, w) /\ FileOk(w, f) /\ CanBegin /\ call = Idle /\ NoHand(w) /\ Shrinking = {} /\ ~fil[f].open
  BY IdleIs DEF Inv, OpenExisting
<1>2. UNCHANGED <<fat, ents, last, free, snap, crashes, call>>
  BY DEF OpenExisting, hist, budget, ReturnAtOnce
<1>3. PICK o \in MoveWindow({Dir}, Dir) :
       LET ok == o.ok /\ ents[f].used /\ ~ents[f].dir
       IN  /\ Moved(o, FALSE)
           /\ fil' = IF ok THEN [fil EXCEPT ![f] = Opened(ents[f].start, ents[f].size, FALSE)]
                     ELSE fil
           /\ ReturnAtOnce("open", f, o.ok)
  BY DEF OpenExisting, Load
<1>4. Moved(o, FALSE)
  BY <1>3
<1>5. WindowTypes' /\ (Held \/ Wrote) /\ cut' \subseteq cut
  BY <1>1, <1>4, DirAccess
<1>6. CASE fil' = fil
  BY <1>1, <1>2, <1>5, <1>6, NothingDone
<1>7. CASE ents[f].used /\ fil' = [fil EXCEPT ![f] = Opened(ents[f].start, ents[f].size, FALSE)]
  <2>1. /\ ents[f].start \in {0} \cup Clus /\ ents[f].size \in Nat /\ snap[f] \in Seq(Clus)
    BY <1>1, ObjectIs
  <2> DEFINE x == Opened(ents[f].start, ents[f].size, FALSE)
  <2>2. x \in Object /\ x.open /\ x.sclust = ents[f].start /\ x.size = ents[f].size /\ x.pos = 0 /\ x.mod = FALSE
    BY <2>1, OpenedIs
  <2> HIDE DEF x
  <2>3. fil' \in [Files -> Object] /\ fil'[f] = x /\ \A g \in Files : g # f => fil'[g] = fil[g]
    BY <1>1, <1>7, <2>2, FilTo DEF x
  <2>4. Types'
    BY <1>1, <1>2, <1>5, <2>3 DEF Types
  <2>5. Seen1(w, f, ents[f], snap[f])
    BY <1>1 DEF FileOk, EntryOk
  <2>6. PICK v : /\ Good(fat, v) /\ (NoHand(w) => NoHand(v))
                 /\ Leads(v, Now(f), ents[f].start, ents[f].size, snap[f])
                 /\ \A g \in Files : g # f => Carries(w, v, Now(g), Now(g)) /\ Carries(w, v, Old(g), Old(g))
    BY <1>1, <2>1, <2>5, TakeOver
  <2>7. \A g \in Files : g # f => Alike(g)
    BY <1>1, <1>2, <1>5, <2>3, OthersAlike, IdleTypes
  <2>8. FileOk(v, f)'
    <3>1. StartNow(f)' = ents[f].start /\ SizeNow(f)' = ents[f].size /\ f \notin Shrinking'
      BY <1>1, <1>2, <2>2, <2>3 DEF StartNow, SizeNow, Shrinking
    <3>2. ObjectOk(v, f)'
      BY <1>2, <2>6, <3>1 DEF ObjectOk
    <3>3. EntryOk(v, f)'
      BY <1>2, <2>6 DEF EntryOk, Seen1
    <3>4. CursorOk(v, f)'
      BY <2>1, <2>2, <2>3 DEF CursorOk
    <3> QED
      BY <1>1, <1>2, <1>5, <1>7, <3>2, <3>3, <3>4 DEF FileOk
  <2>9. CallOk(v)'
    BY <1>1, <1>2, <2>6 DEF CallOk, NoHand
  <2>10. CardOk'
    BY <1>2, <1>5, CardNext
  <2>11. InWindow /\ Good(fat', v)
    BY <1>2, <2>6, SameFat
  <2> QED
    BY <1>5, <2>4, <2>6, <2>7, <2>8, <2>9, <2>10, <2>11, OneFile
<1> QED
  BY <1>3, <1>6, <1>7

\* A file that is not open and whose entry leads to nothing.
LEMMA EmptyFile ==
  ASSUME NEW v, NEW f \in Files, ~fil'[f].open, ents'[f].start = 0, ents'[f].size = 0, snap'[f] = << >>
  PROVE  FileOk(v, f)'
<1>1. Seen1(v, f, ents'[f], snap'[f])
  BY LeadsNone DEF Seen1
<1> QED
  BY <1>1 DEF FileOk, ObjectOk, EntryOk, CursorOk

\* An entry is reset or goes, and the call goes on to remove its chain.
LEMMA EntryReset ==
  ASSUME NEW w, Inv(w), NEW f \in Files, CanBegin, ~fil[f].open, NEW e \in Entry, e.start = 0, e.size = 0,
         WindowTypes', Held \/ Wrote, cut' \subseteq cut, win' = Dir, wflag',
         UNCHANGED <<fat, fil, last, free, crashes>>,
         ents' = [ents EXCEPT ![f] = e], snap' = [snap EXCEPT ![f] = << >>], ents[f].start # 0,
         call' \in Call, call'.f = f, call'.pc = "free", call'.b = ents[f].start,
         \/ call'.op = "create" /\ e.used /\ call'.a # 0
         \/ call'.op = "unlink"
  PROVE  IInv'
<1>1. /\ Types /\ Good(fat, w) /\ FileOk(w, f) /\ call = Idle /\ call.op = "none" /\ NoHand(w) /\ Shrinking = {}
  BY IdleIs DEF Inv
<1>2. ents' \in [Files -> Entry] /\ ents'[f] = e /\ \A g \in Files : g # f => ents'[g] = ents[g]
  BY <1>1, EntsTo
<1>3. snap' \in [Files -> Seq(Clus)] /\ snap'[f] = << >> /\ \A g \in Files : g # f => snap'[g] = snap[g]
  BY <1>1, SnapTo
<1>4. Types'
  BY <1>1, <1>2, <1>3 DEF Types
<1>5. InWindow
  BY DEF InWindow
<1>6. CardOk'
  BY <1>1, <1>3, CardNext
<1> DEFINE b == ents[f].start
<1>7. Seen1(w, f, ents[f], snap[f]) /\ b \in {0} \cup Clus
  BY <1>1, ObjectIs DEF FileOk, EntryOk
<1>8. PICK o \in {Now(f), Old(f)} : b \in Clus /\ w.own[b] = o /\ w.idx[b] = 1
  BY <1>7 DEF Seen1, Leads
<1> HIDE DEF b
<1>9. PICK v : /\ Good(fat, v) /\ HandFrom(v, b)
               /\ \A g \in Files : g # f => Carries(w, v, Now(g), Now(g)) /\ Carries(w, v, Old(g), Old(g))
  BY <1>1, <1>8, GiveUp
<1>10. \A g \in Files : g # f => Alike(g)
  BY <1>1, <1>2, <1>3, OthersAlike
<1>11. FileOk(v, f)'
  BY <1>2, <1>3, EmptyFile
<1>12. Removing(v, f)'
  BY <1>2, <1>3, <1>9 DEF Removing, HandFrom, b
<1>13. CallOk(v)'
  BY <1>12 DEF CallOk
<1> QED
  BY <1>4, <1>5, <1>6, <1>9, <1>10, <1>11, <1>13, OneFile

\* f_open with FA_CREATE_ALWAYS: the entry is reset, its chain in hand.
LEMMA OpenCreateStep ==
  ASSUME NEW w, Inv(w), NEW f \in Files, OpenCreate(f)
  PROVE  IInv'
<1>1. /\ Types /\ Good(fat, w) /\ FileOk(w, f) /\ CanBegin /\ call = Idle /\ call.op = "none" /\ NoHand(w) /\ Shrinking = {} /\ ~fil[f].open
  BY IdleIs DEF Inv, OpenCreate
<1>2. UNCHANGED <<fat, last, free, crashes>>
  BY DEF OpenCreate, budget
<1>3. PICK o \in MoveWindow({Dir}, Dir) :
       /\ Moved(o, o.ok)
       /\ ents' = IF o.ok THEN [ents EXCEPT ![f] = FileEntry(0, 0)] ELSE ents
       /\ \/ ~o.ok /\ ReturnAtOnce("open", f, FALSE) /\ UNCHANGED <<fil, snap>>
          \/ o.ok /\ snap' = [snap EXCEPT ![f] = << >>]
             /\ IF ents[f].start = 0
                THEN /\ fil' = [fil EXCEPT ![f] = Opened(0, 0, TRUE)]
                     /\ ReturnAtOnce("open", f, TRUE)
                ELSE /\ Begin(At("create", f, "free", ents[f].start, ents[f].start, 0))
                     /\ UNCHANGED fil
  BY DEF OpenCreate, Load
<1>4. o.ok \in BOOLEAN
  BY <1>1, DirOkIs
<1>5. WindowTypes' /\ (Held \/ Wrote) /\ cut' \subseteq cut /\ (o.ok => win' = Dir /\ wflag')
  BY <1>1, <1>3, <1>4, DirAccess
<1>6. CASE ~o.ok
  <2>1. UNCHANGED <<ents, fil, snap, call>>
    BY <1>3, <1>6 DEF ReturnAtOnce
  <2> QED
    BY <1>1, <1>2, <1>5, <2>1, NothingDone
<1>7. FileEntry(0, 0) \in Entry /\ FileEntry(0, 0).start = 0 /\ FileEntry(0, 0).size = 0 /\ FileEntry(0, 0).used
  BY EntriesAre
<1>8. CASE o.ok
  <2>1. ents' = [ents EXCEPT ![f] = FileEntry(0, 0)] /\ snap' = [snap EXCEPT ![f] = << >>]
    BY <1>3, <1>8
  <2>2. CASE ents[f].start # 0
    <3>1. UNCHANGED fil /\ call' = At("create", f, "free", ents[f].start, ents[f].start, 0)
      BY <1>3, <1>8, <2>2 DEF Begin
    <3>2. ents[f].start \in {0} \cup Clus
      BY <1>1, ObjectIs
    <3>3. call' \in Call /\ call'.op = "create" /\ call'.f = f /\ call'.pc = "free" /\ call'.a = ents[f].start /\ call'.b = ents[f].start
      <4>1. "create" \in Ops /\ "free" \in Pcs
        BY DEF Ops, Pcs
      <4>2. ents[f].start \in {0, EOC} \cup Clus /\ 0 \in Nat
        BY <3>2
      <4> DEFINE s == ents[f].start
      <4>3. s \in {0} \cup Clus /\ s \in {0, EOC} \cup Clus /\ call' = At("create", f, "free", s, s, 0)
        BY <3>1, <3>2, <4>2
      <4> HIDE DEF s
      <4>4. call' \in Call /\ call'.op = "create" /\ call'.f = f /\ call'.pc = "free" /\ call'.a = s /\ call'.b = s
        BY <4>1, <4>2, <4>3, AtTypes
      <4> QED
        BY <4>4 DEF s
    <3> QED
      BY <1>1, <1>2, <1>5, <1>7, <1>8, <2>1, <2>2, <3>1, <3>3, EntryReset
  <2>3. CASE ents[f].start = 0
    <3>1. fil' = [fil EXCEPT ![f] = Opened(0, 0, TRUE)] /\ call' = call
      BY <1>3, <1>8, <2>3 DEF ReturnAtOnce
    <3>2. ents' \in [Files -> Entry] /\ ents'[f] = FileEntry(0, 0) /\ \A g \in Files : g # f => ents'[g] = ents[g]
      BY <1>1, <1>7, <2>1, EntsTo
    <3>3. snap' \in [Files -> Seq(Clus)] /\ snap'[f] = << >> /\ \A g \in Files : g # f => snap'[g] = snap[g]
      BY <1>1, <2>1, SnapTo
    <3> DEFINE x == Opened(0, 0, TRUE)
    <3>4. x \in Object /\ x.open /\ x.sclust = 0 /\ x.size = 0 /\ x.pos = 0
      BY OpenedNew
    <3> HIDE DEF x
    <3>5. fil' \in [Files -> Object] /\ fil'[f] = x /\ \A g \in Files : g # f => fil'[g] = fil[g]
      BY <1>1, <3>1, <3>4, FilTo DEF x
    <3>6. Types'
      BY <1>1, <1>2, <1>5, <3>1, <3>2, <3>3, <3>5 DEF Types
    <3>7. \A g \in Files : g # f => Alike(g)
      BY <1>1, <1>5, <3>1, <3>2, <3>3, <3>5, OthersAlike
    <3>8. FileOk(w, f)'
      <4>1. ObjectOk(w, f)'
        <5>1. StartNow(f)' = 0 /\ SizeNow(f)' = 0
          BY <1>1, <3>1, <3>4, <3>5 DEF StartNow, SizeNow, Shrinking
        <5> QED
          BY <3>3, <5>1, LeadsNone DEF ObjectOk
      <4>2. EntryOk(w, f)'
        BY <1>7, <3>2, <3>3, LeadsNone DEF EntryOk, Seen1
      <4>3. CursorOk(w, f)'
        BY <3>4, <3>5 DEF CursorOk
      <4> QED
        BY <1>7, <3>2, <3>3, <4>1, <4>2, <4>3 DEF FileOk
    <3>9. CallOk(w)'
      BY <1>1, <3>1 DEF CallOk, NoHand
    <3>10. CardOk'
      BY <1>5, <3>3, CardNext
    <3>11. InWindow /\ Good(fat', w)
      BY <1>1, <1>2, <1>5, <1>8 DEF InWindow
    <3> QED
      BY <1>1, <1>5, <3>6, <3>7, <3>8, <3>9, <3>10, <3>11, CarryAll, OneFile
  <2> QED
    BY <2>2, <2>3
<1> QED
  BY <1>4, <1>6, <1>8

-----------------------------------------------------------------------------
(* f_unlink, f_mkdir.                                                      *)

\* A step that only moves the window and the call on.
LEMMA CallMoves ==
  ASSUME NEW w, Inv(w), WindowTypes', Held \/ Wrote, cut' \subseteq cut,
         UNCHANGED <<fat, ents, fil, last, free, snap, crashes>>, call' \in Call,
         call.op \notin {"truncate", "lseek"}, call'.op # "truncate", CallOk(w)'
  PROVE  IInv'
<1>1. Types /\ Good(fat, w)
  BY DEF Inv
<1>2. Types'
  BY <1>1 DEF Types
<1>3. InWindow /\ Good(fat', w)
  BY <1>1, SameFat
<1>4. \A g \in Files : Alike(g)
  BY FilesAlike
<1> QED
  BY <1>2, <1>3, <1>4, <1>1, CarryAll, Quiet

\* The window and the card stay.
LEMMA WindowStays ==
  ASSUME Types, UNCHANGED window
  PROVE  WindowTypes' /\ (Held \/ Wrote) /\ cut' \subseteq cut
<1>1. UNCHANGED <<disk, win, wflag, cut>>
  BY DEF window
<1> QED
  BY <1>1 DEF Types, WindowTypes, Held

\* The call returns.
LEMMA CallReturns ==
  ASSUME NEW w, Inv(w), WindowTypes', Held \/ Wrote, cut' \subseteq cut,
         UNCHANGED <<fat, ents, fil, last, free, snap, crashes>>, NEW ok, Return(ok),
         call.op \notin {"truncate", "lseek"}, NoHand(w)
  PROVE  IInv'
<1>1. call' = Idle
  BY DEF Return
<1>2. call' \in Call /\ call'.op = "none"
  BY <1>1, IdleTypes
<1>3. CallOk(w)'
  BY <1>1 DEF CallOk, NoHand
<1> QED
  BY <1>2, <1>3, CallMoves

\* sync_fs.
LEMMA SyncFsIs ==
  ASSUME Types, NEW ok, SyncFs(ok)
  PROVE  WindowTypes' /\ (Held \/ Wrote) /\ cut' \subseteq cut /\ win' = win /\ (ok => disk' = Flushed.disk /\ cut' = Flushed.cut)
<1>1. \/ wflag' = FALSE /\ disk' = Flushed.disk /\ cut' = Flushed.cut /\ win' = win
      \/ UNCHANGED <<wflag, disk, cut, win>>
  BY DEF SyncFs
<1>2. CASE wflag' = FALSE /\ disk' = Flushed.disk /\ cut' = Flushed.cut /\ win' = win
  <2>1. WindowTypes'
    BY <1>2, FlushTypes DEF Types, WindowTypes
  <2> QED
    BY <1>2, <2>1, FlushTypes DEF Wrote
<1>3. CASE UNCHANGED <<wflag, disk, cut, win>>
  BY <1>3 DEF Types, WindowTypes, Held, SyncFs
<1> QED
  BY <1>1, <1>2, <1>3

\* The last sync_fs of f_unlink and f_mkdir.
LEMMA EntrySyncStep ==
  ASSUME NEW w, Inv(w), EntrySync
  PROVE  IInv'
<1>1. Types /\ NoHand(w) /\ call.op \notin {"truncate", "lseek"}
  BY DEF EntrySync, Inv, CallOk, Idle, Growing, Removing, Expanding, Registering, Syncing, Ending
<1>2. UNCHANGED <<fat, ents, fil, last, free, snap, crashes>>
  BY DEF EntrySync, hist, budget
<1>3. PICK ok \in BOOLEAN : SyncFs(ok) /\ Return(ok)
  BY DEF EntrySync
<1>4. WindowTypes' /\ (Held \/ Wrote) /\ cut' \subseteq cut
  BY <1>1, <1>3, SyncFsIs
<1> QED
  BY <1>1, <1>2, <1>3, <1>4, CallReturns

\* f_mkdir has given its cluster back.
LEMMA MkdirUndoneStep ==
  ASSUME NEW w, Inv(w), MkdirUndone
  PROVE  IInv'
<1>1. Types /\ NoHand(w) /\ call.op \notin {"truncate", "lseek"}
  BY DEF MkdirUndone, Inv, CallOk, Idle, Growing, Removing, Expanding, Registering, Syncing, Ending
<1>2. UNCHANGED <<fat, ents, fil, last, free, snap, crashes>> /\ UNCHANGED window /\ Return(FALSE)
  BY DEF MkdirUndone, hist, budget
<1>3. WindowTypes' /\ (Held \/ Wrote) /\ cut' \subseteq cut
  BY <1>1, <1>2, WindowStays
<1> QED
  BY <1>1, <1>2, <1>3, CallReturns

\* The call moves on to another step, or another operation.
LEMMA CallGoes ==
  ASSUME Types, NEW op \in Ops, NEW pc \in Pcs, NEW b \in {0, EOC} \cup Clus, call' = [call EXCEPT !.op = op, !.pc = pc, !.b = b]
  PROVE  /\ call' \in Call /\ call'.op = op /\ call'.f = call.f /\ call'.pc = pc /\ call'.a = call.a
         /\ call'.b = b /\ call'.n = call.n /\ call'.r = call.r
<1>1. call' = [op |-> op, f |-> call.f, pc |-> pc, a |-> call.a, b |-> b, n |-> call.n, r |-> call.r]
  BY CallIs
<1>2. call.f \in Files \cup {NoFile} /\ call.a \in {0} \cup Clus /\ call.n \in Nat /\ call.r \in Int
  BY CallTypes
<1>3. call' \in Call
  BY <1>1, <1>2 DEF Call
<1> QED
  BY <1>1, <1>3

\* f_unlink has removed the chain.
LEMMA UnlinkedStep ==
  ASSUME NEW w, Inv(w), Unlinked
  PROVE  IInv'
<1>1. /\ Types /\ NoHand(w) /\ call.op = "unlink" /\ call.f \in Files
  BY DEF Unlinked, Inv, CallOk, Idle, Growing, Removing, Expanding, Registering, Syncing, Ending
<1>2. UNCHANGED <<fat, ents, fil, last, free, snap, crashes>> /\ UNCHANGED window
  BY DEF Unlinked, hist, budget
<1>3. WindowTypes' /\ (Held \/ Wrote) /\ cut' \subseteq cut
  BY <1>1, <1>2, WindowStays
<1>4. CASE call.r # 0
  <2>1. Return(FALSE)
    BY <1>4 DEF Unlinked
  <2> QED
    BY <1>1, <1>2, <1>3, <2>1, CallReturns
<1>5. CASE call.r = 0
  <2>1. call' = [call EXCEPT !.pc = "sync"]
    BY <1>5 DEF Unlinked, Goto
  <2>2. call' = [call EXCEPT !.op = call.op, !.pc = "sync", !.b = call.b]
    BY <1>1, <2>1, CallIs
  <2>3. "sync" \in Pcs
    BY DEF Pcs
  <2>4. call' \in Call /\ call'.op = call.op /\ call'.f = call.f /\ call'.pc = "sync"
    BY <1>1, <2>2, <2>3, CallGoes, CallTypes
  <2>5. CallOk(w)'
    BY <1>1, <2>4 DEF CallOk, Ending, NoHand
  <2> QED
    BY <1>1, <1>2, <1>3, <2>4, <2>5, CallMoves
<1> QED
  BY <1>4, <1>5

\* f_unlink takes the entry: its chain is in hand.
LEMMA FUnlinkStep ==
  ASSUME NEW w, Inv(w), NEW f \in Files, FUnlink(f)
  PROVE  IInv'
<1>1. /\ Types /\ Good(fat, w) /\ FileOk(w, f) /\ CanBegin /\ call = Idle /\ call.op = "none" /\ NoHand(w) /\ Shrinking = {} /\ ~fil[f].open
  BY IdleIs DEF Inv, FUnlink
<1>2. UNCHANGED <<fat, fil, last, free, crashes>>
  BY DEF FUnlink, budget
<1> DEFINE S == IF ents[f].dir THEN {Data, Dir} ELSE {Dir}
<1>3. PICK o \in MoveWindow(S, Dir) :
       /\ Moved(o, o.ok)
       /\ \/ ~o.ok /\ ReturnAtOnce("unlink", f, FALSE) /\ UNCHANGED <<ents, snap>>
          \/ o.ok /\ ents' = [ents EXCEPT ![f] = NoEntry]
             /\ snap' = [snap EXCEPT ![f] = << >>]
             /\ Begin(At("unlink", f, IF ents[f].start # 0 THEN "free" ELSE "sync",
                         0, ents[f].start, 0))
  BY DEF FUnlink
<1>s. Dir \in S
  OBVIOUS
<1> HIDE DEF S
<1>4. o.ok \in BOOLEAN
  BY <1>1, <1>s, DirOkIs
<1>5. WindowTypes' /\ (Held \/ Wrote) /\ cut' \subseteq cut /\ (o.ok => win' = Dir /\ wflag')
  BY <1>1, <1>3, <1>4, <1>s, DirAccess
<1>6. CASE ~o.ok
  <2>1. UNCHANGED <<ents, fil, snap, call>>
    BY <1>2, <1>3, <1>6 DEF ReturnAtOnce
  <2> QED
    BY <1>1, <1>2, <1>5, <2>1, NothingDone
<1>7. NoEntry \in Entry /\ NoEntry.start = 0 /\ NoEntry.size = 0
  BY EntriesAre
<1>8. CASE o.ok
  <2>1. ents' = [ents EXCEPT ![f] = NoEntry] /\ snap' = [snap EXCEPT ![f] = << >>]
    BY <1>3, <1>8
  <2> DEFINE pc == IF ents[f].start # 0 THEN "free" ELSE "sync"
             s == ents[f].start
  <2>2. pc \in Pcs /\ "unlink" \in Ops
    BY DEF Pcs, Ops
  <2>3. s \in {0} \cup Clus
    BY <1>1, ObjectIs
  <2>4. s \in {0, EOC} \cup Clus /\ 0 \in {0} \cup Clus /\ 0 \in Nat
    BY <2>3
  <2>5. call' = At("unlink", f, pc, 0, s, 0)
    BY <1>3, <1>8 DEF Begin
  <2> HIDE DEF pc, s
  <2>6. call' \in Call /\ call'.op = "unlink" /\ call'.f = f /\ call'.pc = pc /\ call'.b = s
    BY <2>2, <2>4, <2>5, AtTypes
  <2>7. CASE ents[f].start # 0
    <3>1. call'.pc = "free" /\ call'.b = ents[f].start
      BY <2>6, <2>7 DEF pc, s
    <3> QED
      BY <1>1, <1>2, <1>5, <1>7, <1>8, <2>1, <2>6, <2>7, <3>1, EntryReset
  <2>8. CASE ents[f].start = 0
    <3>1. ents' \in [Files -> Entry] /\ ents'[f] = NoEntry /\ \A g \in Files : g # f => ents'[g] = ents[g]
      BY <1>1, <1>7, <2>1, EntsTo
    <3>2. snap' \in [Files -> Seq(Clus)] /\ snap'[f] = << >> /\ \A g \in Files : g # f => snap'[g] = snap[g]
      BY <1>1, <2>1, SnapTo
    <3>3. Types'
      BY <1>1, <1>2, <1>5, <2>6, <3>1, <3>2 DEF Types
    <3>4. \A g \in Files : g # f => Alike(g)
      BY <1>1, <1>2, <1>5, <2>6, <3>1, <3>2, OthersAlike
    <3>5. FileOk(w, f)'
      BY <1>1, <1>2, <1>7, <3>1, <3>2, EmptyFile
    <3>6. call'.pc = "sync"
      BY <2>6, <2>8 DEF pc
    <3>7. CallOk(w)'
      BY <1>1, <2>6, <3>6 DEF CallOk, Ending, NoHand
    <3>8. CardOk'
      BY <1>5, <3>2, CardNext
    <3>9. InWindow /\ Good(fat', w)
      BY <1>1, <1>2, <1>5, <1>8 DEF InWindow
    <3> QED
      BY <1>1, <1>5, <3>3, <3>4, <3>5, <3>7, <3>8, <3>9, CarryAll, OneFile
  <2> QED
    BY <2>7, <2>8
<1> QED
  BY <1>4, <1>6, <1>8

\* f_mkdir looks the name up.
LEMMA FMkdirStep ==
  ASSUME NEW w, Inv(w), NEW f \in Files, FMkdir(f)
  PROVE  IInv'
<1>1. /\ Types /\ Good(fat, w) /\ FileOk(w, f) /\ CanBegin /\ call = Idle /\ call.op = "none" /\ NoHand(w) /\ Shrinking = {}
      /\ ~ents[f].used
  BY IdleIs DEF Inv, FMkdir
<1>2. UNCHANGED <<fat, ents, fil, last, free, snap, crashes>>
  BY DEF FMkdir, hist, budget
<1>3. PICK o \in MoveWindow({Dir}, Dir) :
       /\ Moved(o, FALSE)
       /\ IF o.ok THEN Begin(At("mkdir", f, "chain", 0, 0, 0))
          ELSE ReturnAtOnce("mkdir", f, FALSE)
  BY DEF FMkdir, Load
<1>4. WindowTypes' /\ (Held \/ Wrote) /\ cut' \subseteq cut
  BY <1>1, <1>3, DirAccess
<1>5. CASE ~o.ok
  <2>1. UNCHANGED call
    BY <1>3, <1>5 DEF ReturnAtOnce
  <2> QED
    BY <1>1, <1>2, <1>4, <2>1, NothingDone
<1>6. CASE o.ok
  <2>1. call' = At("mkdir", f, "chain", 0, 0, 0)
    BY <1>3, <1>6 DEF Begin
  <2>2. "mkdir" \in Ops /\ "chain" \in Pcs
    BY DEF Ops, Pcs
  <2> DEFINE z == 0
  <2>3. z \in {0} \cup Clus /\ z \in {0, EOC} \cup Clus /\ z \in Nat /\ call' = At("mkdir", f, "chain", z, z, z)
    BY <2>1
  <2> HIDE DEF z
  <2>4. call' \in Call /\ call'.op = "mkdir" /\ call'.f = f /\ call'.pc = "chain" /\ call'.a = z
    BY <2>2, <2>3, AtTypes
  <2>5. ~fil[f].open
    BY <1>1 DEF FileOk
  <2>6. snap[f] = << >>
    <3>1. ents[f].size = 0 /\ snap[f] \in Seq(Clus)
      BY <1>1, ObjectIs
    <3>2. Seen1(w, f, ents[f], snap[f])
      BY <1>1, <2>5 DEF FileOk, EntryOk
    <3>3. Len(snap[f]) <= 0
      BY <3>1, <3>2 DEF Seen1, Leads
    <3> QED
      BY <3>1, <3>3
  <2>7. Growing(w, f)'
    BY <1>1, <1>2, <2>4, <2>5, <2>6 DEF Growing, NoHand, z
  <2>8. CallOk(w)'
    BY <2>4, <2>7 DEF CallOk
  <2> QED
    BY <1>1, <1>2, <1>4, <2>4, <2>8, CallMoves
<1> QED
  BY <1>5, <1>6

\* One cluster in hand is the rest of a chain of one.
LEMMA OnlyFrom ==
  ASSUME NEW w, NEW b, NEW i \in Nat, Only(w, b, i)
  PROVE  HandFrom(w, b)
BY DEF Only, HandFrom

\* f_mkdir has its cluster, or has to give it back.
LEMMA MkdirGotStep ==
  ASSUME NEW w, Inv(w), MkdirGot
  PROVE  IInv'
<1>0. PICK f \in Files : f = call.f
  BY DEF MkdirGot, Inv, CallOk, Idle
<1>1. /\ Types /\ Good(fat, w) /\ f = call.f /\ call.op = "mkdir" /\ call.pc = "got"
      /\ ~fil[f].open /\ snap[f] = << >> /\ call.a = 0 /\ Got(w, f)
  BY <1>0 DEF MkdirGot, Inv, CallOk, Idle, Growing, Removing, Expanding, Registering, Syncing, Ending
<1>2. UNCHANGED <<fat, ents, fil, last, free, snap, crashes>>
  BY DEF MkdirGot, hist, budget
<1>3. CASE call.r \notin Clus
  <2>1. Return(call.r = Full) /\ UNCHANGED window
    BY <1>3 DEF MkdirGot
  <2>2. WindowTypes' /\ (Held \/ Wrote) /\ cut' \subseteq cut
    BY <1>1, <2>1, WindowStays
  <2>3. NoHand(w)
    BY <1>1, <1>3 DEF Got
  <2> QED
    BY <1>1, <1>2, <2>1, <2>2, <2>3, CallReturns
<1>4. CASE call.r \in Clus
  <2>1. Only(w, call.r, 1)
    BY <1>1, <1>4 DEF Got, Fresh
  <2>2. call.r \in {0, EOC} \cup Clus
    BY <1>4
  <2>3. HandFrom(w, call.r)
    BY <2>1, OnlyFrom
  <2>4. \/ /\ win' = Data /\ wflag' = FALSE /\ disk' = Flushed.disk /\ cut' = Flushed.cut
           /\ call' = [call EXCEPT !.pc = "register", !.b = call.r]
        \/ /\ \/ win' = Data /\ wflag' = TRUE /\ disk' = Flushed.disk /\ cut' = Flushed.cut
              \/ UNCHANGED <<win, wflag, disk, cut>>
           /\ call' = [call EXCEPT !.op = "undo", !.pc = "free", !.b = call.r]
    BY <1>4 DEF MkdirGot, Goto
  <2>5. WindowTypes' /\ (Held \/ Wrote) /\ cut' \subseteq cut
    <3>1. CASE win' = Data /\ wflag' \in BOOLEAN /\ disk' = Flushed.disk /\ cut' = Flushed.cut
      <4>1. WindowTypes'
        BY <1>1, <3>1, FlushTypes DEF Types, WindowTypes
      <4> QED
        BY <1>1, <3>1, <4>1, FlushTypes DEF Wrote
    <3>2. CASE UNCHANGED <<win, wflag, disk, cut>>
      BY <1>1, <3>2 DEF Types, WindowTypes, Held
    <3> QED
      BY <2>4, <3>1, <3>2
  <2>6. CASE call' = [call EXCEPT !.pc = "register", !.b = call.r]
    <3>1. call' = [call EXCEPT !.op = call.op, !.pc = "register", !.b = call.r]
      BY <1>1, <2>6, CallIs
    <3>2. "register" \in Pcs /\ call.op \in Ops
      BY <1>1, CallTypes DEF Pcs
    <3>3. call' \in Call /\ call'.op = call.op /\ call'.f = call.f /\ call'.pc = "register" /\ call'.b = call.r
      BY <1>1, <2>2, <3>1, <3>2, CallGoes
    <3>4. Registering(w, f)'
      BY <1>1, <1>2, <2>1, <3>3 DEF Registering, Only
    <3>5. CallOk(w)'
      BY <1>1, <3>3, <3>4 DEF CallOk
    <3> QED
      BY <1>1, <1>2, <2>5, <3>3, <3>5, CallMoves
  <2>7. CASE call' = [call EXCEPT !.op = "undo", !.pc = "free", !.b = call.r]
    <3>1. "undo" \in Ops /\ "free" \in Pcs
      BY DEF Ops, Pcs
    <3>2. call' \in Call /\ call'.op = "undo" /\ call'.f = call.f /\ call'.pc = "free" /\ call'.b = call.r
      <4> DEFINE op == "undo"
                 pc == "free"
      <4>1. op \in Ops /\ pc \in Pcs /\ call' = [call EXCEPT !.op = op, !.pc = pc, !.b = call.r]
        BY <2>7, <3>1
      <4> HIDE DEF op, pc
      <4>2. call' \in Call /\ call'.op = op /\ call'.f = call.f /\ call'.pc = pc /\ call'.b = call.r
        BY <1>1, <2>2, <4>1, CallGoes
      <4> QED
        BY <4>2 DEF op, pc
    <3>3. Removing(w, f)'
      BY <1>2, <2>3, <3>2 DEF Removing, HandFrom
    <3>4. CallOk(w)'
      BY <1>1, <3>2, <3>3 DEF CallOk
    <3> QED
      BY <1>1, <1>2, <2>5, <3>2, <3>4, CallMoves
  <2> QED
    BY <2>4, <2>6, <2>7
<1> QED
  BY <1>3, <1>4

\* f_mkdir makes the entry: the cluster in hand is its chain.
LEMMA MkdirRegisterStep ==
  ASSUME NEW w, Inv(w), MkdirRegister
  PROVE  IInv'
<1>0. PICK f \in Files : f = call.f
  BY DEF MkdirRegister, Inv, CallOk, Idle
<1> DEFINE b == call.b
<1>1. /\ Types /\ Good(fat, w) /\ Typed(w) /\ FileOk(w, f) /\ f = call.f /\ call.op = "mkdir" /\ call.pc = "register"
      /\ ~fil[f].open /\ snap[f] = << >> /\ Only(w, b, 1) /\ b \in Clus
  BY <1>0 DEF MkdirRegister, Inv, CallOk, Good, Idle, Growing, Removing, Expanding, Registering, Syncing, Ending, Only
<1>2. UNCHANGED <<fat, fil, last, free, snap, crashes>>
  BY DEF MkdirRegister, hist, budget
<1>3. PICK o \in MoveWindow({Dir}, Dir) :
       /\ Moved(o, o.ok)
       /\ \/ o.ok /\ ents' = [ents EXCEPT ![call.f] = DirEntry(call.b)]
             /\ Goto([call EXCEPT !.pc = "sync"])
          \/ ~o.ok /\ Goto([call EXCEPT !.op = "undo", !.pc = "free"]) /\ UNCHANGED ents
  BY DEF MkdirRegister, Load
<1>4. o.ok \in BOOLEAN
  BY <1>1, DirOkIs
<1>5. WindowTypes' /\ (Held \/ Wrote) /\ cut' \subseteq cut /\ (o.ok => win' = Dir /\ wflag')
  BY <1>1, <1>3, <1>4, DirAccess
<1>6. b \in {0, EOC} \cup Clus /\ b \in {0} \cup Clus
  BY <1>1
<1>7. CASE ~o.ok
  <2>1. UNCHANGED ents /\ call' = [call EXCEPT !.op = "undo", !.pc = "free"]
    BY <1>3, <1>7 DEF Goto
  <2> DEFINE op == "undo"
             pc == "free"
  <2>2. op \in Ops /\ pc \in Pcs
    BY DEF Ops, Pcs
  <2>3. call' = [call EXCEPT !.op = op, !.pc = pc, !.b = b]
    BY <1>1, <2>1, CallIs
  <2> HIDE DEF op, pc, b
  <2>4. call' \in Call /\ call'.op = op /\ call'.f = call.f /\ call'.pc = pc /\ call'.b = b
    BY <1>1, <1>6, <2>2, <2>3, CallGoes
  <2>5. call'.op = "undo" /\ call'.pc = "free" /\ HandFrom(w, b)
    BY <1>1, <2>4, OnlyFrom DEF op, pc
  <2>6. Removing(w, f)'
    BY <1>2, <2>4, <2>5 DEF Removing, HandFrom
  <2>7. CallOk(w)'
    BY <1>1, <2>4, <2>6 DEF CallOk
  <2> QED
    BY <1>1, <1>2, <1>5, <2>1, <2>4, <2>5, <2>7, CallMoves
<1>8. CASE o.ok
  <2>1. ents' = [ents EXCEPT ![f] = DirEntry(b)] /\ call' = [call EXCEPT !.pc = "sync"]
    BY <1>1, <1>3, <1>8 DEF Goto
  <2> DEFINE pc == "sync"
  <2>2. pc \in Pcs /\ call.op \in Ops
    BY <1>1, CallTypes DEF Pcs
  <2>3. call' = [call EXCEPT !.op = call.op, !.pc = pc, !.b = b]
    BY <1>1, <2>1, CallIs
  <2> HIDE DEF pc, b
  <2>4. call' \in Call /\ call'.op = call.op /\ call'.f = call.f /\ call'.pc = pc
    BY <1>1, <1>6, <2>2, <2>3, CallGoes
  <2>5. DirEntry(b) \in Entry /\ DirEntry(b).start = b /\ DirEntry(b).size = 0
    BY <1>6, EntriesAre
  <2>6. ents' \in [Files -> Entry] /\ ents'[f] = DirEntry(b) /\ \A g \in Files : g # f => ents'[g] = ents[g]
    BY <1>1, <2>1, <2>5, EntsTo
  <2>7. Types'
    BY <1>1, <1>2, <1>5, <2>4, <2>6 DEF Types
  <2>8. /\ Hand \in Tags /\ Now(f) \in Tags /\ Now(f) # Hand /\ Hand # Nobody /\ Now(f) # Nobody
    BY Tagging
  <2>9. PICK v : /\ Good(fat, v)
                 /\ \A c \in Clus : v.idx[c] = w.idx[c]
                 /\ \A c \in Clus : w.own[c] = Hand => v.own[c] = Now(f)
                 /\ \A c \in Clus : w.own[c] = Now(f) => v.own[c] = Nobody
                 /\ \A c \in Clus : w.own[c] # Hand /\ w.own[c] # Now(f) => v.own[c] = w.own[c]
                 /\ v.len[Now(f)] = w.len[Hand]
                 /\ \A p \in Tags : p # Now(f) => v.len[p] = w.len[p]
    BY <1>1, <2>8, MoveGood
  <2>10. \A g \in Files : g # f => /\ Now(g) \in Tags /\ Old(g) \in Tags /\ Now(g) # Now(f) /\ Now(g) # Hand
                                   /\ Old(g) # Now(f) /\ Old(g) # Hand
    BY Tagging
  <2>11. \A g \in Files : g # f => Carries(w, v, Now(g), Now(g)) /\ Carries(w, v, Old(g), Old(g))
    BY <1>1, <2>9, <2>10 DEF Carries, Typed
  <2>12. \A g \in Files : g # f => Alike(g)
    BY <1>1, <1>2, <1>5, <2>4, <2>6, OthersAlike
  <2>13. Leads(v, Now(f), b, 0, << >>)
    <3>1. Len(<< >>) = 0 /\ 1 .. 0 = {}
      OBVIOUS
    <3>2. v.own[b] = Now(f) /\ v.idx[b] = 1 /\ v.len[Now(f)] = 1
      BY <1>1, <2>9 DEF Only
    <3> QED
      BY <1>1, <3>1, <3>2 DEF Leads
  <2>14. FileOk(v, f)'
    <3>1. EntryOk(v, f)'
      BY <1>1, <1>2, <2>5, <2>6, <2>13 DEF EntryOk, Seen1
    <3> QED
      BY <1>1, <1>2, <3>1 DEF FileOk, ObjectOk, CursorOk
  <2>15. NoHand(v)
    BY <2>8, <2>9 DEF NoHand
  <2>16. CallOk(v)'
    BY <1>1, <2>4, <2>15 DEF CallOk, Ending, NoHand, pc
  <2>17. CardOk'
    BY <1>2, <1>5, CardNext
  <2>18. InWindow /\ Good(fat', v)
    BY <1>2, <1>5, <1>8, <2>9 DEF InWindow
  <2> QED
    BY <1>5, <2>7, <2>11, <2>12, <2>14, <2>16, <2>17, <2>18, OneFile
<1> QED
  BY <1>4, <1>7, <1>8

\* f_open has removed the old chain: the object leads to nothing.
LEMMA OpenCreatedStep ==
  ASSUME NEW w, Inv(w), OpenCreated
  PROVE  IInv'
<1>0. PICK f \in Files : f = call.f
  BY DEF OpenCreated, Inv, CallOk, Idle
<1>1. /\ Types /\ Good(fat, w) /\ FileOk(w, f) /\ f = call.f /\ call.op = "create" /\ NoHand(w)
      /\ snap[f] = << >> /\ ~fil[f].open /\ ents[f].used /\ call.a # 0 /\ call.a \in Clus
  BY <1>0, CallTypes DEF OpenCreated, Inv, CallOk, Idle, Growing, Removing, Expanding, Registering, Syncing, Ending
<1>2. UNCHANGED <<fat, ents, free, snap, crashes>>
  BY DEF OpenCreated, hist, budget
<1>3. CASE call.r # 0
  <2>1. Return(FALSE) /\ UNCHANGED <<fil, last>> /\ UNCHANGED window
    BY <1>3 DEF OpenCreated
  <2>2. WindowTypes' /\ (Held \/ Wrote) /\ cut' \subseteq cut
    BY <1>1, <2>1, WindowStays
  <2> QED
    BY <1>1, <1>2, <2>1, <2>2, CallReturns
<1>4. CASE call.r = 0
  <2>1. last' = call.a - 1
    BY <1>4 DEF OpenCreated
  <2>2. last' \in {NoHint} \cup Clus
    BY <1>1, <2>1, Numbers DEF NoHint
  <2>3. PICK o \in MoveWindow({Dir}, Dir) :
             /\ Moved(o, FALSE) /\ Return(o.ok)
             /\ fil' = IF o.ok THEN [fil EXCEPT ![call.f] = Opened(0, 0, TRUE)] ELSE fil
    BY <1>4 DEF OpenCreated, Load
  <2>4. WindowTypes' /\ (Held \/ Wrote) /\ cut' \subseteq cut
    BY <1>1, <2>3, DirAccess
  <2>5. call' = Idle /\ call' \in Call /\ call'.op = "none"
    BY <2>3, IdleTypes DEF Return
  <2>6. InWindow /\ Good(fat', w)
    BY <1>1, <1>2, SameFat
  <2>7. CallOk(w)'
    BY <1>1, <2>5 DEF CallOk, NoHand
  <2>8. CASE fil' = fil
    <3>1. Types'
      BY <1>1, <1>2, <2>2, <2>4, <2>5, <2>8 DEF Types
    <3>2. \A g \in Files : Alike(g)
      BY <1>1, <1>2, <2>4, <2>5, <2>8, FilesAlike
    <3> QED
      BY <1>1, <2>4, <2>6, <2>7, <3>1, <3>2, CarryAll, Quiet
  <2>9. CASE fil' = [fil EXCEPT ![f] = Opened(0, 0, TRUE)]
    <3> DEFINE x == Opened(0, 0, TRUE)
    <3>1. x \in Object /\ x.open /\ x.sclust = 0 /\ x.size = 0 /\ x.pos = 0
      BY OpenedNew
    <3> HIDE DEF x
    <3>2. fil' \in [Files -> Object] /\ fil'[f] = x /\ \A g \in Files : g # f => fil'[g] = fil[g]
      BY <1>1, <2>9, <3>1, FilTo DEF x
    <3>3. Types'
      BY <1>1, <1>2, <2>2, <2>4, <2>5, <3>2 DEF Types
    <3>4. \A g \in Files : g # f => Alike(g)
      BY <1>1, <1>2, <2>4, <2>5, <3>2, OthersAlike
    <3>5. FileOk(w, f)'
      <4>1. StartNow(f)' = 0 /\ SizeNow(f)' = 0
        BY <2>5, <3>1, <3>2 DEF StartNow, SizeNow, Shrinking
      <4>2. ObjectOk(w, f)'
        BY <1>1, <1>2, <4>1, LeadsNone DEF ObjectOk
      <4>3. Seen1(w, f, ents[f], snap[f])
        BY <1>1 DEF FileOk, EntryOk, Shrinking
      <4>4. EntryOk(w, f)'
        BY <1>2, <4>3 DEF EntryOk, Seen1
      <4>5. CursorOk(w, f)'
        BY <3>1, <3>2 DEF CursorOk
      <4> QED
        BY <1>1, <1>2, <4>2, <4>4, <4>5 DEF FileOk
    <3>6. CardOk'
      BY <1>2, <2>4, CardNext
    <3> QED
      BY <1>1, <2>4, <2>6, <2>7, <3>3, <3>4, <3>5, <3>6, CarryAll, OneFile
  <2> QED
    BY <1>1, <2>3, <2>8, <2>9
<1> QED
  BY <1>3, <1>4

\* How many clusters are free.
LEMMA FreeCount ==
  ASSUME NEW S, S \subseteq Clus
  PROVE  Cardinality(S) \in Nat /\ Cardinality(S) <= NClust
<1>1. IsFiniteSet(Clus) /\ Cardinality(Clus) = NClust
  <2>1. 2 \in Int /\ NFatEnt - 1 \in Int
    BY Numbers
  <2>2. Clus = 2 .. NFatEnt - 1 /\ ~(2 > NFatEnt - 1) /\ (NFatEnt - 1) - 2 + 1 = NClust
    BY Numbers DEF Clus
  <2> QED
    BY <2>1, <2>2, FS_Interval
<1> QED
  BY <1>1, FS_Subset, FS_CardinalityType

\* f_getfree counts.
LEMMA FGetfreeStep ==
  ASSUME NEW w, Inv(w), FGetfree
  PROVE  IInv'
<1>1. /\ Types /\ Good(fat, w) /\ CanBegin /\ call = Idle /\ call.op = "none" /\ NoHand(w)
  BY IdleIs DEF Inv, FGetfree
<1>2. UNCHANGED <<fat, ents, fil, last, snap, crashes, call>>
  BY DEF FGetfree, hist, budget, ReturnAtOnce
<1> DEFINE z == FatSec[NFatEnt - 1]
<1>3. z \in FatSecs
  BY Numbers DEF FatSecs
<1>4. PICK o \in MoveWindow(FatSecs, z), k \in Clus :
       /\ Moved(o, FALSE)
       /\ free' = Cardinality(IF o.ok THEN FreeClus
                              ELSE {c \in FreeClus : c < k /\ FatSec[c] # FatSec[k]})
  BY DEF FGetfree
<1> HIDE DEF z
<1>5. WindowTypes' /\ (Held \/ Wrote) /\ cut' \subseteq cut
  BY <1>1, <1>3, <1>4, MovedIs
<1>6. free' \in Nat /\ free' <= NClust
  BY <1>4, FreeCount DEF FreeClus
<1>7. Types'
  BY <1>1, <1>2, <1>5, <1>6, Numbers DEF Types, Unknown
<1>8. InWindow /\ Good(fat', w)
  BY <1>1, <1>2, SameFat
<1>9. \A g \in Files : Alike(g)
  BY <1>1, <1>2, <1>5, FilesAlike
<1>10. CallOk(w)'
  BY <1>1, <1>2 DEF CallOk, NoHand
<1> QED
  BY <1>1, <1>5, <1>7, <1>8, <1>9, <1>10, CarryAll, Quiet

-----------------------------------------------------------------------------
(* f_sync, f_close.                                                        *)

\* A closed object.
LEMMA ClosedIs == Closed \in Object /\ ~Closed.open /\ Closed.pos = 0
<1> DEFINE z == 0
<1>1. z \in {0} \cup Clus /\ z \in Nat
  OBVIOUS
<1>2. Closed = [open |-> FALSE, sclust |-> z, size |-> z, pos |-> z, clust |-> z, mod |-> FALSE, err |-> FALSE]
  BY DEF Closed
<1> HIDE DEF z
<1>3. Closed \in Object
  BY <1>1, <1>2 DEF Object
<1> QED
  BY <1>2, <1>3 DEF z

\* FA_MODIFIED is cleared.
LEMMA Unmodified ==
  ASSUME NEW x \in Object
  PROVE  /\ [x EXCEPT !.mod = FALSE] \in Object
         /\ LET y == [x EXCEPT !.mod = FALSE]
            IN  y.open = x.open /\ y.sclust = x.sclust /\ y.size = x.size /\ y.pos = x.pos /\ y.clust = x.clust
BY DEF Object

\* The file f is closed, or its object is as it was but for FA_MODIFIED, and its
\* entry says what the object says.
LEMMA FileSynced ==
  ASSUME NEW w, NEW f \in Files, FileOk(w, f), f \notin Shrinking, ~Seeking(f), NEW x, fil'[f] = x,
         \/ ~x.open
         \/ x.open /\ x.sclust = fil[f].sclust /\ x.size = fil[f].size /\ x.pos = fil[f].pos /\ x.clust = fil[f].clust,
         fil[f].open, ents'[f].used, call'.op # "truncate",
         Leads(w, Now(f), fil[f].sclust, fil[f].size, snap'[f]), Seen1(w, f, ents'[f], snap'[f]),
         f \in cut' => snap'[f] = << >>
  PROVE  FileOk(w, f)'
<1>1. f \notin Shrinking'
  BY DEF Shrinking
<1>2. ObjectOk(w, f)'
  BY <1>1 DEF ObjectOk, StartNow, SizeNow
<1>3. EntryOk(w, f)'
  BY DEF EntryOk, Seen1
<1>4. CursorOk(w, f)'
  BY DEF FileOk, CursorOk
<1> QED
  BY <1>2, <1>3, <1>4 DEF FileOk

\* f_sync and f_close write the entry in the window: it says what the object says,
\* and the old chain of the entry, if another, is nobody's.
LEMMA FSyncStep ==
  ASSUME NEW w, Inv(w), NEW f \in Files, NEW op \in {"sync", "close"}, FSync(op, f)
  PROVE  IInv'
<1>1. /\ Types /\ Good(fat, w) /\ FileOk(w, f) /\ CanBegin /\ call = Idle /\ call.op = "none" /\ NoHand(w) /\ Shrinking = {} /\ fil[f].open
  BY IdleIs DEF Inv, FSync
<1>2. UNCHANGED <<fat, last, free, snap, crashes>>
  BY DEF FSync, hist, budget
<1>3. /\ fil[f].sclust \in {0} \cup Clus /\ fil[f].size \in Nat /\ fil[f] \in Object /\ snap[f] \in Seq(Clus)
      /\ fil[f].mod \in BOOLEAN
  BY <1>1, ObjectIs
<1>4. Leads(w, Now(f), fil[f].sclust, fil[f].size, snap[f])
  BY <1>1 DEF FileOk, ObjectOk, StartNow, SizeNow
<1>5. f \notin Shrinking /\ ~Seeking(f)
  BY <1>1 DEF Seeking
<1>6. CASE ~fil[f].mod /\ CloseIf(op, f, fil[f]) /\ ReturnAtOnce(op, f, TRUE) /\ UNCHANGED <<ents, window>>
  <2>1. WindowTypes' /\ (Held \/ Wrote) /\ cut' \subseteq cut /\ UNCHANGED <<ents, call>>
    BY <1>1, <1>6, WindowStays DEF ReturnAtOnce
  <2> DEFINE x == IF op = "close" THEN Closed ELSE fil[f]
  <2>2. x \in Object /\ (~x.open \/ x = fil[f])
    BY <1>3, ClosedIs
  <2>3. fil' = [fil EXCEPT ![f] = x]
    BY <1>6 DEF CloseIf
  <2> HIDE DEF x
  <2>4. fil' \in [Files -> Object] /\ fil'[f] = x /\ \A g \in Files : g # f => fil'[g] = fil[g]
    BY <1>1, <2>2, <2>3, FilTo
  <2>5. Types'
    BY <1>1, <1>2, <2>1, <2>4 DEF Types
  <2>6. \A g \in Files : g # f => Alike(g)
    BY <1>1, <1>2, <2>1, <2>4, OthersAlike
  <2>7. Seen1(w, f, ents'[f], snap'[f])
    <3>1. Seen1(w, f, ents[f], snap[f])
      BY <1>1, <1>6, <1>5 DEF FileOk, EntryOk
    <3> QED
      BY <1>2, <2>1, <3>1
  <2>8. FileOk(w, f)'
    <3>1. ents'[f].used /\ call'.op # "truncate" /\ (f \in cut' => snap'[f] = << >>)
      BY <1>1, <1>2, <2>1 DEF FileOk
    <3>2. Leads(w, Now(f), fil[f].sclust, fil[f].size, snap'[f])
      BY <1>2, <1>4
    <3> QED
      BY <1>1, <1>5, <2>2, <2>4, <2>7, <3>1, <3>2, FileSynced
  <2>9. CallOk(w)'
    BY <1>1, <2>1 DEF CallOk, NoHand
  <2>10. CardOk'
    BY <1>2, <2>1, CardNext
  <2>11. InWindow /\ Good(fat', w)
    BY <1>1, <1>2, <2>1, SameFat
  <2> QED
    BY <1>1, <2>1, <2>5, <2>6, <2>8, <2>9, <2>10, <2>11, CarryAll, OneFile
<1>7. CASE ReturnAtOnce(op, f, FALSE) /\ UNCHANGED <<ents, fil, disk, win, wflag, cut>>
  <2>1. WindowTypes' /\ (Held \/ Wrote) /\ cut' \subseteq cut /\ UNCHANGED <<ents, fil, call>>
    BY <1>1, <1>7 DEF ReturnAtOnce, Types, WindowTypes, Held
  <2> QED
    BY <1>1, <1>2, <2>1, NothingDone
<1>8. CASE /\ \E o \in Load(Dir) :
             /\ Moved(o, o.ok)
             /\ \/ ~o.ok /\ ReturnAtOnce(op, f, FALSE) /\ UNCHANGED ents
                \/ o.ok /\ Begin(At(op, f, "sync", 0, 0, 0))
                   /\ ents' = [ents EXCEPT ![f] = FileEntry(fil[f].sclust, fil[f].size)]
           /\ UNCHANGED fil
  <2>1. PICK o \in MoveWindow({Dir}, Dir) :
             /\ Moved(o, o.ok)
             /\ \/ ~o.ok /\ ReturnAtOnce(op, f, FALSE) /\ UNCHANGED ents
                \/ o.ok /\ Begin(At(op, f, "sync", 0, 0, 0))
                   /\ ents' = [ents EXCEPT ![f] = FileEntry(fil[f].sclust, fil[f].size)]
    BY <1>8 DEF Load
  <2>2. o.ok \in BOOLEAN
    BY <1>1, DirOkIs
  <2>3. WindowTypes' /\ (Held \/ Wrote) /\ cut' \subseteq cut /\ (o.ok => win' = Dir /\ wflag')
    BY <1>1, <2>1, <2>2, DirAccess
  <2>4. CASE ~o.ok
    <3>1. UNCHANGED <<ents, fil, call>>
      BY <1>8, <2>1, <2>4 DEF ReturnAtOnce
    <3> QED
      BY <1>1, <1>2, <2>3, <3>1, NothingDone
  <2>5. CASE o.ok
    <3> DEFINE e == FileEntry(fil[f].sclust, fil[f].size)
    <3>1. e \in Entry /\ e.start = fil[f].sclust /\ e.size = fil[f].size /\ e.used
      BY <1>3, EntriesAre
    <3>2. ents' = [ents EXCEPT ![f] = e] /\ call' = At(op, f, "sync", 0, 0, 0) /\ UNCHANGED fil
      BY <1>8, <2>1, <2>5 DEF Begin
    <3>3. e = FileEntry(fil[f].sclust, fil[f].size)
      OBVIOUS
    <3> HIDE DEF e
    <3>4. ents' \in [Files -> Entry] /\ ents'[f] = e /\ \A g \in Files : g # f => ents'[g] = ents[g]
      BY <1>1, <3>1, <3>2, EntsTo
    <3> DEFINE z == 0
               pc == "sync"
    <3>5. op \in Ops /\ pc \in Pcs /\ z \in {0} \cup Clus /\ z \in {0, EOC} \cup Clus /\ z \in Nat /\ call' = At(op, f, pc, z, z, z)
      BY <3>2 DEF Ops, Pcs
    <3> HIDE DEF z, pc
    <3>6. call' \in Call /\ call'.op = op /\ call'.f = f /\ call'.pc = pc
      BY <3>5, AtTypes
    <3>7. Types'
      BY <1>1, <1>2, <2>3, <3>2, <3>4, <3>6 DEF Types
    <3>8. call'.op # "truncate" /\ call'.pc = "sync"
      BY <3>6 DEF pc
    <3>9. \A g \in Files : g # f => Alike(g)
      BY <1>1, <1>2, <2>3, <3>2, <3>4, <3>8, OthersAlike
    <3>10. FileOk(w, f)'
      <4>1. ents'[f].used /\ (f \in cut' => snap'[f] = << >>) /\ fil'[f] = fil[f]
        BY <1>1, <1>2, <2>3, <3>1, <3>2, <3>4 DEF FileOk
      <4>2. Leads(w, Now(f), fil[f].sclust, fil[f].size, snap'[f])
        BY <1>2, <1>4
      <4>3. Seen1(w, f, ents'[f], snap'[f])
        BY <3>1, <3>4, <4>2 DEF Seen1
      <4> QED
        BY <1>1, <1>5, <3>8, <4>1, <4>2, <4>3, FileSynced
    <3>11. Syncing(w, f)'
      BY <1>1, <2>3, <2>5, <3>2, <3>3, <3>4, <3>6, <3>8 DEF Syncing, NoHand
    <3>12. CallOk(w)'
      BY <3>6, <3>11 DEF CallOk
    <3>13. CardOk'
      BY <1>2, <2>3, CardNext
    <3>14. InWindow /\ Good(fat', w)
      BY <1>1, <1>2, <2>3, <2>5 DEF InWindow
    <3> QED
      BY <1>1, <2>3, <3>7, <3>9, <3>10, <3>12, <3>13, <3>14, CarryAll, OneFile
  <2> QED
    BY <2>2, <2>4, <2>5
<1> QED
  BY <1>6, <1>7, <1>8 DEF FSync

\* f_sync and f_close are done: the clusters of the file are on the card, and the
\* history keeps them.
LEMMA SyncEndStep ==
  ASSUME NEW w, Inv(w), SyncEnd
  PROVE  IInv'
<1>0. PICK f \in Files : f = call.f
  BY DEF SyncEnd, Inv, CallOk, Idle
<1>1. /\ Types /\ Good(fat, w) /\ FileOk(w, f) /\ f = call.f /\ call.op \in {"sync", "close"} /\ NoHand(w)
      /\ fil[f].open /\ win = Dir /\ wflag /\ ents[f] = FileEntry(fil[f].sclust, fil[f].size)
  BY <1>0 DEF SyncEnd, Inv, CallOk, Idle, Growing, Removing, Expanding, Registering, Syncing, Ending
<1>2. UNCHANGED <<fat, ents, last, free, crashes>>
  BY DEF SyncEnd, budget
<1> DEFINE y == [fil[f] EXCEPT !.mod = FALSE]
<1>3. PICK ok \in BOOLEAN :
           /\ SyncFs(ok) /\ Return(ok)
           /\ IF ok THEN CloseIf(call.op, f, y) ELSE fil' = [fil EXCEPT ![f] = y]
           /\ snap' = [snap EXCEPT ![f] = IF ok THEN Walk(fat, y.sclust, y.size) ELSE @]
  BY <1>1 DEF SyncEnd
<1>4. WindowTypes' /\ (Held \/ Wrote) /\ cut' \subseteq cut /\ win' = win /\ (ok => disk' = Flushed.disk /\ cut' = Flushed.cut)
  BY <1>1, <1>3, SyncFsIs
<1>5. call' = Idle /\ call' \in Call /\ call'.op = "none"
  BY <1>3, IdleTypes DEF Return
<1>6. /\ fil[f].sclust \in {0} \cup Clus /\ fil[f].size \in Nat /\ fil[f] \in Object /\ snap[f] \in Seq(Clus)
  BY <1>1, ObjectIs
<1>7. f \notin Shrinking /\ ~Seeking(f) /\ Shrinking = {}
  BY <1>1 DEF Shrinking, Seeking
<1>8. Leads(w, Now(f), fil[f].sclust, fil[f].size, snap[f])
  BY <1>1, <1>7 DEF FileOk, ObjectOk, StartNow, SizeNow
<1>9. ents[f].start = fil[f].sclust /\ ents[f].size = fil[f].size /\ ents[f].used
  BY <1>1 DEF FileEntry
<1>10. y \in Object /\ y.open /\ y.sclust = fil[f].sclust /\ y.size = fil[f].size /\ y.pos = fil[f].pos /\ y.clust = fil[f].clust
  BY <1>1, <1>6, Unmodified
<1> HIDE DEF y
<1> DEFINE x == IF ok /\ call.op = "close" THEN Closed ELSE y
<1>11. x \in Object /\ (~x.open \/ x = y)
  BY <1>10, ClosedIs
<1>12. fil' = [fil EXCEPT ![f] = x]
  BY <1>3 DEF CloseIf
<1> HIDE DEF x
<1>13. fil' \in [Files -> Object] /\ fil'[f] = x /\ \A g \in Files : g # f => fil'[g] = fil[g]
  BY <1>1, <1>11, <1>12, FilTo
<1>14. InWindow /\ Good(fat', w)
  BY <1>1, <1>2, SameFat
<1>15. CallOk(w)'
  BY <1>1, <1>5 DEF CallOk, NoHand
<1>16. snap \in [Files -> Seq(Clus)]
  BY <1>1 DEF Types
<1>17. ASSUME NEW s \in Seq(Clus), snap' = [snap EXCEPT ![f] = s], Leads(w, Now(f), fil[f].sclust, fil[f].size, s),
              f \in cut' => s = << >>, CardOk'
       PROVE  IInv'
  <2>1. snap' \in [Files -> Seq(Clus)] /\ snap'[f] = s /\ \A g \in Files : g # f => snap'[g] = snap[g]
    BY <1>16, <1>17
  <2>2. Types'
    BY <1>1, <1>2, <1>4, <1>5, <1>13, <2>1 DEF Types
  <2>3. \A g \in Files : g # f => Alike(g)
    BY <1>1, <1>2, <1>4, <1>5, <1>13, <2>1, OthersAlike
  <2>4. FileOk(w, f)'
    <3>1. ents'[f].used /\ call'.op # "truncate" /\ (f \in cut' => snap'[f] = << >>)
      BY <1>2, <1>5, <1>9, <1>17, <2>1
    <3>2. Leads(w, Now(f), fil[f].sclust, fil[f].size, snap'[f])
      BY <1>17, <2>1
    <3>3. Seen1(w, f, ents'[f], snap'[f])
      BY <1>2, <1>9, <3>2 DEF Seen1
    <3> QED
      BY <1>1, <1>7, <1>10, <1>11, <1>13, <3>1, <3>2, <3>3, FileSynced
  <2> QED
    BY <1>1, <1>4, <1>14, <1>15, <1>17, <2>2, <2>3, <2>4, CarryAll, OneFile
<1>18. CASE ~ok
  <2>1. snap' = [snap EXCEPT ![f] = snap[f]] /\ snap' = snap
    BY <1>3, <1>16, <1>18
  <2>2. CardOk'
    BY <1>4, <2>1, CardNext
  <2>3. f \in cut' => snap[f] = << >>
    BY <1>1, <1>4 DEF FileOk
  <2> QED
    BY <1>6, <1>8, <1>17, <2>1, <2>2, <2>3
<1>19. CASE ok
  <2> DEFINE s == Walk(fat, fil[f].sclust, fil[f].size)
  <2>1. snap' = [snap EXCEPT ![f] = s]
    BY <1>3, <1>10, <1>19
  <2>2. Now(f) \in Tags /\ Now(f) # Nobody
    BY Tagging
  <2>3. Places(w, Now(f), fil[f].size, s)
    BY <1>1, <1>6, <1>8, <2>2, LeadsTo
  <2> HIDE DEF s
  <2>4. s \in Seq(Clus) /\ Leads(w, Now(f), fil[f].sclust, fil[f].size, s)
    <3>1. s \in Seq(Clus) /\ Len(s) = fil[f].size
          /\ \A i \in 1 .. fil[f].size : w.own[s[i]] = Now(f) /\ w.idx[s[i]] = i
      BY <2>3 DEF Places
    <3>2. \A i \in 1 .. fil[f].size : s[i] \in Clus
      BY <3>1
    <3> QED
      BY <1>6, <1>8, <3>1, <3>2 DEF Leads
  <2>5. f \notin cut'
    BY <1>1, <1>4, <1>9, <1>19 DEF Flushed, Stale
  <2>6. CardOk'
    <3>1. disk' = [fat |-> fat, ents |-> ents] /\ cut' = Flushed.cut
      BY <1>4, <1>19, FlushIs DEF Inv
    <3>2. ASSUME NEW g \in Files, g \notin cut' PROVE Seen1(w, g, ents[g], snap'[g])
      <4>1. CASE g = f
        BY <1>9, <1>16, <2>1, <2>4, <4>1 DEF Seen1
      <4>2. CASE g # f
        BY <1>16, <2>1, <3>1, <3>2, <4>2, FlushSeen
      <4> QED
        BY <4>1, <4>2
    <3>3. Good(disk'.fat, w) /\ \A g \in Files : g \notin cut' => Seen1(w, g, disk'.ents[g], snap'[g])
      BY <1>1, <3>1, <3>2
    <3> QED
      BY <3>3 DEF CardOk, CardIs
  <2> QED
    BY <1>17, <2>1, <2>4, <2>5, <2>6
<1> QED
  BY <1>18, <1>19
=============================================================================
