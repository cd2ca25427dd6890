----------------------------- MODULE FatVolumeProofs -----------------------------
(***************************************************************************)
(* Proofs about FatVolume, second part: the first state, the power loss,   *)
(* the steps of f_write, f_lseek, f_truncate and f_expand, every step, and *)
(* what follows from the invariant, for every number of clusters, every    *)
(* layout of the FAT in sectors, any files, calls, transfer errors and     *)
(* power losses.                                                           *)
(***************************************************************************)
EXTENDS FatVolumeChains

-----------------------------------------------------------------------------
(* The first state and the power loss.                                     *)

\* A new volume: no cluster is owned.
LEMMA InitInv ==
  ASSUME Init
  PROVE  IInv
<1> DEFINE w == [own |-> [c \in Clus |-> Nobody], idx |-> [c \in Clus |-> 0], len |-> [o \in Tags |-> 0]]
<1>1. /\ \A c \in Clus : w.own[c] = Nobody /\ w.idx[c] = 0
      /\ \A o \in Tags : w.len[o] = 0
  OBVIOUS
<1> HIDE DEF w
<1>2. Good(fat, w)
  BY <1>1, Tagging DEF Good, Typed, Apart
<1>3. NoHand(w)
  BY <1>1, Tagging DEF NoHand
<1>4. fat \in [Clus -> Link] /\ ents \in [Files -> Entry] /\ disk = [fat |-> fat, ents |-> ents]
  BY ClusLink, EntriesAre DEF Init
<1>5. WindowTypes /\ Windows
  <2>1. disk.fat = fat /\ disk.ents = ents /\ disk = [fat |-> disk.fat, ents |-> disk.ents]
    BY <1>4
  <2>2. win = NoSect /\ wflag = FALSE /\ cut = {}
    BY DEF Init
  <2>3. WindowTypes
    BY <1>4, <2>1, <2>2 DEF WindowTypes
  <2> QED
    BY <1>4, <2>1, <2>2, <2>3 DEF Windows
<1>6. Types
  <2>1. fil \in [Files -> Object]
    BY ClosedIs DEF Init
  <2>2. << >> \in Seq(Clus)
    OBVIOUS
  <2>3. snap \in [Files -> Seq(Clus)]
    BY <2>2 DEF Init
  <2>4. call \in Call /\ crashes \in Nat /\ last \in {NoHint} \cup Clus
    BY IdleTypes DEF Init
  <2>5. free \in Int /\ Unknown <= free /\ free <= NClust + 1
    BY Numbers DEF Init, Unknown
  <2> QED
    BY <1>4, <1>5, <2>1, <2>3, <2>4, <2>5 DEF Types
<1>7. ASSUME NEW f \in Files PROVE Seen1(w, f, ents[f], snap[f]) /\ ents[f] = NoEntry /\ snap[f] = << >> /\ fil[f] = Closed
  <2>1. ents[f] = NoEntry /\ snap[f] = << >> /\ fil[f] = Closed
    BY DEF Init
  <2> QED
    BY <2>1, LeadsNone, EntriesAre DEF Seen1
<1>8. CardOk
  <2>1. Good(disk.fat, w) /\ \A f \in Files : f \notin cut => Seen1(w, f, disk.ents[f], snap[f])
    BY <1>2, <1>4, <1>7
  <2> QED
    BY <2>1 DEF CardOk, CardIs
<1>9. \A f \in Files : FileOk(w, f)
  BY <1>7, ClosedIs DEF FileOk, ObjectOk, EntryOk, CursorOk
<1>10. CallOk(w)
  BY <1>3 DEF CallOk, Init
<1> QED
  BY <1>2, <1>5, <1>6, <1>8, <1>9, <1>10 DEF IInv, Inv

\* After a power loss and a mount the card's witness is the volume's.
LEMMA CrashStep ==
  ASSUME NEW w, Inv(w), Crash
  PROVE  IInv'
<1>1. Types /\ WindowTypes /\ CardOk
  BY DEF Inv, Types
<1>2. /\ cut = {} /\ fat' = disk.fat /\ ents' = disk.ents /\ win' = NoSect /\ wflag' = FALSE
      /\ fil' = [f \in Files |-> Closed] /\ last' = NoHint /\ free' = Unknown /\ call' = Idle
      /\ disk' = disk /\ cut' = cut /\ snap' = snap /\ crashes' = crashes + 1
  BY DEF Crash
<1>3. PICK u : CardIs(u)
  BY <1>1 DEF CardOk
<1>4. Good(disk.fat, u) /\ \A f \in Files : Seen1(u, f, disk.ents[f], snap[f])
  BY <1>2, <1>3 DEF CardIs
<1>5. PICK v : /\ Good(disk.fat, v) /\ NoHand(v)
               /\ \A g \in Files : Carries(u, v, Now(g), Now(g)) /\ Carries(u, v, Old(g), Old(g))
  BY <1>4, DropHand
<1>6. Good(fat', v)
  BY <1>2, <1>5
<1>7. WindowTypes'
  BY <1>1, <1>2 DEF WindowTypes
<1>8. Types'
  <2>1. fil' \in [Files -> Object] /\ fat' \in [Clus -> Link] /\ ents' \in [Files -> Entry]
    BY <1>1, <1>2, ClosedIs DEF WindowTypes
  <2>2. call' \in Call /\ crashes' \in Nat /\ last' \in {NoHint} \cup Clus /\ snap' \in [Files -> Seq(Clus)]
    BY <1>1, <1>2, IdleTypes DEF Types
  <2>3. free' \in Int /\ Unknown <= free' /\ free' <= NClust + 1
    BY <1>2, Numbers DEF Unknown
  <2> QED
    BY <1>7, <2>1, <2>2, <2>3 DEF Types
<1>9. Windows'
  <2>1. disk = [fat |-> disk.fat, ents |-> disk.ents]
    BY <1>1 DEF WindowTypes
  <2> QED
    BY <1>2, <2>1 DEF Windows
<1>10. CardOk'
  <2>1. Good(disk'.fat, u) /\ \A f \in Files : f \notin cut' => Seen1(u, f, disk'.ents[f], snap'[f])
    BY <1>2, <1>4
  <2> QED
    BY <2>1 DEF CardOk, CardIs
<1>11. ASSUME NEW f \in Files PROVE FileOk(v, f)'
  <2>1. snap[f] \in Seq(Clus)
    BY <1>1 DEF Types
  <2>2. Seen1(v, f, disk.ents[f], snap[f])
    BY <1>4, <1>5, <2>1, CarrySeen DEF Good
  <2>3. EntryOk(v, f)'
    BY <1>2, <2>2 DEF EntryOk, Seen1
  <2>4. ~fil'[f].open /\ f \notin cut'
    BY <1>2, ClosedIs
  <2> QED
    BY <2>3, <2>4 DEF FileOk, ObjectOk, CursorOk
<1>12. CallOk(v)'
  BY <1>2, <1>5 DEF CallOk, NoHand
<1>13. Inv(v)'
  BY <1>6, <1>8, <1>9, <1>10, <1>11, <1>12 DEF Inv
<1> QED
  BY <1>13 DEF IInv

-----------------------------------------------------------------------------
(* A cluster for a file.                                                   *)

\* v is w with the clusters of the object of f given up: those its entry leads
\* to, if it does, belong to the entry from now on.
Renewed(t, w, f, e, s, v) ==
  /\ Good(t, v)
  /\ \A c \in Clus : v.idx[c] = w.idx[c] /\ v.own[c] # Now(f)
  /\ \A c \in Clus : v.own[c] = w.own[c] \/ v.own[c] = Old(f) \/ v.own[c] = Nobody
  /\ \A c \in Clus : w.own[c] # Now(f) /\ w.own[c] # Old(f) => v.own[c] = w.own[c]
  /\ \A o \in Tags : o # Old(f) /\ o # Nobody => v.len[o] = w.len[o]
  /\ Seen1(w, f, e, s) => Leads(v, Old(f), e.start, e.size, s)

\* The object of f is about to own another chain: the one it owned, if its entry
\* leads there, stays the one of the entry.
LEMMA Renew ==
  ASSUME NEW t, NEW w, Good(t, w), NEW f \in Files, NEW e, NEW s \in Seq(Clus)
  PROVE  \E v : Renewed(t, w, f, e, s, v)
<1>0. /\ Now(f) \in Tags /\ Old(f) \in Tags /\ Now(f) # Old(f) /\ Now(f) # Nobody /\ Old(f) # Nobody /\ Nobody \in Tags
  BY Tagging
<1>1. CASE Leads(w, Now(f), e.start, e.size, s)
  <2>1. PICK v : /\ Good(t, v)
                 /\ \A c \in Clus : v.idx[c] = w.idx[c]
                 /\ \A c \in Clus : w.own[c] = Now(f) => v.own[c] = Old(f)
                 /\ \A c \in Clus : w.own[c] = Old(f) => v.own[c] = Nobody
                 /\ \A c \in Clus : w.own[c] # Now(f) /\ w.own[c] # Old(f) => v.own[c] = w.own[c]
                 /\ v.len[Old(f)] = w.len[Now(f)]
                 /\ \A o \in Tags : o # Old(f) => v.len[o] = w.len[o]
    <3> DEFINE p == Now(f)
               q == Old(f)
    <3>1. p \in Tags /\ q \in Tags /\ p # Nobody /\ p # q
      BY <1>0
    <3> HIDE DEF p, q
    <3>2. PICK v : /\ Good(t, v)
                   /\ \A c \in Clus : v.idx[c] = w.idx[c]
                   /\ \A c \in Clus : w.own[c] = p => v.own[c] = q
                   /\ \A c \in Clus : w.own[c] = q => v.own[c] = Nobody
                   /\ \A c \in Clus : w.own[c] # p /\ w.own[c] # q => v.own[c] = w.own[c]
                   /\ v.len[q] = w.len[p]
                   /\ \A o \in Tags : o # q => v.len[o] = w.len[o]
      BY <3>1, MoveGood
    <3> QED
      BY <3>2 DEF p, q
  <2>2. Typed(w) /\ Typed(v)
    BY <2>1 DEF Good
  <2>3. Carries(w, v, Now(f), Old(f))
    BY <1>0, <2>1, <2>2 DEF Carries, Typed
  <2>4. e.size \in Nat
    BY <1>1 DEF Leads
  <2>5. Leads(v, Old(f), e.start, e.size, s)
    BY <1>0, <1>1, <2>2, <2>3, <2>4, CarryLeads
  <2>6. \A c \in Clus : v.own[c] # Now(f) /\ (v.own[c] = w.own[c] \/ v.own[c] = Old(f) \/ v.own[c] = Nobody)
    BY <1>0, <2>1
  <2>7. Renewed(t, w, f, e, s, v)
    BY <2>1, <2>5, <2>6 DEF Renewed
  <2> QED
    BY <2>7
<1>2. CASE ~Leads(w, Now(f), e.start, e.size, s)
  <2>1. PICK v : /\ Good(t, v)
                 /\ \A c \in Clus : v.idx[c] = w.idx[c]
                 /\ \A c \in Clus : w.own[c] = Now(f) => v.own[c] = Nobody
                 /\ \A c \in Clus : w.own[c] # Now(f) => v.own[c] = w.own[c]
                 /\ \A o \in Tags : o # Nobody => v.len[o] = w.len[o]
    BY <1>0, DropGood
  <2>2. Typed(w) /\ Typed(v)
    BY <2>1 DEF Good
  <2>3. Carries(w, v, Old(f), Old(f))
    BY <1>0, <2>1, <2>2 DEF Carries, Typed
  <2>4. Seen1(w, f, e, s) => Leads(v, Old(f), e.start, e.size, s)
    <3>1. SUFFICES ASSUME Leads(w, Old(f), e.start, e.size, s) PROVE Leads(v, Old(f), e.start, e.size, s)
      BY <1>2 DEF Seen1
    <3>2. e.size \in Nat
      BY <3>1 DEF Leads
    <3> QED
      BY <1>0, <2>2, <2>3, <3>1, <3>2, CarryLeads
  <2>5. \A c \in Clus : v.own[c] # Now(f) /\ (v.own[c] = w.own[c] \/ v.own[c] = Old(f) \/ v.own[c] = Nobody)
    BY <1>0, <2>1
  <2>6. Renewed(t, w, f, e, s, v)
    BY <2>1, <2>4, <2>5 DEF Renewed
  <2> QED
    BY <2>6
<1> QED
  BY <1>1, <1>2

\* The cluster in hand becomes the first one of f.
LEMMA FirstCluster ==
  ASSUME NEW t, NEW w, Good(t, w), NEW f \in Files, NEW e, NEW s \in Seq(Clus), NEW b \in Clus, Only(w, b, 1)
  PROVE  \E v : /\ Good(t, v) /\ NoHand(v)
                /\ v.own[b] = Now(f) /\ v.idx[b] = 1 /\ v.len[Now(f)] = 1
                /\ Seen1(w, f, e, s) => Seen1(v, f, e, s)
                /\ \A g \in Files : g # f => Carries(w, v, Now(g), Now(g)) /\ Carries(w, v, Old(g), Old(g))
<1>0. /\ Now(f) \in Tags /\ Old(f) \in Tags /\ Now(f) # Old(f) /\ Now(f) # Nobody /\ Old(f) # Nobody
      /\ Hand \in Tags /\ Hand # Nobody /\ Now(f) # Hand /\ Old(f) # Hand
  BY Tagging
<1>1a. PICK u : Renewed(t, w, f, e, s, u)
  BY Renew
<1>1. /\ Good(t, u)
      /\ \A c \in Clus : u.idx[c] = w.idx[c] /\ u.own[c] # Now(f)
      /\ \A c \in Clus : u.own[c] = w.own[c] \/ u.own[c] = Old(f) \/ u.own[c] = Nobody
      /\ \A c \in Clus : w.own[c] # Now(f) /\ w.own[c] # Old(f) => u.own[c] = w.own[c]
      /\ \A o \in Tags : o # Old(f) /\ o # Nobody => u.len[o] = w.len[o]
      /\ Seen1(w, f, e, s) => Leads(u, Old(f), e.start, e.size, s)
  BY <1>1a DEF Renewed
<1>2. PICK v : /\ Good(t, v)
               /\ \A c \in Clus : v.idx[c] = u.idx[c]
               /\ \A c \in Clus : u.own[c] = Hand => v.own[c] = Now(f)
               /\ \A c \in Clus : u.own[c] = Now(f) => v.own[c] = Nobody
               /\ \A c \in Clus : u.own[c] # Hand /\ u.own[c] # Now(f) => v.own[c] = u.own[c]
               /\ v.len[Now(f)] = u.len[Hand]
               /\ \A o \in Tags : o # Now(f) => v.len[o] = u.len[o]
  <2> DEFINE p == Hand
             q == Now(f)
  <2>1. Good(t, u) /\ p \in Tags /\ q \in Tags /\ p # Nobody /\ p # q
    BY <1>0, <1>1
  <2> HIDE DEF p, q
  <2>2. PICK v : /\ Good(t, v)
                 /\ \A c \in Clus : v.idx[c] = u.idx[c]
                 /\ \A c \in Clus : u.own[c] = p => v.own[c] = q
                 /\ \A c \in Clus : u.own[c] = q => v.own[c] = Nobody
                 /\ \A c \in Clus : u.own[c] # p /\ u.own[c] # q => v.own[c] = u.own[c]
                 /\ v.len[q] = u.len[p]
                 /\ \A o \in Tags : o # q => v.len[o] = u.len[o]
    BY <2>1, MoveGood
  <2> QED
    BY <2>2 DEF p, q
<1>3. Typed(w) /\ Typed(u) /\ Typed(v)
  BY <1>1, <1>2 DEF Good
<1>4. NoHand(v)
  BY <1>0, <1>2 DEF NoHand
<1>5. v.own[b] = Now(f) /\ v.idx[b] = 1 /\ v.len[Now(f)] = 1
  <2>1. w.own[b] = Hand /\ w.idx[b] = 1 /\ w.len[Hand] = 1
    BY DEF Only
  <2> QED
    BY <1>0, <1>1, <1>2, <2>1
<1>6. Seen1(w, f, e, s) => Seen1(v, f, e, s)
  <2>1. SUFFICES ASSUME Leads(u, Old(f), e.start, e.size, s) PROVE Leads(v, Old(f), e.start, e.size, s)
    BY <1>1 DEF Seen1
  <2>2. Carries(u, v, Old(f), Old(f)) /\ e.size \in Nat
    BY <1>0, <1>2, <1>3, <2>1 DEF Carries, Typed, Leads
  <2> QED
    BY <1>0, <1>3, <2>1, <2>2, CarryLeads
<1>7. \A g \in Files : g # f => /\ Now(g) \in Tags /\ Old(g) \in Tags /\ Now(g) # Now(f) /\ Now(g) # Hand /\ Now(g) # Old(f)
                                /\ Old(g) # Now(f) /\ Old(g) # Hand /\ Old(g) # Old(f) /\ Now(g) # Nobody /\ Old(g) # Nobody
  BY Tagging
<1>8. \A p \in Tags : p # Now(f) /\ p # Old(f) /\ p # Hand /\ p # Nobody => Carries(w, v, p, p)
  BY <1>0, <1>1, <1>2, <1>3 DEF Carries, Typed
<1> QED
  BY <1>2, <1>4, <1>5, <1>6, <1>7, <1>8

\* What create_chain has come back with is the cluster after the current one.
LEMMA GotCluster ==
  ASSUME NEW w, Inv(w), NEW f \in Files, f = call.f, Growing(w, f), call.pc = "got", call.op # "mkdir", call.r \in Clus
  PROVE  \E v : /\ Good(fat, v) /\ NoHand(v)
                /\ v.own[call.r] = Now(f) /\ v.idx[call.r] = Reached + 1
                /\ Leads(v, Now(f), IF fil[f].sclust = 0 THEN call.r ELSE fil[f].sclust, fil[f].size, snap[f])
                /\ Seen1(w, f, ents[f], snap[f]) => Seen1(v, f, ents[f], snap[f])
                /\ \A g \in Files : g # f => Carries(w, v, Now(g), Now(g)) /\ Carries(w, v, Old(g), Old(g))
<1>1. /\ Types /\ Good(fat, w) /\ Typed(w) /\ FileOk(w, f) /\ Got(w, f) /\ fil[f].open /\ f \notin Shrinking
      /\ call.op \in {"write", "lseek"}
  BY DEF Inv, Good, Growing, Live, Shrinking
<1>2. Leads(w, Now(f), fil[f].sclust, fil[f].size, snap[f])
  BY <1>1 DEF FileOk, ObjectOk, StartNow, SizeNow
<1>3. snap[f] \in Seq(Clus) /\ fil[f].size \in Nat /\ fil[f].pos \in Nat
  BY <1>1, ObjectIs
<1>4. CASE Fresh
  <2>1. Only(w, call.r, 1) /\ call.a = 0 /\ fil[f].sclust = 0 /\ Reached = 0
    BY <1>1, <1>4 DEF Got, Fresh, Growing, Reached
  <2>2. PICK v : /\ Good(fat, v) /\ NoHand(v)
                 /\ v.own[call.r] = Now(f) /\ v.idx[call.r] = 1 /\ v.len[Now(f)] = 1
                 /\ Seen1(w, f, ents[f], snap[f]) => Seen1(v, f, ents[f], snap[f])
                 /\ \A g \in Files : g # f => Carries(w, v, Now(g), Now(g)) /\ Carries(w, v, Old(g), Old(g))
    <3> DEFINE r == call.r
               e == ents[f]
               s == snap[f]
    <3>1. Good(fat, w) /\ r \in Clus /\ Only(w, r, 1) /\ s \in Seq(Clus)
      BY <1>1, <1>3, <2>1
    <3> HIDE DEF r, e, s
    <3>2. PICK v : /\ Good(fat, v) /\ NoHand(v)
                   /\ v.own[r] = Now(f) /\ v.idx[r] = 1 /\ v.len[Now(f)] = 1
                   /\ Seen1(w, f, e, s) => Seen1(v, f, e, s)
                   /\ \A g \in Files : g # f => Carries(w, v, Now(g), Now(g)) /\ Carries(w, v, Old(g), Old(g))
      BY <3>1, FirstCluster
    <3> QED
      BY <3>2 DEF r, e, s
  <2>3. fil[f].size = 0
    BY <1>2, <2>1, Numbers DEF Leads
  <2>4. Leads(v, Now(f), call.r, 0, snap[f])
    <3>1. Len(snap[f]) = 0
      BY <1>2, <1>3, <2>3 DEF Leads
    <3>2. 1 .. 0 = {}
      OBVIOUS
    <3> QED
      BY <2>2, <3>1, <3>2 DEF Leads
  <2> QED
    BY <2>1, <2>2, <2>3, <2>4
<1>5. CASE ~Fresh
  <2>1. NoHand(w) /\ w.own[call.r] = Now(f) /\ w.idx[call.r] = Reached + 1
    BY <1>1, <1>5 DEF Got
  <2>2. fil[f].sclust # 0
    <3>1. CASE call.a = 0
      BY <1>1, <1>5, <3>1 DEF Fresh, Growing
    <3>2. CASE call.a # 0
      BY <3>2 DEF Growing
    <3> QED
      BY <3>1, <3>2
  <2> QED
    BY <1>1, <1>2, <2>1, <2>2, CarryAll
<1> QED
  BY <1>4, <1>5

-----------------------------------------------------------------------------
(* f_write.                                                                *)

\* The file f of a call moves its cursor or grows, in its chain.
LEMMA FileGrows ==
  ASSUME NEW w, Inv(w), NEW v, NEW f \in Files, f \notin Shrinking, fil[f].open,
         NEW x, fil'[f] = x, x.open, fil[f].mod => x.mod, ents'[f] = ents[f], snap'[f] = snap[f], f \in cut' => f \in cut,
         f \notin cut' => Seen1(w, f, ents[f], snap[f]),
         call'.op # "truncate", Leads(v, Now(f), x.sclust, x.size, snap[f]),
         Seen1(w, f, ents[f], snap[f]) => Seen1(v, f, ents[f], snap[f]),
         \/ Seeking(f)'
         \/ /\ x.pos <= x.size
            /\ x.pos > 0 => x.clust \in Clus /\ v.own[x.clust] = Now(f) /\ v.idx[x.clust] = x.pos
  PROVE  FileOk(v, f)'
<1>1. FileOk(w, f) /\ f \notin Shrinking'
  BY DEF Inv, Shrinking
<1>2. ObjectOk(v, f)'
  BY <1>1 DEF ObjectOk, StartNow, SizeNow
<1>3. EntryOk(v, f)'
  <2>1. SUFFICES ASSUME f \notin cut' \/ ~fil[f].mod PROVE Seen1(v, f, ents[f], snap[f])
    BY <1>1 DEF EntryOk, Seen1
  <2> QED
    BY <1>1, <2>1 DEF FileOk, EntryOk
<1>4. CursorOk(v, f)'
  BY DEF CursorOk
<1> QED
  BY <1>1, <1>2, <1>3, <1>4 DEF FileOk

\* A chain that is long enough leads a larger size too.
LEMMA LeadsLonger ==
  ASSUME NEW w, NEW o, NEW start \in Clus, NEW size \in Nat, NEW s \in Seq(Clus), Leads(w, o, start, size, s),
         NEW m \in Nat, m <= w.len[o], size <= m
  PROVE  Leads(w, o, start, m, s)
<1>1. start # 0
  BY Numbers
<1> QED
  BY <1>1 DEF Leads

\* A place in a chain is not beyond its length.
LEMMA PlaceInside ==
  ASSUME NEW t, NEW w, Good(t, w), NEW f \in Files, NEW c \in Clus, w.own[c] = Now(f)
  PROVE  1 <= w.idx[c] /\ w.idx[c] <= w.len[Now(f)] /\ w.idx[c] \in Nat /\ w.len[Now(f)] \in Nat
<1>1. Now(f) \in Tags /\ Now(f) # Nobody
  BY Tagging
<1> QED
  BY <1>1 DEF Good, InPlace, Typed

\* f_write goes on with n clusters to write.
LEMMA WriteOn ==
  ASSUME NEW t, NEW v, Good(t, v), NEW f \in Files, NEW x \in Object, fil'[f] = x, x.open, ~x.err, NEW n \in Nat, n >= 1,
         call' = [WriteFrom(f, x) EXCEPT !.n = n], NoHand(v), NEW s, Leads(v, Now(f), x.sclust, x.size, s),
         x.pos <= x.size,
         x.pos > 0 => x.clust \in Clus /\ v.own[x.clust] = Now(f) /\ v.idx[x.clust] = x.pos
  PROVE  call' \in Call /\ call'.op = "write" /\ call'.f = f /\ CallOk(v)'
<1>0. x.pos \in Nat /\ x.sclust \in {0} \cup Clus /\ x.clust \in {0} \cup Clus /\ x.size \in Nat
  BY DEF Object
<1>1. "write" \in Ops /\ "got" \in Pcs /\ "chain" \in Pcs /\ 0 \in {0} \cup Clus /\ f \in Files \cup {NoFile} /\ 0 \in {0, EOC} \cup Clus /\ 0 \in Int
  BY DEF Ops, Pcs
<1>2. CASE x.pos = 0 /\ x.sclust # 0
  <2>1. WriteFrom(f, x) = [At("write", f, "got", 0, 0, 0) EXCEPT !.r = x.sclust]
    BY <1>2 DEF WriteFrom
  <2>2. call' = [op |-> "write", f |-> f, pc |-> "got", a |-> 0, b |-> 0, n |-> n, r |-> x.sclust]
    BY <2>1 DEF At
  <2>3. x.sclust \in Int /\ x.sclust \in Clus
    BY <1>0, <1>2, Numbers
  <2>4. call' \in Call
    <3> DEFINE op == "write"
               pc == "got"
               z == 0
    <3>1. op \in Ops /\ pc \in Pcs /\ z \in {0} \cup Clus /\ z \in {0, EOC} \cup Clus /\ f \in Files \cup {NoFile}
      BY <1>1
    <3>2. call' = [op |-> op, f |-> f, pc |-> pc, a |-> z, b |-> z, n |-> n, r |-> x.sclust]
      BY <2>2
    <3> HIDE DEF op, pc, z
    <3>3. [op |-> op, f |-> f, pc |-> pc, a |-> z, b |-> z, n |-> n, r |-> x.sclust] \in Call
      BY <2>3, <3>1, CallMade
    <3> QED
      BY <3>2, <3>3
  <2>5. call'.op = "write" /\ call'.f = f /\ call'.pc = "got" /\ call'.a = 0 /\ call'.n = n /\ call'.r = x.sclust
    BY <2>2
  <2>6. v.own[x.sclust] = Now(f) /\ v.idx[x.sclust] = 1
    BY <1>2 DEF Leads
  <2>7. Got(v, f)'
    <3>1. ~Fresh' /\ Reached' = 0 /\ x.sclust # Full
      BY <1>2, <2>5 DEF Fresh, Reached, Full
    <3> QED
      BY <2>3, <2>5, <2>6, <3>1 DEF Got, NoHand
  <2>8. Growing(v, f)'
    BY <1>2, <2>5, <2>7 DEF Growing, Live
  <2> QED
    BY <2>4, <2>5, <2>8 DEF CallOk
<1>3. CASE ~(x.pos = 0 /\ x.sclust # 0)
  <2> DEFINE a == IF x.pos = 0 THEN 0 ELSE x.clust
  <2>1. WriteFrom(f, x) = At("write", f, "chain", a, 0, 0)
    BY <1>3 DEF WriteFrom
  <2>2. call' = [op |-> "write", f |-> f, pc |-> "chain", a |-> a, b |-> 0, n |-> n, r |-> 0]
    BY <2>1 DEF At
  <2>3. a \in {0} \cup Clus
    BY <1>0
  <2>4. a # 0 => v.own[a] = Now(f) /\ v.idx[a] = x.pos /\ x.pos > 0
    BY <1>0
  <2>5. x.pos > 0 => x.sclust # 0
    BY <1>0, Numbers DEF Leads
  <2>6. a = 0 => x.pos = 0 /\ x.sclust = 0
    BY <1>0, <1>3, Numbers
  <2> HIDE DEF a
  <2>7. call' \in Call
    <3> DEFINE op == "write"
               pc == "chain"
               z == 0
    <3>1. op \in Ops /\ pc \in Pcs /\ z \in Int /\ z \in {0, EOC} \cup Clus /\ f \in Files \cup {NoFile}
      BY <1>1
    <3>2. call' = [op |-> op, f |-> f, pc |-> pc, a |-> a, b |-> z, n |-> n, r |-> z]
      BY <2>2
    <3> HIDE DEF op, pc, z
    <3>3. [op |-> op, f |-> f, pc |-> pc, a |-> a, b |-> z, n |-> n, r |-> z] \in Call
      BY <2>3, <3>1, CallMade
    <3> QED
      BY <3>2, <3>3
  <2>8. call'.op = "write" /\ call'.f = f /\ call'.pc = "chain" /\ call'.a = a /\ call'.n = n
    BY <2>2
  <2>9. a # 0 => Reached' = x.pos
    BY <2>8 DEF Reached
  <2>10. Growing(v, f)'
    BY <2>4, <2>5, <2>6, <2>8, <2>9 DEF Growing, Live, NoHand
  <2> QED
    BY <2>7, <2>8, <2>10 DEF CallOk
<1> QED
  BY <1>2, <1>3

\* f_write begins: at the start of the chain it has, or with create_chain.
LEMMA FWriteStep ==
  ASSUME NEW w, Inv(w), NEW f \in Files, NEW n \in Nat, n >= 1, FWrite(f, n)
  PROVE  IInv'
<1>1. /\ Types /\ Good(fat, w) /\ FileOk(w, f) /\ CanBegin /\ call = Idle /\ call.op = "none" /\ NoHand(w) /\ Shrinking = {}
      /\ fil[f].open /\ ~fil[f].err
  BY IdleIs DEF Inv, FWrite, Usable
<1>2. UNCHANGED <<fat, ents, fil, last, free, snap, crashes>> /\ UNCHANGED window /\ call' = [WriteFrom(f, fil[f]) EXCEPT !.n = n]
  BY DEF FWrite, hist, budget, Begin
<1>3. WindowTypes' /\ (Held \/ Wrote) /\ cut' \subseteq cut
  BY <1>1, <1>2, WindowStays
<1>4. Leads(w, Now(f), fil[f].sclust, fil[f].size, snap[f])
  BY <1>1 DEF FileOk, ObjectOk, StartNow, SizeNow
<1>5. /\ fil[f].pos <= fil[f].size
      /\ fil[f].pos > 0 => fil[f].clust \in Clus /\ w.own[fil[f].clust] = Now(f) /\ w.idx[fil[f].clust] = fil[f].pos
  BY <1>1 DEF FileOk, CursorOk, Seeking
<1>6. call' \in Call /\ call'.op = "write" /\ CallOk(w)'
  <2> DEFINE x == fil[f]
  <2>1. x \in Object /\ fil'[f] = x /\ x.open /\ ~x.err /\ call' = [WriteFrom(f, x) EXCEPT !.n = n]
    BY <1>1, <1>2, ObjectIs
  <2>2. Leads(w, Now(f), x.sclust, x.size, snap[f]) /\ x.pos <= x.size
        /\ (x.pos > 0 => x.clust \in Clus /\ w.own[x.clust] = Now(f) /\ w.idx[x.clust] = x.pos)
    BY <1>4, <1>5
  <2> HIDE DEF x
  <2> QED
    BY <1>1, <2>1, <2>2, WriteOn
<1> QED
  BY <1>1, <1>2, <1>3, <1>6, CallMoves

\* The object at the cluster c.
LEMMA EnterIs ==
  ASSUME NEW x \in Object, NEW c \in Clus
  PROVE  /\ Enter(x, c) \in Object /\ Enter(x, c).clust = c
         /\ Enter(x, c).sclust = IF x.sclust = 0 THEN c ELSE x.sclust
         /\ Enter(x, c).open = x.open /\ Enter(x, c).size = x.size /\ Enter(x, c).pos = x.pos
         /\ Enter(x, c).mod = x.mod /\ Enter(x, c).err = x.err
BY DEF Enter, Object

\* The object one cluster on.
LEMMA AdvanceIs ==
  ASSUME NEW x \in Object
  PROVE  /\ Advance(x) \in Object /\ Advance(x).pos = x.pos + 1
         /\ Advance(x).size = IF x.pos + 1 > x.size THEN x.pos + 1 ELSE x.size
         /\ Advance(x).open = x.open /\ Advance(x).sclust = x.sclust /\ Advance(x).clust = x.clust
         /\ Advance(x).mod = x.mod /\ Advance(x).err = x.err
<1> DEFINE p == x.pos + 1
           m == IF p > x.size THEN p ELSE x.size
<1>1. p \in Nat /\ m \in Nat
  BY DEF Object
<1>2. Advance(x) = [x EXCEPT !.pos = p, !.size = m]
  BY DEF Advance
<1> HIDE DEF p, m
<1>3. [x EXCEPT !.pos = p, !.size = m] \in Object
  BY <1>1 DEF Object
<1>4. LET y == [x EXCEPT !.pos = p, !.size = m]
      IN  /\ y.pos = p /\ y.size = m /\ y.open = x.open /\ y.sclust = x.sclust /\ y.clust = x.clust
          /\ y.mod = x.mod /\ y.err = x.err
  BY DEF Object
<1>5. m = IF x.pos + 1 > x.size THEN x.pos + 1 ELSE x.size
  BY DEF m, p
<1> QED
  BY <1>2, <1>3, <1>4, <1>5 DEF p

\* The object after an error.
LEMMA InErrorIs ==
  ASSUME NEW x \in Object
  PROVE  /\ InError(x) \in Object /\ InError(x).pos = 0
         /\ InError(x).open = x.open /\ InError(x).sclust = x.sclust /\ InError(x).size = x.size /\ InError(x).mod = x.mod
<1> DEFINE z == 0
<1>1. z \in {0} \cup Clus /\ z \in Nat
  OBVIOUS
<1>2. InError(x) = [x EXCEPT !.err = TRUE, !.pos = z, !.clust = z]
  BY DEF InError
<1> HIDE DEF z
<1>3. InError(x) \in Object
  BY <1>1, <1>2 DEF Object
<1> QED
  BY <1>2, <1>3 DEF z, Object

\* The object with FA_MODIFIED.
LEMMA MarkIs ==
  ASSUME NEW x \in Object
  PROVE  /\ [x EXCEPT !.mod = TRUE] \in Object
         /\ LET y == [x EXCEPT !.mod = TRUE]
            IN  y.open = x.open /\ y.sclust = x.sclust /\ y.size = x.size /\ y.pos = x.pos /\ y.clust = x.clust
                /\ y.mod /\ y.err = x.err
BY DEF Object

\* A step of a call that moves the object of its file and leaves the card alone.
LEMMA FileStep ==
  ASSUME NEW w, Inv(w), NEW v, NEW f \in Files, call.op \in {"none", "write", "lseek", "expand"}, call.op = "lseek" => call.f = f,
         NEW x \in Object, fil' = [fil EXCEPT ![f] = x],
         UNCHANGED <<fat, ents, disk, win, wflag, cut, last, free, snap, crashes>>,
         call' \in Call, call'.op # "truncate", Good(fat, v),
         \A g \in Files : g # f => Carries(w, v, Now(g), Now(g)) /\ Carries(w, v, Old(g), Old(g)),
         CallOk(v)',
         fil[f].open, x.open, fil[f].mod => x.mod, Leads(v, Now(f), x.sclust, x.size, snap[f]),
         Seen1(w, f, ents[f], snap[f]) => Seen1(v, f, ents[f], snap[f]),
         \/ Seeking(f)'
         \/ /\ x.pos <= x.size
            /\ x.pos > 0 => x.clust \in Clus /\ v.own[x.clust] = Now(f) /\ v.idx[x.clust] = x.pos
  PROVE  IInv'
<1>1. Types /\ WindowTypes
  BY DEF Inv, Types
<1>2. fil' \in [Files -> Object] /\ fil'[f] = x /\ \A g \in Files : g # f => fil'[g] = fil[g]
  BY <1>1, FilTo
<1>3. WindowTypes' /\ Held
  BY <1>1 DEF WindowTypes, Held
<1>4. Types'
  BY <1>1, <1>2, <1>3 DEF Types
<1>5. \A g \in Files : g # f => Alike(g)
  BY <1>2, OthersAlike
<1>6. f \notin Shrinking
  BY DEF Shrinking
<1>7. f \notin cut => Seen1(w, f, ents[f], snap[f])
  BY <1>6 DEF Inv, FileOk, EntryOk
<1>8. FileOk(v, f)'
  <2>1. ents'[f] = ents[f] /\ snap'[f] = snap[f] /\ (f \in cut' => f \in cut) /\ (f \notin cut' => Seen1(w, f, ents[f], snap[f]))
    BY <1>7
  <2> QED
    BY <1>2, <1>6, <2>1, FileGrows
<1>9. CardOk'
  BY <1>3, CardNext
<1>10. InWindow /\ Good(fat', v)
  BY SameFat
<1> QED
  BY <1>3, <1>4, <1>5, <1>8, <1>9, <1>10, OneFile

\* A call on a file that comes back with an error, or finds the volume full.
LEMMA FileStops ==
  ASSUME NEW w, Inv(w), NEW f \in Files, f = call.f, call.op \in {"write", "lseek"}, call.pc = "got", call.r \notin Clus,
         NEW x \in Object, fil' = [fil EXCEPT ![f] = x], NEW ok, Return(ok),
         UNCHANGED <<fat, ents, disk, win, wflag, cut, last, free, snap, crashes>>,
         fil[f].mod => x.mod, x.open = fil[f].open, x.sclust = fil[f].sclust, NEW m \in Nat, x.size = m,
         fil[f].size <= m, m > fil[f].size => fil[f].sclust # 0 /\ m <= w.len[Now(f)],
         /\ x.pos <= x.size
         /\ x.pos > 0 => x.clust \in Clus /\ w.own[x.clust] = Now(f) /\ w.idx[x.clust] = x.pos
  PROVE  IInv'
<1>1. /\ Types /\ Good(fat, w) /\ Typed(w) /\ FileOk(w, f) /\ Got(w, f) /\ fil[f].open /\ f \notin Shrinking
  BY DEF Inv, Good, CallOk, Idle, Growing, Removing, Expanding, Registering, Syncing, Ending, Live, Shrinking
<1>2. Leads(w, Now(f), fil[f].sclust, fil[f].size, snap[f])
  BY <1>1 DEF FileOk, ObjectOk, StartNow, SizeNow
<1>3. snap[f] \in Seq(Clus) /\ fil[f].size \in Nat /\ fil[f].sclust \in {0} \cup Clus
  BY <1>1, ObjectIs
<1>4. Leads(w, Now(f), x.sclust, x.size, snap[f])
  <2>1. CASE m > fil[f].size
    BY <1>2, <1>3, <2>1, LeadsLonger
  <2>2. CASE m = fil[f].size
    BY <1>2, <2>2
  <2> QED
    BY <1>3, <2>1, <2>2
<1>5. call' = Idle /\ call' \in Call /\ call'.op # "truncate"
  BY IdleTypes DEF Return
<1>6. CallOk(w)'
  BY <1>1, <1>5 DEF CallOk, NoHand, Got
<1> QED
  BY <1>1, <1>4, <1>5, <1>6, CarryAll, FileStep

\* f_write has its cluster: the object is one cluster on in its chain.
LEMMA WriteGotStep ==
  ASSUME NEW w, Inv(w), WriteGot
  PROVE  IInv'
<1>0. PICK f \in Files : f = call.f
  BY DEF WriteGot, Inv, CallOk, Idle
<1> DEFINE r == call.r
           x == Advance(Enter(fil[f], r))
           y == [x EXCEPT !.mod = TRUE]
<1>1. /\ Types /\ Good(fat, w) /\ Typed(w) /\ FileOk(w, f) /\ f = call.f /\ Growing(w, f) /\ Got(w, f)
      /\ call.op = "write" /\ call.pc = "got" /\ fil[f].open /\ ~fil[f].err /\ call.n \in Nat /\ call.n >= 1
      /\ f \notin Shrinking
  BY <1>0, CallTypes DEF WriteGot, Inv, Good, CallOk, Idle, Growing, Removing, Expanding, Registering, Syncing, Ending, Live, Shrinking
<1>2. UNCHANGED <<fat, ents, disk, win, wflag, cut, last, free, snap, crashes>>
  BY DEF WriteGot, hist, budget
<1>3. /\ fil[f] \in Object /\ fil[f].size \in Nat /\ fil[f].pos \in Nat /\ snap[f] \in Seq(Clus)
      /\ fil[f].sclust \in {0} \cup Clus
  BY <1>1, ObjectIs
<1>4. /\ fil[f].pos <= fil[f].size
      /\ fil[f].pos > 0 => fil[f].clust \in Clus /\ w.own[fil[f].clust] = Now(f) /\ w.idx[fil[f].clust] = fil[f].pos
  BY <1>1 DEF FileOk, CursorOk, Seeking
<1>5. \/ r \notin Clus \cup {Full} /\ fil' = [fil EXCEPT ![f] = InError(fil[f])] /\ Return(FALSE)
      \/ r = Full /\ fil' = [fil EXCEPT ![f] = [fil[f] EXCEPT !.mod = TRUE]] /\ Return(TRUE)
      \/ r \in Clus /\ fil' = [fil EXCEPT ![f] = InError(Enter(fil[f], r))] /\ Return(FALSE)
      \/ r \in Clus /\ call.n = 1 /\ fil' = [fil EXCEPT ![f] = y] /\ Return(TRUE)
      \/ r \in Clus /\ call.n # 1 /\ fil' = [fil EXCEPT ![f] = x] /\ Goto([WriteFrom(f, x) EXCEPT !.n = call.n - 1])
  BY <1>1 DEF WriteGot, Abort
<1> HIDE DEF r, x, y
<1>6. CASE r \notin Clus /\ fil' = [fil EXCEPT ![f] = InError(fil[f])] /\ Return(FALSE)
  <2> DEFINE q == InError(fil[f])
  <2>1. /\ q \in Object /\ q.pos = 0 /\ q.open = fil[f].open /\ q.sclust = fil[f].sclust /\ q.size = fil[f].size
        /\ q.mod = fil[f].mod /\ fil' = [fil EXCEPT ![f] = q]
    BY <1>3, <1>6, InErrorIs
  <2>2. call.r \notin Clus /\ Return(FALSE)
    BY <1>6 DEF r
  <2> HIDE DEF q
  <2> DEFINE m == fil[f].size
  <2>3. m \in Nat /\ q.size = m /\ fil[f].size <= m /\ ~(m > fil[f].size) /\ q.pos <= q.size /\ ~(q.pos > 0)
        /\ (fil[f].mod => q.mod)
    BY <1>3, <2>1
  <2> HIDE DEF m
  <2>4. call.op \in {"write", "lseek"} /\ call.pc = "got"
    BY <1>1
  <2> QED
    BY <1>0, <1>2, <2>1, <2>2, <2>3, <2>4, FileStops
<1>7. CASE r = Full /\ fil' = [fil EXCEPT ![f] = [fil[f] EXCEPT !.mod = TRUE]] /\ Return(TRUE)
  <2> DEFINE q == [fil[f] EXCEPT !.mod = TRUE]
  <2>1. /\ q \in Object /\ q.pos = fil[f].pos /\ q.clust = fil[f].clust /\ q.open = fil[f].open /\ q.sclust = fil[f].sclust /\ q.size = fil[f].size
        /\ q.mod /\ fil' = [fil EXCEPT ![f] = q]
    BY <1>3, <1>7, MarkIs
  <2>2. call.r \notin Clus /\ Return(TRUE)
    BY <1>7, Numbers DEF r
  <2> HIDE DEF q
  <2> DEFINE m == fil[f].size
  <2>3. m \in Nat /\ q.size = m /\ fil[f].size <= m /\ ~(m > fil[f].size) /\ (fil[f].mod => q.mod)
    BY <1>3, <2>1
  <2>4. /\ q.pos <= q.size
        /\ q.pos > 0 => q.clust \in Clus /\ w.own[q.clust] = Now(f) /\ w.idx[q.clust] = q.pos
    BY <1>4, <2>1
  <2> HIDE DEF m
  <2>5. call.op \in {"write", "lseek"} /\ call.pc = "got"
    BY <1>1
  <2> QED
    BY <1>0, <1>2, <2>1, <2>2, <2>3, <2>4, <2>5, FileStops
<1>8. CASE r \in Clus
  <2> DEFINE S == IF fil[f].sclust = 0 THEN r ELSE fil[f].sclust
  <2>1. PICK v : /\ Good(fat, v) /\ NoHand(v)
                 /\ v.own[r] = Now(f) /\ v.idx[r] = Reached + 1
                 /\ Leads(v, Now(f), S, fil[f].size, snap[f])
                 /\ Seen1(w, f, ents[f], snap[f]) => Seen1(v, f, ents[f], snap[f])
                 /\ \A g \in Files : g # f => Carries(w, v, Now(g), Now(g)) /\ Carries(w, v, Old(g), Old(g))
    BY <1>1, <1>8, GotCluster DEF r
  <2>2. S \in Clus
    BY <1>3, <1>8
  <2> HIDE DEF S
  <2>3. Reached = fil[f].pos
    BY <1>1 DEF Growing, Reached
  <2>4. fil[f].pos + 1 <= v.len[Now(f)] /\ v.len[Now(f)] \in Nat
    BY <1>8, <2>1, <2>3, PlaceInside
  <2> DEFINE z == Enter(fil[f], r)
  <2>5. /\ z \in Object /\ z.clust = r /\ z.sclust = S /\ z.open = fil[f].open /\ z.size = fil[f].size /\ z.pos = fil[f].pos
        /\ z.mod = fil[f].mod /\ z.err = fil[f].err
    BY <1>3, <1>8, EnterIs DEF S
  <2>6. x = Advance(z)
    BY DEF x
  <2> HIDE DEF z
  <2>7. CASE fil' = [fil EXCEPT ![f] = InError(z)] /\ Return(FALSE)
    <3> DEFINE q == InError(z)
    <3>1. /\ q \in Object /\ q.pos = 0 /\ q.open /\ q.sclust = S /\ q.size = fil[f].size
          /\ q.mod = fil[f].mod /\ fil' = [fil EXCEPT ![f] = q]
      BY <1>1, <2>5, <2>7, InErrorIs
    <3>2. call' = Idle /\ call' \in Call /\ call'.op # "truncate"
      BY <2>7, IdleTypes DEF Return
    <3>3. CallOk(v)'
      BY <2>1, <3>2 DEF CallOk, NoHand
    <3> HIDE DEF q
    <3>4. q.pos <= q.size /\ ~(q.pos > 0) /\ Leads(v, Now(f), q.sclust, q.size, snap[f])
      BY <1>3, <2>1, <3>1
    <3>5. fil[f].mod => q.mod
      BY <3>1
    <3> QED
      BY <1>1, <1>2, <2>1, <3>1, <3>2, <3>3, <3>4, <3>5, FileStep
  <2>8. /\ x \in Object /\ x.clust = r /\ x.sclust = S /\ x.open /\ x.pos = fil[f].pos + 1
        /\ x.size = (IF fil[f].pos + 1 > fil[f].size THEN fil[f].pos + 1 ELSE fil[f].size)
        /\ x.mod = fil[f].mod /\ ~x.err
    <3>1. /\ x \in Object /\ x.pos = z.pos + 1 /\ x.size = (IF z.pos + 1 > z.size THEN z.pos + 1 ELSE z.size)
          /\ x.open = z.open /\ x.sclust = z.sclust /\ x.clust = z.clust /\ x.mod = z.mod /\ x.err = z.err
      <4> HIDE DEF x
      <4> QED
        BY <2>5, <2>6, AdvanceIs
    <3> QED
      BY <1>1, <2>5, <3>1
  <2>9. x.size \in Nat /\ x.pos <= x.size /\ fil[f].size <= x.size
    BY <1>3, <2>8
  <2>10. Leads(v, Now(f), S, x.size, snap[f])
    <3>1. CASE fil[f].pos + 1 > fil[f].size
      BY <1>3, <2>1, <2>2, <2>4, <2>8, <2>9, <3>1, LeadsLonger
    <3>2. CASE ~(fil[f].pos + 1 > fil[f].size)
      BY <2>1, <2>8, <3>2
    <3> QED
      BY <3>1, <3>2
  <2>11. CASE call.n = 1 /\ fil' = [fil EXCEPT ![f] = y] /\ Return(TRUE)
    <3>1. y \in Object /\ y.open /\ y.sclust = S /\ y.size = x.size /\ y.pos = x.pos /\ y.clust = r /\ y.mod
      BY <2>8, MarkIs DEF y
    <3>2. call' = Idle /\ call' \in Call /\ call'.op # "truncate"
      BY <2>11, IdleTypes DEF Return
    <3>3. CallOk(v)'
      BY <2>1, <3>2 DEF CallOk, NoHand
    <3>4. y.pos <= y.size /\ y.clust \in Clus /\ v.own[y.clust] = Now(f) /\ v.idx[y.clust] = y.pos /\ Leads(v, Now(f), y.sclust, y.size, snap[f])
      BY <1>8, <2>1, <2>3, <2>8, <2>9, <2>10, <3>1
    <3> QED
      BY <1>1, <1>2, <2>1, <2>11, <3>1, <3>2, <3>3, <3>4, FileStep
  <2>12. CASE call.n # 1 /\ fil' = [fil EXCEPT ![f] = x] /\ Goto([WriteFrom(f, x) EXCEPT !.n = call.n - 1])
    <3> DEFINE n == call.n - 1
    <3>1. n \in Nat /\ n >= 1 /\ call' = [WriteFrom(f, x) EXCEPT !.n = n]
      BY <1>1, <2>12 DEF Goto
    <3> HIDE DEF n
    <3>2. fil'[f] = x
      BY <1>1, <2>8, <2>12, FilTo
    <3>3. x.clust \in Clus /\ v.own[x.clust] = Now(f) /\ v.idx[x.clust] = x.pos /\ Leads(v, Now(f), x.sclust, x.size, snap[f])
      BY <1>8, <2>1, <2>3, <2>8, <2>10
    <3>4. call' \in Call /\ call'.op = "write" /\ call'.f = f /\ CallOk(v)'
      BY <2>1, <2>8, <2>9, <3>1, <3>2, <3>3, WriteOn
    <3>5. fil[f].mod => x.mod
      BY <2>8
    <3> QED
      BY <1>1, <1>2, <2>1, <2>8, <2>9, <2>12, <3>3, <3>4, <3>5, FileStep
  <2> QED
    BY <1>5, <1>8, <2>7, <2>11, <2>12, Numbers DEF z
<1> QED
  BY <1>5, <1>6, <1>7, <1>8

-----------------------------------------------------------------------------
(* f_lseek.                                                                *)

\* The object of f_lseek where it arrives.
LEMMA ArriveIs ==
  ASSUME NEW x \in Object, NEW n \in Nat
  PROVE  /\ Arrive(x, n) \in Object /\ Arrive(x, n).pos = n
         /\ Arrive(x, n).size = IF n > x.size THEN n ELSE x.size
         /\ Arrive(x, n).open = x.open /\ Arrive(x, n).sclust = x.sclust /\ Arrive(x, n).clust = x.clust
         /\ (x.mod => Arrive(x, n).mod) /\ Arrive(x, n).err = x.err
<1> DEFINE m == IF n > x.size THEN n ELSE x.size
           d == IF n > x.size THEN TRUE ELSE x.mod
<1>1. m \in Nat /\ d \in BOOLEAN /\ (x.mod => d)
  BY DEF Object
<1>2. Arrive(x, n) = [x EXCEPT !.pos = n, !.size = m, !.mod = d]
  BY DEF Arrive
<1>5. m = IF n > x.size THEN n ELSE x.size
  BY DEF m
<1> HIDE DEF m, d
<1>3. [x EXCEPT !.pos = n, !.size = m, !.mod = d] \in Object
  BY <1>1 DEF Object
<1>4. LET y == [x EXCEPT !.pos = n, !.size = m, !.mod = d]
      IN  /\ y.pos = n /\ y.size = m /\ y.open = x.open /\ y.sclust = x.sclust /\ y.clust = x.clust
          /\ y.mod = d /\ y.err = x.err
  BY DEF Object
<1> QED
  BY <1>1, <1>2, <1>3, <1>4, <1>5

\* Where f_lseek stands: at the current cluster, whose place is one past fptr.
Standing(v, f, x) ==
  /\ x.clust = 0 => x.pos = 0 /\ x.sclust = 0
  /\ x.clust # 0 => x.sclust # 0 /\ x.clust \in Clus /\ v.own[x.clust] = Now(f) /\ v.idx[x.clust] = x.pos + 1

\* It arrives one cluster further on.
Arrival(x, y) == x.clust # 0 /\ y = Arrive(x, x.pos + 1)

\* f_lseek arrives in the cluster it has got.
LEMMA SeekArrives ==
  ASSUME NEW t, NEW v, Good(t, v), NEW f \in Files, NEW x \in Object, Standing(v, f, x),
         NEW s \in Seq(Clus), Leads(v, Now(f), x.sclust, x.size, s), NEW y, Arrival(x, y)
  PROVE  /\ y \in Object /\ y.open = x.open /\ (x.mod => y.mod)
         /\ Leads(v, Now(f), y.sclust, y.size, s)
         /\ y.pos <= y.size
         /\ y.clust \in Clus /\ v.own[y.clust] = Now(f) /\ v.idx[y.clust] = y.pos
<1> DEFINE n == x.pos + 1
<1>1. x.clust \in Clus /\ v.own[x.clust] = Now(f) /\ v.idx[x.clust] = n
  BY DEF Standing, Arrival
<1>y. y = Arrive(x, n)
  BY DEF Arrival
<1>n. n = x.pos + 1
  OBVIOUS
<1>2. n \in Nat /\ x.size \in Nat /\ x.pos \in Nat /\ n >= 1 /\ x.sclust \in {0} \cup Clus
  BY DEF Object
<1> HIDE DEF n
<1>3. n <= v.len[Now(f)]
  BY <1>1, PlaceInside
<1>4. /\ y \in Object /\ y.pos = n
      /\ y.size = IF n > x.size THEN n ELSE x.size
      /\ y.open = x.open /\ y.sclust = x.sclust /\ y.clust = x.clust /\ (x.mod => y.mod)
  BY <1>2, <1>y, ArriveIs
<1>5. x.sclust # 0
  BY DEF Standing, Arrival
<1>6. Leads(v, Now(f), x.sclust, y.size, s)
  <2>1. CASE n > x.size
    <3> DEFINE S == x.sclust
               k == x.size
    <3>1. S \in Clus /\ k \in Nat /\ k <= n /\ Leads(v, Now(f), S, k, s)
      BY <1>2, <1>5, <2>1
    <3> HIDE DEF S, k
    <3>2. Leads(v, Now(f), S, n, s)
      BY <1>2, <1>3, <3>1, LeadsLonger
    <3> QED
      BY <1>4, <2>1, <3>2 DEF S, k
  <2>2. CASE ~(n > x.size)
    BY <1>4, <2>2
  <2> QED
    BY <2>1, <2>2
<1>7. y.pos <= y.size
  BY <1>2, <1>4
<1> QED
  BY <1>1, <1>4, <1>6, <1>7

\* It has n clusters to go, and calls create_chain.
LEMMA SeekGoes ==
  ASSUME NEW v, NoHand(v), NEW f \in Files, NEW x \in Object, x.open, ~x.err, fil'[f] = x, Standing(v, f, x),
         NEW n \in Nat, n >= 1, ~(x.clust # 0 /\ n = 1),
         call'.op = "lseek", call'.f = f, call'.pc = "chain", call'.a = x.clust, call'.n = n
  PROVE  CallOk(v)' /\ Seeking(f)'
<1>1. x.pos \in Nat /\ x.clust \in {0} \cup Clus
  BY DEF Object
<1>2. call'.a # 0 => Reached' = x.pos + 1 /\ call'.n >= 2
  BY DEF Reached
<1>3. Growing(v, f)'
  BY <1>1, <1>2 DEF Growing, Live, Standing, NoHand
<1> QED
  BY <1>3 DEF CallOk, Seeking

\* Where f_lseek to k > 0 starts from.
LEMMA SeekStarts ==
  ASSUME NEW w, NEW f \in Files, NEW y \in Object, NEW k \in Nat, k >= 1, NEW s,
         Leads(w, Now(f), y.sclust, y.size, s), y.pos <= y.size,
         y.pos > 0 => y.clust \in Clus /\ w.own[y.clust] = Now(f) /\ w.idx[y.clust] = y.pos
  PROVE  LET x == SeekFrom(f, k, y)
         IN  /\ x \in Object /\ x.open = y.open /\ x.err = y.err /\ x.mod = y.mod /\ x.sclust = y.sclust /\ x.size = y.size
             /\ k - x.pos \in Nat /\ k - x.pos >= 1 /\ Standing(w, f, x)
<1>0. y.pos \in Nat /\ y.size \in Nat /\ y.sclust \in {0} \cup Clus
  BY DEF Object
<1>1. CASE y.pos > 0 /\ k >= y.pos
  <2> DEFINE p == y.pos - 1
             x == [y EXCEPT !.pos = p]
  <2>1. p \in Nat /\ k - p \in Nat /\ k - p >= 1 /\ p + 1 = y.pos
    BY <1>0, <1>1
  <2>2. SeekFrom(f, k, y) = x
    BY <1>1 DEF SeekFrom
  <2> HIDE DEF p
  <2>3. /\ x \in Object /\ x.open = y.open /\ x.err = y.err /\ x.mod = y.mod /\ x.sclust = y.sclust /\ x.size = y.size
        /\ x.pos = p /\ x.clust = y.clust
    BY <2>1 DEF Object
  <2> HIDE DEF x
  <2>4. y.sclust # 0
    BY <1>0, <1>1, Numbers DEF Leads
  <2>5. Standing(w, f, x)
    BY <1>1, <2>1, <2>3, <2>4, Numbers DEF Standing
  <2> QED
    BY <2>1, <2>2, <2>3, <2>5
<1>2. CASE ~(y.pos > 0 /\ k >= y.pos)
  <2> DEFINE z == 0
             x == [y EXCEPT !.pos = z, !.clust = y.sclust]
  <2>1. z \in Nat /\ k - z \in Nat /\ k - z >= 1 /\ z + 1 = 1
    OBVIOUS
  <2>2. SeekFrom(f, k, y) = x
    BY <1>2 DEF SeekFrom
  <2>z. z = 0
    OBVIOUS
  <2> HIDE DEF z
  <2>3. /\ x \in Object /\ x.open = y.open /\ x.err = y.err /\ x.mod = y.mod /\ x.sclust = y.sclust /\ x.size = y.size
        /\ x.pos = z /\ x.clust = y.sclust
    BY <1>0, <2>1 DEF Object
  <2> HIDE DEF x
  <2>4. y.sclust # 0 => w.own[y.sclust] = Now(f) /\ w.idx[y.sclust] = 1 /\ y.sclust \in Clus
    BY DEF Leads
  <2>5. Standing(w, f, x)
    BY <2>1, <2>z, <2>3, <2>4 DEF Standing
  <2> QED
    BY <2>1, <2>2, <2>3, <2>5
<1> QED
  BY <1>1, <1>2

\* f_lseek begins: at the current cluster or at the start of the chain.
LEMMA FLseekStep ==
  ASSUME NEW w, Inv(w), NEW f \in Files, NEW k \in Nat, FLseek(f, k)
  PROVE  IInv'
<1>1. /\ Types /\ Good(fat, w) /\ FileOk(w, f) /\ call = Idle /\ call.op = "none" /\ NoHand(w) /\ Shrinking = {}
      /\ fil[f].open /\ ~fil[f].err
  BY IdleIs DEF Inv, FLseek, Usable
<1>2. UNCHANGED <<fat, ents, disk, win, wflag, cut, last, free, snap, crashes>>
  BY DEF FLseek, hist, budget, window
<1>3. /\ fil[f] \in Object /\ fil[f].size \in Nat /\ snap[f] \in Seq(Clus) /\ Typed(w)
  BY <1>1, ObjectIs DEF Good
<1>4. Leads(w, Now(f), fil[f].sclust, fil[f].size, snap[f])
  BY <1>1 DEF FileOk, ObjectOk, StartNow, SizeNow
<1>5. /\ fil[f].pos <= fil[f].size
      /\ fil[f].pos > 0 => fil[f].clust \in Clus /\ w.own[fil[f].clust] = Now(f) /\ w.idx[fil[f].clust] = fil[f].pos
  BY <1>1 DEF FileOk, CursorOk, Seeking
<1>6. \A g \in Files : g # f => Carries(w, w, Now(g), Now(g)) /\ Carries(w, w, Old(g), Old(g))
  BY <1>1, CarryAll
<1>7. (CallOk(w)' /\ call' \in Call /\ call'.op # "truncate") \/ call' # call
  BY <1>1, IdleTypes DEF CallOk, NoHand
<1>8. CASE k = 0
  <2> DEFINE z == 0
             x == [fil[f] EXCEPT !.pos = z, !.clust = z]
  <2>1. fil' = [fil EXCEPT ![f] = x] /\ call' = call
    BY <1>1, <1>8 DEF FLseek, ReturnAtOnce, Types
  <2>2. z \in Nat /\ z \in {0} \cup Clus /\ z = 0
    OBVIOUS
  <2> HIDE DEF z
  <2>3. x \in Object /\ x.open = fil[f].open /\ x.sclust = fil[f].sclust /\ x.size = fil[f].size /\ x.mod = fil[f].mod /\ x.pos = z
    BY <1>3, <2>2 DEF Object
  <2> HIDE DEF x
  <2>4. x.open /\ (fil[f].mod => x.mod) /\ Leads(w, Now(f), x.sclust, x.size, snap[f]) /\ x.pos <= x.size /\ ~(x.pos > 0)
    BY <1>1, <1>3, <1>4, <2>2, <2>3
  <2>5. CallOk(w)' /\ call' \in Call /\ call'.op # "truncate"
    BY <1>7, <2>1
  <2> QED
    BY <1>1, <1>2, <1>6, <2>1, <2>3, <2>4, <2>5, FileStep
<1>9. CASE k # 0
  <2> DEFINE x == SeekFrom(f, k, fil[f])
             n == k - x.pos
  <2>1. /\ x \in Object /\ x.open /\ ~x.err /\ x.mod = fil[f].mod /\ x.sclust = fil[f].sclust /\ x.size = fil[f].size
        /\ n \in Nat /\ n >= 1 /\ Standing(w, f, x)
    <3> DEFINE y == fil[f]
               s == snap[f]
    <3>1. /\ y \in Object /\ k >= 1 /\ Leads(w, Now(f), y.sclust, y.size, s) /\ y.pos <= y.size
          /\ y.pos > 0 => y.clust \in Clus /\ w.own[y.clust] = Now(f) /\ w.idx[y.clust] = y.pos
      BY <1>3, <1>4, <1>5, <1>9
    <3> HIDE DEF y, s
    <3>2. LET u == SeekFrom(f, k, y)
          IN  /\ u \in Object /\ u.open = y.open /\ u.err = y.err /\ u.mod = y.mod /\ u.sclust = y.sclust /\ u.size = y.size
              /\ k - u.pos \in Nat /\ k - u.pos >= 1 /\ Standing(w, f, u)
      BY <3>1, SeekStarts
    <3> QED
      BY <1>1, <3>2 DEF y
  <2>2. /\ SeekOn(f, x, n)
        /\ IF x.clust # 0 /\ n = 1 THEN call' = call
           ELSE call' = At("lseek", f, "chain", x.clust, 0, n)
    BY <1>9 DEF FLseek, ReturnAtOnce, Begin
  <2> HIDE DEF x, n
  <2>3. Leads(w, Now(f), x.sclust, x.size, snap[f])
    BY <1>4, <2>1
  <2>4. CASE x.clust # 0 /\ n = 1
    <3> DEFINE y == Arrive(x, x.pos + 1)
    <3>1. /\ y \in Object /\ y.open = x.open /\ (x.mod => y.mod)
          /\ Leads(w, Now(f), y.sclust, y.size, snap[f])
          /\ y.pos <= y.size
          /\ y.clust \in Clus /\ w.own[y.clust] = Now(f) /\ w.idx[y.clust] = y.pos
      <4> DEFINE s == snap[f]
      <4>1. s \in Seq(Clus) /\ Leads(w, Now(f), x.sclust, x.size, s) /\ Arrival(x, y)
        BY <1>3, <2>3, <2>4 DEF Arrival
      <4> HIDE DEF s, y
      <4>2. /\ y \in Object /\ y.open = x.open /\ (x.mod => y.mod)
            /\ Leads(w, Now(f), y.sclust, y.size, s)
            /\ y.pos <= y.size
            /\ y.clust \in Clus /\ w.own[y.clust] = Now(f) /\ w.idx[y.clust] = y.pos
        <5>1. Good(fat, w) /\ x \in Object /\ Standing(w, f, x)
          BY <1>1, <2>1
        <5> QED
          BY <4>1, <5>1, SeekArrives
      <4> QED
        BY <4>2 DEF s
    <3>2. fil' = [fil EXCEPT ![f] = y] /\ call' = call
      BY <2>2, <2>4 DEF SeekOn
    <3> HIDE DEF y
    <3>3. CallOk(w)' /\ call' \in Call /\ call'.op # "truncate"
      BY <1>7, <3>2
    <3>4. y.open /\ (fil[f].mod => y.mod)
      BY <2>1, <3>1
    <3> QED
      BY <1>1, <1>2, <1>6, <3>1, <3>2, <3>3, <3>4, FileStep
  <2>5. CASE ~(x.clust # 0 /\ n = 1)
    <3>1. fil' = [fil EXCEPT ![f] = x] /\ call' = At("lseek", f, "chain", x.clust, 0, n)
      BY <2>2, <2>5 DEF SeekOn
    <3>2. fil'[f] = x
      BY <1>1, <2>1, <3>1, FilTo
    <3>3. /\ call' \in Call /\ call'.op = "lseek" /\ call'.f = f /\ call'.pc = "chain" /\ call'.a = x.clust /\ call'.n = n
      <4> DEFINE op == "lseek"
                 pc == "chain"
                 z == 0
                 a == x.clust
      <4>1. op \in Ops /\ pc \in Pcs /\ z \in {0, EOC} \cup Clus /\ a \in {0} \cup Clus
        BY <2>1 DEF Ops, Pcs, Object
      <4>2. call' = At(op, f, pc, a, z, n)
        BY <3>1
      <4> HIDE DEF op, pc, z, a
      <4>3. /\ At(op, f, pc, a, z, n) \in Call
            /\ At(op, f, pc, a, z, n).op = op /\ At(op, f, pc, a, z, n).f = f /\ At(op, f, pc, a, z, n).pc = pc
            /\ At(op, f, pc, a, z, n).a = a /\ At(op, f, pc, a, z, n).n = n
        BY <2>1, <4>1, AtTypes
      <4> QED
        BY <4>2, <4>3 DEF op, pc, a
    <3>4. CallOk(w)' /\ Seeking(f)'
      BY <1>1, <2>1, <2>5, <3>2, <3>3, SeekGoes
    <3>5. call'.op # "truncate" /\ (fil[f].mod => x.mod)
      BY <2>1, <3>3
    <3> QED
      BY <1>1, <1>2, <1>6, <2>1, <2>3, <3>1, <3>3, <3>4, <3>5, FileStep
  <2> QED
    BY <2>4, <2>5
<1> QED
  BY <1>8, <1>9

\* create_chain has come back to f_lseek with the cluster r: the object then,
\* and what the call does with n clusters to go.
Sought(y, r, a) == IF a = 0 THEN [y EXCEPT !.sclust = r, !.clust = r] ELSE [y EXCEPT !.clust = r, !.pos = @ + 1]

\* How many clusters f_lseek has to go after the one it got.
ToGo == IF call.a = 0 THEN call.n ELSE call.n - 1

\* f_lseek has arrived or calls create_chain again.
SeekTurns(r, n) == IF n = 1 THEN Return(TRUE) ELSE call' = [call EXCEPT !.pc = "chain", !.a = r, !.n = n]

\* The object of f_lseek with its next cluster.
LEMMA SoughtIs ==
  ASSUME NEW y \in Object, NEW r \in Clus, NEW a,
         NEW x, x = Sought(y, r, a)
  PROVE  /\ x \in Object /\ x.open = y.open /\ x.err = y.err /\ x.mod = y.mod /\ x.size = y.size /\ x.clust = r
         /\ x.sclust = (IF a = 0 THEN r ELSE y.sclust)
         /\ x.pos = (IF a = 0 THEN y.pos ELSE y.pos + 1)
<1>1. CASE a = 0
  <2>0. x = [y EXCEPT !.sclust = r, !.clust = r]
    BY <1>1 DEF Sought
  <2>1. /\ x \in Object /\ x.open = y.open /\ x.err = y.err /\ x.mod = y.mod /\ x.size = y.size /\ x.clust = r
        /\ x.sclust = r /\ x.pos = y.pos
    BY <2>0 DEF Object
  <2> QED
    BY <1>1, <2>1
<1>2. CASE a # 0
  <2> DEFINE n == y.pos + 1
  <2>1. n \in Nat
    BY DEF Object
  <2>2. x = [y EXCEPT !.clust = r, !.pos = n]
    BY <1>2 DEF Sought
  <2>n. n = y.pos + 1
    OBVIOUS
  <2> HIDE DEF n
  <2>3. /\ x \in Object /\ x.open = y.open /\ x.err = y.err /\ x.mod = y.mod /\ x.size = y.size /\ x.clust = r
        /\ x.sclust = y.sclust /\ x.pos = n
    BY <2>1, <2>2 DEF Object
  <2> QED
    BY <1>2, <2>2, <2>3, <2>n
<1> QED
  BY <1>1, <1>2

\* f_lseek with the cluster r goes on, or is done.
LEMMA SeekFound ==
  ASSUME NEW w, Inv(w), NEW f \in Files, f = call.f, Growing(w, f), call.op = "lseek", call.pc = "got", call.r \in Clus,
         UNCHANGED <<fat, ents, disk, win, wflag, cut, last, free, snap, crashes>>,
         NEW x, x = Sought(fil[f], call.r, call.a), NEW n, n = ToGo,
         SeekOn(f, x, n),
         SeekTurns(call.r, n)
  PROVE  IInv'
<1>1. Types /\ Good(fat, w) /\ fil[f].open /\ call.n \in Nat
  BY CallTypes DEF Inv, Growing, Live
<1>2. /\ fil[f] \in Object /\ fil[f].size \in Nat /\ fil[f].pos \in Nat /\ snap[f] \in Seq(Clus)
      /\ fil[f].sclust \in {0} \cup Clus
  BY <1>1, ObjectIs
<1>x. /\ x \in Object /\ x.open /\ ~x.err /\ x.mod = fil[f].mod /\ x.size = fil[f].size /\ x.clust = call.r
      /\ x.sclust = (IF call.a = 0 THEN call.r ELSE fil[f].sclust)
      /\ x.pos = (IF call.a = 0 THEN fil[f].pos ELSE fil[f].pos + 1)
  <2> DEFINE y == fil[f]
             r == call.r
             a == call.a
  <2>1. y \in Object /\ r \in Clus /\ x = Sought(y, r, a)
    BY <1>2
  <2> HIDE DEF y, r, a
  <2>2. /\ x \in Object /\ x.open = y.open /\ x.err = y.err /\ x.mod = y.mod /\ x.size = y.size /\ x.clust = r
        /\ x.sclust = (IF a = 0 THEN r ELSE y.sclust)
        /\ x.pos = (IF a = 0 THEN y.pos ELSE y.pos + 1)
    BY <2>1, SoughtIs
  <2> QED
    BY <1>1, <2>2 DEF y, r, a, Growing, Live
<1> DEFINE S == IF fil[f].sclust = 0 THEN call.r ELSE fil[f].sclust
<1>3. PICK v : /\ Good(fat, v) /\ NoHand(v)
               /\ v.own[call.r] = Now(f) /\ v.idx[call.r] = Reached + 1
               /\ Leads(v, Now(f), S, fil[f].size, snap[f])
               /\ Seen1(w, f, ents[f], snap[f]) => Seen1(v, f, ents[f], snap[f])
               /\ \A g \in Files : g # f => Carries(w, v, Now(g), Now(g)) /\ Carries(w, v, Old(g), Old(g))
  BY GotCluster
<1>4. /\ call.n >= 1 /\ (call.a = 0 => fil[f].pos = 0 /\ fil[f].sclust = 0 /\ Reached = 0)
      /\ (call.a # 0 => fil[f].sclust # 0 /\ call.n >= 2 /\ Reached = fil[f].pos + 1)
  BY DEF Growing, Reached
<1>5. x.sclust = S /\ n \in Nat /\ n >= 1 /\ x.pos \in Nat /\ x.pos = Reached /\ x.clust # 0 /\ x.sclust # 0
  <2>1. call.r # 0
    BY Numbers
  <2>2. CASE call.a = 0
    <3>1. n = call.n /\ x.pos = fil[f].pos /\ x.sclust = call.r /\ fil[f].sclust = 0 /\ fil[f].pos = 0 /\ Reached = 0 /\ call.n >= 1
      BY <1>x, <1>4, <2>2 DEF ToGo
    <3> QED
      BY <1>1, <1>x, <2>1, <3>1
  <2>3. CASE call.a # 0
    <3>1. /\ n = call.n - 1 /\ x.pos = fil[f].pos + 1 /\ x.sclust = fil[f].sclust /\ fil[f].sclust # 0
          /\ Reached = fil[f].pos + 1 /\ call.n >= 2
      BY <1>x, <1>4, <2>3 DEF ToGo
    <3> QED
      BY <1>1, <1>2, <1>x, <2>1, <3>1
  <2> QED
    BY <2>2, <2>3
<1> HIDE DEF S
<1>6. Standing(v, f, x) /\ Leads(v, Now(f), x.sclust, x.size, snap[f])
  BY <1>x, <1>3, <1>5 DEF Standing
<1>7. CASE n = 1
  <2> DEFINE m == x.pos + 1
             y == Arrive(x, m)
  <2>1. fil' = [fil EXCEPT ![f] = y] /\ m = x.pos + 1 /\ Return(TRUE)
    BY <1>5, <1>7 DEF SeekOn, SeekTurns
  <2>2. Arrival(x, y)
    BY <1>5 DEF Arrival
  <2> HIDE DEF m, y
  <2>3. /\ y \in Object /\ y.open = x.open /\ (x.mod => y.mod)
        /\ Leads(v, Now(f), y.sclust, y.size, snap[f])
        /\ y.pos <= y.size
        /\ y.clust \in Clus /\ v.own[y.clust] = Now(f) /\ v.idx[y.clust] = y.pos
    <3> DEFINE s == snap[f]
    <3>1. s \in Seq(Clus) /\ Leads(v, Now(f), x.sclust, x.size, s)
      BY <1>2, <1>6
    <3> HIDE DEF s
    <3>2. /\ y \in Object /\ y.open = x.open /\ (x.mod => y.mod)
          /\ Leads(v, Now(f), y.sclust, y.size, s)
          /\ y.pos <= y.size
          /\ y.clust \in Clus /\ v.own[y.clust] = Now(f) /\ v.idx[y.clust] = y.pos
      <4>1. Good(fat, v) /\ Standing(v, f, x) /\ x \in Object
        BY <1>x, <1>3, <1>6
      <4> QED
        BY <2>2, <3>1, <4>1, SeekArrives
    <3> QED
      BY <3>2 DEF s
  <2>4. call' = Idle /\ call' \in Call /\ call'.op # "truncate"
    BY <2>1, IdleTypes DEF Return
  <2>5. CallOk(v)'
    BY <1>3, <2>4 DEF CallOk, NoHand
  <2>6. y.open /\ (fil[f].mod => y.mod)
    BY <1>x, <2>3
  <2> QED
    BY <1>1, <1>3, <2>1, <2>3, <2>4, <2>5, <2>6, FileStep
<1>8. CASE n # 1
  <2>1. fil' = [fil EXCEPT ![f] = x] /\ call' = [call EXCEPT !.pc = "chain", !.a = call.r, !.n = n]
    BY <1>8 DEF SeekOn, SeekTurns
  <2>2. fil'[f] = x
    BY <1>1, <1>x, <2>1, FilTo
  <2>3. /\ call' \in Call /\ call'.op = "lseek" /\ call'.f = f /\ call'.pc = "chain" /\ call'.a = x.clust /\ call'.n = n
    <3> DEFINE pc == "chain"
               a == call.r
    <3>1. pc \in Pcs /\ a \in {0} \cup Clus
      BY DEF Pcs
    <3>2. call' = [call EXCEPT !.pc = pc, !.a = a, !.n = n]
      BY <2>1
    <3> HIDE DEF pc, a
    <3>3. /\ call' \in Call /\ call'.op = call.op /\ call'.f = call.f /\ call'.pc = pc /\ call'.a = a /\ call'.n = n
      BY <1>1, <1>5, <3>1, <3>2 DEF Types, Call
    <3> QED
      BY <1>x, <3>3 DEF pc, a
  <2>4. CallOk(v)' /\ Seeking(f)'
    BY <1>x, <1>3, <1>5, <1>6, <1>8, <2>2, <2>3, SeekGoes
  <2>5. call'.op # "truncate" /\ (fil[f].mod => x.mod)
    BY <1>x, <2>3
  <2> QED
    BY <1>1, <1>x, <1>3, <1>6, <2>1, <2>3, <2>4, <2>5, FileStep
<1> QED
  BY <1>7, <1>8

\* f_lseek has its next cluster.
LEMMA SeekGotStep ==
  ASSUME NEW w, Inv(w), SeekGot
  PROVE  IInv'
<1>0. PICK f \in Files : f = call.f
  BY DEF SeekGot, Inv, CallOk, Idle
<1> DEFINE r == call.r
           x == Sought(fil[f], r, call.a)
           n == ToGo
<1>1. /\ Types /\ Good(fat, w) /\ Typed(w) /\ FileOk(w, f) /\ f = call.f /\ Growing(w, f) /\ Got(w, f)
      /\ call.op = "lseek" /\ call.pc = "got" /\ fil[f].open /\ ~fil[f].err /\ f \notin Shrinking
  BY <1>0 DEF SeekGot, Inv, Good, CallOk, Idle, Growing, Removing, Expanding, Registering, Syncing, Ending, Live, Shrinking
<1>2. UNCHANGED <<fat, ents, disk, win, wflag, cut, last, free, snap, crashes>>
  BY DEF SeekGot, hist, budget, window
<1>3. /\ fil[f] \in Object /\ fil[f].size \in Nat /\ fil[f].pos \in Nat /\ snap[f] \in Seq(Clus)
      /\ fil[f].sclust \in {0} \cup Clus
  BY <1>1, ObjectIs
<1>4. \/ r \notin Clus \cup {Full} /\ fil' = [fil EXCEPT ![f] = InError(fil[f])] /\ Return(FALSE)
      \/ r = Full /\ call.a = 0 /\ fil' = [fil EXCEPT ![f] = x] /\ Return(TRUE)
      \/ r = Full /\ call.a # 0 /\ fil' = [fil EXCEPT ![f] = Arrive(fil[f], fil[f].pos + 1)] /\ Return(TRUE)
      \/ /\ r \in Clus /\ SeekOn(f, x, n)
         /\ SeekTurns(r, n)
  BY <1>1 DEF SeekGot, Abort, Goto, Sought, ToGo, SeekTurns
<1>5. call.op \in {"write", "lseek"} /\ (r \notin Clus => NoHand(w))
  BY <1>1 DEF Got
<1>6. CASE r \notin Clus /\ fil' = [fil EXCEPT ![f] = InError(fil[f])] /\ Return(FALSE)
  <2> DEFINE q == InError(fil[f])
             m == fil[f].size
  <2>1. /\ q \in Object /\ q.pos = 0 /\ q.open = fil[f].open /\ q.sclust = fil[f].sclust /\ q.size = fil[f].size
        /\ q.mod = fil[f].mod /\ fil' = [fil EXCEPT ![f] = q]
    BY <1>3, <1>6, InErrorIs
  <2>2. call.r \notin Clus /\ Return(FALSE) /\ call.pc = "got"
    BY <1>1, <1>6
  <2> HIDE DEF q
  <2>3. m \in Nat /\ q.size = m /\ fil[f].size <= m /\ ~(m > fil[f].size) /\ q.pos <= q.size /\ ~(q.pos > 0)
        /\ (fil[f].mod => q.mod)
    BY <1>3, <2>1
  <2> HIDE DEF m, r, x, n
  <2> QED
    BY <1>0, <1>2, <1>5, <2>1, <2>2, <2>3, FileStops
<1>7. CASE r = Full /\ call.a = 0 /\ fil' = [fil EXCEPT ![f] = x] /\ Return(TRUE)
  <2> DEFINE q == [fil[f] EXCEPT !.sclust = r, !.clust = r]
             m == fil[f].size
  <2>1. r = 0 /\ call.r \notin Clus /\ Return(TRUE) /\ call.pc = "got" /\ fil' = [fil EXCEPT ![f] = q]
    BY <1>1, <1>7, Numbers DEF Sought
  <2>2. fil[f].pos = 0 /\ fil[f].sclust = 0
    BY <1>1, <1>7 DEF Growing
  <2>3. r \in {0} \cup Clus
    BY <2>1
  <2> HIDE DEF r, x, n
  <2>4. /\ q \in Object /\ q.pos = fil[f].pos /\ q.open = fil[f].open /\ q.sclust = r /\ q.size = fil[f].size
        /\ q.mod = fil[f].mod
    BY <1>3, <2>3 DEF Object
  <2> HIDE DEF q
  <2>5. m \in Nat /\ q.size = m /\ fil[f].size <= m /\ ~(m > fil[f].size) /\ q.pos <= q.size /\ ~(q.pos > 0)
        /\ (fil[f].mod => q.mod) /\ q.sclust = fil[f].sclust
    BY <1>3, <2>1, <2>2, <2>4
  <2> HIDE DEF m
  <2> QED
    BY <1>0, <1>2, <1>5, <2>1, <2>4, <2>5, FileStops
<1>8. CASE r = Full /\ call.a # 0 /\ fil' = [fil EXCEPT ![f] = Arrive(fil[f], fil[f].pos + 1)] /\ Return(TRUE)
  <2> DEFINE z == fil[f]
             m == z.pos + 1
             y == Arrive(z, m)
             s == snap[f]
  <2>1. z \in Object /\ z.clust # 0 /\ Standing(w, f, z)
    <3>1. z.clust = call.a /\ z.sclust # 0 /\ Reached = z.pos + 1 /\ w.own[z.clust] = Now(f) /\ w.idx[z.clust] = z.pos + 1
      BY <1>1, <1>8 DEF Growing, Reached
    <3>2. call.a \in {0} \cup Clus
      BY <1>1, CallTypes
    <3> QED
      BY <1>3, <1>8, <3>1, <3>2 DEF Standing
  <2>2. Leads(w, Now(f), z.sclust, z.size, s)
    BY <1>1 DEF FileOk, ObjectOk, StartNow, SizeNow
  <2>3. fil' = [fil EXCEPT ![f] = y] /\ m = z.pos + 1 /\ s \in Seq(Clus) /\ Return(TRUE) /\ NoHand(w)
    <3>1. r \notin Clus
      BY <1>8, Numbers
    <3> QED
      BY <1>3, <1>5, <1>8, <3>1
  <2> HIDE DEF r, x, n
  <2>4. z = fil[f] /\ s = snap[f]
    OBVIOUS
  <2> HIDE DEF z, s
  <2>5. Arrival(z, y)
    BY <2>1 DEF Arrival
  <2> HIDE DEF m, y
  <2>6. /\ y \in Object /\ y.open = z.open /\ (z.mod => y.mod)
        /\ Leads(w, Now(f), y.sclust, y.size, s)
        /\ y.pos <= y.size
        /\ y.clust \in Clus /\ w.own[y.clust] = Now(f) /\ w.idx[y.clust] = y.pos
    BY <1>1, <2>1, <2>2, <2>3, <2>5, SeekArrives
  <2>7. call' = Idle /\ call' \in Call /\ call'.op # "truncate"
    BY <2>3, IdleTypes DEF Return
  <2>8. CallOk(w)'
    BY <2>3, <2>7 DEF CallOk, NoHand
  <2>9. y.open /\ (fil[f].mod => y.mod) /\ Leads(w, Now(f), y.sclust, y.size, snap[f])
    BY <1>1, <2>4, <2>6
  <2>10. \A g \in Files : g # f => Carries(w, w, Now(g), Now(g)) /\ Carries(w, w, Old(g), Old(g))
    BY <1>1, CarryAll
  <2> QED
    BY <1>1, <1>2, <2>3, <2>6, <2>7, <2>8, <2>9, <2>10, FileStep
<1>9. CASE r \in Clus /\ SeekOn(f, x, n) /\ SeekTurns(r, n)
  <2>1. call.r \in Clus /\ SeekOn(f, x, n) /\ SeekTurns(call.r, n) /\ x = Sought(fil[f], call.r, call.a) /\ n = ToGo
    BY <1>9
  <2> HIDE DEF x, n
  <2> QED
    BY <1>1, <1>2, <2>1, SeekFound
<1> QED
  BY <1>4, <1>6, <1>7, <1>8, <1>9, Numbers

-----------------------------------------------------------------------------
(* f_truncate.                                                             *)

\* The access of f_truncate to the FAT, which also marks the file.
Cutting(o, f) == win' = o.win /\ wflag' = o.wflag /\ disk' = o.card.disk /\ cut' = o.card.cut \cup {f}

\* The access of f_truncate: the entry on the card is wrong from here on.
LEMMA CuttingAccess ==
  ASSUME Types, NEW S, NEW s \in FatSecs \cup {Dir, Data}, NEW o \in MoveWindow(S, s), s \in S, NEW f, {f} \subseteq Files, Cutting(o, f)
  PROVE  WindowTypes' /\ (Held \/ Wrote) /\ f \in cut' /\ cut' \subseteq cut \cup {f} /\ o.ok \in BOOLEAN
<1>0. wflag \in BOOLEAN /\ win \in FatSecs \cup {Dir, Data, NoSect}
  BY DEF Types, WindowTypes
<1>1. cut \in SUBSET Files
  BY DEF Types, WindowTypes
<1>2. /\ o.ok \in BOOLEAN
      /\ o.ok => o.win = s
      /\ \/ o.card = OnCard /\ o.win = win /\ o.wflag = wflag
         \/ o.card = Flushed /\ o.win \in {s, NoSect} /\ o.wflag = FALSE
  BY <1>0, AccessIs
<1>3. CASE o.card = OnCard /\ o.win = win /\ o.wflag = wflag
  <2>1. disk' = disk /\ cut' = cut \cup {f} /\ win' = win /\ wflag' = wflag
    BY <1>3 DEF OnCard, Cutting
  <2>2. WindowTypes'
    BY <1>0, <1>1, <2>1 DEF Types, WindowTypes
  <2> QED
    BY <1>0, <1>1, <1>2, <2>1, <2>2 DEF Held
<1>4. CASE o.card = Flushed /\ o.win \in {s, NoSect} /\ o.wflag = FALSE
  <2>1. disk' = Flushed.disk /\ cut' = Flushed.cut \cup {f} /\ win' \in FatSecs \cup {Dir, Data, NoSect} /\ wflag' \in BOOLEAN
    BY <1>4 DEF Cutting
  <2>2. Flushed.cut \subseteq cut
    BY FlushTypes
  <2>3. WindowTypes'
    BY <1>0, <1>1, <2>1, <2>2, FlushTypes DEF WindowTypes
  <2> QED
    BY <1>2, <2>1, <2>2, <2>3 DEF Wrote
<1> QED
  BY <1>2, <1>3, <1>4

LEMMA EntryCutting ==
  ASSUME Types, NEW c \in Clus, NEW o \in GetFat(c), NEW f \in Files, Cutting(o, f)
  PROVE  WindowTypes' /\ (Held \/ Wrote) /\ f \in cut' /\ cut' \subseteq cut \cup {f} /\ o.ok \in BOOLEAN
<1>1. {f} \subseteq Files
  OBVIOUS
<1> QED
  BY <1>1, CuttingAccess, SectorOf DEF GetFat, Load

\* The object when f_truncate ends.
CutTo(x, s, n, ok) == LET z == [x EXCEPT !.sclust = s, !.size = n, !.mod = TRUE] IN IF ok THEN z ELSE InError(z)

\* The object after f_truncate.
LEMMA ShortenedIs ==
  ASSUME NEW x \in Object, NEW s \in {0} \cup Clus, NEW n \in Nat, NEW y, NEW ok, y = CutTo(x, s, n, ok)
  PROVE  /\ y \in Object /\ y.open = x.open /\ y.sclust = s /\ y.size = n /\ y.mod
         /\ \/ y.pos = x.pos /\ y.clust = x.clust
            \/ y.pos = 0
<1> DEFINE z == [x EXCEPT !.sclust = s, !.size = n, !.mod = TRUE]
<1>1. z \in Object /\ z.open = x.open /\ z.sclust = s /\ z.size = n /\ z.mod /\ z.pos = x.pos /\ z.clust = x.clust
  BY DEF Object
<1>2. y = z \/ y = InError(z)
  BY DEF CutTo
<1> HIDE DEF z
<1>3. /\ InError(z) \in Object /\ InError(z).pos = 0
      /\ InError(z).open = z.open /\ InError(z).sclust = z.sclust /\ InError(z).size = z.size /\ InError(z).mod = z.mod
  BY <1>1, InErrorIs
<1>4. CASE y = z
  BY <1>1, <1>4
<1>5. CASE y = InError(z)
  BY <1>1, <1>3, <1>5
<1> QED
  BY <1>2, <1>4, <1>5

\* A file cut to the size n, in its chain.
LEMMA LeadsShorter ==
  ASSUME NEW t, NEW w, Good(t, w), NEW f \in Files, NEW start, NEW size \in Nat, NEW s, Leads(w, Now(f), start, size, s),
         NEW n \in Nat, n >= 1, n <= size
  PROVE  Leads(w, Now(f), start, n, << >>)
<1>1. size # 0
  OBVIOUS
<1>2. start \in Clus /\ w.own[start] = Now(f) /\ w.idx[start] = 1 /\ size <= w.len[Now(f)]
  BY <1>1 DEF Leads
<1>3. w.len[Now(f)] \in Nat
  BY <1>2, PlaceInside
<1>4. Len(<< >>) = 0 /\ 1 .. 0 = {}
  OBVIOUS
<1> QED
  BY <1>2, <1>3, <1>4 DEF Leads

\* The end of f_truncate: the file leads to what it has been cut to, and its
\* entry is to be written.
LEMMA FileShortened ==
  ASSUME NEW w, NEW f \in Files, FileOk(w, f), ~Seeking(f), fil[f].open, fil[f].pos \in Nat,
         NEW y, fil'[f] = y, y.open, y.mod, Leads(w, Now(f), y.sclust, y.size, << >>),
         \/ y.pos = fil[f].pos /\ y.clust = fil[f].clust /\ y.size = fil[f].pos
         \/ y.pos = 0 /\ y.size \in Nat,
         ents'[f] = ents[f], snap'[f] = << >>, f \in cut', call'.op # "truncate"
  PROVE  FileOk(w, f)'
<1>1. f \notin Shrinking'
  BY DEF Shrinking
<1>2. ObjectOk(w, f)' /\ EntryOk(w, f)'
  BY <1>1 DEF ObjectOk, EntryOk, StartNow, SizeNow
<1>3. CursorOk(w, f)'
  BY DEF FileOk, CursorOk
<1> QED
  BY <1>2, <1>3 DEF FileOk

\* f_truncate is done: the object leads to what is left.
LEMMA TruncatedStep ==
  ASSUME NEW w, Inv(w), Truncated
  PROVE  IInv'
<1>0. PICK f \in Files : f = call.f
  BY DEF Truncated, Inv, CallOk, Idle
<1>1. /\ Types /\ Good(fat, w) /\ FileOk(w, f) /\ Removing(w, f) /\ call.op = "truncate" /\ call.pc = "got" /\ NoHand(w)
      /\ fil[f].open /\ f \in cut /\ fil[f].pos < fil[f].size /\ f \in Shrinking
  BY <1>0 DEF Truncated, Inv, CallOk, Idle, Growing, Removing, Expanding, Registering, Syncing, Ending, Live, Shrinking
<1>2. UNCHANGED <<fat, ents, last, free, snap, crashes>> /\ UNCHANGED window /\ call' = Idle
  BY DEF Truncated, hist, budget, Return
<1>3. WindowTypes' /\ (Held \/ Wrote) /\ cut' \subseteq cut /\ cut' = cut
  BY <1>1, <1>2, WindowStays DEF window
<1>4. fil[f] \in Object /\ fil[f].pos \in Nat /\ fil[f].sclust \in {0} \cup Clus
  BY <1>1, ObjectIs
<1>5. snap[f] = << >>
  BY <1>1 DEF FileOk
<1> DEFINE s == IF fil[f].pos = 0 THEN 0 ELSE fil[f].sclust
           n == fil[f].pos
           ok == call.r = 0
           y == CutTo(fil[f], s, n, ok)
<1>6. fil' = [fil EXCEPT ![f] = y]
  BY <1>0, <1>4 DEF Truncated, Shortened, CutTo
<1>7. Leads(w, Now(f), s, n, << >>)
  BY <1>1, <1>5 DEF FileOk, ObjectOk, StartNow, SizeNow
<1>8. s \in {0} \cup Clus /\ n \in Nat
  BY <1>4
<1>9. n = fil[f].pos
  OBVIOUS
<1> HIDE DEF s, n, ok
<1>10. /\ y \in Object /\ y.open = fil[f].open /\ y.sclust = s /\ y.size = n /\ y.mod
       /\ \/ y.pos = fil[f].pos /\ y.clust = fil[f].clust
          \/ y.pos = 0
  <2> DEFINE x == fil[f]
             q == y
  <2>1. x \in Object /\ q = CutTo(x, s, n, ok)
    BY <1>4
  <2>2. q = y /\ x = fil[f]
    OBVIOUS
  <2> HIDE DEF x, q
  <2>3. /\ q \in Object /\ q.open = x.open /\ q.sclust = s /\ q.size = n /\ q.mod
        /\ \/ q.pos = x.pos /\ q.clust = x.clust
           \/ q.pos = 0
    BY <1>8, <2>1, ShortenedIs
  <2> HIDE DEF y
  <2> QED
    BY <2>2, <2>3
<1> HIDE DEF y
<1>11. fil' \in [Files -> Object] /\ fil'[f] = y /\ \A g \in Files : g # f => fil'[g] = fil[g]
  BY <1>1, <1>6, <1>10, FilTo
<1>12. call' = Idle /\ call' \in Call /\ call'.op # "truncate" /\ CallOk(w)'
  BY <1>1, <1>2, IdleTypes DEF CallOk, NoHand
<1>13. FileOk(w, f)'
  BY <1>1, <1>2, <1>3, <1>4, <1>5, <1>7, <1>8, <1>9, <1>10, <1>11, <1>12, FileShortened DEF Seeking
<1>14. Types'
  BY <1>1, <1>2, <1>3, <1>11, <1>12 DEF Types
<1>15. \A g \in Files : g # f => Alike(g)
  BY <1>0, <1>1, <1>2, <1>3, <1>11, <1>12, OthersAlike
<1>16. InWindow /\ Good(fat', w) /\ CardOk'
  <2>1. \A g \in Files : snap'[g] = snap[g]
    BY <1>2
  <2> QED
    BY <1>1, <1>2, <1>3, <2>1, SameFat, CardNext
<1>17. \A g \in Files : g # f => Carries(w, w, Now(g), Now(g)) /\ Carries(w, w, Old(g), Old(g))
  BY <1>1, CarryAll
<1> QED
  BY <1>3, <1>12, <1>13, <1>14, <1>15, <1>16, <1>17, OneFile

\* f_truncate has begun on f, which is to be cut at its fptr.
LEMMA FileShrinks ==
  ASSUME NEW v, NEW f \in Files, fil' = fil, ents' = ents, fil[f].open, ents[f].used, call'.op = "truncate", call'.f = f,
         snap'[f] = << >>, fil[f].pos \in Nat, fil[f].size \in Nat, fil[f].pos <= fil[f].size,
         \/ fil[f].pos = 0
         \/ /\ fil[f].pos > 0 /\ Leads(v, Now(f), fil[f].sclust, fil[f].pos, << >>)
            /\ fil[f].clust \in Clus /\ v.own[fil[f].clust] = Now(f) /\ v.idx[fil[f].clust] = fil[f].pos
  PROVE  FileOk(v, f)'
<1>1. f \in Shrinking'
  BY DEF Shrinking
<1>2. ObjectOk(v, f)'
  <2>1. CASE fil[f].pos = 0
    BY <1>1, <2>1, LeadsNone DEF ObjectOk, StartNow, SizeNow
  <2>2. CASE fil[f].pos # 0
    BY <1>1, <2>2 DEF ObjectOk, StartNow, SizeNow
  <2> QED
    BY <2>1, <2>2
<1>3. EntryOk(v, f)'
  BY <1>1 DEF EntryOk
<1>4. CursorOk(v, f)'
  BY DEF CursorOk
<1> QED
  BY <1>2, <1>3, <1>4 DEF FileOk

\* What follows whichever way f_truncate begins.
LEMMA TruncateOn ==
  ASSUME NEW w, Inv(w), NEW v, NEW f \in Files, call.op = "none", WindowTypes', Held \/ Wrote,
         f \in cut', cut' \subseteq cut \cup {f}, UNCHANGED <<fat, ents, last, free, crashes>>, snap' = [snap EXCEPT ![f] = << >>],
         fil' \in [Files -> Object], \A g \in Files : g # f => fil'[g] = fil[g],
         call' \in Call, call'.op = "truncate" => call'.f = f, Good(fat, v),
         \A g \in Files : g # f => Carries(w, v, Now(g), Now(g)) /\ Carries(w, v, Old(g), Old(g)),
         FileOk(v, f)', CallOk(v)'
  PROVE  IInv'
<1>1. Types
  BY DEF Inv
<1>2. snap' \in [Files -> Seq(Clus)] /\ snap'[f] = << >> /\ \A g \in Files : g # f => snap'[g] = snap[g]
  BY <1>1, SnapTo
<1>3. Types'
  BY <1>1, <1>2 DEF Types
<1>4. \A g \in Files : g # f => Alike(g)
  <2>1. \A g \in Files : g # f => fil'[g] = fil[g] /\ ents'[g] = ents[g] /\ snap'[g] = snap[g]
    BY <1>2
  <2> QED
    BY <2>1, OthersAlike
<1>5. CardOk'
  BY <1>2, CardNext
<1>6. InWindow /\ Good(fat', v)
  BY SameFat
<1> QED
  BY <1>3, <1>4, <1>5, <1>6, OneFile

\* f_truncate begins: what is beyond fptr is to be removed.
LEMMA FTruncateStep ==
  ASSUME NEW w, Inv(w), NEW f \in Files, FTruncate(f)
  PROVE  IInv'
<1>1. /\ Types /\ Good(fat, w) /\ FileOk(w, f) /\ call = Idle /\ call.op = "none" /\ NoHand(w) /\ Shrinking = {}
      /\ fil[f].open /\ ~fil[f].err /\ fil[f].size > fil[f].pos /\ ents[f].used
  BY IdleIs DEF Inv, FTruncate, Usable, FileOk
<1>2. UNCHANGED <<fat, ents, last, free, crashes>> /\ snap' = [snap EXCEPT ![f] = << >>]
  BY DEF FTruncate, budget
<1>3. /\ fil[f] \in Object /\ fil[f].size \in Nat /\ fil[f].pos \in Nat /\ fil[f].sclust \in {0} \cup Clus
      /\ fil \in [Files -> Object]
  BY <1>1, ObjectIs DEF Types
<1>4. Leads(w, Now(f), fil[f].sclust, fil[f].size, snap[f])
  BY <1>1 DEF FileOk, ObjectOk, StartNow, SizeNow
<1>5. fil[f].pos > 0 => fil[f].clust \in Clus /\ w.own[fil[f].clust] = Now(f) /\ w.idx[fil[f].clust] = fil[f].pos
  BY <1>1 DEF FileOk, CursorOk, Seeking
<1>6. fil[f].sclust \in Clus /\ w.own[fil[f].sclust] = Now(f) /\ w.idx[fil[f].sclust] = 1 /\ fil[f].size <= w.len[Now(f)]
  <2>1. fil[f].size # 0
    BY <1>1, <1>3
  <2> QED
    BY <1>4, <2>1 DEF Leads
<1>7. snap'[f] = << >>
  BY <1>1, <1>2, SnapTo
<1>8. "truncate" \in Ops /\ "free" \in Pcs /\ "cut" \in Pcs
  BY DEF Ops, Pcs
<1>9. CASE fil[f].pos = 0
  <2>1. /\ call' = At("truncate", f, "free", 0, fil[f].sclust, 0) /\ fil' = fil
        /\ cut' = cut \cup {f} /\ UNCHANGED <<disk, win, wflag>>
    BY <1>6, <1>9 DEF FTruncate, Begin
  <2>2. WindowTypes' /\ Held /\ f \in cut' /\ cut' \subseteq cut \cup {f}
    BY <1>1, <2>1 DEF Types, WindowTypes, Held
  <2>3. PICK v : /\ Good(fat, v) /\ HandFrom(v, fil[f].sclust)
                 /\ \A g \in Files : g # f => Carries(w, v, Now(g), Now(g)) /\ Carries(w, v, Old(g), Old(g))
    <3> DEFINE o == Now(f)
               b == fil[f].sclust
    <3>1. o \in {Now(f), Old(f)} /\ b \in Clus /\ w.own[b] = o /\ w.idx[b] = 1
      BY <1>6
    <3> HIDE DEF o, b
    <3>2. \E v : /\ Good(fat, v) /\ HandFrom(v, b)
                 /\ \A g \in Files : g # f => Carries(w, v, Now(g), Now(g)) /\ Carries(w, v, Old(g), Old(g))
                 /\ \A q \in {Now(f), Old(f)} : q # o => Carries(w, v, q, q)
      BY <1>1, <3>1, GiveUp
    <3> QED
      BY <3>2 DEF b
  <2>4. /\ call' \in Call /\ call'.op = "truncate" /\ call'.f = f /\ call'.pc = "free" /\ call'.b = fil[f].sclust
    <3> DEFINE op == "truncate"
               pc == "free"
               z == 0
               b == fil[f].sclust
    <3>1. op \in Ops /\ pc \in Pcs /\ z \in {0} \cup Clus /\ b \in {0, EOC} \cup Clus /\ z \in Nat
      BY <1>6, <1>8
    <3>2. call' = At(op, f, pc, z, b, z)
      BY <2>1
    <3> HIDE DEF op, pc, z, b
    <3>3. /\ At(op, f, pc, z, b, z) \in Call
          /\ At(op, f, pc, z, b, z).op = op /\ At(op, f, pc, z, b, z).f = f /\ At(op, f, pc, z, b, z).pc = pc
          /\ At(op, f, pc, z, b, z).b = b
      BY <3>1, AtTypes
    <3> QED
      BY <3>2, <3>3 DEF op, pc, b
  <2>5. FileOk(v, f)'
    BY <1>1, <1>2, <1>3, <1>7, <1>9, <2>1, <2>4, FileShrinks
  <2>6. CallOk(v)'
    <3>1. Removing(v, f)'
      BY <1>1, <2>1, <2>2, <2>3, <2>4 DEF Removing, Live, HandFrom
    <3> QED
      BY <2>4, <3>1 DEF CallOk
  <2> QED
    BY <1>1, <1>2, <1>3, <2>1, <2>2, <2>3, <2>4, <2>5, <2>6, TruncateOn
<1>10. CASE fil[f].pos # 0
  <2> DEFINE c == fil[f].clust
             next == fat[c]
  <2>1. fil[f].pos > 0 /\ fil[f].pos >= 1 /\ c \in Clus /\ w.own[c] = Now(f) /\ w.idx[c] = fil[f].pos
    BY <1>3, <1>5, <1>10
  <2>2. PICK o \in GetFat(c) :
          /\ win' = o.win /\ wflag' = o.wflag /\ disk' = o.card.disk /\ cut' = o.card.cut \cup {f}
          /\ IF o.ok /\ next \in Clus
             THEN call' = At("truncate", f, "cut", c, next, 0) /\ fil' = fil
             ELSE call' = call /\ Shortened(f, o.ok /\ next = EOC)
    BY <1>10 DEF FTruncate, Begin, ReturnAtOnce
  <2>3. WindowTypes' /\ (Held \/ Wrote) /\ f \in cut' /\ cut' \subseteq cut \cup {f}
    <3>1. Cutting(o, f)
      BY <2>2 DEF Cutting
    <3> HIDE DEF c
    <3> QED
      BY <1>1, <2>1, <3>1, EntryCutting
  <2>4. Leads(w, Now(f), fil[f].sclust, fil[f].pos, << >>)
    <3> DEFINE n == fil[f].pos
               m == fil[f].size
               s == snap[f]
               b == fil[f].sclust
    <3>1. n \in Nat /\ m \in Nat /\ n >= 1 /\ n <= m /\ Leads(w, Now(f), b, m, s)
      BY <1>1, <1>3, <1>4, <2>1
    <3> HIDE DEF n, m, s, b
    <3>2. Leads(w, Now(f), b, n, << >>)
      BY <1>1, <3>1, LeadsShorter
    <3> QED
      BY <3>2 DEF n, b
  <2>5. \A g \in Files : g # f => Carries(w, w, Now(g), Now(g)) /\ Carries(w, w, Old(g), Old(g))
    BY <1>1, CarryAll
  <2>6. CASE o.ok /\ next \in Clus
    <3>1. call' = At("truncate", f, "cut", c, next, 0) /\ fil' = fil
      BY <2>2, <2>6
    <3>2. w.own[next] = Now(f) /\ w.idx[next] = fil[f].pos + 1
      <4>1. w.own[c] # Nobody
        BY <2>1, Tagging
      <4> HIDE DEF c
      <4> QED
        BY <1>1, <2>1, <2>6, <4>1, EndOfChain
    <3>3. call' \in Call /\ call'.op = "truncate" /\ call'.f = f /\ call'.pc = "cut" /\ call'.a = c /\ call'.b = next
      <4> DEFINE op == "truncate"
                 pc == "cut"
                 z == 0
      <4>1. op \in Ops /\ pc \in Pcs /\ c \in {0} \cup Clus /\ next \in {0, EOC} \cup Clus /\ z \in Nat
        BY <1>8, <2>1, <2>6
      <4>2. call' = At(op, f, pc, c, next, z)
        BY <3>1
      <4> HIDE DEF op, pc, z, c, next
      <4>3. /\ At(op, f, pc, c, next, z) \in Call
            /\ At(op, f, pc, c, next, z).op = op /\ At(op, f, pc, c, next, z).f = f /\ At(op, f, pc, c, next, z).pc = pc
            /\ At(op, f, pc, c, next, z).a = c /\ At(op, f, pc, c, next, z).b = next
        BY <4>1, AtTypes
      <4> QED
        BY <4>2, <4>3 DEF op, pc
    <3>4. FileOk(w, f)'
      BY <1>1, <1>2, <1>3, <1>7, <2>1, <2>4, <3>1, <3>3, FileShrinks
    <3>5. CallOk(w)'
      <4>1. Removing(w, f)'
        BY <1>1, <2>1, <2>3, <2>6, <3>1, <3>2, <3>3 DEF Removing, Live, NoHand
      <4> QED
        BY <3>3, <4>1 DEF CallOk
    <3> HIDE DEF c, next
    <3> QED
      BY <1>1, <1>2, <1>3, <2>3, <2>5, <3>1, <3>3, <3>4, <3>5, TruncateOn
  <2>7. CASE ~(o.ok /\ next \in Clus)
    <3> DEFINE s == fil[f].sclust
               n == fil[f].pos
               ok == o.ok /\ next = EOC
               y == CutTo(fil[f], s, n, ok)
    <3>1. fil' = [fil EXCEPT ![f] = y] /\ call' = Idle
      BY <1>1, <1>10, <2>2, <2>7 DEF Shortened, CutTo
    <3>2. /\ y \in Object /\ y.open = fil[f].open /\ y.sclust = s /\ y.size = n /\ y.mod
          /\ \/ y.pos = fil[f].pos /\ y.clust = fil[f].clust
             \/ y.pos = 0
      <4> DEFINE x == fil[f]
      <4>1. x \in Object /\ s \in {0} \cup Clus /\ n \in Nat /\ y = CutTo(x, s, n, ok)
        BY <1>3
      <4> HIDE DEF x, y, s, n, ok, c, next
      <4>2. /\ y \in Object /\ y.open = x.open /\ y.sclust = s /\ y.size = n /\ y.mod
            /\ \/ y.pos = x.pos /\ y.clust = x.clust
               \/ y.pos = 0
        BY <4>1, ShortenedIs
      <4> QED
        BY <4>2 DEF x
    <3> HIDE DEF y, ok
    <3>3. fil' \in [Files -> Object] /\ fil'[f] = y /\ \A g \in Files : g # f => fil'[g] = fil[g]
      BY <1>1, <3>1, <3>2, FilTo
    <3>4. call' = Idle /\ call' \in Call /\ call'.op # "truncate" /\ CallOk(w)'
      BY <1>1, <3>1, IdleTypes DEF CallOk, NoHand
    <3>5. FileOk(w, f)'
      BY <1>1, <1>2, <1>3, <1>7, <2>3, <2>4, <3>2, <3>3, <3>4, FileShortened DEF Seeking
    <3> HIDE DEF c, next
    <3> QED
      BY <1>1, <1>2, <2>3, <2>5, <3>3, <3>4, <3>5, TruncateOn
  <2> QED
    BY <2>6, <2>7
<1> QED
  BY <1>9, <1>10

-----------------------------------------------------------------------------
(* f_expand.                                                               *)

\* f_expand has found a row of free clusters, or nothing.
LEMMA FExpandStep ==
  ASSUME NEW w, Inv(w), NEW f \in Files, NEW k \in Nat, k >= 1, NEW opt, FExpand(f, k, opt)
  PROVE  IInv'
<1> DEFINE s == IF last \in Clus THEN last ELSE 2
           i == RowAt(s, k)
           seen == IF i = 0 THEN NClust ELSE i
           c == After(s - 1, i - k + 1)
           S == Seen(s - 1, seen)
           z == FatSec[After(s - 1, seen)]
<1>1. /\ Types /\ Good(fat, w) /\ CanBegin /\ call = Idle /\ call.op = "none" /\ NoHand(w) /\ Shrinking = {}
      /\ fil[f].open /\ ~fil[f].err /\ fil[f].size = 0
  BY IdleIs DEF Inv, FExpand, Usable
<1>2. UNCHANGED <<fat, ents, fil, last, free, snap, crashes>>
  BY DEF FExpand, hist, budget
<1>3. PICK o \in MoveWindow(S, z) :
        /\ Moved(o, FALSE)
        /\ IF o.ok /\ i # 0 /\ opt = 1 THEN call' = At("expand", f, "fill", c, c, k) ELSE call' = call
  BY DEF FExpand, Begin, ReturnAtOnce
<1>4. s \in Clus /\ s - 1 \in Nat /\ 1 <= s - 1 /\ s - 1 < NFatEnt
  BY Numbers
<1> HIDE DEF s
<1>5. \/ i = 0
      \/ i \in 1 .. NClust /\ c \in Clus /\ \A x \in Clus : c <= x /\ x < c + k => fat[x] = 0
  BY <1>4, RowSearch
<1>6. seen \in 1 .. NClust
  BY <1>5, Numbers
<1> HIDE DEF i, c
<1>7. z \in FatSecs /\ z \in S
  <2> DEFINE p == s - 1
             T == {}
  <2>1. p \in Nat /\ 1 <= p /\ p < NFatEnt
    BY <1>4
  <2> HIDE DEF p, T, seen
  <2>2. FatSec[After(p, seen)] \in FatSecs /\ FatSec[After(p, seen)] \in T \cup Seen(p, seen)
    BY <1>6, <2>1, SearchEnds
  <2> QED
    BY <2>2 DEF p, T
<1> HIDE DEF z, S, seen
<1>8. WindowTypes' /\ (Held \/ Wrote) /\ cut' \subseteq cut
  BY <1>1, <1>3, <1>7, MovedIs
<1>9. CASE call' = call
  BY <1>1, <1>2, <1>8, <1>9, NothingDone
<1>10. CASE call' # call
  <2>1. call' = At("expand", f, "fill", c, c, k) /\ c \in Clus /\ \A x \in Clus : c <= x /\ x < c + k => fat[x] = 0
    BY <1>3, <1>5, <1>10
  <2>2. /\ call' \in Call /\ call'.op = "expand" /\ call'.f = f /\ call'.pc = "fill" /\ call'.a = c /\ call'.b = c /\ call'.n = k
    <3> DEFINE op == "expand"
               pc == "fill"
    <3>1. op \in Ops /\ pc \in Pcs /\ c \in {0} \cup Clus /\ c \in {0, EOC} \cup Clus
      BY <2>1 DEF Ops, Pcs
    <3>2. call' = At(op, f, pc, c, c, k)
      BY <2>1
    <3> HIDE DEF op, pc
    <3>3. /\ At(op, f, pc, c, c, k) \in Call
          /\ At(op, f, pc, c, c, k).op = op /\ At(op, f, pc, c, c, k).f = f /\ At(op, f, pc, c, c, k).pc = pc
          /\ At(op, f, pc, c, c, k).a = c /\ At(op, f, pc, c, c, k).b = c /\ At(op, f, pc, c, c, k).n = k
      BY <3>1, AtTypes
    <3> QED
      BY <3>2, <3>3 DEF op, pc
  <2>3. c \in Nat /\ \A x \in Clus : x \in Nat
    BY <2>1, Numbers
  <2>4. Expanding(w, f)'
    <3>1. \A x \in Clus : /\ call'.a <= x /\ x < call'.b => w.own[x] = Nobody /\ fat'[x] = x + 1
                          /\ call'.b <= x /\ x < call'.b + call'.n => fat'[x] = 0
      BY <1>2, <2>1, <2>2, <2>3
    <3> QED
      BY <1>1, <1>2, <2>1, <2>2, <2>3, <3>1 DEF Expanding, Live, NoHand
  <2>5. CallOk(w)' /\ call'.op # "truncate"
    BY <2>2, <2>4 DEF CallOk
  <2> QED
    BY <1>1, <1>2, <1>8, <2>2, <2>5, CallMoves
<1> QED
  BY <1>9, <1>10

\* One link of the row, with more to come.
LEMMA FillOn ==
  ASSUME NEW w, Inv(w), NEW f \in Files, f = call.f, Expanding(w, f), NEW c \in Clus, c = call.b, call.n > 1,
         UNCHANGED <<ents, fil, last, free, snap, crashes>>,
         WindowTypes', Held \/ Wrote, cut' \subseteq cut, win' = FatSec[c], wflag',
         fat' = [fat EXCEPT ![c] = c + 1], call' = [call EXCEPT !.b = c + 1, !.n = @ - 1]
  PROVE  IInv'
<1> DEFINE d == c + 1
           n == call.n - 1
<1>1. Types /\ Good(fat, w) /\ call.n \in Nat /\ call.a \in Clus /\ call.op = "expand" /\ Shrinking = {}
  BY CallTypes DEF Inv, Expanding, Shrinking
<1>2. d \in Link /\ d \in {0, EOC} \cup Clus /\ n \in Nat /\ n >= 1
  BY <1>1, Numbers DEF Link
<1>3. /\ fat' \in [Clus -> Link] /\ fat'[c] = d /\ \A x \in Clus : x # c => fat'[x] = fat[x]
      /\ InWindow
  <2>1. fat' = [fat EXCEPT ![c] = d] /\ ents' = ents
    OBVIOUS
  <2> HIDE DEF d
  <2> QED
    BY <1>1, <1>2, <2>1, PutFatIs
<1>4. call' \in Call /\ call'.op = call.op /\ call'.f = call.f /\ call'.pc = call.pc /\ call'.a = call.a /\ call'.b = d /\ call'.n = n
  <2>1. call' = [call EXCEPT !.b = d, !.n = n]
    OBVIOUS
  <2> HIDE DEF d, n
  <2> QED
    BY <1>1, <1>2, <2>1 DEF Types, Call
<1>5. \A x \in Clus : x \in Nat
  BY Numbers
<1>6. w.own[c] = Nobody /\ call.a <= c
  <2>1. fat[c] = 0 /\ call.a <= c
    BY <1>1, <1>5 DEF Expanding
  <2> QED
    BY <1>1, <2>1, FreeIsNobodys
<1>7. Good(fat', w)
  <2> DEFINE t == fat'
  <2>1. \A x \in Clus : w.own[x] # Nobody => t[x] = fat[x]
    BY <1>3, <1>6
  <2> HIDE DEF t
  <2>2. Good(fat, w)
    BY <1>1
  <2>3. Good(t, w)
    BY <2>1, <2>2, KeepGood
  <2> QED
    BY <2>3 DEF t
<1>8. Expanding(w, f)'
  <2>1. \A x \in Clus : /\ call'.a <= x /\ x < call'.b => w.own[x] = Nobody /\ fat'[x] = x + 1
                        /\ call'.b <= x /\ x < call'.b + call'.n => fat'[x] = 0
    <3>1. SUFFICES ASSUME NEW x \in Clus
                   PROVE  /\ call.a <= x /\ x < c + 1 => w.own[x] = Nobody /\ fat'[x] = x + 1
                          /\ c + 1 <= x /\ x < c + 1 + (call.n - 1) => fat'[x] = 0
      BY <1>4
    <3>2. /\ call.a <= x /\ x < c => w.own[x] = Nobody /\ fat[x] = x + 1
          /\ c <= x /\ x < c + call.n => fat[x] = 0
      BY DEF Expanding
    <3>3. CASE x = c
      BY <1>1, <1>3, <1>5, <1>6, <3>3
    <3>4. CASE x # c
      BY <1>1, <1>3, <1>5, <3>2, <3>4
    <3> QED
      BY <3>3, <3>4
  <2>2. call'.a <= call'.b
    BY <1>1, <1>4, <1>5, <1>6
  <2> HIDE DEF d, n
  <2> QED
    BY <1>1, <1>2, <1>4, <2>1, <2>2 DEF Expanding, Live, NoHand
<1>9. CallOk(w)'
  BY <1>4, <1>8 DEF CallOk
<1>10. \A g \in Files : Alike(g)
  BY <1>1, <1>4, FilesAlike
<1>11. Types'
  BY <1>1, <1>3, <1>4 DEF Types
<1> QED
  BY <1>1, <1>3, <1>7, <1>9, <1>10, <1>11, CarryAll, Quiet

\* The clusters from a to c are nobody's, and linked.
Row(t, w, a, c) ==
  /\ a <= c
  /\ \A x \in Clus : a <= x /\ x <= c => w.own[x] = Nobody
  /\ \A x \in Clus : a <= x /\ x < c => t[x] = x + 1
  /\ t[c] = EOC

\* They become the chain of f.
LEMMA RowTaken ==
  ASSUME NEW t, NEW w, Good(t, w), NoHand(w), NEW f \in Files, NEW e, NEW s \in Seq(Clus), Len(s) = 0,
         NEW a \in Clus, NEW c \in Clus, Row(t, w, a, c)
  PROVE  \E v : /\ Good(t, v) /\ NoHand(v)
                /\ Leads(v, Now(f), a, c - a + 1, s)
                /\ Seen1(w, f, e, s) => Seen1(v, f, e, s)
                /\ \A g \in Files : g # f => Carries(w, v, Now(g), Now(g)) /\ Carries(w, v, Old(g), Old(g))
<1>0. /\ Now(f) \in Tags /\ Old(f) \in Tags /\ Now(f) # Old(f) /\ Now(f) # Nobody /\ Old(f) # Nobody
      /\ Hand \in Tags /\ Hand # Nobody /\ Now(f) # Hand /\ Old(f) # Hand
  BY Tagging
<1>1r. PICK u : Renewed(t, w, f, e, s, u)
  BY Renew
<1>1. /\ Good(t, u)
      /\ \A x \in Clus : u.idx[x] = w.idx[x] /\ u.own[x] # Now(f)
      /\ \A x \in Clus : u.own[x] = w.own[x] \/ u.own[x] = Old(f) \/ u.own[x] = Nobody
      /\ \A x \in Clus : w.own[x] # Now(f) /\ w.own[x] # Old(f) => u.own[x] = w.own[x]
      /\ \A o \in Tags : o # Old(f) /\ o # Nobody => u.len[o] = w.len[o]
      /\ Seen1(w, f, e, s) => Leads(u, Old(f), e.start, e.size, s)
  BY <1>1r DEF Renewed
<1>2. \A x \in Clus : a <= x /\ x <= c => u.own[x] = Nobody
  BY <1>0, <1>1 DEF Row
<1>u. Typed(u) /\ Typed(w)
  BY <1>1 DEF Good
<1>n. NoHand(u)
  BY <1>0, <1>1 DEF NoHand
<1>3. PICK v : /\ Good(t, v)
               /\ \A x \in Clus : a <= x /\ x <= c => v.own[x] = Now(f) /\ v.idx[x] = x - a + 1
               /\ \A x \in Clus : ~(a <= x /\ x <= c) => v.own[x] = u.own[x] /\ v.idx[x] = u.idx[x]
               /\ v.len[Now(f)] = c - a + 1
               /\ \A p \in Tags : p # Now(f) => v.len[p] = u.len[p]
  <2> DEFINE o == Now(f)
  <2>1. o \in Tags /\ o # Nobody /\ \A x \in Clus : u.own[x] # o
    BY <1>0, <1>1
  <2>3. a <= c /\ t[c] = EOC /\ \A x \in Clus : a <= x /\ x < c => t[x] = x + 1
    BY DEF Row
  <2> HIDE DEF o
  <2>4. \A x \in Clus : a <= x /\ x <= c => u.own[x] = Nobody
    BY <1>2
  <2>5. Good(t, u)
    BY <1>1
  <2>2. \E v : Rowed(t, u, o, a, c, v)
    BY <2>1, <2>3, <2>4, <2>5, RowGood
  <2> QED
    BY <2>2 DEF o, Rowed
<1>4. Typed(v)
  BY <1>3 DEF Good
<1>5. a \in Nat /\ c \in Nat /\ c - a + 1 \in Nat /\ c - a + 1 >= 1 /\ a - a + 1 = 1 /\ a <= c
  BY Numbers DEF Row
<1>6. Leads(v, Now(f), a, c - a + 1, s)
  <2>1. v.own[a] = Now(f) /\ v.idx[a] = 1
    BY <1>3, <1>5
  <2>2. 1 .. Len(s) = {}
    OBVIOUS
  <2> QED
    BY <1>3, <1>5, <2>1, <2>2 DEF Leads
<1>7. \A p \in Tags : p # Now(f) /\ p # Nobody => Carries(u, v, p, p)
  BY <1>2, <1>3, <1>4, <1>u DEF Carries, Typed
<1>8. NoHand(v)
  BY <1>0, <1>3, <1>n DEF NoHand
<1>9. Seen1(w, f, e, s) => Seen1(v, f, e, s)
  <2>1. SUFFICES ASSUME Leads(u, Old(f), e.start, e.size, s) PROVE Leads(v, Old(f), e.start, e.size, s)
    BY <1>1 DEF Seen1
  <2>2. Carries(u, v, Old(f), Old(f)) /\ e.size \in Nat
    BY <1>0, <1>7, <2>1 DEF Leads
  <2> QED
    BY <1>0, <1>4, <1>u, <2>1, <2>2, CarryLeads
<1>10. \A g \in Files : g # f => /\ Now(g) \in Tags /\ Old(g) \in Tags /\ Now(g) # Now(f) /\ Now(g) # Old(f)
                                 /\ Old(g) # Now(f) /\ Old(g) # Old(f) /\ Now(g) # Nobody /\ Old(g) # Nobody
  BY Tagging
<1>11. \A p \in Tags : p # Now(f) /\ p # Old(f) /\ p # Nobody => Carries(w, v, p, p)
  <2>1. \A p \in Tags : p # Now(f) /\ p # Old(f) /\ p # Nobody => Carries(w, u, p, p)
    BY <1>1, <1>u DEF Carries, Typed
  <2> QED
    BY <1>7, <1>4, <1>u, <2>1 DEF Carries, Typed
<1> QED
  BY <1>3, <1>6, <1>8, <1>9, <1>10, <1>11

\* The last link of the row: the file has its clusters.
LEMMA FillEnd ==
  ASSUME NEW w, Inv(w), NEW f \in Files, f = call.f, Expanding(w, f), NEW c \in Clus, c = call.b, call.n = 1,
         UNCHANGED <<ents, free, snap, crashes>>, last' = c,
         WindowTypes', Held \/ Wrote, cut' \subseteq cut, win' = FatSec[c], wflag',
         fat' = [fat EXCEPT ![c] = EOC], call' = Idle,
         fil' = [fil EXCEPT ![f] = [@ EXCEPT !.sclust = call.a, !.size = c - call.a + 1, !.mod = TRUE]]
  PROVE  IInv'
<1> DEFINE a == call.a
           n == c - call.a + 1
           x == [fil[f] EXCEPT !.sclust = a, !.size = n, !.mod = TRUE]
<1>1. /\ Types /\ Good(fat, w) /\ FileOk(w, f) /\ a \in Clus /\ a <= c /\ call.op = "expand" /\ Shrinking = {} /\ NoHand(w)
      /\ fil[f].open /\ fil[f].size = 0 /\ f \notin Shrinking
  BY DEF Inv, Expanding, Shrinking, Live
<1>2. fil[f] \in Object /\ fil[f].pos \in Nat /\ snap[f] \in Seq(Clus) /\ fil \in [Files -> Object]
  BY <1>1, ObjectIs DEF Types
<1>3. \A y \in Clus : y \in Nat
  BY Numbers
<1>4. n \in Nat /\ n >= 1
  BY <1>1, <1>3
<1>5. Len(snap[f]) = 0
  <2>1. Leads(w, Now(f), fil[f].sclust, fil[f].size, snap[f])
    BY <1>1 DEF FileOk, ObjectOk, StartNow, SizeNow
  <2> QED
    BY <1>1, <1>2, <2>1 DEF Leads
<1>6. fil[f].pos = 0
  BY <1>1, <1>2 DEF FileOk, CursorOk, Seeking
<1>7. /\ fat' \in [Clus -> Link] /\ fat'[c] = EOC /\ \A y \in Clus : y # c => fat'[y] = fat[y]
      /\ InWindow
  <2> DEFINE d == EOC
  <2>1. d \in Link /\ fat' = [fat EXCEPT ![c] = d] /\ ents' = ents
    BY ClusLink
  <2> HIDE DEF d, n, x
  <2>2. /\ fat' \in [Clus -> Link] /\ fat'[c] = d /\ \A y \in Clus : y # c => fat'[y] = fat[y]
        /\ InWindow
    BY <1>1, <2>1, PutFatIs
  <2> QED
    BY <2>2 DEF d
<1>8. /\ \A y \in Clus : a <= y /\ y < c => w.own[y] = Nobody /\ fat[y] = y + 1
      /\ w.own[c] = Nobody
  <2>1. \A y \in Clus : /\ a <= y /\ y < c => w.own[y] = Nobody /\ fat[y] = y + 1
                        /\ c <= y /\ y < c + 1 => fat[y] = 0
    BY DEF Expanding
  <2>2. fat[c] = 0
    BY <1>3, <2>1
  <2> QED
    BY <1>1, <2>1, <2>2, FreeIsNobodys
<1>9. Good(fat', w)
  <2> DEFINE t == fat'
  <2>1. \A y \in Clus : w.own[y] # Nobody => t[y] = fat[y]
    BY <1>7, <1>8
  <2> HIDE DEF t
  <2>2. Good(fat, w)
    BY <1>1
  <2>3. Good(t, w)
    BY <2>1, <2>2, KeepGood
  <2> QED
    BY <2>3 DEF t
<1> HIDE DEF a
<1>10. PICK v : /\ Good(fat', v) /\ NoHand(v)
                /\ Leads(v, Now(f), a, n, snap[f])
                /\ Seen1(w, f, ents[f], snap[f]) => Seen1(v, f, ents[f], snap[f])
                /\ \A g \in Files : g # f => Carries(w, v, Now(g), Now(g)) /\ Carries(w, v, Old(g), Old(g))
  <2> DEFINE t == fat'
             e == ents[f]
             s == snap[f]
  <2>1. /\ Good(t, w) /\ NoHand(w) /\ s \in Seq(Clus) /\ Len(s) = 0 /\ a \in Clus /\ Row(t, w, a, c)
    <3>1. \A y \in Clus : a <= y /\ y <= c => w.own[y] = Nobody
      BY <1>1, <1>3, <1>8
    <3>2. \A y \in Clus : a <= y /\ y < c => t[y] = y + 1
      BY <1>3, <1>7, <1>8
    <3> QED
      BY <1>1, <1>2, <1>5, <1>7, <1>9, <3>1, <3>2 DEF Row
  <2>2. n = c - a + 1
    BY DEF a
  <2> HIDE DEF t, e, s, n, x
  <2>3. \E v : /\ Good(t, v) /\ NoHand(v)
               /\ Leads(v, Now(f), a, c - a + 1, s)
               /\ Seen1(w, f, e, s) => Seen1(v, f, e, s)
               /\ \A g \in Files : g # f => Carries(w, v, Now(g), Now(g)) /\ Carries(w, v, Old(g), Old(g))
    BY <2>1, RowTaken
  <2> QED
    BY <2>2, <2>3 DEF t, e, s
<1> HIDE DEF n
<1>11. x \in Object /\ x.open /\ x.sclust = a /\ x.size = n /\ x.mod /\ x.pos = 0
  BY <1>1, <1>2, <1>4, <1>6 DEF Object
<1>12. fil' = [fil EXCEPT ![f] = x]
  BY <1>2 DEF a, n
<1> HIDE DEF x
<1>13. fil' \in [Files -> Object] /\ fil'[f] = x /\ \A g \in Files : g # f => fil'[g] = fil[g]
  BY <1>1, <1>11, <1>12, FilTo
<1>14. call' \in Call /\ call'.op # "truncate" /\ CallOk(v)'
  BY <1>10, IdleTypes DEF CallOk, NoHand
<1>15. FileOk(v, f)'
  <2>1. f \notin cut' => Seen1(w, f, ents[f], snap[f])
    BY <1>1, SeenOnCard
  <2>2. x.pos <= x.size /\ ~(x.pos > 0) /\ Leads(v, Now(f), x.sclust, x.size, snap[f])
    BY <1>4, <1>10, <1>11
  <2>3. ents'[f] = ents[f] /\ snap'[f] = snap[f] /\ (f \in cut' => f \in cut) /\ x.open /\ x.mod
    BY <1>11
  <2> QED
    BY <1>1, <1>10, <1>13, <1>14, <2>1, <2>2, <2>3, FileGrows
<1>16. Types'
  BY <1>1, <1>7, <1>13, <1>14 DEF Types
<1>17. \A g \in Files : g # f => Alike(g)
  <2>1. \A g \in Files : g # f => fil'[g] = fil[g] /\ ents'[g] = ents[g] /\ snap'[g] = snap[g]
    BY <1>13
  <2> QED
    BY <1>1, <1>14, <2>1, OthersAlike
<1>18. CardOk'
  <2>1. \A g \in Files : snap'[g] = snap[g]
    OBVIOUS
  <2> QED
    BY <2>1, CardNext
<1> QED
  BY <1>7, <1>10, <1>14, <1>15, <1>16, <1>17, <1>18, OneFile

\* f_expand links its row, and the file gets it when it is complete.
LEMMA ExpandFillStep ==
  ASSUME NEW w, Inv(w), ExpandFill
  PROVE  IInv'
<1>0. PICK f \in Files : f = call.f
  BY DEF ExpandFill, Inv, CallOk, Idle
<1>1. /\ Types /\ Expanding(w, f) /\ call.op = "expand" /\ NoHand(w) /\ call.n \in Nat /\ call.n >= 1 /\ fil \in [Files -> Object]
  BY <1>0, CallTypes DEF ExpandFill, Inv, CallOk, Idle, Growing, Removing, Expanding, Registering, Syncing, Ending, Types
<1>2. UNCHANGED <<ents, free, snap, crashes>>
  BY DEF ExpandFill, hist, budget
<1>3. CASE call.b \notin Clus
  <2>1. Return(FALSE) /\ UNCHANGED <<fat, fil, last>> /\ UNCHANGED window
    BY <1>3 DEF ExpandFill
  <2>2. WindowTypes' /\ (Held \/ Wrote) /\ cut' \subseteq cut
    BY <1>1, <2>1, WindowStays
  <2> QED
    BY <1>1, <1>2, <2>1, <2>2, CallReturns
<1>4. CASE call.b \in Clus
  <2> DEFINE c == call.b
  <2>1. PICK o \in GetFat(c) :
          /\ Moved(o, o.ok)
          /\ PutFat(o, c, IF call.n = 1 THEN EOC ELSE c + 1)
          /\ IF o.ok /\ call.n > 1
             THEN /\ Goto([call EXCEPT !.b = c + 1, !.n = @ - 1])
                  /\ UNCHANGED <<fil, last>>
             ELSE /\ Return(o.ok)
                  /\ last' = IF o.ok THEN c ELSE last
                  /\ fil' = IF o.ok
                            THEN [fil EXCEPT ![f] = [@ EXCEPT !.sclust = call.a,
                                    !.size = c - call.a + 1, !.mod = TRUE]]
                            ELSE fil
    BY <1>0, <1>4 DEF ExpandFill
  <2>2. c \in Clus /\ c = call.b
    BY <1>4
  <2> HIDE DEF c
  <2>3. o.ok \in BOOLEAN
    BY <1>1, <2>2, EntryOkIs
  <2>4. /\ WindowTypes' /\ (Held \/ Wrote) /\ cut' \subseteq cut
        /\ (o.ok => win' = FatSec[c] /\ wflag')
    <3> DEFINE d == o.ok
    <3>1. d \in BOOLEAN /\ Moved(o, d)
      BY <2>1, <2>3
    <3> HIDE DEF d
    <3>2. /\ o.ok \in BOOLEAN /\ WindowTypes' /\ (Held \/ Wrote) /\ cut' \subseteq cut
          /\ o.ok => win' = FatSec[c]
          /\ d => wflag'
      BY <1>1, <2>2, <3>1, EntryAccess
    <3> QED
      BY <3>2 DEF d
  <2>5. CASE ~o.ok
    <3>1. UNCHANGED <<fat, fil, last>> /\ Return(o.ok)
      BY <2>1, <2>5 DEF PutFat
    <3> QED
      BY <1>1, <1>2, <2>4, <3>1, CallReturns
  <2>6. CASE o.ok /\ call.n > 1
    <3>0. call.n # 1
      BY <1>1, <2>6
    <3>1. fat' = [fat EXCEPT ![c] = c + 1]
      BY <2>1, <2>6, <3>0 DEF PutFat
    <3>3. call' = [call EXCEPT !.b = c + 1, !.n = @ - 1] /\ UNCHANGED <<fil, last>>
      BY <2>1, <2>6 DEF Goto
    <3>2. win' = FatSec[c] /\ wflag'
      BY <2>4, <2>6
    <3> QED
      BY <1>0, <1>1, <1>2, <2>2, <2>4, <2>6, <3>1, <3>2, <3>3, FillOn
  <2>7. CASE o.ok /\ ~(call.n > 1)
    <3>1. call.n = 1
      BY <1>1, <2>7
    <3>2. fat' = [fat EXCEPT ![c] = EOC] /\ call' = Idle /\ last' = c
      BY <2>1, <2>7, <3>1 DEF PutFat, Return
    <3>3. fil' = [fil EXCEPT ![f] = [@ EXCEPT !.sclust = call.a, !.size = c - call.a + 1, !.mod = TRUE]]
      BY <2>1, <2>7
    <3>4. win' = FatSec[c] /\ wflag'
      BY <2>4, <2>7
    <3> QED
      BY <1>0, <1>1, <1>2, <2>2, <2>4, <3>1, <3>2, <3>3, <3>4, FillEnd
  <2> QED
    BY <2>3, <2>5, <2>6, <2>7
<1> QED
  BY <1>3, <1>4

-----------------------------------------------------------------------------
(* Every step.                                                             *)

\* Nothing happens.
LEMMA IdleStep ==
  ASSUME NEW w, Inv(w), UNCHANGED vars
  PROVE  IInv'
<1>1. /\ fat' = fat /\ ents' = ents /\ disk' = disk /\ win' = win /\ wflag' = wflag /\ cut' = cut
      /\ fil' = fil /\ last' = last /\ free' = free /\ call' = call /\ crashes' = crashes /\ snap' = snap
  BY DEF vars, window, hist, budget
<1>2. Types' /\ Windows'
  BY <1>1 DEF Inv, Types, WindowTypes, Windows
<1>3. CardOk' /\ Good(fat', w)
  BY <1>1 DEF Inv, CardOk, CardIs
<1>4. \A f \in Files : FileOk(w, f)'
  BY <1>1 DEF Inv, FileOk, ObjectOk, EntryOk, CursorOk, Shrinking, StartNow, SizeNow, Seeking
<1>5. CallOk(w)'
  <2>1. CallOk(w)
    BY DEF Inv
  <2>2. CASE call = Idle /\ NoHand(w)
    BY <1>1, <2>2 DEF CallOk
  <2>3. CASE call.f \in Files /\ Growing(w, call.f)
    BY <1>1, <2>3 DEF CallOk, Growing, Got, Reached, Fresh, Live
  <2>4. CASE call.f \in Files /\ Removing(w, call.f)
    BY <1>1, <2>4 DEF CallOk, Removing, Live
  <2>5. CASE call.f \in Files /\ Expanding(w, call.f)
    BY <1>1, <2>5 DEF CallOk, Expanding, Live
  <2>6. CASE call.f \in Files /\ (Registering(w, call.f) \/ Syncing(w, call.f) \/ Ending(w))
    BY <1>1, <2>6 DEF CallOk, Registering, Syncing, Ending
  <2> QED
    BY <2>1, <2>2, <2>3, <2>4, <2>5, <2>6 DEF CallOk
<1> QED
  BY <1>2, <1>3, <1>4, <1>5 DEF IInv, Inv

\* Every step keeps the invariant.
LEMMA NextInv ==
  ASSUME IInv, [Next]_vars
  PROVE  IInv'
<1>1. PICK w : Inv(w)
  BY DEF IInv
<1>2. CASE Opens
  <2>1. PICK f \in Files : OpenExisting(f) \/ OpenCreate(f)
    BY <1>2 DEF Opens
  <2> QED
    BY <1>1, <2>1, OpenExistingStep, OpenCreateStep
<1>3. CASE Moves
  <2>1. PICK f \in Files, n \in 0 .. MaxSize :
          \/ n > 0 /\ FWrite(f, n)
          \/ FLseek(f, n)
          \/ n > 0 /\ \E opt \in {0, 1} : FExpand(f, n, opt)
    BY <1>3 DEF Moves
  <2>2. n \in Nat /\ (n > 0 => n >= 1)
    BY VolumeAssumption
  <2>3. CASE n > 0 /\ FWrite(f, n)
    BY <1>1, <2>2, <2>3, FWriteStep
  <2>4. CASE FLseek(f, n)
    BY <1>1, <2>2, <2>4, FLseekStep
  <2>5. CASE n > 0 /\ \E opt \in {0, 1} : FExpand(f, n, opt)
    BY <1>1, <2>2, <2>5, FExpandStep
  <2> QED
    BY <2>1, <2>3, <2>4, <2>5
<1>4. CASE Ends
  <2>1. PICK f \in Files : FTruncate(f) \/ FUnlink(f) \/ FMkdir(f) \/ FSync("sync", f) \/ FSync("close", f)
    BY <1>4 DEF Ends
  <2>2. CASE FSync("sync", f) \/ FSync("close", f)
    <3>1. PICK op \in {"sync", "close"} : FSync(op, f)
      BY <2>2
    <3> QED
      BY <1>1, <3>1, FSyncStep
  <2> QED
    BY <1>1, <2>1, <2>2, FTruncateStep, FUnlinkStep, FMkdirStep
<1>5. CASE FGetfree
  BY <1>1, <1>5, FGetfreeStep
<1>6. CASE Steps
  <2>1. CASE ChainFind \/ ChainLink \/ RemoveCut \/ RemoveOne
    BY <1>1, <2>1, ChainFindStep, ChainLinkStep, RemoveCutStep, RemoveOneStep
  <2>2. CASE OpenCreated \/ WriteGot \/ SeekGot \/ Truncated \/ ExpandFill
    BY <1>1, <2>2, OpenCreatedStep, WriteGotStep, SeekGotStep, TruncatedStep, ExpandFillStep
  <2>3. CASE SyncEnd \/ Unlinked \/ EntrySync \/ MkdirGot \/ MkdirRegister \/ MkdirUndone
    BY <1>1, <2>3, SyncEndStep, UnlinkedStep, EntrySyncStep, MkdirGotStep, MkdirRegisterStep, MkdirUndoneStep
  <2> QED
    BY <1>6, <2>1, <2>2, <2>3 DEF Steps
<1>7. CASE Crash
  BY <1>1, <1>7, CrashStep
<1>8. CASE UNCHANGED vars
  BY <1>1, <1>8, IdleStep
<1> QED
  BY <1>2, <1>3, <1>4, <1>5, <1>6, <1>7, <1>8 DEF Next

\* The inductive invariant: after any calls, transfer errors and power losses
\* there is a witness for the FAT in the window and one for the card.
THEOREM Chains == Spec => []IInv
<1>1. Init => IInv
  BY InitInv
<1>2. IInv /\ [Next]_vars => IInv'
  BY NextInv
<1> QED
  BY <1>1, <1>2, PTL DEF Spec

-----------------------------------------------------------------------------
(* What the invariant says.                                                *)

\* Files whose starts and sizes lead to different chains.
LEMMA LeadsSound ==
  ASSUME NEW t, NEW w, Good(t, w), NEW S, S \subseteq Files, NEW start, NEW size,
         \A f \in S : \E s : \E o \in {Now(f), Old(f)} : size[f] \in Nat /\ Leads(w, o, start[f], size[f], s)
  PROVE  Sound(t, S, start, size)
<1>1. ASSUME NEW f \in S
      PROVE  /\ \A x \in Reach(t, start[f]) : x \in Clus /\ w.own[x] \in {Now(f), Old(f)} /\ t[x] # 0
             /\ Cardinality(Reach(t, start[f])) >= size[f]
  <2>1a. PICK s : \E o \in {Now(f), Old(f)} : size[f] \in Nat /\ Leads(w, o, start[f], size[f], s)
    OBVIOUS
  <2>1. PICK o \in {Now(f), Old(f)} : size[f] \in Nat /\ Leads(w, o, start[f], size[f], s)
    BY <2>1a
  <2>2. o \in Tags /\ o # Nobody
    BY Tagging
  <2> DEFINE a == start[f]
             n == size[f]
  <2>3. n \in Nat /\ Leads(w, o, a, n, s)
    BY <2>1
  <2> HIDE DEF a, n
  <2>4. /\ n <= NClust
        /\ \A x \in Reach(t, a) : x \in Clus /\ w.own[x] = o /\ t[x] # 0
        /\ n <= Cardinality(Reach(t, a))
        /\ a # 0 => \A x \in Clus : w.own[x] = o => x \in Reach(t, a)
    BY <2>2, <2>3, LeadsReach
  <2>5. (n <= Cardinality(Reach(t, a))) = (Cardinality(Reach(t, a)) >= n)
    OBVIOUS
  <2> QED
    BY <2>4, <2>5 DEF a, n
<1>2. ASSUME NEW f \in S, NEW g \in S, g # f
      PROVE  Reach(t, start[f]) \cap Reach(t, start[g]) = {}
  <2>1. {Now(f), Old(f)} \cap {Now(g), Old(g)} = {}
    BY <1>2, Tagging
  <2> QED
    BY <1>1, <2>1
<1> QED
  BY <1>1, <1>2 DEF Sound

\* What the invariant says of the chains, the card, the synced files, the cursors
\* and a full volume.
LEMMA InvChains ==
  ASSUME IInv
  PROVE  ChainsSound
<1>1. PICK w : Inv(w)
  BY DEF IInv
<1>2. Types /\ Good(fat, w) /\ \A f \in Files : FileOk(w, f)
  BY <1>1 DEF Inv
<1> DEFINE S == Files \ Shrinking
           start == StartOf
           size == SizeOf
<1>3. ASSUME NEW f \in S
      PROVE  \E s : \E o \in {Now(f), Old(f)} : size[f] \in Nat /\ Leads(w, o, start[f], size[f], s)
  <2>1. FileOk(w, f) /\ f \notin Shrinking /\ fil[f].open \in BOOLEAN
    BY <1>2 DEF Types, Object
  <2>2. CASE fil[f].open
    <3>1. start[f] = fil[f].sclust /\ size[f] = fil[f].size
      BY <2>2 DEF StartOf, SizeOf
    <3>2. Leads(w, Now(f), fil[f].sclust, fil[f].size, snap[f])
      BY <2>1, <2>2 DEF FileOk, ObjectOk, StartNow, SizeNow
    <3> QED
      BY <3>1, <3>2 DEF Leads
  <2>3. CASE ~fil[f].open
    <3>1. start[f] = ents[f].start /\ size[f] = ents[f].size
      BY <2>3 DEF StartOf, SizeOf
    <3>2. PICK o \in {Now(f), Old(f)} : Leads(w, o, ents[f].start, ents[f].size, snap[f])
      BY <2>1, <2>3 DEF FileOk, EntryOk, Seen1
    <3>3. ents[f].size \in Nat
      BY <3>2 DEF Leads
    <3> HIDE DEF start, size
    <3>4. size[f] \in Nat /\ Leads(w, o, start[f], size[f], snap[f])
      BY <3>1, <3>2, <3>3
    <3> QED
      BY <3>4
  <2> QED
    BY <2>1, <2>2, <2>3
<1>4. S \subseteq Files
  OBVIOUS
<1> HIDE DEF S, start, size
<1>5. Sound(fat, S, start, size)
  BY <1>2, <1>3, <1>4, LeadsSound
<1> QED
  BY <1>5 DEF ChainsSound, S, start, size

LEMMA InvCrash ==
  ASSUME IInv
  PROVE  CrashSound
<1>1. PICK u : CardIs(u)
  BY DEF IInv, Inv, CardOk
<1> DEFINE S == Files \ cut
           start == [f \in Files |-> disk.ents[f].start]
           size == [f \in Files |-> disk.ents[f].size]
           t == disk.fat
<1>2. Good(t, u)
  BY <1>1 DEF CardIs
<1>3. ASSUME NEW f \in S
      PROVE  \E s : \E o \in {Now(f), Old(f)} : size[f] \in Nat /\ Leads(u, o, start[f], size[f], s)
  <2>1. PICK o \in {Now(f), Old(f)} : Leads(u, o, disk.ents[f].start, disk.ents[f].size, snap[f])
    BY <1>1 DEF CardIs, Seen1
  <2>2. start[f] = disk.ents[f].start /\ size[f] = disk.ents[f].size
    OBVIOUS
  <2>3. disk.ents[f].size \in Nat
    BY <2>1 DEF Leads
  <2> HIDE DEF start, size
  <2>4. size[f] \in Nat /\ Leads(u, o, start[f], size[f], snap[f])
    BY <2>1, <2>2, <2>3
  <2> QED
    BY <2>4
<1>4. S \subseteq Files
  OBVIOUS
<1> HIDE DEF S, start, size, t
<1>5. Sound(t, S, start, size)
  BY <1>2, <1>3, <1>4, LeadsSound
<1> QED
  BY <1>5 DEF CrashSound, S, start, size, t

LEMMA InvSynced ==
  ASSUME IInv
  PROVE  SyncedSurvives
<1>1. PICK w : Inv(w)
  BY DEF IInv
<1>2. Types /\ CardOk /\ \A f \in Files : FileOk(w, f)
  BY <1>1 DEF Inv
<1>3. PICK u : CardIs(u)
  BY <1>2 DEF CardOk
<1>4. SUFFICES ASSUME NEW f \in Files
      PROVE  /\ Walk(disk.fat, disk.ents[f].start, Len(snap[f])) = snap[f]
             /\ disk.ents[f].size >= Len(snap[f])
  BY DEF SyncedSurvives
<1>5. snap[f] \in Seq(Clus) /\ disk.ents[f].size \in Nat
  BY <1>2 DEF Types, WindowTypes, Entry
<1>6. CASE f \in cut
  <2>1. snap[f] = << >> /\ Len(<< >>) = 0
    BY <1>2, <1>6 DEF FileOk
  <2>2. Walk(disk.fat, disk.ents[f].start, 0) = << >>
    BY WalkNone
  <2> QED
    BY <1>5, <2>1, <2>2
<1>7. CASE f \notin cut
  <2>1. PICK o \in {Now(f), Old(f)} : Leads(u, o, disk.ents[f].start, disk.ents[f].size, snap[f])
    BY <1>3, <1>7 DEF CardIs, Seen1
  <2> DEFINE t == disk.fat
             a == disk.ents[f].start
             n == disk.ents[f].size
             s == snap[f]
  <2>2. Good(t, u) /\ o \in Tags /\ o # Nobody /\ n \in Nat /\ s \in Seq(Clus) /\ Leads(u, o, a, n, s)
    BY <1>3, <1>5, <2>1, Tagging DEF CardIs
  <2>3. Len(s) <= n
    BY <2>2 DEF Leads
  <2>4. n >= Len(s)
    BY <2>2, <2>3
  <2> HIDE DEF t, a, n, s
  <2>5. Walk(t, a, Len(s)) = s
    BY <2>2, LeadsWalk
  <2> QED
    BY <2>4, <2>5 DEF t, a, n, s
<1> QED
  BY <1>6, <1>7

LEMMA InvCursor ==
  ASSUME IInv
  PROVE  CursorOnChain
<1>1. PICK w : Inv(w)
  BY DEF IInv
<1>2. Types /\ Good(fat, w)
  BY <1>1 DEF Inv
<1>3. SUFFICES ASSUME NEW f \in Files, fil[f].open, ~fil[f].err, call.f # f, fil[f].pos > 0
      PROVE  /\ Len(Walk(fat, fil[f].sclust, fil[f].pos)) = fil[f].pos
             /\ Walk(fat, fil[f].sclust, fil[f].pos)[fil[f].pos] = fil[f].clust
  BY DEF CursorOnChain
<1>4. FileOk(w, f) /\ f \notin Shrinking /\ ~Seeking(f)
  BY <1>1, <1>3 DEF Inv, Shrinking, Seeking
<1>5. /\ Leads(w, Now(f), fil[f].sclust, fil[f].size, snap[f])
      /\ fil[f].pos <= fil[f].size /\ fil[f].clust \in Clus
      /\ w.own[fil[f].clust] = Now(f) /\ w.idx[fil[f].clust] = fil[f].pos
  BY <1>3, <1>4 DEF FileOk, ObjectOk, CursorOk, StartNow, SizeNow
<1> DEFINE o == Now(f)
           a == fil[f].sclust
           m == fil[f].size
           s == snap[f]
           n == fil[f].pos
           c == fil[f].clust
<1>6. /\ o \in Tags /\ o # Nobody /\ m \in Nat /\ n \in Nat /\ n > 0 /\ n <= m /\ Leads(w, o, a, m, s)
      /\ c \in Clus /\ w.own[c] = o /\ w.idx[c] = n
  BY <1>2, <1>3, <1>5, Tagging DEF Types, Object
<1> HIDE DEF o, a, m, s, n, c
<1>7. /\ Places(w, o, n, Walk(fat, a, n))
      /\ \A x \in Clus : n > 0 /\ w.own[x] = o /\ w.idx[x] = n => Walk(fat, a, n)[n] = x
  BY <1>2, <1>6, LeadsTo
<1>8. Len(Walk(fat, a, n)) = n /\ Walk(fat, a, n)[n] = c
  BY <1>6, <1>7 DEF Places
<1> QED
  BY <1>8 DEF a, n, c

LEMMA InvFull ==
  ASSUME IInv
  PROVE  FullMeansFull
<1>1. PICK w : Inv(w)
  BY DEF IInv
<1>2. SUFFICES ASSUME call.pc = "got", call.op \in {"write", "lseek", "mkdir"}, call.r = Full
      PROVE  \A c \in Clus : fat[c] # 0
  BY DEF FullMeansFull, FreeClus
<1>3. CallOk(w)
  BY <1>1 DEF Inv
<1>4. Growing(w, call.f)
  BY <1>2, <1>3 DEF CallOk, Idle, Removing, Expanding, Registering, Syncing, Ending
<1> QED
  BY <1>2, <1>4 DEF Growing, Got

-----------------------------------------------------------------------------
(* Sizes.                                                                  *)

\* The card stays or gets what is in the window.
Carded == disk' = disk \/ disk' = Flushed.disk

\* What an access does to the card: nothing, or sync_window.
LEMMA AccessCard ==
  ASSUME NEW S, NEW s, NEW o \in MoveWindow(S, s), NEW d, Moved(o, d)
  PROVE  Carded
<1>1. o.card = OnCard \/ o.card = Flushed
  BY DEF MoveWindow
<1> QED
  BY <1>1 DEF Moved, Carded, OnCard

\* What a step does to the card.
LEMMA DiskNext ==
  ASSUME [Next]_vars
  PROVE  Carded
<1>1. CASE Opens
  <2>1. PICK f \in Files : OpenExisting(f) \/ OpenCreate(f)
    BY <1>1 DEF Opens
  <2>2. PICK d : \E o \in MoveWindow({Dir}, Dir) : Moved(o, d)
    BY <2>1 DEF OpenExisting, OpenCreate, Load
  <2> QED
    BY <2>2, AccessCard
<1>2. CASE Moves
  <2>1. PICK f \in Files, n \in 0 .. MaxSize : FWrite(f, n) \/ FLseek(f, n) \/ \E opt \in {0, 1} : FExpand(f, n, opt)
    BY <1>2 DEF Moves
  <2>2. CASE FWrite(f, n) \/ FLseek(f, n)
    BY <2>2 DEF FWrite, FLseek, window, Carded
  <2>3. CASE \E opt \in {0, 1} : FExpand(f, n, opt)
    <3>1. PICK opt \in {0, 1} : FExpand(f, n, opt)
      BY <2>3
    <3>2. PICK S, s : \E d : \E o \in MoveWindow(S, s) : Moved(o, d)
      BY <3>1 DEF FExpand
    <3> QED
      BY <3>2, AccessCard
  <2> QED
    BY <2>1, <2>2, <2>3
<1>3. CASE Ends
  <2>1. PICK f \in Files : FTruncate(f) \/ FUnlink(f) \/ FMkdir(f) \/ FSync("sync", f) \/ FSync("close", f)
    BY <1>3 DEF Ends
  <2>2. CASE FTruncate(f)
    <3>1. CASE disk' = disk
      BY <3>1 DEF Carded
    <3>2. CASE \E o \in GetFat(fil[f].clust) : disk' = o.card.disk
      <4>1. PICK o \in MoveWindow({FatSec[fil[f].clust]}, FatSec[fil[f].clust]) : disk' = o.card.disk
        BY <3>2 DEF GetFat, Load
      <4>2. o.card = OnCard \/ o.card = Flushed
        BY <4>1 DEF MoveWindow
      <4> QED
        BY <4>1, <4>2 DEF OnCard, Carded
    <3> QED
      BY <2>2, <3>1, <3>2 DEF FTruncate
  <2>3. CASE FUnlink(f)
    <3>1. PICK S : \E d : \E o \in MoveWindow(S, Dir) : Moved(o, d)
      BY <2>3 DEF FUnlink
    <3> QED
      BY <3>1, AccessCard
  <2>4. CASE FMkdir(f)
    <3>1. PICK d : \E o \in MoveWindow({Dir}, Dir) : Moved(o, d)
      BY <2>4 DEF FMkdir, Load
    <3> QED
      BY <3>1, AccessCard
  <2>5. CASE FSync("sync", f) \/ FSync("close", f)
    <3>1. CASE disk' = disk
      BY <3>1 DEF Carded
    <3>2. CASE \E d : \E o \in Load(Dir) : Moved(o, d)
      <4>1. PICK d : \E o \in MoveWindow({Dir}, Dir) : Moved(o, d)
        BY <3>2 DEF Load
      <4> QED
        BY <4>1, AccessCard
    <3> QED
      BY <2>5, <3>1, <3>2 DEF FSync, window
  <2> QED
    BY <2>1, <2>2, <2>3, <2>4, <2>5
<1>4. CASE FGetfree
  <2>1. PICK o \in MoveWindow(FatSecs, FatSec[NFatEnt - 1]) : Moved(o, FALSE)
    BY <1>4 DEF FGetfree
  <2> QED
    BY <2>1, AccessCard
<1>5. CASE Steps
  <2>1. CASE ChainFind
    <3>1. PICK S, s : \E d : \E o \in MoveWindow(S, s) : Moved(o, d)
      BY <2>1 DEF ChainFind, GetFat, Load
    <3> QED
      BY <3>1, AccessCard
  <2>2. CASE ChainLink \/ RemoveCut
    <3>1. PICK S, s : \E d : \E o \in MoveWindow(S, s) : Moved(o, d)
      BY <2>2 DEF ChainLink, RemoveCut, GetFat, Load
    <3> QED
      BY <3>1, AccessCard
  <2>3. CASE RemoveOne
    <3>1. PICK S, s : \E d : \E o \in MoveWindow(S, s) : Moved(o, d)
      BY <2>3 DEF RemoveOne, GetFat, Load
    <3> QED
      BY <3>1, AccessCard
  <2>4. CASE OpenCreated
    <3>1. CASE \E S, s : \E d : \E o \in MoveWindow(S, s) : Moved(o, d)
      BY <3>1, AccessCard
    <3>2. CASE disk' = disk
      BY <3>2 DEF Carded
    <3> QED
      BY <2>4, <3>1, <3>2 DEF OpenCreated, Load, window
  <2>5. CASE WriteGot \/ SeekGot \/ Truncated \/ Unlinked \/ MkdirUndone
    BY <2>5 DEF WriteGot, SeekGot, Truncated, Unlinked, MkdirUndone, window, Carded
  <2>6. CASE ExpandFill
    <3>1. CASE \E S, s : \E d : \E o \in MoveWindow(S, s) : Moved(o, d)
      BY <3>1, AccessCard
    <3>2. CASE disk' = disk
      BY <3>2 DEF Carded
    <3> QED
      BY <2>6, <3>1, <3>2 DEF ExpandFill, GetFat, Load, window
  <2>7. CASE SyncEnd \/ EntrySync
    <3>1. PICK ok \in BOOLEAN : SyncFs(ok)
      BY <2>7 DEF SyncEnd, EntrySync
    <3> QED
      BY <3>1 DEF SyncFs, Carded
  <2>8. CASE MkdirGot
    BY <2>8 DEF MkdirGot, window, Carded
  <2>9. CASE MkdirRegister
    <3>1. PICK S, s : \E d : \E o \in MoveWindow(S, s) : Moved(o, d)
      BY <2>9 DEF MkdirRegister, Load
    <3> QED
      BY <3>1, AccessCard
  <2> QED
    BY <1>5, <2>1, <2>2, <2>3, <2>4, <2>5, <2>6, <2>7, <2>8, <2>9 DEF Steps
<1>6. CASE Crash \/ UNCHANGED vars
  BY <1>6 DEF Crash, vars, window, Carded
<1> QED
  BY <1>1, <1>2, <1>3, <1>4, <1>5, <1>6 DEF Next

\* What a step may do to the object of g.
Kept(g) ==
  /\ fil'[g] = fil[g] \/ fil'[g].open \/ fil'[g] = Closed
  /\ (g \in Shrinking)' => fil'[g] = fil[g]

\* What f_write and f_lseek do to an object leaves it open.
LEMMA StillOpen ==
  ASSUME NEW x \in Object, x.open
  PROVE  /\ InError(x).open
         /\ \A c : Enter(x, c).open /\ InError(Enter(x, c)).open /\ Advance(Enter(x, c)).open
         /\ \A n : Arrive(x, n).open
         /\ \A k, f : SeekFrom(f, k, x).open
BY DEF Object, InError, Enter, Advance, Arrive, SeekFrom

\* The object of one file becomes x, and no f_truncate is on its way.
LEMMA OneKept ==
  ASSUME Types, NEW f \in Files, NEW x, x.open \/ x = Closed, fil' = [fil EXCEPT ![f] = x], call'.op # "truncate",
         NEW g \in Files
  PROVE  Kept(g)
<1>1. fil'[g] = IF g = f THEN x ELSE fil[g]
  BY DEF Types
<1>2. (g \notin Shrinking)'
  BY DEF Shrinking
<1> QED
  BY <1>1, <1>2 DEF Kept

\* No object changes.
LEMMA Same ==
  ASSUME fil' = fil, NEW g \in Files
  PROVE  Kept(g)
BY DEF Kept

\* The object of the file that writes, seeks, truncates or expands is open.
LEMMA AtWork ==
  ASSUME NEW w, Inv(w), call.op \in {"write", "lseek", "truncate", "expand", "sync", "close"}
  PROVE  call.f \in Files /\ fil[call.f].open /\ fil[call.f] \in Object
<1>1. CallOk(w) /\ Types
  BY DEF Inv
<1>2. call.f \in Files /\ fil[call.f].open
  BY <1>1 DEF CallOk, Idle, Growing, Removing, Expanding, Registering, Syncing, Ending, Live
<1> QED
  BY <1>1, <1>2 DEF Types

\* What the calls and steps do to an object: f_open,
LEMMA OpenKept ==
  ASSUME NEW w, Inv(w), NEW f \in Files, OpenExisting(f) \/ OpenCreate(f), NEW g \in Files
  PROVE  Kept(g)
<1>1. Types /\ call.op = "none"
  BY IdleIs DEF Inv, OpenExisting, OpenCreate
<1>2. CASE OpenExisting(f)
  <2>1. call' = call
    BY <1>2 DEF OpenExisting, ReturnAtOnce
  <2>2. fil' = fil \/ fil' = [fil EXCEPT ![f] = Opened(ents[f].start, ents[f].size, FALSE)]
    BY <1>2 DEF OpenExisting
  <2>3. Opened(ents[f].start, ents[f].size, FALSE).open
    BY DEF Opened, Closed
  <2>4. call'.op # "truncate"
    BY <1>1, <2>1
  <2> QED
    BY <1>1, <2>2, <2>3, <2>4, OneKept, Same
<1>3. CASE OpenCreate(f)
  <2>1. fil' = fil \/ (fil' = [fil EXCEPT ![f] = Opened(0, 0, TRUE)] /\ call' = call)
    BY <1>3 DEF OpenCreate, ReturnAtOnce
  <2> DEFINE x == Opened(0, 0, TRUE)
  <2>2. x.open
    BY DEF Opened, Closed
  <2>3. fil' = fil \/ (fil' = [fil EXCEPT ![f] = x] /\ call'.op # "truncate")
    BY <1>1, <2>1
  <2> HIDE DEF x
  <2> QED
    BY <1>1, <2>2, <2>3, OneKept, Same
<1> QED
  BY <1>2, <1>3

\* f_write, f_lseek and f_expand,
LEMMA MoveKept ==
  ASSUME NEW w, Inv(w), NEW f \in Files, NEW n, FWrite(f, n) \/ FLseek(f, n) \/ (\E opt \in {0, 1} : FExpand(f, n, opt)),
         NEW g \in Files
  PROVE  Kept(g)
<1>1. CASE FWrite(f, n) \/ \E opt \in {0, 1} : FExpand(f, n, opt)
  BY <1>1, Same DEF FWrite, FExpand
<1>2. CASE FLseek(f, n)
  <2>1. Types /\ call.op = "none" /\ fil[f].open /\ fil[f] \in Object
    BY <1>2, IdleIs DEF Inv, FLseek, Usable, Types
  <2>2. call'.op # "truncate"
    <3>1. call' = call \/ \E a, m : call' = At("lseek", f, "chain", a, 0, m)
      BY <1>2 DEF FLseek, ReturnAtOnce, Begin
    <3> QED
      BY <2>1, <3>1 DEF At
  <2>3. \E x : x.open /\ fil' = [fil EXCEPT ![f] = x]
    <3> DEFINE y == SeekFrom(f, n, fil[f])
               z == [[fil[f] EXCEPT !.pos = 0] EXCEPT !.clust = 0]
    <3>1. y.open
      BY <2>1, StillOpen
    <3>2. Arrive(y, y.pos + 1).open
      BY <3>1 DEF Arrive
    <3>3. z.open
      BY <2>1 DEF Object
    <3>4. \/ fil' = [fil EXCEPT ![f] = y]
          \/ fil' = [fil EXCEPT ![f] = Arrive(y, y.pos + 1)]
          \/ fil' = [fil EXCEPT ![f].pos = 0, ![f].clust = 0]
      BY <1>2 DEF FLseek, SeekOn
    <3>5. [fil EXCEPT ![f].pos = 0, ![f].clust = 0] = [fil EXCEPT ![f] = z]
      BY <2>1 DEF Types
    <3> QED
      BY <3>1, <3>2, <3>3, <3>4, <3>5
  <2> QED
    BY <2>1, <2>2, <2>3, OneKept
<1> QED
  BY <1>1, <1>2

\* f_truncate, f_unlink, f_mkdir, f_sync and f_close,
LEMMA EndKept ==
  ASSUME NEW w, Inv(w), NEW f \in Files,
         FTruncate(f) \/ FUnlink(f) \/ FMkdir(f) \/ (\E op \in {"sync", "close"} : FSync(op, f)), NEW g \in Files
  PROVE  Kept(g)
<1>0. Types /\ call.op = "none"
  BY IdleIs DEF Inv, FTruncate, Usable, FUnlink, FMkdir, FSync
<1>1. CASE FUnlink(f) \/ FMkdir(f)
  BY <1>1, Same DEF FUnlink, FMkdir
<1>2. CASE FTruncate(f)
  <2>1. fil' = fil \/ (call' = call /\ \E ok \in BOOLEAN : Shortened(f, ok))
    BY <1>2 DEF FTruncate, ReturnAtOnce
  <2>2. CASE call' = call /\ \E ok \in BOOLEAN : Shortened(f, ok)
    <3>1. fil[f].open /\ fil[f] \in Object
      BY <1>0, <1>2 DEF FTruncate, Usable, Types
    <3>2. \E x : x.open /\ fil' = [fil EXCEPT ![f] = x]
      BY <2>2, <3>1 DEF Shortened, InError, Object
    <3>3. call'.op # "truncate"
      BY <1>0, <2>2
    <3> QED
      BY <1>0, <3>2, <3>3, OneKept
  <2> QED
    BY <2>1, <2>2, Same
<1>3. CASE \E op \in {"sync", "close"} : FSync(op, f)
  <2>1. PICK op \in {"sync", "close"} : FSync(op, f)
    BY <1>3
  <2>2. fil' = fil \/ (call' = call /\ CloseIf(op, f, fil[f]))
    BY <2>1 DEF FSync, ReturnAtOnce
  <2>3. CASE call' = call /\ CloseIf(op, f, fil[f])
    <3>1. fil[f].open /\ call'.op # "truncate"
      BY <1>0, <2>1, <2>3 DEF FSync
    <3>2. \E x : (x.open \/ x = Closed) /\ fil' = [fil EXCEPT ![f] = x]
      BY <2>3, <3>1 DEF CloseIf
    <3> QED
      BY <1>0, <3>1, <3>2, OneKept
  <2> QED
    BY <2>2, <2>3, Same
<1> QED
  BY <1>1, <1>2, <1>3

\* and the steps after the first one.
LEMMA WorkKept ==
  ASSUME NEW w, Inv(w), OpenCreated \/ WriteGot \/ SeekGot \/ Truncated \/ ExpandFill \/ SyncEnd, NEW g \in Files
  PROVE  Kept(g)
<1>0. Types
  BY DEF Inv
<1> DEFINE Onto(f) == \E x : (x.open \/ x = Closed) /\ fil' = [fil EXCEPT ![f] = x]
<1>1. SUFFICES \E f \in Files : fil' = fil \/ (Onto(f) /\ call'.op # "truncate")
  BY <1>0, OneKept, Same
<1>2. \A op : op # "truncate" => (call' = Idle \/ call'.op = op => call'.op # "truncate")
  BY DEF Idle
<1>3. CASE OpenCreated
  <2>1. call.f \in Files
    BY <1>3 DEF Inv, CallOk, OpenCreated, Idle
  <2>2. call' = Idle
    BY <1>3 DEF OpenCreated, Return
  <2>3. fil' = fil \/ fil' = [fil EXCEPT ![call.f] = Opened(0, 0, TRUE)]
    BY <1>3 DEF OpenCreated
  <2>4. Opened(0, 0, TRUE).open
    BY DEF Opened, Closed
  <2> QED
    BY <1>2, <2>1, <2>2, <2>3, <2>4 DEF Idle
<1>4. CASE WriteGot
  <2> DEFINE f == call.f
             r == call.r
             y == fil[f]
             x == Advance(Enter(fil[f], r))
  <2>1. f \in Files /\ y.open /\ y \in Object
    BY <1>4, AtWork DEF WriteGot
  <2>2. InError(y).open /\ Enter(y, r).open /\ InError(Enter(y, r)).open /\ x.open /\ [x EXCEPT !.mod = TRUE].open /\ [y EXCEPT !.mod = TRUE].open
    <3>1. InError(y).open /\ Enter(y, r).open /\ InError(Enter(y, r)).open /\ x.open
      BY <2>1, StillOpen
    <3> QED
      BY <2>1, <3>1 DEF Object, Advance
  <2>3. call'.op # "truncate"
    <3>1. call' = Idle \/ \E z, m : call' = [WriteFrom(f, z) EXCEPT !.n = m]
      BY <1>4 DEF WriteGot, Abort, Return, Goto
    <3>2. \A z : WriteFrom(f, z) \in [{"op", "f", "pc", "a", "b", "n", "r"} -> {WriteFrom(f, z)[i] : i \in {"op", "f", "pc", "a", "b", "n", "r"}}]
                /\ WriteFrom(f, z).op = "write"
      BY DEF WriteFrom, At
    <3>3. \A z, m : [WriteFrom(f, z) EXCEPT !.n = m].op = "write"
      BY <3>2
    <3>4. Idle.op = "none"
      BY DEF Idle
    <3> QED
      BY <3>1, <3>3, <3>4
  <2>4. \/ fil' = [fil EXCEPT ![f] = InError(y)]
        \/ fil' = [fil EXCEPT ![f] = [y EXCEPT !.mod = TRUE]]
        \/ fil' = [fil EXCEPT ![f] = InError(Enter(y, r))]
        \/ fil' = [fil EXCEPT ![f] = [x EXCEPT !.mod = TRUE]]
        \/ fil' = [fil EXCEPT ![f] = x]
    BY <1>4 DEF WriteGot, Abort
  <2> HIDE DEF x, y
  <2> QED
    BY <2>1, <2>2, <2>3, <2>4
<1>5. CASE SeekGot
  <2> DEFINE f == call.f
             r == call.r
             y == fil[f]
             x == IF call.a = 0 THEN [y EXCEPT !.sclust = r, !.clust = r]
                  ELSE [y EXCEPT !.clust = r, !.pos = @ + 1]
  <2>1. f \in Files /\ y.open /\ y \in Object
    BY <1>5, AtWork DEF SeekGot
  <2>2. x.open /\ InError(y).open /\ Arrive(x, x.pos + 1).open /\ Arrive(y, y.pos + 1).open
    BY <2>1 DEF InError, Arrive, Object
  <2>3. call'.op # "truncate"
    <3>1. call.op = "lseek" /\ (call' = Idle \/ \E a, n : call' = [call EXCEPT !.pc = "chain", !.a = a, !.n = n])
      BY <1>5 DEF SeekGot, Abort, Return, Goto
    <3>2. call \in Call
      BY <1>0 DEF Types
    <3>3. CASE call' = Idle
      BY <3>3 DEF Idle
    <3>4. CASE \E a, n : call' = [call EXCEPT !.pc = "chain", !.a = a, !.n = n]
      <4>1. PICK a, n : call' = [call EXCEPT !.pc = "chain", !.a = a, !.n = n]
        BY <3>4
      <4>2. call'.op = call.op
        BY <3>2, <4>1 DEF Call
      <4> QED
        BY <3>1, <4>2
    <3> QED
      BY <3>1, <3>3, <3>4
  <2>4. \/ fil' = [fil EXCEPT ![f] = InError(y)]
        \/ fil' = [fil EXCEPT ![f] = x]
        \/ fil' = [fil EXCEPT ![f] = Arrive(y, y.pos + 1)]
        \/ fil' = [fil EXCEPT ![f] = Arrive(x, x.pos + 1)]
    BY <1>5 DEF SeekGot, Abort, SeekOn
  <2> HIDE DEF x, y
  <2> QED
    BY <2>1, <2>2, <2>3, <2>4
<1>6. CASE Truncated
  <2>1. call.f \in Files /\ fil[call.f].open /\ fil[call.f] \in Object
    BY <1>6, AtWork DEF Truncated
  <2>2. call' = Idle /\ \E ok \in BOOLEAN : Shortened(call.f, ok)
    BY <1>6 DEF Truncated, Return
  <2>3. \E x : x.open /\ fil' = [fil EXCEPT ![call.f] = x]
    BY <2>1, <2>2 DEF Shortened, InError, Object
  <2> QED
    BY <2>1, <2>2, <2>3 DEF Idle
<1>7. CASE ExpandFill
  <2>1. call.f \in Files /\ fil[call.f].open /\ fil[call.f] \in Object
    BY <1>7, AtWork DEF ExpandFill
  <2>2. fil' = fil \/ (call' = Idle /\ \E a, n : fil' = [fil EXCEPT ![call.f] = [@ EXCEPT !.sclust = a, !.size = n, !.mod = TRUE]])
    <3>1. CASE call.b \notin Clus
      BY <1>7, <3>1 DEF ExpandFill
    <3>2. CASE call.b \in Clus
      <4>1. PICK o \in GetFat(call.b) :
               IF o.ok /\ call.n > 1 THEN fil' = fil
               ELSE /\ call' = Idle
                    /\ fil' = IF o.ok THEN [fil EXCEPT ![call.f] = [@ EXCEPT !.sclust = call.a,
                                                  !.size = call.b - call.a + 1, !.mod = TRUE]]
                              ELSE fil
        BY <1>7, <3>2 DEF ExpandFill, Return
      <4> QED
        BY <4>1
    <3> QED
      BY <3>1, <3>2
  <2>3. CASE fil' = fil
    BY <2>1, <2>3
  <2>4. CASE call' = Idle /\ \E a, n : fil' = [fil EXCEPT ![call.f] = [@ EXCEPT !.sclust = a, !.size = n, !.mod = TRUE]]
    <3>1. PICK a, n : fil' = [fil EXCEPT ![call.f] = [@ EXCEPT !.sclust = a, !.size = n, !.mod = TRUE]]
      BY <2>4
    <3> DEFINE x == [fil[call.f] EXCEPT !.sclust = a, !.size = n, !.mod = TRUE]
    <3>2. x.open /\ fil' = [fil EXCEPT ![call.f] = x]
      BY <2>1, <3>1 DEF Object
    <3>3. call'.op # "truncate"
      BY <2>4 DEF Idle
    <3> HIDE DEF x
    <3> QED
      BY <2>1, <3>2, <3>3
  <2> QED
    BY <2>2, <2>3, <2>4
<1>8. CASE SyncEnd
  <2>1. call.f \in Files /\ fil[call.f].open /\ fil[call.f] \in Object
    BY <1>8, AtWork DEF SyncEnd
  <2> DEFINE x == [fil[call.f] EXCEPT !.mod = FALSE]
  <2>2. call' = Idle /\ \E y \in {x, Closed} : fil' = [fil EXCEPT ![call.f] = y]
    BY <1>8 DEF SyncEnd, Return, CloseIf
  <2>3. x.open
    BY <2>1 DEF Object
  <2> HIDE DEF x
  <2> QED
    BY <2>1, <2>2, <2>3 DEF Idle
<1> QED
  BY <1>3, <1>4, <1>5, <1>6, <1>7, <1>8

\* What a step does to an object.
LEMMA KeptNext ==
  ASSUME NEW w, Inv(w), [Next]_vars, NEW g \in Files
  PROVE  Kept(g)
<1>1. CASE Opens
  BY <1>1, OpenKept DEF Opens
<1>2. CASE Moves
  BY <1>2, MoveKept DEF Moves
<1>3. CASE Ends
  BY <1>3, EndKept DEF Ends
<1>4. CASE FGetfree \/ UNCHANGED vars
  BY <1>4, Same DEF FGetfree, vars
<1>5. CASE Crash
  <2>1. fil'[g] = Closed /\ call' = Idle
    BY <1>5 DEF Crash
  <2> QED
    BY <2>1 DEF Kept, Shrinking, Idle
<1>6. CASE Steps
  <2>1. CASE OpenCreated \/ WriteGot \/ SeekGot \/ Truncated \/ ExpandFill \/ SyncEnd
    BY <2>1, WorkKept
  <2>2. CASE ChainFind \/ ChainLink \/ RemoveCut \/ RemoveOne \/ Unlinked \/ EntrySync
             \/ MkdirGot \/ MkdirRegister \/ MkdirUndone
    <3>1. fil' = fil
      BY <2>2 DEF ChainFind, ChainLink, RemoveCut, RemoveOne, Unlinked, EntrySync, MkdirGot, MkdirRegister, MkdirUndone
    <3> QED
      BY <3>1, Same
  <2> QED
    BY <1>6, <2>1, <2>2 DEF Steps
<1> QED
  BY <1>1, <1>2, <1>3, <1>4, <1>5, <1>6 DEF Next

\* What a step may do to the size in an entry.
Entered(g) == \/ ents'[g] = ents[g] \/ ents'[g].size = 0
              \/ ents'[g].size = fil[g].size \/ ents'[g] = disk.ents[g]

\* What a step does to an entry.
LEMMA EntsNext ==
  ASSUME Types, [Next]_vars, NEW g \in Files
  PROVE  Entered(g)
<1>0. ents \in [Files -> Entry]
  BY DEF Types
<1>1. CASE ents' = ents
  BY <1>1 DEF Entered
<1>2. CASE \E f \in Files : \E e : ents' = [ents EXCEPT ![f] = e] /\ (e.size = 0 \/ e.size = fil[f].size)
  <2>0. PICK f \in Files : \E e : ents' = [ents EXCEPT ![f] = e] /\ (e.size = 0 \/ e.size = fil[f].size)
    BY <1>2
  <2>1. PICK e : ents' = [ents EXCEPT ![f] = e] /\ (e.size = 0 \/ e.size = fil[f].size)
    BY <2>0
  <2>2. ents'[g] = IF g = f THEN e ELSE ents[g]
    BY <1>0, <2>1
  <2> QED
    BY <2>1, <2>2 DEF Entered
<1>3. NoEntry.size = 0 /\ (\A s : DirEntry(s).size = 0) /\ \A s, n : FileEntry(s, n).size = n
  BY DEF NoEntry, DirEntry, FileEntry
<1>4. CASE Opens
  <2>1. PICK f \in Files : OpenExisting(f) \/ OpenCreate(f)
    BY <1>4 DEF Opens
  <2>2. ents' = ents \/ ents' = [ents EXCEPT ![f] = FileEntry(0, 0)]
    BY <2>1 DEF OpenExisting, OpenCreate
  <2> QED
    BY <1>1, <1>2, <1>3, <2>2
<1>5. CASE Moves
  BY <1>1, <1>5 DEF Moves, FWrite, FLseek, FExpand
<1>6. CASE Ends
  <2>1. PICK f \in Files : FTruncate(f) \/ FUnlink(f) \/ FMkdir(f) \/ FSync("sync", f) \/ FSync("close", f)
    BY <1>6 DEF Ends
  <2>2. \/ ents' = ents
        \/ ents' = [ents EXCEPT ![f] = NoEntry]
        \/ ents' = [ents EXCEPT ![f] = FileEntry(fil[f].sclust, fil[f].size)]
    <3>1. CASE FTruncate(f) \/ FMkdir(f)
      BY <3>1 DEF FTruncate, FMkdir
    <3>2. CASE FUnlink(f)
      BY <3>2 DEF FUnlink
    <3>3. CASE FSync("sync", f) \/ FSync("close", f)
      BY <3>3 DEF FSync
    <3> QED
      BY <2>1, <3>1, <3>2, <3>3
  <2>3. CASE ents' = [ents EXCEPT ![f] = NoEntry]
    BY <1>2, <1>3, <2>3
  <2>4. CASE ents' = [ents EXCEPT ![f] = FileEntry(fil[f].sclust, fil[f].size)]
    <3> DEFINE e == FileEntry(fil[f].sclust, fil[f].size)
    <3>1. ents' = [ents EXCEPT ![f] = e] /\ e.size = fil[f].size
      BY <1>3, <2>4
    <3> HIDE DEF e
    <3> QED
      BY <1>2, <3>1
  <2> QED
    BY <1>1, <2>2, <2>3, <2>4
<1>7. CASE FGetfree \/ UNCHANGED vars
  BY <1>1, <1>7 DEF FGetfree, vars
<1>8. CASE Crash
  BY <1>8 DEF Crash, Entered
<1>9. CASE Steps
  <2>1. CASE ChainFind \/ ChainLink \/ RemoveCut \/ RemoveOne \/ OpenCreated \/ WriteGot \/ SeekGot \/ Truncated
             \/ ExpandFill \/ SyncEnd \/ Unlinked \/ EntrySync \/ MkdirGot \/ MkdirUndone
    <3>1. ents' = ents
      BY <2>1 DEF ChainFind, ChainLink, RemoveCut, RemoveOne, OpenCreated, WriteGot, SeekGot, Truncated,
                  ExpandFill, SyncEnd, Unlinked, EntrySync, MkdirGot, MkdirUndone
    <3> QED
      BY <1>1, <3>1
  <2>2. CASE MkdirRegister
    <3>1. ents' = ents \/ ents' = [ents EXCEPT ![call.f] = DirEntry(call.b)]
      BY <2>2 DEF MkdirRegister
    <3>2. CASE ents' = [ents EXCEPT ![call.f] = DirEntry(call.b)]
      <4>1. ents'[g] = IF g = call.f THEN DirEntry(call.b) ELSE ents[g]
        BY <1>0, <3>2
      <4> QED
        BY <1>3, <4>1 DEF Entered
    <3> QED
      BY <1>1, <3>1, <3>2
  <2> QED
    BY <1>9, <2>1, <2>2 DEF Steps
<1> QED
  BY <1>4, <1>5, <1>6, <1>7, <1>8, <1>9 DEF Next

-----------------------------------------------------------------------------

\* An open file is no longer than the volume, nor is its place beyond.
Fits == \A f \in Files : fil[f].open /\ f \notin Shrinking => fil[f].size <= NClust /\ fil[f].pos <= NClust

\* An open file fits: its chain is of different clusters, and its cursor is a place
\* in it.
LEMMA InvFits == IInv => Fits
<1> SUFFICES ASSUME IInv, NEW f \in Files, fil[f].open, f \notin Shrinking
             PROVE  fil[f].size <= NClust /\ fil[f].pos <= NClust
  BY DEF Fits
<1>1. PICK w : Inv(w)
  BY DEF IInv
<1>2. /\ Types /\ Good(fat, w) /\ FileOk(w, f) /\ Now(f) \in Tags /\ Now(f) # Nobody
      /\ fil[f].size \in Nat /\ fil[f].pos \in Nat
  BY <1>1, Tagging DEF Inv, Types, Object
<1> DEFINE o == Now(f)
           a == fil[f].sclust
           m == fil[f].size
           s == snap[f]
<1>3. o \in Tags /\ o # Nobody /\ m \in Nat /\ Leads(w, o, a, m, s)
  BY <1>2 DEF FileOk, ObjectOk, StartNow, SizeNow
<1> HIDE DEF o, a, m, s
<1>4. /\ m <= NClust
      /\ \A x \in Reach(fat, a) : x \in Clus /\ w.own[x] = o /\ fat[x] # 0
      /\ m <= Cardinality(Reach(fat, a))
      /\ a # 0 => \A x \in Clus : w.own[x] = o => x \in Reach(fat, a)
  BY <1>2, <1>3, LeadsReach
<1>5. fil[f].size <= NClust
  BY <1>4 DEF m
<1>6. CASE ~Seeking(f)
  <2>1. fil[f].pos <= fil[f].size
    BY <1>2, <1>6 DEF FileOk, CursorOk
  <2> QED
    BY <1>2, <1>5, <2>1, Numbers
<1>7. CASE Seeking(f)
  <2>1. Growing(w, f) /\ call.op = "lseek" /\ call.f = f
    BY <1>1, <1>7 DEF Seeking, Inv, CallOk, Idle, Removing, Expanding, Registering, Syncing, Ending
  <2>2. CASE call.a = 0
    <3>1. fil[f].pos = 0
      BY <2>1, <2>2 DEF Growing
    <3> QED
      BY <1>5, <3>1, Numbers
  <2>3. CASE call.a # 0
    <3>1. call.a \in Clus /\ w.own[call.a] = o /\ w.idx[call.a] = fil[f].pos + 1 /\ a # 0
      BY <1>2, <2>1, <2>3 DEF Growing, Reached, Types, Call, o, a
    <3>2. a \in Clus /\ w.own[a] = o /\ w.idx[a] = 1
      BY <1>3, <3>1 DEF Leads
    <3>3. /\ w.len[o] \in 1 .. NClust
          /\ IsFiniteSet({x \in Clus : w.own[x] = o})
          /\ w.len[o] <= Cardinality({x \in Clus : w.own[x] = o})
      BY <1>2, <1>3, <3>2, ChainSize
    <3>4. w.idx[call.a] <= w.len[o]
      BY <1>2, <1>3, <3>1 DEF Good, InPlace
    <3>5. w.len[o] <= NClust /\ w.len[o] \in Nat
      BY <3>3
    <3> QED
      BY <1>2, <1>5, <3>1, <3>4, <3>5, Numbers
  <2> QED
    BY <2>2, <2>3
<1> QED
  BY <1>6, <1>7

\* No size is beyond the volume's, wherever it is kept.
Small ==
  \A f \in Files : /\ ents[f].size <= NClust /\ disk.ents[f].size <= NClust
                   /\ fil[f].size <= NClust /\ fil[f].pos <= NClust

\* A new volume has no sizes.
LEMMA InitSmall == Init => Small
<1> SUFFICES ASSUME Init, NEW f \in Files
             PROVE  /\ ents[f].size <= NClust /\ disk.ents[f].size <= NClust
                    /\ fil[f].size <= NClust /\ fil[f].pos <= NClust
  BY DEF Small
<1>1. ents[f] = NoEntry /\ disk.ents[f] = NoEntry /\ fil[f] = Closed
  BY DEF Init
<1>2. NoEntry.size = 0 /\ Closed.size = 0 /\ Closed.pos = 0
  BY DEF NoEntry, Closed
<1> QED
  BY <1>1, <1>2, Numbers

\* A size is a size that was kept elsewhere, or that of a chain.
LEMMA NextSmall == IInv /\ Fits' /\ Small /\ [Next]_vars => Small'
<1> SUFFICES ASSUME IInv, Fits', Small, [Next]_vars, NEW f \in Files
             PROVE  /\ ents'[f].size <= NClust /\ disk'.ents[f].size <= NClust
                    /\ fil'[f].size <= NClust /\ fil'[f].pos <= NClust
  BY DEF Small
<1>1. PICK w : Inv(w)
  BY DEF IInv
<1>2. Types
  BY <1>1 DEF Inv
<1>3. ents[f].size <= NClust /\ disk.ents[f].size <= NClust /\ fil[f].size <= NClust /\ fil[f].pos <= NClust
  BY DEF Small
<1>4. 0 <= NClust
  BY Numbers
<1>5. ents'[f].size <= NClust
  BY <1>2, <1>3, <1>4, EntsNext DEF Entered
<1>6. disk'.ents[f].size <= NClust
  <2>1. disk'.ents = disk.ents \/ disk'.ents = ents
    BY DiskNext DEF Carded, Flushed, OnCard
  <2> QED
    BY <1>3, <2>1
<1>7. fil'[f].size <= NClust /\ fil'[f].pos <= NClust
  <2>1. Kept(f)
    BY <1>1, KeptNext
  <2>2. CASE fil'[f] = fil[f]
    BY <1>3, <2>2
  <2>3. CASE fil'[f] = Closed
    BY <1>4, <2>3 DEF Closed
  <2>4. CASE fil'[f].open /\ (f \notin Shrinking)'
    BY <2>4 DEF Fits
  <2> QED
    BY <2>1, <2>2, <2>3, <2>4 DEF Kept
<1> QED
  BY <1>5, <1>6, <1>7

\* The types, with the sizes bounded.
LEMMA InvTypes == IInv /\ Small => TypeOK
<1> SUFFICES ASSUME IInv, Small PROVE TypeOK
  OBVIOUS
<1>1. Types /\ WindowTypes
  BY DEF IInv, Inv, Types
<1>2. Link \subseteq 0 .. EOC
  BY Numbers DEF Link
<1>3. fat \in [Clus -> 0 .. EOC] /\ disk.fat \in [Clus -> 0 .. EOC]
  BY <1>1, <1>2 DEF Types, WindowTypes
<1>4. ASSUME NEW f \in Files
      PROVE  /\ ents[f].start \in {0} \cup Clus /\ ents[f].size \in 0 .. NClust
             /\ fil[f].sclust \in {0} \cup Clus /\ fil[f].clust \in {0} \cup Clus
             /\ fil[f].size \in 0 .. NClust /\ fil[f].pos \in 0 .. NClust
  <2>1. ents[f] \in Entry /\ fil[f] \in Object
    BY <1>1 DEF Types
  <2>2. ents[f].start \in {0} \cup Clus /\ ents[f].size \in Nat
    BY <2>1 DEF Entry
  <2>3. /\ fil[f].sclust \in {0} \cup Clus /\ fil[f].clust \in {0} \cup Clus
        /\ fil[f].size \in Nat /\ fil[f].pos \in Nat
    BY <2>1 DEF Object
  <2>4. ents[f].size <= NClust /\ fil[f].size <= NClust /\ fil[f].pos <= NClust
    BY DEF Small
  <2> QED
    BY <2>2, <2>3, <2>4, Numbers
<1>5. win \in FatSecs \cup {Dir, Data, NoSect} /\ last \in {NoHint} \cup Clus
  BY <1>1 DEF Types, WindowTypes
<1>6. free \in Unknown .. NClust + 1
  BY <1>1, Numbers DEF Types, Unknown
<1> QED
  BY <1>3, <1>4, <1>5, <1>6 DEF TypeOK

\* TypeOK: the FAT has links and marks only, no size or fptr is beyond the volume,
\* and free_clst stays in its range.
THEOREM VolumeTypes == Spec => []TypeOK
<1>1. Init => Small
  BY InitSmall
<1>2. Spec => []IInv
  BY Chains
<1>3. IInv => Fits
  BY InvFits
<1>4. IInv /\ Fits' /\ Small /\ [Next]_vars => Small'
  BY NextSmall
<1>5. IInv /\ Small => TypeOK
  BY InvTypes
<1> QED
  BY <1>1, <1>2, <1>3, <1>4, <1>5, PTL DEF Spec

\* ChainsSound: create_chain, remove_chain, f_expand and the calls above them never
\* let two files share a cluster, let a chain run into a free one, or leave a file
\* with fewer clusters than its size.
THEOREM ChainsStaySound == Spec => []ChainsSound
<1>1. Spec => []IInv
  BY Chains
<1>2. IInv => ChainsSound
  BY InvChains
<1> QED
  BY <1>1, <1>2, PTL

\* CrashSound: whenever the power fails, what sync_window and move_window have put
\* on the card is sound, but for files f_truncate has just shortened.
THEOREM CardStaysSound == Spec => []CrashSound
<1>1. Spec => []IInv
  BY Chains
<1>2. IInv => CrashSound
  BY InvCrash
<1> QED
  BY <1>1, <1>2, PTL

\* SyncedSurvives: what f_sync or f_close has made durable stays on the card until
\* the file is truncated, overwritten or removed.
THEOREM SyncedIsKept == Spec => []SyncedSurvives
<1>1. Spec => []IInv
  BY Chains
<1>2. IInv => SyncedSurvives
  BY InvSynced
<1> QED
  BY <1>1, <1>2, PTL

\* CursorOnChain: fp->clust is the cluster of fptr, however f_write and f_lseek
\* got there, so f_write and f_truncate may go on from it.
THEOREM CursorStays == Spec => []CursorOnChain
<1>1. Spec => []IInv
  BY Chains
<1>2. IInv => CursorOnChain
  BY InvCursor
<1> QED
  BY <1>1, <1>2, PTL

\* FullMeansFull: create_chain says that the volume is full only when every FAT
\* entry is taken, wherever last_clst made it begin.
THEOREM FullIsFull == Spec => []FullMeansFull
<1>1. Spec => []IInv
  BY Chains
<1>2. IInv => FullMeansFull
  BY InvFull
<1> QED
  BY <1>1, <1>2, PTL

-----------------------------------------------------------------------------
(* The free count is never too small, and no sequence of successful calls  *)
(* loses a cluster.                                                        *)
(*                                                                         *)
(* The invariant of FatVolumeChains says that whatever a file leads to is  *)
(* its own; it allows clusters that nobody leads to.  That there are none  *)
(* needs a second invariant (Space): every cluster that is not free is     *)
(* led to by a file, by the call in progress or by another cluster         *)
(* (AllRooted), and the links of the FAT have no cycle (Ranked).  From a   *)
(* lost cluster of least rank it then follows that none is lost.           *)


-----------------------------------------------------------------------------
(* The count of free clusters.                                             *)

\* While no call has failed the count of free clusters is at least as large as the
\* truth; a new cluster that is not linked yet has not been counted down.
Counted ==
  ~failed /\ free # Unknown => free >= Cardinality(FreeClus) + (IF call.pc = "link" THEN 1 ELSE 0)

\* A step that does not touch what is counted.
Uncounted == fat' = fat /\ free' = free /\ call'.pc # "link" /\ call.pc # "link"

\* A set of clusters loses or gains one.
LEMMA OneFree ==
  ASSUME NEW S, S \subseteq Clus, NEW c \in Clus
  PROVE  /\ Cardinality(S) \in Nat /\ Cardinality(S) <= NClust
         /\ c \in S => Cardinality(S \ {c}) = Cardinality(S) - 1 /\ Cardinality(S) >= 1
         /\ c \notin S => Cardinality(S \cup {c}) = Cardinality(S) + 1 /\ Cardinality(S) + 1 <= NClust
<1>1. IsFiniteSet(S) /\ Cardinality(S) \in Nat /\ Cardinality(S) <= NClust
  <2>1. IsFiniteSet(Clus)
    BY Numbers, FS_Interval DEF Clus
  <2> QED
    BY <2>1, FreeCount, FS_Subset
<1>2. CASE c \in S
  <2>1. Cardinality(S \ {c}) = Cardinality(S) - 1
    BY <1>1, <1>2, FS_RemoveElement
  <2>2. S \ {c} \subseteq Clus
    OBVIOUS
  <2>3. Cardinality(S \ {c}) \in Nat
    BY <2>2, FreeCount
  <2> QED
    BY <1>1, <1>2, <2>1, <2>3
<1>3. CASE c \notin S
  <2>1. Cardinality(S \cup {c}) = Cardinality(S) + 1
    BY <1>1, <1>3, FS_AddElement
  <2>2. S \cup {c} \subseteq Clus
    OBVIOUS
  <2>3. Cardinality(S \cup {c}) <= NClust
    BY <2>2, FreeCount
  <2> QED
    BY <1>1, <1>3, <2>1, <2>3
<1> QED
  BY <1>2, <1>3

\* A step at which the entry of c may change.
LEMMA FreeNext ==
  ASSUME Types, NEW c \in Clus, NEW v \in Link, fat' = fat \/ fat' = [fat EXCEPT ![c] = v]
  PROVE  /\ Cardinality(FreeClus) \in Nat /\ Cardinality(FreeClus)' \in Nat
         /\ Cardinality(FreeClus) <= NClust /\ Cardinality(FreeClus)' <= NClust
         /\ fat' = fat => Cardinality(FreeClus)' = Cardinality(FreeClus)
         /\ fat' # fat /\ v # 0 /\ fat[c] = 0 => Cardinality(FreeClus)' = Cardinality(FreeClus) - 1
         /\ v # 0 => Cardinality(FreeClus)' <= Cardinality(FreeClus)
         /\ v = 0 => Cardinality(FreeClus)' <= Cardinality(FreeClus) + 1
<1>1. FreeClus \subseteq Clus /\ FreeClus' \subseteq Clus
  BY DEF FreeClus
<1>2. /\ Cardinality(FreeClus) \in Nat /\ Cardinality(FreeClus)' \in Nat
      /\ Cardinality(FreeClus) <= NClust /\ Cardinality(FreeClus)' <= NClust
  BY <1>1, OneFree
<1>3. CASE fat' = fat
  <2>1. FreeClus' = FreeClus
    BY <1>3 DEF FreeClus
  <2> QED
    BY <1>2, <1>3, <2>1
<1>4. CASE fat' = [fat EXCEPT ![c] = v] /\ fat' # fat
  <2>1. fat'[c] = v /\ \A x \in Clus : x # c => fat'[x] = fat[x]
    BY <1>4 DEF Types
  <2>2. CASE v # 0
    <3>1. FreeClus' = FreeClus \ {c}
      BY <2>1, <2>2 DEF FreeClus
    <3>2. fat[c] = 0 <=> c \in FreeClus
      BY DEF FreeClus
    <3>3. c \in FreeClus => Cardinality(FreeClus)' = Cardinality(FreeClus) - 1
      BY <1>1, <3>1, OneFree
    <3>4. c \notin FreeClus => Cardinality(FreeClus)' = Cardinality(FreeClus)
      BY <3>1
    <3> QED
      BY <1>2, <1>4, <2>2, <3>2, <3>3, <3>4
  <2>3. CASE v = 0
    <3>1. FreeClus' = FreeClus \cup {c}
      BY <2>1, <2>3 DEF FreeClus
    <3>2. c \in FreeClus => Cardinality(FreeClus)' = Cardinality(FreeClus)
      BY <3>1
    <3>3. c \notin FreeClus => Cardinality(FreeClus)' = Cardinality(FreeClus) + 1
      BY <1>1, <3>1, OneFree
    <3> QED
      BY <1>2, <1>4, <2>3, <3>2, <3>3
  <2> QED
    BY <2>2, <2>3
<1> QED
  BY <1>3, <1>4

\* A cluster is allocated, and the count goes down unless it is that of an empty volume.
LEMMA TakenCounts ==
  ASSUME Types, NEW c, Taken(c), NEW n \in Nat, free # Unknown => free >= n + 1, n <= NClust
  PROVE  free' # Unknown => free' >= n
<1>1. CASE free # Unknown /\ free < NClust
  BY <1>1 DEF Taken, Types
<1>2. CASE ~(free # Unknown /\ free < NClust)
  BY <1>2, Numbers DEF Taken, Types
<1> QED
  BY <1>1, <1>2

\* A step that leaves the FAT and the count alone keeps it so.
LEMMA UncountedStays ==
  ASSUME Counted, Uncounted, failed => failed'
  PROVE  Counted'
BY DEF Counted, Uncounted, FreeClus

\* What becomes of the result of a call.
LEMMA ResultKeeps ==
  ASSUME NEW op, NEW f, NEW ok, Result(op, f, ok)
  PROVE  (failed => failed') /\ (~ok => failed')
BY DEF Result

\* The place of a call that begins or goes on.
LEMMA PcIs ==
  /\ Idle.pc = "idle"
  /\ \A op, f, pc, a, b, n : At(op, f, pc, a, b, n).pc = pc
  /\ \A f, x, n, r : [WriteFrom(f, x) EXCEPT !.n = n].pc \in {"chain", "got"}
<1>1. Idle.pc = "idle" /\ \A op, f, pc, a, b, n : At(op, f, pc, a, b, n).pc = pc
  BY DEF Idle, At
<1>2. ASSUME NEW f, NEW x, NEW n PROVE [WriteFrom(f, x) EXCEPT !.n = n].pc \in {"chain", "got"}
  <2> DEFINE a == IF x.pos = 0 THEN 0 ELSE x.clust
  <2>1. WriteFrom(f, x) = [op |-> "write", f |-> f, pc |-> "got", a |-> 0, b |-> 0, n |-> 0, r |-> x.sclust]
        \/ WriteFrom(f, x) = [op |-> "write", f |-> f, pc |-> "chain", a |-> a, b |-> 0, n |-> 0, r |-> 0]
    BY DEF WriteFrom, At
  <2> QED
    BY <2>1
<1> QED
  BY <1>1, <1>2

\* The first steps of the calls,
LEMMA BeginsUncounted ==
  ASSUME Types, NEW f \in Files, NEW n, Counted,
         \/ OpenExisting(f) \/ OpenCreate(f) \/ FWrite(f, n) \/ FLseek(f, n) \/ (\E opt \in {0, 1} : FExpand(f, n, opt))
         \/ FTruncate(f) \/ FUnlink(f) \/ FMkdir(f) \/ (\E op \in {"sync", "close"} : FSync(op, f))
  PROVE  Counted'
<1>1. fat' = fat /\ free' = free
  BY DEF OpenExisting, OpenCreate, FWrite, FLseek, FExpand, FTruncate, FUnlink, FMkdir, FSync
<1>2. call.pc = "idle"
  BY DEF OpenExisting, OpenCreate, FWrite, FLseek, FExpand, FTruncate, FUnlink, FMkdir, FSync, Usable, CanBegin
<1> DEFINE Starts(k) == k = call \/ (\E op, g, pc, a, b, m : pc # "link" /\ k = At(op, g, pc, a, b, m))
                      \/ (\E g, x, m : k = [WriteFrom(g, x) EXCEPT !.n = m])
<1>3. Starts(call')
  <2>1. CASE OpenExisting(f) \/ (\E op \in {"sync", "close"} : FSync(op, f)) \/ FMkdir(f)
    BY <2>1 DEF OpenExisting, FSync, FMkdir, ReturnAtOnce, Begin
  <2>2. CASE OpenCreate(f) \/ FLseek(f, n)
    <3>1. call' = call \/ (\E b : call' = At("create", f, "free", b, b, 0)) \/ (\E a, m : call' = At("lseek", f, "chain", a, 0, m))
      BY <2>2 DEF OpenCreate, FLseek, ReturnAtOnce, Begin
    <3>2. "free" # "link" /\ "chain" # "link"
      OBVIOUS
    <3>3. CASE \E b : call' = At("create", f, "free", b, b, 0)
      BY <3>2, <3>3
    <3>4. CASE \E a, m : call' = At("lseek", f, "chain", a, 0, m)
      BY <3>2, <3>4
    <3> QED
      BY <3>1, <3>3, <3>4
  <2>3. CASE FWrite(f, n)
    BY <2>3 DEF FWrite, Begin
  <2>4. CASE \E opt \in {0, 1} : FExpand(f, n, opt)
    <3>1. call' = call \/ \E c, k : call' = At("expand", f, "fill", c, c, k)
      BY <2>4 DEF FExpand, ReturnAtOnce, Begin
    <3> QED
      BY <3>1
  <2>5. CASE FTruncate(f)
    <3>1. call' = call \/ (\E a, b, pc : pc # "link" /\ call' = At("truncate", f, pc, a, b, 0))
      <4>1. CASE fil[f].pos = 0
        BY <2>5, <4>1 DEF FTruncate, ReturnAtOnce, Begin
      <4>2. CASE fil[f].pos # 0
        BY <2>5, <4>2 DEF FTruncate, ReturnAtOnce, Begin
      <4> QED
        BY <4>1, <4>2
    <3> QED
      BY <3>1
  <2>6. CASE FUnlink(f)
    <3>1. call' = call \/ \E pc \in {"free", "sync"} : \E b : call' = At("unlink", f, pc, 0, b, 0)
      BY <2>6 DEF FUnlink, ReturnAtOnce, Begin
    <3> QED
      BY <3>1
  <2> QED
    BY <2>1, <2>2, <2>3, <2>4, <2>5, <2>6
<1>4. failed => failed'
  BY ResultKeeps
     DEF OpenExisting, OpenCreate, FWrite, FLseek, FExpand, FTruncate, FUnlink, FMkdir, FSync, ReturnAtOnce, Begin
<1>5. call'.pc # "link"
  <2>1. CASE \E op, g, pc, a, b, m : pc # "link" /\ call' = At(op, g, pc, a, b, m)
    BY <2>1, PcIs
  <2>2. CASE \E g, x, m : call' = [WriteFrom(g, x) EXCEPT !.n = m]
    BY <2>2, PcIs
  <2> QED
    BY <1>2, <1>3, <2>1, <2>2
<1> QED
  BY <1>1, <1>2, <1>4, <1>5, UncountedStays DEF Uncounted

\* and the steps between them that change no entry of the FAT.
LEMMA StepsUncounted ==
  ASSUME Types, Counted,
         \/ OpenCreated \/ WriteGot \/ SeekGot \/ Truncated
         \/ SyncEnd \/ Unlinked \/ EntrySync \/ MkdirGot \/ MkdirRegister \/ MkdirUndone
  PROVE  Counted'
<1>1. fat' = fat /\ free' = free
  BY DEF OpenCreated, WriteGot, SeekGot, Truncated, SyncEnd, Unlinked, EntrySync, MkdirGot, MkdirRegister, MkdirUndone
<1>2. call.pc \in {"got", "sync", "register"}
  BY DEF OpenCreated, WriteGot, SeekGot, Truncated, SyncEnd, Unlinked, EntrySync, MkdirGot, MkdirRegister, MkdirUndone
<1> DEFINE Moves1(k) ==
                        \/ k = Idle
                        \/ \E a, n : k = [call EXCEPT !.pc = "chain", !.a = a, !.n = n]
                        \/ \E b : k = [call EXCEPT !.pc = "register", !.b = b]
                        \/ \E b : k = [call EXCEPT !.op = "undo", !.pc = "free", !.b = b]
                        \/ k = [call EXCEPT !.op = "undo", !.pc = "free"]
                        \/ k = [call EXCEPT !.pc = "sync"]
                        \/ \E g, x, m : k = [WriteFrom(g, x) EXCEPT !.n = m]
<1>3. Moves1(call')
  <2>1. CASE OpenCreated \/ Truncated \/ SyncEnd \/ EntrySync \/ MkdirUndone \/ Unlinked
    BY <2>1 DEF OpenCreated, Truncated, SyncEnd, EntrySync, MkdirUndone, Unlinked, Return, Goto
  <2>2. CASE WriteGot \/ SeekGot
    <3>1. \/ call' = Idle
          \/ \E a, n : call' = [call EXCEPT !.pc = "chain", !.a = a, !.n = n]
          \/ \E x, m : call' = [WriteFrom(call.f, x) EXCEPT !.n = m]
      <4>1. CASE WriteGot
        BY <4>1 DEF WriteGot, Return, Goto, Abort
      <4>2. CASE SeekGot
        BY <4>2 DEF SeekGot, Return, Goto, Abort
      <4> QED
        BY <2>2, <4>1, <4>2
    <3> QED
      BY <3>1
  <2>3. CASE MkdirGot \/ MkdirRegister
    BY <2>3 DEF MkdirGot, MkdirRegister, Return, Goto
  <2> QED
    BY <2>1, <2>2, <2>3
<1>4. failed => failed'
  BY ResultKeeps DEF OpenCreated, WriteGot, SeekGot, Truncated, SyncEnd, Unlinked, EntrySync, MkdirGot, MkdirRegister, MkdirUndone,
         Return, Goto, Abort
<1>5. call'.pc # "link"
  <2>1. call \in Call
    BY DEF Types
  <2>2. \A a, n : [call EXCEPT !.pc = "chain", !.a = a, !.n = n].pc = "chain"
    BY <2>1 DEF Call
  <2>3. \A b : [call EXCEPT !.pc = "register", !.b = b].pc = "register"
    BY <2>1 DEF Call
  <2>4. \A b : [call EXCEPT !.op = "undo", !.pc = "free", !.b = b].pc = "free"
    BY <2>1 DEF Call
  <2>5. [call EXCEPT !.op = "undo", !.pc = "free"].pc = "free" /\ [call EXCEPT !.pc = "sync"].pc = "sync"
    BY <2>1 DEF Call
  <2>6. CASE \E g, x, m : call' = [WriteFrom(g, x) EXCEPT !.n = m]
    BY <2>6, PcIs
  <2>7. CASE call' = Idle
    BY <2>7, PcIs
  <2>8. CASE \E a, n : call' = [call EXCEPT !.pc = "chain", !.a = a, !.n = n]
    BY <2>2, <2>8
  <2>9. CASE \E b : call' = [call EXCEPT !.pc = "register", !.b = b]
    BY <2>3, <2>9
  <2>10. CASE \E b : call' = [call EXCEPT !.op = "undo", !.pc = "free", !.b = b]
    BY <2>4, <2>10
  <2> QED
    BY <1>3, <2>5, <2>6, <2>7, <2>8, <2>9, <2>10
<1> QED
  BY <1>1, <1>2, <1>4, <1>5, UncountedStays DEF Uncounted

\* create_chain takes a cluster,
LEMMA FindCounted ==
  ASSUME NEW w, Inv(w), ChainFind, Counted
  PROVE  Counted'
<1> DEFINE a == call.a
           s == SearchFrom(a)
           i == FreeAt(s)
           c == After(s, i)
<1>1. Types /\ call \in Call /\ call.pc = "chain" /\ a \in {0} \cup Clus
  BY CallTypes DEF Inv, Types, ChainFind
<1>2. s \in Nat /\ 1 <= s /\ s < NFatEnt
  BY <1>1, SearchPlace
<1>3. failed' = failed
  BY DEF ChainFind, Back, Goto
<1>4. CASE fat' = fat /\ free' = free /\ \E r : Back(r)
  <2>1. PICK r : call' = [call EXCEPT !.pc = "got", !.b = 0, !.r = r]
    BY <1>4 DEF Back, Goto
  <2>2. call'.pc # "link"
    BY <1>1, <2>1 DEF Call
  <2> QED
    BY <1>1, <1>3, <1>4, <2>2, UncountedStays DEF Uncounted
<1>5. CASE i # 0 /\ fat' = [fat EXCEPT ![c] = EOC] /\ (\/ a = 0 /\ Back(c) /\ Taken(c)
                                                       \/ a # 0 /\ Goto([call EXCEPT !.pc = "link", !.b = c]) /\ free' = free)
  <2>1. c \in Clus /\ fat[c] = 0
    BY <1>2, <1>5, FreeSearch
  <2> HIDE DEF c
  <2>2. fat' # fat /\ EOC # 0 /\ EOC \in Link
    <3>1. fat'[c] = EOC /\ EOC # 0
      BY <1>1, <1>5, <2>1, Numbers DEF Types
    <3> QED
      BY <2>1, <3>1 DEF Link
  <2> DEFINE m == Cardinality(FreeClus)
             n == Cardinality(FreeClus)'
  <2>3. m \in Nat /\ n \in Nat /\ n <= NClust /\ n = m - 1
    BY <1>1, <1>5, <2>1, <2>2, FreeNext
  <2>4. ~failed /\ free # Unknown => free >= m
    <3>1. m \in Nat /\ (~failed /\ free # Unknown => free >= m + 0)
      BY <1>1, <2>3 DEF Counted
    <3>2. free \in Int
      BY <1>1 DEF Types
    <3> QED
      BY <3>1, <3>2
  <2> HIDE DEF m, n
  <2>5. CASE a = 0 /\ Back(c) /\ Taken(c)
    <3>1. call'.pc # "link"
      <4>1. call' = [call EXCEPT !.pc = "got", !.b = 0, !.r = c]
        BY <2>5 DEF Back, Goto
      <4> QED
        BY <1>1, <4>1 DEF Call
    <3>2. ~failed => (free # Unknown => free >= n + 1)
      BY <2>3, <2>4
    <3>3. ~failed => (free' # Unknown => free' >= n)
      BY <1>1, <2>3, <2>5, <3>2, TakenCounts
    <3>4. ~failed => (free' # Unknown => free' >= n + 0)
      BY <2>3, <3>3
    <3> QED
      BY <1>3, <3>1, <3>4 DEF Counted, n
  <2>6. CASE a # 0 /\ Goto([call EXCEPT !.pc = "link", !.b = c]) /\ free' = free
    <3>1. call'.pc = "link"
      <4>1. call' = [call EXCEPT !.pc = "link", !.b = c]
        BY <2>6 DEF Goto
      <4> QED
        BY <1>1, <4>1 DEF Call
    <3>2. ~failed => (free' # Unknown => free' >= n + 1)
      BY <2>3, <2>4, <2>6
    <3> QED
      BY <1>3, <3>1, <3>2 DEF Counted, n
  <2> QED
    BY <1>5, <2>5, <2>6
<1>6. \/ fat' = fat /\ free' = free /\ \E r : Back(r)
      \/ i # 0 /\ fat' = [fat EXCEPT ![c] = EOC] /\ (\/ a = 0 /\ Back(c) /\ Taken(c)
                                                     \/ a # 0 /\ Goto([call EXCEPT !.pc = "link", !.b = c]) /\ free' = free)
  <2> DEFINE next == IF a = 0 THEN EOC ELSE fat[a]
             here == IF a = 0 THEN {} ELSE {FatSec[a]}
             Ends1 == /\ i # 0
                      /\ \E o \in MoveWindow(here \cup Seen(s, i), FatSec[c]) :
                           /\ PutFat(o, c, EOC)
                           /\ \/ ~o.ok /\ Back(DiskErr) /\ UNCHANGED <<last, free>>
                              \/ o.ok /\ a = 0 /\ Back(c) /\ Taken(c)
                              \/ o.ok /\ a # 0 /\ Goto([call EXCEPT !.pc = "link", !.b = c])
                                 /\ UNCHANGED <<last, free>>
  <2>1. (fat' = fat /\ free' = free /\ \E r : Back(r)) \/ Ends1
    BY DEF ChainFind
  <2>2. CASE Ends1
    BY <2>2 DEF PutFat
  <2> QED
    BY <2>1, <2>2
<1> QED
  BY <1>4, <1>5, <1>6

\* and counts it when it has linked it.
LEMMA LinkCounted ==
  ASSUME NEW w, Inv(w), ChainLink, Counted
  PROVE  Counted'
<1> DEFINE a == call.a
           b == call.b
<1>1. Types /\ call \in Call /\ call.pc = "link" /\ a \in Clus /\ b \in Clus /\ fat[a] # 0
  <2>1. Types /\ call \in Call /\ Good(fat, w) /\ call.pc = "link"
    BY DEF Inv, Types, ChainLink
  <2>2. Growing(w, call.f) /\ call.f \in Files
    BY <2>1 DEF ChainLink, Inv, CallOk, Idle, Removing, Expanding, Registering, Syncing, Ending
  <2>3. a \in Clus /\ w.own[a] = Now(call.f) /\ b \in Clus
    BY <2>1, <2>2, CallTypes DEF Growing, Only
  <2>4. fat[a] # 0
    BY <2>1, <2>2, <2>3, EndOfChain, Tagging, Numbers
  <2> QED
    BY <2>1, <2>3, <2>4
<1>2. PICK o \in GetFat(a) :
       /\ PutFat(o, a, b)
       /\ \/ o.ok /\ Back(b) /\ Taken(b)
          \/ ~o.ok /\ Back(DiskErr) /\ UNCHANGED <<last, free>>
  BY DEF ChainLink
<1>3. failed' = failed /\ call'.pc # "link"
  <2>1. PICK r : Back(r)
    BY <1>2
  <2>2. call' = [call EXCEPT !.pc = "got", !.b = 0, !.r = r] /\ failed' = failed
    BY <2>1 DEF Back, Goto
  <2> QED
    BY <1>1, <2>2 DEF Call
<1>4. fat' = fat \/ fat' = [fat EXCEPT ![a] = b]
  BY <1>2 DEF PutFat
<1> DEFINE m == Cardinality(FreeClus)
           n == Cardinality(FreeClus)'
<1>5. m \in Nat /\ n \in Nat /\ n <= NClust /\ n <= m
  <2>1. b # 0 /\ b \in Link
    BY <1>1, Numbers DEF Link
  <2> QED
    BY <1>1, <1>4, <2>1, FreeNext
<1>6. ~failed /\ free # Unknown => free >= m + 1
  BY <1>1 DEF Counted
<1>7. free \in Int
  BY <1>1 DEF Types
<1> HIDE DEF m, n
<1>8. CASE o.ok /\ Taken(b)
  <2>1. ~failed => (free # Unknown => free >= n + 1)
    BY <1>5, <1>6, <1>7
  <2>2. ~failed => (free' # Unknown => free' >= n)
    BY <1>1, <1>5, <1>8, <2>1, TakenCounts
  <2>3. ~failed => (free' # Unknown => free' >= n + 0)
    BY <1>5, <2>2
  <2> QED
    BY <1>3, <2>3 DEF Counted, n
<1>9. CASE free' = free
  <2>1. ~failed => (free' # Unknown => free' >= n + 0)
    BY <1>5, <1>6, <1>7, <1>9
  <2> QED
    BY <1>3, <2>1 DEF Counted, n
<1> QED
  BY <1>2, <1>8, <1>9

\* remove_chain frees one,
LEMMA RemoveCounted ==
  ASSUME NEW w, Inv(w), RemoveOne, Counted
  PROVE  Counted'
<1> DEFINE c == call.b
<1>1. Types /\ call \in Call /\ call.pc = "free" /\ c \in Clus
  <2>1. Types /\ call \in Call /\ call.pc = "free"
    BY DEF Inv, Types, RemoveOne
  <2>2. Removing(w, call.f)
    BY <2>1 DEF RemoveOne, Inv, CallOk, Idle, Growing, Expanding, Registering, Syncing, Ending
  <2> QED
    BY <2>1, <2>2 DEF Removing, HandFrom
<1>2. PICK o \in GetFat(c) :
           /\ PutFat(o, c, 0)
           /\ free' = IF o.ok /\ fat[c] # 0 THEN OneMore ELSE free
           /\ IF ~o.ok THEN Back(DiskErr)
              ELSE IF fat[c] \in Clus THEN Goto([call EXCEPT !.b = fat[c]])
              ELSE Back(0)
  BY DEF RemoveOne
<1>3. failed' = failed /\ call'.pc # "link"
  <2>1. (\E r : Back(r)) \/ Goto([call EXCEPT !.b = fat[c]])
    BY <1>2
  <2>2. failed' = failed /\ ((\E r : call' = [call EXCEPT !.pc = "got", !.b = 0, !.r = r]) \/ call' = [call EXCEPT !.b = fat[c]])
    BY <2>1 DEF Back, Goto
  <2> QED
    BY <1>1, <2>2 DEF Call
<1> DEFINE m == Cardinality(FreeClus)
           n == Cardinality(FreeClus)'
<1>4. ~failed /\ free # Unknown => free >= m + 0
  BY <1>1 DEF Counted
<1>5. free \in Int /\ 0 \in Link
  BY <1>1 DEF Types, Link
<1>6. CASE fat' = fat /\ free' = free
  BY <1>1, <1>3, <1>6, UncountedStays DEF Uncounted
<1>7. CASE fat' = [fat EXCEPT ![c] = 0] /\ free' = OneMore
  <2>1. m \in Nat /\ n \in Nat /\ n <= NClust /\ n <= m + 1
    BY <1>1, <1>5, <1>7, FreeNext
  <2> HIDE DEF m, n
  <2>2. ~failed => (free' # Unknown => free' >= n + 0)
    BY <1>4, <1>5, <1>7, <2>1, Numbers DEF OneMore
  <2> QED
    BY <1>3, <2>2 DEF Counted, n
<1>8. CASE o.ok /\ fat[c] = 0
  <2>1. fat' = fat
    BY <1>1, <1>2, <1>8 DEF PutFat, Types
  <2> QED
    BY <1>2, <1>6, <1>8, <2>1
<1> QED
  BY <1>2, <1>6, <1>7, <1>8 DEF PutFat

\* f_truncate cuts a link, and the clusters behind it are yet to be freed.
LEMMA CutCounted ==
  ASSUME NEW w, Inv(w), RemoveCut, Counted
  PROVE  Counted'
<1>1. Types /\ call \in Call /\ call.pc = "cut" /\ call.a \in Clus
  <2>1. Types /\ call \in Call /\ call.pc = "cut"
    BY DEF Inv, Types, RemoveCut
  <2>2. Removing(w, call.f) /\ call.f \in Files
    BY <2>1 DEF RemoveCut, Inv, CallOk, Idle, Growing, Expanding, Registering, Syncing, Ending
  <2>3. CursorOk(w, call.f) /\ fil[call.f].open /\ ~Seeking(call.f)
    BY <2>1, <2>2 DEF Inv, FileOk, Removing, Live, Seeking
  <2> QED
    BY <2>1, <2>2, <2>3 DEF Removing, CursorOk
<1>2. PICK o \in GetFat(call.a) :
       /\ PutFat(o, call.a, EOC)
       /\ IF o.ok THEN Goto([call EXCEPT !.pc = "free"]) ELSE Back(DiskErr)
  BY DEF RemoveCut
<1>3. failed' = failed /\ free' = free /\ call'.pc # "link"
  <2>1. (\E r : Back(r)) \/ Goto([call EXCEPT !.pc = "free"])
    BY <1>2
  <2>2. failed' = failed /\ ((\E r : call' = [call EXCEPT !.pc = "got", !.b = 0, !.r = r]) \/ call' = [call EXCEPT !.pc = "free"])
    BY <2>1 DEF Back, Goto
  <2>3. free' = free
    BY DEF RemoveCut
  <2> QED
    BY <1>1, <2>2, <2>3 DEF Call
<1>4. fat' = fat \/ fat' = [fat EXCEPT ![call.a] = EOC]
  BY <1>2 DEF PutFat
<1> DEFINE m == Cardinality(FreeClus)
           n == Cardinality(FreeClus)'
<1>5. m \in Nat /\ n \in Nat /\ n <= m
  BY <1>1, <1>4, ClusLink, Numbers, FreeNext
<1>6. ~failed /\ free # Unknown => free >= m + 0
  BY <1>1 DEF Counted
<1>7. free \in Int
  BY <1>1 DEF Types
<1> HIDE DEF m, n
<1>8. ~failed => (free' # Unknown => free' >= n + 0)
  BY <1>3, <1>5, <1>6, <1>7
<1> QED
  BY <1>3, <1>8 DEF Counted, n

\* f_expand takes clusters and does not count.
LEMMA FillCounted ==
  ASSUME NEW w, Inv(w), ExpandFill, Counted
  PROVE  Counted'
<1> DEFINE c == call.b
           v == IF call.n = 1 THEN EOC ELSE c + 1
<1>1. Types /\ call \in Call /\ call.pc = "fill" /\ call.op = "expand" /\ free' = free
  BY DEF Inv, Types, ExpandFill
<1>2. failed => failed'
  BY ResultKeeps DEF ExpandFill, Return, Goto
<1>3. call'.pc # "link"
  <2>1. call' = Idle \/ call' = [call EXCEPT !.b = c + 1, !.n = @ - 1]
    BY DEF ExpandFill, Return, Goto
  <2> QED
    BY <1>1, <2>1, PcIs DEF Call
<1>4. CASE fat' = fat
  BY <1>1, <1>2, <1>3, <1>4, UncountedStays DEF Uncounted
<1>5. CASE c \in Clus /\ fat' = [fat EXCEPT ![c] = v]
  <2>1. v # 0 /\ v \in Link
    BY <1>5, Numbers DEF Link
  <2> DEFINE m == Cardinality(FreeClus)
             n == Cardinality(FreeClus)'
  <2> HIDE DEF v
  <2>2. m \in Nat /\ n \in Nat /\ n <= m
    BY <1>1, <1>5, <2>1, FreeNext
  <2>3. ~failed /\ free # Unknown => free >= m + 0
    BY <1>1 DEF Counted
  <2>4. free \in Int
    BY <1>1 DEF Types
  <2> HIDE DEF m, n
  <2>5. ~failed => (free' # Unknown => free' >= n + 0)
    BY <1>1, <2>2, <2>3, <2>4
  <2> QED
    BY <1>2, <1>3, <2>5 DEF Counted, n
<1> QED
  BY <1>4, <1>5 DEF ExpandFill, PutFat

\* f_getfree counts again, and a power loss forgets the count.
LEMMA GetfreeCounted ==
  ASSUME NEW w, Inv(w), FGetfree \/ Crash
  PROVE  Counted'
<1>1. CASE FGetfree
  <2>1. fat' = fat /\ call' = call /\ call.pc = "idle"
    BY <1>1 DEF FGetfree, ReturnAtOnce, CanBegin
  <2>2. PICK o, S : /\ free' = Cardinality(IF o.ok THEN FreeClus ELSE S)
                    /\ ReturnAtOnce("getfree", NoFile, o.ok)
    BY <1>1 DEF FGetfree
  <2>3. ~failed' => o.ok
    BY <2>2, ResultKeeps DEF ReturnAtOnce
  <2>4. FreeClus' = FreeClus
    BY <2>1 DEF FreeClus
  <2>5. Cardinality(FreeClus) \in Nat
    BY OneFree, FreeCount DEF FreeClus
  <2>6. ~failed' => free' = Cardinality(FreeClus)' /\ Cardinality(FreeClus)' \in Nat
    BY <2>2, <2>3, <2>4, <2>5
  <2> QED
    BY <2>1, <2>6 DEF Counted
<1>2. CASE Crash
  BY <1>2 DEF Crash, Counted
<1> QED
  BY <1>1, <1>2

\* Every step keeps the count from falling short.
LEMMA NextCounted ==
  ASSUME IInv, Counted, [Next]_vars
  PROVE  Counted'
<1>1. PICK w : Inv(w)
  BY DEF IInv
<1>2. Types
  BY <1>1 DEF Inv
<1>3. CASE Opens
  BY <1>2, <1>3, BeginsUncounted DEF Opens
<1>4. CASE Moves
  BY <1>2, <1>4, BeginsUncounted DEF Moves
<1>5. CASE Ends
  BY <1>2, <1>5, BeginsUncounted DEF Ends
<1>6. CASE Steps
  BY <1>1, <1>2, <1>6, FindCounted, LinkCounted, RemoveCounted, CutCounted, FillCounted, StepsUncounted DEF Steps
<1>7. CASE FGetfree \/ Crash
  BY <1>1, <1>7, GetfreeCounted
<1>8. CASE UNCHANGED vars
  <2>1. failed' = failed /\ fat' = fat /\ free' = free /\ call' = call
    BY <1>8 DEF vars
  <2> QED
    BY <2>1 DEF Counted, FreeClus
<1> QED
  BY <1>3, <1>4, <1>5, <1>6, <1>7, <1>8 DEF Next

\* The count of free clusters never falls short of the truth while no call has
\* failed (FreeNotUnderstated), whatever the order in which create_chain, remove_chain
\* and f_expand link, free and count: f_getfree and create_chain trust it.
THEOREM FreeIsEnough == Spec => []FreeNotUnderstated
<1>1. Init => Counted
  BY DEF Init, Counted
<1>2. IInv /\ Counted /\ [Next]_vars => Counted'
  BY NextCounted
<1>3. ASSUME IInv, Counted PROVE FreeNotUnderstated
  <2>1. Cardinality(FreeClus) \in Nat
    BY FreeCount DEF FreeClus
  <2> QED
    BY <1>3, <2>1 DEF Counted, FreeNotUnderstated
<1> QED
  BY <1>1, <1>2, <1>3, Chains, PTL DEF Spec

-----------------------------------------------------------------------------
(* The second invariant: every cluster that is not free is led to.         *)

\* So far no call has failed and the power was not lost, and the call in progress
\* is not failing.
Smoothly == ~failed /\ crashes = 0 /\ call.op # "undo" /\ (call.pc = "got" => call.r \in {0} \cup Clus)

\* Where the chain of a file starts: its object says so, or else its entry.
RootOf(f) == IF fil[f].open THEN StartNow(f) ELSE ents[f].start

\* The call will yet link the cluster c, or start a file with it, or free it.
InHand(c) ==
  \/ call.pc \in {"link", "free", "register"} /\ c = call.b
  \/ call.pc = "fill" /\ c = call.a
  \/ call.pc = "got" /\ call.op \in {"write", "lseek", "mkdir"} /\ Fresh /\ c = call.r

\* Something leads to the cluster c.
Rooted(c) == (\E f \in Files : RootOf(f) = c) \/ InHand(c) \/ (\E d \in Clus : fat[d] = c)
AllRooted == \A c \in Clus : fat[c] # 0 => Rooted(c)

\* The links of the FAT go up in some numbering of the clusters: there is no cycle.
Ranks(r) == \A c \in Clus : fat[c] \in Clus => r[c] < r[fat[c]]
Ranked == \E r \in [Clus -> Nat] : Ranks(r)

\* An entry of nothing has no clusters.
EntryFits(f) == ~ents[f].used \/ (~ents[f].dir /\ ents[f].size = 0) => ents[f].start = 0

\* An object without FA_MODIFIED starts where the entry starts, unless a call is on
\* its way to set the flag; an empty one has no clusters.
ObjectFits(f) ==
  fil[f].open =>
    /\ ~fil[f].mod => \/ fil[f].sclust = ents[f].start
                      \/ call.f = f /\ call.op = "write"
                      \/ Seeking(f) /\ fil[f].size = 0 /\ fil[f].sclust # 0
    /\ fil[f].size = 0 => fil[f].sclust = 0 \/ Seeking(f)

\* What the calls rely on: create_chain links the last cluster, f_truncate cuts a
\* link, f_open and f_mkdir put their cluster in an entry that has none.
StepFits ==
  /\ call.pc = "link" => fat[call.a] \notin Clus
  /\ call.pc = "cut" => fat[call.a] = call.b
  /\ call.op = "create" \/ (call.op = "mkdir" /\ call.pc # "sync") => ents[call.f].start = 0

SpaceOk == AllRooted /\ Ranked /\ (\A f \in Files : EntryFits(f) /\ ObjectFits(f)) /\ StepFits

\* The second inductive invariant.
Space == Smoothly => SpaceOk

-----------------------------------------------------------------------------
(* What a step leaves alone.                                               *)

\* One entry of the FAT changes, to no cluster or to one that leads nowhere: no
\* cycle arises.
LEMMA RankOne ==
  ASSUME Ranked, NEW a \in Clus, \A x \in Clus : x # a => fat'[x] = fat[x],
         fat'[a] \in Clus => fat'[a] # a /\ fat[fat'[a]] \notin Clus
  PROVE  Ranked'
<1>1. PICK r \in [Clus -> Nat] : Ranks(r)
  BY DEF Ranked
<1>2. CASE fat'[a] \notin Clus
  BY <1>1, <1>2 DEF Ranked, Ranks
<1>3. CASE fat'[a] \in Clus
  <2> DEFINE b == fat'[a]
             n == r[a] + r[b] + 1
             q == [r EXCEPT ![b] = n]
  <2>1. b \in Clus /\ b # a /\ fat[b] \notin Clus /\ fat'[b] = fat[b] /\ fat'[a] = b
    BY <1>3
  <2> HIDE DEF b
  <2>2. n \in Nat /\ r[a] < n /\ r[b] < n
    BY <1>1, <2>1
  <2> HIDE DEF n
  <2>3. q \in [Clus -> Nat] /\ q[b] = n /\ \A x \in Clus : x # b => q[x] = r[x]
    BY <1>1, <2>1, <2>2
  <2> HIDE DEF q
  <2>4. ASSUME NEW c \in Clus, fat'[c] \in Clus PROVE q[c] < q[fat'[c]]
    <3>1. c # b
      BY <2>1, <2>4
    <3>2. CASE c = a
      BY <2>1, <2>2, <2>3, <3>1, <3>2
    <3>3. CASE c # a
      <4>1. fat'[c] = fat[c] /\ r[c] < r[fat[c]] /\ r[c] \in Nat /\ r[fat[c]] \in Nat
        BY <1>1, <2>4, <3>3 DEF Ranks
      <4>2. q[c] = r[c] /\ (fat[c] # b => q[fat[c]] = r[fat[c]]) /\ (fat[c] = b => q[fat[c]] = n)
        BY <2>3, <2>4, <3>1, <4>1
      <4>3. fat[c] = b => r[fat[c]] < n
        BY <2>2
      <4> QED
        BY <2>2, <4>1, <4>2, <4>3
    <3> QED
      BY <3>2, <3>3
  <2> QED
    BY <2>3, <2>4 DEF Ranked, Ranks
<1> QED
  BY <1>2, <1>3

\* The FAT stays.
LEMMA RankStays ==
  ASSUME Ranked, fat' = fat
  PROVE  Ranked'
BY DEF Ranked, Ranks

\* A call works on the file f only, or there is none.
OnlyOn(f) == call.f = f \/ call.op = "none"

\* A step on the file f does nothing to the others.
LEMMA OthersFit ==
  ASSUME SpaceOk, NEW f \in Files, OnlyOn(f), OnlyOn(f)',
         \A g \in Files : g # f => fil'[g] = fil[g] /\ ents'[g] = ents[g]
  PROVE  \A g \in Files : g # f => RootOf(g)' = RootOf(g) /\ EntryFits(g)' /\ ObjectFits(g)'
<1>1. SUFFICES ASSUME NEW g \in Files, g # f PROVE RootOf(g)' = RootOf(g) /\ EntryFits(g)' /\ ObjectFits(g)'
  OBVIOUS
<1>2. fil'[g] = fil[g] /\ ents'[g] = ents[g] /\ EntryFits(g) /\ ObjectFits(g)
  BY <1>1 DEF SpaceOk
<1>3. g \notin Shrinking /\ (g \notin Shrinking)' /\ ~(call.f = g /\ call.op = "write") /\ ~Seeking(g) /\ ~Seeking(g)'
  BY <1>1 DEF OnlyOn, Shrinking, Seeking
<1>4. RootOf(g)' = RootOf(g)
  BY <1>2, <1>3 DEF RootOf, StartNow
<1>5. EntryFits(g)'
  BY <1>2 DEF EntryFits
<1>6. ObjectFits(g)'
  BY <1>2, <1>3 DEF ObjectFits
<1> QED
  BY <1>4, <1>5, <1>6

\* A step on the file f that leaves the FAT alone, and after which what f or the
\* call led to one of them still leads to.
LEMMA OnOne ==
  ASSUME SpaceOk, NEW f \in Files, OnlyOn(f), OnlyOn(f)', fat' = fat,
         \A g \in Files : g # f => fil'[g] = fil[g] /\ ents'[g] = ents[g],
         EntryFits(f)', ObjectFits(f)', StepFits',
         \A c \in Clus : RootOf(f) = c \/ InHand(c) => RootOf(f)' = c \/ InHand(c)'
  PROVE  SpaceOk'
<1>1. \A g \in Files : g # f => RootOf(g)' = RootOf(g) /\ EntryFits(g)' /\ ObjectFits(g)'
  BY OthersFit
<1>2. Ranked'
  BY RankStays DEF SpaceOk
<1>3. ASSUME NEW c \in Clus, fat'[c] # 0 PROVE Rooted(c)'
  <2>1. Rooted(c)
    BY <1>3 DEF SpaceOk, AllRooted
  <2>2. CASE \E g \in Files : RootOf(g) = c
    <3>1. PICK g \in Files : RootOf(g) = c
      BY <2>2
    <3>2. CASE g = f
      BY <3>1, <3>2 DEF Rooted
    <3>3. CASE g # f
      <4>1. RootOf(g)' = c
        BY <1>1, <3>1, <3>3
      <4> QED
        BY <4>1 DEF Rooted
    <3> QED
      BY <3>2, <3>3
  <2>3. CASE InHand(c)
    BY <2>3 DEF Rooted
  <2>4. CASE \E d \in Clus : fat[d] = c
    BY <2>4 DEF Rooted
  <2> QED
    BY <2>1, <2>2, <2>3, <2>4 DEF Rooted
<1>4. AllRooted'
  BY <1>3 DEF AllRooted
<1> QED
  BY <1>1, <1>2, <1>4 DEF SpaceOk

\* A step that changes the FAT leaves the files alone.
LEMMA FilesFit ==
  ASSUME SpaceOk, fil' = fil, ents' = ents, call'.op = call.op, call'.f = call.f
  PROVE  \A g \in Files : RootOf(g)' = RootOf(g) /\ EntryFits(g)' /\ ObjectFits(g)'
<1>1. SUFFICES ASSUME NEW g \in Files PROVE RootOf(g)' = RootOf(g) /\ EntryFits(g)' /\ ObjectFits(g)'
  OBVIOUS
<1>2. EntryFits(g) /\ ObjectFits(g)
  BY <1>1 DEF SpaceOk
<1>3. (g \in Shrinking)' <=> g \in Shrinking
  BY DEF Shrinking
<1> QED
  BY <1>2, <1>3 DEF RootOf, StartNow, EntryFits, ObjectFits, Seeking

\* One entry of the FAT changes; every cluster that was led to by the call or by
\* that entry still is led to, or is free.
LEMMA OnEntry ==
  ASSUME SpaceOk, fil' = fil, ents' = ents, call'.op = call.op, call'.f = call.f,
         NEW a \in Clus, \A x \in Clus : x # a => fat'[x] = fat[x],
         fat'[a] \in Clus => fat'[a] # a /\ fat[fat'[a]] \notin Clus,
         StepFits',
         \A c \in Clus : fat'[c] # 0 /\ (fat[c] = 0 \/ InHand(c) \/ fat[a] = c) => Rooted(c)'
  PROVE  SpaceOk'
<1>1. \A g \in Files : RootOf(g)' = RootOf(g) /\ EntryFits(g)' /\ ObjectFits(g)'
  BY FilesFit
<1>2. Ranked'
  BY RankOne DEF SpaceOk
<1>3. ASSUME NEW c \in Clus, fat'[c] # 0, fat[c] # 0, ~InHand(c), fat[a] # c PROVE Rooted(c)'
  <2>1. Rooted(c)
    BY <1>3 DEF SpaceOk, AllRooted
  <2>2. CASE \E g \in Files : RootOf(g) = c
    BY <1>1, <2>2 DEF Rooted
  <2>3. CASE \E d \in Clus : fat[d] = c
    <3>1. PICK d \in Clus : fat[d] = c
      BY <2>3
    <3>2. fat'[d] = c
      BY <1>3, <3>1
    <3> QED
      BY <3>2 DEF Rooted
  <2> QED
    BY <1>3, <2>1, <2>2, <2>3 DEF Rooted
<1>4. AllRooted'
  BY <1>3 DEF AllRooted
<1> QED
  BY <1>1, <1>2, <1>4 DEF SpaceOk

-----------------------------------------------------------------------------
(* The calls begin.                                                        *)

\* The parts of the call when it moves on.
LEMMA PartsTo ==
  ASSUME Types
  PROVE  /\ \A pc, b, r : LET y == [call EXCEPT !.pc = pc, !.b = b, !.r = r]
                          IN  y.op = call.op /\ y.f = call.f /\ y.pc = pc /\ y.a = call.a /\ y.b = b /\ y.r = r
         /\ \A pc, b : LET y == [call EXCEPT !.pc = pc, !.b = b]
                       IN  y.op = call.op /\ y.f = call.f /\ y.pc = pc /\ y.a = call.a /\ y.b = b
         /\ \A pc, a, n : LET y == [call EXCEPT !.pc = pc, !.a = a, !.n = n]
                          IN  y.op = call.op /\ y.f = call.f /\ y.pc = pc /\ y.a = a
         /\ \A pc : LET y == [call EXCEPT !.pc = pc]
                    IN  y.op = call.op /\ y.f = call.f /\ y.pc = pc /\ y.a = call.a /\ y.b = call.b
         /\ \A b : LET y == [call EXCEPT !.b = b]
                   IN  y.op = call.op /\ y.f = call.f /\ y.pc = call.pc /\ y.a = call.a /\ y.b = b
         /\ \A b, n : LET y == [call EXCEPT !.b = b, !.n = n]
                      IN  y.op = call.op /\ y.f = call.f /\ y.pc = call.pc /\ y.a = call.a /\ y.b = b
         /\ \A pc, op : LET y == [call EXCEPT !.op = op, !.pc = pc]
                        IN  y.op = op
         /\ \A pc, op, b : LET y == [call EXCEPT !.op = op, !.pc = pc, !.b = b]
                           IN  y.op = op
BY CallTypes DEF Types, Call

\* The parts of a call at its beginning.
LEMMA PartsAt ==
  /\ \A op, f, pc, a, b, n : LET y == At(op, f, pc, a, b, n)
                             IN  y.op = op /\ y.f = f /\ y.pc = pc /\ y.a = a /\ y.b = b
  /\ Idle.op = "none" /\ Idle.pc = "idle"
BY DEF At, Idle

\* Before a call begins nothing is in hand,
LEMMA Beginning ==
  ASSUME NEW w, Inv(w), Space, CanBegin, failed => failed', crashes' = crashes, Smoothly'
  PROVE  /\ SpaceOk /\ Types /\ call = Idle /\ call.op = "none" /\ call.pc = "idle" /\ ~failed' /\ Shrinking = {}
         /\ \A c : ~InHand(c)
<1>1. /\ call = Idle /\ call.op = "none" /\ Shrinking = {} /\ call.pc = "idle" /\ Types
  BY IdleIs DEF Inv, CanBegin
<1>2. SpaceOk /\ ~failed'
  BY <1>1 DEF Smoothly, Space
<1>3. \A c : ~InHand(c)
  BY <1>1 DEF InHand
<1> QED
  BY <1>1, <1>2, <1>3

\* and every file is as it should be between two calls.
LEMMA AtRest ==
  ASSUME SpaceOk, call.op = "none", NEW f \in Files
  PROVE  /\ OnlyOn(f) /\ EntryFits(f)
         /\ RootOf(f) = IF fil[f].open THEN fil[f].sclust ELSE ents[f].start
         /\ fil[f].open => (~fil[f].mod => fil[f].sclust = ents[f].start) /\ (fil[f].size = 0 => fil[f].sclust = 0)
<1>1. EntryFits(f) /\ ObjectFits(f)
  BY DEF SpaceOk
<1>2. call.op # "write" /\ ~Seeking(f)
  BY DEF Seeking
<1>3. fil[f].open => (~fil[f].mod => fil[f].sclust = ents[f].start) /\ (fil[f].size = 0 => fil[f].sclust = 0)
  BY <1>1, <1>2 DEF ObjectFits
<1>4. f \notin Shrinking
  BY DEF Shrinking
<1>5. RootOf(f) = IF fil[f].open THEN fil[f].sclust ELSE ents[f].start
  BY <1>4 DEF RootOf, StartNow
<1> QED
  BY <1>1, <1>3, <1>5 DEF OnlyOn

\* Between two calls nothing is asked of the call.
LEMMA IdleFits ==
  ASSUME call.pc = "idle", call.op = "none"
  PROVE  StepFits
BY DEF StepFits

\* A call that leaves files and FAT alone, and has nothing in hand that it led to.
LEMMA NothingMoved ==
  ASSUME SpaceOk, NEW f \in Files, OnlyOn(f), call'.f = f \/ call'.op = "none", fat' = fat, fil' = fil, ents' = ents,
         \A c : ~InHand(c), f \notin Shrinking, f \notin Shrinking',
         call.op # "write" \/ call'.op = "write", call.op # "lseek" \/ call'.op = "lseek", StepFits'
  PROVE  SpaceOk'
<1>1. OnlyOn(f)'
  BY DEF OnlyOn
<1>2. EntryFits(f) /\ ObjectFits(f)
  BY DEF SpaceOk
<1>3. EntryFits(f)'
  BY <1>2 DEF EntryFits
<1>4. ObjectFits(f)'
  BY <1>2 DEF ObjectFits, Seeking, OnlyOn
<1>5. RootOf(f)' = RootOf(f)
  BY DEF RootOf, StartNow
<1> QED
  BY <1>1, <1>3, <1>4, <1>5, OnOne

\* The parts of a call of f_write.
LEMMA WritePart ==
  ASSUME NEW f, NEW x, NEW n
  PROVE  LET y == [WriteFrom(f, x) EXCEPT !.n = n]
         IN  /\ y.op = "write" /\ y.f = f /\ y.pc \in {"chain", "got"} /\ y.b = 0
             /\ y.pc = "got" => y.r = x.sclust /\ x.sclust # 0
<1> DEFINE a == IF x.pos = 0 THEN 0 ELSE x.clust
           p == [op |-> "write", f |-> f, pc |-> "got", a |-> 0, b |-> 0, n |-> 0, r |-> x.sclust]
           q == [op |-> "write", f |-> f, pc |-> "chain", a |-> a, b |-> 0, n |-> 0, r |-> 0]
<1>1. (WriteFrom(f, x) = p /\ x.sclust # 0) \/ WriteFrom(f, x) = q
  BY DEF WriteFrom, At
<1> QED
  BY <1>1

\* Where a file starts when no f_truncate is at work on it.
LEMMA RootIs ==
  ASSUME NEW f \in Files, f \notin Shrinking
  PROVE  RootOf(f) = IF fil[f].open THEN fil[f].sclust ELSE ents[f].start
BY DEF RootOf, StartNow

\* f_open of an existing file,
LEMMA OpenExistingFits ==
  ASSUME NEW w, Inv(w), Space, NEW f \in Files, OpenExisting(f), Smoothly'
  PROVE  SpaceOk'
<1>1. CanBegin /\ ~fil[f].open /\ UNCHANGED <<fat, ents, crashes>>
  BY DEF OpenExisting, hist, budget
<1>2. failed => failed'
  BY DEF OpenExisting, ReturnAtOnce, Result
<1>b. /\ SpaceOk /\ Types /\ call.op = "none" /\ call.pc = "idle" /\ ~failed' /\ Shrinking = {}
      /\ \A c : ~InHand(c)
  BY <1>1, <1>2, Beginning
<1>3. /\ SpaceOk /\ Types /\ call.op = "none" /\ call.pc = "idle" /\ ~failed' /\ Shrinking = {}
      /\ \A c : ~InHand(c)
      /\ OnlyOn(f) /\ RootOf(f) = ents[f].start /\ EntryFits(f)
  BY <1>1, <1>b, AtRest
<1>4. call' = call
  BY DEF OpenExisting, ReturnAtOnce
<1>5. StepFits' /\ OnlyOn(f)' /\ f \notin Shrinking /\ f \notin Shrinking'
  BY <1>3, <1>4, IdleFits DEF OnlyOn, Shrinking, StepFits
<1>6. CASE fil' = fil
  BY <1>1, <1>3, <1>4, <1>5, <1>6, NothingMoved
<1>7. CASE ents[f].used /\ ~ents[f].dir /\ fil' = [fil EXCEPT ![f] = Opened(ents[f].start, ents[f].size, FALSE)]
  <2> DEFINE x == Opened(ents[f].start, ents[f].size, FALSE)
  <2>1. ents[f].start \in {0} \cup Clus /\ ents[f].size \in Nat
    BY <1>3, ObjectIs
  <2>2. x \in Object /\ x.open /\ x.sclust = ents[f].start /\ x.size = ents[f].size
    BY <2>1, OpenedIs
  <2>3. fil' = [fil EXCEPT ![f] = x]
    BY <1>7
  <2> HIDE DEF x
  <2>4. fil'[f] = x /\ \A g \in Files : g # f => fil'[g] = fil[g]
    BY <1>3, <2>2, <2>3, FilTo
  <2>5. ents[f].size = 0 => ents[f].start = 0
    BY <1>3, <1>7 DEF EntryFits
  <2>6. ObjectFits(f)'
    BY <1>1, <2>2, <2>4, <2>5 DEF ObjectFits
  <2>7. EntryFits(f)'
    BY <1>1, <1>3 DEF EntryFits
  <2>8. RootOf(f)' = ents[f].start
    BY <1>1, <1>5, <2>2, <2>4 DEF RootOf, StartNow
  <2> QED
    BY <1>1, <1>3, <1>5, <2>4, <2>6, <2>7, <2>8, OnOne
<1> QED
  BY <1>6, <1>7 DEF OpenExisting

\* of a new one, whose old clusters are to be freed,
LEMMA OpenCreateFits ==
  ASSUME NEW w, Inv(w), Space, NEW f \in Files, OpenCreate(f), Smoothly'
  PROVE  SpaceOk'
<1>1. CanBegin /\ ~fil[f].open /\ UNCHANGED <<fat, crashes>>
  BY DEF OpenCreate, budget
<1>2. failed => failed'
  BY DEF OpenCreate, ReturnAtOnce, Result, Begin
<1>b. /\ SpaceOk /\ Types /\ call.op = "none" /\ call.pc = "idle" /\ ~failed' /\ Shrinking = {}
      /\ \A c : ~InHand(c)
  BY <1>1, <1>2, Beginning
<1>3. /\ SpaceOk /\ Types /\ call.op = "none" /\ call.pc = "idle" /\ ~failed' /\ Shrinking = {}
      /\ \A c : ~InHand(c)
      /\ OnlyOn(f) /\ RootOf(f) = ents[f].start /\ EntryFits(f)
  BY <1>1, <1>b, AtRest
<1>4. /\ ents' = [ents EXCEPT ![f] = FileEntry(0, 0)]
      /\ \/ ents[f].start = 0 /\ fil' = [fil EXCEPT ![f] = Opened(0, 0, TRUE)] /\ call' = call
         \/ call' = At("create", f, "free", ents[f].start, ents[f].start, 0) /\ fil' = fil
  <2>1. PICK o : /\ ents' = IF o.ok THEN [ents EXCEPT ![f] = FileEntry(0, 0)] ELSE ents
                 /\ \/ ~o.ok /\ ReturnAtOnce("open", f, FALSE)
                    \/ /\ o.ok
                       /\ \/ ents[f].start = 0 /\ fil' = [fil EXCEPT ![f] = Opened(0, 0, TRUE)] /\ ReturnAtOnce("open", f, TRUE)
                          \/ Begin(At("create", f, "free", ents[f].start, ents[f].start, 0)) /\ fil' = fil
    BY DEF OpenCreate
  <2>2. o.ok
    BY <1>3, <2>1 DEF ReturnAtOnce, Result
  <2> QED
    BY <2>1, <2>2 DEF ReturnAtOnce, Begin
<1>5. FileEntry(0, 0) \in Entry /\ FileEntry(0, 0).start = 0
  <2> DEFINE z == 0
  <2>1. z \in {0} \cup Clus /\ z \in Nat
    OBVIOUS
  <2> HIDE DEF z
  <2>2. FileEntry(z, z) \in Entry /\ FileEntry(z, z).start = z
    BY <2>1, EntriesAre
  <2> QED
    BY <2>2 DEF z
<1>6. ents'[f].start = 0 /\ \A g \in Files : g # f => ents'[g] = ents[g]
  BY <1>3, <1>4, <1>5, EntsTo
<1>7. EntryFits(f)'
  BY <1>6 DEF EntryFits
<1>8. CASE ents[f].start = 0 /\ fil' = [fil EXCEPT ![f] = Opened(0, 0, TRUE)] /\ call' = call
  <2> DEFINE x == Opened(0, 0, TRUE)
  <2>1. x \in Object /\ x.open /\ x.sclust = 0 /\ x.size = 0
    BY OpenedNew
  <2>2. fil' = [fil EXCEPT ![f] = x]
    BY <1>8
  <2> HIDE DEF x
  <2>3. fil'[f] = x /\ \A g \in Files : g # f => fil'[g] = fil[g]
    BY <1>3, <2>1, <2>2, FilTo
  <2>4. ObjectFits(f)'
    BY <1>6, <2>1, <2>3 DEF ObjectFits
  <2>5. StepFits' /\ OnlyOn(f)'
    BY <1>3, <1>8, IdleFits DEF OnlyOn, StepFits
  <2>6. 0 \notin Clus
    BY Numbers
  <2> QED
    BY <1>1, <1>3, <1>6, <1>7, <1>8, <2>3, <2>4, <2>5, <2>6, OnOne
<1>9. CASE call' = At("create", f, "free", ents[f].start, ents[f].start, 0) /\ fil' = fil
  <2>1. call'.op = "create" /\ call'.f = f /\ call'.pc = "free" /\ call'.b = ents[f].start
    BY <1>9, PartsAt
  <2>2. StepFits' /\ OnlyOn(f)'
    BY <1>6, <2>1 DEF StepFits, OnlyOn
  <2>3. ObjectFits(f)'
    BY <1>1, <1>9 DEF ObjectFits
  <2>4. \A c \in Clus : RootOf(f) = c => InHand(c)'
    BY <1>3, <2>1 DEF InHand
  <2>5. \A g \in Files : g # f => fil'[g] = fil[g]
    BY <1>9
  <2> QED
    BY <1>1, <1>3, <1>6, <1>7, <2>2, <2>3, <2>4, <2>5, OnOne
<1> QED
  BY <1>4, <1>8, <1>9

\* f_write and f_expand,
LEMMA FWriteFits ==
  ASSUME NEW w, Inv(w), Space, NEW f \in Files, NEW n, FWrite(f, n), Smoothly'
  PROVE  SpaceOk'
<1>1. CanBegin /\ UNCHANGED <<fat, ents, fil, crashes>>
  BY DEF FWrite, Usable, hist, budget
<1>2. failed => failed'
  BY DEF FWrite, Begin
<1>3. /\ SpaceOk /\ call.op = "none" /\ Shrinking = {} /\ (\A c : ~InHand(c)) /\ OnlyOn(f)
  BY <1>1, <1>2, Beginning DEF OnlyOn
<1>4. call'.op = "write" /\ call'.f = f /\ call'.pc \in {"chain", "got"}
  <2>1. PICK x, m : call' = [WriteFrom(f, x) EXCEPT !.n = m]
    BY DEF FWrite, Begin
  <2> QED
    BY <2>1, WritePart
<1>5. StepFits' /\ f \notin Shrinking /\ f \notin Shrinking'
  BY <1>3, <1>4 DEF StepFits, Shrinking
<1> QED
  BY <1>1, <1>3, <1>4, <1>5, NothingMoved

\* f_expand begins,
LEMMA FExpandFits ==
  ASSUME NEW w, Inv(w), Space, NEW f \in Files, NEW k, NEW opt, FExpand(f, k, opt), Smoothly'
  PROVE  SpaceOk'
<1>1. CanBegin /\ UNCHANGED <<fat, ents, fil, crashes>>
  BY DEF FExpand, Usable, hist, budget
<1>2. failed => failed'
  BY ResultKeeps DEF FExpand, Begin, ReturnAtOnce
<1>3. /\ SpaceOk /\ call.op = "none" /\ call.pc = "idle" /\ Shrinking = {} /\ (\A c : ~InHand(c)) /\ OnlyOn(f)
  BY <1>1, <1>2, Beginning DEF OnlyOn
<1>4. call' = call \/ (call'.op = "expand" /\ call'.f = f /\ call'.pc = "fill")
  <2>1. call' = call \/ \E c, m : call' = At("expand", f, "fill", c, c, m)
    BY DEF FExpand, Begin, ReturnAtOnce
  <2> QED
    BY <2>1, PartsAt
<1>5. StepFits' /\ f \notin Shrinking /\ f \notin Shrinking'
  BY <1>3, <1>4 DEF StepFits, Shrinking
<1> QED
  BY <1>1, <1>3, <1>4, <1>5, NothingMoved

\* f_mkdir,
LEMMA FMkdirFits ==
  ASSUME NEW w, Inv(w), Space, NEW f \in Files, FMkdir(f), Smoothly'
  PROVE  SpaceOk'
<1>1. CanBegin /\ ~ents[f].used /\ UNCHANGED <<fat, ents, fil, crashes>>
  BY DEF FMkdir, hist, budget
<1>2. failed => failed'
  BY ResultKeeps DEF FMkdir, Begin, ReturnAtOnce
<1>3. /\ SpaceOk /\ call.op = "none" /\ call.pc = "idle" /\ Shrinking = {} /\ (\A c : ~InHand(c)) /\ OnlyOn(f) /\ EntryFits(f)
  BY <1>1, <1>2, Beginning, AtRest
<1>4. call' = call \/ (call'.op = "mkdir" /\ call'.f = f /\ call'.pc = "chain")
  <2>1. call' = call \/ call' = At("mkdir", f, "chain", 0, 0, 0)
    BY DEF FMkdir, Begin, ReturnAtOnce
  <2> QED
    BY <2>1, PartsAt
<1>5. StepFits' /\ f \notin Shrinking /\ f \notin Shrinking'
  BY <1>1, <1>3, <1>4 DEF StepFits, Shrinking, EntryFits
<1> QED
  BY <1>1, <1>3, <1>4, <1>5, NothingMoved

\* The object of f moves and starts where it did.
LEMMA ObjectMoved ==
  ASSUME SpaceOk, Types, call.op = "none", \A c : ~InHand(c), NEW f \in Files, fil[f].open,
         NEW y \in Object, fil' = [fil EXCEPT ![f] = y], ents' = ents, fat' = fat,
         y.open, y.sclust = fil[f].sclust, y.size = 0 => fil[f].size = 0, ~y.mod => ~fil[f].mod,
         OnlyOn(f)', f \notin Shrinking', StepFits'
  PROVE  SpaceOk'
<1>1. /\ OnlyOn(f) /\ EntryFits(f) /\ RootOf(f) = fil[f].sclust
      /\ (~fil[f].mod => fil[f].sclust = ents[f].start) /\ (fil[f].size = 0 => fil[f].sclust = 0)
  BY AtRest
<1>2. fil'[f] = y /\ \A g \in Files : g # f => fil'[g] = fil[g]
  BY FilTo
<1>3. ObjectFits(f)'
  BY <1>1, <1>2 DEF ObjectFits
<1>4. EntryFits(f)'
  BY <1>1 DEF EntryFits
<1>5. RootOf(f)' = fil[f].sclust
  BY <1>2 DEF RootOf, StartNow
<1> QED
  BY <1>1, <1>2, <1>3, <1>4, <1>5, OnOne

\* Where f_lseek starts from is in the same chain.
LEMMA SeekFromIs ==
  ASSUME NEW x \in Object, NEW f, NEW k
  PROVE  LET y == SeekFrom(f, k, x)
         IN  y \in Object /\ y.open = x.open /\ y.sclust = x.sclust /\ y.size = x.size /\ y.mod = x.mod
<1>1. CASE x.pos > 0 /\ k >= x.pos
  <2> DEFINE p == x.pos - 1
  <2>1. p \in Nat
    BY <1>1 DEF Object
  <2>2. SeekFrom(f, k, x) = [x EXCEPT !.pos = p]
    BY <1>1 DEF SeekFrom
  <2> HIDE DEF p
  <2> QED
    BY <2>1, <2>2 DEF Object
<1>2. CASE ~(x.pos > 0 /\ k >= x.pos)
  <2> DEFINE z == 0
  <2>1. SeekFrom(f, k, x) = [x EXCEPT !.pos = z, !.clust = x.sclust]
    BY <1>2 DEF SeekFrom
  <2>2. z \in Nat /\ x.sclust \in {0} \cup Clus
    BY DEF Object
  <2> HIDE DEF z
  <2> QED
    BY <2>1, <2>2 DEF Object
<1> QED
  BY <1>1, <1>2

\* f_lseek,
LEMMA FLseekFits ==
  ASSUME NEW w, Inv(w), Space, NEW f \in Files, NEW k, FLseek(f, k), Smoothly'
  PROVE  SpaceOk'
<1>1. CanBegin /\ fil[f].open /\ UNCHANGED <<fat, ents, crashes>>
  BY DEF FLseek, Usable, hist, budget
<1>2. failed => failed'
  BY ResultKeeps DEF FLseek, Begin, ReturnAtOnce
<1>3. SpaceOk /\ Types /\ call.op = "none" /\ call.pc = "idle" /\ \A c : ~InHand(c)
  BY <1>1, <1>2, Beginning
<1>4. call' = call \/ (call'.op = "lseek" /\ call'.f = f /\ call'.pc = "chain")
  <2>1. call' = call \/ \E a, m : call' = At("lseek", f, "chain", a, 0, m)
    BY DEF FLseek, Begin, ReturnAtOnce
  <2> QED
    BY <2>1, PartsAt
<1>5. StepFits' /\ OnlyOn(f)' /\ f \notin Shrinking'
  BY <1>3, <1>4 DEF StepFits, OnlyOn, Shrinking
<1>6. fil[f] \in Object
  BY <1>3, ObjectIs
<1>7. CASE k = 0
  <2> DEFINE z == 0
             y == [fil[f] EXCEPT !.pos = z, !.clust = z]
  <2>1. fil' = [fil EXCEPT ![f] = y]
    BY <1>3, <1>7 DEF FLseek, Types
  <2>2. z \in Nat /\ z \in {0} \cup Clus
    OBVIOUS
  <2> HIDE DEF z
  <2>3. y \in Object /\ y.open = fil[f].open /\ y.sclust = fil[f].sclust /\ y.size = fil[f].size /\ y.mod = fil[f].mod
    BY <1>6, <2>2 DEF Object
  <2> HIDE DEF y
  <2> QED
    BY <1>1, <1>3, <1>5, <2>1, <2>3, ObjectMoved
<1>8. CASE k # 0
  <2> DEFINE x == SeekFrom(f, k, fil[f])
  <2>1. x \in Object /\ x.open = fil[f].open /\ x.sclust = fil[f].sclust /\ x.size = fil[f].size /\ x.mod = fil[f].mod
    BY <1>6, SeekFromIs
  <2>2. fil' = [fil EXCEPT ![f] = x] \/ fil' = [fil EXCEPT ![f] = Arrive(x, x.pos + 1)]
    BY <1>8 DEF FLseek, SeekOn
  <2> HIDE DEF x
  <2>3. CASE fil' = [fil EXCEPT ![f] = x]
    BY <1>1, <1>3, <1>5, <2>1, <2>3, ObjectMoved
  <2>4. CASE fil' = [fil EXCEPT ![f] = Arrive(x, x.pos + 1)]
    <3> DEFINE n == x.pos + 1
               y == Arrive(x, n)
    <3>1. n \in Nat /\ n # 0 /\ x.size \in Nat
      BY <2>1 DEF Object
    <3>2. fil' = [fil EXCEPT ![f] = y]
      BY <2>4
    <3> HIDE DEF n
    <3>3. y \in Object /\ y.open = x.open /\ y.sclust = x.sclust /\ (x.mod => y.mod) /\ y.size # 0
      <4>1. y.size = IF n > x.size THEN n ELSE x.size
        BY <2>1, <3>1, ArriveIs
      <4>2. y.size # 0
        BY <3>1, <4>1
      <4> QED
        BY <2>1, <3>1, <4>2, ArriveIs
    <3> HIDE DEF y
    <3> QED
      BY <1>1, <1>3, <1>5, <2>1, <3>2, <3>3, ObjectMoved
  <2> QED
    BY <2>2, <2>3, <2>4
<1> QED
  BY <1>7, <1>8

\* f_truncate, whose chain or the rest of it is to be freed,
LEMMA FTruncateFits ==
  ASSUME NEW w, Inv(w), Space, NEW f \in Files, FTruncate(f), Smoothly'
  PROVE  SpaceOk'
<1>1. CanBegin /\ fil[f].open /\ UNCHANGED <<fat, ents, crashes>>
  BY DEF FTruncate, Usable, budget
<1>2. failed => failed'
  <2>1. CASE fil[f].pos = 0
    BY <2>1, ResultKeeps DEF FTruncate, Begin, ReturnAtOnce
  <2>2. CASE fil[f].pos # 0
    BY <2>2, ResultKeeps DEF FTruncate, Begin, ReturnAtOnce
  <2> QED
    BY <2>1, <2>2
<1>b. SpaceOk /\ Types /\ call.op = "none" /\ call.pc = "idle" /\ ~failed' /\ \A c : ~InHand(c)
  BY <1>1, <1>2, Beginning
<1>3. /\ OnlyOn(f) /\ EntryFits(f) /\ RootOf(f) = fil[f].sclust
      /\ (~fil[f].mod => fil[f].sclust = ents[f].start) /\ (fil[f].size = 0 => fil[f].sclust = 0)
  BY <1>1, <1>b, AtRest
<1>4. EntryFits(f)'
  BY <1>1, <1>3 DEF EntryFits
<1>5. fil[f] \in Object /\ fil[f].pos \in Nat /\ fil[f].sclust \in {0} \cup Clus
  BY <1>b, ObjectIs
<1>6. CASE fil[f].pos = 0
  <2>1. call' = At("truncate", f, "free", 0, fil[f].sclust, 0) /\ fil' = fil
    BY <1>6, <1>b DEF FTruncate, Begin, ReturnAtOnce, Result
  <2>2. call'.op = "truncate" /\ call'.f = f /\ call'.pc = "free" /\ call'.b = fil[f].sclust
    BY <2>1, PartsAt
  <2>3. StepFits' /\ OnlyOn(f)'
    BY <2>2 DEF StepFits, OnlyOn
  <2>4. ObjectFits(f)'
    BY <1>1, <1>3, <2>1 DEF ObjectFits
  <2>5. \A c \in Clus : RootOf(f) = c => InHand(c)'
    BY <1>3, <2>2 DEF InHand
  <2> QED
    BY <1>1, <1>b, <1>3, <1>4, <2>1, <2>3, <2>4, <2>5, OnOne
<1>7. CASE fil[f].pos # 0
  <2> DEFINE a == fil[f].clust
             next == fat[fil[f].clust]
  <2>1. \/ call' = At("truncate", f, "cut", a, next, 0) /\ fil' = fil
        \/ \E ok \in BOOLEAN : ReturnAtOnce("truncate", f, ok) /\ Shortened(f, ok)
    <3>1. PICK o \in GetFat(a) :
             IF o.ok /\ next \in Clus
             THEN Begin(At("truncate", f, "cut", a, next, 0)) /\ UNCHANGED fil
             ELSE ReturnAtOnce("truncate", f, o.ok /\ next = EOC) /\ Shortened(f, o.ok /\ next = EOC)
      BY <1>7 DEF FTruncate
    <3> DEFINE ok == o.ok /\ next = EOC
    <3>2. ok \in BOOLEAN
      OBVIOUS
    <3>3. \/ Begin(At("truncate", f, "cut", a, next, 0)) /\ UNCHANGED fil
          \/ ReturnAtOnce("truncate", f, ok) /\ Shortened(f, ok)
      BY <3>1
    <3> HIDE DEF ok
    <3> QED
      BY <3>2, <3>3 DEF Begin
  <2>2. CASE call' = At("truncate", f, "cut", a, next, 0) /\ fil' = fil
    <3>1. call'.op = "truncate" /\ call'.f = f /\ call'.pc = "cut" /\ call'.a = a /\ call'.b = next
      BY <2>2, PartsAt
    <3>2. StepFits' /\ OnlyOn(f)'
      BY <1>1, <3>1 DEF StepFits, OnlyOn
    <3>3. ObjectFits(f)'
      BY <1>1, <1>3, <2>2 DEF ObjectFits
    <3>4. RootOf(f)' = fil[f].sclust
      BY <1>1, <1>7, <2>2 DEF RootOf, StartNow
    <3> QED
      BY <1>1, <1>b, <1>3, <1>4, <2>2, <3>2, <3>3, <3>4, OnOne
  <2>3. CASE \E ok \in BOOLEAN : ReturnAtOnce("truncate", f, ok) /\ Shortened(f, ok)
    <3>1. call' = call /\ Shortened(f, TRUE)
      BY <1>b, <2>3 DEF ReturnAtOnce, Result
    <3> DEFINE p == fil[f].pos
               y == [fil[f] EXCEPT !.size = p, !.mod = TRUE]
    <3>2. fil' = [fil EXCEPT ![f] = y]
      <4>1. fil[f] = [fil[f] EXCEPT !.sclust = @]
        BY <1>5 DEF Object
      <4> QED
        BY <1>5, <1>7, <3>1, <4>1 DEF Shortened, Object
    <3>3. y \in Object /\ y.open = fil[f].open /\ y.sclust = fil[f].sclust /\ y.mod /\ y.size = p
      BY <1>5 DEF Object
    <3> HIDE DEF y
    <3>4. StepFits' /\ OnlyOn(f)' /\ f \notin Shrinking'
      BY <1>b, <3>1 DEF StepFits, OnlyOn, Shrinking
    <3> QED
      BY <1>1, <1>b, <1>7, <3>2, <3>3, <3>4, ObjectMoved
  <2> QED
    BY <2>1, <2>2, <2>3
<1> QED
  BY <1>6, <1>7

\* f_sync and f_close,
LEMMA FSyncFits ==
  ASSUME NEW w, Inv(w), Space, NEW f \in Files, NEW op \in {"sync", "close"}, FSync(op, f), Smoothly'
  PROVE  SpaceOk'
<1>1. CanBegin /\ fil[f].open /\ UNCHANGED <<fat, crashes>>
  BY DEF FSync, hist, budget
<1>2. failed => failed'
  BY ResultKeeps DEF FSync, Begin, ReturnAtOnce
<1>b. SpaceOk /\ Types /\ call.op = "none" /\ call.pc = "idle" /\ ~failed' /\ \A c : ~InHand(c)
  BY <1>1, <1>2, Beginning
<1>3. /\ OnlyOn(f) /\ EntryFits(f) /\ RootOf(f) = fil[f].sclust
      /\ (~fil[f].mod => fil[f].sclust = ents[f].start) /\ (fil[f].size = 0 => fil[f].sclust = 0)
  BY <1>1, <1>b, AtRest
<1>4. \/ ~fil[f].mod /\ CloseIf(op, f, fil[f]) /\ call' = call /\ ents' = ents
      \/ call' = At(op, f, "sync", 0, 0, 0) /\ ents' = [ents EXCEPT ![f] = FileEntry(fil[f].sclust, fil[f].size)] /\ fil' = fil
  <2>1. \/ ~fil[f].mod /\ CloseIf(op, f, fil[f]) /\ call' = call /\ ents' = ents
        \/ ReturnAtOnce(op, f, FALSE)
        \/ /\ \E o : \/ ~o.ok /\ ReturnAtOnce(op, f, FALSE)
                     \/ o.ok /\ Begin(At(op, f, "sync", 0, 0, 0))
                        /\ ents' = [ents EXCEPT ![f] = FileEntry(fil[f].sclust, fil[f].size)]
           /\ UNCHANGED fil
    BY DEF FSync, ReturnAtOnce
  <2>2. ~ReturnAtOnce(op, f, FALSE)
    BY <1>b DEF ReturnAtOnce, Result
  <2> QED
    BY <2>1, <2>2 DEF Begin
<1>5. CASE ~fil[f].mod /\ CloseIf(op, f, fil[f]) /\ call' = call /\ ents' = ents
  <2>1. StepFits' /\ OnlyOn(f)' /\ f \notin Shrinking' /\ EntryFits(f)'
    BY <1>b, <1>3, <1>5 DEF StepFits, OnlyOn, Shrinking, EntryFits
  <2>2. fil' = fil \/ fil' = [fil EXCEPT ![f] = Closed]
    <3>1. fil' = [fil EXCEPT ![f] = fil[f]] \/ fil' = [fil EXCEPT ![f] = Closed]
      BY <1>5 DEF CloseIf
    <3> QED
      BY <1>b, <3>1 DEF Types
  <2>3. CASE fil' = fil
    <3>1. \A g \in Files : g # f => fil'[g] = fil[g] /\ ents'[g] = ents[g]
      BY <1>5, <2>3
    <3>2. ObjectFits(f)' /\ RootOf(f)' = fil[f].sclust
      BY <1>1, <1>3, <1>5, <2>1, <2>3 DEF ObjectFits, RootOf, StartNow
    <3> QED
      BY <1>1, <1>b, <1>3, <2>1, <3>1, <3>2, OnOne
  <2>4. CASE fil' = [fil EXCEPT ![f] = Closed]
    <3>1. ~fil'[f].open /\ \A g \in Files : g # f => fil'[g] = fil[g] /\ ents'[g] = ents[g]
      BY <1>b, <1>5, <2>4, ClosedIs, FilTo
    <3>2. ObjectFits(f)' /\ RootOf(f)' = fil[f].sclust
      BY <1>3, <1>5, <3>1 DEF ObjectFits, RootOf
    <3> QED
      BY <1>1, <1>b, <1>3, <2>1, <3>1, <3>2, OnOne
  <2> QED
    BY <2>2, <2>3, <2>4
<1>6. CASE call' = At(op, f, "sync", 0, 0, 0) /\ ents' = [ents EXCEPT ![f] = FileEntry(fil[f].sclust, fil[f].size)] /\ fil' = fil
  <2>1. call'.op = op /\ call'.f = f /\ call'.pc = "sync"
    BY <1>6, PartsAt
  <2>2. StepFits' /\ OnlyOn(f)' /\ f \notin Shrinking'
    BY <2>1 DEF StepFits, OnlyOn, Shrinking
  <2> DEFINE s == fil[f].sclust
             n == fil[f].size
             e == FileEntry(s, n)
  <2>0. s \in {0} \cup Clus /\ n \in Nat
    BY <1>b, ObjectIs
  <2>3. e \in Entry /\ e.start = s /\ e.size = n
    <3> HIDE DEF s, n
    <3> QED
      BY <2>0, EntriesAre
  <2>7. e.used
    BY DEF FileEntry
  <2>4. ents' = [ents EXCEPT ![f] = e]
    BY <1>6
  <2> HIDE DEF e
  <2>5. ents'[f] = e /\ \A g \in Files : g # f => ents'[g] = ents[g]
    BY <1>b, <2>3, <2>4, EntsTo
  <2>6. EntryFits(f)' /\ ObjectFits(f)' /\ RootOf(f)' = fil[f].sclust
    BY <1>1, <1>3, <1>6, <2>2, <2>3, <2>5, <2>7 DEF EntryFits, ObjectFits, RootOf, StartNow
  <2> QED
    BY <1>1, <1>b, <1>3, <1>6, <2>2, <2>5, <2>6, OnOne
<1> QED
  BY <1>4, <1>5, <1>6

\* f_unlink, which frees the chain after the entry,
LEMMA FUnlinkFits ==
  ASSUME NEW w, Inv(w), Space, NEW f \in Files, FUnlink(f), Smoothly'
  PROVE  SpaceOk'
<1>1. CanBegin /\ ~fil[f].open /\ UNCHANGED <<fat, fil, crashes>>
  BY DEF FUnlink, budget
<1>2. failed => failed'
  BY ResultKeeps DEF FUnlink, Begin, ReturnAtOnce
<1>b. SpaceOk /\ Types /\ call.op = "none" /\ call.pc = "idle" /\ ~failed' /\ \A c : ~InHand(c)
  BY <1>1, <1>2, Beginning
<1>3. OnlyOn(f) /\ RootOf(f) = ents[f].start
  BY <1>1, <1>b, AtRest
<1> DEFINE pc == IF ents[f].start # 0 THEN "free" ELSE "sync"
<1>4. ents' = [ents EXCEPT ![f] = NoEntry] /\ call' = At("unlink", f, pc, 0, ents[f].start, 0)
  BY <1>b DEF FUnlink, ReturnAtOnce, Result, Begin
<1>5. ents'[f] = NoEntry /\ \A g \in Files : g # f => ents'[g] = ents[g]
  BY <1>b, <1>4, EntsTo, EntriesAre
<1>6. call'.op = "unlink" /\ call'.f = f /\ call'.pc = pc /\ call'.b = ents[f].start
  BY <1>4, PartsAt
<1>7. EntryFits(f)' /\ ObjectFits(f)'
  BY <1>1, <1>5, EntriesAre DEF EntryFits, ObjectFits
<1>8. StepFits' /\ OnlyOn(f)'
  BY <1>6 DEF StepFits, OnlyOn
<1>9. \A c \in Clus : RootOf(f) = c => InHand(c)'
  BY <1>3, <1>6, Numbers DEF InHand
<1> QED
  BY <1>1, <1>b, <1>3, <1>5, <1>7, <1>8, <1>9, OnOne

\* f_getfree.
LEMMA FGetfreeFits ==
  ASSUME NEW w, Inv(w), Space, FGetfree, Smoothly'
  PROVE  SpaceOk'
<1>1. CanBegin /\ UNCHANGED <<fat, fil, ents, crashes, call>>
  BY DEF FGetfree, hist, budget, ReturnAtOnce
<1>2. failed => failed'
  BY ResultKeeps DEF FGetfree, ReturnAtOnce
<1>3. SpaceOk
  BY <1>1, <1>2, Beginning
<1> QED
  BY <1>1, <1>3 DEF SpaceOk, AllRooted, Rooted, RootOf, StartNow, Shrinking, InHand, Fresh, Ranked, Ranks, EntryFits, ObjectFits,
                    Seeking, StepFits

-----------------------------------------------------------------------------
(* The calls end.                                                          *)

\* The call goes on smoothly.
LEMMA Going ==
  ASSUME Space, failed => failed', crashes' = crashes, Smoothly', call.op # "undo",
         call.pc = "got" => call.r \in {0} \cup Clus
  PROVE  SpaceOk /\ ~failed'
BY DEF Space, Smoothly

\* What the calls say of their file, for its entry and object.
LEMMA FitsOf ==
  ASSUME SpaceOk, NEW f \in Files
  PROVE  EntryFits(f) /\ ObjectFits(f) /\ StepFits
BY DEF SpaceOk

\* f_open has freed the old chain,
LEMMA OpenCreatedFits ==
  ASSUME NEW w, Inv(w), Space, OpenCreated, Smoothly'
  PROVE  SpaceOk'
<1>0. PICK f \in Files : f = call.f
  BY DEF OpenCreated, Inv, CallOk, Idle
<1>1. call.op = "create" /\ call.pc = "got" /\ UNCHANGED <<fat, ents, crashes>> /\ Types
  BY DEF OpenCreated, hist, budget, Inv
<1>2. failed => failed'
  BY ResultKeeps DEF OpenCreated, Return
<1>3. call.r = 0 /\ fil' = [fil EXCEPT ![f] = Opened(0, 0, TRUE)] /\ call' = Idle
  BY <1>0 DEF OpenCreated, Return, Result, Smoothly
<1>4. SpaceOk
  BY <1>1, <1>2, <1>3, Going
<1>5. ~fil[f].open
  BY <1>0, <1>1 DEF Inv, CallOk, Idle, Growing, Removing, Expanding, Registering, Syncing, Ending
<1>6. EntryFits(f) /\ ents[f].start = 0
  BY <1>0, <1>1, <1>4, FitsOf DEF StepFits
<1> DEFINE x == Opened(0, 0, TRUE)
<1>7. x \in Object /\ x.open /\ x.sclust = 0 /\ x.size = 0
  BY OpenedNew
<1>8. fil' = [fil EXCEPT ![f] = x]
  BY <1>3
<1> HIDE DEF x
<1>9. fil'[f] = x /\ \A g \in Files : g # f => fil'[g] = fil[g]
  BY <1>1, <1>7, <1>8, FilTo
<1>10. ObjectFits(f)' /\ EntryFits(f)'
  BY <1>1, <1>6, <1>7, <1>9 DEF ObjectFits, EntryFits
<1>11. StepFits' /\ OnlyOn(f)' /\ OnlyOn(f)
  BY <1>0, <1>3, PartsAt DEF StepFits, OnlyOn
<1>12. \A c \in Clus : RootOf(f) # c /\ ~InHand(c)
  BY <1>1, <1>5, <1>6, Numbers DEF RootOf, InHand
<1>13. \A g \in Files : g # f => fil'[g] = fil[g] /\ ents'[g] = ents[g]
  BY <1>1, <1>9
<1> QED
  BY <1>1, <1>4, <1>10, <1>11, <1>12, <1>13, OnOne

\* f_truncate has freed what it cut,
LEMMA TruncatedFits ==
  ASSUME NEW w, Inv(w), Space, Truncated, Smoothly'
  PROVE  SpaceOk'
<1>0. call.op = "truncate" /\ call.pc = "got" /\ UNCHANGED <<fat, ents, crashes>> /\ Types
  BY DEF Truncated, hist, budget, Inv
<1>1. PICK f \in Files : f = call.f /\ fil[f].open /\ fil[f] \in Object
  BY <1>0, AtWork
<1>2. failed => failed'
  BY ResultKeeps DEF Truncated, Return
<1>3. call.r = 0 /\ Shortened(f, TRUE) /\ call' = Idle
  <2>1. call.r = 0
    BY DEF Truncated, Return, Result, Smoothly
  <2>2. (call.r = 0) = TRUE
    BY <2>1
  <2> QED
    BY <1>1, <2>1, <2>2 DEF Truncated, Return
<1>4. SpaceOk
  BY <1>0, <1>2, <1>3, Going
<1>5. EntryFits(f)
  BY <1>4, FitsOf
<1> DEFINE p == fil[f].pos
           s == IF fil[f].pos = 0 THEN 0 ELSE fil[f].sclust
           y == [fil[f] EXCEPT !.sclust = s, !.size = p, !.mod = TRUE]
<1>6. p \in Nat /\ s \in {0} \cup Clus /\ (p = 0 => s = 0) /\ s = StartNow(f)
  BY <1>0, <1>1 DEF Object, StartNow, Shrinking
<1>7. fil' = [fil EXCEPT ![f] = y]
  BY <1>3 DEF Shortened
<1> HIDE DEF p, s
<1>8. y \in Object /\ y.open /\ y.sclust = s /\ y.mod /\ y.size = p
  BY <1>1, <1>6 DEF Object
<1> HIDE DEF y
<1>9. fil'[f] = y /\ \A g \in Files : g # f => fil'[g] = fil[g]
  BY <1>0, <1>7, <1>8, FilTo
<1>10. StepFits' /\ OnlyOn(f)' /\ OnlyOn(f) /\ f \notin Shrinking'
  BY <1>1, <1>3, PartsAt DEF StepFits, OnlyOn, Shrinking
<1>11. ObjectFits(f)' /\ EntryFits(f)'
  BY <1>0, <1>5, <1>6, <1>8, <1>9 DEF ObjectFits, EntryFits
<1>12. RootOf(f) = s /\ RootOf(f)' = s
  BY <1>1, <1>6, <1>8, <1>9, <1>10 DEF RootOf, StartNow
<1>13. \A c : ~InHand(c)
  BY <1>0 DEF InHand
<1>14. \A g \in Files : g # f => fil'[g] = fil[g] /\ ents'[g] = ents[g]
  BY <1>0, <1>9
<1> QED
  BY <1>0, <1>4, <1>10, <1>11, <1>12, <1>13, <1>14, OnOne

\* f_sync and f_close have written their entry,
LEMMA SyncEndFits ==
  ASSUME NEW w, Inv(w), Space, SyncEnd, Smoothly'
  PROVE  SpaceOk'
<1>0. call.op \in {"sync", "close"} /\ call.pc = "sync" /\ UNCHANGED <<fat, ents, crashes>> /\ Types
  BY DEF SyncEnd, budget, Inv
<1>1. PICK f \in Files : f = call.f /\ fil[f].open /\ fil[f] \in Object
  BY <1>0, AtWork
<1>2. failed => failed'
  BY ResultKeeps DEF SyncEnd, Return
<1> DEFINE x == [fil[f] EXCEPT !.mod = FALSE]
<1>3. CloseIf(call.op, f, x) /\ call' = Idle
  <2>1. PICK ok \in BOOLEAN : Return(ok) /\ IF ok THEN CloseIf(call.op, f, x) ELSE fil' = [fil EXCEPT ![f] = x]
    BY <1>1 DEF SyncEnd
  <2>2. ok
    BY <2>1 DEF Return, Result, Smoothly
  <2> QED
    BY <2>1, <2>2 DEF Return
<1>4. SpaceOk
  BY <1>0, <1>2, Going
<1>5. EntryFits(f) /\ ObjectFits(f)
  BY <1>4, FitsOf
<1>6. ents[f].start = fil[f].sclust /\ RootOf(f) = fil[f].sclust /\ (fil[f].size = 0 => fil[f].sclust = 0)
  <2>1. Syncing(w, f)
    BY <1>0, <1>1 DEF Inv, CallOk, Idle, Growing, Removing, Expanding, Registering, Ending
  <2> DEFINE s == fil[f].sclust
             n == fil[f].size
  <2>2. s \in {0} \cup Clus /\ n \in Nat
    BY <1>0, ObjectIs
  <2>3. ents[f] = FileEntry(s, n)
    BY <2>1 DEF Syncing
  <2>4. ents[f].start = s
    <3> HIDE DEF s, n
    <3> QED
      BY <2>2, <2>3, EntriesAre
  <2> QED
    BY <1>0, <1>1, <1>5, <2>4 DEF RootOf, StartNow, Shrinking, ObjectFits, Seeking
<1>7. x \in Object /\ x.open /\ x.sclust = fil[f].sclust /\ x.size = fil[f].size
  BY <1>1, Unmodified
<1>8. PICK y \in {x, Closed} : fil' = [fil EXCEPT ![f] = y]
  BY <1>3 DEF CloseIf
<1>9. y \in Object /\ (y.open => y.sclust = fil[f].sclust /\ y.size = fil[f].size)
  BY <1>7, ClosedIs
<1> HIDE DEF x
<1>10. fil'[f] = y /\ \A g \in Files : g # f => fil'[g] = fil[g]
  BY <1>0, <1>8, <1>9, FilTo
<1>11. StepFits' /\ OnlyOn(f)' /\ OnlyOn(f) /\ f \notin Shrinking'
  BY <1>1, <1>3, PartsAt DEF StepFits, OnlyOn, Shrinking
<1>12. ObjectFits(f)' /\ EntryFits(f)' /\ RootOf(f)' = fil[f].sclust
  BY <1>0, <1>5, <1>6, <1>9, <1>10, <1>11 DEF ObjectFits, EntryFits, RootOf, StartNow
<1>13. \A c : ~InHand(c)
  BY <1>0 DEF InHand
<1> QED
  BY <1>0, <1>4, <1>6, <1>10, <1>11, <1>12, <1>13, OnOne

\* f_unlink has freed the chain,
LEMMA UnlinkedFits ==
  ASSUME NEW w, Inv(w), Space, Unlinked, Smoothly'
  PROVE  SpaceOk'
<1>0. call.op = "unlink" /\ call.pc = "got" /\ UNCHANGED <<fat, ents, fil, crashes>> /\ Types
  BY DEF Unlinked, hist, budget, Inv
<1>1. PICK f \in Files : f = call.f
  BY <1>0 DEF Inv, CallOk, Idle
<1>2. failed => failed'
  BY ResultKeeps DEF Unlinked, Return, Goto
<1>3. call.r = 0 /\ call' = [call EXCEPT !.pc = "sync"]
  BY DEF Unlinked, Goto, Return, Result, Smoothly
<1>4. SpaceOk
  BY <1>0, <1>2, <1>3, Going
<1>5. call'.op = "unlink" /\ call'.f = f /\ call'.pc = "sync"
  BY <1>0, <1>1, <1>3, PartsTo
<1>6. OnlyOn(f) /\ StepFits' /\ f \notin Shrinking /\ f \notin Shrinking' /\ \A c : ~InHand(c)
  BY <1>0, <1>1, <1>5 DEF OnlyOn, StepFits, Shrinking, InHand
<1> QED
  BY <1>0, <1>4, <1>5, <1>6, NothingMoved

\* f_unlink and f_mkdir are done,
LEMMA EntrySyncFits ==
  ASSUME NEW w, Inv(w), Space, EntrySync, Smoothly'
  PROVE  SpaceOk'
<1>0. call.op \in {"unlink", "mkdir"} /\ call.pc = "sync" /\ UNCHANGED <<fat, ents, fil, crashes>> /\ Types
  BY DEF EntrySync, hist, budget, Inv
<1>1. PICK f \in Files : f = call.f
  BY <1>0 DEF Inv, CallOk, Idle
<1>2. (failed => failed') /\ call' = Idle
  BY ResultKeeps DEF EntrySync, Return
<1>4. SpaceOk
  BY <1>0, <1>2, Going
<1>5. call'.op = "none" /\ call'.pc = "idle"
  BY <1>2, PartsAt
<1>6. OnlyOn(f) /\ StepFits' /\ f \notin Shrinking /\ f \notin Shrinking' /\ \A c : ~InHand(c)
  BY <1>0, <1>1, <1>5 DEF OnlyOn, StepFits, Shrinking, InHand
<1> QED
  BY <1>0, <1>4, <1>5, <1>6, NothingMoved

\* f_mkdir has its cluster, or there is none,
LEMMA MkdirGotFits ==
  ASSUME NEW w, Inv(w), Space, MkdirGot, Smoothly'
  PROVE  SpaceOk'
<1>0. call.op = "mkdir" /\ call.pc = "got" /\ UNCHANGED <<fat, ents, fil, crashes>> /\ Types
  BY DEF MkdirGot, hist, budget, Inv
<1>1. PICK f \in Files : f = call.f
  BY <1>0 DEF Inv, CallOk, Idle
<1>2. failed => failed'
  BY ResultKeeps DEF MkdirGot, Return, Goto
<1>3. Growing(w, f) /\ call.a = 0
  BY <1>0, <1>1 DEF Inv, CallOk, Idle, Growing, Removing, Expanding, Registering, Syncing, Ending
<1>4. \/ call.r \notin Clus /\ call.r = Full /\ call' = Idle
      \/ call.r \in Clus /\ call' = [call EXCEPT !.pc = "register", !.b = call.r]
  <2>1. CASE call.r \notin Clus
    BY <2>1 DEF MkdirGot, Return, Result, Smoothly
  <2>2. CASE call.r \in Clus
    <3>1. \/ call' = [call EXCEPT !.pc = "register", !.b = call.r]
          \/ call' = [call EXCEPT !.op = "undo", !.pc = "free", !.b = call.r]
      BY <2>2 DEF MkdirGot, Goto
    <3>2. [call EXCEPT !.op = "undo", !.pc = "free", !.b = call.r].op = "undo"
      BY <1>0, PartsTo
    <3>3. call'.op # "undo"
      BY DEF Smoothly
    <3> QED
      BY <2>2, <3>1, <3>2, <3>3
  <2> QED
    BY <2>1, <2>2
<1>5. SpaceOk
  BY <1>0, <1>2, <1>4, Going DEF Full
<1>6. EntryFits(f) /\ ObjectFits(f) /\ ents[f].start = 0
  BY <1>0, <1>1, <1>5, FitsOf DEF StepFits
<1>7. \A g \in Files : g # f => fil'[g] = fil[g] /\ ents'[g] = ents[g]
  BY <1>0
<1>8. OnlyOn(f) /\ OnlyOn(f)' /\ StepFits' /\ call'.op \in {"none", "mkdir"} /\ (call.r \in Clus => call'.pc = "register" /\ call'.b = call.r)
  <2>1. CASE call.r \notin Clus
    BY <1>1, <1>4, <2>1, PartsAt DEF OnlyOn, StepFits
  <2>2. CASE call.r \in Clus
    <3> DEFINE b == call.r
    <3>0. call' = [call EXCEPT !.pc = "register", !.b = b]
      BY <1>4, <2>2
    <3> HIDE DEF b
    <3>2. call'.op = call.op /\ call'.f = call.f /\ call'.pc = "register" /\ call'.b = b
      BY <1>0, <3>0, PartsTo
    <3>1. call'.op = "mkdir" /\ call'.f = f /\ call'.pc = "register" /\ call'.b = call.r
      BY <1>0, <1>1, <3>2 DEF b
    <3> QED
      BY <1>0, <1>1, <1>6, <3>1 DEF OnlyOn, StepFits
  <2> QED
    BY <2>1, <2>2
<1>9. EntryFits(f)' /\ ObjectFits(f)' /\ RootOf(f)' = RootOf(f)
  BY <1>0, <1>6, <1>8 DEF EntryFits, ObjectFits, RootOf, StartNow, Shrinking, Seeking
<1>10. \A c \in Clus : InHand(c) => InHand(c)'
  BY <1>0, <1>8 DEF InHand
<1> QED
  BY <1>0, <1>5, <1>7, <1>8, <1>9, <1>10, OnOne

\* which its entry now starts with,
LEMMA MkdirRegisterFits ==
  ASSUME NEW w, Inv(w), Space, MkdirRegister, Smoothly'
  PROVE  SpaceOk'
<1>0. call.op = "mkdir" /\ call.pc = "register" /\ UNCHANGED <<fat, fil, crashes>> /\ Types
  BY DEF MkdirRegister, hist, budget, Inv
<1>1. PICK f \in Files : f = call.f
  BY <1>0 DEF Inv, CallOk, Idle
<1>2. failed => failed'
  BY DEF MkdirRegister, Goto
<1>3. ~fil[f].open /\ call.b \in Clus
  BY <1>0, <1>1 DEF Inv, CallOk, Idle, Growing, Removing, Expanding, Registering, Syncing, Ending, Only
<1> DEFINE b == call.b
           e == DirEntry(b)
<1>4. ents' = [ents EXCEPT ![f] = e] /\ call' = [call EXCEPT !.pc = "sync"]
  <2>1. \/ ents' = [ents EXCEPT ![f] = e] /\ call' = [call EXCEPT !.pc = "sync"]
        \/ call' = [call EXCEPT !.op = "undo", !.pc = "free"]
    BY <1>1 DEF MkdirRegister, Goto
  <2>2. [call EXCEPT !.op = "undo", !.pc = "free"].op = "undo"
    BY <1>0, PartsTo
  <2>3. call'.op # "undo"
    BY DEF Smoothly
  <2> QED
    BY <2>1, <2>2, <2>3
<1>5. SpaceOk
  BY <1>0, <1>2, Going
<1>6. ents[f].start = 0
  BY <1>0, <1>1, <1>5, FitsOf DEF StepFits
<1>7. e \in Entry /\ e.start = b /\ e.used /\ e.dir
  <2>1. e.used /\ e.dir
    BY DEF DirEntry
  <2>2. b \in {0} \cup Clus
    BY <1>3
  <2> HIDE DEF b
  <2>3. 0 \in Nat
    OBVIOUS
  <2> QED
    BY <2>1, <2>2, <2>3, EntriesAre
<1> HIDE DEF e, b
<1>8. ents'[f] = e /\ \A g \in Files : g # f => ents'[g] = ents[g]
  BY <1>0, <1>4, <1>7, EntsTo
<1>9. call'.op = "mkdir" /\ call'.f = f /\ call'.pc = "sync"
  BY <1>0, <1>1, <1>4, PartsTo
<1>10. OnlyOn(f) /\ OnlyOn(f)' /\ StepFits'
  BY <1>1, <1>9 DEF OnlyOn, StepFits
<1>11. EntryFits(f)' /\ ObjectFits(f)' /\ RootOf(f)' = b
  BY <1>0, <1>3, <1>7, <1>8 DEF EntryFits, ObjectFits, RootOf
<1>12. RootOf(f) = 0
  BY <1>3, <1>6 DEF RootOf
<1>13. \A c \in Clus : RootOf(f) = c \/ InHand(c) => c = b
  BY <1>0, <1>12, Numbers DEF InHand, b
<1>14. \A g \in Files : g # f => fil'[g] = fil[g]
  BY <1>0
<1> QED
  BY <1>0, <1>5, <1>8, <1>10, <1>11, <1>13, <1>14, OnOne

\* f_write has its cluster: the first one starts the file.
LEMMA WriteGotFits ==
  ASSUME NEW w, Inv(w), Space, WriteGot, Smoothly'
  PROVE  SpaceOk'
<1>0. call.op = "write" /\ call.pc = "got" /\ UNCHANGED <<fat, ents, crashes>> /\ Types
  BY DEF WriteGot, hist, budget, Inv
<1>1. PICK f \in Files : f = call.f /\ fil[f].open /\ fil[f] \in Object
  BY <1>0, AtWork
<1> DEFINE r == call.r
           y == fil[f]
           x == Advance(Enter(y, r))
<1>2. failed => failed'
  BY ResultKeeps DEF WriteGot, Abort, Return, Goto
<1>3. ~Return(FALSE)
  BY DEF Return, Result, Smoothly
<1>4. \/ r = Full /\ fil' = [fil EXCEPT ![f] = [y EXCEPT !.mod = TRUE]] /\ call' = Idle
      \/ r \in Clus /\ fil' = [fil EXCEPT ![f] = [x EXCEPT !.mod = TRUE]] /\ call' = Idle
      \/ r \in Clus /\ fil' = [fil EXCEPT ![f] = x] /\ \E m : call' = [WriteFrom(f, x) EXCEPT !.n = m]
  <2>1. \/ r = Full /\ fil' = [fil EXCEPT ![f] = [y EXCEPT !.mod = TRUE]] /\ Return(TRUE)
        \/ r \in Clus /\ fil' = [fil EXCEPT ![f] = [x EXCEPT !.mod = TRUE]] /\ Return(TRUE)
        \/ r \in Clus /\ fil' = [fil EXCEPT ![f] = x] /\ Goto([WriteFrom(f, x) EXCEPT !.n = call.n - 1])
    BY <1>1, <1>3 DEF WriteGot, Abort
  <2> HIDE DEF x, r, y
  <2> QED
    BY <2>1 DEF Return, Goto
<1>5. SpaceOk
  BY <1>0, <1>2, <1>4, Going DEF Full
<1>6. /\ EntryFits(f) /\ (y.size = 0 => y.sclust = 0) /\ OnlyOn(f) /\ f \notin Shrinking /\ RootOf(f) = y.sclust
      /\ \A c \in Clus : InHand(c) => y.sclust = 0 /\ c = r
  BY <1>0, <1>1, <1>5, FitsOf DEF ObjectFits, Seeking, OnlyOn, Shrinking, RootOf, StartNow, InHand, Fresh
<1>7. SUFFICES ASSUME NEW z \in Object, fil' = [fil EXCEPT ![f] = z], z.open,
                      z.sclust = y.sclust \/ (y.sclust = 0 /\ z.sclust = r), z.size = 0 => z.sclust = 0,
                      r \in Clus => z.sclust # 0,
                      (call'.op = "none" /\ z.mod) \/ (call'.op = "write" /\ call'.f = f), call'.pc \in {"idle", "chain", "got"}
               PROVE  SpaceOk'
  <2>1. /\ LET z == [y EXCEPT !.mod = TRUE]
           IN  z \in Object /\ z.open = y.open /\ z.sclust = y.sclust /\ z.size = y.size /\ z.mod
    BY <1>1, MarkIs
  <2>2. CASE r = Full /\ fil' = [fil EXCEPT ![f] = [y EXCEPT !.mod = TRUE]] /\ call' = Idle
    <3> DEFINE z == [y EXCEPT !.mod = TRUE]
    <3>1. z \in Object /\ z.open /\ z.sclust = y.sclust /\ z.size = y.size /\ z.mod
      BY <1>1, <2>1
    <3>2. fil' = [fil EXCEPT ![f] = z] /\ call'.op = "none" /\ call'.pc = "idle" /\ r \notin Clus
      BY <2>2, PartsAt, Numbers DEF Full
    <3> HIDE DEF z, y, r
    <3> QED
      BY <1>6, <1>7, <3>1, <3>2
  <2>3. ASSUME r \in Clus
        PROVE  /\ x \in Object /\ x.open /\ x.size # 0 /\ x.sclust = IF y.sclust = 0 THEN r ELSE y.sclust
    <3> DEFINE u == Enter(y, r)
    <3>1. u \in Object /\ u.open /\ u.sclust = IF y.sclust = 0 THEN r ELSE y.sclust
      BY <1>1, <2>3, EnterIs
    <3>2. u.pos \in Nat /\ u.size \in Nat
      BY <3>1 DEF Object
    <3> HIDE DEF u, y, r
    <3>3. /\ Advance(u) \in Object /\ Advance(u).open /\ Advance(u).sclust = u.sclust
          /\ Advance(u).size = IF u.pos + 1 > u.size THEN u.pos + 1 ELSE u.size
      BY <3>1, AdvanceIs
    <3>4. Advance(u).size # 0
      BY <3>2, <3>3
    <3> QED
      BY <3>1, <3>3, <3>4 DEF u
  <2>4. CASE r \in Clus /\ fil' = [fil EXCEPT ![f] = [x EXCEPT !.mod = TRUE]] /\ call' = Idle
    <3> DEFINE z == [x EXCEPT !.mod = TRUE]
    <3>1. x \in Object /\ x.open /\ x.size # 0 /\ x.sclust = IF y.sclust = 0 THEN r ELSE y.sclust
      BY <2>3, <2>4
    <3>2. fil' = [fil EXCEPT ![f] = z] /\ call'.op = "none" /\ call'.pc = "idle"
      BY <2>4, PartsAt
    <3> HIDE DEF y, r, x
    <3>3. z \in Object /\ z.open = x.open /\ z.sclust = x.sclust /\ z.size = x.size /\ z.mod
      BY <3>1, MarkIs
    <3>4. r \in Clus /\ 0 \notin Clus
      BY <2>4, Numbers
    <3> HIDE DEF z
    <3> QED
      BY <1>7, <3>1, <3>2, <3>3, <3>4
  <2>5. CASE r \in Clus /\ fil' = [fil EXCEPT ![f] = x] /\ \E m : call' = [WriteFrom(f, x) EXCEPT !.n = m]
    <3>1. x \in Object /\ x.open /\ x.size # 0 /\ x.sclust = IF y.sclust = 0 THEN r ELSE y.sclust
      BY <2>3, <2>5
    <3>2. call'.op = "write" /\ call'.f = f /\ call'.pc \in {"chain", "got"}
      <4> HIDE DEF x
      <4> QED
        BY <2>5, WritePart
    <3>4. r \in Clus /\ 0 \notin Clus /\ fil' = [fil EXCEPT ![f] = x]
      BY <2>5, Numbers
    <3> HIDE DEF y, r, x
    <3> QED
      BY <1>7, <3>1, <3>2, <3>4
  <2> QED
    BY <1>4, <2>2, <2>4, <2>5
<1> HIDE DEF x
<1>8. fil'[f] = z /\ \A g \in Files : g # f => fil'[g] = fil[g] /\ ents'[g] = ents[g]
  BY <1>0, <1>7, FilTo
<1>9. StepFits' /\ OnlyOn(f)' /\ f \notin Shrinking'
  BY <1>7 DEF StepFits, OnlyOn, Shrinking
<1>10. EntryFits(f)' /\ ObjectFits(f)' /\ RootOf(f)' = z.sclust
  <2>1. EntryFits(f)'
    BY <1>0, <1>6 DEF EntryFits
  <2>2. ObjectFits(f)'
    BY <1>7, <1>8 DEF ObjectFits
  <2>3. RootOf(f)' = z.sclust
    BY <1>7, <1>8, <1>9 DEF RootOf, StartNow
  <2> QED
    BY <2>1, <2>2, <2>3
<1>11. ASSUME NEW c \in Clus, RootOf(f) = c \/ InHand(c) PROVE RootOf(f)' = c
  <2>1. c # 0
    BY Numbers
  <2> QED
    BY <1>6, <1>7, <1>10, <1>11, <2>1
<1> QED
  BY <1>0, <1>5, <1>6, <1>8, <1>9, <1>10, <1>11, OnOne

\* Where f_lseek arrives the object has a size, and FA_MODIFIED if it is new.
LEMMA ArrivedIs ==
  ASSUME NEW x \in Object
  PROVE  LET y == Arrive(x, x.pos + 1)
         IN  /\ y \in Object /\ y.open = x.open /\ y.sclust = x.sclust /\ y.size # 0
             /\ ~y.mod => ~x.mod /\ x.size # 0
<1> DEFINE n == x.pos + 1
<1>1. n \in Nat /\ n # 0 /\ x.size \in Nat
  BY DEF Object
<1> HIDE DEF n
<1> DEFINE y == Arrive(x, n)
<1>2. /\ y \in Object /\ y.open = x.open /\ y.sclust = x.sclust
      /\ y.size = (IF n > x.size THEN n ELSE x.size) /\ (x.mod => y.mod)
  BY <1>1, ArriveIs
<1>3. n > x.size => y.mod
  <2>1. SUFFICES ASSUME n > x.size PROVE y.mod
    OBVIOUS
  <2>2. y = [x EXCEPT !.pos = n, !.size = n, !.mod = TRUE]
    BY <2>1 DEF Arrive
  <2> HIDE DEF y
  <2> QED
    BY <2>2 DEF Object
<1> HIDE DEF y
<1>4. y.size # 0 /\ (~y.mod => ~x.mod /\ x.size # 0)
  BY <1>1, <1>2, <1>3
<1> QED
  BY <1>2, <1>4 DEF y, n

\* f_lseek has its cluster: the first one starts the file.
LEMMA SeekGotFits ==
  ASSUME NEW w, Inv(w), Space, SeekGot, Smoothly'
  PROVE  SpaceOk'
<1>0. call.op = "lseek" /\ call.pc = "got" /\ UNCHANGED <<fat, ents, crashes>> /\ Types
  BY DEF SeekGot, hist, budget, Inv
<1>1. PICK f \in Files : f = call.f /\ fil[f].open /\ fil[f] \in Object
  BY <1>0, AtWork
<1> DEFINE r == call.r
           a == call.a
           y == fil[f]
           x == Sought(y, r, a)
           n == ToGo
<1>2. failed => failed'
  BY ResultKeeps DEF SeekGot, Abort, Return, Goto
<1>3. ~Return(FALSE)
  BY DEF Return, Result, Smoothly
<1>4. \/ r = Full /\ a = 0 /\ fil' = [fil EXCEPT ![f] = x] /\ call' = Idle
      \/ r = Full /\ a # 0 /\ fil' = [fil EXCEPT ![f] = Arrive(y, y.pos + 1)] /\ call' = Idle
      \/ r \in Clus /\ n = 1 /\ SeekOn(f, x, n) /\ call' = Idle
      \/ r \in Clus /\ n # 1 /\ SeekOn(f, x, n) /\ call' = [call EXCEPT !.pc = "chain", !.a = r, !.n = n]
  <2>1. \/ r = Full /\ Return(TRUE) /\ fil' = [fil EXCEPT ![f] = IF a = 0 THEN x ELSE Arrive(y, y.pos + 1)]
        \/ r \in Clus /\ SeekOn(f, x, n)
           /\ IF n = 1 THEN Return(TRUE) ELSE Goto([call EXCEPT !.pc = "chain", !.a = r, !.n = n])
    BY <1>1, <1>3 DEF SeekGot, Abort, Sought, ToGo
  <2> HIDE DEF x, n, r, y, a
  <2> QED
    BY <2>1 DEF Return, Goto
<1>5. SpaceOk
  BY <1>0, <1>2, <1>4, Going DEF Full
<1>6. EntryFits(f) /\ ObjectFits(f) /\ OnlyOn(f) /\ f \notin Shrinking /\ RootOf(f) = y.sclust
  BY <1>0, <1>1, <1>5, FitsOf DEF OnlyOn, Shrinking, RootOf, StartNow
<1>7. Growing(w, f) /\ FileOk(w, f)
  BY <1>0, <1>1 DEF Inv, CallOk, Idle, Growing, Removing, Expanding, Registering, Syncing, Ending
<1>8. a = 0 => y.sclust = 0 /\ y.size = 0
  <2>1. SUFFICES ASSUME a = 0 PROVE y.sclust = 0 /\ y.size = 0
    OBVIOUS
  <2>2. y.sclust = 0
    BY <1>0, <1>7, <2>1 DEF Growing
  <2>3. Leads(w, Now(f), y.sclust, y.size, snap[f])
    BY <1>1, <1>6, <1>7 DEF FileOk, ObjectOk, StartNow, SizeNow
  <2> QED
    BY <2>2, <2>3, Numbers DEF Leads
<1>9. \A c \in Clus : InHand(c) => a = 0 /\ c = r
  BY <1>0 DEF InHand, Fresh
<1>10. /\ y.open /\ (~y.mod => y.sclust = ents[f].start \/ (y.size = 0 /\ y.sclust # 0))
       /\ a # 0 => y.sclust # 0
  BY <1>0, <1>1, <1>6, <1>7 DEF ObjectFits, Growing
<1>11. SUFFICES ASSUME NEW z \in Object, fil' = [fil EXCEPT ![f] = z], z.open,
                       \/ z.sclust = y.sclust /\ ~(a = 0 /\ r \in Clus)
                       \/ z.sclust = r /\ a = 0,
                       \/ /\ call'.op = "none"
                          /\ (z.size = 0 => z.sclust = 0) /\ (~z.mod => z.sclust = ents[f].start)
                       \/ /\ call'.op = "lseek" /\ call'.f = f
                          /\ z.size = y.size /\ z.mod = y.mod /\ z.sclust # 0,
                       call'.pc \in {"idle", "chain"}
                PROVE  SpaceOk'
  <2>1. r \in Clus => /\ x \in Object /\ x.open = y.open /\ x.mod = y.mod /\ x.size = y.size /\ x.clust = r
                      /\ x.sclust = (IF a = 0 THEN r ELSE y.sclust)
    <3>1. y \in Object /\ x = Sought(y, r, a)
      BY <1>1
    <3> HIDE DEF y, r, a, x
    <3> QED
      BY <3>1, SoughtIs
  <2>2. CASE r = Full /\ a = 0 /\ fil' = [fil EXCEPT ![f] = x] /\ call' = Idle
    <3> DEFINE s == r
               z == [y EXCEPT !.sclust = s, !.clust = s]
    <3>1. x = z /\ s \in {0} \cup Clus /\ s = 0
      BY <2>2 DEF Sought, Full
    <3> HIDE DEF s, x
    <3>2. z \in Object /\ z.open = y.open /\ z.sclust = s /\ z.size = y.size /\ z.mod = y.mod
      BY <1>1, <3>1 DEF Object
    <3>3. fil' = [fil EXCEPT ![f] = z] /\ call'.op = "none" /\ call'.pc = "idle" /\ s = r
      BY <2>2, <3>1, PartsAt DEF s
    <3> HIDE DEF z, y, r, a
    <3> QED
      BY <1>8, <1>10, <1>11, <2>2, <3>1, <3>2, <3>3
  <2>3. CASE r = Full /\ a # 0 /\ fil' = [fil EXCEPT ![f] = Arrive(y, y.pos + 1)] /\ call' = Idle
    <3> DEFINE z == Arrive(y, y.pos + 1)
    <3>1. z \in Object /\ z.open = y.open /\ z.sclust = y.sclust /\ z.size # 0 /\ (~z.mod => ~y.mod /\ y.size # 0)
      BY <1>1, ArrivedIs
    <3>2. fil' = [fil EXCEPT ![f] = z] /\ call'.op = "none" /\ call'.pc = "idle"
      BY <2>3, PartsAt
    <3> HIDE DEF z, y, r, a
    <3> QED
      BY <1>8, <1>10, <1>11, <2>3, <3>1, <3>2
  <2>4. CASE r \in Clus /\ n = 1 /\ SeekOn(f, x, n) /\ call' = Idle
    <3> DEFINE z == Arrive(x, x.pos + 1)
    <3>1. x.clust # 0 /\ r # 0
      BY <2>1, <2>4, Numbers
    <3>2. z \in Object /\ z.open = x.open /\ z.sclust = x.sclust /\ z.size # 0 /\ (~z.mod => ~x.mod /\ x.size # 0)
      <4> HIDE DEF x
      <4> QED
        BY <2>1, <2>4, ArrivedIs
    <3>3. fil' = [fil EXCEPT ![f] = z] /\ call'.op = "none" /\ call'.pc = "idle"
      BY <2>4, <3>1, PartsAt DEF SeekOn
    <3> HIDE DEF z, x, y, r, a
    <3> QED
      BY <1>8, <1>10, <1>11, <2>1, <2>4, <3>2, <3>3
  <2>5. CASE r \in Clus /\ n # 1 /\ SeekOn(f, x, n) /\ call' = [call EXCEPT !.pc = "chain", !.a = r, !.n = n]
    <3>1. r # 0 /\ fil' = [fil EXCEPT ![f] = x]
      BY <2>5, Numbers DEF SeekOn
    <3>2. call'.op = "lseek" /\ call'.f = f /\ call'.pc = "chain"
      <4> HIDE DEF r, n, a
      <4> QED
        BY <1>0, <1>1, <2>5, PartsTo
    <3> HIDE DEF x, y, r, a
    <3> QED
      BY <1>10, <1>11, <2>1, <2>5, <3>1, <3>2
  <2> QED
    BY <1>4, <2>2, <2>3, <2>4, <2>5
<1>12. fil'[f] = z /\ \A g \in Files : g # f => fil'[g] = fil[g] /\ ents'[g] = ents[g]
  BY <1>0, <1>11, FilTo
<1>13. StepFits' /\ OnlyOn(f)' /\ f \notin Shrinking'
  BY <1>11 DEF StepFits, OnlyOn, Shrinking
<1>14. EntryFits(f)'
  BY <1>0, <1>6 DEF EntryFits
<1>15. ObjectFits(f)'
  <2> HIDE DEF r, a, x, n
  <2>1. CASE call'.op = "none"
    BY <1>0, <1>11, <1>12, <2>1 DEF ObjectFits
  <2>2. CASE call'.op = "lseek" /\ call'.f = f
    <3>1. Seeking(f)'
      BY <2>2 DEF Seeking
    <3>2. z.size = y.size /\ z.mod = y.mod /\ z.sclust # 0
      BY <1>11, <2>2
    <3>3. ~z.mod => z.sclust = ents[f].start \/ z.size = 0
      BY <1>8, <1>10, <1>11, <3>2
    <3> QED
      BY <1>0, <1>12, <3>1, <3>2, <3>3 DEF ObjectFits
  <2> QED
    BY <1>11, <2>1, <2>2
<1>16. RootOf(f)' = z.sclust
  BY <1>11, <1>12, <1>13 DEF RootOf, StartNow
<1>17. ASSUME NEW c \in Clus, RootOf(f) = c \/ InHand(c) PROVE RootOf(f)' = c
  <2>1. c # 0
    BY Numbers
  <2> QED
    BY <1>6, <1>8, <1>9, <1>11, <1>16, <1>17, <2>1
<1> QED
  BY <1>0, <1>5, <1>6, <1>12, <1>13, <1>14, <1>15, <1>17, OnOne

-----------------------------------------------------------------------------
(* The FAT changes.                                                        *)

\* A result that is no error.
LEMMA NoError ==
  ASSUME Types, NEW r \in Int, Back(r), Smoothly'
  PROVE  r \in {0} \cup Clus /\ call'.op = call.op /\ call'.f = call.f /\ call'.pc = "got" /\ call'.a = call.a /\ call'.r = r
BY BackTypes DEF Smoothly

\* A call that goes on smoothly does not come back with a disk error.
LEMMA NoDiskErr ==
  ASSUME Types, Smoothly'
  PROVE  ~Back(DiskErr)
BY NoError, DiskErrIs DEF Full

\* create_chain looks for a cluster,
LEMMA ChainFindFits ==
  ASSUME NEW w, Inv(w), Space, ChainFind, Smoothly'
  PROVE  SpaceOk'
<1>0. PICK f \in Files : f = call.f
  BY DEF ChainFind, Inv, CallOk, Idle
<1> DEFINE a == call.a
           next == IF a = 0 THEN EOC ELSE fat[a]
           s == SearchFrom(a)
           i == FreeAt(s)
           c == After(s, i)
<1>1. /\ Types /\ Growing(w, f) /\ call.pc = "chain" /\ a \in {0} \cup Clus /\ UNCHANGED <<ents, fil, crashes>>
  BY <1>0, CallTypes DEF ChainFind, hist, budget, Inv, CallOk, Idle, Removing, Expanding, Registering, Syncing, Ending, Growing
<1>2. call.op \in {"write", "lseek", "mkdir"} /\ (a = 0 /\ call.op = "write" => fil[f].sclust = 0)
  BY <1>1 DEF Growing
<1>3. failed => failed'
  BY DEF ChainFind, Back, Goto
<1> DEFINE here == IF a = 0 THEN {} ELSE {FatSec[a]}
           Follows == /\ next < EOC
                      /\ \E o \in GetFat(a) :
                           /\ Moved(o, FALSE)
                           /\ Back(IF ~o.ok THEN DiskErr ELSE IF next < 2 THEN IntErr ELSE next)
                      /\ UNCHANGED <<fat, last, free>>
           Fills == /\ next >= EOC /\ i = 0
                    /\ \E o \in MoveWindow(here \cup Seen(s, NClust), FatSec[After(s, NClust)]) :
                         Moved(o, FALSE) /\ Back(IF o.ok THEN Full ELSE DiskErr)
                    /\ UNCHANGED <<fat, last, free>>
           Takes == /\ next >= EOC /\ i # 0
                    /\ \E o \in MoveWindow(here \cup Seen(s, i), FatSec[c]) :
                         /\ Moved(o, o.ok)
                         /\ PutFat(o, c, EOC)
                         /\ \/ ~o.ok /\ Back(DiskErr) /\ UNCHANGED <<last, free>>
                            \/ o.ok /\ a = 0 /\ Back(c) /\ Taken(c)
                            \/ o.ok /\ a # 0 /\ Goto([call EXCEPT !.pc = "link", !.b = c])
                               /\ UNCHANGED <<last, free>>
<1>d. Follows \/ Fills \/ Takes
  BY DEF ChainFind
<1>4. SpaceOk
  BY <1>1, <1>2, <1>3, Going
<1>5. StepFits /\ OnlyOn(f) /\ f \notin Shrinking /\ \A d : ~InHand(d)
  BY <1>0, <1>1, <1>2, <1>4, FitsOf DEF OnlyOn, Shrinking, InHand
<1>6. ASSUME NEW r \in Int, Back(r), fat' = fat PROVE SpaceOk'
  <2>1. call'.op = call.op /\ call'.f = call.f /\ call'.pc = "got"
    BY <1>1, <1>6, BackTypes
  <2>2. StepFits' /\ f \notin Shrinking'
    BY <1>1, <1>2, <1>5, <2>1 DEF StepFits, Shrinking
  <2> QED
    BY <1>0, <1>1, <1>2, <1>4, <1>5, <1>6, <2>1, <2>2, NothingMoved
<1>7. CASE Takes
  <2>1. s \in Nat /\ 1 <= s /\ s < NFatEnt
    BY <1>1, SearchPlace
  <2>n. PICK k : k = c
    OBVIOUS
  <2>2. k \in Clus /\ fat[k] = 0
    BY <1>7, <2>n, <2>1, FreeSearch, AfterInside
  <2>3. PICK o : /\ PutFat(o, k, EOC)
                 /\ \/ ~o.ok /\ Back(DiskErr)
                    \/ o.ok /\ a = 0 /\ Back(k)
                    \/ o.ok /\ a # 0 /\ Goto([call EXCEPT !.pc = "link", !.b = k])
    BY <1>7, <2>n
  <2>m. next >= EOC
    BY <1>7
  <2> HIDE DEF i, c, s
  <2>4. o.ok
    BY <1>1, <2>3, NoDiskErr
  <2>5. fat'[k] = EOC /\ \A x \in Clus : x # k => fat'[x] = fat[x]
    BY <1>1, <2>2, <2>3, <2>4 DEF PutFat, Types
  <2>6. CASE a = 0 /\ Back(k)
    <3>1. k \in Int
      BY <2>2, Numbers
    <3>2. call'.op = call.op /\ call'.f = call.f /\ call'.pc = "got" /\ call'.a = call.a /\ call'.r = k
      BY <1>1, <2>6, <3>1, BackTypes
    <3>3. StepFits'
      BY <1>1, <1>2, <1>5, <3>2 DEF StepFits
    <3>4. InHand(k)'
      BY <1>0, <1>1, <1>2, <2>6, <3>2 DEF InHand, Fresh
    <3>5. ASSUME NEW d \in Clus, fat'[d] # 0, fat[d] = 0 \/ InHand(d) \/ fat[k] = d PROVE Rooted(d)'
      <4>1. d = k
        BY <1>5, <2>2, <2>5, <3>5, Numbers
      <4> QED
        BY <3>4, <4>1 DEF Rooted
    <3> QED
      BY <1>1, <1>4, <2>2, <2>5, <3>2, <3>3, <3>5, Numbers, OnEntry
  <2>7. CASE a # 0 /\ Goto([call EXCEPT !.pc = "link", !.b = k])
    <3>2. call'.op = call.op /\ call'.f = call.f /\ call'.pc = "link" /\ call'.a = a /\ call'.b = k
      BY <1>1, <2>2, <2>7, PartsTo DEF Goto
    <3>3. a \in Clus /\ a # k /\ fat[a] >= EOC
      BY <1>1, <2>m, <2>2, <2>7, Numbers
    <3>4. fat'[a] \notin Clus
      BY <2>5, <3>3, Numbers
    <3>5. StepFits'
      BY <1>1, <1>2, <1>5, <3>2, <3>4 DEF StepFits
    <3>6. InHand(k)'
      BY <3>2 DEF InHand
    <3>7. ASSUME NEW d \in Clus, fat'[d] # 0, fat[d] = 0 \/ InHand(d) \/ fat[k] = d PROVE Rooted(d)'
      <4>1. d = k
        BY <1>5, <2>2, <2>5, <3>7, Numbers
      <4> QED
        BY <3>6, <4>1 DEF Rooted
    <3> QED
      BY <1>1, <1>4, <2>2, <2>5, <3>2, <3>5, <3>7, Numbers, OnEntry
  <2> QED
    BY <2>3, <2>4, <2>6, <2>7
<1>8. CASE Follows
  <2>1. PICK o : Back(IF ~o.ok THEN DiskErr ELSE IF next < 2 THEN IntErr ELSE next) /\ fat' = fat
    BY <1>8
  <2> DEFINE r == IF ~o.ok THEN DiskErr ELSE IF next < 2 THEN IntErr ELSE next
  <2>2. next \in Int
    BY <1>1, Numbers DEF Types, Link
  <2>3. r \in Int /\ Back(r)
    BY <2>1, <2>2, DiskErrIs
  <2> HIDE DEF r
  <2> QED
    BY <1>6, <2>1, <2>3
<1>9. CASE Fills
  <2>1. PICK o : Back(IF o.ok THEN Full ELSE DiskErr) /\ fat' = fat
    BY <1>9
  <2> DEFINE r == IF o.ok THEN Full ELSE DiskErr
  <2>3. r \in Int /\ Back(r)
    BY <2>1, DiskErrIs
  <2> HIDE DEF r
  <2> QED
    BY <1>6, <2>1, <2>3
<1> QED
  BY <1>d, <1>7, <1>8, <1>9

\* and links it,
LEMMA ChainLinkFits ==
  ASSUME NEW w, Inv(w), Space, ChainLink, Smoothly'
  PROVE  SpaceOk'
<1>0. PICK f \in Files : f = call.f
  BY DEF ChainLink, Inv, CallOk, Idle
<1> DEFINE a == call.a
           b == call.b
<1>1. /\ Types /\ Good(fat, w) /\ Growing(w, f) /\ call.pc = "link" /\ a \in {0} \cup Clus /\ UNCHANGED <<ents, fil, crashes>>
  BY <1>0, CallTypes DEF ChainLink, hist, budget, Inv, Good, CallOk, Idle, Removing, Expanding, Registering, Syncing, Ending, Growing
<1>2. /\ a \in Clus /\ w.own[a] = Now(f) /\ b \in Clus /\ w.own[b] = Hand /\ w.len[Hand] = w.idx[b]
      /\ call.op \in {"write", "lseek", "mkdir"}
  BY <1>1 DEF Growing, Only
<1>3. failed => failed'
  BY DEF ChainLink, Back, Goto
<1>4. SpaceOk
  BY <1>1, <1>2, <1>3, Going
<1>5. StepFits
  BY <1>0, <1>4, FitsOf
<1>6. PICK o : PutFat(o, a, b) /\ ((o.ok /\ Back(b)) \/ Back(DiskErr))
  BY DEF ChainLink
<1>7. Back(b) /\ o.ok
  BY <1>1, <1>6, NoDiskErr
<1>8. fat'[a] = b /\ \A x \in Clus : x # a => fat'[x] = fat[x]
  BY <1>1, <1>2, <1>6, <1>7 DEF PutFat, Types
<1>9. call'.op = call.op /\ call'.f = call.f /\ call'.pc = "got" /\ call'.a = a
  <2>1. b \in Int
    BY <1>2, Numbers
  <2> QED
    BY <1>1, <1>7, <2>1, BackTypes
<1>10. fat[a] \notin Clus /\ fat[a] # 0 /\ a # b /\ fat[b] \notin Clus
  <2>1. Now(f) # Nobody /\ Hand # Nobody /\ Now(f) # Hand
    BY Tagging
  <2>2. fat[a] \notin Clus /\ fat[a] # 0 /\ a # b
    BY <1>1, <1>2, <1>5, <2>1, EndOfChain, Numbers DEF StepFits
  <2>3. w.idx[b] \in Nat
    BY <1>1, <1>2 DEF Good, Typed
  <2>4. fat[b] \in Clus => w.idx[b] < w.len[Hand]
    BY <1>1, <1>2, <2>1, EndOfChain
  <2> QED
    BY <1>2, <2>2, <2>3, <2>4
<1>11. StepFits'
  BY <1>1, <1>2, <1>5, <1>9 DEF StepFits
<1>12. ASSUME NEW d \in Clus, fat'[d] # 0, fat[d] = 0 \/ InHand(d) \/ fat[a] = d PROVE Rooted(d)'
  <2>1. d = b
    BY <1>1, <1>8, <1>10, <1>12 DEF InHand
  <2> QED
    BY <1>2, <1>8, <2>1 DEF Rooted
<1> QED
  BY <1>1, <1>2, <1>4, <1>8, <1>9, <1>10, <1>11, <1>12, OnEntry

\* f_truncate cuts a link,
LEMMA RemoveCutFits ==
  ASSUME NEW w, Inv(w), Space, RemoveCut, Smoothly'
  PROVE  SpaceOk'
<1>0. PICK f \in Files : f = call.f
  BY DEF RemoveCut, Inv, CallOk, Idle
<1>1. PICK a \in Clus : a = call.a
  <2>1. Types /\ Removing(w, f) /\ call.pc = "cut" /\ FileOk(w, f)
    BY <1>0 DEF RemoveCut, Inv, CallOk, Idle, Growing, Expanding, Registering, Syncing, Ending
  <2>2. call.op = "truncate" /\ fil[f].pos > 0 /\ call.a = fil[f].clust /\ fil[f].open
    BY <2>1 DEF Removing, Live
  <2>3. fil[f].clust \in Clus
    BY <2>1, <2>2 DEF FileOk, CursorOk, Seeking
  <2> QED
    BY <2>2, <2>3
<1>2. PICK b \in Clus : b = call.b
  BY <1>0 DEF RemoveCut, Inv, CallOk, Idle, Growing, Removing, Expanding, Registering, Syncing, Ending
<1>3. call.op = "truncate" /\ call.pc = "cut" /\ Types /\ UNCHANGED <<ents, fil, crashes>>
  BY <1>0 DEF RemoveCut, hist, budget, Inv, CallOk, Idle, Growing, Removing, Expanding, Registering, Syncing, Ending
<1>4. failed => failed'
  BY DEF RemoveCut, Back, Goto
<1>5. SpaceOk
  BY <1>3, <1>4, Going
<1>6. fat[a] = b
  BY <1>0, <1>1, <1>2, <1>3, <1>5, FitsOf DEF StepFits
<1>7. PICK o : PutFat(o, a, EOC) /\ (IF o.ok THEN Goto([call EXCEPT !.pc = "free"]) ELSE Back(DiskErr))
  BY <1>1 DEF RemoveCut
<1>8. o.ok
  BY <1>3, <1>7, NoDiskErr
<1>9. fat'[a] = EOC /\ \A x \in Clus : x # a => fat'[x] = fat[x]
  BY <1>3, <1>7, <1>8 DEF PutFat, Types
<1>10. call'.op = call.op /\ call'.f = call.f /\ call'.pc = "free" /\ call'.b = b
  <2>1. call' = [call EXCEPT !.pc = "free"]
    BY <1>7, <1>8 DEF Goto
  <2>2. call'.op = call.op /\ call'.f = call.f /\ call'.pc = "free" /\ call'.b = call.b
    BY <1>3, <2>1, PartsTo
  <2> QED
    BY <1>2, <2>2
<1>11. StepFits'
  BY <1>3, <1>10 DEF StepFits
<1>12. ASSUME NEW d \in Clus, fat'[d] # 0, fat[d] = 0 \/ InHand(d) \/ fat[a] = d PROVE Rooted(d)'
  <2>1. d = b
    BY <1>3, <1>6, <1>9, <1>12, Numbers DEF InHand
  <2>2. InHand(b)'
    BY <1>10 DEF InHand
  <2> QED
    BY <2>1, <2>2 DEF Rooted
<1> QED
  BY <1>3, <1>5, <1>9, <1>10, <1>11, <1>12, Numbers, OnEntry

\* a cluster is freed,
LEMMA RemoveOneFits ==
  ASSUME NEW w, Inv(w), Space, RemoveOne, Smoothly'
  PROVE  SpaceOk'
<1>0. PICK f \in Files : f = call.f
  BY DEF RemoveOne, Inv, CallOk, Idle
<1>1. PICK c \in Clus : c = call.b
  BY <1>0 DEF RemoveOne, Inv, CallOk, Idle, Growing, Removing, HandFrom, Expanding, Registering, Syncing, Ending
<1>2. /\ call.pc = "free" /\ call.op \in {"create", "unlink", "truncate", "undo"} /\ Types /\ UNCHANGED <<ents, fil, crashes>>
  BY <1>0 DEF RemoveOne, hist, budget, Inv, CallOk, Idle, Growing, Removing, Expanding, Registering, Syncing, Ending
<1>3. failed => failed'
  BY DEF RemoveOne, Back, Goto
<1>4. PICK o : /\ PutFat(o, c, 0)
               /\ IF ~o.ok THEN Back(DiskErr)
                  ELSE IF fat[c] \in Clus THEN Goto([call EXCEPT !.b = fat[c]])
                  ELSE Back(0)
  BY <1>1 DEF RemoveOne
<1>5. o.ok
  BY <1>2, <1>4, NoDiskErr
<1>6. fat'[c] = 0 /\ \A x \in Clus : x # c => fat'[x] = fat[x]
  BY <1>2, <1>4, <1>5 DEF PutFat, Types
<1>7. /\ call'.op = call.op /\ call'.f = call.f /\ call'.pc \in {"free", "got"}
      /\ fat[c] \in Clus => call'.pc = "free" /\ call'.b = fat[c]
  <2>1. CASE fat[c] \in Clus
    <3> DEFINE b == fat[c]
    <3>1. call' = [call EXCEPT !.b = b]
      BY <1>4, <1>5, <2>1 DEF Goto
    <3> HIDE DEF b
    <3>2. call'.op = call.op /\ call'.f = call.f /\ call'.pc = call.pc /\ call'.b = b
      BY <1>2, <3>1, PartsTo
    <3> QED
      BY <1>2, <3>2 DEF b
  <2>2. CASE fat[c] \notin Clus
    <3> DEFINE r == 0
    <3>1. r \in Int /\ Back(r)
      BY <1>4, <1>5, <2>2
    <3> HIDE DEF r
    <3> QED
      BY <1>2, <2>2, <3>1, BackTypes
  <2> QED
    BY <2>1, <2>2
<1>8. SpaceOk
  BY <1>2, <1>3, <1>7, Going DEF Smoothly
<1>9. StepFits
  BY <1>0, <1>8, FitsOf
<1>10. StepFits'
  BY <1>2, <1>7, <1>9 DEF StepFits
<1>11. ASSUME NEW d \in Clus, fat'[d] # 0, fat[d] = 0 \/ InHand(d) \/ fat[c] = d PROVE Rooted(d)'
  <2>1. fat[c] = d
    BY <1>1, <1>2, <1>6, <1>11 DEF InHand
  <2>2. InHand(d)'
    BY <1>7, <2>1 DEF InHand
  <2> QED
    BY <2>2 DEF Rooted
<1> QED
  BY <1>2, <1>6, <1>7, <1>8, <1>10, <1>11, Numbers, OnEntry

\* and f_expand links the next cluster of its row: the one before leads to it, or
\* it is the first.
LEMMA RowLeads ==
  ASSUME NEW w, NEW f \in Files, Expanding(w, f), NEW c \in Clus, c = call.b
  PROVE  call.a = c \/ \E e \in Clus : e # c /\ fat[e] = c
<1>1. call.a \in Clus /\ call.a <= c /\ \A x \in Clus : call.a <= x /\ x < c => fat[x] = x + 1
  BY DEF Expanding
<1>2. CASE call.a < c
  <2> DEFINE e == c - 1
  <2>1. e \in Clus /\ call.a <= e /\ e < c /\ e + 1 = c
    BY <1>1, <1>2, Numbers
  <2> HIDE DEF e
  <2>2. fat[e] = c
    BY <1>1, <2>1
  <2>3. e # c
    BY <2>1, Numbers
  <2> QED
    BY <2>1, <2>2, <2>3
<1> QED
  BY <1>1, <1>2, Numbers

\* Each round of f_expand leaves what is linked led to.
LEMMA ExpandFillFits ==
  ASSUME NEW w, Inv(w), Space, ExpandFill, Smoothly'
  PROVE  SpaceOk'
<1>0. PICK f \in Files : f = call.f
  BY DEF ExpandFill, Inv, CallOk, Idle
<1>1. /\ call.op = "expand" /\ call.pc = "fill" /\ Types /\ Expanding(w, f) /\ UNCHANGED <<ents, crashes>>
  BY <1>0 DEF ExpandFill, hist, budget, Inv, CallOk, Idle, Growing, Removing, Registering, Syncing, Ending
<1>2. failed => failed'
  BY ResultKeeps DEF ExpandFill, Return, Goto
<1>3. SpaceOk
  BY <1>1, <1>2, Going
<1>4. EntryFits(f) /\ ObjectFits(f) /\ StepFits /\ OnlyOn(f) /\ f \notin Shrinking
  BY <1>0, <1>1, <1>3, FitsOf DEF OnlyOn, Shrinking
<1>5. ~Return(FALSE)
  BY DEF Return, Result, Smoothly
<1>6. PICK c \in Clus : c = call.b
  BY <1>5 DEF ExpandFill
<1>7. PICK o \in GetFat(c) :
        /\ PutFat(o, c, IF call.n = 1 THEN EOC ELSE c + 1)
        /\ IF o.ok /\ call.n > 1
           THEN Goto([call EXCEPT !.b = c + 1, !.n = @ - 1]) /\ UNCHANGED fil
           ELSE /\ Return(o.ok)
                /\ fil' = IF o.ok
                          THEN [fil EXCEPT ![f] = [@ EXCEPT !.sclust = call.a,
                                  !.size = c - call.a + 1, !.mod = TRUE]]
                          ELSE fil
  BY <1>0, <1>6 DEF ExpandFill
<1>8. o.ok
  <2>1. o.ok \in BOOLEAN
    BY <1>1, EntryOkIs
  <2>2. ~o.ok => Return(o.ok) /\ o.ok = FALSE
    BY <1>7, <2>1
  <2> QED
    BY <1>5, <2>2
<1>9. call.a \in Clus /\ call.a <= c /\ call.n >= 1 /\ call.n \in Nat /\ fat[c] = 0 /\ fil[f].size = 0 /\ fil[f].open
  <2>1. call.n \in Nat
    BY <1>1, CallTypes
  <2>2. call.a \in Clus /\ call.a <= c /\ call.n >= 1 /\ fil[f].size = 0 /\ fil[f].open
    BY <1>1, <1>6 DEF Expanding, Live
  <2>3. c <= c /\ c < c + call.n
    BY <2>1, <2>2, Numbers
  <2> QED
    BY <1>1, <1>6, <2>1, <2>2, <2>3 DEF Expanding
<1>10. PICK a \in Clus : a = call.a
  BY <1>9
<1>11. a = c \/ \E e \in Clus : e # c /\ fat[e] = c
  BY <1>1, <1>6, <1>10, RowLeads
<1>12. CASE call.n > 1
  <2> DEFINE d == c + 1
             m == call.n - 1
  <2>1. fat' = [fat EXCEPT ![c] = d] /\ call' = [call EXCEPT !.b = d, !.n = m] /\ fil' = fil
    <3>1. call.n # 1
      BY <1>9, <1>12
    <3>2. PutFat(o, c, d) /\ call' = [call EXCEPT !.b = d, !.n = @ - 1] /\ fil' = fil
      BY <1>7, <1>8, <1>12, <3>1 DEF Goto
    <3>3. [call EXCEPT !.b = d, !.n = @ - 1] = [call EXCEPT !.b = d, !.n = m]
      OBVIOUS
    <3> QED
      BY <1>8, <3>2, <3>3 DEF PutFat
  <2>2. d # c /\ (d \in Clus => fat[d] = 0)
    <3>1. d # c /\ c <= d /\ d < c + call.n
      BY <1>9, <1>12, Numbers
    <3> HIDE DEF d
    <3> QED
      BY <1>1, <1>6, <3>1 DEF Expanding
  <2> HIDE DEF d, m
  <2>3. fat'[c] = d /\ \A x \in Clus : x # c => fat'[x] = fat[x]
    BY <1>1, <2>1 DEF Types
  <2>4. call'.op = call.op /\ call'.f = call.f /\ call'.pc = call.pc /\ call'.a = call.a
    BY <1>1, <2>1, PartsTo
  <2>5. StepFits'
    BY <1>1, <2>4 DEF StepFits
  <2>6. InHand(a)'
    BY <1>1, <1>10, <2>4 DEF InHand
  <2>7. ASSUME NEW x \in Clus, fat'[x] # 0, fat[x] = 0 \/ InHand(x) \/ fat[c] = x PROVE Rooted(x)'
    <3>1. x = c \/ x = a
      BY <1>1, <1>9, <1>10, <2>3, <2>7, Numbers DEF InHand
    <3>2. CASE x = a
      BY <2>6, <3>2 DEF Rooted
    <3>3. CASE x = c /\ x # a
      <4>1. PICK e \in Clus : e # c /\ fat[e] = c
        BY <1>11, <3>3
      <4>2. fat'[e] = x
        BY <2>3, <3>3, <4>1
      <4> QED
        BY <4>2 DEF Rooted
    <3> QED
      BY <3>1, <3>2, <3>3
  <2> QED
    BY <1>1, <1>3, <1>9, <2>1, <2>2, <2>3, <2>4, <2>5, <2>7, Numbers, OnEntry
<1>13. CASE call.n = 1
  <2> DEFINE n == c - a + 1
             y == [fil[f] EXCEPT !.sclust = a, !.size = n, !.mod = TRUE]
  <2>1. fat' = [fat EXCEPT ![c] = EOC] /\ call' = Idle /\ fil' = [fil EXCEPT ![f] = y]
    BY <1>7, <1>8, <1>10, <1>13 DEF PutFat, Return
  <2>2. n \in Nat /\ n # 0
    BY <1>9, <1>10, Numbers
  <2> HIDE DEF n
  <2>3. y \in Object /\ y.open /\ y.sclust = a /\ y.size = n /\ y.mod
    <3>1. fil[f] \in Object
      BY <1>1 DEF Types
    <3> QED
      BY <1>9, <2>2, <3>1 DEF Object
  <2> HIDE DEF y
  <2>4. fil'[f] = y /\ \A g \in Files : g # f => fil'[g] = fil[g] /\ ents'[g] = ents[g]
    BY <1>1, <2>1, <2>3, FilTo
  <2>5. fat'[c] = EOC /\ \A x \in Clus : x # c => fat'[x] = fat[x]
    BY <1>1, <2>1 DEF Types
  <2>6. StepFits' /\ OnlyOn(f)' /\ f \notin Shrinking'
    BY <2>1, PartsAt DEF StepFits, OnlyOn, Shrinking
  <2>7. \A g \in Files : g # f => RootOf(g)' = RootOf(g) /\ EntryFits(g)' /\ ObjectFits(g)'
    BY <1>3, <1>4, <2>4, <2>6, OthersFit
  <2>8. EntryFits(f)' /\ ObjectFits(f)' /\ RootOf(f)' = a
    BY <1>1, <1>4, <2>2, <2>3, <2>4, <2>6 DEF EntryFits, ObjectFits, RootOf, StartNow
  <2>9. Ranked'
    BY <1>3, <2>5, Numbers, RankOne DEF SpaceOk
  <2>10. RootOf(f) = 0
    BY <1>1, <1>4, <1>9 DEF ObjectFits, Seeking, RootOf, StartNow
  <2>11. ASSUME NEW d \in Clus, fat'[d] # 0 PROVE Rooted(d)'
    <3>1. CASE d = a
      BY <2>8, <3>1 DEF Rooted
    <3>2. CASE \E e \in Clus : e # c /\ fat[e] = d
      BY <2>5, <3>2 DEF Rooted
    <3>3. CASE d # c
      <4>1. Rooted(d)
        BY <1>3, <2>5, <2>11, <3>3 DEF SpaceOk, AllRooted
      <4>2. InHand(d) => d = a
        BY <1>1, <1>10 DEF InHand
      <4>3. ASSUME NEW g \in Files, RootOf(g) = d PROVE Rooted(d)'
        <5>1. g # f
          BY <2>10, <4>3, Numbers
        <5> QED
          BY <2>7, <4>3, <5>1 DEF Rooted
      <4>4. ASSUME NEW e \in Clus, fat[e] = d PROVE e # c
        BY <1>9, <4>4, Numbers
      <4> QED
        BY <3>1, <3>2, <4>1, <4>2, <4>3, <4>4 DEF Rooted
    <3> QED
      BY <1>11, <3>1, <3>2, <3>3
  <2> QED
    BY <2>6, <2>7, <2>8, <2>9, <2>11 DEF SpaceOk, AllRooted
<1> QED
  BY <1>9, <1>12, <1>13

-----------------------------------------------------------------------------
(* Nothing is lost.                                                        *)

\* A new volume has nothing to lose.
LEMMA InitSpace == Init => Space
<1> SUFFICES ASSUME Init PROVE SpaceOk
  BY DEF Space
<1>1. /\ \A c \in Clus : fat[c] = 0 /\ fat[c] \notin Clus
      /\ \A f \in Files : ents[f] = NoEntry /\ fil[f] = Closed
      /\ call.op = "none" /\ call.pc = "idle"
  BY PartsAt, Numbers DEF Init
<1>2. AllRooted /\ StepFits
  BY <1>1 DEF AllRooted, StepFits
<1>3. Ranked
  <2> DEFINE r == [c \in Clus |-> 0]
  <2>1. r \in [Clus -> Nat] /\ Ranks(r)
    BY <1>1 DEF Ranks
  <2> QED
    BY <2>1 DEF Ranked
<1>4. \A f \in Files : EntryFits(f) /\ ObjectFits(f)
  BY <1>1, EntriesAre, ClosedIs DEF EntryFits, ObjectFits
<1> QED
  BY <1>2, <1>3, <1>4 DEF SpaceOk

\* After a power loss space may be lost.
LEMMA CrashNotSmooth == Types /\ Crash => ~Smoothly'
<1> SUFFICES ASSUME Types, Crash PROVE crashes' # 0
  BY DEF Smoothly
<1>1. crashes \in Nat /\ crashes' = crashes + 1
  BY DEF Types, Crash
<1> QED
  BY <1>1

\* After a call failed to keep its cluster too.
LEMMA UndoneNotSmooth == MkdirUndone => ~Smoothly'
BY DEF MkdirUndone, Return, Result, Smoothly

\* Every step keeps the second invariant.
LEMMA NextSpace == IInv /\ Space /\ [Next]_vars => Space'
<1> SUFFICES ASSUME IInv, Space, [Next]_vars, Smoothly' PROVE SpaceOk'
  BY DEF Space
<1>1. PICK w : Inv(w)
  BY DEF IInv
<1>2. CASE UNCHANGED vars
  <2>1. UNCHANGED <<fat, ents, fil, call, failed, crashes>>
    BY <1>2 DEF vars, hist, budget
  <2>2. Smoothly
    BY <2>1 DEF Smoothly
  <2>3. SpaceOk
    BY <2>2 DEF Space
  <2> QED
    BY <2>1, <2>3 DEF SpaceOk, AllRooted, Rooted, RootOf, StartNow, Shrinking, InHand, Fresh, Ranked, Ranks, EntryFits,
                      ObjectFits, Seeking, StepFits
<1>3. CASE Opens
  BY <1>1, <1>3, OpenExistingFits, OpenCreateFits DEF Opens
<1>4. CASE Moves
  <2>1. PICK f \in Files, n \in 0 .. MaxSize : FWrite(f, n) \/ FLseek(f, n) \/ \E opt \in {0, 1} : FExpand(f, n, opt)
    BY <1>4 DEF Moves
  <2>2. CASE FWrite(f, n)
    BY <1>1, <2>2, FWriteFits
  <2>3. CASE FLseek(f, n)
    BY <1>1, <2>3, FLseekFits
  <2>4. CASE \E opt \in {0, 1} : FExpand(f, n, opt)
    BY <1>1, <2>4, FExpandFits
  <2> QED
    BY <2>1, <2>2, <2>3, <2>4
<1>5. CASE Ends
  <2>1. PICK f \in Files : FTruncate(f) \/ FUnlink(f) \/ FMkdir(f) \/ FSync("sync", f) \/ FSync("close", f)
    BY <1>5 DEF Ends
  <2>2. CASE FTruncate(f)
    BY <1>1, <2>2, FTruncateFits
  <2>3. CASE FUnlink(f) \/ FMkdir(f)
    BY <1>1, <2>3, FUnlinkFits, FMkdirFits
  <2>4. CASE \E op \in {"sync", "close"} : FSync(op, f)
    BY <1>1, <2>4, FSyncFits
  <2> QED
    BY <2>1, <2>2, <2>3, <2>4
<1>6. CASE FGetfree \/ Crash
  BY <1>1, <1>6, FGetfreeFits, CrashNotSmooth DEF Inv
<1>7. CASE Steps
  <2>1. CASE ChainFind \/ ChainLink \/ RemoveCut \/ RemoveOne
    BY <1>1, <2>1, ChainFindFits, ChainLinkFits, RemoveCutFits, RemoveOneFits
  <2>2. CASE OpenCreated \/ WriteGot \/ SeekGot \/ Truncated \/ ExpandFill
    BY <1>1, <2>2, OpenCreatedFits, WriteGotFits, SeekGotFits, TruncatedFits, ExpandFillFits
  <2>3. CASE SyncEnd \/ Unlinked \/ EntrySync
    BY <1>1, <2>3, SyncEndFits, UnlinkedFits, EntrySyncFits
  <2>4. CASE MkdirGot \/ MkdirRegister \/ MkdirUndone
    BY <1>1, <2>4, MkdirGotFits, MkdirRegisterFits, UndoneNotSmooth
  <2> QED
    BY <1>7, <2>1, <2>2, <2>3, <2>4 DEF Steps
<1> QED
  BY <1>2, <1>3, <1>4, <1>5, <1>6, <1>7 DEF Next

\* From where a file starts its whole chain is reached, and nothing else.
LEMMA RootChain ==
  ASSUME NEW w, Inv(w), Shrinking = {}, NEW f \in Files, RootOf(f) \in Clus
  PROVE  \E o \in Tags : /\ o # Nobody /\ w.own[RootOf(f)] = o
                         /\ Reach(fat, RootOf(f)) = {c \in Clus : w.own[c] = o}
<1>1. FileOk(w, f) /\ f \notin Shrinking /\ Types /\ Good(fat, w)
  BY DEF Inv
<1>2. PICK o \in {Now(f), Old(f)} : \E n, s : Leads(w, o, RootOf(f), n, s)
  <2>1. CASE fil[f].open
    <3>1. Leads(w, Now(f), RootOf(f), SizeNow(f), snap[f])
      BY <1>1, <2>1 DEF RootOf, FileOk, ObjectOk
    <3> QED
      BY <3>1
  <2>2. CASE ~fil[f].open
    <3>1. \E o \in {Now(f), Old(f)} : Leads(w, o, ents[f].start, ents[f].size, snap[f])
      BY <1>1, <2>2 DEF FileOk, EntryOk, Seen1
    <3> QED
      BY <2>2, <3>1 DEF RootOf
  <2> QED
    BY <2>1, <2>2
<1>3. o \in Tags /\ o # Nobody /\ RootOf(f) # 0
  BY <1>2, Tagging, Numbers
<1>4. w.own[RootOf(f)] = o /\ w.idx[RootOf(f)] = 1
  BY <1>2, <1>3 DEF Leads
<1>5. Reach(fat, RootOf(f)) = {c \in Clus : w.own[c] = o}
  BY <1>1, <1>3, <1>4, ReachChain
<1> QED
  BY <1>3, <1>4, <1>5

\* Between calls the clusters of the files are all there is: of the lost ones one
\* has the least rank, and what leads to it is not lost.
LEMMA SpaceKept ==
  ASSUME IInv, Space
  PROVE  NothingLost
<1> SUFFICES ASSUME call.pc = "idle", ~failed, crashes = 0
             PROVE  \A c \in Clus : fat[c] # 0 => \E f \in Files : c \in Reach(fat, StartOf[f])
  BY DEF NothingLost
<1>1. PICK w : Inv(w)
  BY DEF IInv
<1>2. call = Idle /\ call.op = "none" /\ Shrinking = {}
  BY <1>1, IdleIs DEF CanBegin
<1>3. AllRooted /\ Ranked
  BY <1>2 DEF Space, Smoothly, SpaceOk
<1>4. PICK r \in [Clus -> Nat] : Ranks(r)
  BY <1>3 DEF Ranked
<1>5. \A f \in Files : StartOf[f] = RootOf(f) /\ RootOf(f) \in {0} \cup Clus
  <2> TAKE f \in Files
  <2>1. StartOf[f] = RootOf(f)
    BY <1>2 DEF StartOf, RootOf, StartNow
  <2>2. fil[f].sclust \in {0} \cup Clus /\ ents[f].start \in {0} \cup Clus
    BY <1>1 DEF Inv, Types, Object, Entry
  <2> QED
    BY <2>1, <2>2 DEF StartOf
<1>6. Good(fat, w)
  BY <1>1 DEF Inv
<1> DEFINE In(c) == \E f \in Files : c \in Reach(fat, RootOf(f))
           U == {c \in Clus : fat[c] # 0 /\ ~In(c)}
<1>7. \A c \in Clus : (\E f \in Files : RootOf(f) = c) => In(c)
  <2> SUFFICES ASSUME NEW f \in Files, RootOf(f) \in Clus PROVE RootOf(f) \in Reach(fat, RootOf(f))
    OBVIOUS
  <2> QED
    BY <1>1, <1>2, RootChain
<1>8. \A d \in Clus : In(d) /\ fat[d] \in Clus => In(fat[d])
  <2> SUFFICES ASSUME NEW d \in Clus, NEW f \in Files, d \in Reach(fat, RootOf(f)), fat[d] \in Clus
               PROVE  fat[d] \in Reach(fat, RootOf(f))
    OBVIOUS
  <2>1. RootOf(f) \in Clus
    BY <1>5, ReachNone
  <2>2. PICK o \in Tags : o # Nobody /\ Reach(fat, RootOf(f)) = {c \in Clus : w.own[c] = o}
    BY <1>1, <1>2, <2>1, RootChain
  <2>3. w.own[d] = o
    BY <2>2
  <2>4. w.own[fat[d]] = o
    BY <1>6, <2>2, <2>3, EndOfChain
  <2> QED
    BY <2>2, <2>4
<1>9. U = {}
  <2> SUFFICES ASSUME U # {} PROVE FALSE
    OBVIOUS
  <2> DEFINE S == {r[c] : c \in U}
  <2>1. S \subseteq Nat /\ S # {}
    BY <1>4
  <2>2. PICK n \in S : \A m \in S : n <= m
    BY <2>1, Least
  <2>3. PICK c \in U : \A x \in U : r[c] <= r[x]
    BY <2>2
  <2>4. c \in Clus /\ fat[c] # 0 /\ ~In(c)
    OBVIOUS
  <2> HIDE DEF In
  <2>5. ~InHand(c)
    BY <1>2 DEF InHand, Idle
  <2>6. PICK d \in Clus : fat[d] = c
    BY <1>3, <1>7, <2>4, <2>5 DEF AllRooted, Rooted
  <2>7. fat[d] # 0 /\ ~In(d)
    BY <1>8, <2>4, <2>6, Numbers
  <2>8. r[d] < r[c] /\ r[c] <= r[d]
    BY <1>4, <2>3, <2>4, <2>6, <2>7 DEF Ranks
  <2> QED
    BY <1>4, <2>4, <2>8
<1> QED
  BY <1>5, <1>9

\* No sequence of calls that succeed loses a cluster (NothingLost): once they are
\* over every cluster of the FAT that is not free is in the chain of a file. It is
\* about the order in which create_chain, dir_register, f_truncate, f_unlink and
\* f_mkdir link, register and free.
THEOREM SpaceIsKept == Spec => []NothingLost
<1>1. Init => Space
  BY InitSpace
<1>2. IInv /\ Space /\ [Next]_vars => Space'
  BY NextSpace
<1>3. IInv /\ Space => NothingLost
  BY SpaceKept
<1>4. Spec => []IInv
  BY Chains
<1> QED
  BY <1>1, <1>2, <1>3, <1>4, PTL DEF Spec

=============================================================================
