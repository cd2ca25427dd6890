------------------------------ MODULE Directory -------------------------------
(***************************************************************************)
(* Directory tables in firmware/ff.c: the walk over slots, the search,     *)
(* allocation and removal of entries, and the calls built from them:       *)
(* f_open (creating), f_opendir, f_readdir, f_closedir, f_stat, f_unlink,  *)
(* f_mkdir, f_rename, f_chmod, f_getlabel, f_setlabel.                     *)
(*                                                                         *)
(* The volume mutex lets one call run at a time, so a call is one step.  A *)
(* call is a function of the volume: the operators are chained as the C    *)
(* functions call each other, and count the transfers.  The transfer that  *)
(* is numbered left fails, or is the one at which the power goes, so a     *)
(* step stops at every point at which the call can stop.  FAT sector and   *)
(* directory sectors share the window, and reach the card when it moves.   *)
(***************************************************************************)
EXTENDS Integers, Sequences, FiniteSets

CONSTANTS
  Paths,      \* bound: the paths the calls are given, as sequences of names
  Labels,     \* bound: the labels f_setlabel is given
  Listed,     \* bound: the paths f_opendir is given; <<>> is the root
  RootSects,  \* sectors of the root directory, a static table as on FAT12 and FAT16
  NClust, Csize, SpS,   \* clusters, sectors of a cluster, slots of a sector
  MaxObjs,    \* bound: objects created
  MaxStops    \* bound: transfers that fail and power losses

ASSUME DirectoryAssumption ==
  /\ {RootSects, NClust, Csize} \subseteq Nat \ {0} /\ SpS \in Nat /\ SpS >= 2
  /\ {MaxObjs, MaxStops} \subseteq Nat

\* create_name refuses an empty segment.
ASSUME PathAssumption ==
  Paths \cup Listed \subseteq Seq(STRING \ {""}) /\ <<>> \notin Paths

Clus == 2 .. NClust + 1
EOC == NClust + 2
DiskErr == 0 - 1       \* 0xFFFFFFFF
FatSect == 1
NoSect == 0 - 1        \* winsect of an invalid window
RootAt == 2
Database == RootAt + RootSects
Sectors == RootAt .. Database + NClust * Csize - 1
RootSlots == RootSects * SpS
AllSlots == RootSlots + NClust * Csize * SpS
Slots == 1 .. SpS

\* A slot of 32 bytes.  id stands for what f_rename copies besides the start
\* cluster: size and times.
Slot(kind, name, id, clu) == [kind |-> kind, name |-> name, id |-> id, clu |-> clu]
End == Slot("end", "", 0, 0)        \* first byte 0
Del == Slot("del", "", 0, 0)        \* DDEM
Junk == Slot("junk", "", 0, 0)      \* what a cluster held before: some other entry
Dot(clu) == Slot("dot", "", 0, clu) \* "." and ".."
Blank == [i \in Slots |-> End]

VARIABLES
  card,      \* the sectors on the card; FatSect holds the FAT
  win,       \* the window: sector, content, wflag
  dir,       \* the DIR object of an application that lists a directory
  created, stops,
  ret,       \* the last call and its answer
  told,      \* history: of the entries there since the listing began, those delivered
  due,       \* history: and those not yet delivered
  heard,     \* history: what the last f_readdir delivered
  torn,      \* history: a call was stopped while it stretched a table
  tree, saved  \* history: the entries as the calls see them, and on the card

vars == <<card, win, dir, created, stops, ret, told, due, heard, torn, tree, saved>>
listing == <<dir, told, due, heard>>

-----------------------------------------------------------------------------
(* The window.  v is the volume during a call: card and window, the        *)
(* countdown of transfers, the result so far, a value returned, and the    *)
(* position of the directory object.                                       *)

NoDp == [start |-> 0, ofs |-> 0, clust |-> 0, sect |-> 0]
Empty == [at |-> NoSect, data |-> Blank, dirty |-> FALSE]

Volume(left, power) ==
  [card |-> card, win |-> win, left |-> left, hit |-> FALSE, power |-> power, res |-> "OK", val |-> 0,
   dp |-> NoDp, torn |-> FALSE]

Fail(v, res) == [v EXCEPT !.res = res]
Ok(v) == v.res = "OK"

\* The next step of a call that goes on only after FR_OK.
Then(v, Step(_)) == IF Ok(v) THEN Step(v) ELSE v

\* One transfer.  After a power loss no other one succeeds.
Stopped(v) == v.left = 1
Spent(v) ==
  [v EXCEPT !.left = IF Stopped(v) /\ v.power THEN 1 ELSE v.left - 1, !.hit = @ \/ Stopped(v)]

SyncWindow(v) ==
  IF ~v.win.dirty THEN v
  ELSE IF Stopped(v) THEN Fail(Spent(v), "DISK_ERR")
  ELSE [Spent(v) EXCEPT !.card[v.win.at] = v.win.data, !.win.dirty = FALSE]

\* Mutant of ReadSector: a read that fails does not invalidate the window.
ReadSectorKeeps(v, s) ==
  IF Stopped(v) \/ s \notin DOMAIN v.card THEN Fail([Spent(v) EXCEPT !.win.at = s], "DISK_ERR")
  ELSE [Spent(v) EXCEPT !.win = [at |-> s, data |-> v.card[s], dirty |-> FALSE]]

\* The window is read from sector s; winsect is invalid after an error.
ReadSector(v, s) ==
  IF Stopped(v) \/ s \notin DOMAIN v.card THEN Fail([Spent(v) EXCEPT !.win = Empty], "DISK_ERR")
  ELSE [Spent(v) EXCEPT !.win = [at |-> s, data |-> v.card[s], dirty |-> FALSE]]

MoveWindow(v, s) ==
  IF s = v.win.at THEN v ELSE Then(SyncWindow(v), LAMBDA w : ReadSector(w, s))

\* sync_fs: also CTRL_SYNC.
SyncFs(v) ==
  Then(SyncWindow(v), LAMBDA w : IF Stopped(w) THEN Fail(Spent(w), "DISK_ERR") ELSE Spent(w))

Clust2Sect(c) == IF c \in Clus THEN Database + ((c - 2) * Csize) ELSE 0

\* get_fat: 1 for a cluster out of range.
FatValue(v, c) == [v EXCEPT !.val = IF Ok(v) THEN v.win.data[c] ELSE DiskErr]
GetFat(v, c) ==
  IF c \in Clus THEN FatValue(MoveWindow(v, FatSect), c) ELSE [v EXCEPT !.val = 1]

PutFat(v, c, x) == [v EXCEPT !.win.data[c] = x, !.win.dirty = TRUE]

\* The lowest free cluster becomes the one after c (or the first of a chain),
\* given g, in which the value is the FAT entry of c.
Allocate(g, c) ==
  LET free == {x \in Clus : g.win.data[x] = 0}
      new == CHOOSE x \in free : \A y \in free : x <= y
      marked == PutFat(g, new, EOC)
  IN  IF ~Ok(g) THEN [g EXCEPT !.val = DiskErr]
      ELSE IF c # 0 /\ g.val < 2 THEN [g EXCEPT !.val = 1]
      ELSE IF c # 0 /\ g.val \in Clus THEN g
      ELSE IF free = {} THEN [g EXCEPT !.val = 0]
      ELSE [(IF c = 0 THEN marked ELSE PutFat(marked, c, new)) EXCEPT !.val = new]

CreateChain(v, c) == Allocate(IF c = 0 THEN MoveWindow(v, FatSect) ELSE GetFat(v, c), c)

\* The clusters from c up to a free one or the end are freed.
FreeChain(v, c) ==
  LET f == v.win.data
      chain[k \in 0 .. NClust] ==
        IF k = 0 THEN {c} ELSE LET p == chain[k - 1] IN p \cup ({f[x] : x \in p} \cap Clus)
      used == {x \in chain[NClust] : f[x] # 0}
  IN  IF used = {} THEN v
      ELSE [v EXCEPT !.win.data = [x \in Clus |-> IF x \in used THEN 0 ELSE f[x]], !.win.dirty = TRUE]

RemoveChain(v, c) ==
  IF c \in Clus THEN Then(GetFat(v, c), LAMBDA g : FreeChain(g, c)) ELSE Fail(v, "INT_ERR")

\* The error of the cluster number create_chain returned.
ClusterError(x) ==
  CASE x = 0 -> "DENIED" [] x = 1 -> "INT_ERR" [] x = DiskErr -> "DISK_ERR" [] OTHER -> "OK"

\* create_chain in its callers, which turn its value into a result.
Checked(v) == IF ClusterError(v.val) = "OK" THEN v ELSE Fail(v, ClusterError(v.val))
NewCluster(v, c) == Checked(CreateChain(v, c))

\* The sectors of cluster c are written from the window: first, then zeros.
WriteTable(v, c, first) ==
  LET done[n \in 0 .. Csize] ==
        IF n = 0 THEN v
        ELSE Then(done[n - 1],
                  LAMBDA w : SyncWindow([w EXCEPT !.win = [at |-> Clust2Sect(c) + n - 1, dirty |-> TRUE,
                                                           data |-> IF n = 1 THEN first ELSE Blank]]))
  IN  done[Csize]

-----------------------------------------------------------------------------
(* The walk over the slots of a table.                                     *)

DirSdi(v, start) ==
  LET s == IF start = 0 THEN RootAt ELSE Clust2Sect(start)
      w == [v EXCEPT !.dp = [start |-> start, ofs |-> 0, clust |-> start, sect |-> s]]
  IN  IF s = 0 THEN Fail(w, "INT_ERR") ELSE w

EndOfTable(v) == Fail([v EXCEPT !.dp.sect = 0], "NO_FILE")

\* The walk enters the next cluster.
NextCluster(v, c, ofs) ==
  [v EXCEPT !.dp.ofs = ofs, !.dp.clust = c, !.dp.sect = Clust2Sect(c)]

\* Mutant of Cleaned: the new cluster keeps what it held.
CleanedNot(v) == v

\* The new cluster is filled with zeros from the window, which ends at its
\* first sector.
Cleaned(v) ==
  Then(WriteTable(v, v.val, Blank), LAMBDA w : [w EXCEPT !.win.at = Clust2Sect(w.val)])

\* A table is stretched by one cluster, number val.
Enter(v, ofs) == IF Ok(v) THEN NextCluster(v, v.val, ofs) ELSE [v EXCEPT !.torn = TRUE]
Stretched(v, ofs) ==
  Then(NewCluster(v, v.dp.clust), LAMBDA c : Enter(Then(SyncWindow(c), Cleaned), ofs))

\* Past the last slot of a cluster, given g with the FAT entry of the cluster.
NextInChain(g, ofs, stretch) ==
  IF g.val \in {0, 1} THEN Fail(g, "INT_ERR")
  ELSE IF g.val = DiskErr THEN g
  ELSE IF g.val \in Clus THEN NextCluster(g, g.val, ofs)
  ELSE IF stretch THEN Stretched(g, ofs) ELSE EndOfTable(g)

DirNext(v, stretch) ==
  LET ofs == v.dp.ofs + 1
      s == [v EXCEPT !.dp.sect = @ + 1]
  IN  IF v.dp.sect = 0 THEN Fail(v, "NO_FILE")
      ELSE IF ofs % SpS # 0 THEN [v EXCEPT !.dp.ofs = ofs]
      ELSE IF v.dp.clust = 0 /\ ofs >= RootSlots THEN EndOfTable(s)
      ELSE IF v.dp.clust = 0 \/ ofs % (SpS * Csize) # 0 THEN [s EXCEPT !.dp.ofs = ofs]
      ELSE NextInChain(GetFat(s, v.dp.clust), ofs, stretch)

\* The slot at the position of v, once its sector is in the window.
Index(v) == (v.dp.ofs % SpS) + 1
Cur(v) == v.win.data[Index(v)]
PutSlot(v, slot) == [v EXCEPT !.win.data[Index(v)] = slot, !.win.dirty = TRUE]

\* A walk looks for kinds of slots, and for entries of some names.
Named == {"file", "dir", "junk"}   \* not AM_VOL, DDEM, '.'
Stops(slot, kinds, names) == slot.kind \in kinds \/ (slot.kind \in Named /\ slot.name \in names)

\* From the position of v to the first slot at which the walk stops.
InWindow(v) == MoveWindow(v, v.dp.sect)
Onward(p, kinds, names, stretch) ==
  IF Stops(Cur(p), kinds, names) THEN p ELSE Then(DirNext(p, stretch), InWindow)
WalkFrom(first, kinds, names, stretch) ==
  LET at[n \in 0 .. AllSlots] ==
        IF n = 0 THEN first
        ELSE Then(at[n - 1], LAMBDA p : Onward(p, kinds, names, stretch))
  IN  at[AllSlots]
Walk(v, kinds, names, stretch) == WalkFrom(InWindow(v), kinds, names, stretch)

\* The walk of dir_alloc and dir_find begins with dir_sdi(dp, 0).
FromStart(v) == DirSdi(v, v.dp.start)
DirAlloc(v) ==
  LET w == Then(FromStart(v), LAMBDA d : Walk(d, {"del", "end"}, {}, TRUE))
  IN  [w EXCEPT !.res = IF @ = "NO_FILE" THEN "DENIED" ELSE @]

\* A walk that is over at the end of the table found nothing.
UnlessEnd(v) == IF Cur(v).kind = "end" THEN Fail(v, "NO_FILE") ELSE v
CloseOnError(v) == IF Ok(v) THEN v ELSE [v EXCEPT !.dp.sect = 0]

\* For the mutants: a walk is over at a deleted entry too.
UnlessGap(v) == IF Cur(v).kind \in {"end", "del"} THEN Fail(v, "NO_FILE") ELSE v

\* Mutant of DirRead: the listing stops at a deleted entry too.
DirReadShort(v, kinds) ==
  IF v.dp.sect = 0 THEN Fail(v, "NO_FILE")
  ELSE CloseOnError(Then(Walk(v, kinds \cup {"end", "del"}, {}, FALSE), UnlessGap))

\* dir_read, for entries of the kinds given.
DirRead(v, kinds) ==
  IF v.dp.sect = 0 THEN Fail(v, "NO_FILE")
  ELSE CloseOnError(Then(Walk(v, kinds \cup {"end"}, {}, FALSE), UnlessEnd))

\* Mutant of DirFind: the search ends at a deleted entry.
DirFindShort(v, name) ==
  LET w == Then(FromStart(v), LAMBDA s : Walk(s, {"end", "del"}, {name}, FALSE))
  IN  Then(w, UnlessGap)

DirFind(v, name) ==
  LET w == Then(FromStart(v), LAMBDA s : Walk(s, {"end"}, {name}, FALSE))
  IN  Then(w, UnlessEnd)

\* dir_register, and what the caller then stores in the entry.
DirRegister(v, slot) == Then(DirAlloc(v), LAMBDA w : PutSlot(w, slot))

DirRemove(v) == Then(InWindow(v), LAMBDA w : PutSlot(w, Del))

\* One more segment of a path: the entry found so far must be a directory.
Segment(p, name) ==
  IF p.res = "NO_FILE" \/ (Ok(p) /\ Cur(p).kind # "dir") THEN Fail(p, "NO_PATH")
  ELSE Then(p, LAMBDA d : DirFind([d EXCEPT !.dp.start = Cur(d).clu], name))

\* follow_path, for a path of one name or more from the root.
FollowPath(v, path) ==
  LET seg[i \in 1 .. Len(path)] ==
        IF i = 1 THEN DirFind([v EXCEPT !.dp = NoDp], path[1]) ELSE Segment(seg[i - 1], path[i])
  IN  seg[Len(path)]

-----------------------------------------------------------------------------
(* The calls, each from the volume at its start to the volume at its end.  *)

\* The name followed must not be there.
Absent(f) == [f EXCEPT !.res = IF @ = "NO_FILE" THEN "OK" ELSE IF @ = "OK" THEN "EXIST" ELSE @]
LastName(path) == path[Len(path)]

\* f_open with FA_CREATE_NEW: the entry is in the window, not yet on the card.
Create(v, path, id) ==
  Then(Absent(FollowPath(v, path)), LAMBDA f : DirRegister(f, Slot("file", LastName(path), id, 0)))

\* The end of f_mkdir, with the table at clu: it is freed after an error.
SyncOrFree(v, clu) ==
  IF Ok(v) THEN SyncFs(v) ELSE Fail(RemoveChain(Fail(v, "OK"), clu), v.res)

\* The table in the cluster that c took, then the entry of it.
MakeDir(c, name, id) ==
  LET dots == [Blank EXCEPT ![1] = Dot(c.val), ![2] = Dot(c.dp.start)]
      w == Then(Then(c, SyncWindow), LAMBDA s : WriteTable(s, c.val, dots))
      r == Then(w, LAMBDA z : DirRegister([z EXCEPT !.win.data = Blank], Slot("dir", name, id, c.val)))
  IN  SyncOrFree(r, c.val)

\* f_mkdir.
Mkdir(v, path, id) ==
  Then(Absent(FollowPath(v, path)), LAMBDA f : MakeDir(NewCluster(f, 0), LastName(path), id))

\* The directory to be removed holds no entry; back to its own entry, dp.
MustBeEmpty(sub, dp) ==
  IF sub.res = "NO_FILE" THEN [sub EXCEPT !.res = "OK", !.dp = dp]
  ELSE IF Ok(sub) THEN Fail(sub, "DENIED") ELSE sub

RemoveEntry(f, d) ==
  LET sub == Then(DirSdi(f, d.clu), LAMBDA s : DirRead(s, Named))
      e == IF d.kind = "dir" THEN MustBeEmpty(sub, f.dp) ELSE f
      r == Then(Then(e, DirRemove), LAMBDA x : IF d.clu # 0 THEN RemoveChain(x, d.clu) ELSE x)
  IN  Then(r, SyncFs)

\* f_unlink; rdo says whether the entry is read-only.  No file is open here
\* (the locks are the matter of FileLock).
Unlink(v, path, rdo) ==
  Then(FollowPath(v, path), LAMBDA f : IF rdo THEN Fail(f, "DENIED") ELSE RemoveEntry(f, Cur(f)))

\* Mutant of Relinked: ".." stays as it was.
RelinkedNot(v, c, start) == MoveWindow(v, Clust2Sect(c))

\* The ".." entry of the directory with table c leads to start.
Relinked(v, c, start) ==
  IF c \notin Clus THEN Fail(v, "INT_ERR")
  ELSE Then(MoveWindow(v, Clust2Sect(c)),
            LAMBDA w : IF w.win.data[2].kind = "dot"
                       THEN [w EXCEPT !.win.data[2] = Dot(start), !.win.dirty = TRUE] ELSE w)

\* The new entry of a directory that changes its parent.
Reparent(v, d, from) ==
  IF d.kind = "dir" /\ v.dp.start # from.start THEN Relinked(v, d.clu, v.dp.start) ELSE v

\* Mutant of Move: the old entry is removed before the new one is registered.
MoveRemovesFirst(n, d, from, name) ==
  LET x == Then(n, LAMBDA y : DirRemove([y EXCEPT !.dp = from]))
      r == Then(x, LAMBDA y : DirRegister([y EXCEPT !.dp = n.dp], [d EXCEPT !.name = name]))
      p == Then(r, LAMBDA y : Reparent(y, d, from))
  IN  Then(p, SyncFs)

\* The new entry, in the directory that n has followed, "..", then the old entry.
Move(n, d, from, name) ==
  LET r == Then(n, LAMBDA y : DirRegister(y, [d EXCEPT !.name = name]))
      p == Then(r, LAMBDA y : Reparent(y, d, from))
      x == Then(p, LAMBDA y : DirRemove([y EXCEPT !.dp = from]))
  IN  Then(x, SyncFs)

\* f_rename.
Rename(v, old, new) ==
  Then(FollowPath(v, old), LAMBDA f : Move(Absent(FollowPath(f, new)), Cur(f), f.dp, LastName(new)))

\* f_chmod and f_utime, which change what is left out of Slot.
Chmod(v, path) == Then(FollowPath(v, path), LAMBDA f : SyncFs(PutSlot(f, Cur(f))))

Stat(v, path) == FollowPath(v, path)

FindLabel(v) == DirRead(DirSdi(v, 0), {"label"})

\* f_setlabel: the label is replaced, removed (""), or created.
PutLabel(f, label) ==
  LET slot == IF label = "" THEN Del ELSE Slot("label", label, 0, 0)
  IN  IF Ok(f) THEN SyncFs(PutSlot(f, slot))
      ELSE IF f.res # "NO_FILE" \/ label = "" THEN Fail(f, IF f.res = "NO_FILE" THEN "OK" ELSE f.res)
      ELSE Then(DirAlloc(Fail(f, "OK")), LAMBDA a : SyncFs(PutSlot(a, slot)))
SetLabel(v, label) == PutLabel(FindLabel(v), label)

\* f_getlabel: the name, "" when there is none.
LabelName(f) == IF Ok(f) THEN Cur(f).name ELSE ""
GetLabel(v) == LabelName(FindLabel(v))

\* f_readdir: the value is the entry; the position moves past it.
Deliver(r) ==
  IF Ok(r) THEN [DirNext(r, FALSE) EXCEPT !.val = Cur(r)] ELSE [r EXCEPT !.val = End]
Readdir(v) ==
  [Deliver(DirRead(v, Named)) EXCEPT !.res = IF @ = "NO_FILE" THEN "OK" ELSE @]

\* f_opendir: the value is the id of the directory.
OpenTable(f) ==
  IF f.res = "NO_FILE" \/ (Ok(f) /\ Cur(f).kind # "dir") THEN Fail(f, "NO_PATH")
  ELSE Then(f, LAMBDA d : [DirSdi(d, Cur(d).clu) EXCEPT !.val = Cur(d).id])
Opendir(v, path) ==
  IF path = <<>> THEN [DirSdi(v, 0) EXCEPT !.val = 0] ELSE OpenTable(FollowPath(v, path))

-----------------------------------------------------------------------------
(* What the tables say.                                                    *)

\* The sectors as the calls see them, with the window over the card.
View(c, w) == IF w.at = NoSect THEN c ELSE [c EXCEPT ![w.at] = w.data]

\* The slots of the table at start in the sectors m, cluster by cluster.
ChainOf(m, start) ==
  LET ch[k \in 1 .. NClust] ==
        IF k = 1 THEN <<start>>
        ELSE LET p == ch[k - 1]
                 next == m[FatSect][p[Len(p)]]
             IN  IF next \in Clus THEN Append(p, next) ELSE p
  IN  ch[NClust]

SectorsOf(m, start) ==
  IF start = 0 THEN [i \in 1 .. RootSects |-> RootAt + i - 1]
  ELSE LET ch == ChainOf(m, start)
       IN  [i \in 1 .. Len(ch) * Csize |-> Clust2Sect(ch[((i - 1) \div Csize) + 1]) + ((i - 1) % Csize)]

Table(m, start) ==
  LET s == SectorsOf(m, start)
  IN  [i \in 1 .. Len(s) * SpS |-> m[s[((i - 1) \div SpS) + 1]][((i - 1) % SpS) + 1]]

Entries(m, start, kinds) ==
  LET t == Table(m, start) IN {t[i] : i \in {j \in DOMAIN t : t[j].kind \in kinds}}

\* The directories that can be reached from the root: start cluster and id.
Tables(m) ==
  LET at[k \in 0 .. MaxObjs] ==
        IF k = 0 THEN {<<0, 0>>}
        ELSE LET p == at[k - 1]
             IN  p \cup UNION {{<<e.clu, e.id>> : e \in Entries(m, t[1], {"dir"})} : t \in p}
  IN  at[MaxObjs]

Tree(m) ==
  UNION {{[dir |-> t[2], name |-> e.name, obj |-> e.id, table |-> e.kind = "dir"] : e \in Entries(m, t[1], {"file", "dir"})}
         : t \in Tables(m)}

Now == View(card, win)

\* Once a directory has two names, removing one frees the table of both.
Single ==
  \A s, t \in Sectors : \A i, j \in Slots :
    Now[s][i].kind = "dir" /\ Now[t][j].kind = "dir" /\ Now[s][i].clu = Now[t][j].clu => s = t /\ i = j

-----------------------------------------------------------------------------
(* Actions.                                                                *)

NoListing == [open |-> FALSE, dp |-> NoDp, id |-> 0, failed |-> FALSE]
Formatted ==
  [s \in Sectors |-> IF s < Database THEN Blank ELSE [i \in Slots |-> Junk]]

Init ==
  /\ card = [s \in Sectors \cup {FatSect} |->
               IF s = FatSect THEN [c \in Clus |-> 0] ELSE Formatted[s]]
  /\ win = Empty /\ dir = NoListing
  /\ created = 0 /\ stops = 0 /\ ret = [op |-> "other", ok |-> TRUE]
  /\ told = {} /\ due = {} /\ heard = "none" /\ torn = FALSE
  /\ tree = {} /\ saved = {}

\* A call ends at its end, or is stopped at one of its transfers: the number of
\* the transfer, and whether the power goes.
Points(transfers) == {<<0, FALSE>>} \cup ((1 .. IF stops = MaxStops THEN 0 ELSE transfers) \X BOOLEAN)
Endings(Op(_)) ==
  {Op(Volume(s[1], s[2])) : s \in Points(0 - Op(Volume(0, FALSE)).left)}

\* What the listed directory holds in the sectors m.
Here(d, m) ==
  IF d.open /\ <<d.dp.start, d.id>> \in Tables(m)
  THEN {<<e.name, e.id>> : e \in Entries(m, d.dp.start, {"file", "dir"})} ELSE {}

Ended(op, v) ==
  /\ card' = v.card
  /\ win' = IF v.power THEN Empty ELSE v.win
  /\ ret' = [op |-> op, ok |-> Ok(v) /\ ~v.power]
  /\ stops' = stops + (IF v.hit \/ v.power THEN 1 ELSE 0)
  /\ torn' = (torn \/ v.torn)
  /\ tree' = IF View(card', win') = Now THEN tree ELSE Tree(View(card', win'))
  /\ saved' = IF card' = card THEN saved ELSE Tree(card')

\* The listing after a call that is no part of it.
Aside(v) ==
  /\ dir' = IF v.power THEN NoListing ELSE dir
  /\ told' = told \cap Here(dir', View(card', win'))
  /\ due' = due \cap Here(dir', View(card', win'))
  /\ heard' = "none"

Call(op, Op(_)) == \E v \in Endings(Op) : Ended(op, v) /\ Aside(v)

\* A call that makes an object when it gets as far as that.
NewObject(op, Op(_)) ==
  /\ Single /\ created < MaxObjs
  /\ \E v \in Endings(Op) :
       /\ Ended(op, v) /\ Aside(v)
       /\ created' = created + (IF v.res \in {"OK", "DISK_ERR"} THEN 1 ELSE 0)

FOpen == \E p \in Paths : NewObject("create", LAMBDA v : Create(v, p, created + 1))
FMkdir == \E p \in Paths : NewObject("mkdir", LAMBDA v : Mkdir(v, p, created + 1))
FUnlink ==
  /\ Single
  /\ \E p \in Paths, rdo \in BOOLEAN : Call("unlink", LAMBDA v : Unlink(v, p, rdo))
  /\ UNCHANGED created
FRename ==
  /\ Single
  /\ \E p, q \in Paths : Call("rename", LAMBDA v : Rename(v, p, q))
  /\ UNCHANGED created
FChmod ==
  /\ \E p \in Paths : Call("other", LAMBDA v : Chmod(v, p))
  /\ UNCHANGED created
FSetlabel ==
  /\ \E l \in {""} \cup Labels : Call("other", LAMBDA v : SetLabel(v, l))
  /\ UNCHANGED created

\* Power fails between two calls.
PowerLoss ==
  /\ stops < MaxStops
  /\ LET v == Volume(1, TRUE) IN Ended("other", v) /\ Aside(v)
  /\ UNCHANGED created

FOpendir ==
  /\ ~dir.open
  /\ \E p \in Listed : \E v \in Endings(LAMBDA x : Opendir(x, p)) :
       /\ Ended("other", v)
       /\ dir' = IF Ok(v) /\ ~v.power
                 THEN [NoListing EXCEPT !.open = TRUE, !.dp = v.dp, !.id = v.val] ELSE dir
       /\ told' = {} /\ due' = Here(dir', View(card', win')) /\ heard' = "none"
  /\ UNCHANGED created

\* What was delivered in v, seen from the entries of the directory.
Delivered(v) ==
  LET e == <<v.val.name, v.val.id>>
  IN  CASE ~Ok(v) -> "failed"
        [] Ok(v) /\ v.val.kind = "end" -> "end"
        [] Ok(v) /\ v.val.kind # "end" /\ <<dir.dp.start, dir.id>> \notin Tables(Now) -> "gone"
        [] OTHER -> IF e \in told THEN "again" ELSE IF e \in Here(dir, Now) THEN "entry" ELSE "phantom"

FReaddir ==
  /\ dir.open
  /\ \E v \in Endings(LAMBDA x : Readdir([x EXCEPT !.dp = dir.dp])) :
       LET e == {<<v.val.name, v.val.id>>}
           new == IF Ok(v) THEN e ELSE {}
       IN  /\ Ended("other", v)
           /\ heard' = IF v.power THEN "none" ELSE Delivered(v)
           /\ dir' = IF v.power THEN NoListing ELSE [dir EXCEPT !.dp = v.dp, !.failed = @ \/ ~Ok(v)]
           /\ told' = IF v.power THEN {} ELSE told \cup (due \cap new)
           /\ due' = IF v.power THEN {} ELSE due \ new
  /\ UNCHANGED created

\* f_readdir without a buffer: back to the first entry.
FRewind ==
  /\ dir.open
  /\ dir' = [dir EXCEPT !.dp = DirSdi(Volume(0, FALSE), dir.dp.start).dp, !.failed = FALSE]
  /\ told' = {} /\ due' = Here(dir, Now) /\ heard' = "none"
  /\ ret' = [op |-> "other", ok |-> TRUE]
  /\ UNCHANGED <<card, win, created, stops, torn, tree, saved>>

FClosedir ==
  /\ dir.open
  /\ dir' = NoListing /\ told' = {} /\ due' = {} /\ heard' = "none"
  /\ ret' = [op |-> "other", ok |-> TRUE]
  /\ UNCHANGED <<card, win, created, stops, torn, tree, saved>>

Next ==
  \/ FOpen \/ FMkdir \/ FUnlink \/ FRename \/ FChmod \/ FSetlabel
  \/ FOpendir \/ FReaddir \/ FRewind \/ FClosedir \/ PowerLoss

Spec == Init /\ [][Next]_vars

-----------------------------------------------------------------------------
(* Properties.                                                             *)

\* The variables hold what the C types hold; the window, when it is clean and
\* valid, is a copy of its sector.
TypeOK ==
  /\ card[FatSect] \in [Clus -> Clus \cup {0, EOC}]
  /\ win.at \in Sectors \cup {FatSect, NoSect}
  /\ win.dirty \/ win.at = NoSect \/ win.data = card[win.at]
  /\ dir.dp.sect \in Sectors \cup {0} \/ dir.failed
  /\ created \in 0 .. MaxObjs /\ stops \in 0 .. MaxStops

\* In each table that can be reached names are unique, the root holds at most
\* one label and no other table any, nothing is behind the first slot that
\* was never used, and every entry was put there by a call: dir_alloc,
\* dir_next, f_mkdir and f_setlabel (ff.c:1546, 1509, 4574, 5001) keep this
\* through every failure and power loss, except that a table stretched in a
\* call that is stopped ends in what its new cluster held before.
TablesSound ==
  \A t \in Tables(Now) :
    LET s == Table(Now, t[1])
        of(kinds) == {i \in DOMAIN s : s[i].kind \in kinds}
    IN  /\ \A i, j \in of({"file", "dir"}) : s[i].name = s[j].name => i = j
        /\ Cardinality(of({"label"})) <= IF t[1] = 0 THEN 1 ELSE 0
        /\ \A i \in of({"end"}), j \in of({"file", "dir", "label"}) : j < i
        /\ torn \/ of({"junk"}) = {}

\* The tree holds together: the tables of two directories share no cluster,
\* each begins with its dot entries, and ".." leads to the directory that
\* holds the entry, also when f_rename moved it (ff.c:4702) and was stopped.
TreeSound ==
  Single => \A t, u \in Tables(Now) :
    LET s == SectorsOf(Now, t[1])
        r == SectorsOf(Now, u[1])
    IN  /\ t = u \/ {s[i] : i \in DOMAIN s} \cap {r[i] : i \in DOMAIN r} = {}
        /\ \A e \in Entries(Now, t[1], {"dir"}) :
             /\ Table(Now, e.clu)[1] = Dot(e.clu) /\ Table(Now, e.clu)[2] = Dot(t[1])
             /\ \A i \in DOMAIN ChainOf(Now, e.clu) : Now[FatSect][ChainOf(Now, e.clu)[i]] # 0

\* The entries of a table with a name; the tables that a path leads to before its
\* last name; whether it leads to an entry.
Called(m, start, kinds, name) == {e \in Entries(m, start, kinds) : e.name = name}
Leading(m, path) ==
  LET at[k \in 0 .. Len(path) - 1] ==
        IF k = 0 THEN {0} ELSE UNION {{e.clu : e \in Called(m, c, {"dir"}, path[k])} : c \in at[k - 1]}
  IN  at[Len(path) - 1]
Found(m, path) == \E c \in Leading(m, path) : Called(m, c, {"file", "dir"}, LastName(path)) # {}

\* f_stat finds a name exactly when the table holds it, wherever deletions and
\* stretching left it, and f_getlabel the label (ff.c:2166, 2089).
Answers ==
  /\ \A p \in Paths : Ok(Stat(Volume(0, FALSE), p)) <=> Found(Now, p)
  /\ LET labels == {e.name : e \in Entries(Now, 0, {"label"})}
     IN  {GetLabel(Volume(0, FALSE))} = IF labels = {} THEN {""} ELSE labels

\* A listing delivers each entry that is there from its begin to its end, once,
\* and nothing else, while other calls create, rename and remove entries
\* between two calls of f_readdir (ff.c:4195).  Not when the directory itself
\* was removed, a call of f_readdir failed, or the table was torn.
ListedOnce ==
  ~dir.failed /\ ~torn => heard \notin {"again", "phantom"} /\ (heard = "end" => due = {})

\* The calls keep what the name space promises.
Promise == INSTANCE Namespace WITH
  ns <- tree, durable <- saved, ret <- ret
KeepsPromise == Promise!Spec

=============================================================================
