----------------------------- MODULE FatVolume -----------------------------
(***************************************************************************)
(* Cluster allocation in firmware/ff.c: the FAT, the directory entries and *)
(* the one-sector window through which both reach the card, under every    *)
(* call that changes them: f_open, f_write, f_lseek, f_truncate, f_expand, *)
(* f_sync, f_close, f_unlink, f_mkdir, f_getfree.                          *)
(*                                                                         *)
(* A FAT16 volume whose root directory fits in one sector.  Sizes and file *)
(* positions count clusters: a call moves by whole clusters, so fptr is    *)
(* always on a boundary (the bytes within a cluster are not modelled       *)
(* here).  The volume mutex lets one call run at a time; a call is         *)
(* a sequence of steps, one per FAT or directory access that may move the  *)
(* window, so that the power can fail between any two of them.  Each       *)
(* sector transfer may fail.  A file that only reads has no effect on any  *)
(* of this; the sharing rules let one handle at most write a file, so an   *)
(* open file is named by its entry.                                        *)
(***************************************************************************)
EXTENDS Integers, FiniteSets, Sequences

CONSTANTS
  NClust,     \* clusters of the volume
  Files,      \* entries of the root directory
  NoFile,
  FatSec,     \* cluster -> sector of the FAT that holds its entry
  MaxSize,    \* bound: clusters a call writes, seeks to or expands to
  Bounds      \* bounds on trouble: [faults, crashes, counting], how many transfers
              \* fail, how often the power is lost, whether f_getfree is called

NFatEnt == NClust + 2  \* n_fatent
Clus == 2 .. NFatEnt - 1
EOC == NFatEnt         \* any value from n_fatent on ends a chain
Dir == "dir"           \* the sector of the root directory
Data == "data"         \* a sector of the data area
NoSect == "none"       \* winsect = 0xFFFFFFFF
FatSecs == {FatSec[c] : c \in Clus}
Unknown == 0 - 1       \* free_clst = 0xFFFFFFFF
Full == 0              \* results of create_chain other than a cluster
IntErr == 1
DiskErr == 0 - 1
NoHint == 1            \* any last_clst that is not a cluster

ASSUME VolumeAssumption ==
  /\ NClust \in Nat \ {0}
  /\ \A c \in Clus : FatSec[c] \notin {Dir, Data, NoSect}
  /\ IsFiniteSet(Files) /\ NoFile \notin Files
  /\ MaxSize \in Nat
  /\ Bounds \subseteq [faults : Nat, crashes : Nat, counting : BOOLEAN]

VARIABLES
  fat, ents,    \* the FAT and the directory as a read through the window sees them
  disk,         \* what is on the card: [fat, ents]
  win, wflag,   \* the sector in the window, and whether it is dirty
  fil,          \* FIL objects open for writing
  last, free,   \* last_clst, free_clst
  call,         \* the call in progress
  faults, crashes, bound, \* the trouble so far, and the element of Bounds that limits it
  cut,          \* history: files f_truncate shortened, old entry still on the card
  snap,         \* history: the clusters of a file when f_sync last made them durable
  ret,          \* history: the file, if the last call was an f_sync or f_close that succeeded
  failed        \* history: a call has returned an error of the disk or of the FAT

window == <<disk, win, wflag, faults, cut>>
budget == <<crashes, bound>>
hist == <<budget, snap>>
vars == <<fat, ents, window, fil, last, free, call, hist, ret, failed>>

NoEntry == [used |-> FALSE, dir |-> FALSE, start |-> 0, size |-> 0]
FileEntry(s, n) == [used |-> TRUE, dir |-> FALSE, start |-> s, size |-> n]
DirEntry(s) == [used |-> TRUE, dir |-> TRUE, start |-> s, size |-> 0]

\* fptr is pos, objsize is size; mod is FA_MODIFIED.  clust means nothing, and
\* is 0, while pos is 0.
Closed == [open |-> FALSE, sclust |-> 0, size |-> 0, pos |-> 0, clust |-> 0,
           mod |-> FALSE, err |-> FALSE]
Opened(s, n, m) == [Closed EXCEPT !.open = TRUE, !.sclust = s, !.size = n, !.mod = m]

\* A call: its file, where it is, two cluster arguments and a count.
Idle == [op |-> "none", f |-> NoFile, pc |-> "idle", a |-> 0, b |-> 0, n |-> 0, r |-> 0]
At(op, f, pc, a, b, n) == [op |-> op, f |-> f, pc |-> pc, a |-> a, b |-> b, n |-> n, r |-> 0]

-----------------------------------------------------------------------------
(* The window.                                                             *)

\* The entry in the directory is not what the open file says it is, or will
\* say when the f_truncate in progress is done.
Stale(f) ==
  \/ fil[f].open /\ <<ents[f].start, ents[f].size>> # <<fil[f].sclust, fil[f].size>>
  \/ call.op = "truncate" /\ call.f = f

OnCard == [disk |-> disk, cut |-> cut]

\* sync_window: a dirty window is written back.
Flushed ==
  IF ~wflag THEN OnCard
  ELSE [disk |-> [fat |-> [c \in Clus |-> IF FatSec[c] = win THEN fat[c] ELSE disk.fat[c]],
                  ents |-> IF win = Dir THEN ents ELSE disk.ents],
        cut |-> IF win = Dir THEN {f \in cut : Stale(f)} ELSE cut]

\* move_window, for an access to the sectors S that ends at s.  A failed write
\* leaves the window as it is, a failed read leaves it empty.
MoveWindow(S, s) ==
  IF S = {win} THEN {[ok |-> TRUE, win |-> win, wflag |-> wflag, card |-> OnCard, cost |-> 0]}
  ELSE {[ok |-> TRUE, win |-> s, wflag |-> FALSE, card |-> Flushed, cost |-> 0]}
       \cup (IF faults = bound.faults THEN {}
             ELSE {[ok |-> FALSE, win |-> NoSect, wflag |-> FALSE, card |-> Flushed, cost |-> 1]}
                  \cup (IF wflag THEN {[ok |-> FALSE, win |-> win, wflag |-> TRUE,
                                        card |-> OnCard, cost |-> 1]} ELSE {}))
Load(s) == MoveWindow({s}, s)

\* get_fat: the access to the entry of cluster c, whose value is then fat[c].
GetFat(c) == Load(FatSec[c])

\* put_fat, after the same access o: the entry changes in the window.
PutFat(o, c, v) == fat' = IF o.ok THEN [fat EXCEPT ![c] = v] ELSE fat

\* The window after the access o; dirty says whether the call then changed it.
Moved(o, dirty) ==
  /\ win' = o.win /\ wflag' = (o.wflag \/ dirty)
  /\ disk' = o.card.disk /\ cut' = o.card.cut
  /\ faults' = faults + o.cost

-----------------------------------------------------------------------------
(* Calls: how they begin and end.                                          *)

Result(op, f, ok) ==
  /\ ret' = IF op \in {"sync", "close"} /\ ok THEN f ELSE NoFile
  /\ failed' = (failed \/ ~ok)

Return(ok) == call' = Idle /\ Result(call.op, call.f, ok)

\* A call that ends in its first step.
ReturnAtOnce(op, f, ok) == Result(op, f, ok) /\ UNCHANGED call

Begin(c) == call' = c /\ ret' = NoFile /\ UNCHANGED failed
Goto(c) == call' = c /\ UNCHANGED <<ret, failed>>
CanBegin == call.pc = "idle"

\* create_chain or remove_chain comes back with r.
Back(r) == Goto([call EXCEPT !.pc = "got", !.b = 0, !.r = r])

-----------------------------------------------------------------------------
(* create_chain.                                                           *)

\* The order in which entries are looked at, from the one after s.
After(s, i) == IF s + i < NFatEnt THEN s + i ELSE s + i - NClust
Seen(s, i) == {FatSec[After(s, j)] : j \in 1 .. i}

\* Mutant of FreeAt: the search ends at the end of the FAT.
FreeAtNoWrap(s) ==
  IF \A c \in Clus : c > s => fat[c] # 0 THEN 0
  ELSE CHOOSE i \in 1 .. NClust :
         After(s, i) > s /\ fat[After(s, i)] = 0 /\ \A j \in 1 .. i - 1 : fat[After(s, j)] # 0

\* How many entries are looked at to find a free one; 0 when there is none.
FreeAt(s) ==
  IF \A c \in Clus : fat[c] # 0 THEN 0
  ELSE CHOOSE i \in 1 .. NClust :
         fat[After(s, i)] = 0 /\ \A j \in 1 .. i - 1 : fat[After(s, j)] # 0

SearchFrom(a) == IF a # 0 THEN a ELSE IF last \in Clus THEN last ELSE NoHint

\* Mutant of Taken: the hint is the cluster after the one allocated.
TakenPast(c) ==
  /\ last' = c + 1
  /\ free' = IF free # Unknown /\ free < NClust THEN free - 1 ELSE free

\* FSINFO after an allocation: no decrement when all clusters are free, and
\* 0 - 1 is 0xFFFFFFFF.
Taken(c) ==
  /\ last' = c
  /\ free' = IF free # Unknown /\ free < NClust THEN free - 1 ELSE free

\* get_fat of the cluster to stretch, the search, and put_fat of the new one,
\* which is in the sector the search ended in.
ChainFind ==
  /\ call.pc = "chain"
  /\ LET a == call.a
         here == IF a = 0 THEN {} ELSE {FatSec[a]}
         next == IF a = 0 THEN EOC ELSE fat[a]
         s == SearchFrom(a)
         i == FreeAt(s)
         c == After(s, i)
     IN  \/ /\ next < EOC
            /\ \E o \in GetFat(a) :
                 /\ Moved(o, FALSE)
                 /\ Back(IF ~o.ok THEN DiskErr ELSE IF next < 2 THEN IntErr ELSE next)
            /\ UNCHANGED <<fat, last, free>>
         \/ /\ next >= EOC /\ i = 0
            /\ \E o \in MoveWindow(here \cup Seen(s, NClust), FatSec[After(s, NClust)]) :
                 Moved(o, FALSE) /\ Back(IF o.ok THEN Full ELSE DiskErr)
            /\ UNCHANGED <<fat, last, free>>
         \/ /\ next >= EOC /\ i # 0
            /\ \E o \in MoveWindow(here \cup Seen(s, i), FatSec[c]) :
                 /\ Moved(o, o.ok)
                 /\ PutFat(o, c, EOC)
                 /\ \/ ~o.ok /\ Back(DiskErr) /\ UNCHANGED <<last, free>>
                    \/ o.ok /\ a = 0 /\ Back(c) /\ Taken(c)
                    \/ o.ok /\ a # 0 /\ Goto([call EXCEPT !.pc = "link", !.b = c])
                       /\ UNCHANGED <<last, free>>
  /\ UNCHANGED <<ents, fil, hist>>

\* put_fat of the link from the previous cluster.
ChainLink ==
  /\ call.pc = "link"
  /\ \E o \in GetFat(call.a) :
       /\ Moved(o, o.ok)
       /\ PutFat(o, call.a, call.b)
       /\ \/ o.ok /\ Back(call.b) /\ Taken(call.b)
          \/ ~o.ok /\ Back(DiskErr) /\ UNCHANGED <<last, free>>
  /\ UNCHANGED <<ents, fil, hist>>

-----------------------------------------------------------------------------
(* remove_chain: of cluster b on, after the previous cluster a if not 0.    *)

\* Mutant of RemoveCut: the previous cluster keeps its link.
RemoveCutSkipped ==
  /\ call.pc = "cut"
  /\ Goto([call EXCEPT !.pc = "free"])
  /\ UNCHANGED <<fat, ents, window, fil, last, free, hist>>

\* put_fat of the end of the chain in the previous cluster.
RemoveCut ==
  /\ call.pc = "cut"
  /\ \E o \in GetFat(call.a) :
       /\ Moved(o, o.ok)
       /\ PutFat(o, call.a, EOC)
       /\ IF o.ok THEN Goto([call EXCEPT !.pc = "free"]) ELSE Back(DiskErr)
  /\ UNCHANGED <<ents, fil, last, free, hist>>

\* Mutant of OneMore: the count of free clusters is left alone.
OneMoreForgotten == free

\* free_clst++: all values above n_fatent - 2 act alike, one stands for them.
OneMore == IF free = Unknown \/ free > NClust THEN free ELSE free + 1

\* get_fat and put_fat of one cluster; an empty one ends the loop.
RemoveOne ==
  /\ call.pc = "free"
  /\ LET c == call.b
     IN  \E o \in GetFat(c) :
           /\ Moved(o, o.ok /\ fat[c] # 0)
           /\ PutFat(o, c, 0)
           /\ free' = IF o.ok /\ fat[c] # 0 THEN OneMore ELSE free
           /\ IF ~o.ok THEN Back(DiskErr)
              ELSE IF fat[c] \in Clus THEN Goto([call EXCEPT !.b = fat[c]])
              ELSE Back(0)
  /\ UNCHANGED <<ents, fil, last, hist>>

-----------------------------------------------------------------------------
(* f_open for writing.                                                     *)

\* An existing file.
OpenExisting(f) ==
  /\ CanBegin /\ ~fil[f].open
  /\ \E o \in Load(Dir) :
       LET ok == o.ok /\ ents[f].used /\ ~ents[f].dir
       IN  /\ Moved(o, FALSE)
           /\ fil' = IF ok THEN [fil EXCEPT ![f] = Opened(ents[f].start, ents[f].size, FALSE)]
                     ELSE fil
           /\ ReturnAtOnce("open", f, o.ok)
  /\ UNCHANGED <<fat, ents, last, free, hist>>

\* FA_CREATE_ALWAYS: a new entry, or an existing one whose allocation is reset
\* before its chain is removed.
OpenCreate(f) ==
  /\ CanBegin /\ ~fil[f].open /\ ~ents[f].dir
  /\ \E o \in Load(Dir) :
       /\ Moved(o, o.ok)
       /\ ents' = IF o.ok THEN [ents EXCEPT ![f] = FileEntry(0, 0)] ELSE ents
       /\ \/ ~o.ok /\ ReturnAtOnce("open", f, FALSE) /\ UNCHANGED <<fil, snap>>
          \/ o.ok /\ snap' = [snap EXCEPT ![f] = << >>]
             /\ IF ents[f].start = 0
                THEN /\ fil' = [fil EXCEPT ![f] = Opened(0, 0, TRUE)]
                     /\ ReturnAtOnce("open", f, TRUE)
                ELSE /\ Begin(At("create", f, "free", ents[f].start, ents[f].start, 0))
                     /\ UNCHANGED fil
  /\ UNCHANGED <<fat, last, free, budget>>

\* The chain is gone: back to the directory's sector; the hole is suggested for
\* the next allocation.
OpenCreated ==
  /\ call.op = "create" /\ call.pc = "got"
  /\ \/ /\ call.r # 0 /\ Return(FALSE)
        /\ UNCHANGED <<window, fil, last>>
     \/ /\ call.r = 0
        /\ last' = call.a - 1
        /\ \E o \in Load(Dir) :
             /\ Moved(o, FALSE) /\ Return(o.ok)
             /\ fil' = IF o.ok THEN [fil EXCEPT ![call.f] = Opened(0, 0, TRUE)] ELSE fil
  /\ UNCHANGED <<fat, ents, free, hist>>

-----------------------------------------------------------------------------
(* f_write, f_lseek.                                                       *)

Usable(f) == CanBegin /\ fil[f].open /\ ~fil[f].err

\* ABORT: the error stays with the file object, and no call looks at its fptr
\* and clust again.
InError(x) == [x EXCEPT !.err = TRUE, !.pos = 0, !.clust = 0]
Abort(f) == fil' = [fil EXCEPT ![f] = InError(@)] /\ Return(FALSE)

\* Mutant of WriteFrom: the first write always begins a new chain.
WriteFromNew(f, x) == At("write", f, "chain", IF x.pos = 0 THEN 0 ELSE x.clust, 0, 0)

\* Where f_write looks for the cluster at fptr: the start of the chain, or
\* create_chain of the current cluster.
WriteFrom(f, x) ==
  IF x.pos = 0 /\ x.sclust # 0 THEN [At("write", f, "got", 0, 0, 0) EXCEPT !.r = x.sclust]
  ELSE At("write", f, "chain", IF x.pos = 0 THEN 0 ELSE x.clust, 0, 0)

FWrite(f, n) ==
  /\ Usable(f)
  /\ Begin([WriteFrom(f, fil[f]) EXCEPT !.n = n])
  /\ UNCHANGED <<fat, ents, window, fil, last, free, hist>>

Enter(x, c) == [x EXCEPT !.clust = c, !.sclust = IF @ = 0 THEN c ELSE @]
Advance(x) == [x EXCEPT !.pos = @ + 1, !.size = IF x.pos + 1 > @ THEN x.pos + 1 ELSE @]

\* The cluster is there: its data goes to the card, which may fail.
WriteGot ==
  LET f == call.f
      r == call.r
      x == Advance(Enter(fil[f], r))
  IN  /\ call.op = "write" /\ call.pc = "got"
      /\ \/ r \notin Clus \cup {Full} /\ Abort(f) /\ UNCHANGED faults
         \/ /\ r = Full /\ UNCHANGED faults
            /\ fil' = [fil EXCEPT ![f].mod = TRUE] /\ Return(TRUE)
         \/ /\ r \in Clus /\ faults < bound.faults /\ faults' = faults + 1
            /\ fil' = [fil EXCEPT ![f] = InError(Enter(@, r))]
            /\ Return(FALSE)
         \/ /\ r \in Clus /\ UNCHANGED faults
            /\ IF call.n = 1
               THEN fil' = [fil EXCEPT ![f] = [x EXCEPT !.mod = TRUE]] /\ Return(TRUE)
               ELSE /\ fil' = [fil EXCEPT ![f] = x]
                    /\ Goto([WriteFrom(f, x) EXCEPT !.n = call.n - 1])
      /\ UNCHANGED <<fat, ents, disk, win, wflag, cut, last, free, hist>>

\* f_lseek arrives: the file grows when the target is beyond its end.
Arrive(x, n) == [x EXCEPT !.pos = n, !.size = IF n > @ THEN n ELSE @,
                          !.mod = IF n > x.size THEN TRUE ELSE @]

\* Mutant of SeekFrom: the cluster that ends at fptr is taken for the next one.
SeekFromEdge(f, k, x) ==
  IF x.pos > 0 /\ k >= x.pos THEN [x EXCEPT !.pos = x.pos]
  ELSE [x EXCEPT !.pos = 0, !.clust = x.sclust]

\* f_lseek to k > 0 starts at the current cluster or at the first one.
SeekFrom(f, k, x) ==
  IF x.pos > 0 /\ k >= x.pos THEN [x EXCEPT !.pos = x.pos - 1]
  ELSE [x EXCEPT !.pos = 0, !.clust = x.sclust]

\* The step after: n clusters to go from the current one.
SeekOn(f, x, n) ==
  IF x.clust # 0 /\ n = 1
  THEN fil' = [fil EXCEPT ![f] = Arrive(x, x.pos + 1)]
  ELSE fil' = [fil EXCEPT ![f] = x]

FLseek(f, k) ==
  /\ Usable(f)
  /\ LET x == SeekFrom(f, k, fil[f])
     IN  IF k = 0 THEN fil' = [fil EXCEPT ![f].pos = 0, ![f].clust = 0] /\ ReturnAtOnce("lseek", f, TRUE)
         ELSE /\ SeekOn(f, x, k - x.pos)
              /\ IF x.clust # 0 /\ k - x.pos = 1 THEN ReturnAtOnce("lseek", f, TRUE)
                 ELSE Begin(At("lseek", f, "chain", x.clust, 0, k - x.pos))
  /\ UNCHANGED <<fat, ents, window, last, free, hist>>

\* The first cluster of the file was allocated (a = 0), or the chain followed or
\* stretched.  A full volume clips the seek to the clusters there are.
SeekGot ==
  LET f == call.f
      r == call.r
      x == IF call.a = 0 THEN [fil[f] EXCEPT !.sclust = r, !.clust = r]
           ELSE [fil[f] EXCEPT !.clust = r, !.pos = @ + 1]
      n == IF call.a = 0 THEN call.n ELSE call.n - 1
  IN  /\ call.op = "lseek" /\ call.pc = "got"
      /\ \/ r \notin Clus \cup {Full} /\ Abort(f)
         \/ r = Full /\ Return(TRUE)
            /\ fil' = [fil EXCEPT ![f] = IF call.a = 0 THEN x
                                       ELSE Arrive(fil[f], fil[f].pos + 1)]
         \/ /\ r \in Clus
            /\ SeekOn(f, x, n)
            /\ IF n = 1 THEN Return(TRUE)
               ELSE Goto([call EXCEPT !.pc = "chain", !.a = r, !.n = n])
      /\ UNCHANGED <<fat, ents, window, last, free, hist>>

-----------------------------------------------------------------------------
(* f_truncate, f_expand.                                                   *)

\* The end of f_truncate: the size is set also when the chain was not removed.
Shortened(f, ok) ==
  LET x == [fil[f] EXCEPT !.sclust = IF fil[f].pos = 0 THEN 0 ELSE @,
                          !.size = fil[f].pos, !.mod = TRUE]
  IN  fil' = [fil EXCEPT ![f] = IF ok THEN x ELSE InError(x)]

FTruncate(f) ==
  /\ Usable(f) /\ fil[f].size > fil[f].pos
  /\ LET x == fil[f]
     IN  IF x.pos = 0
         THEN /\ IF x.sclust \in Clus
                 THEN /\ Begin(At("truncate", f, "free", 0, x.sclust, 0))
                      /\ UNCHANGED fil
                 ELSE ReturnAtOnce("truncate", f, FALSE) /\ Shortened(f, FALSE)
              /\ cut' = cut \cup {f} /\ snap' = [snap EXCEPT ![f] = << >>]
              /\ UNCHANGED <<disk, win, wflag, faults>>
         ELSE \E o \in GetFat(x.clust) :
              LET next == fat[x.clust]
              IN  /\ win' = o.win /\ wflag' = o.wflag
                  /\ disk' = o.card.disk /\ cut' = o.card.cut \cup {f}
                  /\ faults' = faults + o.cost
                  /\ IF o.ok /\ next \in Clus
                     THEN /\ Begin(At("truncate", f, "cut", x.clust, next, 0))
                          /\ UNCHANGED fil
                     ELSE /\ ReturnAtOnce("truncate", f, o.ok /\ next = EOC)
                          /\ Shortened(f, o.ok /\ next = EOC)
                  /\ snap' = [snap EXCEPT ![f] = << >>]
  /\ UNCHANGED <<fat, ents, last, free, budget>>

Truncated ==
  /\ call.op = "truncate" /\ call.pc = "got"
  /\ Shortened(call.f, call.r = 0)
  /\ Return(call.r = 0)
  /\ UNCHANGED <<fat, ents, window, last, free, hist>>

\* The search of f_expand for k free clusters in a row, from s: how many entries
\* it looks at, 0 when it comes round without success.  The row may run over
\* the end of the FAT.
RowAt(s, k) ==
  LET Row(i) == i >= k /\ \A j \in i - k + 1 .. i : fat[After(s - 1, j)] = 0
  IN  IF \A i \in 1 .. NClust : ~Row(i) THEN 0
      ELSE CHOOSE i \in 1 .. NClust : Row(i) /\ \A j \in 1 .. i - 1 : ~Row(j)

\* With opt = 0 the result of the search is dropped.
FExpand(f, k, opt) ==
  /\ Usable(f) /\ fil[f].size = 0
  /\ LET s == IF last \in Clus THEN last ELSE 2
         i == RowAt(s, k)
         seen == IF i = 0 THEN NClust ELSE i
         c == After(s - 1, i - k + 1)
     IN  \E o \in MoveWindow(Seen(s - 1, seen), FatSec[After(s - 1, seen)]) :
           /\ Moved(o, FALSE)
           /\ IF o.ok /\ i # 0 /\ opt = 1 THEN Begin(At("expand", f, "fill", c, c, k))
              ELSE ReturnAtOnce("expand", f, o.ok)
  /\ UNCHANGED <<fat, ents, fil, last, free, hist>>

\* put_fat of one link of the row: cluster b, the first being a, n to go.
ExpandFill ==
  /\ call.op = "expand" /\ call.pc = "fill"
  /\ LET f == call.f
         c == call.b
     IN  IF c \notin Clus
         THEN Return(FALSE) /\ UNCHANGED <<fat, window, fil, last>>
         ELSE \E o \in GetFat(c) :
              /\ Moved(o, o.ok)
              /\ PutFat(o, c, IF call.n = 1 THEN EOC ELSE c + 1)
              /\ IF o.ok /\ call.n > 1
                 THEN /\ Goto([call EXCEPT !.b = c + 1, !.n = @ - 1])
                      /\ UNCHANGED <<fil, last>>
                 ELSE /\ Return(o.ok)
                      /\ last' = IF o.ok THEN c ELSE last
                      /\ fil' = IF o.ok
                                THEN [fil EXCEPT ![f] = [@ EXCEPT !.sclust = call.a,
                                        !.size = c - call.a + 1, !.mod = TRUE]]
                                ELSE fil
  /\ UNCHANGED <<ents, free, hist>>

-----------------------------------------------------------------------------
(* f_sync, f_close, f_unlink, f_mkdir, f_getfree.                          *)

\* The first n clusters of the chain from c on, in the FAT t.
Walk(t, c, n) ==
  LET w[k \in 0 .. n] ==
        IF k = 0 THEN << >>
        ELSE LET x == IF k = 1 THEN c ELSE IF Len(w[k - 1]) = k - 1 THEN t[w[k - 1][k - 1]] ELSE 0
             IN  IF x \in Clus THEN Append(w[k - 1], x) ELSE w[k - 1]
  IN  w[n]

CloseIf(op, f, x) == fil' = [fil EXCEPT ![f] = IF op = "close" THEN Closed ELSE x]

\* f_sync, alone or in f_close: nothing to do, the dirty sector of the file does
\* not reach the card, or the entry is updated in the window.
FSync(op, f) ==
  /\ CanBegin /\ fil[f].open
  /\ \/ /\ ~fil[f].mod
        /\ CloseIf(op, f, fil[f]) /\ ReturnAtOnce(op, f, TRUE)
        /\ UNCHANGED <<ents, window>>
     \/ /\ fil[f].mod /\ faults < bound.faults /\ faults' = faults + 1
        /\ ReturnAtOnce(op, f, FALSE)
        /\ UNCHANGED <<ents, fil, disk, win, wflag, cut>>
     \/ /\ fil[f].mod
        /\ \E o \in Load(Dir) :
             /\ Moved(o, o.ok)
             /\ \/ ~o.ok /\ ReturnAtOnce(op, f, FALSE) /\ UNCHANGED ents
                \/ o.ok /\ Begin(At(op, f, "sync", 0, 0, 0))
                   /\ ents' = [ents EXCEPT ![f] = FileEntry(fil[f].sclust, fil[f].size)]
        /\ UNCHANGED fil
  /\ UNCHANGED <<fat, last, free, hist>>

\* sync_fs: the window is written, then the drive is told to finish.
SyncFs(ok) ==
  \/ /\ ok /\ wflag' = FALSE /\ disk' = Flushed.disk /\ cut' = Flushed.cut
     /\ UNCHANGED <<win, faults>>
  \/ /\ ~ok /\ faults < bound.faults /\ faults' = faults + 1
     /\ \/ wflag' = FALSE /\ disk' = Flushed.disk /\ cut' = Flushed.cut
        \/ wflag /\ UNCHANGED <<wflag, disk, cut>>
     /\ UNCHANGED win

\* Mutant of SyncEnd: f_sync leaves the entry in the window.
SyncEndLazy ==
  LET f == call.f
  IN  /\ call.pc = "sync" /\ call.op \in {"sync", "close"}
      /\ UNCHANGED window
      /\ Return(TRUE)
      /\ CloseIf(call.op, f, [fil[f] EXCEPT !.mod = FALSE])
      /\ snap' = [snap EXCEPT ![f] = Walk(fat, fil[f].sclust, fil[f].size)]
      /\ UNCHANGED <<fat, ents, last, free, budget>>

\* The end of f_sync: FA_MODIFIED is cleared whether or not sync_fs succeeded.
SyncEnd ==
  LET f == call.f
      x == [fil[f] EXCEPT !.mod = FALSE]
  IN  /\ call.pc = "sync" /\ call.op \in {"sync", "close"}
      /\ \E ok \in BOOLEAN :
           /\ SyncFs(ok) /\ Return(ok)
           /\ IF ok THEN CloseIf(call.op, f, x) ELSE fil' = [fil EXCEPT ![f] = x]
           /\ snap' = [snap EXCEPT ![f] = IF ok THEN Walk(fat, x.sclust, x.size) ELSE @]
      /\ UNCHANGED <<fat, ents, last, free, budget>>

\* Mutant of FUnlink: the window is not marked dirty.
FUnlinkClean(f) ==
  /\ CanBegin /\ ~fil[f].open /\ ents[f].used
  /\ \E o \in Load(Dir) :
       /\ Moved(o, FALSE)
       /\ \/ ~o.ok /\ ReturnAtOnce("unlink", f, FALSE) /\ UNCHANGED <<ents, snap>>
          \/ o.ok /\ ents' = [ents EXCEPT ![f] = NoEntry]
             /\ snap' = [snap EXCEPT ![f] = << >>]
             /\ Begin(At("unlink", f, IF ents[f].start # 0 THEN "free" ELSE "sync",
                         0, ents[f].start, 0))
  /\ UNCHANGED <<fat, fil, last, free, budget>>

\* f_unlink: the entry goes, then the chain.  A directory is read first.
FUnlink(f) ==
  /\ CanBegin /\ ~fil[f].open /\ ents[f].used
  /\ \E o \in MoveWindow(IF ents[f].dir THEN {Data, Dir} ELSE {Dir}, Dir) :
       /\ Moved(o, o.ok)
       /\ \/ ~o.ok /\ ReturnAtOnce("unlink", f, FALSE) /\ UNCHANGED <<ents, snap>>
          \/ o.ok /\ ents' = [ents EXCEPT ![f] = NoEntry]
             /\ snap' = [snap EXCEPT ![f] = << >>]
             /\ Begin(At("unlink", f, IF ents[f].start # 0 THEN "free" ELSE "sync",
                         0, ents[f].start, 0))
  /\ UNCHANGED <<fat, fil, last, free, budget>>

Unlinked ==
  /\ call.op = "unlink" /\ call.pc = "got"
  /\ IF call.r = 0 THEN Goto([call EXCEPT !.pc = "sync"]) ELSE Return(FALSE)
  /\ UNCHANGED <<fat, ents, window, fil, last, free, hist>>

\* The final sync_fs of f_unlink and f_mkdir.
EntrySync ==
  /\ call.pc = "sync" /\ call.op \in {"unlink", "mkdir"}
  /\ \E ok \in BOOLEAN : SyncFs(ok) /\ Return(ok)
  /\ UNCHANGED <<fat, ents, fil, last, free, hist>>

\* f_mkdir: the name is looked up, then a cluster allocated.
FMkdir(f) ==
  /\ CanBegin /\ ~ents[f].used
  /\ \E o \in Load(Dir) :
       /\ Moved(o, FALSE)
       /\ IF o.ok THEN Begin(At("mkdir", f, "chain", 0, 0, 0))
          ELSE ReturnAtOnce("mkdir", f, FALSE)
  /\ UNCHANGED <<fat, ents, fil, last, free, hist>>

\* With the cluster: the FAT is flushed and the directory's sectors are written
\* through the window.  A failure takes the cluster back.
MkdirGot ==
  /\ call.op = "mkdir" /\ call.pc = "got"
  /\ \/ call.r \notin Clus /\ Return(call.r = Full) /\ UNCHANGED window
     \/ /\ call.r \in Clus
        /\ win' = Data /\ wflag' = FALSE /\ disk' = Flushed.disk /\ cut' = Flushed.cut
        /\ UNCHANGED faults
        /\ Goto([call EXCEPT !.pc = "register", !.b = call.r])
     \/ /\ call.r \in Clus /\ faults < bound.faults /\ faults' = faults + 1
        /\ \/ win' = Data /\ wflag' = TRUE /\ disk' = Flushed.disk /\ cut' = Flushed.cut
           \/ wflag /\ UNCHANGED <<win, wflag, disk, cut>>
        /\ Goto([call EXCEPT !.op = "undo", !.pc = "free", !.b = call.r])
  /\ UNCHANGED <<fat, ents, fil, last, free, hist>>

\* dir_register.  The root directory has a place for every entry of Files; a
\* disk error takes the cluster back.
MkdirRegister ==
  /\ call.op = "mkdir" /\ call.pc = "register"
  /\ \E o \in Load(Dir) :
       /\ Moved(o, o.ok)
       /\ \/ o.ok /\ ents' = [ents EXCEPT ![call.f] = DirEntry(call.b)]
             /\ Goto([call EXCEPT !.pc = "sync"])
          \/ ~o.ok /\ Goto([call EXCEPT !.op = "undo", !.pc = "free"]) /\ UNCHANGED ents
  /\ UNCHANGED <<fat, fil, last, free, hist>>

\* remove_chain after a failed f_mkdir: its result is not looked at.
MkdirUndone ==
  /\ call.op = "undo" /\ call.pc = "got"
  /\ Return(FALSE)
  /\ UNCHANGED <<fat, ents, window, fil, last, free, hist>>

FreeClus == {c \in Clus : fat[c] = 0}

\* f_getfree scans the FAT when free_clst is not valid.  The count is stored
\* even when the scan ended in an error before the sector of some cluster k.
FGetfree ==
  /\ CanBegin /\ bound.counting
  /\ free = Unknown \/ free > NClust
  /\ \E o \in MoveWindow(FatSecs, FatSec[NFatEnt - 1]), k \in Clus :
       /\ Moved(o, FALSE)
       /\ free' = Cardinality(IF o.ok THEN FreeClus
                              ELSE {c \in FreeClus : c < k /\ FatSec[c] # FatSec[k]})
       /\ ReturnAtOnce("getfree", NoFile, o.ok)
  /\ UNCHANGED <<fat, ents, fil, last, hist>>

-----------------------------------------------------------------------------

\* The power fails and the volume is mounted again.  A crash with an entry on
\* the card that f_truncate has made wrong is where the model ends.
Crash ==
  /\ crashes < bound.crashes /\ crashes' = crashes + 1
  /\ cut = {}
  /\ fat' = disk.fat /\ ents' = disk.ents
  /\ win' = NoSect /\ wflag' = FALSE
  /\ fil' = [f \in Files |-> Closed]
  /\ last' = NoHint /\ free' = Unknown
  /\ call' = Idle /\ ret' = NoFile
  /\ UNCHANGED <<disk, cut, faults, bound, snap, failed>>

\* A freshly formatted volume, just mounted.
Init ==
  /\ fat = [c \in Clus |-> 0] /\ ents = [f \in Files |-> NoEntry]
  /\ disk = [fat |-> fat, ents |-> ents]
  /\ win = NoSect /\ wflag = FALSE
  /\ fil = [f \in Files |-> Closed]
  /\ last = NoHint /\ free = Unknown
  /\ call = Idle /\ ret = NoFile
  /\ faults = 0 /\ crashes = 0 /\ bound \in Bounds /\ cut = {} /\ failed = FALSE
  /\ snap = [f \in Files |-> << >>]

Opens == \E f \in Files : OpenExisting(f) \/ OpenCreate(f)
Moves ==
  \E f \in Files, n \in 0 .. MaxSize :
    \/ n > 0 /\ FWrite(f, n)
    \/ FLseek(f, n)
    \/ n > 0 /\ \E opt \in {0, 1} : FExpand(f, n, opt)
Ends == \E f \in Files : FTruncate(f) \/ FUnlink(f) \/ FMkdir(f)
                         \/ FSync("sync", f) \/ FSync("close", f)
Steps ==
  \/ ChainFind \/ ChainLink \/ RemoveCut \/ RemoveOne
  \/ OpenCreated \/ WriteGot \/ SeekGot \/ Truncated \/ ExpandFill
  \/ SyncEnd \/ Unlinked \/ EntrySync \/ MkdirGot \/ MkdirRegister \/ MkdirUndone

Next == Opens \/ Moves \/ Ends \/ FGetfree \/ Steps \/ Crash

Spec == Init /\ [][Next]_vars

-----------------------------------------------------------------------------
(* Properties.                                                             *)

TypeOK ==
  /\ fat \in [Clus -> 0 .. EOC] /\ disk.fat \in [Clus -> 0 .. EOC]
  /\ \A f \in Files : /\ ents[f].start \in {0} \cup Clus /\ ents[f].size \in 0 .. NClust
                      /\ fil[f].sclust \in {0} \cup Clus /\ fil[f].clust \in {0} \cup Clus
                      /\ fil[f].size \in 0 .. NClust /\ fil[f].pos \in 0 .. NClust
  /\ win \in FatSecs \cup {Dir, Data, NoSect}
  /\ last \in {NoHint} \cup Clus /\ free \in Unknown .. NClust + 1

\* What a chain from c reaches in the FAT t.
Reach(t, c) ==
  LET step[k \in 0 .. NClust] ==
        IF k = 0 THEN {c} \cap Clus
        ELSE step[k - 1] \cup ({t[x] : x \in step[k - 1]} \cap Clus)
  IN  step[NClust]

\* The files of S, with their starts and sizes, are apart from each other, on
\* clusters that are not free, and as long as their sizes say.
Sound(t, S, start, size) ==
  \A f \in S :
    LET R == Reach(t, start[f])
    IN  /\ \A c \in R : t[c] # 0
        /\ Cardinality(R) >= size[f]
        /\ \A g \in S : g # f => R \cap Reach(t, start[g]) = {}

StartOf == [f \in Files |-> IF fil[f].open THEN fil[f].sclust ELSE ents[f].start]
SizeOf == [f \in Files |-> IF fil[f].open THEN fil[f].size ELSE ents[f].size]

\* The file whose chain f_truncate is removing.
Shrinking == IF call.op = "truncate" THEN {call.f} ELSE {}

\* No two files share a cluster, no chain runs into a free cluster, every file
\* has the clusters of its size: after any calls, faults and crashes.
ChainsSound == Sound(fat, Files \ Shrinking, StartOf, SizeOf)

\* The same holds on the card at every moment, so a power loss cross-links
\* nothing; only a file f_truncate has shortened, until its new entry is
\* written, is excepted.
CrashSound ==
  Sound(disk.fat, Files \ cut, [f \in Files |-> disk.ents[f].start],
        [f \in Files |-> disk.ents[f].size])

\* A cluster is either free or in a file, unless a call has failed or the power
\* was lost: no sequence of successful calls loses space.
NothingLost ==
  call.pc = "idle" /\ ~failed /\ crashes = 0 =>
    \A c \in Clus : fat[c] # 0 => \E f \in Files : c \in Reach(fat, StartOf[f])

\* What f_sync or f_close has made durable, a power loss does not take: the
\* entry on the card leads to the same clusters, through later writes of this
\* file and any calls on others, until it is truncated, overwritten or removed.
SyncedSurvives ==
  \A f \in Files :
    Walk(disk.fat, disk.ents[f].start, Len(snap[f])) = snap[f]
      /\ disk.ents[f].size >= Len(snap[f])

\* fp->clust is the cluster of fptr: f_write and f_truncate go on from it
\* without looking at the start of the chain.
CursorOnChain ==
  \A f \in Files : fil[f].open /\ ~fil[f].err /\ call.f # f /\ fil[f].pos > 0 =>
    LET w == Walk(fat, fil[f].sclust, fil[f].pos)
    IN  Len(w) = fil[f].pos /\ w[fil[f].pos] = fil[f].clust

\* A call is told that the volume is full only when no cluster is free, wherever
\* the search started and however stale last_clst is.
FullMeansFull ==
  call.pc = "got" /\ call.op \in {"write", "lseek", "mkdir"} /\ call.r = Full
    => FreeClus = {}

\* f_getfree, whenever it has a count, never reports less space than there is,
\* unless a call has failed.  (It may report more: create_chain does not count
\* down from an empty volume and f_expand does not count at all.)
FreeNotUnderstated ==
  call.pc = "idle" /\ ~failed /\ free # Unknown => free >= Cardinality(FreeClus)

-----------------------------------------------------------------------------
(* What a comment of the code says and the code does not do.               *)

\* f_close, "Flush cached data"; f_sync, "Restore it to the directory": after
\* f_sync or f_close has returned FR_OK the card has the file's entry.
SyncOkIsOnCard ==
  ret # NoFile => disk.ents[ret] = ents[ret]
=============================================================================
