------------------------------- MODULE FileIO -------------------------------
(***************************************************************************)
(* The data of a file in firmware/ff.c: f_open, f_read, f_forward,        *)
(* f_write, f_lseek, f_truncate, f_sync and f_close on one file object     *)
(* with its one-sector cache (_FS_TINY = 0), byte by byte.                 *)
(*                                                                         *)
(* The volume mutex lets one call run at a time.  Each round of the loops  *)
(* of f_read, f_write and f_lseek is a step; any sector transfer and any   *)
(* access to the FAT may fail.  Where create_chain searches and in which   *)
(* order FAT and directory reach the card is the matter of FatVolume: here *)
(* it may return any free cluster, and fat and ent are what the calls see. *)
(* Other files of the volume take and free clusters between the calls.     *)
(***************************************************************************)
EXTENDS Integers, FiniteSets

CONSTANTS
  Clus,       \* clusters of the volume
  Csize,      \* sectors of a cluster
  SS,         \* bytes of a sector
  ReadLengths, WriteLengths,  \* bounds: byte counts of f_read and f_write
  Takes,      \* bound: byte counts the stream of f_forward takes at once
  Offsets,    \* bound: arguments of f_lseek
  MaxWrites,  \* bound: calls of f_write
  MaxFaults,  \* bound: accesses that fail
  None, Other, EOC  \* values of a FAT entry: free, in another file, end of chain

Bcs == Csize * SS
NClust == Cardinality(Clus)
MaxBytes == NClust * Bcs
Sectors == Clus \X (0 .. Csize - 1)
Offs == 0 .. MaxBytes - 1
In == 0 .. SS - 1      \* offsets within a sector

\* A byte is known by the f_write that wrote it; 0 was on the card before.
Junk == 0 - 1          \* left by a transfer that failed
Foreign == 0 - 2       \* of another file
Undef == 0 - 3         \* a byte of the file that nobody wrote
Bytes == 0 .. MaxWrites \cup {Junk, Foreign}

ASSUME FileAssumption ==
  /\ IsFiniteSet(Clus) /\ Clus \cap {None, Other, EOC, Junk} = {}
  /\ Cardinality({None, Other, EOC, Junk}) = 4 /\ None \notin Sectors
  /\ Csize \in Nat \ {0} /\ SS \in Nat \ {0}
  /\ ReadLengths \cup WriteLengths \subseteq Nat \ {0} /\ Offsets \subseteq Nat
  /\ Takes \subseteq Nat
  /\ MaxWrites \in Nat /\ MaxFaults \in Nat

VARIABLES
  fat, ent,     \* FAT entries; start and size in the directory
  data,         \* sectors of the data area
  fil,          \* the file object
  call,         \* the call in progress
  writes, faults,
  content,      \* history: the bytes of the file as written
  safe,         \* history: of those, the ones f_sync made durable, untouched since
  got,          \* history: what the last round of f_read delivered, and from where
  halfCut       \* history: an f_truncate has failed

card == <<fat, ent, data>>
counts == <<writes, faults>>
hist == <<content, safe, got, halfCut>>
vars == <<card, fil, call, counts, hist>>

NoSector == None       \* fp->sect = 0
Unwritten == [i \in Offs |-> Undef]
Nothing == [from |-> 0, bytes |-> [j \in {} |-> 0]]
Idle == [op |-> "none", n |-> 0]
Closed == [open |-> FALSE, write |-> FALSE, fptr |-> 0, size |-> 0, sclust |-> None,
           clust |-> None, sect |-> NoSector, buf |-> [b \in In |-> 0],
           dirty |-> FALSE, mod |-> FALSE, err |-> FALSE]
Opened(w) == [Closed EXCEPT !.open = TRUE, !.write = w, !.size = ent.size, !.sclust = ent.start]

Least(a, b) == IF a < b THEN a ELSE b

\* The cluster n links after c; not a cluster when the chain ends before.
Walk(c, n) ==
  LET w[k \in 0 .. n] == IF k = 0 THEN c ELSE IF w[k - 1] \in Clus THEN fat[w[k - 1]] ELSE EOC
  IN  w[n]

\* clust2sect plus the offset in the cluster.
SectorOf(start, i) == <<Walk(start, i \div Bcs), (i % Bcs) \div SS>>

CanFail == faults < MaxFaults

-----------------------------------------------------------------------------
(* The sector cache.  An outcome: whether the call goes on, the file       *)
(* object, the data area, and the number of failures spent.                *)

Done(x, d) == [ok |-> TRUE, x |-> x, d |-> d, cost |-> 0]
Broken(x, d) == [ok |-> FALSE, x |-> x, d |-> d, cost |-> 1]

\* Write-back of a dirty cache.  A write reported as failed may have been done.
WriteBack(x) ==
  IF ~x.dirty THEN {Done(x, data)}
  ELSE LET written == [data EXCEPT ![x.sect] = x.buf]
       IN  {Done([x EXCEPT !.dirty = FALSE], written)}
           \cup {Broken(x, d) : d \in {e \in {data, written} : CanFail}}

\* Mutant of Fill: the cache is filled over what it still had to write.
FillOver(x, s) ==
  IF x.sect = s THEN {Done(x, data)}
  ELSE {Done([x EXCEPT !.sect = s, !.buf = data[s], !.dirty = FALSE], data)}
       \cup {Broken([x EXCEPT !.buf = [b \in In |-> Junk]], e) : e \in {f \in {data} : CanFail}}

\* The cache is filled with sector s.  A failed read leaves junk in it.
Fill(x, s) ==
  IF x.sect = s THEN {Done(x, data)}
  ELSE UNION {IF ~o.ok THEN {o}
              ELSE {Done([o.x EXCEPT !.sect = s, !.buf = o.d[s]], o.d)}
                   \cup {Broken([o.x EXCEPT !.buf = [b \in In |-> Junk]], e) :
                         e \in {f \in {o.d} : CanFail}}
              : o \in WriteBack(x)}

\* ABORT: the call ends and the file object keeps the error.  From then on only
\* f_sync and f_close use the object; what they do not look at is forgotten.
InError(x) ==
  [(IF x.dirty THEN x ELSE [x EXCEPT !.sect = NoSector, !.buf = Closed.buf])
     EXCEPT !.err = TRUE, !.fptr = 0, !.clust = None]
Abort(x) == fil' = InError(x) /\ call' = Idle

-----------------------------------------------------------------------------
(* create_chain and remove_chain, seen from the file.                      *)

Free == {c \in Clus : fat[c] = None}
Linked(a, c) == [b \in Clus |-> IF b = c THEN EOC ELSE IF b = a THEN c ELSE fat[b]]
Chain(r, f, n) == [r |-> r, fat |-> f, cost |-> n]

\* The cluster after a (None: a first one), the end of the chain stretched if
\* need be; None when the disk is full, Junk for a failure, which may come
\* after a free cluster has been marked.
CreateChain(a) ==
  (IF a # None /\ fat[a] # EOC THEN {Chain(fat[a], fat, 0)}
   ELSE IF Free = {} THEN {Chain(None, fat, 0)}
   ELSE {Chain(c, Linked(a, c), 0) : c \in Free})
  \cup (IF CanFail
        THEN {Chain(Junk, fat, 1)}
             \cup (IF a # None /\ fat[a] = EOC
                   THEN {Chain(Junk, [fat EXCEPT ![c] = EOC], 1) : c \in Free} ELSE {})
        ELSE {})

\* get_fat.
Following(a) == {Chain(fat[a], fat, 0)} \cup (IF CanFail THEN {Chain(Junk, fat, 1)} ELSE {})

\* The chain from c on loses its first n clusters, and what led to it ends at p.
Removed(c, p, n) ==
  LET gone == {Walk(c, k) : k \in 0 .. n - 1}
  IN  [b \in Clus |-> IF b \in gone THEN None ELSE IF b = p THEN EOC ELSE fat[b]]
ChainLength(c) == Cardinality({Walk(c, k) : k \in 0 .. NClust} \cap Clus)

\* remove_chain stops at the first failure: before the cut, or anywhere later.
RemoveChain(c, p) ==
  {Chain(None, Removed(c, p, ChainLength(c)), 0)}
  \cup (IF CanFail
        THEN {Chain(Junk, fat, 1)}
             \cup {Chain(Junk, Removed(c, p, n), 1) : n \in 0 .. ChainLength(c) - 1}
        ELSE {})

Spend(n) == faults' = faults + n

-----------------------------------------------------------------------------
(* f_open.                                                                 *)

CanBegin == call = Idle
Usable == CanBegin /\ fil.open /\ ~fil.err

\* An existing file.
FOpen(w) ==
  /\ CanBegin /\ ~fil.open
  /\ fil' = Opened(w)
  /\ got' = Nothing
  /\ UNCHANGED <<card, call, counts, content, safe, halfCut>>

\* FA_OPEN_APPEND: the last cluster is looked up and, unless the size is a
\* whole number of sectors, the last sector loaded.
FOpenAppend ==
  /\ CanBegin /\ ~fil.open
  /\ got' = Nothing
  /\ LET n == ent.size
         x == IF n = 0 THEN Opened(TRUE)
              ELSE [Opened(TRUE) EXCEPT !.fptr = n, !.clust = Walk(ent.start, (n - 1) \div Bcs)]
     IN  \/ \E o \in Fill(x, IF n % SS = 0 THEN x.sect ELSE SectorOf(ent.start, n)) :
              fil' = (IF o.ok THEN o.x ELSE fil) /\ Spend(o.cost)
         \/ n > Bcs /\ CanFail /\ Spend(1) /\ UNCHANGED fil
  /\ UNCHANGED <<card, call, writes, content, safe, halfCut>>

\* FA_CREATE_ALWAYS: the entry is reset, then the old chain removed, and the window
\* moved back to the entry.
FOpenCreate ==
  /\ CanBegin /\ ~fil.open
  /\ ent' = [start |-> None, size |-> 0]
  /\ \E o \in (IF ent.start = None THEN {Chain(None, fat, 0)} ELSE RemoveChain(ent.start, None)) :
       /\ fat' = o.fat
       /\ \/ /\ Spend(o.cost)
             /\ fil' = IF o.r = Junk THEN fil
                       ELSE [Closed EXCEPT !.open = TRUE, !.write = TRUE, !.mod = TRUE]
          \/ o.r # Junk /\ ent.start # None /\ CanFail /\ Spend(1) /\ UNCHANGED fil
  /\ content' = Unwritten /\ safe' = Unwritten /\ got' = Nothing
  /\ UNCHANGED <<data, call, writes, halfCut>>

-----------------------------------------------------------------------------
(* f_read.                                                                 *)

FRead(n) ==
  /\ Usable /\ fil.fptr < fil.size
  /\ call' = [op |-> "read", n |-> Least(n, fil.size - fil.fptr)]
  /\ got' = Nothing
  /\ UNCHANGED <<card, fil, counts, content, safe, halfCut>>

OnSector == fil.fptr % SS = 0
OnCluster == fil.fptr % Bcs = 0
Csect == (fil.fptr % Bcs) \div SS
Advance(k) == call' = IF call.n = k THEN Idle ELSE [call EXCEPT !.n = @ - k]

\* The cluster at fptr.
ReadCluster ==
  IF ~OnCluster THEN {Chain(fil.clust, fat, 0)}
  ELSE IF fil.fptr = 0 THEN {Chain(fil.sclust, fat, 0)}
  ELSE Following(fil.clust)

\* Mutant of Replaced: what the card holds is delivered.
ReplacedNot(s) == data[s]

\* A sector read directly; one that is dirty in the cache is replaced.
Replaced(s) == IF fil.dirty /\ fil.sect = s THEN fil.buf ELSE data[s]

\* Whole sectors up to the end of the cluster go to the caller directly.
ReadDirect ==
  /\ call.op = "read" /\ OnSector /\ call.n >= SS
  /\ \E o \in ReadCluster :
       LET cc == Least(call.n \div SS, Csize - Csect)
           x == [fil EXCEPT !.clust = o.r]
       IN  \/ /\ o.r \notin Clus
              /\ Abort(fil) /\ Spend(o.cost) /\ got' = Nothing
           \/ /\ o.r \in Clus /\ CanFail
              /\ Abort(x) /\ Spend(1) /\ got' = Nothing
           \/ /\ o.r \in Clus
              /\ got' = [from |-> fil.fptr,
                         bytes |-> [j \in 0 .. cc * SS - 1 |->
                                      Replaced(<<o.r, Csect + j \div SS>>)[j % SS]]]
              /\ fil' = [x EXCEPT !.fptr = @ + cc * SS]
              /\ Advance(cc * SS) /\ UNCHANGED faults
  /\ UNCHANGED <<card, writes, content, safe, halfCut>>

\* A part of a sector comes from the cache.
ReadCached ==
  /\ call.op = "read" /\ (~OnSector \/ call.n < SS)
  /\ \E o \in (IF OnSector THEN ReadCluster ELSE {Chain(fil.clust, fat, 0)}) :
       \/ /\ o.r \notin Clus
          /\ Abort(fil) /\ Spend(o.cost) /\ got' = Nothing /\ UNCHANGED data
       \/ /\ o.r \in Clus
          /\ \E p \in (IF OnSector THEN Fill([fil EXCEPT !.clust = o.r], <<o.r, Csect>>)
                       ELSE {Done(fil, data)}) :
               LET k == Least(SS - (fil.fptr % SS), call.n)
               IN  /\ data' = p.d /\ Spend(p.cost)
                   /\ \/ ~p.ok /\ Abort(p.x) /\ got' = Nothing
                      \/ /\ p.ok
                         /\ got' = [from |-> fil.fptr,
                                    bytes |-> [j \in 0 .. k - 1 |-> p.x.buf[(fil.fptr % SS) + j]]]
                         /\ fil' = [p.x EXCEPT !.fptr = @ + k]
                         /\ Advance(k)
  /\ UNCHANGED <<fat, ent, writes, content, safe, halfCut>>

-----------------------------------------------------------------------------
(* f_forward: the stream takes what it likes, goes busy, or refuses.       *)

FForward(n) ==
  /\ Usable /\ fil.fptr < fil.size
  /\ call' = [op |-> "forward", n |-> Least(n, fil.size - fil.fptr)]
  /\ got' = Nothing
  /\ UNCHANGED <<card, fil, counts, content, safe, halfCut>>

ForwardBusy ==
  /\ call.op = "forward" /\ call' = Idle /\ got' = Nothing
  /\ UNCHANGED <<card, fil, counts, content, safe, halfCut>>

\* The cache is brought to the sector of fptr in every round.
Forward ==
  /\ call.op = "forward"
  /\ \E o \in ReadCluster :
       \/ /\ o.r \notin Clus
          /\ Abort(fil) /\ Spend(o.cost) /\ got' = Nothing /\ UNCHANGED data
       \/ /\ o.r \in Clus
          /\ \E p \in Fill([fil EXCEPT !.clust = o.r], <<o.r, Csect>>) :
               /\ data' = p.d /\ Spend(p.cost)
               /\ \/ ~p.ok /\ Abort(p.x) /\ got' = Nothing
                  \/ /\ p.ok
                     /\ \E k \in {Least(t, Least(SS - (fil.fptr % SS), call.n)) : t \in Takes} :
                          IF k = 0 THEN Abort(p.x) /\ got' = Nothing
                          ELSE /\ got' = [from |-> fil.fptr,
                                          bytes |-> [j \in 0 .. k - 1 |-> p.x.buf[(fil.fptr % SS) + j]]]
                               /\ fil' = [p.x EXCEPT !.fptr = @ + k]
                               /\ Advance(k)
  /\ UNCHANGED <<fat, ent, writes, content, safe, halfCut>>

-----------------------------------------------------------------------------
(* f_write.                                                                *)

\* The bytes the call may reach are no longer what f_sync made durable.
Touched(n) == [i \in Offs |-> IF i >= fil.fptr /\ i < fil.fptr + n THEN Undef ELSE safe[i]]

FWrite(n) ==
  /\ Usable /\ fil.write /\ writes < MaxWrites
  /\ writes' = writes + 1
  /\ call' = [op |-> "write", n |-> n]
  /\ safe' = Touched(n) /\ got' = Nothing
  /\ UNCHANGED <<card, fil, faults, content, halfCut>>

WriteCluster ==
  IF ~OnCluster THEN {Chain(fil.clust, fat, 0)}
  ELSE IF fil.fptr # 0 THEN CreateChain(fil.clust)
  ELSE IF fil.sclust # None THEN {Chain(fil.sclust, fat, 0)}
  ELSE CreateChain(None)

Entered(x, c) == [x EXCEPT !.clust = c, !.sclust = IF @ = None THEN c ELSE @]

\* k bytes of this call are in the file; the last round sets FA_MODIFIED.
Wrote(x, k) ==
  LET to == x.fptr + k
  IN  /\ fil' = [x EXCEPT !.fptr = to, !.size = IF to > @ THEN to ELSE @,
                          !.mod = @ \/ call.n = k]
      /\ content' = [i \in Offs |-> IF i >= x.fptr /\ i < to THEN writes ELSE content[i]]
      /\ Advance(k)

\* No cluster to be had: the call ends short, and says so only by its count.
WriteFull ==
  /\ call.op = "write" /\ OnCluster
  /\ \E o \in WriteCluster :
       /\ o.r = None
       /\ fil' = [fil EXCEPT !.mod = TRUE] /\ call' = Idle
  /\ UNCHANGED <<card, counts, hist>>

\* The sectors of cluster c from the current one on, as far as n of them are written.
Direct(d, c, n) ==
  [s \in Sectors |-> IF s[1] = c /\ s[2] >= Csect /\ s[2] < Csect + n
                     THEN [b \in In |-> writes] ELSE d[s]]

\* The sector in the cache follows a direct write over it.
Refilled(x, c, n) ==
  IF x.sect # NoSector /\ x.sect \in {<<c, Csect + j>> : j \in 0 .. n - 1}
  THEN [x EXCEPT !.buf = [b \in In |-> writes], !.dirty = FALSE] ELSE x

\* Whole sectors go to the card directly, once the cache is written back.  A
\* write that fails may have done any number of them.
WriteDirect ==
  /\ call.op = "write" /\ OnSector /\ call.n >= SS
  /\ \E o \in WriteCluster :
       /\ fat' = o.fat
       /\ \/ o.r = Junk /\ Abort(fil) /\ Spend(o.cost) /\ UNCHANGED <<data, content>>
          \/ /\ o.r \in Clus
             /\ \E p \in WriteBack(Entered(fil, o.r)) :
                  LET cc == Least(call.n \div SS, Csize - Csect)
                  IN  \/ /\ ~p.ok /\ Abort(p.x) /\ data' = p.d /\ Spend(p.cost)
                         /\ UNCHANGED content
                      \/ /\ p.ok /\ CanFail /\ Spend(1)
                         /\ \E m \in 0 .. cc : data' = Direct(p.d, o.r, m)
                         /\ Abort(p.x) /\ UNCHANGED content
                      \/ /\ p.ok /\ UNCHANGED faults
                         /\ data' = Direct(p.d, o.r, cc)
                         /\ Wrote(Refilled(p.x, o.r, cc), cc * SS)
  /\ UNCHANGED <<ent, writes, safe, got, halfCut>>

\* Mutant of WriteSector: the file object does not note which sector it caches.
WriteSectorUnnamed(x, s) ==
  UNION {IF o.ok /\ x.fptr < x.size /\ x.sect # s
         THEN {Done([o.x EXCEPT !.buf = o.d[s]], o.d)} ELSE {o} : o \in WriteBack(x)}

\* The cache at the sector of fptr: written back, and loaded unless the file ends here.
WriteSector(x, s) ==
  UNION {IF ~o.ok THEN {o}
         ELSE IF x.fptr >= x.size THEN {Done([o.x EXCEPT !.sect = s], o.d)}
         ELSE IF x.sect = s THEN {o}
         ELSE {Done([o.x EXCEPT !.sect = s, !.buf = o.d[s]], o.d)}
              \cup {Broken([o.x EXCEPT !.buf = [b \in In |-> Junk]], e) :
                    e \in {f \in {o.d} : CanFail}}
         : o \in WriteBack(x)}

\* A part of a sector goes to the cache.
WriteCached ==
  /\ call.op = "write" /\ (~OnSector \/ call.n < SS)
  /\ \E o \in (IF OnSector THEN WriteCluster ELSE {Chain(fil.clust, fat, 0)}) :
       /\ fat' = o.fat
       /\ \/ o.r = Junk /\ Abort(fil) /\ Spend(o.cost) /\ UNCHANGED <<data, content>>
          \/ /\ o.r \in Clus
             /\ \E p \in (IF OnSector THEN WriteSector(Entered(fil, o.r), <<o.r, Csect>>)
                          ELSE {Done(fil, data)}) :
                  LET k == Least(SS - (fil.fptr % SS), call.n)
                      at == fil.fptr % SS
                  IN  /\ data' = p.d /\ Spend(p.cost)
                      /\ \/ ~p.ok /\ Abort(p.x) /\ UNCHANGED content
                         \/ p.ok /\ Wrote([p.x EXCEPT !.dirty = TRUE,
                                             !.buf = [b \in In |-> IF b >= at /\ b < at + k
                                                                   THEN writes ELSE @[b]]], k)
  /\ UNCHANGED <<ent, writes, safe, got, halfCut>>

-----------------------------------------------------------------------------
(* f_lseek.                                                                *)

Clipped(n) == IF n > fil.size /\ ~fil.write THEN fil.size ELSE n

\* The start of the search: the current cluster when the target is not before
\* it, else the first one, which is created when there is none.
FLseek(n) ==
  LET ofs == Clipped(n)
      i == fil.fptr
      base == ((i - 1) \div Bcs) * Bcs
  IN  /\ Usable
      /\ \/ /\ ofs = 0
            /\ fil' = [fil EXCEPT !.fptr = 0]
            /\ UNCHANGED <<call, fat, faults>>
         \/ /\ ofs # 0 /\ i > 0 /\ (ofs - 1) \div Bcs >= (i - 1) \div Bcs
            /\ fil' = [fil EXCEPT !.fptr = base]
            /\ call' = [op |-> "seek", n |-> ofs - base]
            /\ UNCHANGED <<fat, faults>>
         \/ /\ ofs # 0 /\ ~(i > 0 /\ (ofs - 1) \div Bcs >= (i - 1) \div Bcs)
            /\ \E o \in (IF fil.sclust # None THEN {Chain(fil.sclust, fat, 0)}
                         ELSE CreateChain(None)) :
                 LET x == [fil EXCEPT !.fptr = 0, !.clust = o.r, !.sclust = o.r]
                 IN  /\ fat' = o.fat /\ Spend(o.cost)
                     /\ \/ o.r = Junk /\ Abort([fil EXCEPT !.fptr = 0])
                        \/ o.r = None /\ fil' = x /\ UNCHANGED call
                        \/ o.r \in Clus /\ fil' = x /\ call' = [op |-> "seek", n |-> ofs]
      /\ got' = Nothing
      /\ UNCHANGED <<ent, data, writes, content, safe, halfCut>>

\* One more cluster; a file open for writing is stretched, and the seek ends with
\* this cluster when the disk is full.
SeekOn ==
  /\ call.op = "seek" /\ call.n > Bcs
  /\ \E o \in (IF fil.write THEN CreateChain(fil.clust) ELSE Following(fil.clust)) :
       /\ fat' = o.fat /\ Spend(o.cost)
       /\ \/ /\ fil.write /\ o.r = None
             /\ call' = [call EXCEPT !.n = Bcs] /\ UNCHANGED fil
          \/ o.r \notin Clus \cup {None} /\ Abort(fil)
          \/ /\ o.r \in Clus
             /\ fil' = [fil EXCEPT !.clust = o.r, !.fptr = @ + Bcs]
             /\ call' = [call EXCEPT !.n = @ - Bcs]
  /\ UNCHANGED <<ent, data, writes, hist>>

\* The target is in this cluster, or at its end: the sector there is loaded
\* unless fptr is on its boundary, and the file may have grown.
SeekEnd ==
  /\ call.op = "seek" /\ call.n <= Bcs
  /\ LET x == [fil EXCEPT !.fptr = @ + call.n]
         s == <<fil.clust, call.n \div SS>>
     IN  \E o \in Fill(x, IF x.fptr % SS = 0 THEN x.sect ELSE s) :
           /\ data' = o.d /\ Spend(o.cost)
           /\ \/ ~o.ok /\ Abort(o.x)
              \/ /\ o.ok /\ call' = Idle
                 /\ fil' = IF x.fptr > x.size THEN [o.x EXCEPT !.size = x.fptr, !.mod = TRUE]
                           ELSE o.x
  /\ UNCHANGED <<fat, ent, writes, hist>>

-----------------------------------------------------------------------------
(* f_truncate, f_sync, f_close.                                            *)

Below(c, n) == [i \in Offs |-> IF i < n THEN c[i] ELSE Undef]

\* Mutant of CutBack: the cache is not written back.
CutBackDirty(x) == {Done(x, data)}

\* The cache is written back even when its sector has just been freed.
CutBack(x) == WriteBack(x)

\* The clusters after fptr are freed, the size is set, the cache written back.
FTruncate ==
  /\ Usable /\ fil.write /\ fil.fptr < fil.size
  /\ \E o \in (IF fil.fptr = 0 THEN RemoveChain(fil.sclust, None)
               ELSE IF fat[fil.clust] \in Clus THEN RemoveChain(fat[fil.clust], fil.clust)
               ELSE {Chain(None, fat, 0)})
              \cup (IF fil.fptr # 0 THEN {q \in Following(fil.clust) : q.r = Junk} ELSE {}) :
       LET x == [fil EXCEPT !.size = fil.fptr, !.mod = TRUE,
                            !.sclust = IF fil.fptr = 0 THEN None ELSE @]
       IN  /\ fat' = o.fat
           /\ \E p \in (IF o.r = Junk THEN {Broken(x, data)} ELSE CutBack(x)) :
                /\ data' = p.d /\ Spend(p.cost)
                /\ IF p.ok THEN fil' = p.x /\ UNCHANGED call ELSE Abort(p.x)
                /\ halfCut' = (halfCut \/ ~p.ok)
  /\ content' = Below(content, fil.fptr) /\ safe' = Below(safe, fil.fptr) /\ got' = Nothing
  /\ UNCHANGED <<ent, writes>>

\* An outcome of f_sync has the directory entry too.
With(o, e) == [ok |-> o.ok, x |-> o.x, d |-> o.d, cost |-> o.cost, ent |-> e]
Entry == [start |-> fil.sclust, size |-> fil.size]

\* Mutant of Sync: the cache stays dirty.
SyncEntryOnly == {With(Done([fil EXCEPT !.mod = FALSE], data), Entry)}

\* f_sync: nothing to do unless FA_MODIFIED.  The cache, then the directory
\* entry.  An access to the directory may fail before the entry is changed, or
\* sync_fs after: the flag is cleared all the same.
Sync ==
  IF ~fil.mod THEN {With(Done(fil, data), ent)}
  ELSE UNION {IF ~o.ok THEN {With(o, ent)}
              ELSE LET kept == [o.x EXCEPT !.mod = FALSE]
                   IN  {With(Done(kept, o.d), Entry)}
                       \cup {q \in {With(Broken(o.x, o.d), ent),
                                    With(Broken(kept, o.d), Entry)} : CanFail}
              : o \in WriteBack(fil)}

\* What f_sync and f_close have made durable, if they say so.
MadeSafe(o) == IF o.ok /\ ~fil.err THEN content ELSE safe

FSync ==
  /\ CanBegin /\ fil.open
  /\ \E o \in Sync :
       /\ fil' = o.x /\ data' = o.d /\ ent' = o.ent /\ Spend(o.cost)
       /\ safe' = MadeSafe(o)
  /\ got' = Nothing
  /\ UNCHANGED <<fat, call, writes, content, halfCut>>

\* f_close: f_sync, and the object is closed if that succeeds.  A file object
\* with an error leaves nothing certain but what was durable before.
FClose ==
  /\ CanBegin /\ fil.open
  /\ \E o \in Sync :
       /\ fil' = (IF o.ok THEN Closed ELSE o.x)
       /\ data' = o.d /\ ent' = o.ent /\ Spend(o.cost)
       /\ safe' = MadeSafe(o)
       /\ content' = IF o.ok THEN MadeSafe(o) ELSE content
  /\ got' = Nothing
  /\ UNCHANGED <<fat, call, writes, halfCut>>

-----------------------------------------------------------------------------
(* The other files of the volume.                                          *)

\* Another file takes a free cluster and fills it.
OtherTakes(c) ==
  /\ CanBegin /\ fat[c] = None
  /\ fat' = [fat EXCEPT ![c] = Other]
  /\ data' = [s \in Sectors |-> IF s[1] = c THEN [b \in In |-> Foreign] ELSE data[s]]
  /\ got' = Nothing
  /\ UNCHANGED <<ent, fil, call, counts, content, safe, halfCut>>

OtherFrees(c) ==
  /\ CanBegin /\ fat[c] = Other
  /\ fat' = [fat EXCEPT ![c] = None]
  /\ got' = Nothing
  /\ UNCHANGED <<ent, data, fil, call, counts, content, safe, halfCut>>

-----------------------------------------------------------------------------
Init ==
  /\ fat = [c \in Clus |-> None]
  /\ ent = [start |-> None, size |-> 0]
  /\ data = [s \in Sectors |-> [b \in In |-> 0]]
  /\ fil = Closed /\ call = Idle
  /\ writes = 0 /\ faults = 0
  /\ content = Unwritten /\ safe = Unwritten /\ got = Nothing /\ halfCut = FALSE

Next ==
  \/ \E w \in BOOLEAN : FOpen(w)
  \/ FOpenAppend \/ FOpenCreate
  \/ \E n \in ReadLengths : FRead(n) \/ FForward(n)
  \/ \E n \in WriteLengths : FWrite(n)
  \/ ReadDirect \/ ReadCached \/ Forward \/ ForwardBusy
  \/ WriteFull \/ WriteDirect \/ WriteCached
  \/ \E n \in Offsets : FLseek(n)
  \/ SeekOn \/ SeekEnd
  \/ FTruncate \/ FSync \/ FClose
  \/ \E c \in Clus : OtherTakes(c) \/ OtherFrees(c)

Spec == Init /\ [][Next]_vars

-----------------------------------------------------------------------------
(* Properties.                                                             *)

\* Every variable has its type; fptr and the size never leave the volume.
TypeOK ==
  /\ fat \in [Clus -> Clus \cup {None, Other, EOC}]
  /\ ent \in [start : Clus \cup {None}, size : 0 .. MaxBytes]
  /\ data \in [Sectors -> [In -> Bytes]]
  /\ fil.fptr \in 0 .. MaxBytes /\ fil.size \in 0 .. MaxBytes
  /\ {fil.sclust, fil.clust} \subseteq Clus \cup {None}
  /\ fil.sect \in Sectors \cup {NoSector} /\ fil.buf \in [In -> Bytes]
  /\ fil.dirty => fil.sect # NoSector
  /\ call.op \in {"none", "read", "forward", "write", "seek"} /\ call.n \in Nat
  /\ content \in [Offs -> Bytes \cup {Undef}] /\ safe \in [Offs -> Bytes \cup {Undef}]
  /\ writes \in 0 .. MaxWrites /\ faults \in 0 .. MaxFaults

\* The byte at offset i, of a chain from start, is in a cluster and is v there.
CardHas(start, i, v) ==
  /\ SectorOf(start, i) \in Sectors
  /\ data[SectorOf(start, i)][i % SS] = v

\* f_read, f_write and f_lseek agree on the cache: a written byte is found
\* again, in the cache when its sector is cached, else on the card.  A closed
\* file has everything on the card.
ReadsBack ==
  \A i \in Offs : content[i] # Undef =>
    IF ~fil.open THEN i < ent.size /\ CardHas(ent.start, i, content[i])
    ELSE fil.err \/ /\ i < fil.size
                    /\ IF SectorOf(fil.sclust, i) = fil.sect THEN fil.buf[i % SS] = content[i]
                       ELSE CardHas(fil.sclust, i, content[i])

\* What f_read hands to its caller is what was written last.
DeliversWritten ==
  \A j \in DOMAIN got.bytes :
    content[got.from + j] # Undef => got.bytes[j] = content[got.from + j]

\* A byte that a successful f_sync or f_close made durable, and that no later
\* call was asked to change, is on the card in every state: between any two
\* transfers, after any failure.
DurableStays ==
  \A i \in Offs : safe[i] # Undef => i < ent.size /\ CardHas(ent.start, i, safe[i])

\* No call on this file writes into a cluster of another file.  f_truncate
\* that fails can leave a dirty cache for a cluster it has freed.
OthersUntouched ==
  halfCut \/ \A s \in Sectors : fat[s[1]] = Other => \A b \in In : data[s][b] = Foreign

=============================================================================
