------------------------------ MODULE FileLock ------------------------------
(***************************************************************************)
(* The open-object table Files[_FS_LOCK] of firmware/ff.c and every        *)
(* operation that reads or writes it: f_open, f_close, f_opendir,          *)
(* f_closedir, f_unlink, f_rename, f_mkdir, f_mount and the remount that   *)
(* find_volume performs when the drive has lost its initialisation.        *)
(*                                                                         *)
(* One volume.  Objects live in the root directory, at an offset; a        *)
(* sub-directory also has a cluster of its own.  The table identifies an   *)
(* object by <<start cluster of its directory, offset>>, the key the code  *)
(* builds from dp->obj.sclust and dp->dptr: an entry of the root at        *)
(* offset o is <<0, o>>, and a directory that f_opendir has entered and    *)
(* rewound is <<its own cluster, 0>>.                                      *)
(*                                                                         *)
(* The volume mutex serialises the bodies of the operations, so each is    *)
(* one step, except f_close, which takes the mutex twice (f_sync, then the *)
(* release of the table entry).  A disk error is a choice of the step.     *)
(***************************************************************************)
EXTENDS Integers, FiniteSets

CONSTANTS
  Handles,    \* FIL and DIR objects of the application
  Names,      \* file names
  Offs,       \* offsets of the root directory's entries
  Clusters,   \* clusters a sub-directory can be given
  NLock,      \* _FS_LOCK, the number of slots of the table
  WriteMark,  \* 0x100, the counter value of an object open for writing
  MaxMounts   \* bound: successful mounts in one behaviour

MaxCtr == 65535  \* Files[].ctr is a WORD

ASSUME ConstantsAssumption ==
  /\ IsFiniteSet(Handles)
  /\ Offs \subseteq Nat
  /\ Clusters \subseteq Nat \ {0}
  /\ NLock \in Nat \ {0}
  /\ WriteMark \in 1 .. MaxCtr
  /\ MaxMounts \in Nat

(***************************************************************************)
(* Fewer objects can be open at once than the counter value that means     *)
(* "open for writing": inc_lock does not check it, and a device with       *)
(* 128 KiB of RAM cannot hold 256 FIL objects of more than 512 bytes.      *)
(***************************************************************************)
ASSUME HandlesBelowMark == Cardinality(Handles) < WriteMark

VARIABLES
  files,  \* Files[]: the table
  hnd,    \* the application's FIL and DIR objects
  ent,    \* the entries of the root directory
  vol,    \* FatFs[0] and its fs_type: none, registered, mounted
  fsid,   \* FATFS.id of the volume (Fsid)
  ready   \* the drive does not report STA_NOINIT

vars == <<files, hnd, ent, vol, fsid, ready>>

Slots == 1 .. NLock

NoKey == <<0 - 1, 0>>
EntryKey(o) == <<0, o>>
SelfKey(c) == <<c, 0>>
DirKeys == {SelfKey(c) : c \in Clusters}
Keys == {EntryKey(o) : o \in Offs} \cup DirKeys

Free == [kind |-> "free"]
FileEntry(n) == [kind |-> "file", name |-> n]
DirEntry(n, c) == [kind |-> "dir", name |-> n, clu |-> c]
Entries == {Free} \cup {FileEntry(n) : n \in Names}
                  \cup {DirEntry(n, c) : n \in Names, c \in Clusters}

\* Open modes of f_open: FA_READ; FA_WRITE of an existing file;
\* FA_CREATE_NEW; FA_CREATE_ALWAYS; FA_OPEN_ALWAYS; FA_OPEN_APPEND.
Modes == {"read", "write", "new", "create", "always", "append"}
Creating == {"new", "create", "always", "append"}
Acc(m) == IF m = "read" THEN 0 ELSE 1

Closed == [st |-> "closed", what |-> "file", key |-> NoKey, lockid |-> 0,
           id |-> 0, acc |-> 0]
HandleRec == [st : {"closed", "open", "closing"}, what : {"file", "dir"},
              key : Keys \cup {NoKey}, lockid : 0 .. NLock,
              id : 0 .. MaxMounts, acc : {0, 1}]

-----------------------------------------------------------------------------
(* The table's operations, on a table t.                                   *)

Matching(t, k) == {i \in Slots : t[i].key = k}
Blank(t) == {i \in Slots : t[i].key = NoKey}
First(S) == CHOOSE i \in S : \A j \in S : i <= j

\* Mutant of ChkLock: the 0x100 of an object open for writing is not looked at
\* when the new open is for reading.
ChkLockReadsAnything(t, k, acc) ==
  IF Matching(t, k) = {}
  THEN IF Blank(t) # {} \/ acc = 2 THEN "OK" ELSE "TOO_MANY"
  ELSE IF acc # 0 THEN "LOCKED" ELSE "OK"

\* chk_lock: may the object with key k be accessed (0 read, 1 write, 2 remove)?
ChkLock(t, k, acc) ==
  IF Matching(t, k) = {}
  THEN IF Blank(t) # {} \/ acc = 2 THEN "OK" ELSE "TOO_MANY"
  ELSE IF acc # 0 \/ t[First(Matching(t, k))].ctr = WriteMark
       THEN "LOCKED" ELSE "OK"

\* The slot inc_lock uses for key k, 0 when there is none, and the counter it
\* finds there (a slot registered now starts from 0).
LockSlot(t, k) ==
  IF Matching(t, k) # {} THEN First(Matching(t, k))
  ELSE IF Blank(t) # {} THEN First(Blank(t)) ELSE 0

LockCount(t, k) ==
  IF Matching(t, k) # {} THEN t[First(Matching(t, k))].ctr ELSE 0

\* inc_lock returns 0 (no slot, or an access violation) or the slot.
IncLockId(t, k, acc) ==
  IF LockSlot(t, k) = 0 \/ (acc # 0 /\ LockCount(t, k) # 0)
  THEN 0 ELSE LockSlot(t, k)

\* Mutant of IncLock: a second reader is not counted.
IncLockOnce(t, k, acc) ==
  IF IncLockId(t, k, acc) = 0 THEN t
  ELSE [t EXCEPT ![LockSlot(t, k)] =
          [key |-> k, ctr |-> IF acc # 0 THEN WriteMark ELSE 1]]

IncLock(t, k, acc) ==
  IF IncLockId(t, k, acc) = 0 THEN t
  ELSE [t EXCEPT ![LockSlot(t, k)] =
          [key |-> k, ctr |-> IF acc # 0 THEN WriteMark
                              ELSE (LockCount(t, k) + 1) % (MaxCtr + 1)]]

\* dec_lock: a write open leaves at once, a read open counts down.
DecCount(n) == IF n = WriteMark \/ n = 0 THEN 0 ELSE n - 1

DecLock(t, i) ==
  [t EXCEPT ![i] = [key |-> IF DecCount(t[i].ctr) = 0 THEN NoKey ELSE t[i].key,
                    ctr |-> DecCount(t[i].ctr)]]

\* clear_lock: every slot belongs to the one volume.
ClearLock(t) == [i \in Slots |-> [key |-> NoKey, ctr |-> t[i].ctr]]

-----------------------------------------------------------------------------
(* The volume.                                                             *)

Same == [ok |-> TRUE, vol |-> vol, id |-> fsid, ready |-> ready,
         files |-> files]
Mounted == [ok |-> TRUE, vol |-> "mounted", id |-> fsid + 1, ready |-> TRUE,
            files |-> ClearLock(files)]

\* find_volume: its possible outcomes.  A volume that is mounted on a ready
\* drive is used as it is; a registered one is mounted anew, which gives it a
\* new id and clears the table, or fails with fs_type = 0.  Write protection
\* refuses the call (ok = FALSE) in either case.
FindVolume ==
  IF vol = "none" \/ (vol = "mounted" /\ ready)
  THEN {[Same EXCEPT !.ok = FALSE]} \cup (IF vol = "none" THEN {} ELSE {Same})
  ELSE {[Same EXCEPT !.ok = FALSE, !.vol = "registered", !.ready = r] :
          r \in BOOLEAN}
       \cup (IF fsid < MaxMounts THEN {Mounted} ELSE {})

SetVolume(v) == vol' = v.vol /\ fsid' = v.id /\ ready' = v.ready

\* The part of validate() that a remount or an unmount can change, for handles
\* hs and a volume in state vo with id.
LiveIn(hs, vo, id, h) == hs[h].st # "closed" /\ vo = "mounted" /\ hs[h].id = id
Live(h) == LiveIn(hnd, vol, fsid, h)
\* Mutant of Valid: the id of the mount is not compared.
ValidAnyMount(h) == hnd[h].st # "closed" /\ vol = "mounted" /\ ready
Valid(h) == Live(h) /\ ready

Named(n) == {o \in Offs : ent[o].kind # "free" /\ ent[o].name = n}
FreeOffs == {o \in Offs : ent[o].kind = "free"}

Init ==
  /\ files = [i \in Slots |-> [key |-> NoKey, ctr |-> 0]]
  /\ hnd = [h \in Handles |-> Closed]
  /\ ent = [o \in Offs |-> Free]
  /\ vol = "none" /\ fsid = 0 /\ ready = FALSE

Handle(what, k, i, id, acc) ==
  [st |-> "open", what |-> what, key |-> k, lockid |-> i, id |-> id, acc |-> acc]

\* f_open gives up: the file object is invalidated.
OpenFails(h, v) ==
  /\ hnd' = [hnd EXCEPT ![h] = Closed]
  /\ files' = v.files
  /\ UNCHANGED ent

\* The tail of f_open once an entry o exists: inc_lock, then the seek to the
\* end of the file for FA_OPEN_APPEND, which may fail on a disk error.
OpenEntry(h, v, o, m) ==
  LET k == EntryKey(o)
      i == IncLockId(v.files, k, Acc(m))
  IN  /\ files' = IncLock(v.files, k, Acc(m))
      /\ \/ /\ i # 0
            /\ hnd' = [hnd EXCEPT ![h] = Handle("file", k, i, v.id, Acc(m))]
         \/ /\ i = 0 \/ m = "append"
            /\ hnd' = [hnd EXCEPT ![h] = Closed]

\* f_open on a name that exists.  A refusal without a trace (invalid or
\* missing path, read-only attribute, disk error on the way) is the first
\* disjunct, an existing object that the mode or its kind refuses the second.
OpenExisting(h, v, o, m) ==
  \/ OpenFails(h, v)
  \/ /\ ChkLock(v.files, EntryKey(o), Acc(m)) = "OK"
     /\ m # "new"
     /\ ent[o].kind = "file"
     /\ OpenEntry(h, v, o, m)
     /\ UNCHANGED ent

\* f_open creates the entry, when a slot is available.  dir_register may fail.
OpenNew(h, v, n, m) ==
  \/ OpenFails(h, v)
  \/ /\ m \in Creating
     /\ Blank(v.files) # {}
     /\ \E o \in FreeOffs :
          /\ ent' = [ent EXCEPT ![o] = FileEntry(n)]
          /\ OpenEntry(h, v, o, m)

FOpen(h, n, m) ==
  /\ ~Live(h)
  /\ \E v \in FindVolume :
       /\ SetVolume(v)
       /\ \/ ~v.ok /\ OpenFails(h, v)
          \/ v.ok /\ \E o \in Named(n) : OpenExisting(h, v, o, m)
          \/ v.ok /\ Named(n) = {} /\ OpenNew(h, v, n, m)

\* f_opendir: the directory's own cluster at offset 0 is what it locks.
FOpendir(h, n) ==
  /\ ~Live(h)
  /\ \E v \in FindVolume :
       /\ SetVolume(v)
       /\ \/ OpenFails(h, v)
          \/ /\ v.ok
             /\ \E o \in Named(n) :
                  /\ ent[o].kind = "dir"
                  /\ LET k == SelfKey(ent[o].clu)
                         i == IncLockId(v.files, k, 0)
                     IN  /\ i # 0
                         /\ files' = IncLock(v.files, k, 0)
                         /\ hnd' = [hnd EXCEPT ![h] = Handle("dir", k, i, v.id, 0)]
             /\ UNCHANGED ent

\* f_close, first critical section: f_sync.  On a disk error the call returns
\* here and the object stays open.
FCloseSync(h) ==
  /\ hnd[h].st = "open" /\ hnd[h].what = "file"
  /\ Valid(h)
  /\ hnd' = [hnd EXCEPT ![h].st = "closing"]
  /\ UNCHANGED <<files, ent, vol, fsid, ready>>

Release(h) ==
  /\ files' = DecLock(files, hnd[h].lockid)
  /\ hnd' = [hnd EXCEPT ![h] = Closed]

\* f_close, second critical section: validate again, then dec_lock.
FCloseRelease(h) ==
  /\ hnd[h].st = "closing"
  /\ \/ Valid(h) /\ Release(h)
     \/ /\ ~Valid(h)
        /\ hnd' = [hnd EXCEPT ![h].st = "open"]
        /\ UNCHANGED files
  /\ UNCHANGED <<ent, vol, fsid, ready>>

FClosedir(h) ==
  /\ hnd[h].st = "open" /\ hnd[h].what = "dir"
  /\ Valid(h)
  /\ Release(h)
  /\ UNCHANGED <<ent, vol, fsid, ready>>

\* f_unlink: chk_lock for removal on the entry's key, then the entry goes.
\* A sub-directory must be empty, as all of them are here.
FUnlink(n) ==
  \E v \in FindVolume :
    /\ SetVolume(v)
    /\ files' = v.files
    /\ UNCHANGED hnd
    /\ \/ UNCHANGED ent
       \/ /\ v.ok
          /\ \E o \in Named(n) :
               /\ ChkLock(v.files, EntryKey(o), 2) = "OK"
               /\ ent' = [ent EXCEPT ![o] = Free]

\* Mutant of FRename: the source is checked for reading, not for removal.
FRenameShared(n, new) ==
  \E v \in FindVolume :
    /\ SetVolume(v)
    /\ files' = v.files
    /\ UNCHANGED hnd
    /\ \/ UNCHANGED ent
       \/ /\ v.ok /\ Named(new) = {}
          /\ \E o \in Named(n), p \in FreeOffs :
               /\ ChkLock(v.files, EntryKey(o), 0) = "OK"
               /\ ent' = [ent EXCEPT ![o] = Free, ![p] = [ent[o] EXCEPT !.name = new]]

\* f_rename within the directory: a new entry is registered, then the old one
\* removed; a disk error between the two leaves both.
FRename(n, new) ==
  \E v \in FindVolume :
    /\ SetVolume(v)
    /\ files' = v.files
    /\ UNCHANGED hnd
    /\ \/ UNCHANGED ent
       \/ /\ v.ok /\ Named(new) = {}
          /\ \E o \in Named(n), p \in FreeOffs :
               /\ ChkLock(v.files, EntryKey(o), 2) = "OK"
               /\ \E old \in {Free, ent[o]} :
                    ent' = [ent EXCEPT ![o] = old, ![p] = [ent[o] EXCEPT !.name = new]]

\* f_mkdir: an entry with a cluster that no entry refers to.
FMkdir(n) ==
  \E v \in FindVolume :
    /\ SetVolume(v)
    /\ files' = v.files
    /\ UNCHANGED hnd
    /\ \/ UNCHANGED ent
       \/ /\ v.ok /\ Named(n) = {}
          /\ \E o \in FreeOffs, c \in Clusters :
               /\ \A p \in Offs : ent[p].kind = "dir" => ent[p].clu # c
               /\ ent' = [ent EXCEPT ![o] = DirEntry(n, c)]

\* Any other call that starts with find_volume (f_stat, f_getfree, ...).
FOther ==
  \E v \in FindVolume :
    SetVolume(v) /\ files' = v.files /\ UNCHANGED <<hnd, ent>>

\* f_mount: unregister the volume, register it, or register and mount it.
FMount ==
  /\ \/ /\ files' = IF vol = "none" THEN files ELSE ClearLock(files)
        /\ \/ vol' \in {"none", "registered"} /\ UNCHANGED <<fsid, ready>>
           \/ vol' = "registered" /\ ready' \in BOOLEAN /\ UNCHANGED fsid
     \/ /\ fsid < MaxMounts
        /\ files' = ClearLock(files)
        /\ vol' = "mounted" /\ fsid' = fsid + 1 /\ ready' = TRUE
  /\ UNCHANGED <<hnd, ent>>

\* The drive starts to report STA_NOINIT (a failed re-initialisation).
DriveLost ==
  /\ ready /\ ready' = FALSE
  /\ UNCHANGED <<files, hnd, ent, vol, fsid>>

Next ==
  \/ \E h \in Handles, n \in Names : FOpendir(h, n) \/ \E m \in Modes : FOpen(h, n, m)
  \/ \E h \in Handles : FCloseSync(h) \/ FCloseRelease(h) \/ FClosedir(h)
  \/ \E n \in Names : FUnlink(n) \/ FMkdir(n) \/ \E new \in Names : FRename(n, new)
  \/ FOther \/ FMount \/ DriveLost

Spec == Init /\ [][Next]_vars

-----------------------------------------------------------------------------

TypeOK ==
  /\ files \in [Slots -> [key : Keys \cup {NoKey}, ctr : 0 .. MaxCtr]]
  /\ hnd \in [Handles -> HandleRec]
  /\ ent \in [Offs -> Entries]
  /\ vol \in {"none", "registered", "mounted"}
  /\ fsid \in 0 .. MaxMounts
  /\ ready \in BOOLEAN

\* The file sharing policy of f_open ("Reject any open against writing file
\* and all write mode open", chk_lock): while a handle has an object open for
\* writing, no other handle has it open at all, across remounts, two-step
\* closes and failed opens.
WriterExclusive ==
  \A g, h \in Handles :
    (g # h /\ Live(g) /\ Live(h) /\ hnd[g].key = hnd[h].key)
      => hnd[g].acc = 0 /\ hnd[h].acc = 0

-----------------------------------------------------------------------------
(* What ties the table to the handles, for a table fs, handles hs and a    *)
(* volume in state vo with id.                                             *)

HoldersIn(hs, vo, id, i) == {h \in Handles : LiveIn(hs, vo, id, h) /\ hs[h].lockid = i}

\* A live handle's slot carries the handle's key.
HeldSlots(fs, hs, vo, id) ==
  \A h \in Handles : LiveIn(hs, vo, id, h) =>
    /\ hs[h].key \in Keys
    /\ hs[h].lockid \in Slots
    /\ fs[hs[h].lockid].key = hs[h].key

\* An object has one slot.
OneSlotEach(fs) ==
  \A i, j \in Slots : fs[i].key = fs[j].key /\ fs[i].key # NoKey => i = j

\* The counter tells who holds the slot: one writer at most, or so many readers.
Counted(fs, hs, vo, id) ==
  \A i \in Slots : vo = "mounted" /\ fs[i].key # NoKey =>
    IF fs[i].ctr = WriteMark
    THEN \A g, h \in HoldersIn(hs, vo, id, i) : g = h /\ hs[h].acc = 1
    ELSE /\ fs[i].ctr = Cardinality(HoldersIn(hs, vo, id, i))
         /\ \A h \in HoldersIn(hs, vo, id, i) : hs[h].acc = 0

\* A directory is open for reading only.
DirsRead(fs) == \A i \in Slots : fs[i].key \in DirKeys => fs[i].ctr # WriteMark

\* No handle carries the id of a mount still to come.
PastIds(hs, id) == \A h \in Handles : hs[h].id <= id

TableInv(fs, hs, vo, id) ==
  /\ HeldSlots(fs, hs, vo, id)
  /\ OneSlotEach(fs)
  /\ Counted(fs, hs, vo, id)
  /\ DirsRead(fs)
  /\ PastIds(hs, id)

\* The table never forgets or miscounts an open object: a live handle's slot
\* carries its key, no object has two slots, and the counter is the number of
\* live readers or the mark of a single writer (inc_lock, dec_lock,
\* clear_lock, across the remounts of find_volume).
TableAgrees == TableInv(files, hnd, vol, fsid)

\* f_unlink and f_rename never take the directory entry away under an open
\* file: f_sync writes to that entry (dir_sect, dir_ptr) without looking again.
OpenFileKeepsEntry ==
  \A h \in Handles : Live(h) /\ hnd[h].what = "file" =>
    \E o \in Offs : hnd[h].key = EntryKey(o) /\ ent[o].kind = "file"

\* ffconf.h: the lock function controls "illegal operation to open objects";
\* an open sub-directory keeps the entry that owns its cluster.
OpenDirKeepsEntry ==
  \A h \in Handles : Live(h) /\ hnd[h].what = "dir" =>
    \E o \in Offs : ent[o].kind = "dir" /\ SelfKey(ent[o].clu) = hnd[h].key

\* What each handle has open, as SharingPolicy sees it.
OpenView ==
  [h \in Handles |->
     IF Live(h) THEN [obj |-> hnd[h].key, acc |-> IF hnd[h].acc = 1 THEN "write" ELSE "read"]
     ELSE [acc |-> "none"]]

Policy == INSTANCE SharingPolicy WITH Objects <- Keys, open <- OpenView

\* The table implements the sharing policy: whatever f_open, f_opendir,
\* f_close, f_closedir, f_mount and the remounts of find_volume do to slots,
\* counters and ids, callers see compatible opens only, and an operation on
\* one handle ends no other handle's open.
SharingRefinement == Policy!Spec
=============================================================================
