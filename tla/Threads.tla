-------------------------------- MODULE Threads -------------------------------
(***************************************************************************)
(* Threads in the API: the volume mutex that ENTER_FF and LEAVE_FF take    *)
(* (firmware/ff.c, syscall.c, FatFs.cpp), the registry of drivers that     *)
(* attach and detach keep beside FatFs[0] (FatFs.cpp), and the file log,   *)
(* whose handler calls the API under a mutex of its own (utils.cpp).       *)
(*                                                                         *)
(* A thread has a stack of calls, its last one first.  A call on a path    *)
(* (f_open and the like) finds the volume, perhaps mounts it, and works; a *)
(* call on an open object (f_write and the like) validates it and works.   *)
(* What the work is, other modules say; here it may log a message.         *)
(***************************************************************************)
EXTENDS Integers, Sequences, FiniteSets

CONSTANTS
  Thread, Driver,
  None,        \* no driver, no thread, no object
  MaxMounts,   \* bound: volumes mounted
  MaxStack     \* bound: calls in one another

ASSUME ThreadsAssumption == None \notin Thread \cup Driver /\ {MaxMounts, MaxStack} \subseteq Nat

NotAttached == 255

VARIABLES
  drivers,        \* _drivers[0]
  attached, num,  \* _attached and _driveNumber of each driver
  volume,         \* FatFs[0]: the driver whose FATFS it is
  fs,             \* the FATFS of each driver: fs_type # 0, and id
  fsid,
  ready,          \* of each driver: not STA_NOINIT
  grant, handler, \* the volume's mutex and the log handler's, both recursive
  stack,
  file,           \* the FIL of each thread
  nested,         \* history: a message was logged from inside a call
  slipped         \* history: the volume was given up or mounted between validate and the lock of a call

vars == <<drivers, attached, num, volume, fs, fsid, ready, grant, handler, stack, file, nested, slipped>>
registry == <<drivers, attached, num, volume>>
history == <<nested, slipped>>

-----------------------------------------------------------------------------
(* Stacks.                                                                 *)

Frame(op, pc, obj) == [op |-> op, pc |-> pc, fs |-> None, obj |-> obj, res |-> "OK"]
Top(t) == Head(stack[t])
At(t, pc) == stack[t] # <<>> /\ Top(t).pc = pc
Push(t, f) == stack' = [stack EXCEPT ![t] = <<f>> \o @]
Becomes(t, f) == stack' = [stack EXCEPT ![t] = <<f>> \o Tail(@)]
Goto(t, pc) == Becomes(t, [Top(t) EXCEPT !.pc = pc])

\* Where a caller goes on.
Resume(f, ok) ==
  CASE f.pc = "open" -> IF ok THEN "write" ELSE "done"
    [] f.pc = "write" -> "sync"
    [] f.pc = "sync" -> IF ok THEN "close" ELSE "done"
    [] f.pc = "close" -> "done"
    [] f.pc = "mount" -> IF ok THEN "served" ELSE "refused"
    [] OTHER -> f.pc

\* The call on top ends: a path that was opened goes to the caller.
Return(t) ==
  LET f == Top(t)
      rest == Tail(stack[t])
      ok == f.res = "OK"
      opened == f.op = "path" /\ ok
      obj == [fs |-> f.fs, id |-> fs[f.fs].id]
      caller == Head(rest)
  IN  /\ stack' = [stack EXCEPT ![t] =
           IF rest = <<>> THEN <<>>
           ELSE <<[caller EXCEPT !.pc = Resume(caller, ok), !.obj = IF opened THEN obj ELSE @]>> \o Tail(rest)]
      /\ file' = IF rest = <<>> /\ opened THEN [file EXCEPT ![t] = obj] ELSE file

\* Recursive mutexes.
Free == [owner |-> None, depth |-> 0]
Grantable(m, t) == m.owner \in {None, t}
Taken(m, t) == [owner |-> t, depth |-> m.depth + 1]
Given(m) == IF m.depth = 1 THEN Free ELSE [m EXCEPT !.depth = @ - 1]

-----------------------------------------------------------------------------
(* Calls of the application.  attach and detach, which mount, are not      *)
(* re-entrant (ffconf.h): they run alone.                                  *)

Mounting(t) == \E i \in DOMAIN stack[t] : stack[t][i].op \in {"attach", "detach"}
Idle(t) == stack[t] = <<>> /\ \A u \in Thread : ~Mounting(u)
Alone(t) == \A u \in Thread : stack[u] = <<>>

Begin(t, f) == Push(t, f) /\ UNCHANGED <<registry, fs, fsid, ready, grant, handler, file, history>>

CallPath(t) == Idle(t) /\ Begin(t, Frame("path", "find", None))
CallFile(t) == Idle(t) /\ file[t] # None /\ Begin(t, Frame("file", "validate", file[t]))
CallLog(t) == Idle(t) /\ Begin(t, Frame("log", "lock", None))
CallAttach(t, d) == Alone(t) /\ Begin(t, [Frame("attach", "register", None) EXCEPT !.fs = d])
CallDetach(t) == Alone(t) /\ drivers # None /\ Begin(t, [Frame("detach", "unmount", None) EXCEPT !.fs = drivers])

-----------------------------------------------------------------------------
(* ENTER_FF and LEAVE_FF.                                                  *)

\* find_volume: no volume, or wait for the mutex of the one there is.
FindVolume(t) ==
  /\ At(t, "find")
  /\ Becomes(t, IF volume = None THEN [Top(t) EXCEPT !.res = "NOT_ENABLED", !.pc = "leave"]
                ELSE [Top(t) EXCEPT !.fs = volume, !.pc = "enter"])
  /\ UNCHANGED <<registry, fs, fsid, ready, grant, handler, file, history>>

\* Mutant of Valid: the mount is not compared.
ValidAnyMount(o) == fs[o.fs].mounted /\ drivers # None /\ ready[drivers]

Valid(o) == fs[o.fs].mounted /\ fs[o.fs].id = o.id /\ drivers # None /\ ready[drivers]

Validate(t) ==
  /\ At(t, "validate")
  /\ LET o == Top(t).obj
     IN  Becomes(t, IF Valid(o) THEN [Top(t) EXCEPT !.fs = o.fs, !.pc = "enter"]
                    ELSE [Top(t) EXCEPT !.res = "INVALID_OBJECT", !.pc = "leave"])
  /\ UNCHANGED <<registry, fs, fsid, ready, grant, handler, file, history>>

\* lock_fs, which waits for ever; then a path call looks at the volume.
Enter(t) ==
  /\ At(t, "enter") /\ Grantable(grant, t)
  /\ grant' = Taken(grant, t)
  /\ Goto(t, IF Top(t).op = "file" THEN "work" ELSE "check")
  /\ UNCHANGED <<registry, fs, fsid, ready, handler, file, history>>

\* What follows the mount: f_mount ends with it.
Mounted(t) == Goto(t, IF Top(t).op = "mount" THEN "leave" ELSE "work")

\* Another call has validated its object and waits for the lock.
Slips(t) == \E u \in Thread \ {t} : At(u, "enter") /\ Top(u).op = "file"

\* The volume is mounted and its drive still initialised, or it is mounted anew.
CheckVolume(t) ==
  LET v == Top(t).fs
      kept == fs[v].mounted /\ drivers # None /\ ready[drivers]
  IN  /\ At(t, "check")
      /\ IF kept THEN Mounted(t) ELSE Goto(t, "init")
      /\ fs' = IF kept THEN fs ELSE [fs EXCEPT ![v].mounted = FALSE]
      /\ slipped' = (slipped \/ (~kept /\ Slips(t)))
      /\ UNCHANGED <<registry, fsid, ready, grant, handler, file, nested>>

Failed(t, res) == Becomes(t, [Top(t) EXCEPT !.res = res, !.pc = "leave"])

\* disk_initialize goes to the driver registered; then the boot sector is read.
InitVolume(t) ==
  LET v == Top(t).fs
  IN  /\ At(t, "init")
      /\ \/ /\ drivers # None /\ fsid < MaxMounts
            /\ ready' = [ready EXCEPT ![drivers] = TRUE]
            /\ fs' = [fs EXCEPT ![v] = [mounted |-> TRUE, id |-> fsid + 1]]
            /\ fsid' = fsid + 1
            /\ slipped' = (slipped \/ Slips(t))
            /\ Mounted(t)
         \/ /\ Failed(t, "NOT_READY")
            /\ ready' \in {ready, [d \in Driver |-> ready[d] \/ d = drivers]}
            /\ UNCHANGED <<fs, fsid, slipped>>
      /\ UNCHANGED <<registry, grant, handler, file, nested>>

\* The work of the call succeeds or fails.
Work(t) ==
  /\ At(t, "work")
  /\ Goto(t, "leave") \/ Failed(t, "DISK_ERR")
  /\ UNCHANGED <<registry, fs, fsid, ready, grant, handler, file, history>>

\* Mutant of Unlocks: the results that come without the lock are forgotten.
UnlocksAlways(f) == TRUE

\* unlock_fs.
Unlocks(f) == f.fs # None /\ f.res \notin {"NOT_ENABLED", "INVALID_DRIVE", "TIMEOUT"}

Leave(t) ==
  /\ At(t, "leave")
  /\ grant' = IF Unlocks(Top(t)) THEN Given(grant) ELSE grant
  /\ Return(t)
  /\ UNCHANGED <<registry, fs, fsid, ready, handler, history>>

-----------------------------------------------------------------------------
(* The file log: logMessage and f_append_string.                           *)

\* A message of attach, of disk_initialize or of the driver, inside a call.  Bound:
\* one, so that the log is never entered from itself.
LogInside(t) ==
  /\ \E pc \in {"register", "init", "work"} : At(t, pc)
  /\ ~nested /\ Len(stack[t]) + 1 < MaxStack
  /\ Push(t, Frame("log", "lock", None))
  /\ nested' = TRUE
  /\ UNCHANGED <<registry, fs, fsid, ready, grant, handler, file, slipped>>

LogLock(t) ==
  /\ At(t, "lock") /\ Grantable(handler, t)
  /\ handler' = Taken(handler, t)
  /\ Goto(t, "open")
  /\ UNCHANGED <<registry, fs, fsid, ready, grant, file, history>>

\* f_close validates and locks twice: in f_sync, then to give up the object.
LogCall(t) ==
  /\ \/ At(t, "open") /\ Push(t, Frame("path", "find", None))
     \/ At(t, "write") /\ Push(t, Frame("file", "validate", Top(t).obj))
     \/ (At(t, "sync") \/ At(t, "close")) /\ Push(t, Frame("file", "validate", Top(t).obj))
  /\ UNCHANGED <<registry, fs, fsid, ready, grant, handler, file, history>>

LogDone(t) ==
  /\ At(t, "done")
  /\ handler' = Given(handler)
  /\ Return(t)
  /\ UNCHANGED <<registry, fs, fsid, ready, grant, history>>

-----------------------------------------------------------------------------
(* attach and detach.                                                      *)

\* The place must be free; f_mount gives up the volume there was and enters the
\* new one, without the mutex.
Register(t) ==
  LET d == Top(t).fs
  IN  /\ At(t, "register")
      /\ IF drivers # None
         THEN Return(t) /\ UNCHANGED <<registry, fs>>
         ELSE /\ drivers' = d /\ volume' = d
              /\ fs' = [x \in Driver |-> IF x \in {d, volume} THEN [fs[x] EXCEPT !.mounted = FALSE] ELSE fs[x]]
              /\ Goto(t, "mount")
              /\ UNCHANGED <<attached, num, file>>
      /\ UNCHANGED <<fsid, ready, grant, handler, history>>

\* f_mount mounts it at once.
MountNow(t) ==
  /\ At(t, "mount") /\ Push(t, Frame("mount", "find", None))
  /\ UNCHANGED <<registry, fs, fsid, ready, grant, handler, file, history>>

Registered(t) ==
  LET d == Top(t).fs
      ok == At(t, "served")
  IN  /\ At(t, "served") \/ At(t, "refused")
      /\ attached' = [attached EXCEPT ![d] = ok]
      /\ num' = IF ok THEN [num EXCEPT ![d] = 0] ELSE num
      /\ drivers' = IF ok THEN drivers ELSE None
      /\ Return(t)
      /\ UNCHANGED <<volume, fs, fsid, ready, grant, handler, history>>

\* Mutant of Unregistered: the volume stays.
UnregisteredOnly(d) ==
  drivers' = None /\ num' = [num EXCEPT ![d] = NotAttached] /\ UNCHANGED <<volume, fs>>

\* f_mount without a volume, then the driver is taken out; _attached stays.
Unregistered(d) ==
  /\ fs' = IF volume = None THEN fs ELSE [fs EXCEPT ![volume].mounted = FALSE]
  /\ volume' = None /\ drivers' = None
  /\ num' = [num EXCEPT ![d] = NotAttached]

Detach(t) ==
  LET d == Top(t).fs
  IN  /\ At(t, "unmount")
      /\ IF attached[d] THEN Unregistered(d) ELSE UNCHANGED <<drivers, num, volume, fs>>
      /\ Return(t)
      /\ UNCHANGED <<attached, fsid, ready, grant, handler, history>>

\* The card is pulled or the drive fails.
DriveLost(d) ==
  /\ ready[d] /\ ready' = [ready EXCEPT ![d] = FALSE]
  /\ UNCHANGED <<registry, fs, fsid, grant, handler, stack, file, history>>

-----------------------------------------------------------------------------
Init ==
  /\ drivers = None /\ volume = None
  /\ attached = [d \in Driver |-> FALSE] /\ num = [d \in Driver |-> NotAttached]
  /\ fs = [d \in Driver |-> [mounted |-> FALSE, id |-> 0]] /\ fsid = 0
  /\ ready = [d \in Driver |-> FALSE]
  /\ grant = Free /\ handler = Free
  /\ stack = [t \in Thread |-> <<>>] /\ file = [t \in Thread |-> None]
  /\ nested = FALSE /\ slipped = FALSE

Step(t) ==
  \/ FindVolume(t) \/ Validate(t) \/ Enter(t) \/ CheckVolume(t) \/ InitVolume(t) \/ Work(t) \/ Leave(t)
  \/ LogLock(t) \/ LogCall(t) \/ LogDone(t)
  \/ Register(t) \/ MountNow(t) \/ Registered(t) \/ Detach(t)

Next ==
  \/ \E t \in Thread :
       \/ Step(t) \/ LogInside(t)
       \/ CallPath(t) \/ CallFile(t) \/ CallLog(t) \/ CallDetach(t)
       \/ \E d \in Driver : CallAttach(t, d)
  \/ \E d \in Driver : DriveLost(d)

Spec == Init /\ [][Next]_vars

-----------------------------------------------------------------------------
Object == [fs : Driver, id : Nat]
Calls == [op : {"path", "file", "mount", "log", "attach", "detach"},
          pc : {"find", "validate", "enter", "check", "init", "work", "leave", "lock", "open", "write",
                "sync", "close", "done", "register", "mount", "served", "refused", "unmount"},
          fs : Driver \cup {None}, obj : Object \cup {None},
          res : {"OK", "NOT_ENABLED", "INVALID_OBJECT", "NOT_READY", "DISK_ERR"}]
Mutex == [owner : Thread \cup {None}, depth : Nat]

\* The types; a mutex has an owner exactly while it is locked.
TypeOK ==
  /\ drivers \in Driver \cup {None} /\ volume \in Driver \cup {None}
  /\ attached \in [Driver -> BOOLEAN] /\ num \in [Driver -> {0, NotAttached}]
  /\ fs \in [Driver -> [mounted : BOOLEAN, id : Nat]] /\ fsid \in Nat
  /\ ready \in [Driver -> BOOLEAN]
  /\ grant \in Mutex /\ (grant.owner = None <=> grant.depth = 0)
  /\ handler \in Mutex /\ (handler.owner = None <=> handler.depth = 0)
  /\ stack \in [Thread -> Seq(Calls)] /\ file \in [Thread -> Object \cup {None}]
  /\ nested \in BOOLEAN /\ slipped \in BOOLEAN

\* The calls of a stack that have the volume's mutex, and those that have the log's.
InLock(f) == f.pc \in {"check", "init", "work"} \/ (f.pc = "leave" /\ f.fs # None)
InLog(f) == f.op = "log" /\ f.pc \in {"open", "write", "sync", "close", "done"}
Entered(s) == {i \in DOMAIN s : InLock(s[i])}
Logging(s) == {i \in DOMAIN s : InLog(s[i])}

\* On every path out of a call, the mount inside attach, the failures before and
\* after the lock and the calls of the log inside another call included, each mutex
\* is held as often as calls in progress have it, by one thread.
LocksBalanced ==
  \A t \in Thread :
    /\ Cardinality(Entered(stack[t])) = IF grant.owner = t THEN grant.depth ELSE 0
    /\ Cardinality(Logging(stack[t])) = IF handler.owner = t THEN handler.depth ELSE 0

\* The code gives one guarantee for the object of a call that works: its volume is
\* mounted as it was when the object was opened.  It does so unless the mount came
\* between validate and the lock, or a message was logged inside a call (README,
\* Findings).
ObjectsFresh ==
  slipped \/ nested \/
    \A t \in Thread :
      At(t, "work") /\ Top(t).op = "file" =>
        LET o == Top(t).obj IN volume = o.fs /\ fs[o.fs] = [mounted |-> TRUE, id |-> o.id]

\* Between calls of attach and detach the registry and FatFs[0] agree: only the
\* volume in FatFs[0] is mounted, its own driver serves it, and driveNumber() tells
\* which driver is registered.  A message logged while attach mounts may mount the
\* volume that attach then fails to mount: attach takes the driver out, and the
\* volume stays mounted (README, Findings).
AttachedServes ==
  (\A t \in Thread : ~Mounting(t)) =>
    /\ \A d \in Driver : fs[d].mounted => volume = d /\ (drivers = d \/ nested)
    /\ \A d \in Driver : (drivers = d) <=> (attached[d] /\ num[d] # NotAttached)

=============================================================================
