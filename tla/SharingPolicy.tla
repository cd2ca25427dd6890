---------------------------- MODULE SharingPolicy ----------------------------
(***************************************************************************)
(* What the open-object table promises its callers, without the table: a   *)
(* handle is closed or has an object open for reading or writing; an open  *)
(* succeeds only beside opens it is compatible with; opening or closing    *)
(* one handle leaves every other handle alone; and the only thing that     *)
(* ends many opens together is the loss of the volume.                     *)
(***************************************************************************)
CONSTANTS Handles, Objects

VARIABLE open  \* handle -> what it has open

NotOpen == [acc |-> "none"]
Opened(o, a) == [obj |-> o, acc |-> a]
Opens == {NotOpen} \cup {Opened(o, a) : o \in Objects, a \in {"read", "write"}}

AllClosed == [h \in Handles |-> NotOpen]

\* May o be opened with access a beside the opens of s?
Compatible(s, o, a) ==
  \A h \in Handles : s[h] # NotOpen /\ s[h].obj = o =>
    a = "read" /\ s[h].acc = "read"

Init == open = AllClosed

\* s is what was open when the object was opened: a call that had to mount
\* the volume again first finds nothing open.
Open(h, o, a) ==
  \E s \in {open, AllClosed} :
    /\ s[h] = NotOpen
    /\ Compatible(s, o, a)
    /\ open' = [s EXCEPT ![h] = Opened(o, a)]

Close(h) == open' = [open EXCEPT ![h] = NotOpen]

VolumeLost == open' = AllClosed

Next ==
  \/ \E h \in Handles : Close(h) \/ \E o \in Objects, a \in {"read", "write"} : Open(h, o, a)
  \/ VolumeLost

Spec == Init /\ [][Next]_open
=============================================================================
