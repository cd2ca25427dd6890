----------------------------- MODULE ThreadsProofs -----------------------------
(***************************************************************************)
(* Proofs about Threads: for every number of threads and drivers, the     *)
(* mutexes are held as often as calls in progress have taken them, the     *)
(* registry agrees with FatFs[0], and a call works on a fresh object.      *)
(*                                                                         *)
(* The invariant says where each call of a stack can be, and what may lie  *)
(* under it (StacksGood).  The rest follows the actions: what a step does  *)
(* to a stack is one of three things, and how that counts for a mutex is   *)
(* said once (CountSwap, CountPush, CountPop).                             *)
(***************************************************************************)
EXTENDS Threads, FiniteSetTheorems, SequenceTheorems, TLAPS

-----------------------------------------------------------------------------
(* The inductive invariant.                                                *)

\* Where a call can be.
Placed(f) ==
  \/ f.op = "path" /\ f.pc \in {"find", "enter", "check", "init", "work", "leave"}
  \/ f.op = "file" /\ f.pc \in {"validate", "enter", "work", "leave"}
  \/ f.op = "mount" /\ f.pc \in {"find", "enter", "check", "init", "leave"}
  \/ f.op = "log" /\ f.pc \in {"lock", "open", "write", "sync", "close", "done"}
  \/ f.op = "attach" /\ f.pc \in {"register", "mount", "served", "refused"}
  \/ f.op = "detach" /\ f.pc = "unmount"

\* What it has there: a volume, an object, a result.
Filled(f) ==
  /\ f.pc \in {"enter", "check", "init", "work"} => f.fs \in Driver
  /\ f.pc \in {"find", "validate"} => f.fs = None
  /\ f.op \in {"attach", "detach"} => f.fs \in Driver
  /\ f.op = "file" => f.obj \in Object
  /\ f.op = "log" /\ f.pc \in {"write", "sync", "close"} => f.obj \in Object
  /\ f.pc = "leave" => (f.fs = None <=> f.res \in {"NOT_ENABLED", "INVALID_OBJECT"})
  /\ f.op \in {"path", "file", "mount"} /\ f.pc # "leave" => f.res = "OK"

\* The call f may lie on the call g.
Fits(f, g) ==
  \/ g.op = "log" /\ g.pc = "open" /\ f.op = "path"
  \/ g.op = "log" /\ g.pc \in {"write", "sync", "close"} /\ f.op = "file"
  \/ g.op = "attach" /\ g.pc = "mount" /\ f.op = "mount"
  \/ g.pc \in {"register", "init", "work"} /\ f.op = "log"

GoodCall(f) == f \in Calls /\ Placed(f) /\ Filled(f)

GoodStack(s) ==
  /\ s \in Seq(Calls)
  /\ \A i \in 1 .. Len(s) : GoodCall(s[i])
  /\ \A i \in 2 .. Len(s) : Fits(s[i - 1], s[i])
  /\ s # <<>> => s[Len(s)].op # "mount"

StacksGood == \A t \in Thread : GoodStack(stack[t])

\* A thread in attach or detach is the only one in the API.
Lone == \A t, u \in Thread : t # u /\ Mounting(t) => stack[u] = <<>>

\* While no message was logged inside a call, a log is entered from the application only.
LogsLast == nested \/ \A t \in Thread : \A i \in 2 .. Len(stack[t]) : stack[t][i - 1].op # "log"

\* A call that has passed find_volume is on the volume in FatFs[0].
OnVolume(f) == f.op \in {"path", "mount"} /\ f.pc \in {"enter", "check", "init"} => f.fs = volume

Volumes ==
  /\ drivers # None => volume = drivers
  /\ \A d \in Driver : fs[d].mounted => volume = d
  /\ \A t \in Thread : \A i \in 1 .. Len(stack[t]) : OnVolume(stack[t][i])
  /\ nested \/ drivers # None \/ \A d \in Driver : ~fs[d].mounted

\* A call of attach after it has registered its driver, and before its mount has succeeded.
Entering(f) == f.op = "attach" /\ f.pc # "register"
Barren(f) == \/ f.op = "mount" /\ ~(f.pc = "leave" /\ f.res = "OK")
             \/ f.op = "attach" /\ f.pc \in {"mount", "refused"}

InAttach == \E t \in Thread : \E i \in 1 .. Len(stack[t]) : Entering(stack[t][i])
Listed(d) == attached[d] /\ num[d] # NotAttached

Registry ==
  /\ \A t \in Thread : \A i \in 1 .. Len(stack[t]) :
       Entering(stack[t][i]) => drivers = stack[t][i].fs /\ \A d \in Driver : ~Listed(d)
  /\ \A t \in Thread : \A i \in 1 .. Len(stack[t]) :
       stack[t][i].op = "detach" => drivers = stack[t][i].fs
  /\ InAttach \/ \A d \in Driver : (drivers = d) <=> Listed(d)
  /\ nested \/ \A t \in Thread : stack[t] # <<>> /\ Barren(Top(t)) => \A d \in Driver : ~fs[d].mounted

\* A call on an open object, from validate to its end.
Fresh(o) == volume = o.fs /\ fs[o.fs].mounted /\ fs[o.fs].id = o.id
FreshFrom ==
  slipped \/ nested \/
    \A t \in Thread :
      stack[t] # <<>> /\ Top(t).op = "file" /\ Top(t).pc \in {"enter", "work"} =>
        Fresh(Top(t).obj)

Base == TypeOK /\ StacksGood /\ LocksBalanced
Rest == Lone /\ LogsLast /\ Volumes /\ Registry /\ FreshFrom
IInv == Base /\ Rest


-----------------------------------------------------------------------------
(* What a step does to a stack.                                            *)

Swapped(s, s2, g) ==
  /\ s2 \in Seq(Calls) /\ Len(s2) = Len(s) /\ s # <<>>
  /\ s2[1] = g /\ \A i \in 2 .. Len(s) : s2[i] = s[i]

Pushed(s, s2, g) ==
  /\ s2 \in Seq(Calls) /\ Len(s2) = Len(s) + 1
  /\ s2[1] = g /\ \A i \in 2 .. Len(s2) : s2[i] = s[i - 1]

\* g is what the caller becomes, if there is one.
Popped(s, s2, g) ==
  /\ s2 \in Seq(Calls) /\ s # <<>> /\ Len(s2) = Len(s) - 1
  /\ s2 # <<>> => s2[1] = g
  /\ \A i \in 2 .. Len(s2) : s2[i] = s[i + 1]

LEMMA SwapIs ==
  ASSUME NEW s \in Seq(Calls), s # <<>>, NEW g \in Calls
  PROVE  Swapped(s, <<g>> \o Tail(s), g)
  BY DEF Swapped

LEMMA PushIs ==
  ASSUME NEW s \in Seq(Calls), NEW g \in Calls
  PROVE  Pushed(s, <<g>> \o s, g)
  BY DEF Pushed

LEMMA PopIs ==
  ASSUME NEW s \in Seq(Calls), s # <<>>, Tail(s) # <<>>, NEW g \in Calls
  PROVE  Popped(s, <<g>> \o Tail(Tail(s)), g)
<1>1. Tail(s) \in Seq(Calls) /\ Len(Tail(s)) = Len(s) - 1 /\ \A i \in 1 .. Len(Tail(s)) : Tail(s)[i] = s[i + 1]
  OBVIOUS
<1>2. Tail(Tail(s)) \in Seq(Calls) /\ Len(Tail(Tail(s))) = Len(s) - 2
      /\ \A i \in 1 .. Len(Tail(Tail(s))) : Tail(Tail(s))[i] = s[i + 2]
  BY <1>1
<1> QED
  BY <1>2 DEF Popped

LEMMA LastCall ==
  ASSUME NEW s \in Seq(Calls), s # <<>>
  PROVE  Tail(s) = <<>> <=> Len(s) = 1
<1>1. Tail(s) \in Seq(Calls) /\ Len(Tail(s)) = Len(s) - 1 /\ Len(s) \in Nat
  OBVIOUS
<1>2. Tail(s) = <<>> <=> Len(Tail(s)) = 0
  BY <1>1, EmptySeq
<1> QED
  BY <1>1, <1>2

LEMMA PopLast ==
  ASSUME NEW s \in Seq(Calls), s # <<>>, Tail(s) = <<>>, NEW g
  PROVE  Popped(s, <<>>, g)
<1> DEFINE z == <<>>
<1>1. Len(s) = 1
  BY LastCall
<1>2. z \in Seq(Calls) /\ Len(z) = 0 /\ z = <<>>
  OBVIOUS
<1> HIDE DEF z
<1> QED
  BY <1>1, <1>2 DEF Popped

\* Each of the three keeps a stack good.
LEMMA SwapGood ==
  ASSUME NEW s, NEW s2, NEW g, GoodStack(s), Swapped(s, s2, g), GoodCall(g), g.op = s[1].op
  PROVE  GoodStack(s2)
<1>1. \A i \in 1 .. Len(s2) : GoodCall(s2[i])
  BY DEF GoodStack, Swapped
<1>2. \A i \in 2 .. Len(s2) : Fits(s2[i - 1], s2[i])
  <2> SUFFICES ASSUME NEW i \in 2 .. Len(s2) PROVE Fits(s2[i - 1], s2[i])
    OBVIOUS
  <2>1. Fits(s[i - 1], s[i]) /\ s2[i] = s[i] /\ Len(s) \in Nat
    BY DEF GoodStack, Swapped
  <2>2. s2[i - 1].op = s[i - 1].op
    <3>1. CASE i = 2
      BY <3>1 DEF Swapped
    <3>2. CASE i # 2
      BY <3>2, <2>1 DEF Swapped
    <3> QED BY <3>1, <3>2
  <2> QED
    BY <2>1, <2>2 DEF Fits
<1>3. s2 # <<>> => s2[Len(s2)].op # "mount"
  BY DEF GoodStack, Swapped
<1> QED
  BY <1>1, <1>2, <1>3 DEF GoodStack, Swapped

LEMMA PushGood ==
  ASSUME NEW s, NEW s2, NEW g, GoodStack(s), Pushed(s, s2, g), GoodCall(g),
         s = <<>> => g.op # "mount", s # <<>> => Fits(g, s[1])
  PROVE  GoodStack(s2)
<1>1. \A i \in 1 .. Len(s2) : GoodCall(s2[i])
  BY DEF GoodStack, Pushed
<1>2. \A i \in 2 .. Len(s2) : Fits(s2[i - 1], s2[i])
  <2> SUFFICES ASSUME NEW i \in 2 .. Len(s2) PROVE Fits(s2[i - 1], s2[i])
    OBVIOUS
  <2>1. s2[i] = s[i - 1] /\ Len(s) \in Nat /\ Len(s2) = Len(s) + 1
    BY DEF GoodStack, Pushed
  <2>2. CASE i = 2
    BY <2>1, <2>2 DEF Pushed, GoodStack
  <2>3. CASE i # 2
    BY <2>1, <2>3 DEF Pushed, GoodStack
  <2> QED
    BY <2>2, <2>3
<1>3. s2 # <<>> => s2[Len(s2)].op # "mount"
  BY DEF GoodStack, Pushed
<1> QED
  BY <1>1, <1>2, <1>3 DEF GoodStack, Pushed

LEMMA PopGood ==
  ASSUME NEW s, NEW s2, NEW g, GoodStack(s), Popped(s, s2, g),
         Len(s) > 1 => GoodCall(g) /\ g.op = s[2].op
  PROVE  GoodStack(s2)
<1>1. \A i \in 1 .. Len(s2) : GoodCall(s2[i])
  BY DEF GoodStack, Popped
<1>2. \A i \in 2 .. Len(s2) : Fits(s2[i - 1], s2[i])
  <2> SUFFICES ASSUME NEW i \in 2 .. Len(s2) PROVE Fits(s2[i - 1], s2[i])
    OBVIOUS
  <2>1. Fits(s[i], s[i + 1]) /\ s2[i] = s[i + 1] /\ Len(s) \in Nat
    BY DEF GoodStack, Popped
  <2>2. s2[i - 1].op = s[i].op
    <3>1. CASE i = 2
      BY <3>1, <2>1 DEF Popped
    <3>2. CASE i # 2
      BY <3>2, <2>1 DEF Popped
    <3> QED BY <3>1, <3>2
  <2> QED
    BY <2>1, <2>2 DEF Fits
<1>3. s2 # <<>> => s2[Len(s2)].op # "mount"
  BY DEF GoodStack, Popped
<1> QED
  BY <1>1, <1>2, <1>3 DEF GoodStack, Popped


-----------------------------------------------------------------------------
(* How it counts for a mutex.                                              *)

LEMMA FiniteCounts ==
  ASSUME NEW s \in Seq(Calls)
  PROVE  /\ IsFiniteSet(Entered(s)) /\ Cardinality(Entered(s)) \in Nat
         /\ IsFiniteSet(Logging(s)) /\ Cardinality(Logging(s)) \in Nat
         /\ Entered(s) \in SUBSET Nat /\ Logging(s) \in SUBSET Nat
<1>1. Len(s) \in Nat /\ DOMAIN s = 1 .. Len(s)
  OBVIOUS
<1>2. IsFiniteSet(1 .. Len(s))
  BY <1>1, FS_Interval
<1>3. Entered(s) \in SUBSET (1 .. Len(s)) /\ Logging(s) \in SUBSET (1 .. Len(s))
  BY <1>1 DEF Entered, Logging
<1>4. IsFiniteSet(Entered(s)) /\ IsFiniteSet(Logging(s))
  BY <1>2, <1>3, FS_Subset
<1> QED
  BY <1>1, <1>3, <1>4, FS_CardinalityType

LEMMA ShiftCounts ==
  ASSUME NEW S \in SUBSET Nat, IsFiniteSet(S), NEW T, T = {i + 1 : i \in S}
  PROVE  IsFiniteSet(T) /\ Cardinality(T) = Cardinality(S)
<1> DEFINE f == [i \in S |-> i + 1]
<1>1. f \in [S -> T]
  OBVIOUS
<1>2. \A i, j \in S : f[i] = f[j] => i = j
  OBVIOUS
<1>3. \A j \in T : \E i \in S : f[i] = j
  OBVIOUS
<1>4. f \in Bijection(S, T)
  BY <1>1, <1>2, <1>3 DEF Bijection, Injection, Surjection, IsInjective
<1> QED
  BY <1>4, FS_Bijection DEF ExistsBijection

One(b) == IF b THEN 1 ELSE 0

LEMMA CountSwap ==
  ASSUME NEW s \in Seq(Calls), NEW s2, NEW g, Swapped(s, s2, g)
  PROVE  /\ Cardinality(Entered(s2)) = (Cardinality(Entered(s)) - One(InLock(s[1]))) + One(InLock(g))
         /\ Cardinality(Logging(s2)) = (Cardinality(Logging(s)) - One(InLog(s[1]))) + One(InLog(g))
<1>1. DOMAIN s = 1 .. Len(s) /\ DOMAIN s2 = 1 .. Len(s) /\ Len(s) \in Nat /\ 1 \in 1 .. Len(s)
  BY DEF Swapped
<1>2. \A i \in 1 .. Len(s) : i # 1 => s2[i] = s[i]
  BY <1>1 DEF Swapped
<1>3. s2[1] = g
  BY DEF Swapped
<1> DEFINE R == {i \in 2 .. Len(s) : InLock(s[i])}
           Q == {i \in 2 .. Len(s) : InLog(s[i])}
<1>4. /\ Entered(s) = IF InLock(s[1]) THEN R \cup {1} ELSE R
      /\ Entered(s2) = IF InLock(g) THEN R \cup {1} ELSE R
      /\ Logging(s) = IF InLog(s[1]) THEN Q \cup {1} ELSE Q
      /\ Logging(s2) = IF InLog(g) THEN Q \cup {1} ELSE Q
  BY <1>1, <1>2, <1>3 DEF Entered, Logging
<1>5. 1 \notin R /\ 1 \notin Q /\ R \in SUBSET (2 .. Len(s)) /\ Q \in SUBSET (2 .. Len(s))
  OBVIOUS
<1> HIDE DEF R, Q
<1>6. IsFiniteSet(R) /\ IsFiniteSet(Q) /\ Cardinality(R) \in Nat /\ Cardinality(Q) \in Nat
  <2>1. IsFiniteSet(2 .. Len(s))
    BY <1>1, FS_Interval
  <2>2. IsFiniteSet(R) /\ IsFiniteSet(Q)
    BY <1>5, <2>1, FS_Subset
  <2> QED
    BY <2>2, FS_CardinalityType
<1>7. Cardinality(R \cup {1}) = Cardinality(R) + 1 /\ Cardinality(Q \cup {1}) = Cardinality(Q) + 1
  BY <1>5, <1>6, FS_AddElement
<1> QED
  BY <1>4, <1>6, <1>7 DEF One

LEMMA CountPush ==
  ASSUME NEW s \in Seq(Calls), NEW s2, NEW g, Pushed(s, s2, g)
  PROVE  /\ Cardinality(Entered(s2)) = Cardinality(Entered(s)) + One(InLock(g))
         /\ Cardinality(Logging(s2)) = Cardinality(Logging(s)) + One(InLog(g))
<1>1. /\ DOMAIN s = 1 .. Len(s) /\ DOMAIN s2 = 1 .. (Len(s) + 1) /\ Len(s) \in Nat
      /\ Len(s2) = Len(s) + 1
  BY DEF Pushed
<1>2. s2[1] = g /\ \A i \in 2 .. Len(s) + 1 : s2[i] = s[i - 1]
  BY <1>1 DEF Pushed
<1> DEFINE R == {i + 1 : i \in Entered(s)}
           Q == {i + 1 : i \in Logging(s)}
<1>3. R = {i \in 2 .. Len(s) + 1 : InLock(s2[i])}
  <2>1. ASSUME NEW i \in 2 .. Len(s) + 1 PROVE i \in R <=> InLock(s2[i])
    <3>1. s2[i] = s[i - 1] /\ i - 1 \in 1 .. Len(s) /\ i = (i - 1) + 1
      BY <1>1, <1>2
    <3> QED
      BY <1>1, <3>1 DEF Entered
  <2>2. ASSUME NEW i \in R PROVE i \in 2 .. Len(s) + 1
    BY <1>1 DEF Entered
  <2> QED
    BY <2>1, <2>2
<1>4. Q = {i \in 2 .. Len(s) + 1 : InLog(s2[i])}
  <2>1. ASSUME NEW i \in 2 .. Len(s) + 1 PROVE i \in Q <=> InLog(s2[i])
    <3>1. s2[i] = s[i - 1] /\ i - 1 \in 1 .. Len(s) /\ i = (i - 1) + 1
      BY <1>1, <1>2
    <3> QED
      BY <1>1, <3>1 DEF Logging
  <2>2. ASSUME NEW i \in Q PROVE i \in 2 .. Len(s) + 1
    BY <1>1 DEF Logging
  <2> QED
    BY <2>1, <2>2
<1>5. /\ IsFiniteSet(R) /\ Cardinality(R) = Cardinality(Entered(s))
      /\ IsFiniteSet(Q) /\ Cardinality(Q) = Cardinality(Logging(s))
      /\ Cardinality(R) \in Nat /\ Cardinality(Q) \in Nat
  BY FiniteCounts, ShiftCounts
<1> HIDE DEF R, Q
<1>6. /\ Entered(s2) = IF InLock(g) THEN R \cup {1} ELSE R
      /\ Logging(s2) = IF InLog(g) THEN Q \cup {1} ELSE Q
  BY <1>1, <1>2, <1>3, <1>4 DEF Entered, Logging
<1>7. 1 \notin R /\ 1 \notin Q
  BY <1>3, <1>4
<1>8. Cardinality(R \cup {1}) = Cardinality(R) + 1 /\ Cardinality(Q \cup {1}) = Cardinality(Q) + 1
  BY <1>5, <1>7, FS_AddElement
<1> QED
  BY <1>5, <1>6, <1>8 DEF One

\* A call that ends is, seen backwards, one that begins on the caller.
LEMMA CountPop ==
  ASSUME NEW s \in Seq(Calls), NEW s2, NEW g, Popped(s, s2, g),
         s2 # <<>> => (InLock(g) <=> InLock(s[2])) /\ (InLog(g) <=> InLog(s[2]))
  PROVE  /\ Cardinality(Entered(s2)) = Cardinality(Entered(s)) - One(InLock(s[1]))
         /\ Cardinality(Logging(s2)) = Cardinality(Logging(s)) - One(InLog(s[1]))
<1>0. s2 \in Seq(Calls)
  BY DEF Popped
<1>1. /\ DOMAIN s = 1 .. (Len(s2) + 1) /\ DOMAIN s2 = 1 .. Len(s2) /\ Len(s2) \in Nat
      /\ Len(s) = Len(s2) + 1
  BY DEF Popped
<1>2. \A i \in 1 .. Len(s2) : (InLock(s2[i]) <=> InLock(s[i + 1])) /\ (InLog(s2[i]) <=> InLog(s[i + 1]))
  <2> SUFFICES ASSUME NEW i \in 1 .. Len(s2)
               PROVE  (InLock(s2[i]) <=> InLock(s[i + 1])) /\ (InLog(s2[i]) <=> InLog(s[i + 1]))
    OBVIOUS
  <2>0. s2 # <<>>
    BY <1>0, <1>1
  <2>1. CASE i = 1
    <3>1. s2[1] = g
      BY <2>0 DEF Popped
    <3> QED
      BY <2>0, <2>1, <3>1
  <2>2. CASE i # 1
    BY <1>1, <2>2 DEF Popped
  <2> QED
    BY <2>1, <2>2
<1> DEFINE R == {i + 1 : i \in Entered(s2)}
           Q == {i + 1 : i \in Logging(s2)}
<1>3. R = {i \in 2 .. Len(s2) + 1 : InLock(s[i])}
  <2>1. ASSUME NEW i \in 2 .. Len(s2) + 1 PROVE i \in R <=> InLock(s[i])
    <3>1. i - 1 \in 1 .. Len(s2) /\ i = (i - 1) + 1
      BY <1>1
    <3>2. InLock(s2[i - 1]) <=> InLock(s[i])
      BY <1>2, <3>1
    <3> QED
      BY <1>1, <3>1, <3>2 DEF Entered
  <2>2. ASSUME NEW i \in R PROVE i \in 2 .. Len(s2) + 1
    BY <1>1 DEF Entered
  <2> QED
    BY <2>1, <2>2
<1>4. Q = {i \in 2 .. Len(s2) + 1 : InLog(s[i])}
  <2>1. ASSUME NEW i \in 2 .. Len(s2) + 1 PROVE i \in Q <=> InLog(s[i])
    <3>1. i - 1 \in 1 .. Len(s2) /\ i = (i - 1) + 1
      BY <1>1
    <3>2. InLog(s2[i - 1]) <=> InLog(s[i])
      BY <1>2, <3>1
    <3> QED
      BY <1>1, <3>1, <3>2 DEF Logging
  <2>2. ASSUME NEW i \in Q PROVE i \in 2 .. Len(s2) + 1
    BY <1>1 DEF Logging
  <2> QED
    BY <2>1, <2>2
<1>5. /\ IsFiniteSet(R) /\ Cardinality(R) = Cardinality(Entered(s2))
      /\ IsFiniteSet(Q) /\ Cardinality(Q) = Cardinality(Logging(s2))
      /\ Cardinality(R) \in Nat /\ Cardinality(Q) \in Nat
  BY <1>0, FiniteCounts, ShiftCounts
<1> HIDE DEF R, Q
<1>6. /\ Entered(s) = IF InLock(s[1]) THEN R \cup {1} ELSE R
      /\ Logging(s) = IF InLog(s[1]) THEN Q \cup {1} ELSE Q
  BY <1>1, <1>3, <1>4 DEF Entered, Logging
<1>7. 1 \notin R /\ 1 \notin Q
  BY <1>3, <1>4
<1>8. Cardinality(R \cup {1}) = Cardinality(R) + 1 /\ Cardinality(Q \cup {1}) = Cardinality(Q) + 1
  BY <1>5, <1>7, FS_AddElement
<1> QED
  BY <1>5, <1>6, <1>8 DEF One


-----------------------------------------------------------------------------
(* The steps of a thread on its stack.                                     *)

Others(t) == stack' \in [Thread -> Seq(Calls)] /\ \A u \in Thread \ {t} : stack'[u] = stack[u]
SwapStep(t, g) == Others(t) /\ Swapped(stack[t], stack'[t], g)
PushStep(t, g) == Others(t) /\ Pushed(stack[t], stack'[t], g)
PopStep(t, g) == Others(t) /\ Popped(stack[t], stack'[t], g)

\* The caller c of f becomes g.
Resumed(f, c, g) ==
  /\ GoodCall(g) /\ g.op = c.op /\ g.fs = c.fs
  /\ \/ g = c /\ c.pc \in {"register", "init", "work"}
     \/ c.op = "log" /\ c.pc \in {"open", "write", "sync", "close"} /\ g.pc \in {"write", "sync", "close", "done"}
     \/ /\ c.op = "attach" /\ c.pc = "mount" /\ f.op = "mount"
        /\ g.pc = IF f.res = "OK" THEN "served" ELSE "refused"

LEMMA BecomesIs ==
  ASSUME TypeOK, NEW t \in Thread, stack[t] # <<>>, NEW g \in Calls, Becomes(t, g)
  PROVE  SwapStep(t, g)
<1>1. stack \in [Thread -> Seq(Calls)]
  BY DEF TypeOK
<1>2. Swapped(stack[t], <<g>> \o Tail(stack[t]), g)
  BY <1>1, SwapIs
<1>3. stack' = [stack EXCEPT ![t] = <<g>> \o Tail(stack[t])]
  BY DEF Becomes
<1>4. <<g>> \o Tail(stack[t]) \in Seq(Calls)
  BY <1>2 DEF Swapped
<1> QED
  BY <1>1, <1>2, <1>3, <1>4 DEF SwapStep, Others

LEMMA PushStepIs ==
  ASSUME TypeOK, NEW t \in Thread, NEW g \in Calls, Push(t, g)
  PROVE  PushStep(t, g)
<1>1. stack \in [Thread -> Seq(Calls)]
  BY DEF TypeOK
<1>2. Pushed(stack[t], <<g>> \o stack[t], g)
  BY <1>1, PushIs
<1>3. stack' = [stack EXCEPT ![t] = <<g>> \o stack[t]]
  BY DEF Push
<1>4. <<g>> \o stack[t] \in Seq(Calls)
  BY <1>2 DEF Pushed
<1> QED
  BY <1>1, <1>2, <1>3, <1>4 DEF PushStep, Others

LEMMA ResumedIs ==
  ASSUME NEW f, NEW c, NEW g, GoodCall(f), GoodCall(c), Fits(f, c),
         NEW obj, f.op = "path" /\ f.res = "OK" => obj \in Object,
         g = [c EXCEPT !.pc = Resume(c, f.res = "OK"),
                       !.obj = IF f.op = "path" /\ f.res = "OK" THEN obj ELSE @]
  PROVE  Resumed(f, c, g)
<1>0. /\ c \in Calls /\ f \in Calls
      /\ c.obj \in Object \cup {None}
  BY DEF GoodCall, Calls
<1>1. CASE c.op = "log" /\ c.pc = "open" /\ f.op = "path"
  BY <1>0, <1>1 DEF GoodCall, Calls, Placed, Filled, Resume, Resumed
<1>2. CASE c.op = "log" /\ c.pc \in {"write", "sync", "close"} /\ f.op = "file"
  <2>1. PICK pc : pc = Resume(c, f.res = "OK")
    OBVIOUS
  <2>2. pc \in {"sync", "close", "done"}
    BY <1>2, <2>1 DEF Resume
  <2>3. g = [c EXCEPT !.pc = pc]
    BY <1>0, <1>2, <2>1 DEF Calls
  <2> QED
    BY <1>0, <1>2, <2>2, <2>3 DEF GoodCall, Calls, Placed, Filled, Resumed
<1>3. CASE c.op = "attach" /\ c.pc = "mount" /\ f.op = "mount"
  BY <1>0, <1>3 DEF GoodCall, Calls, Placed, Filled, Resume, Resumed
<1>4. CASE c.pc \in {"register", "init", "work"} /\ f.op = "log"
  <2>1. g = c
    BY <1>0, <1>4 DEF Resume, Calls
  <2> QED
    BY <1>4, <2>1 DEF Resumed
<1> QED
  BY <1>1, <1>2, <1>3, <1>4 DEF Fits

LEMMA ReturnIs ==
  ASSUME TypeOK, StacksGood, NEW t \in Thread, stack[t] # <<>>, Return(t),
         stack[t][1].op = "path" /\ stack[t][1].res = "OK" => stack[t][1].fs \in Driver
  PROVE  /\ file' \in [Thread -> Object \cup {None}]
         /\ \E g : PopStep(t, g) /\ (Len(stack[t]) > 1 => Resumed(stack[t][1], stack[t][2], g))
<1> DEFINE s == stack[t]
           f == s[1]
           obj == [fs |-> f.fs, id |-> fs[f.fs].id]
<1>1. /\ stack \in [Thread -> Seq(Calls)] /\ s \in Seq(Calls) /\ s # <<>> /\ GoodStack(s)
      /\ Head(s) = f /\ f \in Calls /\ Len(s) \in Nat
  BY DEF TypeOK, StacksGood
<1>2. f.op = "path" /\ f.res = "OK" => obj \in Object
  BY DEF TypeOK, Object
<1>3. file' \in [Thread -> Object \cup {None}]
  <2>1. file' = file \/ (f.op = "path" /\ f.res = "OK" /\ file' = [file EXCEPT ![t] = obj])
    BY <1>1 DEF Return, Top
  <2>2. file \in [Thread -> Object \cup {None}]
    BY DEF TypeOK
  <2> HIDE DEF obj
  <2> QED
    BY <1>2, <2>1, <2>2
<1>4. CASE Tail(s) = <<>>
  <2>1. stack' = [stack EXCEPT ![t] = <<>>]
    BY <1>4 DEF Return
  <2>2. Popped(s, <<>>, f)
    BY <1>1, <1>4, PopLast
  <2>3. stack' \in [Thread -> Seq(Calls)] /\ stack'[t] = <<>> /\ \A u \in Thread \ {t} : stack'[u] = stack[u]
    BY <1>1, <2>1
  <2>4. PopStep(t, f)
    BY <2>2, <2>3 DEF PopStep, Others
  <2>5. ~(Len(s) > 1)
    <3>1. Tail(s) = <<>> <=> Len(s) = 1
      BY <1>1, LastCall
    <3>2. Len(s) = 1
      BY <1>4, <3>1
    <3> HIDE DEF s
    <3> QED
      BY <3>2
  <2> QED
    BY <1>3, <2>4, <2>5
<1>5. CASE Tail(s) # <<>>
  <2> DEFINE c == Head(Tail(s))
             g == [c EXCEPT !.pc = Resume(c, f.res = "OK"),
                            !.obj = IF f.op = "path" /\ f.res = "OK" THEN obj ELSE @]
  <2>1. Tail(s) \in Seq(Calls) /\ c = s[2] /\ Len(s) > 1
    BY <1>1, <1>5
  <2>2. GoodCall(f) /\ GoodCall(c) /\ Fits(f, c)
    BY <1>1, <2>1 DEF GoodStack
  <2>3. stack' = [stack EXCEPT ![t] = <<g>> \o Tail(Tail(s))]
    BY <1>1, <1>5 DEF Return, Top
  <2> HIDE DEF obj
  <2>4. Resumed(f, c, g)
    <3> HIDE DEF c
    <3> QED BY <1>2, <2>2, ResumedIs
  <2>5. g \in Calls
    BY <2>4 DEF Resumed, GoodCall
  <2> HIDE DEF g
  <2>6. Popped(s, <<g>> \o Tail(Tail(s)), g)
    BY <1>1, <1>5, <2>5, PopIs
  <2>7. <<g>> \o Tail(Tail(s)) \in Seq(Calls)
    BY <2>6 DEF Popped
  <2>8. stack' \in [Thread -> Seq(Calls)] /\ stack'[t] = <<g>> \o Tail(Tail(s))
        /\ \A u \in Thread \ {t} : stack'[u] = stack[u]
    BY <1>1, <2>3, <2>7
  <2>9. PopStep(t, g)
    BY <2>6, <2>8 DEF PopStep, Others
  <2> QED
    BY <1>3, <2>1, <2>4, <2>9
<1> QED
  BY <1>4, <1>5


-----------------------------------------------------------------------------
(* Taking and giving a mutex.                                              *)

Sound(m) == m \in Mutex /\ (m.owner = None <=> m.depth = 0)
Held(m, t) == IF m.owner = t THEN m.depth ELSE 0

LEMMA Taking ==
  ASSUME NEW m, Sound(m), NEW t \in Thread, Grantable(m, t)
  PROVE  /\ Sound(Taken(m, t)) /\ Held(Taken(m, t), t) = Held(m, t) + 1
         /\ \A u \in Thread \ {t} : Held(Taken(m, t), u) = Held(m, u)
<1>1. t # None /\ m.depth \in Nat
  BY ThreadsAssumption DEF Sound, Mutex
<1> QED
  BY <1>1, ThreadsAssumption DEF Sound, Mutex, Held, Taken, Grantable

LEMMA Giving ==
  ASSUME NEW m, Sound(m), NEW t \in Thread, Held(m, t) > 0
  PROVE  /\ Sound(Given(m)) /\ Held(Given(m), t) = Held(m, t) - 1
         /\ \A u \in Thread \ {t} : Held(Given(m), u) = Held(m, u)
<1>1. t # None /\ m.depth \in Nat /\ m.owner = t /\ m.depth > 0
  BY ThreadsAssumption DEF Sound, Mutex, Held
<1>2. CASE m.depth = 1
  BY <1>1, <1>2, ThreadsAssumption DEF Sound, Mutex, Held, Given, Free
<1>3. CASE m.depth # 1
  <2>1. Given(m) = [owner |-> t, depth |-> m.depth - 1] /\ m.depth - 1 \in Nat /\ m.depth - 1 # 0
    BY <1>1, <1>3 DEF Given, Sound, Mutex
  <2> QED
    BY <1>1, <2>1 DEF Sound, Mutex, Held
<1> QED
  BY <1>2, <1>3

\* What a call on top means for the mutexes.
LEMMA TopHolds ==
  ASSUME TypeOK, StacksGood, LocksBalanced, NEW t \in Thread, stack[t] # <<>>
  PROVE  /\ Sound(grant) /\ Sound(handler)
         /\ InLock(stack[t][1]) => Held(grant, t) > 0
         /\ InLog(stack[t][1]) => Held(handler, t) > 0
<1>1. stack[t] \in Seq(Calls) /\ 1 \in DOMAIN stack[t] /\ Sound(grant) /\ Sound(handler)
  BY DEF TypeOK, Sound
<1>2. /\ IsFiniteSet(Entered(stack[t])) /\ IsFiniteSet(Logging(stack[t]))
      /\ Cardinality(Entered(stack[t])) \in Nat /\ Cardinality(Logging(stack[t])) \in Nat
  BY <1>1, FiniteCounts
<1>3. /\ InLock(stack[t][1]) => Entered(stack[t]) # {}
      /\ InLog(stack[t][1]) => Logging(stack[t]) # {}
  BY <1>1 DEF Entered, Logging
<1>4. /\ InLock(stack[t][1]) => Cardinality(Entered(stack[t])) # 0
      /\ InLog(stack[t][1]) => Cardinality(Logging(stack[t])) # 0
  BY <1>2, <1>3, FS_EmptySet
<1>5. Cardinality(Entered(stack[t])) = Held(grant, t) /\ Cardinality(Logging(stack[t])) = Held(handler, t)
  BY DEF LocksBalanced, Held
<1> QED
  BY <1>1, <1>2, <1>4, <1>5

\* A step of t keeps the balance when it counts for each mutex what it does to it.
LEMMA BalanceKept ==
  ASSUME LocksBalanced, NEW t \in Thread, Others(t),
         Cardinality(Entered(stack'[t])) - Cardinality(Entered(stack[t])) = Held(grant', t) - Held(grant, t),
         Cardinality(Logging(stack'[t])) - Cardinality(Logging(stack[t])) = Held(handler', t) - Held(handler, t),
         Cardinality(Entered(stack'[t])) \in Int, Cardinality(Logging(stack'[t])) \in Int,
         Held(grant, t) \in Int, Held(handler, t) \in Int, Held(grant', t) \in Int, Held(handler', t) \in Int,
         \A u \in Thread \ {t} : Held(grant', u) = Held(grant, u) /\ Held(handler', u) = Held(handler, u)
  PROVE  LocksBalanced'
<1>1. Cardinality(Entered(stack[t])) = Held(grant, t) /\ Cardinality(Logging(stack[t])) = Held(handler, t)
  BY DEF LocksBalanced, Held
<1>2. Cardinality(Entered(stack'[t])) = Held(grant', t) /\ Cardinality(Logging(stack'[t])) = Held(handler', t)
  BY <1>1
<1>3. ASSUME NEW u \in Thread \ {t}
      PROVE  Cardinality(Entered(stack'[u])) = Held(grant', u) /\ Cardinality(Logging(stack'[u])) = Held(handler', u)
  BY DEF LocksBalanced, Held, Others
<1>4. \A u \in Thread : Cardinality(Entered(stack'[u])) = Held(grant', u)
                        /\ Cardinality(Logging(stack'[u])) = Held(handler', u)
  BY <1>2, <1>3
<1> QED
  BY <1>4 DEF LocksBalanced, Held

\* The mutexes stay, and so do the calls that have them.
LEMMA SwapBalance ==
  ASSUME TypeOK, LocksBalanced, NEW t \in Thread, NEW g, SwapStep(t, g),
         InLock(g) <=> InLock(stack[t][1]), InLog(g) <=> InLog(stack[t][1]),
         grant' = grant, handler' = handler
  PROVE  LocksBalanced'
<1>1. stack[t] \in Seq(Calls) /\ stack'[t] \in Seq(Calls)
  BY DEF TypeOK, SwapStep, Others
<1>2. /\ Cardinality(Entered(stack[t])) \in Nat /\ Cardinality(Logging(stack[t])) \in Nat
      /\ Cardinality(Entered(stack'[t])) \in Nat /\ Cardinality(Logging(stack'[t])) \in Nat
  BY <1>1, FiniteCounts
<1>3. /\ Cardinality(Entered(stack'[t])) = Cardinality(Entered(stack[t]))
      /\ Cardinality(Logging(stack'[t])) = Cardinality(Logging(stack[t]))
  BY <1>1, <1>2, CountSwap DEF SwapStep, One
<1>4. \A u \in Thread : Cardinality(Entered(stack'[u])) = Cardinality(Entered(stack[u]))
                        /\ Cardinality(Logging(stack'[u])) = Cardinality(Logging(stack[u]))
  BY <1>3 DEF SwapStep, Others
<1> QED
  BY <1>4 DEF LocksBalanced

LEMMA PushBalance ==
  ASSUME TypeOK, LocksBalanced, NEW t \in Thread, NEW g, PushStep(t, g),
         ~InLock(g), ~InLog(g), grant' = grant, handler' = handler
  PROVE  LocksBalanced'
<1>1. stack[t] \in Seq(Calls) /\ stack'[t] \in Seq(Calls)
  BY DEF TypeOK, PushStep, Others
<1>2. /\ Cardinality(Entered(stack[t])) \in Nat /\ Cardinality(Logging(stack[t])) \in Nat
      /\ Cardinality(Entered(stack'[t])) \in Nat /\ Cardinality(Logging(stack'[t])) \in Nat
  BY <1>1, FiniteCounts
<1>3. /\ Cardinality(Entered(stack'[t])) = Cardinality(Entered(stack[t]))
      /\ Cardinality(Logging(stack'[t])) = Cardinality(Logging(stack[t]))
  BY <1>1, <1>2, CountPush DEF PushStep, One
<1>4. \A u \in Thread : Cardinality(Entered(stack'[u])) = Cardinality(Entered(stack[u]))
                        /\ Cardinality(Logging(stack'[u])) = Cardinality(Logging(stack[u]))
  BY <1>3 DEF PushStep, Others
<1> QED
  BY <1>4 DEF LocksBalanced


LEMMA ResumedHolds ==
  ASSUME NEW f, NEW c, NEW g, Resumed(f, c, g)
  PROVE  (InLock(g) <=> InLock(c)) /\ (InLog(g) <=> InLog(c))
  BY DEF Resumed, InLock, InLog

LEMMA PopBalance ==
  ASSUME TypeOK, StacksGood, LocksBalanced, NEW t \in Thread, NEW g, PopStep(t, g),
         Len(stack[t]) > 1 => Resumed(stack[t][1], stack[t][2], g),
         Held(grant', t) = Held(grant, t) - One(InLock(stack[t][1])),
         Held(handler', t) = Held(handler, t) - One(InLog(stack[t][1])),
         \A u \in Thread \ {t} : Held(grant', u) = Held(grant, u) /\ Held(handler', u) = Held(handler, u)
  PROVE  LocksBalanced'
<1>1. stack[t] \in Seq(Calls) /\ stack'[t] \in Seq(Calls) /\ Popped(stack[t], stack'[t], g) /\ Others(t)
  BY DEF TypeOK, PopStep, Others
<1>2. /\ Cardinality(Entered(stack[t])) \in Nat /\ Cardinality(Logging(stack[t])) \in Nat
      /\ Cardinality(Entered(stack'[t])) \in Nat /\ Cardinality(Logging(stack'[t])) \in Nat
  BY <1>1, FiniteCounts
<1>3. stack'[t] # <<>> => (InLock(g) <=> InLock(stack[t][2])) /\ (InLog(g) <=> InLog(stack[t][2]))
  <2> SUFFICES ASSUME stack'[t] # <<>>
               PROVE  (InLock(g) <=> InLock(stack[t][2])) /\ (InLog(g) <=> InLog(stack[t][2]))
    OBVIOUS
  <2>1. Len(stack[t]) > 1
    BY <1>1 DEF Popped
  <2> QED
    BY <2>1, ResumedHolds
<1>4. /\ Cardinality(Entered(stack'[t])) = Cardinality(Entered(stack[t])) - One(InLock(stack[t][1]))
      /\ Cardinality(Logging(stack'[t])) = Cardinality(Logging(stack[t])) - One(InLog(stack[t][1]))
  BY <1>1, <1>3, CountPop
<1>5. Cardinality(Entered(stack[t])) = Held(grant, t) /\ Cardinality(Logging(stack[t])) = Held(handler, t)
  BY DEF LocksBalanced, Held
<1>6. Held(grant', t) \in Int /\ Held(handler', t) \in Int /\ Held(grant, t) \in Int /\ Held(handler, t) \in Int
  BY <1>2, <1>5 DEF One
<1>7. /\ Cardinality(Entered(stack'[t])) = Held(grant', t)
      /\ Cardinality(Logging(stack'[t])) = Held(handler', t)
  BY <1>4, <1>5
<1> QED
  BY <1>1, <1>2, <1>5, <1>6, <1>7, BalanceKept

-----------------------------------------------------------------------------
(* Each action keeps the types, the stacks and the balance of the mutexes. *)

LEMMA StacksAfter ==
  ASSUME StacksGood, NEW t \in Thread, Others(t), GoodStack(stack'[t])
  PROVE  StacksGood'
  BY DEF StacksGood, Others

\* The call on top.
LEMMA TopIs ==
  ASSUME Base, NEW t \in Thread, stack[t] # <<>>
  PROVE  /\ stack[t] \in Seq(Calls) /\ GoodStack(stack[t]) /\ Top(t) = stack[t][1]
         /\ GoodCall(stack[t][1]) /\ Len(stack[t]) \in Nat /\ Len(stack[t]) >= 1
<1>1. stack[t] \in Seq(Calls) /\ GoodStack(stack[t])
  BY DEF Base, TypeOK, StacksGood
<1>2. Len(stack[t]) \in Nat /\ Len(stack[t]) >= 1
  BY <1>1
<1> QED
  BY <1>1, <1>2 DEF Top, GoodStack

\* The call on top moves on, and the mutexes stay.
LEMMA MovesOn ==
  ASSUME Base, NEW t \in Thread, stack[t] # <<>>, NEW g, GoodCall(g), Becomes(t, g),
         g.op = stack[t][1].op, InLock(g) <=> InLock(stack[t][1]), InLog(g) <=> InLog(stack[t][1]),
         grant' = grant, handler' = handler
  PROVE  SwapStep(t, g) /\ StacksGood' /\ LocksBalanced' /\ stack' \in [Thread -> Seq(Calls)]
<1>1. g \in Calls
  BY DEF GoodCall
<1>2. SwapStep(t, g)
  BY <1>1, BecomesIs DEF Base
<1>3. GoodStack(stack'[t])
  BY <1>2, TopIs, SwapGood DEF SwapStep
<1>4. StacksGood'
  BY <1>2, <1>3, StacksAfter DEF SwapStep, Base
<1>5. LocksBalanced'
  BY <1>2, SwapBalance DEF Base
<1> QED
  BY <1>2, <1>4, <1>5 DEF SwapStep, Others

\* A call begins, with no mutex.
LEMMA Begins ==
  ASSUME Base, NEW t \in Thread, NEW g, GoodCall(g), Push(t, g), ~InLock(g), ~InLog(g),
         stack[t] = <<>> => g.op # "mount", stack[t] # <<>> => Fits(g, stack[t][1]),
         grant' = grant, handler' = handler
  PROVE  PushStep(t, g) /\ StacksGood' /\ LocksBalanced' /\ stack' \in [Thread -> Seq(Calls)]
<1>1. g \in Calls
  BY DEF GoodCall
<1>2. PushStep(t, g)
  BY <1>1, PushStepIs DEF Base
<1>3. GoodStack(stack'[t])
  <2>1. GoodStack(stack[t])
    BY DEF Base, StacksGood
  <2> QED
    BY <1>2, <2>1, PushGood DEF PushStep
<1>4. StacksGood'
  BY <1>2, <1>3, StacksAfter DEF PushStep, Base
<1>5. LocksBalanced'
  BY <1>2, PushBalance DEF Base
<1> QED
  BY <1>2, <1>4, <1>5 DEF PushStep, Others

\* A call ends, and gives back what it has.
LEMMA Ends ==
  ASSUME Base, NEW t \in Thread, stack[t] # <<>>, Return(t),
         stack[t][1].op = "path" /\ stack[t][1].res = "OK" => stack[t][1].fs \in Driver,
         Held(grant', t) = Held(grant, t) - One(InLock(stack[t][1])),
         Held(handler', t) = Held(handler, t) - One(InLog(stack[t][1])),
         \A u \in Thread \ {t} : Held(grant', u) = Held(grant, u) /\ Held(handler', u) = Held(handler, u)
  PROVE  /\ file' \in [Thread -> Object \cup {None}] /\ stack' \in [Thread -> Seq(Calls)]
         /\ StacksGood' /\ LocksBalanced'
         /\ \E g : PopStep(t, g) /\ (Len(stack[t]) > 1 => Resumed(stack[t][1], stack[t][2], g))
<1>1. PICK g : PopStep(t, g) /\ (Len(stack[t]) > 1 => Resumed(stack[t][1], stack[t][2], g))
  BY ReturnIs DEF Base
<1>2. file' \in [Thread -> Object \cup {None}]
  BY ReturnIs DEF Base
<1>3. GoodStack(stack'[t])
  <2>1. GoodStack(stack[t])
    BY DEF Base, StacksGood
  <2>2. Len(stack[t]) > 1 => GoodCall(g) /\ g.op = stack[t][2].op
    BY <1>1 DEF Resumed
  <2> QED
    BY <1>1, <2>1, <2>2, PopGood DEF PopStep
<1>4. StacksGood'
  BY <1>1, <1>3, StacksAfter DEF PopStep, Base
<1>5. LocksBalanced'
  BY <1>1, PopBalance DEF Base
<1> QED
  BY <1>1, <1>2, <1>4, <1>5 DEF PopStep, Others


LEMMA FindVolumeBase ==
  ASSUME Base, NEW t \in Thread, FindVolume(t)
  PROVE  /\ Base'
         /\ \E g : /\ SwapStep(t, g) /\ g.op = stack[t][1].op
                   /\ \/ g.pc = "enter" /\ g.fs = volume
                      \/ g.pc = "leave" /\ g.res # "OK"
<1>1. stack[t] # <<>> /\ Top(t) = stack[t][1] /\ stack[t][1].pc = "find" /\ GoodCall(stack[t][1])
  BY TopIs DEF FindVolume, At
<1> DEFINE f == stack[t][1]
           g == IF volume = None THEN [f EXCEPT !.res = "NOT_ENABLED", !.pc = "leave"]
                ELSE [f EXCEPT !.fs = volume, !.pc = "enter"]
<1>2. f \in Calls /\ f.op \in {"path", "mount"} /\ f.pc = "find" /\ volume \in Driver \cup {None}
  BY <1>1 DEF GoodCall, Placed, Calls, Base, TypeOK
<1>3. /\ GoodCall(g) /\ g.op = f.op
      /\ \/ g.pc = "enter" /\ g.fs = volume
         \/ g.pc = "leave" /\ g.res # "OK"
      /\ (InLock(g) <=> InLock(f)) /\ (InLog(g) <=> InLog(f))
  <2>1. CASE volume = None
    <3>1. g \in Calls /\ g.op = f.op /\ g.pc = "leave" /\ g.res = "NOT_ENABLED" /\ g.fs = f.fs /\ g.obj = f.obj
      BY <1>2, <2>1 DEF Calls
    <3> HIDE DEF g
    <3>2. f.fs = None
      BY <1>1, <1>2 DEF GoodCall, Filled
    <3> QED
      BY <1>1, <1>2, <3>1, <3>2 DEF GoodCall, Placed, Filled, InLock, InLog
  <2>2. CASE volume # None
    <3>1. g \in Calls /\ g.op = f.op /\ g.pc = "enter" /\ g.res = f.res /\ g.fs = volume /\ g.obj = f.obj
      BY <1>2, <2>2 DEF Calls
    <3> HIDE DEF g
    <3> QED
      BY <1>1, <1>2, <2>2, <3>1 DEF GoodCall, Placed, Filled, InLock, InLog
  <2> QED
    BY <2>1, <2>2
<1>4. Becomes(t, g) /\ grant' = grant /\ handler' = handler
  BY <1>1 DEF FindVolume
<1> HIDE DEF g
<1>5. SwapStep(t, g) /\ StacksGood' /\ LocksBalanced' /\ stack' \in [Thread -> Seq(Calls)]
  BY <1>1, <1>3, <1>4, MovesOn
<1>6. TypeOK'
  BY <1>5 DEF FindVolume, Base, TypeOK, registry, history
<1> QED
  BY <1>3, <1>5, <1>6 DEF Base


LEMMA ValidateBase ==
  ASSUME Base, NEW t \in Thread, Validate(t)
  PROVE  /\ Base'
         /\ \E g : /\ SwapStep(t, g) /\ g.op = "file" /\ stack[t][1].op = "file"
                   /\ \/ g.pc = "enter" /\ Valid(g.obj) /\ g.obj \in Object
                      \/ g.pc = "leave"
<1>1. stack[t] # <<>> /\ Top(t) = stack[t][1] /\ stack[t][1].pc = "validate" /\ GoodCall(stack[t][1])
  BY TopIs DEF Validate, At
<1> DEFINE f == stack[t][1]
           g == IF Valid(f.obj) THEN [f EXCEPT !.fs = f.obj.fs, !.pc = "enter"]
                ELSE [f EXCEPT !.res = "INVALID_OBJECT", !.pc = "leave"]
<1>2. /\ f \in Calls /\ f.op = "file" /\ f.pc = "validate" /\ f.obj \in Object /\ f.obj.fs \in Driver
      /\ f.fs = None
  BY <1>1 DEF GoodCall, Placed, Filled, Object
<1>3. /\ GoodCall(g) /\ g.op = f.op
      /\ \/ g.pc = "enter" /\ Valid(g.obj) /\ g.obj \in Object
         \/ g.pc = "leave"
      /\ (InLock(g) <=> InLock(f)) /\ (InLog(g) <=> InLog(f))
  <2>1. CASE Valid(f.obj)
    <3>1. g \in Calls /\ g.op = f.op /\ g.pc = "enter" /\ g.res = f.res /\ g.fs = f.obj.fs /\ g.obj = f.obj
      BY <1>2, <2>1 DEF Calls
    <3> HIDE DEF g
    <3> QED
      BY <1>1, <1>2, <2>1, <3>1 DEF GoodCall, Placed, Filled, InLock, InLog
  <2>2. CASE ~Valid(f.obj)
    <3>1. g \in Calls /\ g.op = f.op /\ g.pc = "leave" /\ g.res = "INVALID_OBJECT" /\ g.fs = f.fs /\ g.obj = f.obj
      BY <1>2, <2>2 DEF Calls
    <3> HIDE DEF g
    <3> QED
      BY <1>1, <1>2, <3>1 DEF GoodCall, Placed, Filled, InLock, InLog
  <2> QED
    BY <2>1, <2>2
<1>4. Becomes(t, g) /\ grant' = grant /\ handler' = handler
  BY <1>1 DEF Validate
<1> HIDE DEF g
<1>5. SwapStep(t, g) /\ StacksGood' /\ LocksBalanced' /\ stack' \in [Thread -> Seq(Calls)]
  BY <1>1, <1>3, <1>4, MovesOn
<1>6. TypeOK'
  BY <1>5 DEF Validate, Base, TypeOK, registry, history
<1> QED
  BY <1>2, <1>3, <1>5, <1>6 DEF Base

\* The call on top goes on in the same place, with the same volume and object.
LEMMA GoesTo ==
  ASSUME Base, NEW t \in Thread, stack[t] # <<>>, NEW pc, Goto(t, pc),
         pc \in {"find", "validate", "enter", "check", "init", "work", "leave", "lock", "open", "write",
                 "sync", "close", "done", "register", "mount", "served", "refused", "unmount"}
  PROVE  \E g \in Calls : /\ Becomes(t, g) /\ g.pc = pc
                          /\ g.op = stack[t][1].op /\ g.fs = stack[t][1].fs
                          /\ g.obj = stack[t][1].obj /\ g.res = stack[t][1].res
<1> DEFINE g == [stack[t][1] EXCEPT !.pc = pc]
<1>1. stack[t][1] \in Calls /\ Top(t) = stack[t][1]
  BY TopIs DEF GoodCall
<1>2. /\ g \in Calls /\ g.pc = pc
      /\ g.op = stack[t][1].op /\ g.fs = stack[t][1].fs
      /\ g.obj = stack[t][1].obj /\ g.res = stack[t][1].res
  BY <1>1 DEF Calls
<1>3. Becomes(t, g)
  BY <1>1 DEF Goto
<1> HIDE DEF g
<1> QED
  BY <1>2, <1>3

LEMMA FailsAs ==
  ASSUME Base, NEW t \in Thread, stack[t] # <<>>, NEW res \in {"NOT_READY", "DISK_ERR"}, Failed(t, res)
  PROVE  \E g \in Calls : /\ Becomes(t, g) /\ g.pc = "leave" /\ g.res = res
                          /\ g.op = stack[t][1].op /\ g.fs = stack[t][1].fs
                          /\ g.obj = stack[t][1].obj
<1> DEFINE g == [stack[t][1] EXCEPT !.res = res, !.pc = "leave"]
<1>1. stack[t][1] \in Calls /\ Top(t) = stack[t][1]
  BY TopIs DEF GoodCall
<1>2. /\ g \in Calls /\ g.pc = "leave" /\ g.res = res
      /\ g.op = stack[t][1].op /\ g.fs = stack[t][1].fs
      /\ g.obj = stack[t][1].obj
  BY <1>1 DEF Calls
<1>3. Becomes(t, g)
  BY <1>1 DEF Failed
<1> HIDE DEF g
<1> QED
  BY <1>2, <1>3

LEMMA EnterBase ==
  ASSUME Base, NEW t \in Thread, Enter(t)
  PROVE  /\ Base'
         /\ \E g : /\ SwapStep(t, g) /\ g.op = stack[t][1].op /\ g.fs = stack[t][1].fs
                   /\ g.obj = stack[t][1].obj /\ g.res = stack[t][1].res
                   /\ g.pc = IF g.op = "file" THEN "work" ELSE "check"
<1>1. stack[t] # <<>> /\ Top(t) = stack[t][1] /\ stack[t][1].pc = "enter" /\ GoodCall(stack[t][1])
  BY TopIs DEF Enter, At
<1> DEFINE f == stack[t][1]
<1>2. f.op \in {"path", "file", "mount"} /\ f.fs \in Driver /\ f.res = "OK"
  BY <1>1 DEF GoodCall, Placed, Filled
<1>3. PICK g \in Calls : /\ Becomes(t, g) /\ g.pc = (IF f.op = "file" THEN "work" ELSE "check")
                         /\ g.op = f.op /\ g.fs = f.fs /\ g.obj = f.obj /\ g.res = f.res
  BY <1>1, GoesTo DEF Enter
<1>4. GoodCall(g) /\ InLock(g) /\ ~InLock(f) /\ ~InLog(g) /\ ~InLog(f)
  BY <1>1, <1>2, <1>3 DEF GoodCall, Placed, Filled, InLock, InLog
<1>5. SwapStep(t, g)
  BY <1>1, <1>3, BecomesIs DEF Base
<1>6. StacksGood'
  <2>1. GoodStack(stack'[t])
    BY <1>1, <1>3, <1>4, <1>5, TopIs, SwapGood DEF SwapStep
  <2> QED
    BY <1>5, <2>1, StacksAfter DEF SwapStep, Base
<1>7. Sound(grant) /\ Sound(handler)
  BY <1>1, TopHolds DEF Base
<1>8. /\ Sound(grant') /\ Held(grant', t) = Held(grant, t) + 1 /\ handler' = handler
      /\ \A u \in Thread \ {t} : Held(grant', u) = Held(grant, u)
  BY <1>7, Taking DEF Enter
<1>9. LocksBalanced'
  <2>1. stack[t] \in Seq(Calls) /\ stack'[t] \in Seq(Calls) /\ Others(t) /\ Swapped(stack[t], stack'[t], g)
    BY <1>5 DEF SwapStep, Others, Base, TypeOK
  <2>2. /\ Cardinality(Entered(stack[t])) \in Nat /\ Cardinality(Logging(stack[t])) \in Nat
        /\ Cardinality(Entered(stack'[t])) \in Nat /\ Cardinality(Logging(stack'[t])) \in Nat
    BY <2>1, FiniteCounts
  <2>3. /\ Cardinality(Entered(stack'[t])) = Cardinality(Entered(stack[t])) + 1
        /\ Cardinality(Logging(stack'[t])) = Cardinality(Logging(stack[t]))
    BY <1>4, <2>1, <2>2, CountSwap DEF One
  <2>4. Held(grant, t) \in Int /\ Held(handler, t) \in Int
    BY <1>7 DEF Sound, Mutex, Held
  <2> QED
    BY <1>8, <2>1, <2>2, <2>3, <2>4, BalanceKept DEF Base
<1>10. TypeOK'
  <2>1. stack' \in [Thread -> Seq(Calls)]
    BY <1>5 DEF SwapStep, Others
  <2> QED
    BY <1>8, <2>1 DEF Enter, Base, TypeOK, registry, history, Sound
<1> QED
  BY <1>3, <1>5, <1>6, <1>9, <1>10 DEF Base

LEMMA LogLockBase ==
  ASSUME Base, NEW t \in Thread, LogLock(t)
  PROVE  Base' /\ \E g : SwapStep(t, g) /\ g.op = "log" /\ stack[t][1].op = "log"
<1>1. stack[t] # <<>> /\ Top(t) = stack[t][1] /\ stack[t][1].pc = "lock" /\ GoodCall(stack[t][1])
  BY TopIs DEF LogLock, At
<1> DEFINE f == stack[t][1]
<1>2. f.op = "log"
  BY <1>1 DEF GoodCall, Placed
<1>3. PICK g \in Calls : /\ Becomes(t, g) /\ g.pc = "open"
                         /\ g.op = f.op /\ g.fs = f.fs /\ g.obj = f.obj /\ g.res = f.res
  BY <1>1, GoesTo DEF LogLock
<1>4. GoodCall(g) /\ ~InLock(g) /\ ~InLock(f) /\ InLog(g) /\ ~InLog(f)
  BY <1>1, <1>2, <1>3 DEF GoodCall, Placed, Filled, InLock, InLog
<1>5. SwapStep(t, g)
  BY <1>1, <1>3, BecomesIs DEF Base
<1>6. StacksGood'
  <2>1. GoodStack(stack'[t])
    BY <1>1, <1>3, <1>4, <1>5, TopIs, SwapGood DEF SwapStep
  <2> QED
    BY <1>5, <2>1, StacksAfter DEF SwapStep, Base
<1>7. Sound(grant) /\ Sound(handler)
  BY <1>1, TopHolds DEF Base
<1>8. /\ Sound(handler') /\ Held(handler', t) = Held(handler, t) + 1 /\ grant' = grant
      /\ \A u \in Thread \ {t} : Held(handler', u) = Held(handler, u)
  BY <1>7, Taking DEF LogLock
<1>9. LocksBalanced'
  <2>1. stack[t] \in Seq(Calls) /\ stack'[t] \in Seq(Calls) /\ Others(t) /\ Swapped(stack[t], stack'[t], g)
    BY <1>5 DEF SwapStep, Others, Base, TypeOK
  <2>2. /\ Cardinality(Entered(stack[t])) \in Nat /\ Cardinality(Logging(stack[t])) \in Nat
        /\ Cardinality(Entered(stack'[t])) \in Nat /\ Cardinality(Logging(stack'[t])) \in Nat
    BY <2>1, FiniteCounts
  <2>3. /\ Cardinality(Entered(stack'[t])) = Cardinality(Entered(stack[t]))
        /\ Cardinality(Logging(stack'[t])) = Cardinality(Logging(stack[t])) + 1
    BY <1>4, <2>1, <2>2, CountSwap DEF One
  <2>4. Held(grant, t) \in Int /\ Held(handler, t) \in Int
    BY <1>7 DEF Sound, Mutex, Held
  <2> QED
    BY <1>8, <2>1, <2>2, <2>3, <2>4, BalanceKept DEF Base
<1>10. TypeOK'
  <2>1. stack' \in [Thread -> Seq(Calls)]
    BY <1>5 DEF SwapStep, Others
  <2> QED
    BY <1>8, <2>1 DEF LogLock, Base, TypeOK, registry, history, Sound
<1> QED
  BY <1>2, <1>3, <1>5, <1>6, <1>9, <1>10 DEF Base


\* What a call that is through with the mount goes to.
After(op) == IF op = "mount" THEN "leave" ELSE "work"

LEMMA CheckVolumeBase ==
  ASSUME Base, NEW t \in Thread, CheckVolume(t)
  PROVE  /\ Base'
         /\ \E g : /\ SwapStep(t, g) /\ g.op = stack[t][1].op /\ g.fs = stack[t][1].fs
                   /\ stack[t][1].op \in {"path", "mount"} /\ stack[t][1].pc = "check" /\ g.res = "OK"
                   /\ \/ g.pc = "init"
                         /\ fs' = [fs EXCEPT ![g.fs].mounted = FALSE] /\ slipped' = (slipped \/ Slips(t))
                      \/ g.pc = After(g.op) /\ fs' = fs /\ slipped' = slipped
<1>1. stack[t] # <<>> /\ Top(t) = stack[t][1] /\ stack[t][1].pc = "check" /\ GoodCall(stack[t][1])
  BY TopIs DEF CheckVolume, At
<1> DEFINE f == stack[t][1]
           kept == fs[f.fs].mounted /\ drivers # None /\ ready[drivers]
           pc == IF kept THEN After(f.op) ELSE "init"
<1>2. f.op \in {"path", "mount"} /\ f.fs \in Driver /\ f.res = "OK"
  BY <1>1 DEF GoodCall, Placed, Filled
<1>3. Goto(t, pc)
  BY <1>1, <1>2 DEF CheckVolume, Mounted, After
<1>4. PICK g \in Calls : Becomes(t, g) /\ g.pc = pc /\ g.op = f.op /\ g.fs = f.fs /\ g.obj = f.obj /\ g.res = f.res
  <2>1. pc \in {"leave", "work", "init"}
    BY DEF After
  <2> HIDE DEF pc
  <2> QED
    BY <1>1, <1>3, <2>1, GoesTo
<1>5. GoodCall(g) /\ (InLock(g) <=> InLock(f)) /\ (InLog(g) <=> InLog(f))
  BY <1>1, <1>2, <1>4, ThreadsAssumption DEF GoodCall, Placed, Filled, InLock, InLog, After
<1>6. SwapStep(t, g) /\ StacksGood' /\ LocksBalanced' /\ stack' \in [Thread -> Seq(Calls)]
  <2>1. grant' = grant /\ handler' = handler
    BY DEF CheckVolume
  <2> QED
    BY <1>1, <1>4, <1>5, <2>1, MovesOn
<1>7. \/ g.pc = "init" /\ fs' = [fs EXCEPT ![g.fs].mounted = FALSE] /\ slipped' = (slipped \/ Slips(t))
      \/ g.pc = After(g.op) /\ fs' = fs /\ slipped' = slipped
  <2>1. CASE kept
    <3>1. fs' = fs /\ slipped' = (slipped \/ FALSE)
      BY <1>1, <2>1 DEF CheckVolume
    <3>2. slipped \in BOOLEAN
      BY DEF Base, TypeOK
    <3> QED
      BY <1>4, <2>1, <3>1, <3>2
  <2>2. CASE ~kept
    <3>1. fs' = [fs EXCEPT ![g.fs].mounted = FALSE] /\ slipped' = (slipped \/ (TRUE /\ Slips(t)))
      BY <1>1, <1>4, <2>2 DEF CheckVolume
    <3> QED
      BY <1>4, <2>2, <3>1
  <2> QED
    BY <2>1, <2>2
<1>8. TypeOK'
  <2>1. fs' \in [Driver -> [mounted : BOOLEAN, id : Nat]]
    BY <1>2, <1>4, <1>7 DEF Base, TypeOK
  <2>2. slipped' \in BOOLEAN
    BY DEF CheckVolume
  <2> QED
    BY <1>6, <2>1, <2>2 DEF CheckVolume, Base, TypeOK, registry
<1> QED
  BY <1>1, <1>2, <1>4, <1>6, <1>7, <1>8 DEF Base

LEMMA InitVolumeBase ==
  ASSUME Base, NEW t \in Thread, InitVolume(t)
  PROVE  /\ Base'
         /\ \E g : /\ SwapStep(t, g) /\ g.op = stack[t][1].op /\ g.fs = stack[t][1].fs
                   /\ stack[t][1].op \in {"path", "mount"} /\ stack[t][1].pc = "init"
                   /\ \/ /\ g.pc = After(g.op) /\ g.res = "OK" /\ drivers # None
                         /\ fs' = [fs EXCEPT ![g.fs] = [mounted |-> TRUE, id |-> fsid + 1]]
                         /\ slipped' = (slipped \/ Slips(t))
                      \/ g.pc = "leave" /\ g.res = "NOT_READY" /\ fs' = fs /\ slipped' = slipped
<1>1. stack[t] # <<>> /\ Top(t) = stack[t][1] /\ stack[t][1].pc = "init" /\ GoodCall(stack[t][1])
  BY TopIs DEF InitVolume, At
<1> DEFINE f == stack[t][1]
<1>2. f.op \in {"path", "mount"} /\ f.fs \in Driver /\ f.res = "OK" /\ grant' = grant /\ handler' = handler
  BY <1>1 DEF GoodCall, Placed, Filled, InitVolume
<1>3. CASE /\ drivers # None
           /\ ready' = [ready EXCEPT ![drivers] = TRUE]
           /\ fs' = [fs EXCEPT ![f.fs] = [mounted |-> TRUE, id |-> fsid + 1]]
           /\ fsid' = fsid + 1
           /\ slipped' = (slipped \/ Slips(t))
           /\ Mounted(t)
  <2>1. Goto(t, After(f.op)) /\ After(f.op) \in {"leave", "work"}
    BY <1>1, <1>2, <1>3 DEF Mounted, After
  <2>2. PICK g \in Calls : /\ Becomes(t, g) /\ g.pc = After(f.op)
                           /\ g.op = f.op /\ g.fs = f.fs /\ g.obj = f.obj /\ g.res = f.res
    BY <1>1, <2>1, GoesTo
  <2>3. GoodCall(g) /\ (InLock(g) <=> InLock(f)) /\ (InLog(g) <=> InLog(f))
    BY <1>1, <1>2, <2>2, ThreadsAssumption DEF GoodCall, Placed, Filled, InLock, InLog, After
  <2>4. SwapStep(t, g) /\ StacksGood' /\ LocksBalanced' /\ stack' \in [Thread -> Seq(Calls)]
    BY <1>1, <1>2, <2>2, <2>3, MovesOn
  <2>5. TypeOK'
    <3>1. fsid' \in Nat /\ ready' \in [Driver -> BOOLEAN] /\ slipped' \in BOOLEAN
      BY <1>3 DEF Base, TypeOK
    <3>2. fs' \in [Driver -> [mounted : BOOLEAN, id : Nat]]
      BY <1>2, <1>3 DEF Base, TypeOK
    <3> QED
      BY <2>4, <3>1, <3>2 DEF InitVolume, Base, TypeOK, registry
  <2> QED
    BY <1>1, <1>2, <1>3, <2>2, <2>4, <2>5 DEF Base
<1>4. CASE /\ Failed(t, "NOT_READY")
           /\ ready' \in {ready, [d \in Driver |-> ready[d] \/ d = drivers]}
           /\ UNCHANGED <<fs, fsid, slipped>>
  <2>1. PICK g \in Calls : /\ Becomes(t, g) /\ g.pc = "leave" /\ g.res = "NOT_READY"
                           /\ g.op = f.op /\ g.fs = f.fs /\ g.obj = f.obj
    BY <1>1, <1>4, FailsAs
  <2>2. GoodCall(g) /\ (InLock(g) <=> InLock(f)) /\ (InLog(g) <=> InLog(f))
    BY <1>1, <1>2, <2>1, ThreadsAssumption DEF GoodCall, Placed, Filled, InLock, InLog
  <2>3. SwapStep(t, g) /\ StacksGood' /\ LocksBalanced' /\ stack' \in [Thread -> Seq(Calls)]
    BY <1>1, <1>2, <2>1, <2>2, MovesOn
  <2>4. TypeOK'
    <3>1. ready' \in [Driver -> BOOLEAN]
      BY <1>4 DEF Base, TypeOK
    <3> QED
      BY <1>4, <2>3, <3>1 DEF InitVolume, Base, TypeOK, registry
  <2> QED
    BY <1>1, <1>2, <1>4, <2>1, <2>3, <2>4 DEF Base
<1> QED
  BY <1>1, <1>3, <1>4 DEF InitVolume

LEMMA WorkBase ==
  ASSUME Base, NEW t \in Thread, Work(t)
  PROVE  /\ Base'
         /\ \E g : SwapStep(t, g) /\ g.op = stack[t][1].op /\ g.op \in {"path", "file"} /\ g.pc = "leave"
<1>1. stack[t] # <<>> /\ Top(t) = stack[t][1] /\ stack[t][1].pc = "work" /\ GoodCall(stack[t][1])
  BY TopIs DEF Work, At
<1> DEFINE f == stack[t][1]
<1>2. f.op \in {"path", "file"} /\ f.fs \in Driver /\ f.res = "OK" /\ grant' = grant /\ handler' = handler
  BY <1>1 DEF GoodCall, Placed, Filled, Work
<1>3. PICK g \in Calls : /\ Becomes(t, g) /\ g.pc = "leave" /\ g.res \in {"OK", "DISK_ERR"}
                         /\ g.op = f.op /\ g.fs = f.fs /\ g.obj = f.obj
  <2>1. CASE Goto(t, "leave")
    BY <1>1, <1>2, <2>1, GoesTo
  <2>2. CASE Failed(t, "DISK_ERR")
    BY <1>1, <2>2, FailsAs
  <2> QED
    BY <2>1, <2>2 DEF Work
<1>4. GoodCall(g) /\ (InLock(g) <=> InLock(f)) /\ (InLog(g) <=> InLog(f))
  BY <1>1, <1>2, <1>3, ThreadsAssumption DEF GoodCall, Placed, Filled, InLock, InLog
<1>5. SwapStep(t, g) /\ StacksGood' /\ LocksBalanced' /\ stack' \in [Thread -> Seq(Calls)]
  BY <1>1, <1>2, <1>3, <1>4, MovesOn
<1>6. TypeOK'
  BY <1>5 DEF Work, Base, TypeOK, registry, history
<1> QED
  BY <1>2, <1>3, <1>5, <1>6 DEF Base

LEMMA LeaveBase ==
  ASSUME Base, NEW t \in Thread, Leave(t)
  PROVE  /\ Base'
         /\ stack[t] # <<>> /\ stack[t][1].op \in {"path", "file", "mount"} /\ stack[t][1].pc = "leave"
         /\ \E g : PopStep(t, g) /\ (Len(stack[t]) > 1 => Resumed(stack[t][1], stack[t][2], g))
<1>1. stack[t] # <<>> /\ Top(t) = stack[t][1] /\ stack[t][1].pc = "leave" /\ GoodCall(stack[t][1])
  BY TopIs DEF Leave, At
<1> DEFINE f == stack[t][1]
<1>2. /\ f.op \in {"path", "file", "mount"} /\ ~InLog(f) /\ handler' = handler
      /\ f.fs \in Driver \cup {None} /\ (f.fs = None <=> f.res \in {"NOT_ENABLED", "INVALID_OBJECT"})
      /\ f.res \in {"OK", "NOT_ENABLED", "INVALID_OBJECT", "NOT_READY", "DISK_ERR"}
  BY <1>1 DEF GoodCall, Placed, Filled, Calls, InLog, Leave
<1>3. Unlocks(f) <=> InLock(f)
  BY <1>1, <1>2 DEF Unlocks, InLock
<1>4. Sound(grant) /\ Sound(handler) /\ (InLock(f) => Held(grant, t) > 0)
  BY <1>1, TopHolds DEF Base
<1>5. /\ Sound(grant') /\ Held(grant', t) = Held(grant, t) - One(InLock(f))
      /\ Held(handler', t) = Held(handler, t) - One(InLog(f))
      /\ \A u \in Thread \ {t} : Held(grant', u) = Held(grant, u) /\ Held(handler', u) = Held(handler, u)
  <2>1. Held(handler, t) \in Int /\ Held(grant, t) \in Int
    BY <1>4 DEF Sound, Mutex, Held
  <2>2. CASE InLock(f)
    <3>1. grant' = Given(grant)
      BY <1>1, <1>3, <2>2 DEF Leave
    <3> QED
      BY <1>2, <1>4, <2>1, <2>2, <3>1, Giving DEF One
  <2>3. CASE ~InLock(f)
    <3>1. grant' = grant
      BY <1>1, <1>3, <2>3 DEF Leave
    <3> QED
      BY <1>2, <1>4, <2>1, <2>3, <3>1 DEF One
  <2> QED
    BY <2>2, <2>3
<1>6. f.op = "path" /\ f.res = "OK" => f.fs \in Driver
  BY <1>2
<1>7. /\ file' \in [Thread -> Object \cup {None}] /\ stack' \in [Thread -> Seq(Calls)]
      /\ StacksGood' /\ LocksBalanced'
      /\ \E g : PopStep(t, g) /\ (Len(stack[t]) > 1 => Resumed(f, stack[t][2], g))
  <2>1. Return(t)
    BY DEF Leave
  <2> QED
    BY <1>1, <1>5, <1>6, <2>1, Ends
<1>8. TypeOK'
  BY <1>5, <1>7 DEF Leave, Base, TypeOK, registry, history, Sound
<1> QED
  BY <1>1, <1>2, <1>7, <1>8 DEF Base


LEMMA FrameIs ==
  ASSUME NEW op \in {"path", "file", "mount", "log", "attach", "detach"},
         NEW pc \in {"find", "validate", "lock", "register", "unmount"}, NEW obj \in Object \cup {None}
  PROVE  LET f == Frame(op, pc, obj)
         IN  f \in Calls /\ f.op = op /\ f.pc = pc /\ f.fs = None /\ f.obj = obj /\ f.res = "OK"
  BY DEF Frame, Calls

LEMMA LogInsideBase ==
  ASSUME Base, NEW t \in Thread, LogInside(t)
  PROVE  /\ Base' /\ stack[t] # <<>>
         /\ \E g : PushStep(t, g) /\ g.op = "log" /\ g.pc = "lock"
<1>1. /\ stack[t] # <<>> /\ Top(t) = stack[t][1] /\ stack[t][1].pc \in {"register", "init", "work"}
      /\ GoodCall(stack[t][1]) /\ grant' = grant /\ handler' = handler
  BY TopIs DEF LogInside, At
<1> DEFINE g == Frame("log", "lock", None)
<1>2. g \in Calls /\ g.op = "log" /\ g.pc = "lock" /\ g.res = "OK" /\ Push(t, g)
  BY FrameIs DEF LogInside
<1> HIDE DEF g
<1>3. GoodCall(g) /\ ~InLock(g) /\ ~InLog(g) /\ Fits(g, stack[t][1])
  BY <1>1, <1>2 DEF GoodCall, Placed, Filled, InLock, InLog, Fits
<1>4. PushStep(t, g) /\ StacksGood' /\ LocksBalanced' /\ stack' \in [Thread -> Seq(Calls)]
  BY <1>1, <1>2, <1>3, Begins
<1>5. TypeOK'
  BY <1>4 DEF LogInside, Base, TypeOK, registry
<1> QED
  BY <1>1, <1>2, <1>4, <1>5 DEF Base

LEMMA LogCallBase ==
  ASSUME Base, NEW t \in Thread, LogCall(t)
  PROVE  /\ Base' /\ stack[t] # <<>> /\ stack[t][1].op = "log"
         /\ \E g : PushStep(t, g) /\ g.op \in {"path", "file"} /\ g.pc \in {"find", "validate"}
<1>1. /\ stack[t] # <<>> /\ Top(t) = stack[t][1] /\ stack[t][1].pc \in {"open", "write", "sync", "close"}
      /\ GoodCall(stack[t][1]) /\ grant' = grant /\ handler' = handler
  BY TopIs DEF LogCall, At
<1>2. PICK g \in Calls : /\ Push(t, g) /\ g.fs = None /\ g.res = "OK"
                         /\ \/ g.op = "path" /\ g.pc = "find" /\ stack[t][1].pc = "open"
                            \/ g.op = "file" /\ g.pc = "validate" /\ g.obj \in Object /\ stack[t][1].pc \in {"write", "sync", "close"}
  <2>1. CASE stack[t][1].pc = "open"
    <3>1. Push(t, Frame("path", "find", None))
      BY <1>1, <2>1 DEF LogCall, At
    <3> QED
      BY <2>1, <3>1, FrameIs
  <2>2. CASE stack[t][1].pc \in {"write", "sync", "close"}
    <3>1. Push(t, Frame("file", "validate", stack[t][1].obj))
      BY <1>1, <2>2 DEF LogCall, At
    <3>2. stack[t][1].obj \in Object
      BY <1>1, <2>2 DEF GoodCall, Placed, Filled
    <3> QED
      BY <2>2, <3>1, <3>2, FrameIs
  <2> QED
    BY <1>1, <2>1, <2>2
<1>3. stack[t][1].op = "log"
  BY <1>1 DEF GoodCall, Placed
<1>4. GoodCall(g) /\ ~InLock(g) /\ ~InLog(g) /\ Fits(g, stack[t][1])
  BY <1>1, <1>2, <1>3 DEF GoodCall, Placed, Filled, InLock, InLog, Fits
<1>5. PushStep(t, g) /\ StacksGood' /\ LocksBalanced' /\ stack' \in [Thread -> Seq(Calls)]
  BY <1>1, <1>2, <1>4, Begins
<1>6. TypeOK'
  BY <1>5 DEF LogCall, Base, TypeOK, registry, history
<1> QED
  BY <1>1, <1>2, <1>3, <1>5, <1>6 DEF Base

LEMMA MountNowBase ==
  ASSUME Base, NEW t \in Thread, MountNow(t)
  PROVE  /\ Base' /\ stack[t] # <<>> /\ stack[t][1].op = "attach" /\ stack[t][1].pc = "mount"
         /\ \E g : PushStep(t, g) /\ g.op = "mount" /\ g.pc = "find"
<1>1. /\ stack[t] # <<>> /\ Top(t) = stack[t][1] /\ stack[t][1].pc = "mount"
      /\ GoodCall(stack[t][1]) /\ grant' = grant /\ handler' = handler
  BY TopIs DEF MountNow, At
<1> DEFINE g == Frame("mount", "find", None)
<1>2. g \in Calls /\ g.op = "mount" /\ g.pc = "find" /\ g.res = "OK" /\ g.fs = None /\ Push(t, g)
  BY FrameIs DEF MountNow
<1> HIDE DEF g
<1>3. stack[t][1].op = "attach"
  BY <1>1 DEF GoodCall, Placed
<1>4. GoodCall(g) /\ ~InLock(g) /\ ~InLog(g) /\ Fits(g, stack[t][1])
  BY <1>1, <1>2, <1>3 DEF GoodCall, Placed, Filled, InLock, InLog, Fits
<1>5. PushStep(t, g) /\ StacksGood' /\ LocksBalanced' /\ stack' \in [Thread -> Seq(Calls)]
  BY <1>1, <1>2, <1>4, Begins
<1>6. TypeOK'
  BY <1>5 DEF MountNow, Base, TypeOK, registry, history
<1> QED
  BY <1>1, <1>2, <1>3, <1>5, <1>6 DEF Base

LEMMA LogDoneBase ==
  ASSUME Base, NEW t \in Thread, LogDone(t)
  PROVE  /\ Base' /\ stack[t] # <<>> /\ stack[t][1].op = "log"
         /\ \E g : PopStep(t, g) /\ (Len(stack[t]) > 1 => Resumed(stack[t][1], stack[t][2], g))
<1>1. stack[t] # <<>> /\ Top(t) = stack[t][1] /\ stack[t][1].pc = "done" /\ GoodCall(stack[t][1])
  BY TopIs DEF LogDone, At
<1> DEFINE f == stack[t][1]
<1>2. f.op = "log" /\ InLog(f) /\ ~InLock(f) /\ grant' = grant /\ handler' = Given(handler)
  BY <1>1 DEF GoodCall, Placed, InLog, InLock, LogDone
<1>3. Sound(grant) /\ Sound(handler) /\ Held(handler, t) > 0
  BY <1>1, <1>2, TopHolds DEF Base
<1>4. /\ Sound(handler') /\ Held(grant', t) = Held(grant, t) - One(InLock(f))
      /\ Held(handler', t) = Held(handler, t) - One(InLog(f))
      /\ \A u \in Thread \ {t} : Held(grant', u) = Held(grant, u) /\ Held(handler', u) = Held(handler, u)
  <2>1. Held(handler, t) \in Int /\ Held(grant, t) \in Int
    BY <1>3 DEF Sound, Mutex, Held
  <2> QED
    BY <1>2, <1>3, <2>1, Giving DEF One
<1>5. /\ file' \in [Thread -> Object \cup {None}] /\ stack' \in [Thread -> Seq(Calls)]
      /\ StacksGood' /\ LocksBalanced'
      /\ \E g : PopStep(t, g) /\ (Len(stack[t]) > 1 => Resumed(f, stack[t][2], g))
  <2>1. Return(t) /\ f.op # "path"
    BY <1>2 DEF LogDone
  <2> QED
    BY <1>1, <1>4, <2>1, Ends
<1>6. TypeOK'
  BY <1>4, <1>5 DEF LogDone, Base, TypeOK, registry, history, Sound
<1> QED
  BY <1>1, <1>2, <1>5, <1>6 DEF Base

\* attach and detach are called by the application.
LEMMA OnlyCall ==
  ASSUME Base, NEW t \in Thread, stack[t] # <<>>, stack[t][1].op \in {"attach", "detach"}
  PROVE  Len(stack[t]) = 1
<1>1. GoodStack(stack[t]) /\ Len(stack[t]) \in Nat /\ Len(stack[t]) >= 1
  BY TopIs
<1>2. ASSUME Len(stack[t]) > 1 PROVE FALSE
  <2>1. Fits(stack[t][1], stack[t][2])
    BY <1>1, <1>2 DEF GoodStack
  <2> QED
    BY <2>1 DEF Fits
<1> DEFINE n == Len(stack[t])
<1>3. n \in Nat /\ n >= 1 /\ ~(n > 1)
  BY <1>1, <1>2
<1> HIDE DEF n
<1>4. n = 1
  BY <1>3
<1> QED
  BY <1>4 DEF n

\* A call of attach or detach ends, and with it the stack.
LEMMA LastEnds ==
  ASSUME Base, NEW t \in Thread, stack[t] # <<>>, stack[t][1].op \in {"attach", "detach"}, Return(t),
         grant' = grant, handler' = handler
  PROVE  /\ file' \in [Thread -> Object \cup {None}] /\ stack' \in [Thread -> Seq(Calls)]
         /\ StacksGood' /\ LocksBalanced'
         /\ stack'[t] = <<>> /\ Others(t)
<1> DEFINE f == stack[t][1]
<1>1. GoodCall(f) /\ Len(stack[t]) = 1
  BY TopIs, OnlyCall
<1>2. ~InLock(f) /\ ~InLog(f) /\ f.op # "path"
  BY <1>1 DEF GoodCall, Placed, InLock, InLog
<1>3. Sound(grant) /\ Sound(handler)
  BY TopHolds DEF Base
<1>4. /\ Held(grant', t) = Held(grant, t) - One(InLock(f)) /\ Held(handler', t) = Held(handler, t) - One(InLog(f))
      /\ \A u \in Thread \ {t} : Held(grant', u) = Held(grant, u) /\ Held(handler', u) = Held(handler, u)
  <2>1. Held(handler, t) \in Int /\ Held(grant, t) \in Int
    BY <1>3 DEF Sound, Mutex, Held
  <2> QED
    BY <1>2, <2>1 DEF One
<1>5. /\ file' \in [Thread -> Object \cup {None}] /\ stack' \in [Thread -> Seq(Calls)]
      /\ StacksGood' /\ LocksBalanced'
      /\ \E g : PopStep(t, g)
  BY <1>2, <1>4, Ends
<1>6. stack'[t] = <<>> /\ Others(t)
  <2>1. stack'[t] \in Seq(Calls) /\ Len(stack'[t]) = 0 /\ Others(t)
    BY <1>1, <1>5 DEF PopStep, Popped
  <2> QED
    BY <2>1
<1> QED
  BY <1>5, <1>6


LEMMA RegisterBase ==
  ASSUME Base, NEW t \in Thread, Register(t)
  PROVE  /\ Base' /\ stack[t] # <<>> /\ stack[t][1].op = "attach" /\ stack[t][1].pc = "register"
         /\ stack[t][1].fs \in Driver /\ Top(t) = stack[t][1]
         /\ \/ /\ stack'[t] = <<>> /\ Others(t) /\ UNCHANGED <<registry, fs, fsid, history>>
            \/ /\ drivers = None /\ UNCHANGED <<attached, num, history>>
               /\ drivers' = stack[t][1].fs /\ volume' = stack[t][1].fs
               /\ \A x \in Driver : fs'[x].mounted => fs[x].mounted /\ x # stack[t][1].fs /\ x # volume
               /\ \E g : SwapStep(t, g) /\ g.op = "attach" /\ g.pc = "mount" /\ g.fs = stack[t][1].fs
<1>1. /\ stack[t] # <<>> /\ Top(t) = stack[t][1] /\ stack[t][1].pc = "register" /\ GoodCall(stack[t][1])
      /\ grant' = grant /\ handler' = handler
  BY TopIs DEF Register, At
<1> DEFINE f == stack[t][1]
<1>2. f.op = "attach" /\ f.fs \in Driver
  BY <1>1 DEF GoodCall, Placed, Filled
<1>3. CASE drivers # None
  <2>1. Return(t) /\ UNCHANGED <<registry, fs, fsid, ready, grant, handler, history>>
    BY <1>3 DEF Register
  <2>2. /\ file' \in [Thread -> Object \cup {None}] /\ stack' \in [Thread -> Seq(Calls)]
        /\ StacksGood' /\ LocksBalanced' /\ stack'[t] = <<>> /\ Others(t)
    BY <1>1, <1>2, <2>1, LastEnds
  <2>3. TypeOK'
    BY <2>1, <2>2 DEF Base, TypeOK, registry, history
  <2> QED
    BY <1>1, <1>2, <2>1, <2>2, <2>3 DEF Base
<1>4. CASE drivers = None
  <2>1. /\ drivers' = f.fs /\ volume' = f.fs /\ UNCHANGED <<attached, num, file, fsid, ready, history>>
        /\ fs' = [x \in Driver |-> IF x \in {f.fs, volume} THEN [fs[x] EXCEPT !.mounted = FALSE] ELSE fs[x]]
        /\ Goto(t, "mount")
    BY <1>1, <1>4 DEF Register
  <2>2. PICK g \in Calls : /\ Becomes(t, g) /\ g.pc = "mount"
                           /\ g.op = f.op /\ g.fs = f.fs /\ g.obj = f.obj /\ g.res = f.res
    BY <1>1, <2>1, GoesTo
  <2>3. GoodCall(g) /\ (InLock(g) <=> InLock(f)) /\ (InLog(g) <=> InLog(f))
    BY <1>1, <1>2, <2>2 DEF GoodCall, Placed, Filled, InLock, InLog
  <2>4. SwapStep(t, g) /\ StacksGood' /\ LocksBalanced' /\ stack' \in [Thread -> Seq(Calls)]
    BY <1>1, <2>2, <2>3, MovesOn
  <2>5. fs \in [Driver -> [mounted : BOOLEAN, id : Nat]]
    BY DEF Base, TypeOK
  <2>6. fs' \in [Driver -> [mounted : BOOLEAN, id : Nat]]
    BY <2>1, <2>5
  <2>7. \A x \in Driver : fs'[x].mounted => fs[x].mounted /\ x # f.fs /\ x # volume
    BY <2>1, <2>5
  <2>8. TypeOK'
    BY <1>1, <1>2, <2>1, <2>4, <2>6 DEF Base, TypeOK, history
  <2> QED
    BY <1>1, <1>2, <1>4, <2>1, <2>2, <2>4, <2>7, <2>8 DEF Base
<1> QED
  BY <1>3, <1>4

LEMMA RegisteredBase ==
  ASSUME Base, NEW t \in Thread, Registered(t)
  PROVE  /\ Base' /\ stack[t] # <<>> /\ stack[t][1].op = "attach" /\ stack[t][1].pc \in {"served", "refused"}
         /\ stack[t][1].fs \in Driver /\ Len(stack[t]) = 1 /\ Top(t) = stack[t][1]
         /\ stack'[t] = <<>> /\ Others(t) /\ UNCHANGED <<volume, fs, fsid, history>>
         /\ IF stack[t][1].pc = "served"
            THEN /\ drivers' = drivers
                 /\ attached' = [attached EXCEPT ![stack[t][1].fs] = TRUE]
                 /\ num' = [num EXCEPT ![stack[t][1].fs] = 0]
            ELSE /\ drivers' = None /\ num' = num
                 /\ attached' = [attached EXCEPT ![stack[t][1].fs] = FALSE]
<1>1. /\ stack[t] # <<>> /\ Top(t) = stack[t][1] /\ stack[t][1].pc \in {"served", "refused"}
      /\ GoodCall(stack[t][1]) /\ grant' = grant /\ handler' = handler
  BY TopIs DEF Registered, At
<1> DEFINE f == stack[t][1]
<1>2. f.op = "attach" /\ f.fs \in Driver
  BY <1>1 DEF GoodCall, Placed, Filled
<1>3. /\ file' \in [Thread -> Object \cup {None}] /\ stack' \in [Thread -> Seq(Calls)]
      /\ StacksGood' /\ LocksBalanced' /\ stack'[t] = <<>> /\ Others(t)
  BY <1>1, <1>2, LastEnds DEF Registered
<1>4. IF f.pc = "served"
      THEN drivers' = drivers /\ attached' = [attached EXCEPT ![f.fs] = TRUE] /\ num' = [num EXCEPT ![f.fs] = 0]
      ELSE drivers' = None /\ num' = num /\ attached' = [attached EXCEPT ![f.fs] = FALSE]
  <2>1. CASE f.pc = "served"
    BY <1>1, <2>1 DEF Registered, At
  <2>2. CASE f.pc = "refused"
    BY <1>1, <2>2 DEF Registered, At
  <2> QED
    BY <1>1, <2>1, <2>2
<1>5. drivers' \in Driver \cup {None} /\ attached' \in [Driver -> BOOLEAN] /\ num' \in [Driver -> {0, NotAttached}]
  BY <1>2, <1>4 DEF Base, TypeOK
<1>6. TypeOK' /\ UNCHANGED <<volume, fs, fsid, history>>
  BY <1>3, <1>5 DEF Registered, Base, TypeOK, history
<1> QED
  BY <1>1, <1>2, <1>3, <1>4, <1>6, OnlyCall DEF Base

LEMMA DetachBase ==
  ASSUME Base, NEW t \in Thread, Detach(t)
  PROVE  /\ Base' /\ stack[t] # <<>> /\ stack[t][1].op = "detach" /\ Len(stack[t]) = 1
         /\ stack[t][1].fs \in Driver /\ Top(t) = stack[t][1]
         /\ stack'[t] = <<>> /\ Others(t) /\ UNCHANGED <<attached, fsid, history>>
         /\ IF attached[stack[t][1].fs]
            THEN /\ volume' = None /\ drivers' = None
                 /\ num' = [num EXCEPT ![stack[t][1].fs] = NotAttached]
                 /\ \A x \in Driver : fs'[x].mounted => fs[x].mounted /\ x # volume
            ELSE UNCHANGED <<drivers, num, volume, fs>>
<1>1. /\ stack[t] # <<>> /\ Top(t) = stack[t][1] /\ stack[t][1].pc = "unmount"
      /\ GoodCall(stack[t][1]) /\ grant' = grant /\ handler' = handler
  BY TopIs DEF Detach, At
<1> DEFINE f == stack[t][1]
<1>2. f.op = "detach" /\ f.fs \in Driver
  BY <1>1 DEF GoodCall, Placed, Filled
<1>3. /\ file' \in [Thread -> Object \cup {None}] /\ stack' \in [Thread -> Seq(Calls)]
      /\ StacksGood' /\ LocksBalanced' /\ stack'[t] = <<>> /\ Others(t)
  BY <1>1, <1>2, LastEnds DEF Detach
<1>4. fs \in [Driver -> [mounted : BOOLEAN, id : Nat]] /\ volume \in Driver \cup {None}
  BY DEF Base, TypeOK
<1>5. CASE attached[f.fs]
  <2>1. /\ fs' = IF volume = None THEN fs ELSE [fs EXCEPT ![volume].mounted = FALSE]
        /\ volume' = None /\ drivers' = None /\ num' = [num EXCEPT ![f.fs] = NotAttached]
    BY <1>1, <1>5 DEF Detach, Unregistered
  <2>2. fs' \in [Driver -> [mounted : BOOLEAN, id : Nat]]
        /\ \A x \in Driver : fs'[x].mounted => fs[x].mounted /\ x # volume
    BY <1>4, <2>1, ThreadsAssumption
  <2>3. num' \in [Driver -> {0, NotAttached}]
    BY <2>1 DEF Base, TypeOK
  <2>4. TypeOK'
    BY <1>3, <2>1, <2>2, <2>3 DEF Detach, Base, TypeOK, history
  <2> QED
    BY <1>1, <1>2, <1>3, <1>5, <2>1, <2>2, <2>4, OnlyCall DEF Base, Detach
<1>6. CASE ~attached[f.fs]
  <2>1. UNCHANGED <<drivers, num, volume, fs>>
    BY <1>1, <1>6 DEF Detach
  <2>2. TypeOK'
    BY <1>3, <2>1 DEF Detach, Base, TypeOK, history
  <2> QED
    BY <1>1, <1>2, <1>3, <1>6, <2>1, <2>2, OnlyCall DEF Base, Detach
<1> QED
  BY <1>5, <1>6

\* The application calls.
Calling(t) == CallPath(t) \/ CallFile(t) \/ CallLog(t) \/ CallDetach(t) \/ \E d \in Driver : CallAttach(t, d)

LEMMA CallingBase ==
  ASSUME Base, NEW t \in Thread, Calling(t)
  PROVE  /\ Base' /\ stack[t] = <<>> /\ UNCHANGED <<registry, fs, fsid, history>>
         /\ \E g : /\ PushStep(t, g)
                   /\ \/ g.op \in {"path", "file", "log"} /\ g.pc \in {"find", "validate", "lock"} /\ Idle(t)
                      \/ g.op \in {"attach", "detach"} /\ g.pc \in {"register", "unmount"} /\ Alone(t)
                         /\ (g.op = "detach" => g.fs = drivers /\ drivers # None)
                         /\ (g.op = "attach" => g.pc = "register")
<1>1. PICK g : /\ GoodCall(g) /\ Begin(t, g) /\ ~InLock(g) /\ ~InLog(g) /\ g.op # "mount"
               /\ \/ g.op \in {"path", "file", "log"} /\ g.pc \in {"find", "validate", "lock"} /\ Idle(t)
                  \/ g.op \in {"attach", "detach"} /\ g.pc \in {"register", "unmount"} /\ Alone(t)
                     /\ (g.op = "detach" => g.fs = drivers /\ drivers # None)
                         /\ (g.op = "attach" => g.pc = "register")
  <2>1. CASE CallPath(t)
    <3> DEFINE g == Frame("path", "find", None)
    <3>1. g \in Calls /\ g.op = "path" /\ g.pc = "find" /\ g.fs = None /\ g.res = "OK"
      BY FrameIs
    <3>2. Begin(t, g) /\ Idle(t)
      BY <2>1 DEF CallPath
    <3> HIDE DEF g
    <3>3. GoodCall(g) /\ ~InLock(g) /\ ~InLog(g)
      BY <3>1 DEF GoodCall, Placed, Filled, InLock, InLog
    <3> QED
      BY <3>1, <3>2, <3>3
  <2>2. CASE CallFile(t)
    <3> DEFINE g == Frame("file", "validate", file[t])
    <3>1. file[t] \in Object
      BY <2>2 DEF CallFile, Base, TypeOK
    <3>2. g \in Calls /\ g.op = "file" /\ g.pc = "validate" /\ g.fs = None /\ g.res = "OK" /\ g.obj \in Object
      BY <3>1, FrameIs
    <3>3. Begin(t, g) /\ Idle(t)
      BY <2>2 DEF CallFile
    <3> HIDE DEF g
    <3>4. GoodCall(g) /\ ~InLock(g) /\ ~InLog(g)
      BY <3>2 DEF GoodCall, Placed, Filled, InLock, InLog
    <3> QED
      BY <3>2, <3>3, <3>4
  <2>3. CASE CallLog(t)
    <3> DEFINE g == Frame("log", "lock", None)
    <3>1. g \in Calls /\ g.op = "log" /\ g.pc = "lock" /\ g.fs = None /\ g.res = "OK"
      BY FrameIs
    <3>2. Begin(t, g) /\ Idle(t)
      BY <2>3 DEF CallLog
    <3> HIDE DEF g
    <3>3. GoodCall(g) /\ ~InLock(g) /\ ~InLog(g)
      BY <3>1 DEF GoodCall, Placed, Filled, InLock, InLog
    <3> QED
      BY <3>1, <3>2, <3>3
  <2>4. CASE CallDetach(t)
    <3> DEFINE g == [Frame("detach", "unmount", None) EXCEPT !.fs = drivers]
    <3>1. drivers \in Driver /\ drivers # None
      BY <2>4 DEF CallDetach, Base, TypeOK
    <3>2. g \in Calls /\ g.op = "detach" /\ g.pc = "unmount" /\ g.fs = drivers /\ g.res = "OK"
      BY <3>1 DEF Frame, Calls
    <3>3. Begin(t, g) /\ Alone(t)
      BY <2>4 DEF CallDetach
    <3> HIDE DEF g
    <3>4. GoodCall(g) /\ ~InLock(g) /\ ~InLog(g)
      BY <3>1, <3>2 DEF GoodCall, Placed, Filled, InLock, InLog
    <3> QED
      BY <3>1, <3>2, <3>3, <3>4
  <2>5. ASSUME NEW d \in Driver, CallAttach(t, d)
        PROVE  \E g : /\ GoodCall(g) /\ Begin(t, g) /\ ~InLock(g) /\ ~InLog(g) /\ g.op = "attach"
                      /\ g.pc = "register" /\ Alone(t)
    <3> DEFINE g == [Frame("attach", "register", None) EXCEPT !.fs = d]
    <3>1. g \in Calls /\ g.op = "attach" /\ g.pc = "register" /\ g.fs = d /\ g.res = "OK"
      BY DEF Frame, Calls
    <3>2. Begin(t, g) /\ Alone(t)
      BY <2>5 DEF CallAttach
    <3> HIDE DEF g
    <3>3. GoodCall(g) /\ ~InLock(g) /\ ~InLog(g)
      BY <3>1 DEF GoodCall, Placed, Filled, InLock, InLog
    <3> QED
      BY <3>1, <3>2, <3>3
  <2> QED
    BY <2>1, <2>2, <2>3, <2>4, <2>5 DEF Calling
<1>2. stack[t] = <<>>
  BY <1>1 DEF Idle, Alone
<1>3. Push(t, g) /\ UNCHANGED <<registry, fs, fsid, ready, grant, handler, file, history>>
  BY <1>1 DEF Begin
<1>4. PushStep(t, g) /\ StacksGood' /\ LocksBalanced' /\ stack' \in [Thread -> Seq(Calls)]
  BY <1>1, <1>2, <1>3, Begins
<1>5. TypeOK'
  BY <1>3, <1>4 DEF Base, TypeOK, registry, history
<1> QED
  BY <1>1, <1>2, <1>3, <1>4, <1>5 DEF Base

LEMMA DriveLostBase ==
  ASSUME Base, NEW d \in Driver, DriveLost(d)
  PROVE  Base'
<1>1. TypeOK'
  BY DEF Base, TypeOK, DriveLost, registry, history
<1>2. StacksGood' /\ LocksBalanced'
  BY DEF Base, StacksGood, LocksBalanced, DriveLost
<1> QED
  BY <1>1, <1>2 DEF Base

LEMMA StutterBase ==
  ASSUME Base, UNCHANGED vars
  PROVE  Base'
<1>1. TypeOK'
  BY DEF Base, TypeOK, vars
<1>2. StacksGood' /\ LocksBalanced'
  BY DEF Base, StacksGood, LocksBalanced, vars
<1> QED
  BY <1>1, <1>2 DEF Base


-----------------------------------------------------------------------------
(* The registry and the volumes.  Most steps change only the stack.        *)

\* Every thread's stack is a sequence, before and after.
LEMMA StackTypes ==
  ASSUME Base, NEW t \in Thread, Others(t), NEW u \in Thread
  PROVE  /\ stack[u] \in Seq(Calls) /\ stack'[u] \in Seq(Calls)
         /\ Len(stack[u]) \in Nat /\ Len(stack'[u]) \in Nat
         /\ DOMAIN stack[u] = 1 .. Len(stack[u]) /\ DOMAIN stack'[u] = 1 .. Len(stack'[u])
         /\ (stack'[u] # <<>> <=> Len(stack'[u]) >= 1) /\ (stack[u] # <<>> <=> Len(stack[u]) >= 1)
         /\ stack'[u] # <<>> => Top(u)' = stack'[u][1]
         /\ stack[u] # <<>> => Top(u) = stack[u][1]
<1>1. stack[u] \in Seq(Calls) /\ stack'[u] \in Seq(Calls)
  BY DEF Base, TypeOK, Others
<1> QED
  BY <1>1 DEF Top

\* No call of attach or detach is new.
LEMMA LoneKept ==
  ASSUME Base, Lone, NEW t \in Thread, Others(t), stack[t] = <<>> => stack'[t] = <<>>,
         \A i \in 1 .. Len(stack'[t]) :
           \/ stack'[t][i].op \notin {"attach", "detach"}
           \/ \E j \in 1 .. Len(stack[t]) : stack'[t][i].op = stack[t][j].op
  PROVE  Lone'
<1>1. ASSUME NEW u \in Thread, Mounting(u)' PROVE Mounting(u)
  <2>1. PICK i \in 1 .. Len(stack'[u]) : stack'[u][i].op \in {"attach", "detach"}
    BY <1>1, StackTypes DEF Mounting
  <2>2. CASE u = t
    <3>1. PICK j \in 1 .. Len(stack[t]) : stack'[t][i].op = stack[t][j].op
      BY <2>1, <2>2
    <3> QED
      BY <2>1, <2>2, <3>1, StackTypes DEF Mounting
  <2>3. CASE u # t
    <3>1. stack'[u] = stack[u]
      BY <2>3 DEF Others
    <3> QED
      BY <2>1, <3>1, StackTypes DEF Mounting
  <2> QED
    BY <2>2, <2>3
<1>2. ASSUME NEW u \in Thread, stack[u] = <<>> PROVE stack'[u] = <<>>
  BY <1>2 DEF Others
<1>3. ASSUME NEW u \in Thread, NEW v \in Thread, u # v, Mounting(u)' PROVE stack'[v] = <<>>
  <2>1. Mounting(u)
    BY <1>1, <1>3
  <2>2. stack[v] = <<>>
    BY <1>3, <2>1 DEF Lone
  <2> QED
    BY <1>2, <2>2
<1> QED
  BY <1>3 DEF Lone

\* The registry and the volumes stay, and nothing is said anew of the call on top.
LEMMA QuietRest ==
  ASSUME Base, Rest, Lone', LogsLast', NEW t \in Thread, NEW g, Others(t),
         drivers' = drivers, attached' = attached, num' = num, volume' = volume, fs' = fs,
         slipped' = slipped, nested => nested',
         \A i \in 1 .. Len(stack'[t]) :
           (i = 1 /\ stack'[t][i] = g) \/ \E j \in 1 .. Len(stack[t]) : stack'[t][i] = stack[t][j],
         \A j \in 1 .. Len(stack[t]) :
           Entering(stack[t][j]) => \E i \in 1 .. Len(stack'[t]) : Entering(stack'[t][i]),
         stack'[t] # <<>> =>
           /\ stack'[t][1] = g /\ OnVolume(g) /\ (g.op = "detach" => drivers = g.fs)
           /\ Entering(g) => \E j \in 1 .. Len(stack[t]) : Entering(stack[t][j]) /\ stack[t][j].fs = g.fs
           /\ nested' \/ (Barren(g) => stack[t] # <<>> /\ Barren(stack[t][1]))
           /\ slipped \/ nested' \/ (g.op = "file" /\ g.pc \in {"enter", "work"} => Fresh(g.obj))
  PROVE  Rest'
<1>1. ASSUME NEW u \in Thread, u # t PROVE stack'[u] = stack[u]
  BY <1>1 DEF Others
<1>2. ASSUME NEW u \in Thread, stack'[u] # <<>> PROVE u = t \/ (stack[u] # <<>> /\ Top(u)' = Top(u))
  BY <1>1, <1>2 DEF Top
<1>3. stack'[t] # <<>> => Top(t)' = g
  BY StackTypes
<1>4. stack[t] # <<>> => Top(t) = stack[t][1]
  BY StackTypes
<1>5. Volumes'
  <2>1. ASSUME NEW u \in Thread, NEW i \in 1 .. Len(stack'[u]) PROVE OnVolume(stack'[u][i])
    <3>1. CASE u # t
      BY <1>1, <3>1 DEF Rest, Volumes
    <3>2. CASE u = t /\ i = 1 /\ stack'[t][i] = g
      <4>1. stack'[t] # <<>>
        BY <3>2, StackTypes
      <4> QED
        BY <3>2, <4>1
    <3>3. CASE u = t /\ \E j \in 1 .. Len(stack[t]) : stack'[t][i] = stack[t][j]
      BY <3>3 DEF Rest, Volumes
    <3> QED
      BY <3>1, <3>2, <3>3
  <2> QED
    BY <2>1 DEF Rest, Volumes, OnVolume
<1>6. Registry'
  <2>1. ASSUME NEW u \in Thread, NEW i \in 1 .. Len(stack'[u]), Entering(stack'[u][i])
        PROVE  drivers = stack'[u][i].fs /\ \A d \in Driver : ~Listed(d)
    <3>1. \E j \in 1 .. Len(stack[u]) : Entering(stack[u][j]) /\ stack[u][j].fs = stack'[u][i].fs
      <4>1. CASE u # t
        BY <1>1, <2>1, <4>1
      <4>2. CASE u = t /\ i = 1 /\ stack'[t][i] = g
        <5>1. stack'[t] # <<>>
          BY <4>2, StackTypes
        <5> QED
          BY <2>1, <4>2, <5>1
      <4>3. CASE u = t /\ \E j \in 1 .. Len(stack[t]) : stack'[t][i] = stack[t][j]
        BY <2>1, <4>3
      <4> QED
        BY <4>1, <4>2, <4>3
    <3> QED
      BY <3>1 DEF Rest, Registry
  <2>9. ASSUME NEW u \in Thread, NEW i \in 1 .. Len(stack'[u]), stack'[u][i].op = "detach"
        PROVE  drivers = stack'[u][i].fs
    <3>1. CASE u # t
      BY <1>1, <2>9, <3>1 DEF Rest, Registry
    <3>2. CASE u = t /\ i = 1 /\ stack'[t][i] = g
      <4>1. stack'[t] # <<>>
        BY <3>2, StackTypes
      <4> QED
        BY <2>9, <3>2, <4>1
    <3>3. CASE u = t /\ \E j \in 1 .. Len(stack[t]) : stack'[t][i] = stack[t][j]
      BY <2>9, <3>3 DEF Rest, Registry
    <3> QED
      BY <3>1, <3>2, <3>3
  <2>2. InAttach => InAttach'
    <3> SUFFICES ASSUME NEW u \in Thread, NEW j \in 1 .. Len(stack[u]), Entering(stack[u][j]) PROVE InAttach'
      BY DEF InAttach
    <3>1. \E i \in 1 .. Len(stack'[u]) : Entering(stack'[u][i])
      BY <1>1
    <3> QED
      BY <3>1 DEF InAttach
  <2>3. ASSUME ~nested', NEW u \in Thread, stack'[u] # <<>>, Barren(Top(u)')
        PROVE  \A d \in Driver : ~fs[d].mounted
    <3>1. stack[u] # <<>> /\ Barren(Top(u))
      BY <1>2, <1>3, <1>4, <2>3
    <3> QED
      BY <2>3, <3>1 DEF Rest, Registry
  <2>4. \A d \in Driver : Listed(d)' <=> Listed(d)
    BY DEF Listed
  <2>5. \A f : Entering(f)' <=> Entering(f)
    BY DEF Entering
  <2>6. \A u \in Thread : \A i \in 1 .. Len(stack'[u]) :
          Entering(stack'[u][i]) => drivers' = stack'[u][i].fs /\ \A d \in Driver : ~Listed(d)'
    BY <2>1, <2>4
  <2>7. InAttach' \/ \A d \in Driver : (drivers' = d) <=> Listed(d)'
    BY <2>2, <2>4 DEF Rest, Registry
  <2>8. nested' \/ \A u \in Thread : stack'[u] # <<>> /\ Barren(Top(u)') => \A d \in Driver : ~fs'[d].mounted
    BY <2>3
  <2> QED
    BY <2>6, <2>7, <2>8, <2>9 DEF Registry
<1>7. FreshFrom'
  <2>1. ASSUME ~slipped, ~nested', NEW u \in Thread, stack'[u] # <<>>, Top(u)'.op = "file", Top(u)'.pc \in {"enter", "work"}
        PROVE  Fresh(Top(u)'.obj)
    <3>1. CASE u = t
      BY <1>3, <2>1, <3>1
    <3>2. CASE u # t
      BY <1>2, <2>1, <3>2 DEF Rest, FreshFrom
    <3> QED
      BY <3>1, <3>2
  <2>2. \A o : Fresh(o)' <=> Fresh(o)
    BY DEF Fresh
  <2> QED
    BY <2>1 DEF FreshFrom, Fresh
<1> QED
  BY <1>5, <1>6, <1>7 DEF Rest


LEMMA LogsLastSwap ==
  ASSUME Base, LogsLast, NEW t \in Thread, NEW g, SwapStep(t, g), g.op = stack[t][1].op, nested' = nested
  PROVE  LogsLast'
<1>1. ASSUME ~nested, NEW u \in Thread, NEW i \in 2 .. Len(stack'[u]) PROVE stack'[u][i - 1].op # "log"
  <2>1. CASE u # t
    <3>1. stack'[u] = stack[u]
      BY <2>1 DEF SwapStep, Others
    <3> QED
      BY <1>1, <3>1 DEF LogsLast
  <2>2. CASE u = t
    <3>1. Len(stack'[t]) = Len(stack[t]) /\ i \in 2 .. Len(stack[t]) /\ Len(stack[t]) \in Nat
      BY <1>1, <2>2, StackTypes DEF SwapStep, Swapped
    <3>2. stack'[t][i - 1].op = stack[t][i - 1].op
      <4>1. CASE i = 2
        BY <4>1 DEF SwapStep, Swapped
      <4>2. CASE i # 2
        BY <3>1, <4>2 DEF SwapStep, Swapped
      <4> QED
        BY <4>1, <4>2
    <3> QED
      BY <1>1, <2>2, <3>1, <3>2 DEF LogsLast
  <2> QED
    BY <2>1, <2>2
<1> QED
  BY <1>1 DEF LogsLast

LEMMA LogsLastPush ==
  ASSUME Base, LogsLast, NEW t \in Thread, NEW g, PushStep(t, g), nested => nested',
         nested' \/ stack[t] = <<>> \/ g.op # "log"
  PROVE  LogsLast'
<1>1. ASSUME ~nested', NEW u \in Thread, NEW i \in 2 .. Len(stack'[u]) PROVE stack'[u][i - 1].op # "log"
  <2>1. CASE u # t
    <3>1. stack'[u] = stack[u]
      BY <2>1 DEF PushStep, Others
    <3> QED
      BY <1>1, <3>1 DEF LogsLast
  <2>2. CASE u = t
    <3>1. Len(stack'[t]) = Len(stack[t]) + 1 /\ i \in 2 .. Len(stack[t]) + 1 /\ Len(stack[t]) \in Nat
      BY <1>1, <2>2, StackTypes DEF PushStep, Pushed
    <3>2. CASE i = 2
      <4>1. stack[t] # <<>>
        BY <3>1, <3>2, StackTypes DEF PushStep
      <4> QED
        BY <1>1, <2>2, <3>2, <4>1 DEF PushStep, Pushed
    <3>3. CASE i # 2
      <4>1. stack'[t][i - 1] = stack[t][i - 2] /\ i - 1 \in 2 .. Len(stack[t])
        BY <3>1, <3>3 DEF PushStep, Pushed
      <4>2. stack[t][(i - 1) - 1].op # "log"
        BY <1>1, <4>1 DEF LogsLast
      <4> QED
        BY <2>2, <4>1, <4>2
    <3> QED
      BY <3>2, <3>3
  <2> QED
    BY <2>1, <2>2
<1> QED
  BY <1>1 DEF LogsLast

LEMMA LogsLastPop ==
  ASSUME Base, LogsLast, NEW t \in Thread, NEW g, PopStep(t, g), nested' = nested,
         Len(stack[t]) > 1 => g.op = stack[t][2].op
  PROVE  LogsLast'
<1>1. ASSUME ~nested, NEW u \in Thread, NEW i \in 2 .. Len(stack'[u]) PROVE stack'[u][i - 1].op # "log"
  <2>1. CASE u # t
    <3>1. stack'[u] = stack[u]
      BY <2>1 DEF PopStep, Others
    <3> QED
      BY <1>1, <3>1 DEF LogsLast
  <2>2. CASE u = t
    <3>1. /\ Len(stack'[t]) = Len(stack[t]) - 1 /\ i + 1 \in 2 .. Len(stack[t]) /\ Len(stack[t]) \in Nat
          /\ i \in 2 .. Len(stack[t]) - 1 /\ stack'[t] # <<>>
      BY <1>1, <2>2, StackTypes DEF PopStep, Popped
    <3>2. stack'[t][i - 1].op = stack[t][i].op
      <4>1. CASE i = 2
        BY <3>1, <4>1 DEF PopStep, Popped
      <4>2. CASE i # 2
        BY <3>1, <4>2 DEF PopStep, Popped
      <4> QED
        BY <4>1, <4>2
    <3>3. stack[t][(i + 1) - 1].op # "log"
      BY <1>1, <3>1 DEF LogsLast
    <3> QED
      BY <2>2, <3>1, <3>2, <3>3
  <2> QED
    BY <2>1, <2>2
<1> QED
  BY <1>1 DEF LogsLast

\* The three kinds of step, when they are quiet.
LEMMA QuietSwap ==
  ASSUME Base, Rest, NEW t \in Thread, NEW g, SwapStep(t, g),
         g.op = stack[t][1].op, g.op \notin {"attach", "detach"},
         UNCHANGED registry, fs' = fs, UNCHANGED history,
         OnVolume(g), Barren(g) => Barren(stack[t][1]),
         slipped \/ nested \/ (g.op = "file" /\ g.pc \in {"enter", "work"} => Fresh(g.obj))
  PROVE  Rest'
<1>1. /\ Others(t) /\ stack[t] # <<>> /\ Len(stack'[t]) = Len(stack[t]) /\ Len(stack[t]) \in Nat
      /\ 1 \in 1 .. Len(stack[t]) /\ stack'[t][1] = g
      /\ \A i \in 2 .. Len(stack[t]) : stack'[t][i] = stack[t][i]
  BY StackTypes DEF SwapStep, Swapped
<1>2. /\ drivers' = drivers /\ attached' = attached /\ num' = num /\ volume' = volume
      /\ slipped' = slipped /\ nested' = nested
  BY DEF registry, history
<1>3. LogsLast'
  BY <1>2, LogsLastSwap DEF Rest
<1>4. \A i \in 1 .. Len(stack'[t]) : stack'[t][i].op = stack[t][i].op
  BY <1>1
<1>5. Lone'
  BY <1>1, <1>4, LoneKept DEF Rest
<1>6. ~Entering(g) /\ ~Entering(stack[t][1])
  BY DEF Entering
<1>7. \A i \in 1 .. Len(stack'[t]) :
        (i = 1 /\ stack'[t][i] = g) \/ \E j \in 1 .. Len(stack[t]) : stack'[t][i] = stack[t][j]
  BY <1>1
<1>8. \A j \in 1 .. Len(stack[t]) :
        Entering(stack[t][j]) => \E i \in 1 .. Len(stack'[t]) : Entering(stack'[t][i])
  <2> SUFFICES ASSUME NEW j \in 1 .. Len(stack[t]), Entering(stack[t][j])
               PROVE  Entering(stack'[t][j])
    BY <1>1
  <2>1. j \in 2 .. Len(stack[t])
    BY <1>1, <1>6
  <2> QED
    BY <1>1, <2>1
<1> QED
  BY <1>1, <1>2, <1>3, <1>5, <1>6, <1>7, <1>8, QuietRest

LEMMA LonePush ==
  ASSUME Base, Rest, NEW t \in Thread, NEW g, PushStep(t, g), stack[t] # <<>>, g.op \notin {"attach", "detach"}
  PROVE  Lone'
<1>1. /\ Others(t) /\ Len(stack'[t]) = Len(stack[t]) + 1 /\ Len(stack[t]) \in Nat
      /\ stack'[t][1] = g
      /\ \A i \in 2 .. Len(stack'[t]) : stack'[t][i] = stack[t][i - 1]
  BY StackTypes DEF PushStep, Pushed
<1>2. \A i \in 1 .. Len(stack'[t]) :
        \/ stack'[t][i].op \notin {"attach", "detach"}
        \/ \E j \in 1 .. Len(stack[t]) : stack'[t][i].op = stack[t][j].op
  <2> SUFFICES ASSUME NEW i \in 1 .. Len(stack'[t]), i # 1
               PROVE  \E j \in 1 .. Len(stack[t]) : stack'[t][i].op = stack[t][j].op
    BY <1>1
  <2>1. i - 1 \in 1 .. Len(stack[t]) /\ stack'[t][i] = stack[t][i - 1]
    BY <1>1
  <2> QED
    BY <2>1
<1> QED
  BY <1>1, <1>2, LoneKept DEF Rest

\* The application calls: nobody is in attach or detach, and for these nobody in the API.
LEMMA LoneCall ==
  ASSUME Base, Rest, NEW t \in Thread, NEW g, PushStep(t, g), stack[t] = <<>>,
         Alone(t) \/ (Idle(t) /\ g.op \notin {"attach", "detach"})
  PROVE  Lone'
<1>1. Others(t) /\ Len(stack'[t]) = 1 /\ stack'[t][1] = g
  BY DEF PushStep, Pushed
<1>2. CASE Alone(t)
  <2>1. \A u \in Thread : u # t => stack'[u] = <<>>
    BY <1>1, <1>2 DEF Alone, Others
  <2>2. \A u \in Thread : u # t => ~Mounting(u)'
    BY <1>1, <2>1, StackTypes DEF Mounting
  <2> QED
    BY <2>1, <2>2 DEF Lone
<1>3. CASE Idle(t) /\ g.op \notin {"attach", "detach"}
  <2>1. ~Mounting(t)'
    BY <1>1, <1>3, StackTypes DEF Mounting
  <2>2. \A u \in Thread : u # t => ~Mounting(u)'
    BY <1>1, <1>3 DEF Idle, Mounting, Others
  <2> QED
    BY <2>1, <2>2 DEF Lone
<1> QED
  BY <1>2, <1>3

LEMMA QuietPush ==
  ASSUME Base, Rest, Lone', NEW t \in Thread, NEW g, PushStep(t, g),
         UNCHANGED registry, fs' = fs, slipped' = slipped, nested => nested',
         nested' \/ stack[t] = <<>> \/ g.op # "log",
         g.pc \in {"find", "validate", "lock", "register", "unmount"}, g.op = "attach" => g.pc = "register",
         nested' \/ g.op # "mount" \/ (stack[t] # <<>> /\ Barren(stack[t][1])),
         g.op = "detach" => drivers = g.fs
  PROVE  Rest'
<1>1. /\ Others(t) /\ Len(stack'[t]) = Len(stack[t]) + 1 /\ Len(stack[t]) \in Nat
      /\ stack'[t][1] = g
      /\ \A i \in 2 .. Len(stack'[t]) : stack'[t][i] = stack[t][i - 1]
  BY StackTypes DEF PushStep, Pushed
<1>2. drivers' = drivers /\ attached' = attached /\ num' = num /\ volume' = volume
  BY DEF registry
<1>3. LogsLast'
  BY <1>2, LogsLastPush DEF Rest
<1>4. ~Entering(g) /\ OnVolume(g) /\ (nested' \/ (Barren(g) => stack[t] # <<>> /\ Barren(stack[t][1])))
  BY DEF Entering, OnVolume, Barren
<1>5. \A i \in 1 .. Len(stack'[t]) :
        (i = 1 /\ stack'[t][i] = g) \/ \E j \in 1 .. Len(stack[t]) : stack'[t][i] = stack[t][j]
  <2> SUFFICES ASSUME NEW i \in 1 .. Len(stack'[t]), i # 1
               PROVE  \E j \in 1 .. Len(stack[t]) : stack'[t][i] = stack[t][j]
    BY <1>1
  <2>1. i - 1 \in 1 .. Len(stack[t]) /\ stack'[t][i] = stack[t][i - 1]
    BY <1>1
  <2> QED
    BY <2>1
<1>6. \A j \in 1 .. Len(stack[t]) :
        Entering(stack[t][j]) => \E i \in 1 .. Len(stack'[t]) : Entering(stack'[t][i])
  <2> SUFFICES ASSUME NEW j \in 1 .. Len(stack[t]), Entering(stack[t][j])
               PROVE  \E i \in 1 .. Len(stack'[t]) : Entering(stack'[t][i])
    OBVIOUS
  <2>1. j + 1 \in 1 .. Len(stack'[t]) /\ stack'[t][j + 1] = stack[t][j]
    BY <1>1
  <2> QED
    BY <2>1
<1>7. g.op = "file" /\ g.pc \in {"enter", "work"} => Fresh(g.obj)
  OBVIOUS
<1> QED
  BY <1>1, <1>2, <1>3, <1>4, <1>5, <1>6, <1>7, QuietRest

LEMMA QuietPop ==
  ASSUME Base, Rest, NEW t \in Thread, NEW g, PopStep(t, g),
         stack[t][1].op \notin {"attach", "detach"}, stack[t][1].op = "mount" => stack[t][1].pc = "leave",
         Len(stack[t]) > 1 => Resumed(stack[t][1], stack[t][2], g),
         UNCHANGED registry, fs' = fs, UNCHANGED history
  PROVE  Rest'
<1>1. /\ Others(t) /\ stack[t] # <<>> /\ Len(stack'[t]) = Len(stack[t]) - 1 /\ Len(stack[t]) \in Nat
      /\ Len(stack'[t]) \in Nat
      /\ stack'[t] # <<>> => Len(stack[t]) > 1 /\ stack'[t][1] = g
      /\ stack'[t] # <<>> <=> Len(stack'[t]) >= 1
      /\ \A i \in 2 .. Len(stack'[t]) : stack'[t][i] = stack[t][i + 1]
  <2>1. Others(t) /\ Popped(stack[t], stack'[t], g)
    BY DEF PopStep
  <2>2. /\ Len(stack'[t]) \in Nat /\ Len(stack[t]) \in Nat /\ (stack'[t] # <<>> <=> Len(stack'[t]) >= 1)
    BY <2>1, StackTypes
  <2>3. /\ stack[t] # <<>> /\ Len(stack'[t]) = Len(stack[t]) - 1 /\ (stack'[t] # <<>> => stack'[t][1] = g)
        /\ \A i \in 2 .. Len(stack'[t]) : stack'[t][i] = stack[t][i + 1]
    BY <2>1 DEF Popped
  <2>4. stack'[t] # <<>> => Len(stack[t]) > 1
    BY <2>2, <2>3
  <2> QED
    BY <2>1, <2>2, <2>3, <2>4
<1>2. /\ drivers' = drivers /\ attached' = attached /\ num' = num /\ volume' = volume
      /\ slipped' = slipped /\ nested' = nested
  BY DEF registry, history
<1>3. LogsLast'
  BY <1>2, LogsLastPop DEF Rest, Resumed
<1>4. \A i \in 1 .. Len(stack'[t]) :
        (i = 1 /\ stack'[t][i] = g /\ Len(stack[t]) > 1)
        \/ \E j \in 1 .. Len(stack[t]) : stack'[t][i] = stack[t][j]
  <2> SUFFICES ASSUME NEW i \in 1 .. Len(stack'[t]), i # 1
               PROVE  \E j \in 1 .. Len(stack[t]) : stack'[t][i] = stack[t][j]
    BY <1>1
  <2>1. i + 1 \in 1 .. Len(stack[t]) /\ stack'[t][i] = stack[t][i + 1]
    BY <1>1
  <2> QED
    BY <2>1
<1>5. Lone'
  <2>1. \A i \in 1 .. Len(stack'[t]) : \E j \in 1 .. Len(stack[t]) : stack'[t][i].op = stack[t][j].op
    <3> SUFFICES ASSUME NEW i \in 1 .. Len(stack'[t])
                 PROVE  \E j \in 1 .. Len(stack[t]) : stack'[t][i].op = stack[t][j].op
      OBVIOUS
    <3>1. CASE i = 1 /\ stack'[t][i] = g /\ Len(stack[t]) > 1
      <4>1. 2 \in 1 .. Len(stack[t]) /\ stack'[t][i].op = stack[t][2].op
        BY <1>1, <3>1 DEF Resumed
      <4> QED
        BY <4>1
    <3>2. CASE \E j \in 1 .. Len(stack[t]) : stack'[t][i] = stack[t][j]
      BY <3>2
    <3> QED
      BY <1>4, <3>1, <3>2
  <2> QED
    BY <1>1, <2>1, LoneKept DEF Rest
<1>6. ~Entering(stack[t][1])
  BY DEF Entering
<1>7. Len(stack[t]) > 1 => (Entering(g) <=> Entering(stack[t][2])) /\ g.fs = stack[t][2].fs /\ OnVolume(g)
  <2> SUFFICES ASSUME Len(stack[t]) > 1
               PROVE  (Entering(g) <=> Entering(stack[t][2])) /\ g.fs = stack[t][2].fs /\ OnVolume(g)
    OBVIOUS
  <2>1. 2 \in 1 .. Len(stack[t]) /\ OnVolume(stack[t][2])
    BY <1>1 DEF Rest, Volumes
  <2> QED
    BY <2>1 DEF Resumed, Entering, OnVolume
<1>8. \A j \in 1 .. Len(stack[t]) :
        Entering(stack[t][j]) => \E i \in 1 .. Len(stack'[t]) : Entering(stack'[t][i])
  <2> SUFFICES ASSUME NEW j \in 1 .. Len(stack[t]), Entering(stack[t][j])
               PROVE  j - 1 \in 1 .. Len(stack'[t]) /\ Entering(stack'[t][j - 1])
    OBVIOUS
  <2>1. j # 1 /\ j - 1 \in 1 .. Len(stack'[t])
    BY <1>1, <1>6
  <2>2. CASE j = 2
    BY <1>1, <1>7, <2>1, <2>2
  <2>3. CASE j # 2
    <3>1. j - 1 \in 2 .. Len(stack'[t]) /\ stack'[t][j - 1] = stack[t][j]
      BY <1>1, <2>1, <2>3
    <3> QED
      BY <2>1, <3>1
  <2> QED
    BY <2>2, <2>3
<1>9. stack'[t] # <<>> =>
        /\ Entering(g) => \E j \in 1 .. Len(stack[t]) : Entering(stack[t][j]) /\ stack[t][j].fs = g.fs
        /\ g.op # "detach"
        /\ nested \/ (Barren(g) => Barren(stack[t][1]))
        /\ nested \/ (g.op = "file" /\ g.pc \in {"enter", "work"} => Fresh(g.obj))
  <2> SUFFICES ASSUME stack'[t] # <<>>
      PROVE /\ Entering(g) => \E j \in 1 .. Len(stack[t]) : Entering(stack[t][j]) /\ stack[t][j].fs = g.fs
            /\ g.op # "detach"
            /\ nested \/ (Barren(g) => Barren(stack[t][1]))
            /\ nested \/ (g.op = "file" /\ g.pc \in {"enter", "work"} => Fresh(g.obj))
    OBVIOUS
  <2>1. 2 \in 1 .. Len(stack[t]) /\ Len(stack[t]) > 1 /\ Resumed(stack[t][1], stack[t][2], g)
    BY <1>1
  <2>2. Entering(g) => \E j \in 1 .. Len(stack[t]) : Entering(stack[t][j]) /\ stack[t][j].fs = g.fs
    BY <1>7, <2>1
  <2>3. nested \/ (Barren(g) => Barren(stack[t][1]))
    <3> SUFFICES ASSUME ~nested, Barren(g) PROVE Barren(stack[t][1])
      OBVIOUS
    <3>1. GoodCall(stack[t][2]) /\ Fits(stack[t][1], stack[t][2])
      BY <1>1, <2>1, TopIs DEF GoodStack
    <3>2. stack[t][2 - 1].op # "log"
      BY <2>1, <1>1 DEF Rest, LogsLast
    <3>3. stack[t][2].pc \notin {"register", "init", "work"}
      BY <3>1, <3>2 DEF Fits, GoodCall, Placed
    <3>4. /\ stack[t][2].op = "attach" /\ stack[t][2].pc = "mount" /\ stack[t][1].op = "mount"
          /\ g.pc = IF stack[t][1].res = "OK" THEN "served" ELSE "refused"
      BY <2>1, <3>3 DEF Resumed, Barren
    <3> QED
      BY <2>1, <3>4 DEF Barren, Resumed
  <2>4. nested \/ ~(g.op = "file" /\ g.pc \in {"enter", "work"})
    <3> SUFFICES ASSUME ~nested, g.op = "file", g.pc \in {"enter", "work"} PROVE FALSE
      OBVIOUS
    <3>1. stack[t][2].pc = "work" /\ stack[t][2].op = "file"
      BY <2>1 DEF Resumed
    <3>2. Fits(stack[t][1], stack[t][2])
      BY <1>1, <2>1, TopIs DEF GoodStack
    <3>3. stack[t][2 - 1].op # "log"
      BY <2>1, <1>1 DEF Rest, LogsLast
    <3> QED
      BY <3>1, <3>2, <3>3 DEF Fits
  <2>5. g.op # "detach"
    BY <2>1 DEF Resumed, GoodCall, Placed
  <2> QED
    BY <2>2, <2>3, <2>4, <2>5
<1>10. \A i \in 1 .. Len(stack'[t]) :
        (i = 1 /\ stack'[t][i] = g) \/ \E j \in 1 .. Len(stack[t]) : stack'[t][i] = stack[t][j]
  BY <1>4
<1> QED
  BY <1>1, <1>2, <1>3, <1>5, <1>7, <1>8, <1>9, <1>10, QuietRest


-----------------------------------------------------------------------------
(* The quiet actions.                                                      *)

LEMMA QuietActions ==
  ASSUME Base, Rest, NEW t \in Thread,
         FindVolume(t) \/ Validate(t) \/ Enter(t) \/ Work(t) \/ Leave(t) \/ LogLock(t) \/ LogCall(t)
         \/ LogDone(t) \/ MountNow(t) \/ LogInside(t) \/ Calling(t)
  PROVE  Rest'
<1>1. CASE FindVolume(t)
  <2>1. UNCHANGED registry /\ fs' = fs /\ UNCHANGED history /\ stack[t] # <<>> /\ stack[t][1].pc = "find"
        /\ GoodCall(stack[t][1])
    BY <1>1, TopIs DEF FindVolume, At
  <2>2. PICK g : /\ SwapStep(t, g) /\ g.op = stack[t][1].op
                 /\ \/ g.pc = "enter" /\ g.fs = volume
                    \/ g.pc = "leave" /\ g.res # "OK"
    BY <1>1, FindVolumeBase
  <2>3. g.op \in {"path", "mount"} /\ OnVolume(g) /\ (Barren(g) => Barren(stack[t][1]))
    BY <2>1, <2>2 DEF GoodCall, Placed, OnVolume, Barren
  <2> QED
    BY <2>1, <2>2, <2>3, QuietSwap
<1>2. CASE Validate(t)
  <2>1. UNCHANGED registry /\ fs' = fs /\ UNCHANGED history
    BY <1>2 DEF Validate
  <2>2. PICK g : /\ SwapStep(t, g) /\ g.op = "file" /\ stack[t][1].op = "file"
                 /\ \/ g.pc = "enter" /\ Valid(g.obj) /\ g.obj \in Object
                    \/ g.pc = "leave"
    BY <1>2, ValidateBase
  <2>3. g.pc = "enter" => Fresh(g.obj)
    BY <2>2 DEF Valid, Fresh, Object, Rest, Volumes
  <2>4. OnVolume(g) /\ ~Barren(g)
    BY <2>2 DEF OnVolume, Barren
  <2> QED
    BY <2>1, <2>2, <2>3, <2>4, QuietSwap
<1>3. CASE Enter(t)
  <2>1. UNCHANGED registry /\ fs' = fs /\ UNCHANGED history /\ stack[t] # <<>> /\ stack[t][1].pc = "enter"
        /\ GoodCall(stack[t][1]) /\ Top(t) = stack[t][1] /\ 1 \in 1 .. Len(stack[t])
    BY <1>3, TopIs DEF Enter, At
  <2>2. PICK g : /\ SwapStep(t, g) /\ g.op = stack[t][1].op /\ g.fs = stack[t][1].fs
                 /\ g.obj = stack[t][1].obj /\ g.res = stack[t][1].res
                 /\ g.pc = IF g.op = "file" THEN "work" ELSE "check"
    BY <1>3, EnterBase
  <2>3. OnVolume(stack[t][1])
    BY <2>1 DEF Rest, Volumes
  <2>4. OnVolume(g) /\ g.op \in {"path", "file", "mount"} /\ (Barren(g) => Barren(stack[t][1]))
    BY <2>1, <2>2, <2>3 DEF GoodCall, Placed, OnVolume, Barren
  <2>5. slipped \/ nested \/ (g.op = "file" => Fresh(g.obj))
    BY <2>1, <2>2 DEF Rest, FreshFrom
  <2> QED
    BY <2>1, <2>2, <2>4, <2>5, QuietSwap
<1>4. CASE Work(t)
  <2>1. UNCHANGED registry /\ fs' = fs /\ UNCHANGED history
    BY <1>4 DEF Work
  <2>2. PICK g : SwapStep(t, g) /\ g.op = stack[t][1].op /\ g.op \in {"path", "file"} /\ g.pc = "leave"
    BY <1>4, WorkBase
  <2>3. OnVolume(g) /\ ~Barren(g)
    BY <2>2 DEF OnVolume, Barren
  <2> QED
    BY <2>1, <2>2, <2>3, QuietSwap
<1>5. CASE Leave(t)
  <2>1. UNCHANGED registry /\ fs' = fs /\ UNCHANGED history
    BY <1>5 DEF Leave
  <2>2. /\ stack[t][1].op \in {"path", "file", "mount"} /\ stack[t][1].pc = "leave"
        /\ \E g : PopStep(t, g) /\ (Len(stack[t]) > 1 => Resumed(stack[t][1], stack[t][2], g))
    BY <1>5, LeaveBase
  <2> QED
    BY <2>1, <2>2, QuietPop
<1>6. CASE LogLock(t)
  <2>1. UNCHANGED registry /\ fs' = fs /\ UNCHANGED history
    BY <1>6 DEF LogLock
  <2>2. PICK g : SwapStep(t, g) /\ g.op = "log" /\ stack[t][1].op = "log"
    BY <1>6, LogLockBase
  <2>3. OnVolume(g) /\ ~Barren(g)
    BY <2>2 DEF OnVolume, Barren
  <2> QED
    BY <2>1, <2>2, <2>3, QuietSwap
<1>7. CASE LogCall(t)
  <2>1. UNCHANGED registry /\ fs' = fs /\ UNCHANGED history
    BY <1>7 DEF LogCall
  <2>2. PICK g : PushStep(t, g) /\ g.op \in {"path", "file"} /\ g.pc \in {"find", "validate"} /\ stack[t] # <<>>
    BY <1>7, LogCallBase
  <2>3. Lone'
    BY <2>2, LonePush
  <2>4. slipped' = slipped /\ nested' = nested
    BY <2>1 DEF history
  <2> QED
    BY <2>1, <2>2, <2>3, <2>4, QuietPush
<1>8. CASE LogDone(t)
  <2>1. UNCHANGED registry /\ fs' = fs /\ UNCHANGED history
    BY <1>8 DEF LogDone
  <2>2. /\ stack[t][1].op = "log"
        /\ \E g : PopStep(t, g) /\ (Len(stack[t]) > 1 => Resumed(stack[t][1], stack[t][2], g))
    BY <1>8, LogDoneBase
  <2> QED
    BY <2>1, <2>2, QuietPop
<1>9. CASE MountNow(t)
  <2>1. UNCHANGED registry /\ fs' = fs /\ UNCHANGED history
    BY <1>9 DEF MountNow
  <2>2. PICK g : /\ PushStep(t, g) /\ g.op = "mount" /\ g.pc = "find"
                 /\ stack[t] # <<>> /\ stack[t][1].op = "attach" /\ stack[t][1].pc = "mount"
    BY <1>9, MountNowBase
  <2>3. Lone'
    BY <2>2, LonePush
  <2>4. slipped' = slipped /\ nested' = nested /\ Barren(stack[t][1])
    BY <2>1, <2>2 DEF history, Barren
  <2> QED
    BY <2>1, <2>2, <2>3, <2>4, QuietPush
<1>10. CASE LogInside(t)
  <2>1. UNCHANGED registry /\ fs' = fs /\ slipped' = slipped /\ nested' = TRUE
    BY <1>10 DEF LogInside
  <2>2. PICK g : PushStep(t, g) /\ g.op = "log" /\ g.pc = "lock" /\ stack[t] # <<>>
    BY <1>10, LogInsideBase
  <2>3. Lone'
    BY <2>2, LonePush
  <2> QED
    BY <2>1, <2>2, <2>3, QuietPush
<1>11. CASE Calling(t)
  <2>1. /\ UNCHANGED registry /\ fs' = fs /\ slipped' = slipped /\ nested' = nested /\ stack[t] = <<>>
    BY <1>11, CallingBase DEF history
  <2>2. PICK g : /\ PushStep(t, g)
                 /\ \/ g.op \in {"path", "file", "log"} /\ g.pc \in {"find", "validate", "lock"} /\ Idle(t)
                    \/ g.op \in {"attach", "detach"} /\ g.pc \in {"register", "unmount"} /\ Alone(t)
                       /\ (g.op = "attach" => g.pc = "register")
                       /\ (g.op = "detach" => drivers = g.fs)
    BY <1>11, CallingBase
  <2>3. Lone'
    BY <2>1, <2>2, LoneCall
  <2> QED
    BY <2>1, <2>2, <2>3, QuietPush
<1> QED
  BY <1>1, <1>2, <1>3, <1>4, <1>5, <1>6, <1>7, <1>8, <1>9, <1>10, <1>11


-----------------------------------------------------------------------------
(* The actions that mount, and those that change the registry.             *)

\* While attach mounts, its thread is in attach.
LEMMA BarrenMounts ==
  ASSUME Base, NEW t \in Thread, stack[t] # <<>>, Barren(stack[t][1])
  PROVE  Mounting(t)
<1>1. GoodStack(stack[t]) /\ Len(stack[t]) \in Nat /\ Len(stack[t]) >= 1 /\ DOMAIN stack[t] = 1 .. Len(stack[t])
  BY TopIs
<1>2. CASE stack[t][1].op = "attach"
  BY <1>1, <1>2 DEF Mounting
<1>3. CASE stack[t][1].op = "mount"
  <2>1. Len(stack[t]) # 1
    BY <1>1, <1>3 DEF GoodStack
  <2> DEFINE n == Len(stack[t])
  <2>2. n \in Nat /\ n >= 1 /\ n # 1
    BY <1>1, <2>1
  <2> HIDE DEF n
  <2>3. 2 \in 2 .. n /\ 2 \in 1 .. n /\ 2 - 1 = 1
    BY <2>2
  <2>4. Fits(stack[t][2 - 1], stack[t][2])
    BY <1>1, <2>3 DEF GoodStack, n
  <2>5. stack[t][2].op = "attach"
    BY <1>3, <2>3, <2>4 DEF Fits
  <2> QED
    BY <1>1, <2>3, <2>5 DEF Mounting, n
<1> QED
  BY <1>2, <1>3 DEF Barren

\* A call that works has the lock, so that none waits between validate and lock but
\* those that Slips sees.
LEMMA SlipsSeen ==
  ASSUME Base, NEW t \in Thread, stack[t] # <<>>, stack[t][1].pc \in {"check", "init"},
         NEW u \in Thread, u # t, stack[u] # <<>>, Top(u).op = "file", Top(u).pc \in {"enter", "work"}
  PROVE  Slips(t)
<1>1. Top(u) = stack[u][1] /\ InLock(stack[t][1])
  BY TopIs DEF InLock
<1>2. Held(grant, t) > 0
  BY <1>1, TopHolds DEF Base
<1>3. ~InLock(stack[u][1])
  <2> SUFFICES ASSUME InLock(stack[u][1]) PROVE FALSE
    OBVIOUS
  <2>1. Held(grant, u) > 0
    BY TopHolds DEF Base
  <2> QED
    BY <1>2, <2>1 DEF Held
<1>4. Top(u).pc = "enter"
  BY <1>1, <1>3 DEF InLock
<1> QED
  BY <1>4 DEF Slips, At

LEMMA MountRest ==
  ASSUME Base, Rest, NEW t \in Thread, NEW g, SwapStep(t, g), g.op = stack[t][1].op,
         stack[t][1].op \in {"path", "mount"}, stack[t][1].pc \in {"check", "init"},
         UNCHANGED registry, nested' = nested, slipped' = (slipped \/ Slips(t)), OnVolume(g),
         \A d \in Driver : fs'[d].mounted => volume = d,
         nested \/ drivers # None \/ \A d \in Driver : ~fs'[d].mounted,
         nested \/ (Barren(g) => \A d \in Driver : ~fs'[d].mounted)
  PROVE  Rest'
<1>1. /\ Others(t) /\ stack[t] # <<>> /\ Len(stack'[t]) = Len(stack[t]) /\ Len(stack[t]) \in Nat
      /\ 1 \in 1 .. Len(stack[t]) /\ stack'[t][1] = g
      /\ \A i \in 2 .. Len(stack[t]) : stack'[t][i] = stack[t][i]
  BY StackTypes DEF SwapStep, Swapped
<1>2. drivers' = drivers /\ attached' = attached /\ num' = num /\ volume' = volume
  BY DEF registry
<1>3. LogsLast'
  BY LogsLastSwap DEF Rest
<1>4. \A u \in Thread : u # t => stack'[u] = stack[u]
  BY <1>1 DEF Others
<1>5. \A u \in Thread : Len(stack'[u]) = Len(stack[u]) /\
        \A i \in 1 .. Len(stack'[u]) : stack'[u][i] = stack[u][i] \/ (u = t /\ i = 1 /\ stack'[u][i] = g)
  BY <1>1, <1>4
<1>6. Lone'
  <2>1. \A i \in 1 .. Len(stack'[t]) : stack'[t][i].op = stack[t][i].op
    BY <1>1
  <2> QED
    BY <1>1, <2>1, LoneKept DEF Rest
<1>7. Volumes'
  BY <1>2, <1>5 DEF Rest, Volumes, OnVolume
<1>8. Registry'
  <2>1. \A u \in Thread : \A i \in 1 .. Len(stack'[u]) :
          /\ Entering(stack'[u][i]) <=> Entering(stack[u][i])
          /\ stack'[u][i].op = stack[u][i].op
          /\ Entering(stack[u][i]) \/ stack[u][i].op = "detach" => stack'[u][i].fs = stack[u][i].fs
    BY <1>1, <1>5 DEF Entering
  <2>2. InAttach' <=> InAttach
    BY <1>5, <2>1 DEF InAttach, Entering
  <2>3. ASSUME ~nested, NEW u \in Thread, stack'[u] # <<>>, Barren(Top(u)') PROVE \A d \in Driver : ~fs'[d].mounted
    <3>1. CASE u = t
      <4>1. Top(u)' = g
        BY <1>1, <2>3, <3>1, StackTypes
      <4> QED
        BY <2>3, <4>1
    <3>2. CASE u # t
      <4>1. stack[u] # <<>> /\ Barren(stack[u][1])
        BY <1>1, <1>4, <2>3, <3>2, StackTypes
      <4>2. stack[t] = <<>>
        BY <3>2, <4>1, BarrenMounts DEF Rest, Lone
      <4> QED
        BY <1>1, <4>2
    <3> QED
      BY <3>1, <3>2
  <2>4. \A d \in Driver : Listed(d)' <=> Listed(d)
    BY <1>2 DEF Listed
  <2>5. \A u \in Thread : \A i \in 1 .. Len(stack'[u]) :
          Entering(stack'[u][i]) => drivers' = stack'[u][i].fs /\ \A d \in Driver : ~Listed(d)'
    BY <1>2, <1>5, <2>1, <2>4 DEF Rest, Registry
  <2>6. \A u \in Thread : \A i \in 1 .. Len(stack'[u]) :
          stack'[u][i].op = "detach" => drivers' = stack'[u][i].fs
    BY <1>2, <1>5, <2>1 DEF Rest, Registry
  <2>7. InAttach' \/ \A d \in Driver : (drivers' = d) <=> Listed(d)'
    BY <1>2, <2>2, <2>4 DEF Rest, Registry
  <2>8. nested' \/ \A u \in Thread : stack'[u] # <<>> /\ Barren(Top(u)') => \A d \in Driver : ~fs'[d].mounted
    BY <2>3
  <2> QED
    BY <2>5, <2>6, <2>7, <2>8 DEF Registry
<1>9. FreshFrom'
  <2> SUFFICES ASSUME ~slipped, ~Slips(t), ~nested, NEW u \in Thread, stack'[u] # <<>>,
                      Top(u)'.op = "file", Top(u)'.pc \in {"enter", "work"}
               PROVE  FALSE
    BY DEF FreshFrom
  <2>1. u # t
    BY <1>1, StackTypes
  <2>2. stack[u] # <<>> /\ Top(u) = Top(u)'
    BY <1>4, <2>1 DEF Top
  <2> QED
    BY <1>1, <2>1, <2>2, SlipsSeen
<1> QED
  BY <1>3, <1>6, <1>7, <1>8, <1>9 DEF Rest

LEMMA CheckVolumeRest ==
  ASSUME Base, Rest, NEW t \in Thread, CheckVolume(t)
  PROVE  Rest'
<1>1. UNCHANGED registry /\ nested' = nested
  BY DEF CheckVolume
<1>2. PICK g : /\ SwapStep(t, g) /\ g.op = stack[t][1].op /\ g.fs = stack[t][1].fs
               /\ stack[t][1].op \in {"path", "mount"} /\ stack[t][1].pc = "check" /\ g.res = "OK"
               /\ \/ g.pc = "init"
                     /\ fs' = [fs EXCEPT ![g.fs].mounted = FALSE] /\ slipped' = (slipped \/ Slips(t))
                  \/ g.pc = After(g.op) /\ fs' = fs /\ slipped' = slipped
  BY CheckVolumeBase
<1>3. stack[t] # <<>> /\ Top(t) = stack[t][1] /\ 1 \in 1 .. Len(stack[t])
  <2>1. stack[t] # <<>>
    BY <1>2 DEF SwapStep, Swapped
  <2> QED
    BY <2>1, TopIs
<1>4. Barren(g) => Barren(stack[t][1])
  BY <1>2 DEF Barren
<1>5. CASE g.pc = "init" /\ fs' = [fs EXCEPT ![g.fs].mounted = FALSE] /\ slipped' = (slipped \/ Slips(t))
  <2>1. OnVolume(g)
    <3>1. OnVolume(stack[t][1])
      BY <1>3 DEF Rest, Volumes
    <3> QED
      BY <1>2, <3>1 DEF OnVolume
  <2>2. \A d \in Driver : fs'[d].mounted => fs[d].mounted
    BY <1>5 DEF Base, TypeOK
  <2>3. \A d \in Driver : fs'[d].mounted => volume = d
    BY <2>2 DEF Rest, Volumes
  <2>4. nested \/ drivers # None \/ \A d \in Driver : ~fs'[d].mounted
    BY <2>2 DEF Rest, Volumes
  <2>5. nested \/ (Barren(g) => \A d \in Driver : ~fs'[d].mounted)
    BY <1>3, <1>4, <2>2 DEF Rest, Registry
  <2> QED
    BY <1>1, <1>2, <1>5, <2>1, <2>3, <2>4, <2>5, MountRest
<1>6. CASE g.pc = After(g.op) /\ fs' = fs /\ slipped' = slipped
  <2>1. OnVolume(g) /\ g.op \in {"path", "mount"}
    BY <1>2, <1>6 DEF OnVolume, After
  <2>2. UNCHANGED history
    BY <1>1, <1>6 DEF history
  <2> QED
    BY <1>1, <1>2, <1>4, <1>6, <2>1, <2>2, QuietSwap
<1> QED
  BY <1>2, <1>5, <1>6

LEMMA InitVolumeRest ==
  ASSUME Base, Rest, NEW t \in Thread, InitVolume(t)
  PROVE  Rest'
<1>1. UNCHANGED registry /\ nested' = nested
  BY DEF InitVolume
<1>2. PICK g : /\ SwapStep(t, g) /\ g.op = stack[t][1].op /\ g.fs = stack[t][1].fs
               /\ stack[t][1].op \in {"path", "mount"} /\ stack[t][1].pc = "init"
               /\ \/ /\ g.pc = After(g.op) /\ g.res = "OK" /\ drivers # None
                     /\ fs' = [fs EXCEPT ![g.fs] = [mounted |-> TRUE, id |-> fsid + 1]]
                     /\ slipped' = (slipped \/ Slips(t))
                  \/ g.pc = "leave" /\ g.res = "NOT_READY" /\ fs' = fs /\ slipped' = slipped
  BY InitVolumeBase
<1>3. stack[t] # <<>> /\ Top(t) = stack[t][1] /\ 1 \in 1 .. Len(stack[t])
  <2>1. stack[t] # <<>>
    BY <1>2 DEF SwapStep, Swapped
  <2> QED
    BY <2>1, TopIs
<1>4. OnVolume(g)
  BY <1>2 DEF OnVolume, After
<1>5. CASE /\ g.pc = After(g.op) /\ g.res = "OK" /\ drivers # None
           /\ fs' = [fs EXCEPT ![g.fs] = [mounted |-> TRUE, id |-> fsid + 1]]
           /\ slipped' = (slipped \/ Slips(t))
  <2>1. g.fs = volume
    <3>1. OnVolume(stack[t][1])
      BY <1>3 DEF Rest, Volumes
    <3> QED
      BY <1>2, <3>1 DEF OnVolume
  <2>2. \A d \in Driver : d # g.fs => fs'[d] = fs[d]
    BY <1>5 DEF Base, TypeOK
  <2>3. \A d \in Driver : fs'[d].mounted => volume = d
    BY <2>1, <2>2 DEF Rest, Volumes
  <2>4. ~Barren(g)
    BY <1>2, <1>5 DEF Barren, After
  <2> QED
    BY <1>1, <1>2, <1>4, <1>5, <2>3, <2>4, MountRest
<1>6. CASE g.pc = "leave" /\ g.res = "NOT_READY" /\ fs' = fs /\ slipped' = slipped
  <2>1. g.op \in {"path", "mount"} /\ (Barren(g) => Barren(stack[t][1]))
    BY <1>2 DEF Barren
  <2>2. UNCHANGED history
    BY <1>1, <1>6 DEF history
  <2> QED
    BY <1>1, <1>2, <1>4, <1>6, <2>1, <2>2, QuietSwap
<1> QED
  BY <1>2, <1>5, <1>6

\* Nobody is in the API any more.
LEMMA EmptyRest ==
  ASSUME \A u \in Thread : stack'[u] = <<>>,
         drivers' # None => volume' = drivers',
         \A d \in Driver : fs'[d].mounted => volume' = d,
         nested' \/ drivers' # None \/ \A d \in Driver : ~fs'[d].mounted,
         \A d \in Driver : (drivers' = d) <=> Listed(d)'
  PROVE  Rest'
<1>1. \A u \in Thread : Len(stack'[u]) = 0 /\ DOMAIN stack'[u] = {}
  OBVIOUS
<1>2. \A u \in Thread : 1 .. Len(stack'[u]) = {} /\ 2 .. Len(stack'[u]) = {}
  BY <1>1
<1>3. Lone' /\ LogsLast' /\ FreshFrom'
  BY <1>2 DEF Lone, LogsLast, FreshFrom
<1>4. Volumes'
  BY <1>2 DEF Volumes
<1>5. Registry'
  BY <1>2 DEF Registry
<1> QED
  BY <1>3, <1>4, <1>5 DEF Rest

\* A call of attach or detach is alone.
LEMMA AloneInside ==
  ASSUME Base, Rest, NEW t \in Thread, stack[t] # <<>>, stack[t][1].op \in {"attach", "detach"}
  PROVE  /\ Len(stack[t]) = 1
         /\ \A u \in Thread : u # t => stack[u] = <<>>
         /\ InAttach => Entering(stack[t][1])
<1>1. Len(stack[t]) = 1 /\ DOMAIN stack[t] = 1 .. Len(stack[t])
  BY OnlyCall, TopIs
<1>2. Mounting(t)
  BY <1>1 DEF Mounting
<1>3. \A u \in Thread : u # t => stack[u] = <<>>
  BY <1>2 DEF Rest, Lone
<1>4. InAttach => Entering(stack[t][1])
  <2> SUFFICES ASSUME NEW u \in Thread, NEW i \in 1 .. Len(stack[u]), Entering(stack[u][i])
               PROVE  Entering(stack[t][1])
    BY DEF InAttach
  <2>1. CASE u = t
    BY <1>1, <2>1
  <2>2. CASE u # t
    <3>1. Len(stack[u]) = 0
      BY <1>3, <2>2
    <3> QED
      BY <3>1
  <2> QED
    BY <2>1, <2>2
<1> QED
  BY <1>1, <1>3, <1>4

LEMMA RegisterRest ==
  ASSUME Base, Rest, NEW t \in Thread, Register(t)
  PROVE  Rest'
<1>1. /\ stack[t] # <<>> /\ stack[t][1].op = "attach" /\ stack[t][1].pc = "register"
      /\ stack[t][1].fs \in Driver
  BY RegisterBase
<1>2. \A u \in Thread : u # t => stack[u] = <<>>
  BY <1>1, AloneInside
<1>3. ~InAttach
  BY <1>1, AloneInside DEF Entering
<1>4. \A d \in Driver : (drivers = d) <=> Listed(d)
  BY <1>3 DEF Rest, Registry
<1>5. CASE stack'[t] = <<>> /\ Others(t) /\ UNCHANGED <<registry, fs, fsid, history>>
  <2>1. \A u \in Thread : stack'[u] = <<>>
    BY <1>2, <1>5 DEF Others
  <2>2. drivers' = drivers /\ volume' = volume /\ attached' = attached /\ num' = num /\ fs' = fs /\ nested' = nested
    BY <1>5 DEF registry, history
  <2>3. \A d \in Driver : (drivers' = d) <=> Listed(d)'
    BY <1>4, <2>2 DEF Listed
  <2> QED
    BY <2>1, <2>2, <2>3, EmptyRest DEF Rest, Volumes
<1>6. CASE /\ drivers = None /\ UNCHANGED <<attached, num, history>>
           /\ drivers' = stack[t][1].fs /\ volume' = stack[t][1].fs
           /\ \A x \in Driver : fs'[x].mounted => fs[x].mounted /\ x # stack[t][1].fs /\ x # volume
           /\ \E g : SwapStep(t, g) /\ g.op = "attach" /\ g.pc = "mount" /\ g.fs = stack[t][1].fs
  <2>1. PICK g : SwapStep(t, g) /\ g.op = "attach" /\ g.pc = "mount" /\ g.fs = stack[t][1].fs
    BY <1>6
  <2>2. \A x \in Driver : ~fs'[x].mounted
    BY <1>6 DEF Rest, Volumes
  <2>3. \A d \in Driver : ~Listed(d)'
    BY <1>4, <1>6, ThreadsAssumption DEF Listed
  <2>4. Len(stack'[t]) = 1 /\ stack'[t][1] = g /\ stack'[t] \in Seq(Calls)
    BY <1>1, <2>1, AloneInside DEF SwapStep, Swapped
  <2>5. \A u \in Thread : u # t => stack'[u] = <<>>
    BY <1>2, <2>1 DEF SwapStep, Others
  <2>6. \A u \in Thread : u # t => Len(stack'[u]) = 0 /\ DOMAIN stack'[u] = {}
    BY <2>5
  <2>14. 1 .. Len(stack'[t]) = {1} /\ 2 .. Len(stack'[t]) = {}
    BY <2>4
  <2>15. \A u \in Thread : u # t => 1 .. Len(stack'[u]) = {} /\ 2 .. Len(stack'[u]) = {}
    BY <2>6
  <2>7. \A u \in Thread : \A i \in 1 .. Len(stack'[u]) : u = t /\ i = 1 /\ stack'[u][i] = g
    BY <2>4, <2>14, <2>15
  <2>8. Lone'
    BY <2>5, <2>6 DEF Lone, Mounting
  <2>9. LogsLast'
    <3>1. \A u \in Thread : 2 .. Len(stack'[u]) = {}
      BY <2>14, <2>15
    <3> QED
      BY <3>1 DEF LogsLast
  <2>10. Volumes'
    BY <1>6, <2>1, <2>2, <2>7 DEF Volumes, OnVolume
  <2>11. InAttach'
    <3>1. 1 \in 1 .. Len(stack'[t]) /\ Entering(stack'[t][1])
      BY <2>1, <2>4 DEF Entering
    <3> QED
      BY <3>1 DEF InAttach, Entering
  <2>12. Registry'
    <3>1. \A u \in Thread : \A i \in 1 .. Len(stack'[u]) :
            /\ Entering(stack'[u][i]) => drivers' = stack'[u][i].fs /\ \A d \in Driver : ~Listed(d)'
            /\ stack'[u][i].op # "detach"
      BY <1>6, <2>1, <2>3, <2>7
    <3> QED
      BY <2>2, <2>11, <3>1 DEF Registry, Entering
  <2>13. FreshFrom'
    <3>1. \A u \in Thread : stack'[u] # <<>> => u = t /\ Top(u)' = g
      BY <2>4, <2>5 DEF Top
    <3> QED
      BY <2>1, <3>1 DEF FreshFrom
  <2> QED
    BY <2>8, <2>9, <2>10, <2>12, <2>13 DEF Rest
<1> QED
  BY <1>5, <1>6, RegisterBase

LEMMA RegisteredRest ==
  ASSUME Base, Rest, NEW t \in Thread, Registered(t)
  PROVE  Rest'
<1> DEFINE f == stack[t][1]
<1>1. /\ stack[t] # <<>> /\ f.op = "attach" /\ f.pc \in {"served", "refused"}
      /\ f.fs \in Driver /\ Top(t) = f /\ 1 \in 1 .. Len(stack[t])
  BY RegisteredBase
<1>2. stack'[t] = <<>> /\ Others(t) /\ volume' = volume /\ fs' = fs /\ nested' = nested
  BY RegisteredBase DEF history
<1>3. \A u \in Thread : stack'[u] = <<>>
  BY <1>1, <1>2, AloneInside DEF Others
<1>4. drivers = f.fs /\ \A d \in Driver : ~Listed(d)
  BY <1>1 DEF Entering, Rest, Registry
<1>5. f.fs # None
  BY <1>1, ThreadsAssumption
<1>6. \A d \in Driver : fs'[d].mounted => volume' = d
  BY <1>2 DEF Rest, Volumes
<1>7. attached \in [Driver -> BOOLEAN] /\ num \in [Driver -> {0, NotAttached}]
  BY DEF Base, TypeOK
<1> HIDE DEF f
<1>8. CASE f.pc = "served"
  <2>1. /\ drivers' = drivers /\ attached' = [attached EXCEPT ![f.fs] = TRUE]
        /\ num' = [num EXCEPT ![f.fs] = 0]
    BY <1>8, RegisteredBase DEF f
  <2>2. \A d \in Driver : Listed(d)' <=> (d = f.fs)
    BY <1>1, <1>4, <1>7, <2>1 DEF Listed, NotAttached
  <2>3. volume' = drivers'
    BY <1>2, <1>4, <1>5, <2>1 DEF Rest, Volumes
  <2> QED
    BY <1>3, <1>4, <1>5, <1>6, <2>1, <2>2, <2>3, EmptyRest
<1>9. CASE f.pc = "refused"
  <2>1. drivers' = None /\ num' = num /\ attached' = [attached EXCEPT ![f.fs] = FALSE]
    BY <1>9, RegisteredBase DEF f
  <2>2. \A d \in Driver : ~Listed(d)'
    BY <1>1, <1>4, <1>7, <2>1 DEF Listed
  <2>3. nested' \/ \A d \in Driver : ~fs'[d].mounted
    BY <1>1, <1>2, <1>9 DEF Rest, Registry, Barren
  <2> QED
    BY <1>3, <1>6, <2>1, <2>2, <2>3, ThreadsAssumption, EmptyRest
<1> QED
  BY <1>1, <1>8, <1>9

LEMMA DetachRest ==
  ASSUME Base, Rest, NEW t \in Thread, Detach(t)
  PROVE  Rest'
<1> DEFINE f == stack[t][1]
<1>1. stack[t] # <<>> /\ f.op = "detach" /\ f.fs \in Driver /\ 1 \in 1 .. Len(stack[t])
  BY DetachBase
<1>2. stack'[t] = <<>> /\ Others(t) /\ attached' = attached
  BY DetachBase
<1>3. \A u \in Thread : stack'[u] = <<>>
  BY <1>1, <1>2, AloneInside DEF Others
<1>4. drivers = f.fs /\ \A d \in Driver : (drivers = d) <=> Listed(d)
  BY <1>1, AloneInside DEF Entering, Rest, Registry
<1>5. num \in [Driver -> {0, NotAttached}]
  BY DEF Base, TypeOK
<1>6. /\ volume' = None /\ drivers' = None /\ num' = [num EXCEPT ![f.fs] = NotAttached]
      /\ \A x \in Driver : fs'[x].mounted => fs[x].mounted /\ x # volume
  BY <1>1, <1>4, DetachBase DEF Listed
<1>7. \A x \in Driver : ~fs'[x].mounted
  BY <1>6 DEF Rest, Volumes
<1> HIDE DEF f
<1>8. \A d \in Driver : ~Listed(d)'
  BY <1>1, <1>2, <1>4, <1>5, <1>6 DEF Listed
<1> QED
  BY <1>3, <1>6, <1>7, <1>8, ThreadsAssumption, EmptyRest

LEMMA StillRest ==
  ASSUME Rest, UNCHANGED <<registry, fs, stack, history>>
  PROVE  Rest'
<1>1. Lone' /\ LogsLast'
  BY DEF Rest, Lone, LogsLast, Mounting, history
<1>2. Volumes'
  BY DEF Rest, Volumes, OnVolume, registry, history
<1>3. Registry'
  BY DEF Rest, Registry, Entering, InAttach, Listed, Barren, Top, registry, history
<1>4. FreshFrom'
  BY DEF Rest, FreshFrom, Fresh, Top, registry, history
<1> QED
  BY <1>1, <1>2, <1>3, <1>4 DEF Rest


-----------------------------------------------------------------------------
(* The theorems.                                                           *)

LEMMA StartsSound == Init => IInv
<1> SUFFICES ASSUME Init PROVE IInv
  OBVIOUS
<1>1. TypeOK
  <2>1. Free \in Mutex /\ Free.owner = None /\ Free.depth = 0
    BY DEF Free, Mutex
  <2>2. stack \in [Thread -> Seq(Calls)]
    <3>1. <<>> \in Seq(Calls)
      OBVIOUS
    <3> QED
      BY <3>1 DEF Init
  <2>3. fs \in [Driver -> [mounted : BOOLEAN, id : Nat]] /\ fsid \in Nat
    BY DEF Init
  <2>4. /\ drivers \in Driver \cup {None} /\ volume \in Driver \cup {None}
        /\ attached \in [Driver -> BOOLEAN] /\ num \in [Driver -> {0, NotAttached}]
        /\ ready \in [Driver -> BOOLEAN] /\ file \in [Thread -> Object \cup {None}]
        /\ nested \in BOOLEAN /\ slipped \in BOOLEAN
    BY DEF Init
  <2>5. grant = Free /\ handler = Free
    BY DEF Init
  <2> QED
    BY <2>1, <2>2, <2>3, <2>4, <2>5 DEF TypeOK
<1>2. \A t \in Thread : stack[t] = <<>> /\ Len(stack[t]) = 0 /\ DOMAIN stack[t] = {}
  BY DEF Init
<1>3. \A t \in Thread : 1 .. Len(stack[t]) = {} /\ 2 .. Len(stack[t]) = {}
  BY <1>2
<1>4. StacksGood
  BY <1>1, <1>2, <1>3 DEF StacksGood, GoodStack, TypeOK
<1>5. LocksBalanced
  <2>1. ASSUME NEW t \in Thread PROVE Entered(stack[t]) = {} /\ Logging(stack[t]) = {}
    BY <1>2 DEF Entered, Logging
  <2>2. \A t \in Thread : Held(grant, t) = 0 /\ Held(handler, t) = 0
    BY DEF Init, Free, Held
  <2> QED
    BY <2>1, <2>2, FS_EmptySet DEF LocksBalanced, Held
<1>6. Lone /\ LogsLast /\ FreshFrom
  BY <1>2, <1>3 DEF Lone, LogsLast, FreshFrom
<1>7. Volumes
  BY <1>3 DEF Volumes, Init
<1>8. Registry
  BY <1>2, <1>3, ThreadsAssumption DEF Registry, Init, Listed
<1> QED
  BY <1>1, <1>4, <1>5, <1>6, <1>7, <1>8 DEF IInv, Base, Rest

LEMMA StepsSound == IInv /\ [Next]_vars => IInv'
<1> SUFFICES ASSUME Base, Rest, [Next]_vars PROVE Base' /\ Rest'
  BY DEF IInv
<1>1. ASSUME NEW t \in Thread,
             FindVolume(t) \/ Validate(t) \/ Enter(t) \/ Work(t) \/ Leave(t) \/ LogLock(t) \/ LogCall(t)
             \/ LogDone(t) \/ MountNow(t) \/ LogInside(t) \/ Calling(t)
      PROVE  Base' /\ Rest'
  <2>1. Base'
    BY <1>1, FindVolumeBase, ValidateBase, EnterBase, WorkBase, LeaveBase, LogLockBase, LogCallBase,
       LogDoneBase, MountNowBase, LogInsideBase, CallingBase
  <2>2. Rest'
    BY <1>1, QuietActions
  <2> QED
    BY <2>1, <2>2
<1>2. ASSUME NEW t \in Thread, CheckVolume(t) \/ InitVolume(t) PROVE Base' /\ Rest'
  BY <1>2, CheckVolumeBase, InitVolumeBase, CheckVolumeRest, InitVolumeRest
<1>3. ASSUME NEW t \in Thread, Register(t) \/ Registered(t) \/ Detach(t) PROVE Base' /\ Rest'
  BY <1>3, RegisterBase, RegisteredBase, DetachBase, RegisterRest, RegisteredRest, DetachRest
<1>4. ASSUME NEW d \in Driver, DriveLost(d) PROVE Base' /\ Rest'
  <2>1. UNCHANGED <<registry, fs, stack, history>>
    BY <1>4 DEF DriveLost
  <2> QED
    BY <1>4, <2>1, DriveLostBase, StillRest
<1>5. CASE UNCHANGED vars
  <2>1. UNCHANGED <<registry, fs, stack, history>>
    BY <1>5 DEF vars, registry, history
  <2> QED
    BY <1>5, <2>1, StutterBase, StillRest
<1>6. CASE Next
  <2>1. ASSUME NEW t \in Thread, Step(t) PROVE Base' /\ Rest'
    BY <1>1, <1>2, <1>3, <2>1 DEF Step
  <2>2. ASSUME NEW t \in Thread, LogInside(t) \/ Calling(t) PROVE Base' /\ Rest'
    BY <1>1, <2>2
  <2> QED
    BY <1>4, <1>6, <2>1, <2>2 DEF Next, Calling
<1> QED
  BY <1>5, <1>6

\* In every reachable state the stacks are well formed, the mutexes balanced, the
\* registry and FatFs[0] in agreement and the objects of calls that work fresh.
THEOREM Invariant == Spec => []IInv
<1> QED
  BY StartsSound, StepsSound, PTL DEF Spec

\* The types, and a mutex has an owner exactly while it is locked (lock_fs, unlock_fs).
THEOREM TypeCorrect == Spec => []TypeOK
<1>1. IInv => TypeOK
  BY DEF IInv, Base
<1> QED
  BY <1>1, Invariant, PTL

\* ENTER_FF and LEAVE_FF pair up on every path out of every call, the calls of the
\* log inside another call included.
THEOREM LocksBalance == Spec => []LocksBalanced
<1>1. IInv => LocksBalanced
  BY DEF IInv, Base
<1> QED
  BY <1>1, Invariant, PTL

\* A call on an open object works on the mount it was opened on, unless a mount came
\* between validate and the lock or a message was logged inside a call.
THEOREM FreshObjects == Spec => []ObjectsFresh
<1>1. IInv => ObjectsFresh
  <2> SUFFICES ASSUME IInv, ~slipped, ~nested,
                      NEW t \in Thread, At(t, "work"), Top(t).op = "file"
               PROVE  volume = Top(t).obj.fs /\ fs[Top(t).obj.fs] = [mounted |-> TRUE, id |-> Top(t).obj.id]
    BY DEF ObjectsFresh
  <2> DEFINE o == Top(t).obj
  <2>1. stack[t] # <<>> /\ GoodCall(Top(t))
    BY TopIs DEF At, IInv
  <2>2. o \in Object
    BY <2>1 DEF GoodCall, Filled
  <2>3. Fresh(o)
    BY <2>1 DEF IInv, Rest, FreshFrom, At
  <2> HIDE DEF o
  <2>4. fs[o.fs] \in [mounted : BOOLEAN, id : Nat]
    BY <2>2 DEF IInv, Base, TypeOK, Object
  <2>5. volume = o.fs /\ fs[o.fs] = [mounted |-> TRUE, id |-> o.id]
    BY <2>3, <2>4 DEF Fresh
  <2> QED
    BY <2>5 DEF o
<1> QED
  BY <1>1, Invariant, PTL

\* Between calls of attach and detach the driver registered, the one driveNumber()
\* tells and the volume in FatFs[0] agree.
THEOREM Serves == Spec => []AttachedServes
<1>1. IInv => AttachedServes
  <2> SUFFICES ASSUME IInv, \A t \in Thread : ~Mounting(t)
               PROVE  /\ \A d \in Driver : fs[d].mounted => volume = d /\ (drivers = d \/ nested)
                      /\ \A d \in Driver : (drivers = d) <=> (attached[d] /\ num[d] # NotAttached)
    BY DEF AttachedServes
  <2>1. ~InAttach
    <3>1. \A t \in Thread : \A i \in 1 .. Len(stack[t]) : ~Entering(stack[t][i])
      BY DEF Mounting, Entering, IInv, Base, TypeOK
    <3> QED
      BY <3>1 DEF InAttach
  <2>2. \A d \in Driver : (drivers = d) <=> Listed(d)
    BY <2>1 DEF IInv, Rest, Registry
  <2>3. \A d \in Driver : fs[d].mounted => volume = d /\ (drivers = d \/ nested)
    BY DEF IInv, Rest, Volumes, Base, TypeOK
  <2> QED
    BY <2>2, <2>3 DEF Listed
<1> QED
  BY <1>1, Invariant, PTL

=============================================================================
