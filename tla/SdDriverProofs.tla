--------------------------- MODULE SdDriverProofs ---------------------------
(***************************************************************************)
(* Proofs about SdDriver, for any cards, sector counts, transfer lengths   *)
(* and settings of the detection pins.  The theorems are of Spec, so they  *)
(* need no fairness.  The inductive invariant has four parts:              *)
(*                                                                         *)
(*   TypeOK   with what the place of a call says of the call (Shape);      *)
(*   Bus      who holds the SPI mutex, and the flags that go with it;      *)
(*   Known    what the driver knows of a card that answers;                *)
(*   Written  what a write() in progress has sent so far.                  *)
(***************************************************************************)
EXTENDS SdDriver, SequenceTheorems, TLAPS

Outside == {"idle", "gap", "relock"}
InWrite == {"single", "multi", "blocks", "stop", "writeEnd"}

\* The places of read(), write(), ioctl() and initialize().
Shape ==
  /\ pc = "idle" => call = NoCall
  /\ pc \in {"read", "gap", "relock"} => call.op = "read"
  /\ pc \in InWrite => call.op = "write"
  /\ pc \notin InWrite => call.op # "write"
  /\ pc # "idle" => ret.op # "write"

\* Between lock() and unlock() the mutex is held once, the bus is configured,
\* and no busy check finds the driver idle before the nested lock_guard of
\* CTRL_ERASE_SECTOR has cleared _busy, after which no block is transferred.
Bus ==
  /\ LockBalanced
  /\ OwnSettings
  /\ BusyNoticed
  /\ pc \notin Outside \cup {"ioctl"} => busy
  /\ busy => busyCheck

\* A card that answers was identified as what it is, or not at all.
Known == Answers => ctype \in {{}, {Kind[card]}}

\* The blocks are consecutive ones of one card, from address a on, and the driver
\* has not taken that card for one of another kind.
InOrder(blocks, a) ==
  \A i \in 1 .. Len(blocks) :
    LET c == blocks[1][1]
    IN  /\ c \in Cards /\ ctype \in {{}, {Kind[c]}}
        /\ blocks[i] = <<c, Reach(c, a) + i - 1>>

\* A write() knows that the switch was off, its blocks are in order, and those
\* sent make up n with those left, as long as none was refused.
Written ==
  call.op = "write" =>
    /\ ~call.wp /\ call.n > 0
    /\ call.addr = Address(call.sector)
    /\ InOrder(call.blocks, call.addr)
    /\ pc = "single" => call.n = 1
    /\ pc \in {"single", "multi"} => call.blocks = << >> /\ call.left = call.n
    /\ pc \in {"single", "multi", "blocks"} => call.left > 0
    /\ pc = "blocks" => Len(call.blocks) + call.left = call.n
    /\ pc \in {"stop", "writeEnd"} /\ call.left = 0 => Len(call.blocks) = call.n
    /\ pc = "blocks" /\ Answers /\ call.blocks # << >> => call.blocks[1][1] = card

IInv == TypeOK /\ Shape /\ Bus /\ Known /\ Written /\ WriteOkMeansWritten

-----------------------------------------------------------------------------
(* The record of the call in progress.                                     *)

\* The argument of a command is a DWORD, and a byte address that fits in one is
\* that of its sector.
LEMMA AddressIs ==
  ASSUME NEW s \in Nat, s < Word
  PROVE  /\ Address(s) \in 0 .. Word - 1
         /\ ctype = {"SDHC"} => Address(s) = s
         /\ ctype # {"SDHC"} /\ s * 512 < Word => Address(s) = s * 512 /\ (s * 512) \div 512 = s
<1>1. Word \in Nat \ {0} /\ s < Word
  BY DriverAssumption
<1> DEFINE b == s * 512
<1>2. b \in Nat /\ b \div 512 = s
  OBVIOUS
<1> HIDE DEF b
<1>3. b % Word \in 0 .. Word - 1 /\ (b < Word => b % Word = b)
  BY <1>1, <1>2
<1> QED
  BY <1>1, <1>2, <1>3 DEF Address, b

\* A call that starts is well typed.
LEMMA NewCallTyped ==
  ASSUME NEW o \in Ops, NEW s \in Nat, NEW n \in Nat, s < Word
  PROVE  /\ NewCall(o, s, n) \in CallType
         /\ NewCall(o, s, n).op = o
         /\ NewCall(o, s, n).sector = s
         /\ NewCall(o, s, n).addr = Address(s)
         /\ NewCall(o, s, n).n = n
         /\ NewCall(o, s, n).left = n
         /\ NewCall(o, s, n).blocks = << >>
         /\ NewCall(o, s, n).wp = WriteProtected
<1>1. WriteProtected \in BOOLEAN /\ Address(s) \in 0 .. Word - 1
  BY AddressIs DEF WriteProtected
<1>2. << >> \in Seq(Blocks) /\ {} \in SUBSET Flags
  OBVIOUS
<1> QED
  BY <1>1, <1>2 DEF NewCall, CallType

\* No call at all is well typed too.
LEMMA NoCallTyped ==
  /\ NoCall \in CallType /\ NoRet \in RetType
  /\ NoCall.op = "none" /\ NoCall.sector = 0 /\ NoCall.n = 0 /\ NoCall.left = 0
  /\ NoRet.op = "none"
<1>1. "none" \in Ops /\ << >> \in Seq(Blocks) /\ {} \in SUBSET Flags /\ 0 \in 0 .. Word - 1
  BY DriverAssumption DEF Ops
<1> QED
  BY <1>1 DEF NoCall, NoRet, CallType, RetType

\* The call ends in failure: a transfer is left.
LEMMA FailedTyped ==
  ASSUME NEW c \in CallType
  PROVE  LET d == [c EXCEPT !.left = 1]
         IN  /\ d \in CallType
             /\ d.left = 1 /\ d.blocks = c.blocks
             /\ d.op = c.op /\ d.sector = c.sector /\ d.addr = c.addr /\ d.n = c.n /\ d.wp = c.wp
  BY DEF CallType

\* The driver remembers a value of _status.
LEMMA TmpTyped ==
  ASSUME NEW c \in CallType, NEW t \in SUBSET Flags
  PROVE  LET d == [c EXCEPT !.tmp = t]
         IN  /\ d \in CallType
             /\ d.left = c.left /\ d.blocks = c.blocks
             /\ d.op = c.op /\ d.sector = c.sector /\ d.addr = c.addr /\ d.n = c.n /\ d.wp = c.wp
  BY DEF CallType

\* What is remembered of a call that returns.
LEMMA OutcomeTyped ==
  ASSUME NEW c \in CallType, NEW res
  PROVE  Outcome(c, res) \in RetType
  BY NoCallTyped DEF Outcome, CallType, RetType

-----------------------------------------------------------------------------
(* The bus.                                                                *)

\* No step leaves the mutex, the bus settings or the busy flags in disorder.
LEMMA BusStep == IInv /\ [Next]_vars => Bus'
<1> SUFFICES ASSUME IInv, [Next]_vars PROVE Bus'
  OBVIOUS
<1>t. /\ active \in {"low", "high"} /\ spi \in {"low", "high", "other"}
      /\ depth \in 0 .. 2 /\ other \in BOOLEAN
      /\ busy \in BOOLEAN /\ busyCheck \in BOOLEAN /\ accessed \in BOOLEAN
      /\ Bus
  BY DEF IInv, TypeOK
<1> USE <1>t DEF Bus, LockBalanced, OwnSettings, BusyNoticed, Outside
<1>1. CASE Initialize
  <2>1. CASE InitializeBegin
    BY <2>1 DEF InitializeBegin, Enter, Lock, envVars
  <2>2. CASE InitPresence
    <3>1. CASE ~CardPresent /\ InitReturns("NODISK")
      <4>1. Unlock /\ pc' \in {"relock", "idle"}
        BY <3>1 DEF InitReturns, Return
      <4> QED
        BY <2>2, <4>1 DEF InitPresence, Unlock, envVars
    <3>2. CASE pc' = "initCard" /\ UNCHANGED <<busVars, call, ret>>
      BY <2>2, <3>2 DEF InitPresence, busVars, envVars
    <3> QED
      BY <2>2, <3>1, <3>2 DEF InitPresence
  <2>3. CASE InitCard
    BY <2>3 DEF InitCard, busVars
  <2>4. CASE InitStatus
    BY <2>4 DEF InitStatus, busVars, envVars
  <2>5. CASE InitProtect
    <3>1. Unlock /\ pc' \in {"relock", "idle"}
      BY <2>5 DEF InitProtect, InitReturns, Return
    <3> QED
      BY <2>5, <3>1 DEF InitProtect, Unlock, envVars
  <2> QED
    BY <1>1, <2>1, <2>2, <2>3, <2>4, <2>5 DEF Initialize
<1>2. CASE Read
  <2>1. ASSUME NEW s \in Sectors, NEW n \in 1 .. MaxCount, ReadBegin(s, n) PROVE Bus'
    BY <2>1 DEF ReadBegin, Refuse, Enter, Lock, envVars
  <2>2. CASE ReadBlock
    BY <2>2 DEF ReadBlock, busVars, envVars
  <2>3. CASE ReadRefused
    BY <2>3 DEF ReadRefused, Unlock, envVars
  <2>4. CASE ReadReinit
    BY <2>4 DEF ReadReinit, Lock, envVars
  <2>5. CASE ReadRelock
    BY <2>5 DEF ReadRelock, Lock, envVars
  <2>6. CASE ReadEnd
    BY <2>6 DEF ReadEnd, Return, Unlock, envVars
  <2> QED
    BY <1>2, <2>1, <2>2, <2>3, <2>4, <2>5, <2>6 DEF Read
<1>3. CASE Write
  <2>1. ASSUME NEW s \in Sectors, NEW n \in 1 .. MaxCount, WriteBegin(s, n) PROVE Bus'
    BY <2>1 DEF WriteBegin, Refuse, Enter, Lock, envVars
  <2>2. CASE WriteSingle
    BY <2>2 DEF WriteSingle, busVars, envVars
  <2>3. CASE WriteMulti
    BY <2>3 DEF WriteMulti, busVars, envVars
  <2>4. CASE WriteBlock
    BY <2>4 DEF WriteBlock, busVars, envVars
  <2>5. CASE WriteStop
    BY <2>5 DEF WriteStop, busVars, envVars
  <2>6. CASE WriteEnd
    BY <2>6 DEF WriteEnd, Return, Unlock, envVars
  <2> QED
    BY <1>3, <2>1, <2>2, <2>3, <2>4, <2>5, <2>6 DEF Write
<1>4. CASE Ioctl
  <2>1. ASSUME NEW cmd, IoctlBegin(cmd) PROVE Bus'
    BY <2>1 DEF IoctlBegin, Refuse, Enter, Lock, envVars
  <2>2. CASE EraseNested
    BY <2>2 DEF EraseNested, envVars
  <2>3. CASE IoctlEnd
    BY <2>3 DEF IoctlEnd, Return, Unlock, envVars
  <2> QED
    BY <1>4, <2>1, <2>2, <2>3 DEF Ioctl
<1>5. CASE Status
  BY <1>5 DEF Status, StatusLoad, StatusStore, busVars, envVars
<1>6. CASE Environment
  BY <1>6 DEF Environment, RemoveCard, ToggleWp, OtherTakes, OtherGives, InsertCard,
              WasBusySinceLastCheck, busVars, envVars
<1>7. CASE UNCHANGED vars
  BY <1>7 DEF vars
<1> QED
  BY <1>1, <1>2, <1>3, <1>4, <1>5, <1>6, <1>7 DEF Next

-----------------------------------------------------------------------------
(* Types.                                                                  *)

\* The variables of the card, of the status byte and of the pins.
FlagsTyped ==
  /\ card \in Cards \cup {NoCard} /\ up \in BOOLEAN /\ wp \in BOOLEAN
  /\ status \subseteq Flags
  /\ ctype \in {{}} \cup {{Kind[c]} : c \in Cards}
  /\ active \in {"low", "high"}
  /\ stat \in [on : BOOLEAN, val : SUBSET Flags]

\* The variables of the bus.
BusTyped ==
  /\ spi \in {"low", "high", "other"}
  /\ depth \in 0 .. 2 /\ other \in BOOLEAN
  /\ busy \in BOOLEAN /\ busyCheck \in BOOLEAN /\ accessed \in BOOLEAN

\* The variables of the call.
CallTyped ==
  /\ pc \in Outside \cup InWrite \cup {"initBegin", "initCard", "initStatus", "initProtect",
                                       "read", "erase", "ioctl"}
  /\ call \in CallType /\ call.sector < Word
  /\ call.left <= call.n /\ call.n <= MaxCount
  /\ ret \in RetType

LEMMA TypeParts == TypeOK <=> FlagsTyped /\ BusTyped /\ CallTyped
  BY DEF TypeOK, FlagsTyped, BusTyped, CallTyped, Outside, InWrite

\* No step gives the card, the status byte or status() a value they cannot have.
LEMMA FlagsStep == IInv /\ [Next]_vars => FlagsTyped'
<1> SUFFICES ASSUME IInv, [Next]_vars PROVE FlagsTyped'
  OBVIOUS
<1>1. /\ FlagsTyped /\ call.tmp \in SUBSET Flags
  BY TypeParts DEF IInv, CallTyped, CallType
<1> USE <1>1 DEF FlagsTyped
<1>2. NoInit \in Flags /\ NoDisk \in Flags /\ Protect \in Flags
  BY DEF Flags
<1>3. CASE Initialize
  <2>1. CASE InitializeBegin
    BY <2>1 DEF InitializeBegin, envVars
  <2>2. CASE InitPresence
    BY <2>2 DEF InitPresence, envVars
  <2>3. CASE InitCard
    <3>1. /\ status' = status /\ card' = card /\ wp' = wp /\ active' = active /\ stat' = stat
          /\ up' \in BOOLEAN
      BY <2>3 DEF InitCard
    <3>2. ctype' \in {{}} \cup {{Kind[c]} : c \in Cards}
      BY <2>3 DEF InitCard, CardTypes
    <3> QED
      BY <3>1, <3>2
  <2>4. CASE InitStatus
    BY <2>4, <1>2 DEF InitStatus, envVars
  <2>5. CASE InitProtect
    BY <2>5, <1>2 DEF InitProtect, envVars
  <2> QED
    BY <1>3, <2>1, <2>2, <2>3, <2>4, <2>5 DEF Initialize
<1>4. CASE Read
  BY <1>4 DEF Read, ReadBegin, ReadBlock, ReadRefused, ReadReinit, ReadRelock, ReadEnd, envVars
<1>5. CASE Write
  BY <1>5 DEF Write, WriteBegin, WriteSingle, WriteMulti, WriteBlock, WriteStop, WriteEnd, envVars
<1>6. CASE Ioctl
  BY <1>6 DEF Ioctl, IoctlBegin, EraseNested, IoctlEnd, envVars
<1>7. CASE StatusLoad
  <2>1. (IF ~CardPresent THEN {NoDisk}
         ELSE IF WriteProtected THEN status \cup {Protect}
         ELSE status \ {Protect}) \in SUBSET Flags
    BY <1>2
  <2> QED
    BY <1>7, <2>1 DEF StatusLoad, envVars
<1>8. CASE StatusStore
  <2>1. /\ status' = stat.val /\ stat.val \in SUBSET Flags
        /\ stat' \in [on : BOOLEAN, val : SUBSET Flags]
    BY <1>8 DEF StatusStore
  <2> QED
    BY <1>8, <2>1 DEF StatusStore, envVars
<1>9. CASE Environment
  BY <1>9 DEF Environment, RemoveCard, ToggleWp, OtherTakes, OtherGives, InsertCard,
              WasBusySinceLastCheck, envVars
<1>10. CASE UNCHANGED vars
  BY <1>10 DEF vars
<1> QED
  BY <1>3, <1>4, <1>5, <1>6, <1>7, <1>8, <1>9, <1>10 DEF Next, Status

\* No step gives the bus a configuration it cannot have: the mutex is not taken
\* a third time.
LEMMA BusTypedStep == IInv /\ [Next]_vars => BusTyped'
<1> SUFFICES ASSUME IInv, [Next]_vars PROVE BusTyped'
  OBVIOUS
<1>1. /\ BusTyped /\ active \in {"low", "high"}
      /\ depth = (IF pc \in Outside THEN 0 ELSE 1)
  BY TypeParts DEF IInv, FlagsTyped, Bus, LockBalanced, Outside
<1>a. ASSUME Lock, pc \in Outside, accessed' = accessed, other' = other PROVE BusTyped'
  BY <1>1, <1>a DEF Lock, BusTyped
<1>b. ASSUME Unlock, pc \notin Outside, accessed' = accessed, other' = other PROVE BusTyped'
  <2>1. depth = 1
    BY <1>1, <1>b
  <2>2. depth' \in 0 .. 2
    BY <1>b, <2>1 DEF Unlock
  <2> QED
    BY <1>1, <1>b, <2>2 DEF Unlock, BusTyped
<1>c. ASSUME NEW c, NEW res, Refuse(c, res), accessed' = accessed, other' = other PROVE BusTyped'
  BY <1>1, <1>c DEF Refuse, BusTyped
<1>d. ASSUME UNCHANGED busVars, accessed' \in BOOLEAN, other' = other PROVE BusTyped'
  BY <1>1, <1>d DEF busVars, BusTyped
<1>2. CASE Initialize
  <2>1. CASE InitializeBegin
    BY <2>1, <1>a DEF InitializeBegin, Enter, envVars, Outside
  <2>2. CASE InitPresence
    BY <2>2, <1>b, <1>d, <1>1 DEF InitPresence, InitReturns, Return, busVars, envVars, Outside, BusTyped
  <2>3. CASE InitCard \/ InitStatus
    BY <2>3, <1>d, <1>1 DEF InitCard, InitStatus, envVars, BusTyped
  <2>4. CASE InitProtect
    BY <2>4, <1>b DEF InitProtect, InitReturns, Return, envVars, Outside
  <2> QED
    BY <1>2, <2>1, <2>2, <2>3, <2>4 DEF Initialize
<1>3. CASE Read
  <2>1. ASSUME NEW s \in Sectors, NEW n \in 1 .. MaxCount, ReadBegin(s, n) PROVE BusTyped'
    BY <2>1, <1>a, <1>c DEF ReadBegin, Enter, envVars, Outside
  <2>2. CASE ReadBlock
    BY <2>2, <1>d DEF ReadBlock, envVars
  <2>3. CASE ReadReinit \/ ReadRelock
    BY <2>3, <1>a DEF ReadReinit, ReadRelock, envVars, Outside
  <2>4. CASE ReadRefused \/ ReadEnd
    BY <2>4, <1>b DEF ReadRefused, ReadEnd, Return, envVars, Outside
  <2> QED
    BY <1>3, <2>1, <2>2, <2>3, <2>4 DEF Read
<1>4. CASE Write
  <2>1. ASSUME NEW s \in Sectors, NEW n \in 1 .. MaxCount, WriteBegin(s, n) PROVE BusTyped'
    BY <2>1, <1>a, <1>c DEF WriteBegin, Enter, envVars, Outside
  <2>2. CASE WriteSingle \/ WriteMulti \/ WriteBlock \/ WriteStop
    BY <2>2, <1>d, <1>1 DEF WriteSingle, WriteMulti, WriteBlock, WriteStop, envVars, BusTyped
  <2>3. CASE WriteEnd
    BY <2>3, <1>b DEF WriteEnd, Return, envVars, Outside
  <2> QED
    BY <1>4, <2>1, <2>2, <2>3 DEF Write
<1>5. CASE Ioctl
  <2>1. ASSUME NEW cmd, IoctlBegin(cmd) PROVE BusTyped'
    BY <2>1, <1>a, <1>c DEF IoctlBegin, Enter, envVars, Outside
  <2>2. CASE EraseNested
    BY <2>2, <1>1 DEF EraseNested, envVars, BusTyped
  <2>3. CASE IoctlEnd
    BY <2>3, <1>b DEF IoctlEnd, Return, envVars, Outside
  <2> QED
    BY <1>5, <2>1, <2>2, <2>3 DEF Ioctl
<1>6. CASE Status
  BY <1>6, <1>1 DEF Status, StatusLoad, StatusStore, busVars, envVars, BusTyped
<1>7. CASE Environment
  BY <1>7, <1>1 DEF Environment, RemoveCard, ToggleWp, OtherTakes, OtherGives, InsertCard,
                    WasBusySinceLastCheck, busVars, envVars, BusTyped
<1>8. CASE UNCHANGED vars
  BY <1>8, <1>1 DEF vars, BusTyped
<1> QED
  BY <1>2, <1>3, <1>4, <1>5, <1>6, <1>7, <1>8 DEF Next

-----------------------------------------------------------------------------
(* The call in progress.                                                   *)

CallInv == CallTyped /\ Shape /\ Written /\ WriteOkMeansWritten

\* A step that starts, refuses, leaves alone or ends the call, or only moves it
\* on, keeps what is known of it, given what is known of the place it moves to.
LEMMA Entering ==
  ASSUME CallInv, NEW o \in Ops, NEW s \in Nat, NEW n \in Nat, NEW where,
         s < Word, n <= MaxCount,
         pc' = where, call' = NewCall(o, s, n), ret' = NoRet, ctype' = ctype,
         IF o = "write" THEN ~WriteProtected /\ n > 0 /\ where = (IF n = 1 THEN "single" ELSE "multi")
         ELSE \/ where \in {"initBegin", "erase", "ioctl"}
              \/ where = "read" /\ o = "read"
  PROVE  CallInv'
<1>1. /\ call' \in CallType /\ call'.op = o /\ call'.sector = s /\ call'.n = n /\ call'.left = n
      /\ call'.blocks = << >> /\ call'.wp = WriteProtected /\ call'.addr = Address(s)
  BY NewCallTyped
<1>2. ret' \in RetType /\ ret'.op # "write"
  BY NoCallTyped
<1>3. CallTyped'
  BY <1>1, <1>2 DEF CallTyped, Outside, InWrite
<1>4. Shape'
  BY <1>1, <1>2 DEF Shape, InWrite
<1>5. Written'
  <2>1. Len(call'.blocks) = 0 /\ call'.addr = Address(s)'
    BY <1>1 DEF Address
  <2> QED
    BY <1>1, <2>1 DEF Written, InOrder
<1> QED
  BY <1>2, <1>3, <1>4, <1>5 DEF CallInv, WriteOkMeansWritten

\* A call that returns an error, or that is no write.
LEMMA Returning ==
  ASSUME CallInv, NEW res, Return(res), res # "OK" \/ call.op # "write"
  PROVE  CallInv'
<1>1. /\ call' \in CallType /\ call'.op = "none" /\ call'.sector = 0 /\ call'.n = 0 /\ call'.left = 0
      /\ pc' = "idle" /\ call' = NoCall /\ Word > 0 /\ MaxCount > 0
  BY NoCallTyped, DriverAssumption DEF Return
<1>2. ret' = Outcome(call, res) /\ ret' \in RetType
  BY OutcomeTyped DEF Return, CallInv, CallTyped
<1>3. ret'.op # "write"
  BY <1>2, NoCallTyped DEF Outcome
<1>4. CallTyped'
  BY <1>1, <1>2, DriverAssumption DEF CallTyped, Outside
<1>5. Shape' /\ Written'
  BY <1>1 DEF Shape, Written, InWrite
<1> QED
  BY <1>3, <1>4, <1>5 DEF CallInv, WriteOkMeansWritten

\* A call that is refused leaves nothing but an error.
LEMMA Refusing ==
  ASSUME CallInv, NEW o \in Ops, NEW s \in Nat, NEW n \in Nat, NEW res,
         s < Word, Refuse(NewCall(o, s, n), res), res # "OK", UNCHANGED <<card, up, ctype>>
  PROVE  CallInv'
<1>1. ret' \in RetType /\ ret'.op # "write"
  BY NewCallTyped, OutcomeTyped, NoCallTyped DEF Refuse, Outcome
<1> QED
  BY <1>1 DEF Refuse, CallInv, CallTyped, Shape, Written, InOrder, Address, WriteOkMeansWritten, Answers

\* A block of the inserted card can be sent or read.
LEMMA BlockTyped ==
  ASSUME NEW a \in 0 .. Word - 1, NEW k \in 0 .. MaxCount, FlagsTyped, Answers
  PROVE  /\ Block(a, k) \in Blocks /\ Block(a, k) = <<card, Reach(card, a) + k>>
         /\ card \in Cards /\ Reach(card, a) \in Nat
<1>1. Reach(card, a) \in 0 .. Word - 1
  <2>1. a \div 512 \in 0 .. Word - 1
    BY DriverAssumption
  <2> QED
    BY <2>1 DEF Reach
<1>2. Reach(card, a) + k \in 0 .. Word + MaxCount
  BY <1>1, DriverAssumption
<1>3. card \in Cards
  BY DEF FlagsTyped, Answers
<1> QED
  BY <1>1, <1>2, <1>3 DEF Block, Blocks

\* A block is read: the call is still a read().
LEMMA Reading ==
  ASSUME CallInv, FlagsTyped, ReadBlock
  PROVE  CallInv'
<1> DEFINE l == call.left - 1
           bs == Append(call.blocks, Block(call.addr, 0))
<1>1. /\ call \in CallType /\ call.op = "read" /\ call.sector \in Nat /\ call.n \in Nat
      /\ call.left \in Nat /\ call.left > 0 /\ call.sector < Word /\ call.left <= call.n
      /\ call.blocks \in Seq(Blocks) /\ Word \in Nat /\ MaxCount \in Nat
  BY DriverAssumption DEF CallInv, CallTyped, CallType, Shape, ReadBlock
<1>2. bs \in Seq(Blocks)
  <2>1. call.addr \in 0 .. Word - 1 /\ 0 \in 0 .. MaxCount
    BY <1>1 DEF CallType
  <2> QED
    BY <1>1, <2>1, BlockTyped, AppendProperties DEF ReadBlock
<1>3. l \in Nat /\ l <= call.n
  BY <1>1
<1>4. call' = [call EXCEPT !.left = l, !.blocks = bs] /\ pc' = pc /\ ret' = ret /\ pc = "read" /\ ctype' = ctype
  BY DEF ReadBlock, envVars, busVars
<1> HIDE DEF l, bs
<1>5. /\ call' \in CallType /\ call'.left = l /\ call'.op = "read"
      /\ call'.sector = call.sector /\ call'.n = call.n
  BY <1>1, <1>2, <1>3, <1>4 DEF CallType
<1> QED
  BY <1>1, <1>3, <1>4, <1>5 DEF CallInv, CallTyped, Shape, Written, WriteOkMeansWritten, InWrite, Outside

\* write(): one block, several, the end of the transfer.
LEMMA Writing ==
  ASSUME CallInv, FlagsTyped, Known, WriteSingle \/ WriteMulti \/ WriteBlock \/ WriteStop
  PROVE  CallInv'
<1>1. /\ call \in CallType /\ call.op = "write" /\ call.sector \in Nat /\ call.n \in Nat
      /\ call.left \in Nat /\ call.sector < Word /\ call.left <= call.n /\ call.n <= MaxCount
      /\ call.blocks \in Seq(Blocks) /\ Word \in Nat /\ MaxCount \in Nat
      /\ pc \in {"single", "multi", "blocks", "stop"} /\ Written /\ ret \in RetType
      /\ call.addr \in 0 .. Word - 1 /\ call.addr = Address(call.sector) /\ ret.op # "write"
  BY DriverAssumption DEF CallInv, CallTyped, CallType, Shape, InWrite,
                          WriteSingle, WriteMulti, WriteBlock, WriteStop, Written
<1>2. ret' = ret /\ card' = card /\ up' = up /\ ctype' = ctype
  BY DEF WriteSingle, WriteMulti, WriteBlock, WriteStop, envVars
<1>3. ASSUME pc' \in InWrite, Written', call' \in CallType, call'.op = "write",
             call'.sector = call.sector, call'.n = call.n, call'.left <= call.n
      PROVE  CallInv'
  BY <1>1, <1>2, <1>3 DEF CallInv, CallTyped, Shape, WriteOkMeansWritten, InWrite
<1>a. ASSUME NEW blocks, InOrder(blocks, call.addr), call'.blocks = blocks, call'.addr = call.addr, call'.sector = call.sector
      PROVE  InOrder(call.blocks, call.addr)' /\ call'.addr = Address(call.sector)'
  <2>1. InOrder(call.blocks, call.addr)'
    BY <1>2, <1>a DEF InOrder, Reach
  <2>2. call'.addr = Address(call.sector)'
    BY <1>1, <1>2, <1>a DEF Address
  <2> QED
    BY <2>1, <2>2
<1>b. InOrder(call.blocks, call.addr) /\ ~call.wp /\ call.n > 0
  BY <1>1 DEF Written
<1>4. CASE WriteSingle
  <2>1. pc = "single" /\ pc' = "writeEnd" /\ call.n = 1 /\ call.left = call.n /\ call.blocks = << >>
    BY <1>1, <1>4 DEF WriteSingle, Written
  <2>2. CASE Answers /\ call' = [call EXCEPT !.left = 0, !.blocks = << Block(call.addr, 0) >>]
    <3> DEFINE b == Block(call.addr, 0)
               bs == << b >>
    <3>0. b \in Blocks /\ b = <<card, Reach(card, call.addr) + 0>> /\ card \in Cards /\ Reach(card, call.addr) \in Nat
      BY <1>1, <2>2, BlockTyped
    <3>a. ctype \in {{}, {Kind[card]}}
      BY <2>2 DEF Known
    <3>b. call' = [call EXCEPT !.left = 0, !.blocks = bs]
      BY <2>2
    <3> HIDE DEF b
    <3>1. bs \in Seq(Blocks) /\ Len(bs) = 1 /\ bs[1] = b
      BY <3>0
    <3>2. InOrder(bs, call.addr)
      BY <3>0, <3>a, <3>1 DEF InOrder
    <3> HIDE DEF bs
    <3>3. /\ call' \in CallType /\ call'.left = 0 /\ call'.blocks = bs /\ call'.op = "write"
          /\ call'.sector = call.sector /\ call'.addr = call.addr /\ call'.n = call.n /\ call'.wp = call.wp
      BY <1>1, <3>1, <3>b DEF CallType
    <3>4. Written'
      BY <1>1, <1>2, <1>a, <1>b, <2>1, <3>1, <3>2, <3>3 DEF Written
    <3> QED
      BY <1>1, <1>3, <2>1, <3>3, <3>4 DEF InWrite
  <2>3. CASE UNCHANGED call
    <3>1. Written'
      BY <1>1, <1>2, <1>a, <1>b, <2>1, <2>3 DEF Written
    <3> QED
      BY <1>1, <1>3, <2>1, <2>3, <3>1 DEF InWrite
  <2> QED
    BY <1>4, <2>2, <2>3 DEF WriteSingle
<1>5. CASE WriteMulti
  <2>1. call' = call /\ pc' \in {"blocks", "writeEnd"} /\ pc = "multi"
    BY <1>5 DEF WriteMulti
  <2>2. call.blocks = << >> /\ call.left = call.n /\ call.left > 0 /\ Len(call.blocks) = 0
    BY <1>1, <2>1 DEF Written
  <2>3. Written'
    BY <1>1, <1>2, <1>a, <1>b, <2>1, <2>2 DEF Written
  <2> QED
    BY <1>1, <1>3, <2>1, <2>3 DEF InWrite
<1>6. CASE WriteBlock
  <2>1. pc = "blocks" /\ call.left > 0 /\ Len(call.blocks) + call.left = call.n /\ Len(call.blocks) \in Nat
    BY <1>1, <1>6 DEF WriteBlock, Written
  <2>2. CASE pc' = "stop" /\ UNCHANGED call
    <3>1. Written'
      BY <1>1, <1>2, <1>a, <1>b, <2>1, <2>2 DEF Written
    <3> QED
      BY <1>1, <1>3, <2>2, <3>1 DEF InWrite
  <2>3. CASE /\ Answers /\ pc' = IF call.left = 1 THEN "stop" ELSE "blocks"
             /\ call' = [call EXCEPT !.left = call.left - 1,
                           !.blocks = Append(call.blocks, Block(call.addr, Len(call.blocks)))]
    <3> DEFINE b == Block(call.addr, Len(call.blocks))
               bs == Append(call.blocks, b)
               l == call.left - 1
    <3>1. b \in Blocks /\ b = <<card, Reach(card, call.addr) + Len(call.blocks)>> /\ card \in Cards
          /\ Reach(card, call.addr) \in Nat
      <4>1. Len(call.blocks) \in 0 .. MaxCount
        BY <1>1, <2>1
      <4> QED
        BY <1>1, <2>3, <4>1, BlockTyped
    <3>a. ctype \in {{}, {Kind[card]}}
      BY <2>3 DEF Known
    <3>2. call.blocks # << >> => call.blocks[1][1] = card
      BY <1>1, <2>1, <2>3 DEF Written
    <3> HIDE DEF b
    <3>3. /\ bs \in Seq(Blocks) /\ Len(bs) = Len(call.blocks) + 1
          /\ \A i \in 1 .. Len(call.blocks) : bs[i] = call.blocks[i]
          /\ bs[Len(call.blocks) + 1] = b
      BY <1>1, <3>1, AppendProperties
    <3> HIDE DEF bs
    <3>4. bs[1][1] = card
      <4>1. CASE call.blocks = << >>
        BY <3>1, <3>3, <4>1
      <4>2. CASE call.blocks # << >>
        <5>1. 1 \in 1 .. Len(call.blocks)
          BY <1>1, <2>1, <4>2
        <5> QED
          BY <3>2, <3>3, <4>2, <5>1
      <4> QED
        BY <4>1, <4>2
    <3>5. InOrder(bs, call.addr)
      <4>1. SUFFICES ASSUME NEW i \in 1 .. Len(call.blocks) + 1
                     PROVE  bs[i] = <<card, Reach(card, call.addr) + i - 1>>
        BY <3>1, <3>a, <3>3, <3>4 DEF InOrder
      <4>2. CASE i = Len(call.blocks) + 1
        BY <1>1, <2>1, <3>1, <3>3, <4>2
      <4>3. CASE i # Len(call.blocks) + 1
        <5>1. i \in 1 .. Len(call.blocks) /\ call.blocks # << >>
          BY <1>1, <2>1, <4>3
        <5>2. call.blocks[i] = <<call.blocks[1][1], Reach(call.blocks[1][1], call.addr) + i - 1>>
          BY <1>b, <5>1 DEF InOrder
        <5> QED
          BY <3>2, <3>3, <5>1, <5>2
      <4> QED
        BY <4>2, <4>3
    <3>6. l \in Nat /\ l <= call.n /\ (l = 0 <=> call.left = 1)
      BY <1>1, <2>1
    <3>7. call' = [call EXCEPT !.left = l, !.blocks = bs]
      BY <2>3 DEF bs, b
    <3>8. l = call.left - 1
      OBVIOUS
    <3> HIDE DEF l
    <3>9. /\ call' \in CallType /\ call'.left = l /\ call'.blocks = bs /\ call'.op = "write"
          /\ call'.sector = call.sector /\ call'.addr = call.addr /\ call'.n = call.n /\ call'.wp = call.wp
      BY <1>1, <3>3, <3>6, <3>7 DEF CallType
    <3>10. ~call'.wp /\ call'.n > 0 /\ InOrder(call.blocks, call.addr)' /\ call'.addr = Address(call.sector)'
      BY <1>a, <1>b, <3>5, <3>9
    <3>11. pc' = "blocks" => l > 0 /\ Len(bs) + l = call.n
      <4>1. pc' = "blocks" => call.left # 1
        BY <2>3
      <4>2. call.left \in Nat /\ call.n \in Nat
        BY <1>1
      <4> QED
        BY <2>1, <3>3, <3>8, <4>1, <4>2
    <3>12. pc' = "stop" /\ l = 0 => Len(bs) = call.n
      BY <1>1, <2>1, <3>3, <3>8
    <3>13. Written'
      BY <1>2, <2>3, <3>4, <3>9, <3>10, <3>11, <3>12 DEF Written
    <3> QED
      BY <1>3, <2>3, <3>6, <3>9, <3>13 DEF InWrite
  <2> QED
    BY <1>6, <2>2, <2>3 DEF WriteBlock
<1>7. CASE WriteStop
  <2>1. pc = "stop" /\ pc' = "writeEnd"
    BY <1>7 DEF WriteStop
  <2>2. CASE UNCHANGED call
    <3>1. Written'
      BY <1>1, <1>2, <1>a, <1>b, <2>1, <2>2 DEF Written
    <3> QED
      BY <1>1, <1>3, <2>1, <2>2, <3>1 DEF InWrite
  <2>3. CASE call' = [call EXCEPT !.left = 1]
    <3>1. /\ call' \in CallType /\ call'.left = 1 /\ call'.blocks = call.blocks /\ call'.op = "write"
          /\ call'.sector = call.sector /\ call'.addr = call.addr /\ call'.n = call.n /\ call'.wp = call.wp
      BY <1>1, <2>3, FailedTyped
    <3>2. Written'
      BY <1>1, <1>2, <1>a, <1>b, <2>1, <3>1 DEF Written
    <3>3. call.n > 0
      BY <1>1 DEF Written
    <3> QED
      BY <1>1, <1>3, <2>1, <3>1, <3>2, <3>3 DEF InWrite
  <2> QED
    BY <1>7, <2>2, <2>3 DEF WriteStop
<1> QED
  BY <1>4, <1>5, <1>6, <1>7

\* The steps of initialize() do not touch the transfer of a read(), or have none.
LEMMA Initializing ==
  ASSUME CallInv, FlagsTyped, Initialize
  PROVE  CallInv'
<1>1. call \in CallType /\ pc' \notin InWrite
  BY DEF CallInv, CallTyped, Initialize, InitializeBegin, Enter, InitPresence, InitReturns, Return,
         InitCard, InitStatus, InitProtect, InWrite
<1>2. CASE InitializeBegin
  <2>1. "initialize" \in Ops /\ 0 \in Nat /\ 0 < Word /\ 0 <= MaxCount
    BY DriverAssumption DEF Ops
  <2> QED
    BY <1>2, <2>1, Entering DEF InitializeBegin, Enter
<1>3. ASSUME pc \in {"initBegin", "initProtect"}, NEW res, InitReturns(res)
      PROVE  CallInv'
  <2>1. call.op # "write" /\ ret.op # "write"
    BY <1>3 DEF CallInv, Shape, InWrite
  <2>2. CASE call.op = "read"
    BY <1>3, <2>1, <2>2
       DEF InitReturns, CallInv, CallTyped, Shape, Written, WriteOkMeansWritten, InWrite, Outside
  <2>3. CASE call.op # "read"
    BY <1>3, <2>1, <2>3, Returning DEF InitReturns
  <2> QED
    BY <2>2, <2>3
<1>4. CASE InitPresence
  <2>1. call.op # "write" /\ ret.op # "write"
    BY <1>4 DEF InitPresence, CallInv, Shape, InWrite
  <2>2. CASE InitReturns("NODISK")
    BY <1>3, <1>4, <2>2 DEF InitPresence
  <2>3. CASE pc' = "initCard" /\ call' = call /\ ret' = ret
    BY <2>1, <2>3 DEF CallInv, CallTyped, Shape, Written, WriteOkMeansWritten, InWrite, Outside
  <2> QED
    BY <1>4, <2>2, <2>3 DEF InitPresence
<1>5. ASSUME NEW t \in SUBSET Flags, call' = [call EXCEPT !.tmp = t], UNCHANGED ret,
             pc \in {"initCard", "initStatus"}, pc' \in {"initStatus", "initProtect"}
      PROVE  CallInv'
  <2>1. /\ call' \in CallType /\ call'.left = call.left
        /\ call'.op = call.op /\ call'.sector = call.sector /\ call'.n = call.n
    BY <1>1, <1>5 DEF CallType
  <2>2. call.op # "write" /\ ret.op # "write"
    BY <1>5 DEF CallInv, Shape, InWrite
  <2> QED
    BY <1>5, <2>1, <2>2 DEF CallInv, CallTyped, Shape, Written, WriteOkMeansWritten, InWrite, Outside
<1>6. CASE InitCard
  BY <1>5, <1>6 DEF InitCard, FlagsTyped
<1>7. CASE InitStatus
  <2>1. status' \in SUBSET Flags
    BY <1>1, <1>7 DEF InitStatus, FlagsTyped, CallType, NoInit, Flags
  <2> QED
    BY <1>5, <1>7, <2>1 DEF InitStatus
<1>8. CASE InitProtect
  BY <1>3, <1>8 DEF InitProtect
<1> QED
  BY <1>2, <1>4, <1>6, <1>7, <1>8 DEF Initialize

\* The blocks of a write() that did not fail are those that it promises.
LEMMA PlacedIs ==
  ASSUME NEW blocks, NEW s \in Nat, s < Word, NEW n \in Nat, n > 0, Len(blocks) = n, InOrder(blocks, Address(s))
  PROVE  LET c == blocks[1][1]
             first == blocks[1][2]
         IN  /\ \A i \in 1 .. n : blocks[i] = <<c, first + i - 1>>
             /\ (IF Kind[c] = "SDHC" THEN ctype # {} ELSE s * 512 < Word) => first = s
<1> DEFINE c == blocks[1][1]
           a == Address(s)
<1>1. a \in Nat /\ (ctype = {"SDHC"} => a = s)
      /\ (ctype # {"SDHC"} /\ s * 512 < Word => a = s * 512 /\ (s * 512) \div 512 = s)
  BY AddressIs
<1>2. c \in Cards /\ ctype \in {{}, {Kind[c]}} /\ \A i \in 1 .. n : blocks[i] = <<c, Reach(c, a) + i - 1>>
  <2>1. 1 \in 1 .. Len(blocks)
    OBVIOUS
  <2> QED
    BY <2>1 DEF InOrder
<1> HIDE DEF c, a
<1>3. Reach(c, a) \in Nat
  <2>1. a \div 512 \in Nat
    BY <1>1
  <2> QED
    BY <1>1, <2>1 DEF Reach
<1>4. blocks[1][2] = Reach(c, a)
  BY <1>2, <1>3
<1>5. ASSUME Kind[c] = "SDHC", ctype # {} PROVE Reach(c, a) = s
  BY <1>1, <1>2, <1>5 DEF Reach
<1>6. ASSUME Kind[c] # "SDHC", s * 512 < Word PROVE Reach(c, a) = s
  <2>1. ctype # {"SDHC"}
    BY <1>2, <1>6
  <2> QED
    BY <1>1, <1>6, <2>1 DEF Reach
<1> QED
  BY <1>2, <1>4, <1>5, <1>6 DEF c

\* A card that answers is known for what it is after every step: initialize() finds
\* out, and a card that comes does not answer.
LEMMA KnownStep == IInv /\ [Next]_vars => Known'
<1> SUFFICES ASSUME IInv, [Next]_vars PROVE Known'
  OBVIOUS
<1>1. Known
  BY DEF IInv
<1>2. ASSUME ctype' = ctype, (card' = card /\ up' = up) \/ up' = FALSE PROVE Known'
  BY <1>1, <1>2 DEF Known, Answers
<1>3. CASE InitCard
  BY <1>3 DEF InitCard, CardTypes, Known
<1>4. CASE Initialize /\ ~InitCard
  BY <1>2, <1>4 DEF Initialize, InitializeBegin, InitPresence, InitStatus, InitProtect, envVars
<1>5. CASE Read
  BY <1>2, <1>5 DEF Read, ReadBegin, ReadBlock, ReadRefused, ReadReinit, ReadRelock, ReadEnd, envVars
<1>6. CASE Write
  BY <1>2, <1>6 DEF Write, WriteBegin, WriteSingle, WriteMulti, WriteBlock, WriteStop, WriteEnd, envVars
<1>7. CASE Ioctl
  BY <1>2, <1>7 DEF Ioctl, IoctlBegin, EraseNested, IoctlEnd, envVars
<1>8. CASE Status
  BY <1>2, <1>8 DEF Status, StatusLoad, StatusStore, envVars
<1>9. CASE Environment
  BY <1>2, <1>9 DEF Environment, RemoveCard, ToggleWp, OtherTakes, OtherGives, InsertCard,
                    WasBusySinceLastCheck, busVars, envVars
<1>10. CASE UNCHANGED vars
  BY <1>2, <1>10 DEF vars
<1> QED
  BY <1>3, <1>4, <1>5, <1>6, <1>7, <1>8, <1>9, <1>10 DEF Next

\* Every step keeps what is known of the call.
LEMMA CallStep == IInv /\ [Next]_vars => CallInv'
<1> SUFFICES ASSUME IInv, [Next]_vars PROVE CallInv'
  OBVIOUS
<1>1. CallInv /\ FlagsTyped /\ Known
  BY TypeParts DEF IInv, CallInv
<1>2. ASSUME NEW s \in Sectors, NEW n \in 1 .. MaxCount
      PROVE  /\ s \in Nat /\ n \in Nat /\ s < Word /\ n <= MaxCount /\ n > 0
             /\ 0 < Word /\ 0 <= MaxCount
  BY DriverAssumption
<1>3. CASE Read
  <2>1. ASSUME NEW s \in Sectors, NEW n \in 1 .. MaxCount, ReadBegin(s, n) PROVE CallInv'
    <3>1. "read" \in Ops
      BY DEF Ops
    <3>2. CASE Refuse(NewCall("read", s, n), "NOTRDY")
      BY <1>1, <1>2, <2>1, <3>1, <3>2, Refusing DEF ReadBegin, envVars
    <3>3. CASE Enter(NewCall("read", s, n), "read")
      <4>1. ctype' = ctype
        BY <2>1 DEF ReadBegin, envVars
      <4> QED
        BY <1>1, <1>2, <3>1, <3>3, <4>1, Entering DEF Enter
    <3> QED
      BY <2>1, <3>2, <3>3 DEF ReadBegin
  <2>2. CASE ReadBlock
    BY <1>1, <2>2, Reading
  <2>3. CASE ReadRefused \/ ReadReinit \/ ReadRelock
    <3>1. /\ pc \in {"read", "gap", "relock"} /\ pc' \in {"gap", "initBegin", "read"}
          /\ call' = call /\ ret' = ret /\ ctype' = ctype
      BY <2>3 DEF ReadRefused, ReadReinit, ReadRelock
    <3> QED
      BY <1>1, <3>1
         DEF CallInv, CallTyped, Shape, Written, WriteOkMeansWritten, InWrite, Outside
  <2>4. CASE ReadEnd
    BY <1>1, <2>4, Returning DEF ReadEnd, CallInv, Shape
  <2> QED
    BY <1>3, <2>1, <2>2, <2>3, <2>4 DEF Read
<1>4. CASE Write
  <2>1. ASSUME NEW s \in Sectors, NEW n \in 1 .. MaxCount, WriteBegin(s, n) PROVE CallInv'
    <3>1. "write" \in Ops
      BY DEF Ops
    <3>2. CASE WriteCheck # "OK"
      BY <1>1, <1>2, <2>1, <3>1, <3>2, Refusing DEF WriteBegin, envVars
    <3>3. CASE WriteCheck = "OK"
      <4>1. ~WriteProtected
        BY <3>3 DEF WriteCheck
      <4> QED
        BY <1>1, <1>2, <2>1, <3>1, <3>3, <4>1, Entering DEF WriteBegin, Enter
    <3> QED
      BY <3>2, <3>3
  <2>2. CASE WriteSingle \/ WriteMulti \/ WriteBlock \/ WriteStop
    BY <1>1, <2>2, Writing
  <2>3. CASE WriteEnd
    <3>1. CASE call.left # 0
      BY <1>1, <2>3, <3>1, Returning DEF WriteEnd
    <3>2. CASE call.left = 0
      <4>1. /\ call \in CallType /\ call.op = "write" /\ Written /\ pc = "writeEnd"
            /\ call.blocks \in Seq(Blocks) /\ call.n \in Nat
        BY <1>1, <2>3 DEF WriteEnd, CallInv, CallTyped, Shape, InWrite, CallType
      <4>2. Len(call.blocks) = call.n /\ InOrder(call.blocks, call.addr) /\ call.n > 0
            /\ call.addr = Address(call.sector) /\ call.sector \in Nat /\ call.sector < Word
        BY <1>1, <3>2, <4>1 DEF Written, CallInv, CallTyped, CallType
      <4>3. /\ ret'.n = call.n /\ ret'.sector = call.sector /\ ret'.blocks = call.blocks
            /\ ret' \in RetType /\ pc' = "idle" /\ call' = NoCall /\ ctype' = ctype
        BY <2>3, <3>2, <4>1, OutcomeTyped DEF WriteEnd, Return, Outcome
      <4>4. WriteOkMeansWritten'
        BY <4>1, <4>2, <4>3, PlacedIs DEF WriteOkMeansWritten
      <4>5. CallTyped' /\ Shape' /\ Written'
        BY <4>3, NoCallTyped, DriverAssumption DEF CallTyped, Shape, Written, InWrite, Outside
      <4> QED
        BY <4>4, <4>5 DEF CallInv
    <3> QED
      BY <3>1, <3>2
  <2> QED
    BY <1>4, <2>1, <2>2, <2>3 DEF Write
<1>5. CASE Ioctl
  <2>1. ASSUME NEW cmd \in {"sync", "size", "erase", "other"}, IoctlBegin(cmd) PROVE CallInv'
    <3>1. cmd \in Ops /\ cmd # "write" /\ 0 \in Nat /\ 0 < Word /\ 0 <= MaxCount
      BY DriverAssumption DEF Ops
    <3>a. ctype' = ctype
      BY <2>1 DEF IoctlBegin, envVars
    <3>2. CASE Refuse(NewCall(cmd, 0, 0), "NOTRDY")
      BY <1>1, <2>1, <3>1, <3>2, Refusing DEF IoctlBegin, envVars
    <3>3. ASSUME NEW where \in {"erase", "ioctl"}, Enter(NewCall(cmd, 0, 0), where)
          PROVE  CallInv'
      BY <1>1, <3>1, <3>3, <3>a, Entering DEF Enter
    <3> QED
      BY <2>1, <3>2, <3>3 DEF IoctlBegin
  <2>2. CASE EraseNested
    <3>1. call.op # "write"
      BY <1>1, <2>2 DEF EraseNested, CallInv, Shape, InWrite
    <3>2. pc' = "ioctl" /\ call' = call /\ ret' = ret /\ ret.op # "write"
      BY <1>1, <2>2 DEF EraseNested, CallInv, Shape
    <3> QED
      BY <1>1, <3>1, <3>2
         DEF CallInv, CallTyped, Shape, Written, WriteOkMeansWritten, InWrite, Outside
  <2>3. CASE IoctlEnd
    <3>1. call.op # "write"
      BY <1>1, <2>3 DEF IoctlEnd, CallInv, Shape, InWrite
    <3> QED
      BY <1>1, <2>3, <3>1, Returning DEF IoctlEnd
  <2> QED
    BY <1>5, <2>1, <2>2, <2>3 DEF Ioctl
<1>6. ASSUME pc' = pc, call' = call, ret' = ret, ctype' = ctype, (card' = card /\ up' = up) \/ up' = FALSE
      PROVE  CallInv'
  BY <1>1, <1>6 DEF CallInv, CallTyped, Shape, Written, InOrder, Address, WriteOkMeansWritten, Answers
<1>7. CASE Status
  <2>1. pc' = pc /\ call' = call /\ ret' = ret /\ ctype' = ctype /\ card' = card /\ up' = up
    BY <1>7 DEF Status, StatusLoad, StatusStore, envVars
  <2> QED
    BY <1>6, <2>1
<1>8. CASE Environment
  <2>1. pc' = pc /\ call' = call /\ ret' = ret /\ ctype' = ctype /\ ((card' = card /\ up' = up) \/ up' = FALSE)
    BY <1>8 DEF Environment, RemoveCard, ToggleWp, OtherTakes, OtherGives, InsertCard,
                WasBusySinceLastCheck, envVars
  <2> QED
    BY <1>6, <2>1
<1>9. CASE UNCHANGED vars
  BY <1>6, <1>9 DEF vars
<1> QED
  BY <1>1, <1>3, <1>4, <1>5, <1>7, <1>8, <1>9, Initializing DEF Next

-----------------------------------------------------------------------------
(* The theorems.                                                           *)

\* The invariant holds before the first call.
LEMMA Initially == Init => IInv
<1> SUFFICES ASSUME Init PROVE IInv
  OBVIOUS
<1>1. FlagsTyped
  <2>1. {NoInit} \subseteq Flags /\ {} \subseteq Flags
    BY DEF Flags
  <2>2. stat \in [on : BOOLEAN, val : SUBSET Flags]
    BY <2>1 DEF Init
  <2> QED
    BY <2>1, <2>2 DEF Init, FlagsTyped
<1>2. CallInv
  BY NoCallTyped, DriverAssumption
     DEF Init, CallInv, CallTyped, Shape, Written, WriteOkMeansWritten, Outside, InWrite
<1>3. Bus
  BY DEF Init, Bus, LockBalanced, OwnSettings, BusyNoticed, Outside
<1>4. BusTyped
  <2>1. /\ spi = "other" /\ depth = 0 /\ other = FALSE
        /\ busy = FALSE /\ busyCheck = FALSE /\ accessed = FALSE
    BY DEF Init
  <2>2. depth \in 0 .. 2
    BY <2>1
  <2> QED
    BY <2>1, <2>2 DEF BusTyped
<1>5. Known
  BY DEF Init, Known, Answers
<1> QED
  BY <1>1, <1>2, <1>3, <1>4, <1>5, TypeParts DEF IInv, CallInv

\* Every step of the driver and of its surroundings preserves the invariant.
LEMMA Step == IInv /\ [Next]_vars => IInv'
<1> SUFFICES ASSUME IInv, [Next]_vars PROVE IInv'
  OBVIOUS
<1>1. FlagsTyped' /\ BusTyped' /\ CallInv' /\ Bus' /\ Known'
  BY FlagsStep, BusTypedStep, CallStep, BusStep, KnownStep
<1>2. FlagsTyped' /\ BusTyped' /\ CallTyped' => TypeOK'
  BY DEF TypeOK, FlagsTyped, BusTyped, CallTyped, Outside, InWrite
<1> QED
  BY <1>1, <1>2 DEF IInv, CallInv

THEOREM Invariant == Spec => []IInv
<1> QED
  BY Initially, Step, PTL DEF Spec

\* Every reachable state is well typed, however the calls, the card, the switch
\* and the other device are interleaved.
THEOREM TypeCorrect == Spec => []TypeOK
<1>1. IInv => TypeOK
  BY DEF IInv
<1> QED
  BY <1>1, Invariant, PTL

\* lock_guard and the unlock, initialize, lock sequence inside read() balance.
THEOREM LocksBalance == Spec => []LockBalanced
<1>1. IInv => LockBalanced
  BY DEF IInv, Bus
<1> QED
  BY <1>1, Invariant, PTL

\* While the driver holds the SPI mutex the bus has the driver's settings.
THEOREM SettingsAreOwn == Spec => []OwnSettings
<1>1. IInv => OwnSettings
  BY DEF IInv, Bus
<1> QED
  BY <1>1, Invariant, PTL

\* wasBusySinceLastCheck misses no access, also around the nested lock_guard of
\* CTRL_ERASE_SECTOR.
THEOREM AccessNoticed == Spec => []BusyNoticed
<1>1. IInv => BusyNoticed
  BY DEF IInv, Bus
<1> QED
  BY <1>1, Invariant, PTL

\* A write() of any length that returns RES_OK has put every block on one card, in
\* order, whatever cards were pulled, inserted or refused a block meanwhile; and from
\* the sector asked for, if the driver knows the card or the card counts in bytes that
\* a DWORD can count.
THEOREM WritesComplete == Spec => []WriteOkMeansWritten
<1>1. IInv => WriteOkMeansWritten
  BY DEF IInv
<1> QED
  BY <1>1, Invariant, PTL

\* A call that began with the write-protect switch on changes no sector.
THEOREM ProtectionHolds == Spec => []ProtectedUntouched
<1>1. IInv => ProtectedUntouched
  BY DEF IInv, Written, ProtectedUntouched
<1> QED
  BY <1>1, Invariant, PTL
=============================================================================
