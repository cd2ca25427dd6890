------------------------------ MODULE SdDriver ------------------------------
(***************************************************************************)
(* SDSPIDriver (firmware/FatFs-SD.h): the SD card driver behind disk_*.    *)
(*                                                                         *)
(* One thread at a time is inside read, write, ioctl or initialize (the    *)
(* volume mutex), but status() runs on any thread without a lock, and the  *)
(* card, the write-protect switch, another device of the SPI bus and a     *)
(* loop that polls wasBusySinceLastCheck move between any two steps.       *)
(*                                                                         *)
(* A card is not simulated: it accepts a command or a data block only when *)
(* it is inserted and has been initialised since, and may refuse any.      *)
(* It takes the argument of a command for a block number or for a byte     *)
(* address, as its kind demands, whatever the driver thinks it is.         *)
(* A transfer is recorded as the sequence of the card's blocks it touched. *)
(***************************************************************************)
EXTENDS Integers, Sequences

CONSTANTS
  Cards,       \* cards that can be inserted
  Kind,        \* card -> "SDHC", "SD2", "SD1" or "MMC"
  NoCard,
  Sectors,     \* sectors a call can start at
  MaxCount,    \* largest count of a call
  Word,        \* a DWORD, the argument of a command, is below it: 2^32
  CardDetect,  \* enableCardDetect was called
  WpDetect     \* enableWriteProtectDetect was called

ASSUME DriverAssumption ==
  /\ NoCard \notin Cards
  /\ Kind \in [Cards -> {"SDHC", "SD2", "SD1", "MMC"}]
  /\ Word \in Nat \ {0} /\ Sectors \subseteq 0 .. Word - 1 /\ MaxCount \in Nat \ {0}
  /\ CardDetect \in BOOLEAN /\ WpDetect \in BOOLEAN

VARIABLES
  card, up,        \* the inserted card, and whether it has left its idle state
  wp,              \* the write-protect switch
  status,          \* _status, a set of STA_ flags
  ctype,           \* _cardType
  active,          \* _active_clock
  spi,             \* who configured the SPI peripheral last, and how
  depth,           \* times the driver holds the recursive SPI mutex
  other,           \* another device's code holds it
  busy, busyCheck, \* _busy, _busy_check
  accessed,        \* history: a block was transferred since the last busy check
  pc, call,        \* the driver call in progress
  ret,             \* history: the last call, if it was a write() that returned OK
  stat             \* a status() call on another thread

busVars == <<spi, depth, busy, busyCheck>>
envVars == <<card, up, wp, other>>
vars == <<card, up, wp, status, ctype, active, spi, depth, other, busy,
          busyCheck, accessed, pc, call, ret, stat>>

NoInit == "STA_NOINIT"
NoDisk == "STA_NODISK"
Protect == "STA_PROTECT"
Flags == {NoInit, NoDisk, Protect}

CardPresent == ~CardDetect \/ card # NoCard
WriteProtected == WpDetect /\ wp

\* A card that answers: inserted, and initialised since it was.
Answers == card # NoCard /\ up

\* Mutant of Address: every card is addressed in bytes.
AddressBytes(s) == (s * 512) % Word

\* The argument of a command for sector s: unless _cardType has CT_BLOCK, a byte
\* address, cut to its width.  _cardType 0 means a byte address too.
Address(s) == IF ctype = {"SDHC"} THEN s ELSE (s * 512) % Word

\* The inserted card takes a for the address of a block; a card addressed in bytes
\* refuses one inside a block.
Suits(a) == card # NoCard /\ (Kind[card] # "SDHC" => a % 512 = 0)

\* The block of card c that it takes address a for.
Reach(c, a) == IF Kind[c] = "SDHC" THEN a ELSE a \div 512

\* The block of the inserted card that is k behind the one at address a.
Block(a, k) == <<card, Reach(card, a) + k>>

NoCall == [op |-> "none", sector |-> 0, addr |-> 0, n |-> 0, left |-> 0, blocks |-> << >>,
           wp |-> FALSE, tmp |-> {}]
NoRet == [op |-> "none", sector |-> 0, n |-> 0, blocks |-> << >>]

\* What is remembered of the call c that returns res.
Outcome(c, res) ==
  IF c.op = "write" /\ res = "OK"
  THEN [op |-> c.op, sector |-> c.sector, n |-> c.n, blocks |-> c.blocks] ELSE NoRet

-----------------------------------------------------------------------------
(* The bus.                                                                *)

\* Mutant of Lock: the peripheral keeps the configuration it has.
LockOnly ==
  /\ ~other
  /\ depth' = depth + 1
  /\ busy' = TRUE /\ busyCheck' = TRUE
  /\ UNCHANGED spi

\* Mutant of Lock: only the first of the two busy flags is raised.
LockUnnoticed ==
  /\ ~other
  /\ depth' = depth + 1
  /\ busy' = TRUE /\ UNCHANGED busyCheck
  /\ spi' = active

\* lock(): take the mutex, raise both busy flags, configure the peripheral.
Lock ==
  /\ ~other
  /\ depth' = depth + 1
  /\ busy' = TRUE /\ busyCheck' = TRUE
  /\ spi' = active

\* Mutant of Unlock: only the busy flag is given back.
UnlockLeaks ==
  /\ busy' = FALSE
  /\ UNCHANGED <<spi, depth, busyCheck>>

\* unlock()
Unlock ==
  /\ depth' = depth - 1
  /\ busy' = FALSE
  /\ UNCHANGED <<spi, busyCheck>>

\* The end of a call: its lock_guard goes, its result is recorded.
Return(res) ==
  /\ Unlock
  /\ pc' = "idle" /\ call' = NoCall
  /\ ret' = Outcome(call, res)

\* A call that returns from its first checks.
Refuse(c, res) ==
  /\ ~other
  /\ busy' = FALSE /\ busyCheck' = TRUE /\ spi' = active
  /\ ret' = Outcome(c, res)
  /\ UNCHANGED <<depth, pc, call>>

Enter(c, where) ==
  /\ Lock
  /\ pc' = where /\ call' = c /\ ret' = NoRet

NewCall(o, s, n) ==
  [op |-> o, sector |-> s, addr |-> Address(s), n |-> n, left |-> n, blocks |-> << >>,
   wp |-> WriteProtected, tmp |-> {}]

-----------------------------------------------------------------------------
(* initialize(), called by disk_initialize or from the loop of read().     *)

\* It returns, or, called by read(), goes back to the loop to lock again.
InitReturns(res) ==
  IF call.op = "read"
  THEN Unlock /\ pc' = "relock" /\ UNCHANGED <<call, ret>>
  ELSE Return(res)

InitializeBegin ==
  /\ pc = "idle"
  /\ Enter(NewCall("initialize", 0, 0), "initBegin")
  /\ UNCHANGED <<accessed, status, ctype, active, stat, envVars>>

\* With the bus locked: low speed, then the presence check; its early return
\* leaves the low speed active.
InitPresence ==
  /\ pc = "initBegin"
  /\ active' = "low"
  /\ \/ ~CardPresent /\ InitReturns("NODISK")
     \/ CardPresent /\ pc' = "initCard" /\ UNCHANGED <<busVars, call, ret>>
  /\ UNCHANGED <<accessed, status, ctype, stat, envVars>>

\* The card type the command sequence arrives at; {} is ty = 0.  An SDv2 card
\* is accepted when it answers in time; for SDv1 and MMC the test that follows
\* the wait is "!timeout || CMD16 fails".
CardTypes(k, timeout, cmd16) ==
  IF k \in {"SDHC", "SD2"} THEN (IF timeout THEN {} ELSE {k})
  ELSE IF ~timeout \/ ~cmd16 THEN {} ELSE {k}

\* CMD0 to CMD58.  A card may not answer, or answer and be refused; it may be
\* left idle or up.
InitCard ==
  /\ pc = "initCard"
  /\ call' = [call EXCEPT !.tmp = status]
  /\ \/ ctype' = {} /\ up' \in {FALSE, card # NoCard}
     \/ /\ card # NoCard /\ up' = TRUE
        /\ \E timeout, cmd16 \in BOOLEAN : ctype' = CardTypes(Kind[card], timeout, cmd16)
  /\ pc' = "initStatus"
  /\ UNCHANGED <<accessed, card, wp, other, status, active, busVars, ret, stat>>

\* _status &= ~STA_NOINIT, or _status = STA_NOINIT.  status() may write between
\* the load and the store of each update: the store is based on either value.
InitStatus ==
  /\ pc = "initStatus"
  /\ \E s \in {call.tmp, status} : status' = IF ctype = {} THEN {NoInit} ELSE s \ {NoInit}
  /\ call' = [call EXCEPT !.tmp = status']
  /\ pc' = "initProtect"
  /\ UNCHANGED <<accessed, ctype, active, busVars, ret, stat, envVars>>

\* if (!writeProtected()) _status |= STA_PROTECT; else _status &= ~STA_PROTECT;
InitProtect ==
  /\ pc = "initProtect"
  /\ \E s \in {call.tmp, status} :
       status' = IF ~WriteProtected THEN s \cup {Protect} ELSE s \ {Protect}
  /\ active' = "high"
  /\ InitReturns(IF NoInit \in status' THEN "NOINIT" ELSE "OK")
  /\ UNCHANGED <<accessed, ctype, stat, envVars>>

-----------------------------------------------------------------------------
(* read()                                                                  *)

ReadBegin(s, n) ==
  /\ pc = "idle"
  /\ LET c == NewCall("read", s, n)
     IN  IF ~CardPresent \/ NoInit \in status THEN Refuse(c, "NOTRDY")
         ELSE Enter(c, "read")
  /\ UNCHANGED <<accessed, status, ctype, active, stat, envVars>>

\* CMD17 and the data block.  The address sent is always the one that was computed
\* when the call began, also for later blocks and after a re-initialisation.
ReadBlock ==
  /\ pc = "read" /\ call.left > 0
  /\ Answers /\ Suits(call.addr)
  /\ call' = [call EXCEPT !.left = @ - 1,
                          !.blocks = Append(@, Block(call.addr, 0))]
  /\ accessed' = TRUE
  /\ UNCHANGED <<pc, status, ctype, active, busVars, ret, stat, envVars>>

\* Mutant of ReadRefused: the command is simply sent again.
ReadRetried ==
  /\ pc = "read" /\ call.left > 0
  /\ UNCHANGED vars

\* CMD17 is refused: unlock, then initialize().  (A block that fails after
\* CMD17 was accepted is asked for again: no change of state.)
ReadRefused ==
  /\ pc = "read" /\ call.left > 0
  /\ Unlock
  /\ pc' = "gap"
  /\ UNCHANGED <<accessed, status, ctype, active, call, ret, stat, envVars>>

ReadReinit ==
  /\ pc = "gap"
  /\ Lock
  /\ pc' = "initBegin"
  /\ UNCHANGED <<accessed, status, ctype, active, call, ret, stat, envVars>>

\* Mutant of ReadRelock: the loop goes on without the lock.
ReadNoRelock ==
  /\ pc = "relock"
  /\ pc' = "read"
  /\ UNCHANGED <<accessed, status, ctype, active, busVars, call, ret, stat, envVars>>

\* Back from initialize(): lock for the rest of the loop.
ReadRelock ==
  /\ pc = "relock"
  /\ Lock
  /\ pc' = "read"
  /\ UNCHANGED <<accessed, status, ctype, active, call, ret, stat, envVars>>

ReadEnd ==
  /\ pc = "read" /\ call.left = 0
  /\ Return("OK")
  /\ UNCHANGED <<accessed, status, ctype, active, stat, envVars>>

-----------------------------------------------------------------------------
(* write()                                                                 *)

\* Mutant of WriteCheck: the switch is read through _status only.
WriteCheckStatus ==
  IF ~CardPresent THEN "ERROR"
  ELSE IF NoInit \in status THEN "NOTRDY"
  ELSE IF Protect \in status THEN "WRPRT" ELSE "OK"

\* The result of the checks at the top of write(), in their order.
WriteCheck ==
  IF ~CardPresent THEN "ERROR"
  ELSE IF WriteProtected THEN "WRPRT"
  ELSE IF NoInit \in status THEN "NOTRDY"
  ELSE IF Protect \in status THEN "WRPRT" ELSE "OK"

WriteBegin(s, n) ==
  /\ pc = "idle"
  /\ LET c == NewCall("write", s, n)
     IN  IF WriteCheck # "OK" THEN Refuse(c, WriteCheck)
         ELSE Enter(c, IF n = 1 THEN "single" ELSE "multi")
  /\ UNCHANGED <<accessed, status, ctype, active, stat, envVars>>

\* CMD24 and its block.
WriteSingle ==
  /\ pc = "single"
  /\ \/ /\ Answers /\ Suits(call.addr)
        /\ call' = [call EXCEPT !.left = 0, !.blocks = << Block(call.addr, 0) >>]
        /\ accessed' = TRUE
     \/ UNCHANGED <<call, accessed>>
  /\ pc' = "writeEnd"
  /\ UNCHANGED <<status, ctype, active, busVars, ret, stat, envVars>>

\* ACMD23, then CMD25: accepted, the blocks follow; refused, nothing does.
WriteMulti ==
  /\ pc = "multi"
  /\ \/ Answers /\ Suits(call.addr) /\ pc' = "blocks"
     \/ pc' = "writeEnd"
  /\ UNCHANGED <<accessed, status, ctype, active, busVars, call, ret, stat, envVars>>

\* One data block; the card advances its address.  A refused block ends the loop.
WriteBlock ==
  /\ pc = "blocks"
  /\ \/ /\ Answers
        /\ call' = [call EXCEPT !.left = @ - 1,
                      !.blocks = Append(@, Block(call.addr, Len(@)))]
        /\ pc' = IF call.left = 1 THEN "stop" ELSE "blocks"
        /\ accessed' = TRUE
     \/ pc' = "stop" /\ UNCHANGED <<call, accessed>>
  /\ UNCHANGED <<status, ctype, active, busVars, ret, stat, envVars>>

\* STOP_TRAN; a card that is not ready for it makes the call fail.
WriteStop ==
  /\ pc = "stop"
  /\ \/ Answers /\ UNCHANGED call
     \/ call' = [call EXCEPT !.left = 1]
  /\ pc' = "writeEnd"
  /\ UNCHANGED <<accessed, status, ctype, active, busVars, ret, stat, envVars>>

WriteEnd ==
  /\ pc = "writeEnd"
  /\ Return(IF call.left = 0 THEN "OK" ELSE "ERROR")
  /\ UNCHANGED <<accessed, status, ctype, active, stat, envVars>>

-----------------------------------------------------------------------------
(* ioctl()                                                                 *)

IoctlBegin(cmd) ==
  /\ pc = "idle"
  /\ LET c == NewCall(cmd, 0, 0)
     IN  IF NoInit \in status \/ ~CardPresent THEN Refuse(c, "NOTRDY")
         ELSE Enter(c, IF cmd = "erase" /\ ctype \cap {"SDHC", "SD2", "SD1"} # {}
                       THEN "erase" ELSE "ioctl")
  /\ UNCHANGED <<accessed, status, ctype, active, stat, envVars>>

\* CTRL_ERASE_SECTOR asks itself for MMC_GET_CSD: a second lock_guard, whose
\* end clears _busy although the first one still holds the mutex.
EraseNested ==
  /\ pc = "erase"
  /\ ~other
  /\ busy' = FALSE /\ busyCheck' = TRUE /\ spi' = active
  /\ pc' = "ioctl"
  /\ UNCHANGED <<accessed, depth, status, ctype, active, call, ret, stat, envVars>>

\* CTRL_SYNC and the size queries depend on the card; MMC_GET_CSD is not
\* implemented, so an erase fails; any other command is RES_PARERR.
IoctlEnd ==
  /\ pc = "ioctl"
  /\ \/ call.op \in {"sync", "size"} /\ Answers /\ Return("OK")
     \/ call.op \in {"sync", "size", "erase"} /\ Return("ERROR")
     \/ call.op = "other" /\ Return("PARERR")
  /\ UNCHANGED <<accessed, status, ctype, active, stat, envVars>>

-----------------------------------------------------------------------------
(* The rest of the program and of the world.                               *)

\* status(): the pins are read and _status loaded, then stored.
StatusLoad ==
  /\ ~stat.on
  /\ stat' = [on |-> TRUE,
              val |-> IF ~CardPresent THEN {NoDisk}
                      ELSE IF WriteProtected THEN status \cup {Protect}
                      ELSE status \ {Protect}]
  /\ UNCHANGED <<accessed, status, ctype, active, busVars, pc, call, ret, envVars>>

StatusStore ==
  /\ stat.on
  /\ status' = stat.val
  /\ stat' = [on |-> FALSE, val |-> {}]
  /\ UNCHANGED <<accessed, ctype, active, busVars, pc, call, ret, envVars>>

WasBusySinceLastCheck ==
  /\ busyCheck' = busy
  /\ accessed' = FALSE
  /\ UNCHANGED <<status, ctype, active, spi, depth, busy, pc, call, ret, stat, envVars>>

InsertCard(c) ==
  /\ card = NoCard
  /\ card' = c /\ up' = FALSE
  /\ UNCHANGED <<accessed, wp, other, status, ctype, active, busVars, pc, call, ret, stat>>

RemoveCard ==
  /\ card # NoCard
  /\ card' = NoCard /\ up' = FALSE
  /\ UNCHANGED <<accessed, wp, other, status, ctype, active, busVars, pc, call, ret, stat>>

ToggleWp ==
  /\ wp' = ~wp
  /\ UNCHANGED <<accessed, card, up, other, status, ctype, active, busVars, pc, call, ret, stat>>

\* Another device of the bus, sharing the mutex.
OtherTakes ==
  /\ ~other /\ depth = 0
  /\ other' = TRUE /\ spi' = "other"
  /\ UNCHANGED <<card, up, wp, status, ctype, active, depth, busy, busyCheck,
                 accessed, pc, call, ret, stat>>

OtherGives ==
  /\ other /\ other' = FALSE
  /\ UNCHANGED <<accessed, card, up, wp, status, ctype, active, busVars, pc, call, ret, stat>>

Init ==
  /\ card = NoCard /\ up = FALSE /\ wp = FALSE /\ other = FALSE
  /\ status = {NoInit} /\ ctype = {} /\ active = "low" /\ spi = "other"
  /\ depth = 0 /\ busy = FALSE /\ busyCheck = FALSE /\ accessed = FALSE
  /\ pc = "idle" /\ call = NoCall /\ ret = NoRet
  /\ stat = [on |-> FALSE, val |-> {}]

Initialize == InitializeBegin \/ InitPresence \/ InitCard \/ InitStatus \/ InitProtect
Read ==
  \/ \E s \in Sectors, n \in 1 .. MaxCount : ReadBegin(s, n)
  \/ ReadBlock \/ ReadRefused \/ ReadReinit \/ ReadRelock \/ ReadEnd
Write ==
  \/ \E s \in Sectors, n \in 1 .. MaxCount : WriteBegin(s, n)
  \/ WriteSingle \/ WriteMulti \/ WriteBlock \/ WriteStop \/ WriteEnd
Ioctl ==
  \/ \E cmd \in {"sync", "size", "erase", "other"} : IoctlBegin(cmd)
  \/ EraseNested \/ IoctlEnd
Status == StatusLoad \/ StatusStore
Environment ==
  \/ RemoveCard \/ ToggleWp \/ OtherTakes \/ OtherGives \/ WasBusySinceLastCheck
  \/ \E c \in Cards : InsertCard(c)

Next == Initialize \/ Read \/ Write \/ Ioctl \/ Status \/ Environment

Spec == Init /\ [][Next]_vars

-----------------------------------------------------------------------------
(* Properties.                                                             *)

\* A block of a card; how many it has is not modelled: read() and write() have no
\* range check, and a card may refuse any.
Blocks == Cards \X (0 .. Word + MaxCount)

Ops == {"none", "read", "write", "initialize", "sync", "size", "erase", "other"}
CallType == [op : Ops, sector : Nat, addr : 0 .. Word - 1, n : Nat, left : Nat, blocks : Seq(Blocks),
             wp : BOOLEAN, tmp : SUBSET Flags]
RetType == [op : Ops, sector : Nat, n : Nat, blocks : Seq(Blocks)]

TypeOK ==
  /\ card \in Cards \cup {NoCard} /\ up \in BOOLEAN /\ wp \in BOOLEAN
  /\ status \subseteq Flags
  /\ ctype \in {{}} \cup {{Kind[c]} : c \in Cards}
  /\ active \in {"low", "high"} /\ spi \in {"low", "high", "other"}
  /\ depth \in 0 .. 2 /\ other \in BOOLEAN
  /\ busy \in BOOLEAN /\ busyCheck \in BOOLEAN /\ accessed \in BOOLEAN
  /\ pc \in {"idle", "initBegin", "initCard", "initStatus", "initProtect", "read",
             "gap", "relock", "single", "multi", "blocks", "stop", "writeEnd",
             "erase", "ioctl"}
  /\ call \in CallType /\ call.sector < Word
  /\ call.left <= call.n /\ call.n <= MaxCount
  /\ ret \in RetType
  /\ stat \in [on : BOOLEAN, val : SUBSET Flags]

\* The lock_guard of a call and the unlock, initialize, lock sequence inside
\* read() balance: no call returns with the SPI mutex held or _busy raised, no
\* step that drives the card runs without the mutex.
LockBalanced ==
  /\ pc \in {"idle", "gap", "relock"} => depth = 0 /\ ~busy
  /\ pc \notin {"idle", "gap", "relock"} => depth = 1 /\ ~other

\* Whatever another device did to the shared SPI peripheral, also in the gap
\* inside read(), the driver talks to the card with its own settings.
OwnSettings == depth > 0 => spi # "other"

\* README, wasBusySinceLastCheck: an access to the disk since the last call is
\* never missed, whichever side of the access the call falls on.
BusyNoticed == accessed => busyCheck

\* A write() that returns RES_OK put every block on one card, in order, from
\* the sector asked for; cards pulled, swapped or refusing make it fail.  The
\* sector is another one when the driver does not know the card any more and the
\* card counts in blocks (see WriteAddressed), or when the byte address does not
\* fit its width.
WriteOkMeansWritten ==
  ret.op = "write" =>
    LET c == ret.blocks[1][1]
        first == ret.blocks[1][2]
    IN  /\ Len(ret.blocks) = ret.n
        /\ \A i \in 1 .. ret.n : ret.blocks[i] = <<c, first + i - 1>>
        /\ (IF Kind[c] = "SDHC" THEN ctype # {} ELSE ret.sector * 512 < Word) => first = ret.sector

\* No sector changes in a call that began with the write-protect switch on,
\* also when _status says otherwise because a re-initialisation inverted it.
ProtectedUntouched ==
  call.op = "write" /\ call.wp => call.blocks = << >>

-----------------------------------------------------------------------------
(* What a comment says and the driver does not do.                         *)

\* FatFs-SD.h, write(): "LBA ==> BA conversion (byte addressing cards)": the block
\* that is written first is the one asked for, in whatever unit the card counts.
\* Not after a failed initialize() whose STA_NOINIT status() has overwritten.
WriteAddressed == ret.op = "write" => ret.blocks[1][2] = ret.sector

-----------------------------------------------------------------------------
(* Liveness.  Every step of a call is taken some day (the SPI mutex is     *)
(* fair, the other device gives it back), and a card that stays inserted   *)
(* and is asked again and again answers some day.                          *)

CallSteps ==
  \/ InitPresence \/ InitCard \/ InitStatus \/ InitProtect
  \/ ReadRefused \/ ReadReinit \/ ReadRelock \/ ReadEnd
  \/ WriteSingle \/ WriteMulti \/ WriteBlock \/ WriteStop \/ WriteEnd
  \/ EraseNested \/ IoctlEnd

CardIdentified == InitCard /\ ctype' # {}

FairSpec ==
  /\ Spec
  /\ SF_vars(CallSteps) /\ WF_vars(OtherGives)
  /\ SF_vars(CardIdentified) /\ SF_vars(ReadBlock)

\* If a card is eventually left in place, every call returns: read() recovers
\* from a card it finds uninitialised, however often cards came and went before.
\* With the card pulled for good it does not return, nor when a card addressed in
\* bytes is in the place of one addressed in blocks and refuses the address that
\* was made for that one (README, Findings).
CallsReturn == <>[]Suits(call.addr) => []<>(pc = "idle")
=============================================================================
