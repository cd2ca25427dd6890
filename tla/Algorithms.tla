------------------------------ MODULE Algorithms ------------------------------
(***************************************************************************)
(* The parts of the code that are functions of their input, checked over   *)
(* bounded inputs: names and patterns, string functions, deadlines.  A     *)
(* behaviour picks one case; or it formats a card (module Format).         *)
(***************************************************************************)
EXTENDS Format, Names, Strings, Timeouts

CONSTANTS
  Paths,      \* bound: paths given by an application
  Patterns, Shown,   \* bound: patterns, and names in a directory
  Rooms,      \* bound: how many characters there is room for in a file
  Files,      \* bound: contents of a text file
  Buffers,    \* bound: what a line buffer holds before
  Pause       \* the delay between two tries of __ff_lock: 10 ms

ASSUME AlgorithmsAssumption == Pause \in Nat \ {0}

VARIABLE input

algVars == <<vars, input>>
None == [of |-> "none"]

AlgInit == Init /\ input = None

Ask(of, S) ==
  /\ pc = "idle" /\ card[0] = Junk /\ input = None
  /\ \E x \in S : input' = [of |-> of, x |-> x]
  /\ UNCHANGED vars

Flags == {"", "0", "-"}

AskName == Ask("path", Paths)
AskMatch == Ask("match", Patterns \X Shown)
AskPrint ==
  Ask("print", [v : 0 .. Modulus - 1, r : {2, 8, 10, 16}, signed : BOOLEAN, flag : Flags,
                width : {0, 3, WordBits + 2}, room : Rooms, denied : BOOLEAN])
AskLine == Ask("line", {[file |-> f, pos |-> p, buf |-> b] : f \in Files, p \in 0 .. 2, b \in Buffers})
AskDeadline == Ask("deadline", [start : Ticks, d : Ticks, e : Ticks])

AlgNext ==
  \/ input = None /\ Next /\ UNCHANGED input
  \/ AskName \/ AskMatch \/ AskPrint \/ AskLine \/ AskDeadline

AlgSpec == AlgInit /\ [][AlgNext]_algVars

-----------------------------------------------------------------------------
\* A name that create_name accepts is shown by get_fileinfo as a name that leads
\* back to it, through get_ldnumber, and is shown the same again.  The path "."
\* makes a name of nothing but spaces (README, Findings).
ShownReopens ==
  input.of = "path" =>
    LET n == OpenName(input.x)
    IN  n.res = "OK" /\ n.fn # Spaces =>
          LET again == OpenName(FileInfo(n.fn))
          IN  again.res = "OK" /\ again.fn = n.fn /\ again.last

\* pattern_matching, which searches with a loop and restarts, agrees with the
\* meaning of a pattern: '*' any characters, '?' one, a letter itself.
MatchesGlob ==
  input.of = "match" =>
    LET pat == input.x[1]
        nam == input.x[2]
        means[p \in 1 .. Len(pat) + 1, n \in 1 .. Len(nam) + 1] ==
          IF p > Len(pat) THEN n > Len(nam)
          ELSE IF pat[p] = "*" THEN \E k \in n .. Len(nam) + 1 : means[p + 1, k]
          ELSE n <= Len(nam) /\ pat[p] \in {"?", nam[n]} /\ means[p + 1, n + 1]
    IN  PatternMatching(pat, nam) = means[1, 1]

\* f_printf answers with the number of characters, all of which are in the file,
\* or EOF, and then only the first ones are; and they read back as the number, in
\* the width asked for.  A negative number filled up with zeros has them before its
\* sign (README, Findings).
PrintsAllOrEof ==
  input.of = "print" =>
    LET x == input.x
        text == Numeral(x.v, x.r, x.signed, x.flag, x.width)
        put == Puts(text, x.room, x.denied)
        core == SelectSeq(text, LAMBDA c : c # " ")
        sign == core[1] = "-"
        value == FoldLeft(LAMBDA n, c : (n * x.r) + SelectInSeq(Chars, LAMBDA d : d = c) - 1, 0,
                          IF sign THEN Tail(core) ELSE core)
    IN  /\ IF put.ret = EOF THEN put.file = SubSeq(text, 1, IF x.denied THEN 0 ELSE x.room)
           ELSE put.file = text /\ put.ret = Len(text)
        /\ Len(text) >= x.width
        /\ \/ x.signed /\ x.flag = "0"
           \/ /\ sign = (x.signed /\ x.v >= Modulus \div 2)
              /\ value = IF sign THEN Modulus - x.v ELSE x.v

\* In a file whose last line is ended, f_getline delivers the next line without its
\* end, and f_gets with it, whatever the buffer held before, and the file is left
\* behind the line; a line that does not fit is cut by f_gets and refused by
\* f_getline.
LinesDelivered ==
  input.of = "line" /\ input.x.file[Len(input.x.file)] = NL /\ input.x.pos < Len(input.x.file) =>
    LET x == input.x
        rest == SubSeq(x.file, x.pos + 1, Len(x.file))
        e == SelectInSeq(rest, LAMBDA c : c = NL)
        len == Len(x.buf)
        get == GetLine(x.file, x.pos, x.buf)
        part == IF e < len THEN e ELSE len - 1
    IN  /\ Gets(x.file, x.pos, len).line = SubSeq(rest, 1, part)
        /\ Gets(x.file, x.pos, len).pos = x.pos + part
        /\ IF e >= len THEN get.res = "INVALID_PARAMETER"
           ELSE /\ get.res = "OK" /\ get.pos = x.pos + e
                /\ get.line = SubSeq(rest, 1, IF e > 1 /\ rest[e - 1] = CR THEN e - 2 ELSE e - 1)

\* A deadline is never reported early, is reported from the next millisecond on,
\* and stays reported until the tick wraps, or for one that lies behind the wrap,
\* until the tick comes round to the start.  Deadlines of 0 ms and on the last tick
\* are never reported (README, Findings).  While the mutex stays taken, __ff_lock
\* with the timeout 0 or CONCURRENT_WAIT_FOREVER never gives up, as ffconf.h says
\* of its _FS_TIMEOUT; with another one it gives up after the time asked for and not
\* much later, the one millisecond timeBetween loses at the wrap included, unless the
\* timeout is so near the width of the tick that the tick comes round between two tries.
ExpiresInTime ==
  input.of = "deadline" =>
    LET x == input.x
        expired == Expired(x.start, x.d, Tick(x.start + x.e))
        waits == LockWaits(x.start, x.d, Pause)
    IN  /\ x.e <= x.d => ~expired
        /\ x.e > x.d /\ x.d > 0 /\ Tick(x.start + x.d) # Wrap - 1
           /\ (x.start + x.d < Wrap => x.start + x.e < Wrap) => expired
        /\ x.d \in {0, WaitForever} => waits = Never
        /\ x.d > 0 /\ x.d < Wrap - (Pause + 2) => waits > x.d /\ waits <= x.d + 1 + Pause

=============================================================================
