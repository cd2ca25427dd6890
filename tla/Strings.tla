-------------------------------- MODULE Strings -------------------------------
(***************************************************************************)
(* String functions over files: f_printf and f_puts with their buffer and  *)
(* f_gets (firmware/ff.c), f_getline (firmware/FatFs.cpp).  A file, a line *)
(* and a buffer are sequences of characters; NUL ends a C string.          *)
(***************************************************************************)
EXTENDS Integers, Sequences, SequencesExt

CONSTANTS
  PutBuf,    \* size of the buffer of f_puts: 64
  WordBits   \* bits of a number: 32

ASSUME StringsAssumption == PutBuf \in Nat /\ PutBuf > 3 /\ WordBits \in Nat \ {0}

EOF == 0 - 1
NL == "\n"
CR == "\r"
NUL == "0x00"

-----------------------------------------------------------------------------
(* putbuff: what it holds, whether it is broken (idx < 0), the characters  *)
(* counted; and the file behind it, which has room for so many more.       *)

PutInit(room, denied) ==
  [buf |-> <<>>, broken |-> FALSE, nchr |-> 0, file |-> <<>>, room |-> room, denied |-> denied]

\* f_write, and the test of its result: a full disk and a failure count fewer.
Flushed(pb) ==
  LET n == IF pb.denied THEN 0 ELSE IF Len(pb.buf) <= pb.room THEN Len(pb.buf) ELSE pb.room
  IN  [pb EXCEPT !.file = @ \o SubSeq(pb.buf, 1, n), !.room = @ - n, !.buf = <<>>,
                 !.broken = pb.denied \/ n < Len(pb.buf)]

\* Mutant of PutC: a write that fails goes unseen.
PutCUnseen(pb, c) ==
  LET b == [pb EXCEPT !.buf = Append(@, c), !.nchr = @ + 1]
  IN  IF Len(b.buf) >= PutBuf - 3 THEN [Flushed(b) EXCEPT !.broken = FALSE] ELSE b

\* putc_bfd: the buffer is written when 3 are left.
PutC(pb, c) ==
  LET b == [pb EXCEPT !.buf = Append(@, c), !.nchr = @ + 1]
  IN  IF pb.broken THEN pb ELSE IF Len(b.buf) >= PutBuf - 3 THEN Flushed(b) ELSE b

\* f_puts: the answer and the file.
Puts(str, room, denied) ==
  LET put == FoldLeft(PutC, PutInit(room, denied), str)
      end == IF put.broken THEN put ELSE Flushed(put)
  IN  [ret |-> IF end.broken THEN EOF ELSE end.nchr, file |-> end.file]

Chars == <<"0", "1", "2", "3", "4", "5", "6", "7", "8", "9", "A", "B", "C", "D", "E", "F">>

\* f_printf of one number: the digits of v in base r, as many as the buffer takes.
Digits(v, r) ==
  LET d[n \in 0 .. WordBits] ==
        IF n = 0 THEN [v |-> v, str |-> <<>>]
        ELSE LET p == d[n - 1]
             IN  IF p.v = 0 /\ n > 1 THEN p ELSE [v |-> p.v \div r, str |-> <<Chars[(p.v % r) + 1]>> \o p.str]
  IN  d[WordBits].str

\* The number and its padding; flag is "", "0" or "-".
Modulus == 2 ^ WordBits
Numeral(v, r, signed, flag, width) ==
  LET negative == signed /\ v >= Modulus \div 2
      text == (IF negative THEN <<"-">> ELSE <<>>) \o Digits(IF negative THEN Modulus - v ELSE v, r)
      pad == [i \in 1 .. Max({0, width - Len(text)}) |-> IF flag = "0" THEN "0" ELSE " "]
  IN  IF flag = "-" THEN text \o pad ELSE pad \o text

-----------------------------------------------------------------------------
(* Lines.                                                                  *)

\* f_gets at pos: it reads a character at a time; one that cannot be read ends the
\* line as the end of the file does.
Gets(file, pos, len) ==
  LET g[n \in 0 .. len - 1] ==
        IF n = 0 THEN [line |-> <<>>, pos |-> pos, stop |-> FALSE]
        ELSE LET p == g[n - 1]
             IN  IF p.stop \/ p.pos = Len(file) THEN [p EXCEPT !.stop = TRUE]
                 ELSE [line |-> Append(p.line, file[p.pos + 1]), pos |-> p.pos + 1,
                       stop |-> file[p.pos + 1] = NL]
  IN  g[len - 1]

CString(buf) == SubSeq(buf, 1, SelectInSeq(Append(buf, NUL), LAMBDA c : c = NUL) - 1)

\* Mutant of GetLine: the seek forgets the end of line.
GetLineShort(file, pos, buf) ==
  LET len == Len(buf)
      br == IF Len(file) - pos < len THEN Len(file) - pos ELSE len
      b == [i \in 1 .. len |-> IF i = len THEN NUL ELSE IF i <= br THEN file[pos + i] ELSE buf[i]]
      i == SelectInSeq(b, LAMBDA c : c = NL)
      end == IF i > 1 /\ b[i - 1] = CR THEN i - 1 ELSE i
  IN  IF br = 0 THEN [res |-> "INVALID_OBJECT", pos |-> pos]
      ELSE IF i = 0 THEN [res |-> "INVALID_PARAMETER", pos |-> pos + br]
      ELSE [res |-> "OK", line |-> CString([b EXCEPT ![end] = NUL]), pos |-> pos + i - 1]

\* f_getline at pos: it reads up to len characters over what buf holds, and seeks
\* back to the end of the line.
GetLine(file, pos, buf) ==
  LET len == Len(buf)
      br == IF Len(file) - pos < len THEN Len(file) - pos ELSE len
      b == [i \in 1 .. len |-> IF i = len THEN NUL ELSE IF i <= br THEN file[pos + i] ELSE buf[i]]
      i == SelectInSeq(b, LAMBDA c : c = NL)
      end == IF i > 1 /\ b[i - 1] = CR THEN i - 1 ELSE i
  IN  IF br = 0 THEN [res |-> "INVALID_OBJECT", pos |-> pos]
      ELSE IF i = 0 THEN [res |-> "INVALID_PARAMETER", pos |-> pos + br]
      ELSE [res |-> "OK", line |-> CString([b EXCEPT ![end] = NUL]), pos |-> pos + i]

=============================================================================
