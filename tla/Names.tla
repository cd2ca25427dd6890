--------------------------------- MODULE Names --------------------------------
(***************************************************************************)
(* Names in firmware/ff.c: a path is read by get_ldnumber and create_name, *)
(* a directory entry shown by get_fileinfo, a name compared with a pattern *)
(* by pattern_matching.  A string is a sequence of one-character strings;  *)
(* its terminator is its end.                                              *)
(***************************************************************************)
EXTENDS Integers, Sequences, FiniteSets, SequencesExt

CONSTANTS Body, Ext   \* characters of the name body and of the extension: 8 and 3

ASSUME NamesAssumption == {Body, Ext} \subseteq Nat \ {0}

Separators == {"/", "\\"}
Illegal == {"*", "?", ":", "x80"}   \* of the characters used; x80 is any extended one
Up(c) == IF c = "a" THEN "A" ELSE IF c = "b" THEN "B" ELSE c

\* get_ldnumber: the volume, or -1, and the rest of the path.
LdNumber(p) ==
  LET end == {i \in DOMAIN p : p[i] \in {":", " "}}
      tt == IF end = {} THEN Len(p) + 1 ELSE CHOOSE i \in end : \A j \in end : i <= j
  IN  IF tt > Len(p) \/ p[tt] # ":" THEN [vol |-> 0, path |-> p]
      ELSE IF tt = 2 /\ p[1] = "0" THEN [vol |-> 0, path |-> SubSeq(p, tt + 1, Len(p))]
      ELSE [vol |-> 0 - 1, path |-> p]

-----------------------------------------------------------------------------
(* create_name.  The state of its loop: the fn being filled, the index in  *)
(* it, the limit of the part that is filled, and why the loop has stopped. *)

Spaces == [i \in 1 .. Body + Ext |-> " "]
Start == [fn |-> Spaces, i |-> 0, ni |-> Body, stop |-> ""]

Take(s, c) ==
  IF s.stop # "" THEN s
  ELSE IF c = " " THEN [s EXCEPT !.stop = "last"]
  ELSE IF c \in Separators THEN [s EXCEPT !.stop = "sep"]
  ELSE IF c = "." \/ s.i >= s.ni THEN
    IF s.ni = Body + Ext \/ c # "." THEN [s EXCEPT !.stop = "invalid"]
    ELSE [s EXCEPT !.i = Body, !.ni = Body + Ext]
  ELSE IF c \in Illegal THEN [s EXCEPT !.stop = "invalid"]
  ELSE [s EXCEPT !.fn[s.i + 1] = Up(c), !.i = @ + 1]

\* FR_OK with the name and whether it is the last of the path.
CreateName(p) ==
  LET s == FoldLeft(Take, Start, p)
  IN  IF s.stop = "invalid" \/ s.i = 0 THEN [res |-> "INVALID_NAME"]
      ELSE [res |-> "OK", fn |-> s.fn, last |-> s.stop # "sep"]

\* A path of one name, from the string the application gives.
OpenName(path) ==
  LET d == LdNumber(path)
      from == SelectInSeq(d.path, LAMBDA c : c \notin Separators)
  IN  IF d.vol # 0 THEN [res |-> "INVALID_DRIVE"]
      ELSE IF from = 0 THEN [res |-> "ROOT"]
      ELSE CreateName(SubSeq(d.path, from, Len(d.path)))

\* Mutant of FileInfo: the dot before the extension is missing.
FileInfoNoDot(fn) == SelectSeq(fn, LAMBDA c : c # " ")

\* get_fileinfo: the name of an entry.
FileInfo(fn) ==
  LET chars == [i \in DOMAIN fn |->
                  IF fn[i] = " " THEN <<>>
                  ELSE IF i = Body + 1 THEN <<".", fn[i]>>
                  ELSE <<fn[i]>>]
  IN  FlattenSeq(chars)

-----------------------------------------------------------------------------
(* pattern_matching.                                                       *)

Wild == {"?", "*"}

\* How many characters agree, from p in the pattern and k in the name, before a
\* wildcard, an end or a difference.
Same(pat, nam, p, k) ==
  CHOOSE j \in 0 .. Len(pat) + 1 - p :
    /\ \A i \in 0 .. j - 1 : /\ pat[p + i] \notin Wild /\ k + i <= Len(nam)
                             /\ Up(pat[p + i]) = nam[k + i]
    /\ p + j > Len(pat) \/ k + j > Len(nam) \/ pat[p + j] \in Wild \/ Up(pat[p + j]) # nam[k + j]

\* Mutant of Starts: the search ends with the first mismatch.
StartsOnce(pat, nam, p, from, inf) == {from}

\* The places where the comparison is begun: with a '*' before, until one runs
\* into the end of the name.
Starts(pat, nam, p, from, inf) ==
  {k \in from .. Len(nam) + 1 :
     k = from \/ (inf /\ \A i \in from .. k - 1 : i + Same(pat, nam, p, i) <= Len(nam))}

PatternMatching(pat, nam) ==
  LET \* The first place after p that is no wildcard.
      past(p) == CHOOSE q \in p .. Len(pat) + 1 :
                   /\ \A i \in p .. q - 1 : pat[i] \in Wild
                   /\ q > Len(pat) \/ pat[q] \notin Wild
      count(p, w) == Cardinality({i \in p .. past(p) - 1 : pat[i] = w})
      match[p \in 1 .. Len(pat) + 1, n \in 1 .. Len(nam) + 1, skip \in 0 .. Len(pat), inf \in BOOLEAN] ==
        /\ n + skip <= Len(nam) + 1
        /\ \/ p > Len(pat) /\ inf
           \/ \E k \in Starts(pat, nam, p, n + skip, inf) :
                LET j == Same(pat, nam, p, k)
                IN  IF p + j <= Len(pat) /\ pat[p + j] \in Wild
                    THEN match[past(p + j), k + j, count(p + j, "?"), count(p + j, "*") > 0]
                    ELSE p + j > Len(pat) /\ k + j > Len(nam)
  IN  match[1, 1, 0, FALSE]

=============================================================================
