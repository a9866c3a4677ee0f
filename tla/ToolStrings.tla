------------------------------ MODULE ToolStrings ------------------------------
(***************************************************************************)
(* The string functions of backup/tool/tool.c over short strings, against  *)
(* what they compute.  A string is the sequence of its characters' codes,  *)
(* without the 0 at its end.  Each function is its loop, as a recursive    *)
(* function of the loop's variables.                                       *)
(***************************************************************************)
EXTENDS Integers, Sequences

CONSTANTS
  Characters,  \* codes of characters
  MaxLength    \* bound on the strings

ASSUME StringsAssumption == Characters \subseteq 1 .. 127 /\ MaxLength \in Nat

VARIABLES
  strsGiven,  \* whether strings are given
  str1, str2  \* which

stringVars == <<strsGiven, str1, str2>>

Strings == UNION {[1 .. n -> Characters] : n \in 0 .. MaxLength}
AII_ERROR == -1

StringsInit == strsGiven = FALSE /\ str1 = << >> /\ str2 = << >>
StringsNext == ~strsGiven /\ strsGiven' = TRUE /\ \E a, b \in Strings : str1' = a /\ str2' = b
StringsSpec == StringsInit /\ [][StringsNext]_stringVars

-----------------------------------------------------------------------------
(* The character at index i, counted from 1; the 0 behind the last.         *)
CharAt(s, i) == IF i \in 1 .. Len(s) THEN s[i] ELSE 0
Positions == 1 .. MaxLength + 1

lower(c) == IF c \in 65 .. 90 THEN c + 32 ELSE c

(* Each index stays at its string's end.                                    *)
Onward(s, i) == IF CharAt(s, i) = 0 THEN i ELSE i + 1

strcmplow(s1, s2) ==
  LET cmp[p \in Positions \X Positions] ==
        IF CharAt(s1, p[1]) = 0 /\ CharAt(s2, p[2]) = 0 THEN 0
        ELSE LET d == lower(CharAt(s1, p[1])) - lower(CharAt(s2, p[2]))
             IN IF d # 0 THEN d ELSE cmp[<<Onward(s1, p[1]), Onward(s2, p[2])>>]
  IN cmp[<<1, 1>>]

(* With what is left of n.                                                  *)
strcmpn(s1, s2, n) ==
  LET cmp[p \in Positions \X (0 .. n)] ==
        IF (CharAt(s1, p[1]) = 0 /\ CharAt(s2, p[1]) = 0) \/ p[2] = 0 THEN 0
        ELSE LET d == CharAt(s1, p[1]) - CharAt(s2, p[1])
             IN IF d # 0 THEN d ELSE cmp[<<p[1] + 1, p[2] - 1>>]
  IN cmp[<<1, n>>]

(* strcmp compares to the end of both: only a match at the end counts.      *)
findstr(original_str, match_str) ==
  LET find[i \in Positions] ==
        IF CharAt(original_str, i) = 0 THEN AII_ERROR
        ELSE IF CharAt(original_str, i) = CharAt(match_str, 1)
                /\ SubSeq(original_str, i, Len(original_str)) = match_str
             THEN i - 1
        ELSE find[i + 1]
  IN find[1]

SameChar(a, b) == a = b
SameLetter(a, b) == lower(a) = lower(b)

findchar(c, str, case_sensitive) ==
  LET find[i \in Positions] ==
        IF CharAt(str, i) = 0 THEN AII_ERROR
        ELSE IF (IF case_sensitive = 1 THEN SameChar(c, str[i]) ELSE SameLetter(c, str[i]))
             THEN i - 1
        ELSE find[i + 1]
  IN find[1]

(* From the last one down.                                                  *)
strmatch(n, strarray, cs) ==
  LET find[k \in 0 .. n] ==
        IF k = 0 THEN AII_ERROR
        ELSE IF strcmplow(strarray[k], cs) = 0 THEN k - 1 ELSE find[k - 1]
  IN find[n]

byte_sum(buf, len) ==
  LET sum[k \in 0 .. len] == IF k = 0 THEN 0 ELSE sum[k - 1] + buf[k]
  IN sum[len]

bezeros(n, p) == [i \in DOMAIN p |-> IF i \in 1 .. n THEN 0 ELSE p[i]]
zeros(n, p) == bezeros(n, p)

(* One line of what is left in the file, and what is left after it.  An     *)
(* empty line is answered with AII_ERROR, like the end.                     *)
Newline == 10
EndOfLine(s, n) == n = Len(s) + 1 \/ CharAt(s, n) = Newline
getline(s) ==
  LET n == CHOOSE k \in 1 .. Len(s) + 1 : EndOfLine(s, k) /\ \A i \in 1 .. k - 1 : ~EndOfLine(s, i)
  IN [count |-> IF n = 1 THEN AII_ERROR ELSE n - 1,
      line |-> SubSeq(s, 1, n - 1), rest |-> SubSeq(s, n + 1, Len(s))]

-----------------------------------------------------------------------------
(* What the functions are for.                                              *)
Lowered(s) == [i \in DOMAIN s |-> lower(s[i])]
Prefix(s, n) == SubSeq(s, 1, IF n < Len(s) THEN n ELSE Len(s))

(* In the order of a dictionary.                                            *)
Before(a, b) ==
  \E i \in Positions :
    /\ CharAt(a, i) < CharAt(b, i)
    /\ \A j \in 1 .. i - 1 : CharAt(a, j) = CharAt(b, j)

Agrees(cmp, a, b) == (cmp = 0 <=> a = b) /\ (cmp < 0 <=> Before(a, b))

(* The first of places, counted from 0, or AII_ERROR.                       *)
IsFirst(r, places) ==
  IF r = AII_ERROR THEN places = {}
  ELSE r + 1 \in places /\ \A i \in places : r + 1 <= i

Occurs(match_str, str, i) ==
  i + Len(match_str) - 1 <= Len(str) /\ SubSeq(str, i, i + Len(match_str) - 1) = match_str
Endings(match_str, str) == {i \in DOMAIN str : SubSeq(str, i, Len(str)) = match_str}

(* "OSI_ERROR or index of matched string" (tool.c:116).                     *)
IsPlace(r, match_str, str) ==
  IF r = AII_ERROR THEN Endings(match_str, str) = {} ELSE Occurs(match_str, str, r + 1)

(* An index of a match in strarray, or AII_ERROR if it has none.            *)
IsMatch(r, strarray, cs) ==
  IF r = AII_ERROR THEN \A k \in DOMAIN strarray : Lowered(strarray[k]) # Lowered(cs)
  ELSE r + 1 \in DOMAIN strarray /\ Lowered(strarray[r + 1]) = Lowered(cs)

(* What getline takes behind a line: nothing at the end of the file.        *)
LineEnd(line, s) == IF Len(line) = Len(s) THEN << >> ELSE <<Newline>>

(* The comparisons tell equal strings and their order, up to case or up to  *)
(* a length; findchar answers with the first place.  findstr's answer is a  *)
(* place where the string stands and strmatch's a string that matches, up   *)
(* to case, or there is none: none at the end for findstr, which overlooks  *)
(* the others (FindstrFindsMatches), and not always the first for strmatch, *)
(* as tool.c:333 has it.  The lines of a file put together again are the    *)
(* file.                                                                    *)
StringsAsTold == strsGiven =>
    /\ Agrees(strcmplow(str1, str2), Lowered(str1), Lowered(str2))
    /\ \A n \in 0 .. MaxLength : Agrees(strcmpn(str1, str2, n), Prefix(str1, n), Prefix(str2, n))
    /\ str2 # << >> => IsPlace(findstr(str1, str2), str2, str1)
    /\ \A c \in Characters :
         /\ IsFirst(findchar(c, str1, 1), {i \in DOMAIN str1 : str1[i] = c})
         /\ IsFirst(findchar(c, str1, 0), {i \in DOMAIN str1 : lower(str1[i]) = lower(c)})
    /\ \A strarray \in {<<str1, str2>>, <<str2, str1>>, <<str1, str1>>} :
         IsMatch(strmatch(2, strarray, str2), strarray, str2)
    /\ byte_sum(str1 \o str2, Len(str1 \o str2)) =
         byte_sum(str1, Len(str1)) + byte_sum(str2, Len(str2))
    /\ \A n \in 0 .. Len(str1) : byte_sum(zeros(n, str1), n) = 0
    /\ LET r == getline(str1)
       IN /\ str1 = r.line \o LineEnd(r.line, str1) \o r.rest
          /\ r.count = AII_ERROR <=> r.line = << >>
          /\ \A i \in DOMAIN r.line : r.line[i] # Newline

(* "find a matched string from a original string" (tool.c:111): findstr     *)
(* finds a string wherever it stands, as the reading of "parameter=value"   *)
(* lines counts on (configPars.c:126).                                      *)
FindstrFindsMatches ==
  strsGiven /\ str2 # << >> /\ (\E i \in DOMAIN str1 : Occurs(str2, str1, i))
    => findstr(str1, str2) # AII_ERROR
=============================================================================
