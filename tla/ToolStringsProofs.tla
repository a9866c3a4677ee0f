--------------------------- MODULE ToolStringsProofs ---------------------------
(***************************************************************************)
(* Proofs about ToolStrings: its functions, for any characters and strings *)
(* of any length.  The library's theorems of induction take an operator,   *)
(* which the provers cannot instantiate; what is used here is that Nat is  *)
(* well founded, in the form of sets.  From it follow the least number,    *)
(* induction, and two facts about loops: a loop that has less left to do   *)
(* with every turn defines a function (LoopDefined), and what it answers   *)
(* is what its invariant says at its end (LoopRule).                       *)
(***************************************************************************)
EXTENDS ToolStrings, WellFoundedInduction, SequenceTheorems, TLAPS

-----------------------------------------------------------------------------
(* Induction.                                                               *)
Below == {ss \in Nat \X Nat : ss[1] < ss[2]}

LEMMA BelowWellFounded == IsWellFoundedOn(Below, Nat)
<1>1. OpToRel(<, Nat) = Below
  BY Zenon DEF OpToRel, Below
<1> QED
  BY Zenon, <1>1, NatLessThanWellFounded

(* Every set of naturals that is not empty has a least one.                 *)
LEMMA LeastNat ==
  ASSUME NEW T, T \subseteq Nat, T # {}
  PROVE  \E m \in T : \A k \in T : m <= k
<1>2. PICK m \in T : \A k \in T : <<k, m>> \notin Below
  BY BelowWellFounded, WFMin
<1>3. \A k \in T : k < m => <<k, m>> \in Below
  BY DEF Below
<1>4. \A k \in T : m <= k
  <2> TAKE k \in T
  <2>1. k \in Nat /\ m \in Nat
    OBVIOUS
  <2>2. ~(k < m)
    BY <1>2, <1>3
  <2> QED
    BY <2>1, <2>2
<1> QED
  BY <1>4

(* Induction over the naturals, of a set in the place of a predicate.       *)
LEMMA NatSetInduction ==
  ASSUME NEW S, 0 \in S, \A n \in Nat : n \in S => n + 1 \in S
  PROVE  Nat \subseteq S
<1> SUFFICES ASSUME Nat \ S # {} PROVE FALSE
  OBVIOUS
<1>1. PICK m \in Nat \ S : \A k \in Nat \ S : m <= k
  BY LeastNat
<1>2. m # 0 /\ m - 1 \in Nat
  BY <1>1
<1>3. m - 1 \in S
  BY <1>1, <1>2
<1> QED
  BY <1>1, <1>2, <1>3

-----------------------------------------------------------------------------
(* Loops: x is where the loop is, it ends at a member of stop with val[x],  *)
(* and else goes on from next[x], with less left to do.                     *)
IsLoop(D, stop, next, left, bound) ==
  /\ bound \in Nat
  /\ \A x \in D : left[x] \in Nat /\ left[x] <= bound
  /\ \A x \in D : x \notin stop => next[x] \in D /\ left[next[x]] < left[x]

Loops(f, D, stop, val, next) ==
  f = [x \in D |-> IF x \in stop THEN val[x] ELSE f[next[x]]]

LEMMA LoopDefined ==
  ASSUME NEW D, NEW stop, NEW val, NEW next, NEW left, NEW bound,
         IsLoop(D, stop, next, left, bound)
  PROVE  \E f : Loops(f, D, stop, val, next)
<1> DEFINE Solves(g, n) ==
      \A x \in D : left[x] < n => g[x] = IF x \in stop THEN val[x] ELSE g[next[x]]
           S == {n \in Nat : \E g : Solves(g, n)}
<1>1. 0 \in S
  <2>1. Solves(val, 0)
    BY DEF IsLoop
  <2> QED
    BY <2>1
<1>2. ASSUME NEW n \in Nat, n \in S
      PROVE  n + 1 \in S
  <2>1. PICK g : Solves(g, n)
    BY <1>2
  <2> DEFINE h == [x \in D |-> IF left[x] < n THEN g[x]
                               ELSE IF x \in stop THEN val[x] ELSE g[next[x]]]
  <2>2. ASSUME NEW x \in D, left[x] < n + 1
        PROVE  h[x] = IF x \in stop THEN val[x] ELSE h[next[x]]
    <3>1. CASE x \in stop
      BY <2>1, <3>1
    <3>2. CASE x \notin stop
      <4>1. next[x] \in D /\ left[next[x]] < n
        BY <2>2, <3>2 DEF IsLoop
      <4>2. h[next[x]] = g[next[x]]
        BY <4>1
      <4>3. h[x] = g[next[x]]
        BY <2>1, <3>2
      <4> QED
        BY <4>2, <4>3, <3>2
    <3> QED
      BY <3>1, <3>2
  <2> HIDE DEF h
  <2>3. Solves(h, n + 1)
    BY <2>2
  <2> QED
    BY <2>3
<1>3. Nat \subseteq S
  <2> HIDE DEF S
  <2> QED
    BY <1>1, <1>2, NatSetInduction
<1>4. bound + 1 \in S
  BY <1>3 DEF IsLoop
<1>5. PICK g : Solves(g, bound + 1)
  BY <1>4
<1> DEFINE f == [x \in D |-> g[x]]
<1>6. ASSUME NEW x \in D
      PROVE  f[x] = IF x \in stop THEN val[x] ELSE f[next[x]]
  <2>1. left[x] < bound + 1
    BY DEF IsLoop
  <2>2. x \notin stop => next[x] \in D
    BY DEF IsLoop
  <2> QED
    BY <1>5, <2>1, <2>2
<1>7. f = [x \in D |-> IF x \in stop THEN val[x] ELSE f[next[x]]]
  BY <1>6
<1> QED
  BY <1>7 DEF Loops

(* What holds at the start and is kept by every turn holds at the end.      *)
LEMMA LoopRule ==
  ASSUME NEW D, NEW stop, NEW val, NEW next, NEW left, NEW bound,
         IsLoop(D, stop, next, left, bound),
         NEW f, Loops(f, D, stop, val, next),
         NEW I, I \subseteq D, NEW start \in I,
         \A x \in I : x \notin stop => next[x] \in I
  PROVE  \E x \in I : x \in stop /\ f[start] = val[x]
<1> DEFINE T == {n \in Nat : \E x \in I : left[x] = n /\ f[x] = f[start]}
<1>1. T # {}
  <2>1. left[start] \in T
    BY DEF IsLoop
  <2> QED
    BY <2>1
<1>2. PICK n \in T : \A m \in T : n <= m
  BY <1>1, LeastNat
<1>3. PICK x \in I : left[x] = n /\ f[x] = f[start]
  OBVIOUS
<1>4. ASSUME x \notin stop
      PROVE  FALSE
  <2>1. f[x] = f[next[x]]
    BY <1>4 DEF Loops
  <2>2. next[x] \in I
    BY <1>4
  <2>3. left[next[x]] \in Nat /\ left[next[x]] < n
    BY <1>3, <1>4, <2>2 DEF IsLoop
  <2>4. left[next[x]] \in T
    BY <1>3, <2>1, <2>2, <2>3
  <2> QED
    BY <1>2, <2>3, <2>4
<1>5. f[x] = val[x]
  BY <1>4 DEF Loops
<1> QED
  BY <1>3, <1>4, <1>5

-----------------------------------------------------------------------------
(* Strings of characters that are not 0.                                    *)
Words == {s \in Seq(Nat \ {0}) : Len(s) <= MaxLength}

LEMMA StringIsWord ==
  ASSUME NEW s \in Strings
  PROVE  s \in Words
<1>1. PICK n \in 0 .. MaxLength : s \in [1 .. n -> Characters]
  BY DEF Strings
<1>2. n \in Nat /\ n <= MaxLength /\ \A c \in Characters : c \in Nat \ {0}
  BY StringsAssumption
<1>3. s \in [1 .. n -> Nat \ {0}]
  BY <1>1, <1>2
<1>4. s \in Seq(Nat \ {0}) /\ Len(s) = n
  BY <1>2, <1>3
<1> QED
  BY <1>2, <1>4 DEF Words

LEMMA CharAtWord ==
  ASSUME NEW s \in Words
  PROVE  /\ Len(s) \in Nat /\ Len(s) <= MaxLength /\ MaxLength \in Nat
         /\ \A i \in Nat \ {0} :
              /\ CharAt(s, i) \in Nat
              /\ i <= Len(s) => CharAt(s, i) = s[i] /\ CharAt(s, i) # 0
              /\ CharAt(s, i) # 0 => i <= Len(s)
<1>1. s \in Seq(Nat \ {0}) /\ Len(s) \in Nat /\ Len(s) <= MaxLength
  BY DEF Words
<1>2. \A i \in 1 .. Len(s) : s[i] \in Nat \ {0}
  BY <1>1
<1> QED
  BY <1>1, <1>2, StringsAssumption DEF CharAt

-----------------------------------------------------------------------------
(* The searches: a loop over the positions of a string that ends at its end *)
(* or at the first of Hits.                                                 *)
Searches(f, str, Hits) ==
  f = [i \in Positions |->
        IF CharAt(str, i) = 0 THEN AII_ERROR ELSE IF i \in Hits THEN i - 1 ELSE f[i + 1]]

SearchStop(str, Hits) == {i \in Positions : CharAt(str, i) = 0 \/ i \in Hits}
SearchVal(str) == [i \in Positions |-> IF CharAt(str, i) = 0 THEN AII_ERROR ELSE i - 1]
SearchNext == [i \in Positions |-> i + 1]
SearchLeft == [i \in Positions |-> MaxLength + 1 - i]

LEMMA SearchIsLoop ==
  ASSUME NEW str \in Words, NEW Hits
  PROVE  /\ IsLoop(Positions, SearchStop(str, Hits), SearchNext, SearchLeft, MaxLength)
         /\ \A f : Loops(f, Positions, SearchStop(str, Hits), SearchVal(str), SearchNext)
                     <=> Searches(f, str, Hits)
<1>1. MaxLength \in Nat
  BY StringsAssumption
<1>2. \A i \in Positions : i \in Nat \ {0} /\ i <= MaxLength + 1
  BY <1>1 DEF Positions
<1>3. ASSUME NEW i \in Positions, i \notin SearchStop(str, Hits)
      PROVE  i + 1 \in Positions
  <2>1. CharAt(str, i) # 0
    BY <1>3 DEF SearchStop
  <2>2. i <= MaxLength
    BY <1>2, <2>1, CharAtWord
  <2> QED
    BY <1>1, <1>2, <2>2 DEF Positions
<1>4. IsLoop(Positions, SearchStop(str, Hits), SearchNext, SearchLeft, MaxLength)
  BY <1>1, <1>2, <1>3 DEF IsLoop, SearchNext, SearchLeft
<1>5. ASSUME NEW f
      PROVE  Loops(f, Positions, SearchStop(str, Hits), SearchVal(str), SearchNext)
               <=> Searches(f, str, Hits)
  BY DEF Loops, Searches, SearchStop, SearchVal, SearchNext
<1> QED
  BY <1>4, <1>5

LEMMA SearchFinds ==
  ASSUME NEW str \in Words, NEW Hits, Hits \subseteq DOMAIN str,
         NEW f, Searches(f, str, Hits)
  PROVE  IsFirst(f[1], Hits)
<1> DEFINE I == {i \in Positions : \A j \in 1 .. i - 1 : j \notin Hits}
<1>1. MaxLength \in Nat /\ Len(str) \in Nat /\ DOMAIN str = 1 .. Len(str)
  BY StringsAssumption, CharAtWord DEF Words
<1>2. 1 \in I
  BY <1>1 DEF Positions
<1>3. ASSUME NEW i \in I, i \notin SearchStop(str, Hits)
      PROVE  SearchNext[i] \in I
  <2>1. i \in Nat \ {0} /\ CharAt(str, i) # 0 /\ i \notin Hits
    BY <1>1, <1>3 DEF SearchStop, Positions
  <2>2. i <= Len(str)
    BY <2>1, CharAtWord
  <2>3. i + 1 \in Positions /\ SearchNext[i] = i + 1
    BY <1>1, <2>1, <2>2, CharAtWord DEF Positions, SearchNext
  <2>4. \A j \in 1 .. (i + 1) - 1 : j \notin Hits
    BY <2>1, <2>2
  <2> QED
    BY <2>3, <2>4
<1>4. PICK i \in I : i \in SearchStop(str, Hits) /\ f[1] = SearchVal(str)[i]
  <2> HIDE DEF I
  <2>1. I \subseteq Positions
    BY DEF I
  <2> QED
    BY <1>2, <1>3, <2>1, SearchIsLoop, LoopRule
<1>5. /\ i \in Nat \ {0}
      /\ \A j \in 1 .. i - 1 : j \notin Hits
      /\ CharAt(str, i) = 0 \/ i \in Hits
      /\ f[1] = IF CharAt(str, i) = 0 THEN AII_ERROR ELSE i - 1
  BY <1>1, <1>4 DEF SearchStop, SearchVal, Positions
<1>6. CASE CharAt(str, i) = 0
  <2>1. \A j \in 1 .. Len(str) : j < i
    BY <1>5, <1>6, CharAtWord
  <2> QED
    BY <1>1, <1>5, <1>6, <2>1 DEF IsFirst
<1>7. CASE CharAt(str, i) # 0
  <2>1. \A j \in Hits : j \in Nat /\ i <= j
    BY <1>1, <1>5
  <2> QED
    BY <1>5, <1>7, <2>1 DEF AII_ERROR, IsFirst
<1> QED
  BY <1>6, <1>7

LEMMA FindcharFinds ==
  ASSUME NEW c, NEW str \in Words, NEW cs, NEW Hits, Hits \subseteq DOMAIN str,
         \A i \in DOMAIN str : i \in Hits <=>
           (IF cs = 1 THEN SameChar(c, str[i]) ELSE SameLetter(c, str[i]))
  PROVE  IsFirst(findchar(c, str, cs), Hits)
<1> DEFINE Is(f) ==
      f = [i \in Positions |->
            IF CharAt(str, i) = 0 THEN AII_ERROR
            ELSE IF (IF cs = 1 THEN SameChar(c, str[i]) ELSE SameLetter(c, str[i]))
                 THEN i - 1
            ELSE f[i + 1]]
<1>1. findchar(c, str, cs) = (CHOOSE f : Is(f))[1]
  BY Zenon DEF findchar
<1>2. \A i \in Positions : CharAt(str, i) # 0 => i \in DOMAIN str
  BY DEF CharAt, Words
<1>3. \A f : Is(f) <=> Searches(f, str, Hits)
  BY <1>2 DEF Searches
<1>4. \E f : Searches(f, str, Hits)
  BY SearchIsLoop, LoopDefined
<1> HIDE DEF Is
<1>5. Is(CHOOSE f : Is(f))
  BY Zenon, <1>3, <1>4
<1> QED
  BY <1>1, <1>3, <1>5, SearchFinds

(* strcmp at i: what is left of the string is match_str.                    *)
LEMMA FindstrFinds ==
  ASSUME NEW str \in Words, NEW match_str \in Words, match_str # << >>
  PROVE  IsFirst(findstr(str, match_str),
                 {i \in DOMAIN str : SubSeq(str, i, Len(str)) = match_str})
<1> DEFINE Hits == {i \in DOMAIN str : SubSeq(str, i, Len(str)) = match_str}
           Is(f) ==
             f = [i \in Positions |->
                   IF CharAt(str, i) = 0 THEN AII_ERROR
                   ELSE IF CharAt(str, i) = CharAt(match_str, 1)
                           /\ SubSeq(str, i, Len(str)) = match_str
                        THEN i - 1
                   ELSE f[i + 1]]
<1>1. findstr(str, match_str) = (CHOOSE f : Is(f))[1]
  BY Zenon DEF findstr
<1>2. \A i \in Positions : CharAt(str, i) # 0 => i \in DOMAIN str
  BY DEF CharAt, Words
<1>3. ASSUME NEW i \in DOMAIN str, SubSeq(str, i, Len(str)) = match_str
      PROVE  CharAt(str, i) = CharAt(match_str, 1)
  <2>1. str \in Seq(Nat \ {0}) /\ Len(str) \in Nat /\ i \in 1 .. Len(str)
    BY DEF Words
  <2> DEFINE m == Len(str)
  <2>2. /\ Len(SubSeq(str, i, m)) = m - i + 1
        /\ SubSeq(str, i, m)[1] = str[i]
    <3>1. m \in i - 1 .. Len(str) /\ i \in 1 .. Len(str) + 1
      BY <2>1
    <3>2. 1 \in 1 .. m - i + 1 /\ str[i + 1 - 1] = str[i]
      BY <2>1
    <3> QED
      BY <2>1, <3>1, <3>2, SubSeqProperties
  <2>3. Len(match_str) \in Nat /\ Len(match_str) >= 1 /\ match_str[1] = str[i]
    BY <1>3, <2>1, <2>2
  <2> QED
    BY <2>1, <2>3 DEF CharAt
<1>4. \A f : Is(f) <=> Searches(f, str, Hits)
  BY <1>2, <1>3 DEF Searches
<1>5. \E f : Searches(f, str, Hits)
  BY SearchIsLoop, LoopDefined
<1> HIDE DEF Is
<1>6. Is(CHOOSE f : Is(f))
  BY Zenon, <1>4, <1>5
<1> QED
  BY <1>1, <1>4, <1>6, SearchFinds

-----------------------------------------------------------------------------
(* The comparisons: up to k the strings are the same, and there the answer  *)
(* is the difference, or both end.                                          *)
LEMMA ComparedAt ==
  ASSUME NEW a \in Words, NEW b \in Words, NEW k \in Positions,
         \A j \in 1 .. k - 1 : CharAt(a, j) = CharAt(b, j),
         NEW cmp, cmp = CharAt(a, k) - CharAt(b, k),
         cmp = 0 => CharAt(a, k) = 0
  PROVE  Agrees(cmp, a, b)
<1>1. MaxLength \in Nat /\ k \in Nat \ {0}
  BY StringsAssumption DEF Positions
<1>2. CharAt(a, k) \in Nat /\ CharAt(b, k) \in Nat
  BY <1>1, CharAtWord
<1>3. ASSUME cmp = 0
      PROVE  a = b
  <2>1. CharAt(a, k) = 0 /\ CharAt(b, k) = 0
    BY <1>2, <1>3
  <2>2. Len(a) < k /\ Len(b) < k /\ Len(a) \in Nat /\ Len(b) \in Nat
    BY <1>1, <2>1, CharAtWord
  <2>3. Len(a) <= Len(b)
    <3> SUFFICES ASSUME Len(b) < Len(a) PROVE FALSE
      BY <2>2
    <3>1. CharAt(a, Len(a)) # 0 /\ CharAt(b, Len(a)) = 0
      BY <2>2, CharAtWord
    <3> QED
      BY <1>1, <2>2, <3>1
  <2>4. Len(b) <= Len(a)
    <3> SUFFICES ASSUME Len(a) < Len(b) PROVE FALSE
      BY <2>2
    <3>1. CharAt(b, Len(b)) # 0 /\ CharAt(a, Len(b)) = 0
      BY <2>2, CharAtWord
    <3> QED
      BY <1>1, <2>2, <3>1
  <2>5. \A j \in 1 .. Len(a) : a[j] = b[j]
    <3> TAKE j \in 1 .. Len(a)
    <3>1. j \in Nat \ {0} /\ j <= Len(a) /\ j <= Len(b) /\ j \in 1 .. k - 1
      BY <1>1, <2>2, <2>3, <2>4
    <3> QED
      BY <3>1, CharAtWord
  <2> QED
    BY <2>2, <2>3, <2>4, <2>5, SeqEqual DEF Words
<1>4. ASSUME cmp # 0
      PROVE  a # b
  BY <1>2, <1>4
<1>5. ASSUME cmp < 0
      PROVE  Before(a, b)
  <2>1. CharAt(a, k) < CharAt(b, k)
    BY <1>2, <1>5
  <2> QED
    BY <2>1 DEF Before
<1>6. ASSUME Before(a, b)
      PROVE  cmp < 0
  <2>1. PICK i \in Positions : /\ CharAt(a, i) < CharAt(b, i)
                               /\ \A j \in 1 .. i - 1 : CharAt(a, j) = CharAt(b, j)
    BY <1>6 DEF Before
  <2>2. i \in Nat \ {0} /\ CharAt(a, i) \in Nat /\ CharAt(b, i) \in Nat
    BY <2>1, StringsAssumption, CharAtWord DEF Positions
  <2>3. ~(i < k)
    BY <1>1, <2>1, <2>2
  <2>4. CASE i = k
    BY <1>2, <2>1, <2>4
  <2>5. CASE k < i
    <3>1. CharAt(a, k) = CharAt(b, k)
      BY <1>1, <2>1, <2>2, <2>5
    <3>2. CharAt(a, k) = 0 /\ CharAt(b, k) = 0
      BY <1>2, <3>1
    <3>3. CharAt(b, i) # 0
      BY <2>1, <2>2
    <3>4. k <= Len(b) /\ Len(b) \in Nat
      BY <1>1, <2>2, <2>5, <3>3, CharAtWord
    <3> QED
      BY <1>1, <3>2, <3>4, CharAtWord
  <2> QED
    BY <1>1, <2>2, <2>3, <2>4, <2>5
<1>7. cmp \in Int
  BY <1>2
<1> QED
  BY <1>3, <1>4, <1>5, <1>6 DEF Agrees

(* strcmplow: the loop ends where both strings end or their letters differ. *)
Pairs == Positions \X Positions
Differs(a, b, p) == lower(CharAt(a, p[1])) - lower(CharAt(b, p[2]))
LowStop(a, b) ==
  {p \in Pairs : (CharAt(a, p[1]) = 0 /\ CharAt(b, p[2]) = 0) \/ Differs(a, b, p) # 0}
LowVal(a, b) ==
  [p \in Pairs |-> IF CharAt(a, p[1]) = 0 /\ CharAt(b, p[2]) = 0 THEN 0 ELSE Differs(a, b, p)]
LowNext(a, b) == [p \in Pairs |-> <<Onward(a, p[1]), Onward(b, p[2])>>]
LowLeft == [p \in Pairs |-> MaxLength + 1 - p[1]]

LEMMA LowerOf ==
  ASSUME NEW c \in Nat
  PROVE  lower(c) \in Nat /\ (lower(c) = 0 <=> c = 0)
BY DEF lower

LEMMA LowGoesOn ==
  ASSUME NEW a \in Words, NEW b \in Words, NEW p \in Pairs, p \notin LowStop(a, b)
  PROVE  /\ CharAt(a, p[1]) # 0 /\ CharAt(b, p[2]) # 0
         /\ lower(CharAt(a, p[1])) = lower(CharAt(b, p[2]))
         /\ LowNext(a, b)[p] = <<p[1] + 1, p[2] + 1>>
         /\ LowNext(a, b)[p] \in Pairs
<1>1. PICK i \in Positions, j \in Positions : p = <<i, j>> /\ p[1] = i /\ p[2] = j
  BY DEF Pairs
<1>2. MaxLength \in Nat /\ i \in Nat \ {0} /\ j \in Nat \ {0}
  BY <1>1, StringsAssumption DEF Positions
<1>3. CharAt(a, i) \in Nat /\ CharAt(b, j) \in Nat
  BY <1>2, CharAtWord
<1>4. lower(CharAt(a, i)) = lower(CharAt(b, j)) /\ ~(CharAt(a, i) = 0 /\ CharAt(b, j) = 0)
  <2>1. lower(CharAt(a, i)) \in Nat /\ lower(CharAt(b, j)) \in Nat
    BY <1>3, LowerOf
  <2> QED
    BY <1>1, <2>1 DEF LowStop, Differs
<1>5. CharAt(a, i) # 0 /\ CharAt(b, j) # 0
  BY <1>3, <1>4, LowerOf
<1>6. i + 1 \in Positions /\ j + 1 \in Positions
  BY <1>2, <1>5, CharAtWord DEF Positions
<1>7. LowNext(a, b)[p] = <<i + 1, j + 1>>
  BY <1>1, <1>5 DEF LowNext, Onward
<1> QED
  BY <1>1, <1>4, <1>5, <1>6, <1>7 DEF Pairs

LEMMA LowIsLoop ==
  ASSUME NEW a \in Words, NEW b \in Words
  PROVE  IsLoop(Pairs, LowStop(a, b), LowNext(a, b), LowLeft, MaxLength)
<1>1. MaxLength \in Nat
  BY StringsAssumption
<1>2. ASSUME NEW p \in Pairs
      PROVE  /\ LowLeft[p] = MaxLength + 1 - p[1]
             /\ LowLeft[p] \in Nat /\ LowLeft[p] <= MaxLength
             /\ p[1] \in Nat
  BY <1>1 DEF Pairs, Positions, LowLeft
<1>3. ASSUME NEW p \in Pairs, p \notin LowStop(a, b)
      PROVE  LowNext(a, b)[p] \in Pairs /\ LowLeft[LowNext(a, b)[p]] < LowLeft[p]
  <2> DEFINE q == LowNext(a, b)[p]
  <2>1. q \in Pairs /\ q[1] = p[1] + 1
    BY <1>3, LowGoesOn
  <2> QED
    BY <1>1, <1>2, <2>1
<1> QED
  BY <1>1, <1>2, <1>3 DEF IsLoop

LEMMA LoweredWord ==
  ASSUME NEW s \in Words
  PROVE  /\ Lowered(s) \in Words
         /\ \A i \in Nat \ {0} : CharAt(Lowered(s), i) = lower(CharAt(s, i))
<1>1. s \in Seq(Nat \ {0}) /\ Len(s) \in Nat /\ Len(s) <= MaxLength /\ DOMAIN s = 1 .. Len(s)
  BY DEF Words
<1>2. \A i \in 1 .. Len(s) : lower(s[i]) \in Nat \ {0}
  BY <1>1, LowerOf
<1>3. Lowered(s) \in [1 .. Len(s) -> Nat \ {0}]
  BY <1>1, <1>2 DEF Lowered
<1>4. Lowered(s) \in Seq(Nat \ {0}) /\ Len(Lowered(s)) = Len(s)
  BY <1>1, <1>3
<1>5. lower(0) = 0
  BY DEF lower
<1>6. \A i \in 1 .. Len(s) : Lowered(s)[i] = lower(s[i])
  BY <1>1 DEF Lowered
<1> QED
  BY <1>1, <1>4, <1>5, <1>6 DEF Words, CharAt

LEMMA StrcmplowAgrees ==
  ASSUME NEW a \in Words, NEW b \in Words
  PROVE  Agrees(strcmplow(a, b), Lowered(a), Lowered(b))
<1> DEFINE Is(f) ==
      f = [p \in Positions \X Positions |->
            IF CharAt(a, p[1]) = 0 /\ CharAt(b, p[2]) = 0 THEN 0
            ELSE LET d == lower(CharAt(a, p[1])) - lower(CharAt(b, p[2]))
                 IN IF d # 0 THEN d ELSE f[<<Onward(a, p[1]), Onward(b, p[2])>>]]
           f == CHOOSE g : Is(g)
           I == {p \in Pairs : /\ p[1] = p[2]
                               /\ \A j \in 1 .. p[1] - 1 :
                                    lower(CharAt(a, j)) = lower(CharAt(b, j))}
<1>1. strcmplow(a, b) = f[<<1, 1>>]
  BY Zenon DEF strcmplow
<1>2. \A g : Is(g) <=> Loops(g, Pairs, LowStop(a, b), LowVal(a, b), LowNext(a, b))
  BY DEF Loops, Pairs, LowStop, LowVal, LowNext, Differs
<1>3. \E g : Loops(g, Pairs, LowStop(a, b), LowVal(a, b), LowNext(a, b))
  BY LowIsLoop, LoopDefined
<1> HIDE DEF Is
<1>4. Is(f)
  BY Zenon, <1>2, <1>3
<1> HIDE DEF f
<1>5. MaxLength \in Nat
  BY StringsAssumption
<1>6. <<1, 1>> \in I
  BY <1>5 DEF Pairs, Positions
<1>7. ASSUME NEW p \in I, p \notin LowStop(a, b)
      PROVE  LowNext(a, b)[p] \in I
  <2>1. p \in Pairs /\ p[1] = p[2] /\ p[1] \in Nat
    BY <1>5 DEF Pairs, Positions
  <2> DEFINE q == LowNext(a, b)[p]
  <2>2. /\ lower(CharAt(a, p[1])) = lower(CharAt(b, p[1]))
        /\ q \in Pairs /\ q[1] = p[1] + 1 /\ q[2] = p[1] + 1
    BY <1>7, <2>1, LowGoesOn
  <2> HIDE DEF q
  <2>3. \A j \in 1 .. q[1] - 1 : lower(CharAt(a, j)) = lower(CharAt(b, j))
    BY <2>1, <2>2
  <2> QED
    BY <2>2, <2>3 DEF q
<1>8. PICK p \in I : p \in LowStop(a, b) /\ f[<<1, 1>>] = LowVal(a, b)[p]
  <2> HIDE DEF I
  <2>1. I \subseteq Pairs
    BY DEF I
  <2> QED
    BY <1>2, <1>4, <1>6, <1>7, <2>1, LowIsLoop, LoopRule
<1> DEFINE k == p[1]
<1>9. /\ k \in Positions /\ k \in Nat \ {0}
      /\ \A j \in 1 .. k - 1 : lower(CharAt(a, j)) = lower(CharAt(b, j))
      /\ (CharAt(a, k) = 0 /\ CharAt(b, k) = 0) \/ f[<<1, 1>>] # 0
      /\ f[<<1, 1>>] = IF CharAt(a, k) = 0 /\ CharAt(b, k) = 0 THEN 0
                       ELSE lower(CharAt(a, k)) - lower(CharAt(b, k))
  BY <1>5, <1>8 DEF LowStop, LowVal, Differs, Pairs, Positions
<1> HIDE DEF k
<1>10. \A j \in 1 .. k - 1 : CharAt(Lowered(a), j) = CharAt(Lowered(b), j)
  BY <1>9, LoweredWord
<1>11. /\ CharAt(Lowered(a), k) = lower(CharAt(a, k))
       /\ CharAt(Lowered(b), k) = lower(CharAt(b, k))
  BY <1>9, LoweredWord
<1>12. lower(0) = 0
  BY DEF lower
<1>13. /\ f[<<1, 1>>] = CharAt(Lowered(a), k) - CharAt(Lowered(b), k)
       /\ f[<<1, 1>>] = 0 => CharAt(Lowered(a), k) = 0
  BY <1>9, <1>11, <1>12
<1> QED
  BY <1>1, <1>9, <1>10, <1>13, LoweredWord, ComparedAt

(* strcmpn: as strcmplow, as long as n lets it.                             *)
LEMMA PrefixWord ==
  ASSUME NEW s \in Words, NEW n \in Nat
  PROVE  /\ Prefix(s, n) \in Words
         /\ \A i \in Nat \ {0} : CharAt(Prefix(s, n), i) = IF i <= n THEN CharAt(s, i) ELSE 0
<1> DEFINE m == IF n < Len(s) THEN n ELSE Len(s)
<1>1. s \in Seq(Nat \ {0}) /\ Len(s) \in Nat /\ Len(s) <= MaxLength /\ MaxLength \in Nat
  BY StringsAssumption DEF Words
<1>2. m \in Nat /\ m <= Len(s) /\ m <= n /\ (m = n \/ m = Len(s))
  BY <1>1
<1>3. Prefix(s, n) = SubSeq(s, 1, m)
  BY DEF Prefix
<1> HIDE DEF m
<1>4. \A i \in 1 .. m : s[i] \in Nat \ {0}
  BY <1>1, <1>2
<1>5. /\ SubSeq(s, 1, m) \in Seq(Nat \ {0})
      /\ Len(SubSeq(s, 1, m)) = IF 1 <= m THEN m - 1 + 1 ELSE 0
      /\ \A i \in 1 .. m - 1 + 1 : SubSeq(s, 1, m)[i] = s[1 + i - 1]
  <2>1. 1 \in Int /\ m \in Int
    BY <1>2
  <2> QED
    BY <1>4, <2>1, SubSeqProperties
<1> DEFINE t == SubSeq(s, 1, m)
<1>6. t \in Seq(Nat \ {0}) /\ Len(t) = m /\ \A i \in 1 .. m : t[i] = s[i]
  BY <1>2, <1>5
<1> HIDE DEF t
<1>7. \A i \in Nat \ {0} : CharAt(t, i) = IF i <= n THEN CharAt(s, i) ELSE 0
  BY <1>1, <1>2, <1>6 DEF CharAt
<1>8. t \in Words
  BY <1>1, <1>2, <1>6 DEF Words
<1> QED
  BY <1>3, <1>7, <1>8 DEF t

Counted(n) == Positions \X (0 .. n)
Apart(a, b, p) == CharAt(a, p[1]) - CharAt(b, p[1])
NumberStop(a, b, n) ==
  {p \in Counted(n) : \/ CharAt(a, p[1]) = 0 /\ CharAt(b, p[1]) = 0
                      \/ p[2] = 0
                      \/ Apart(a, b, p) # 0}
NumberVal(a, b, n) ==
  [p \in Counted(n) |->
    IF (CharAt(a, p[1]) = 0 /\ CharAt(b, p[1]) = 0) \/ p[2] = 0 THEN 0 ELSE Apart(a, b, p)]
NumberNext(n) == [p \in Counted(n) |-> <<p[1] + 1, p[2] - 1>>]
NumberLeft(n) == [p \in Counted(n) |-> p[2]]

LEMMA NumberGoesOn ==
  ASSUME NEW a \in Words, NEW b \in Words, NEW n \in Nat,
         NEW p \in Counted(n), p \notin NumberStop(a, b, n)
  PROVE  /\ CharAt(a, p[1]) = CharAt(b, p[1])
         /\ NumberNext(n)[p] = <<p[1] + 1, p[2] - 1>>
         /\ NumberNext(n)[p] \in Counted(n)
<1>1. PICK i \in Positions, m \in 0 .. n : p = <<i, m>> /\ p[1] = i /\ p[2] = m
  BY DEF Counted
<1>2. MaxLength \in Nat /\ i \in Nat \ {0} /\ i <= MaxLength + 1
  BY <1>1, StringsAssumption DEF Positions
<1>3. CharAt(a, i) \in Nat /\ CharAt(b, i) \in Nat
  BY <1>2, CharAtWord
<1>4. CharAt(a, i) = CharAt(b, i) /\ CharAt(a, i) # 0 /\ m # 0
  BY <1>1, <1>3 DEF NumberStop, Apart
<1>5. i + 1 \in Positions /\ m - 1 \in 0 .. n
  BY <1>1, <1>2, <1>4, CharAtWord DEF Positions
<1>6. NumberNext(n)[p] = <<i + 1, m - 1>>
  BY <1>1 DEF NumberNext
<1> QED
  BY <1>1, <1>4, <1>5, <1>6 DEF Counted

LEMMA NumberIsLoop ==
  ASSUME NEW a \in Words, NEW b \in Words, NEW n \in Nat
  PROVE  IsLoop(Counted(n), NumberStop(a, b, n), NumberNext(n), NumberLeft(n), n)
<1>1. ASSUME NEW p \in Counted(n)
      PROVE  NumberLeft(n)[p] = p[2] /\ p[2] \in Nat /\ p[2] <= n
  BY DEF Counted, NumberLeft
<1>2. ASSUME NEW p \in Counted(n), p \notin NumberStop(a, b, n)
      PROVE  NumberNext(n)[p] \in Counted(n) /\ NumberLeft(n)[NumberNext(n)[p]] < NumberLeft(n)[p]
  <2> DEFINE q == NumberNext(n)[p]
  <2>1. q \in Counted(n) /\ q[2] = p[2] - 1
    BY <1>2, NumberGoesOn
  <2> QED
    BY <1>1, <2>1
<1> QED
  BY <1>1, <1>2 DEF IsLoop

LEMMA StrcmpnAgrees ==
  ASSUME NEW a \in Words, NEW b \in Words, NEW n \in Nat
  PROVE  Agrees(strcmpn(a, b, n), Prefix(a, n), Prefix(b, n))
<1> DEFINE Is(f) ==
      f = [p \in Positions \X (0 .. n) |->
            IF (CharAt(a, p[1]) = 0 /\ CharAt(b, p[1]) = 0) \/ p[2] = 0 THEN 0
            ELSE LET d == CharAt(a, p[1]) - CharAt(b, p[1])
                 IN IF d # 0 THEN d ELSE f[<<p[1] + 1, p[2] - 1>>]]
           f == CHOOSE g : Is(g)
           Same(k) == \A j \in 1 .. k - 1 : CharAt(a, j) = CharAt(b, j)
           I == {p \in Counted(n) : p[1] + p[2] = n + 1 /\ Same(p[1])}
<1>1. strcmpn(a, b, n) = f[<<1, n>>]
  BY Zenon DEF strcmpn
<1>2. \A g : Is(g) <=> Loops(g, Counted(n), NumberStop(a, b, n), NumberVal(a, b, n), NumberNext(n))
  BY DEF Loops, Counted, NumberStop, NumberVal, NumberNext, Apart
<1>3. \E g : Loops(g, Counted(n), NumberStop(a, b, n), NumberVal(a, b, n), NumberNext(n))
  BY NumberIsLoop, LoopDefined
<1> HIDE DEF Is
<1>4. Is(f)
  BY Zenon, <1>2, <1>3
<1> HIDE DEF f
<1>5. MaxLength \in Nat
  BY StringsAssumption
<1>6. <<1, n>> \in I
  BY <1>5 DEF Counted, Positions
<1>7. ASSUME NEW p \in I, p \notin NumberStop(a, b, n)
      PROVE  NumberNext(n)[p] \in I
  <2>1. p \in Counted(n) /\ p[1] \in Nat /\ p[2] \in Nat /\ p[1] + p[2] = n + 1 /\ Same(p[1])
    BY <1>5 DEF Counted, Positions
  <2> DEFINE q == NumberNext(n)[p]
  <2>2. /\ CharAt(a, p[1]) = CharAt(b, p[1])
        /\ q \in Counted(n) /\ q[1] = p[1] + 1 /\ q[2] = p[2] - 1
    BY <1>7, <2>1, NumberGoesOn
  <2> HIDE DEF q
  <2>3. Same(q[1]) /\ q[1] + q[2] = n + 1
    BY <2>1, <2>2
  <2> QED
    BY <2>2, <2>3 DEF q
<1>8. PICK p \in I : p \in NumberStop(a, b, n) /\ f[<<1, n>>] = NumberVal(a, b, n)[p]
  <2> HIDE DEF I
  <2>1. I \subseteq Counted(n)
    BY DEF I
  <2> QED
    BY <1>2, <1>4, <1>6, <1>7, <2>1, NumberIsLoop, LoopRule
<1> DEFINE k == p[1]
           m == p[2]
           ends == CharAt(a, k) = 0 /\ CharAt(b, k) = 0
<1>9. /\ k \in Positions /\ k \in Nat \ {0} /\ m \in Nat /\ k + m = n + 1
      /\ Same(k)
      /\ ends \/ m = 0 \/ f[<<1, n>>] # 0
      /\ f[<<1, n>>] = IF ends \/ m = 0 THEN 0 ELSE CharAt(a, k) - CharAt(b, k)
  BY <1>5, <1>8 DEF NumberStop, NumberVal, Apart, Counted, Positions
<1> HIDE DEF k, m
<1> DEFINE pa == Prefix(a, n)
           pb == Prefix(b, n)
<1>10. pa \in Words /\ pb \in Words
  BY PrefixWord
<1>11. \A i \in Nat \ {0} : /\ CharAt(pa, i) = IF i <= n THEN CharAt(a, i) ELSE 0
                            /\ CharAt(pb, i) = IF i <= n THEN CharAt(b, i) ELSE 0
  BY PrefixWord
<1> HIDE DEF pa, pb
<1>12. \A j \in 1 .. k - 1 : CharAt(pa, j) = CharAt(pb, j)
  BY <1>9, <1>11
<1>13. /\ f[<<1, n>>] = CharAt(pa, k) - CharAt(pb, k)
       /\ f[<<1, n>>] = 0 => CharAt(pa, k) = 0
  <2>1. CASE m = 0
    <3>1. ~(k <= n)
      BY <1>9, <2>1
    <3>2. CharAt(pa, k) = 0 /\ CharAt(pb, k) = 0
      BY <1>9, <1>11, <3>1
    <3> QED
      BY <1>9, <2>1, <3>2
  <2>2. CASE m # 0
    <3>1. k <= n
      BY <1>9, <2>2
    <3>2. CharAt(pa, k) = CharAt(a, k) /\ CharAt(pb, k) = CharAt(b, k)
      BY <1>9, <1>11, <3>1
    <3> QED
      BY <1>9, <2>2, <3>2
  <2> QED
    BY <2>1, <2>2
<1>14. Agrees(f[<<1, n>>], pa, pb)
  BY <1>9, <1>10, <1>12, <1>13, ComparedAt
<1> QED
  BY <1>1, <1>14 DEF pa, pb

-----------------------------------------------------------------------------
(* strmatch: from the last string down to the first, whose place is 0.      *)
MatchStop(n, arr, cs) == {k \in 0 .. n : k = 0 \/ strcmplow(arr[k], cs) = 0}
MatchVal(n) == [k \in 0 .. n |-> IF k = 0 THEN AII_ERROR ELSE k - 1]
MatchNext(n) == [k \in 0 .. n |-> k - 1]
MatchLeft(n) == [k \in 0 .. n |-> k]

LEMMA StrmatchLast ==
  ASSUME NEW n \in Nat, NEW arr, NEW cs
  PROVE  \E k \in 0 .. n :
           /\ \A j \in k + 1 .. n : strcmplow(arr[j], cs) # 0
           /\ k = 0 \/ strcmplow(arr[k], cs) = 0
           /\ strmatch(n, arr, cs) = IF k = 0 THEN AII_ERROR ELSE k - 1
<1> DEFINE Is(f) ==
      f = [k \in 0 .. n |->
            IF k = 0 THEN AII_ERROR
            ELSE IF strcmplow(arr[k], cs) = 0 THEN k - 1 ELSE f[k - 1]]
           f == CHOOSE g : Is(g)
           I == {k \in 0 .. n : \A j \in k + 1 .. n : strcmplow(arr[j], cs) # 0}
<1>1. strmatch(n, arr, cs) = f[n]
  BY Zenon DEF strmatch
<1>2. \A g : Is(g) <=> Loops(g, 0 .. n, MatchStop(n, arr, cs), MatchVal(n), MatchNext(n))
  BY DEF Loops, MatchStop, MatchVal, MatchNext
<1>3. IsLoop(0 .. n, MatchStop(n, arr, cs), MatchNext(n), MatchLeft(n), n)
  BY DEF IsLoop, MatchStop, MatchNext, MatchLeft
<1>4. \E g : Loops(g, 0 .. n, MatchStop(n, arr, cs), MatchVal(n), MatchNext(n))
  BY <1>3, LoopDefined
<1> HIDE DEF Is
<1>5. Is(f)
  BY Zenon, <1>2, <1>4
<1> HIDE DEF f
<1>6. n \in I
  OBVIOUS
<1>7. ASSUME NEW k \in I, k \notin MatchStop(n, arr, cs)
      PROVE  MatchNext(n)[k] \in I
  <2>1. k \in 1 .. n /\ strcmplow(arr[k], cs) # 0
    BY <1>7 DEF MatchStop
  <2> QED
    BY <2>1 DEF MatchNext
<1>8. PICK k \in I : k \in MatchStop(n, arr, cs) /\ f[n] = MatchVal(n)[k]
  <2> DEFINE D == 0 .. n
             last == n
             stop == MatchStop(n, arr, cs)
             next == MatchNext(n)
             val == MatchVal(n)
             left == MatchLeft(n)
  <2>1. /\ IsLoop(D, stop, next, left, last) /\ Loops(f, D, stop, val, next)
        /\ I \subseteq D /\ last \in I
    BY <1>2, <1>3, <1>5, <1>6
  <2>2. \A k \in I : k \notin stop => next[k] \in I
    BY <1>7
  <2> HIDE DEF D, I, last, stop, next, val, left
  <2>3. \E k \in I : k \in stop /\ f[last] = val[k]
    BY <2>1, <2>2, LoopRule
  <2> QED
    BY <2>3 DEF last, stop, val
<1> QED
  BY <1>1, <1>8 DEF MatchStop, MatchVal

-----------------------------------------------------------------------------
(* byte_sum adds up: the sums of the first k bytes.                         *)
Sums(f, buf, len) ==
  /\ f \in [0 .. len -> Nat]
  /\ f[0] = 0
  /\ \A k \in 1 .. len : f[k] = f[k - 1] + buf[k]

LEMMA ByteSums ==
  ASSUME NEW buf \in Seq(Nat), NEW len \in 0 .. Len(buf)
  PROVE  \E f : Sums(f, buf, len) /\ byte_sum(buf, len) = f[len]
<1> DEFINE Is(f) == f = [k \in 0 .. len |-> IF k = 0 THEN 0 ELSE f[k - 1] + buf[k]]
           f == CHOOSE g : Is(g)
           Solves(g, n) == \A k \in 0 .. n : g[k] = IF k = 0 THEN 0 ELSE g[k - 1] + buf[k]
           S == {n \in Nat : \E g : Solves(g, n)}
           Typed == {n \in Nat : n <= len => f[n] \in Nat}
<1>1. byte_sum(buf, len) = f[len]
  BY Zenon DEF byte_sum
<1>2. Len(buf) \in Nat /\ len \in Nat /\ len <= Len(buf) /\ \A k \in 1 .. Len(buf) : buf[k] \in Nat
  OBVIOUS
<1>3. 0 \in S
  <2>1. Solves([k \in 0 .. 0 |-> 0], 0)
    OBVIOUS
  <2> QED
    BY <2>1
<1>4. ASSUME NEW n \in Nat, n \in S
      PROVE  n + 1 \in S
  <2>1. PICK g : Solves(g, n)
    BY <1>4
  <2> DEFINE h == [k \in 0 .. n + 1 |-> IF k <= n THEN g[k] ELSE g[n] + buf[n + 1]]
  <2>2. ASSUME NEW k \in 0 .. n + 1
        PROVE  h[k] = IF k = 0 THEN 0 ELSE h[k - 1] + buf[k]
    <3>1. CASE k <= n
      BY <2>1, <3>1
    <3>2. CASE k = n + 1
      BY <2>1, <3>2
    <3> QED
      BY <3>1, <3>2
  <2> HIDE DEF h
  <2>3. Solves(h, n + 1)
    BY <2>2
  <2> QED
    BY <2>3
<1>5. Nat \subseteq S
  <2> HIDE DEF S
  <2> QED
    BY <1>3, <1>4, NatSetInduction
<1>6. PICK g : Solves(g, len)
  BY <1>2, <1>5
<1>7. Is([k \in 0 .. len |-> g[k]])
  BY <1>2, <1>6
<1>8. Is(f)
  <2> HIDE DEF Is
  <2> QED
    BY Zenon, <1>7
<1> HIDE DEF f
<1>9. \A k \in 0 .. len : f[k] = IF k = 0 THEN 0 ELSE f[k - 1] + buf[k]
  BY <1>8
<1>10. 0 \in Typed
  BY <1>2, <1>9
<1>11. ASSUME NEW n \in Nat, n \in Typed
       PROVE  n + 1 \in Typed
  <2> SUFFICES ASSUME n + 1 <= len PROVE f[n + 1] \in Nat
    OBVIOUS
  <2>1. f[n] \in Nat /\ buf[n + 1] \in Nat
    BY <1>2, <1>11
  <2>2. f[n + 1] = f[n] + buf[n + 1]
    BY <1>2, <1>9
  <2> QED
    BY <2>1, <2>2
<1>12. Nat \subseteq Typed
  <2> HIDE DEF Typed
  <2> QED
    BY <1>10, <1>11, NatSetInduction
<1>13. f \in [0 .. len -> Nat]
  <2>1. \A k \in 0 .. len : f[k] \in Nat
    BY <1>2, <1>12
  <2> QED
    BY <1>8, <2>1
<1>14. Sums(f, buf, len)
  BY <1>2, <1>9, <1>13 DEF Sums
<1> QED
  BY <1>1, <1>14

LEMMA ByteSumOfBoth ==
  ASSUME NEW a \in Seq(Nat), NEW b \in Seq(Nat)
  PROVE  byte_sum(a \o b, Len(a \o b)) = byte_sum(a, Len(a)) + byte_sum(b, Len(b))
<1> DEFINE ab == a \o b
           la == Len(a)
           lb == Len(b)
<1>1. /\ ab \in Seq(Nat) /\ Len(ab) = la + lb /\ la \in Nat /\ lb \in Nat
      /\ \A i \in 1 .. la + lb : ab[i] = IF i <= la THEN a[i] ELSE b[i - la]
  BY ConcatProperties
<1> HIDE DEF ab, la, lb
<1>2. PICK f : Sums(f, ab, la + lb) /\ byte_sum(ab, la + lb) = f[la + lb]
  <2>1. Len(ab) \in 0 .. Len(ab)
    BY <1>1
  <2> QED
    BY <1>1, <2>1, ByteSums
<1>3. PICK g : Sums(g, a, la) /\ byte_sum(a, la) = g[la]
  <2>1. la \in 0 .. Len(a)
    BY <1>1 DEF la
  <2> QED
    BY <2>1, ByteSums
<1>4. PICK h : Sums(h, b, lb) /\ byte_sum(b, lb) = h[lb]
  <2>1. lb \in 0 .. Len(b)
    BY <1>1 DEF lb
  <2> QED
    BY <2>1, ByteSums
<1> DEFINE S == {k \in Nat : k <= la => f[k] = g[k]}
           T == {k \in Nat : k <= lb => f[la + k] = g[la] + h[k]}
<1>5. Nat \subseteq S
  <2>1. 0 \in S
    BY <1>2, <1>3 DEF Sums
  <2>2. ASSUME NEW k \in Nat, k \in S
        PROVE  k + 1 \in S
    <3> SUFFICES ASSUME k + 1 <= la PROVE f[k + 1] = g[k + 1]
      OBVIOUS
    <3>1. k + 1 \in 1 .. la + lb /\ k + 1 \in 1 .. la /\ k <= la /\ (k + 1) - 1 = k
      BY <1>1
    <3>2. f[k + 1] = f[k] + ab[k + 1]
      BY <1>2, <3>1 DEF Sums
    <3>3. g[k + 1] = g[k] + a[k + 1]
      BY <1>3, <3>1 DEF Sums
    <3> QED
      BY <1>1, <2>2, <3>1, <3>2, <3>3
  <2> HIDE DEF S
  <2> QED
    BY <2>1, <2>2, NatSetInduction
<1>6. Nat \subseteq T
  <2>1. 0 \in T
    <3>1. f[la] = g[la] /\ g[la] \in Nat /\ h[0] = 0
      BY <1>1, <1>3, <1>4, <1>5 DEF Sums
    <3> QED
      BY <1>1, <3>1
  <2>2. ASSUME NEW k \in Nat, k \in T
        PROVE  k + 1 \in T
    <3> SUFFICES ASSUME k + 1 <= lb PROVE f[la + (k + 1)] = g[la] + h[k + 1]
      OBVIOUS
    <3>1. /\ la + (k + 1) \in 1 .. la + lb /\ k + 1 \in 1 .. lb /\ k \in 0 .. lb
          /\ (k + 1) - 1 = k /\ (la + (k + 1)) - 1 = la + k
          /\ ~(la + (k + 1) <= la) /\ (la + (k + 1)) - la = k + 1
      BY <1>1
    <3>2. f[la + (k + 1)] = f[la + k] + ab[la + (k + 1)]
      BY <1>2, <3>1 DEF Sums
    <3>3. h[k + 1] = h[k] + b[k + 1]
      BY <1>4, <3>1 DEF Sums
    <3>4. ab[la + (k + 1)] = b[k + 1] /\ b[k + 1] \in Nat
      BY <1>1, <3>1 DEF lb
    <3>5. g[la] \in Nat /\ h[k] \in Nat
      BY <1>1, <1>3, <1>4, <3>1 DEF Sums
    <3>6. f[la + k] = g[la] + h[k]
      BY <2>2, <3>1
    <3> QED
      BY <3>2, <3>3, <3>4, <3>5, <3>6
  <2> HIDE DEF T
  <2> QED
    BY <2>1, <2>2, NatSetInduction
<1>7. f[la + lb] = g[la] + h[lb]
  BY <1>1, <1>6
<1> QED
  BY <1>1, <1>2, <1>3, <1>4, <1>7 DEF ab, la, lb

LEMMA ByteSumOfZeros ==
  ASSUME NEW p \in Seq(Nat), NEW n \in 0 .. Len(p)
  PROVE  byte_sum(zeros(n, p), n) = 0
<1> DEFINE z == zeros(n, p)
<1>1. Len(p) \in Nat /\ n \in Nat /\ n <= Len(p) /\ DOMAIN p = 1 .. Len(p)
  OBVIOUS
<1>2. z \in [1 .. Len(p) -> Nat] /\ \A i \in 1 .. n : z[i] = 0
  BY <1>1 DEF zeros, bezeros
<1>3. z \in Seq(Nat) /\ Len(z) = Len(p)
  BY <1>1, <1>2
<1> HIDE DEF z
<1>4. PICK f : Sums(f, z, n) /\ byte_sum(z, n) = f[n]
  BY <1>3, ByteSums
<1> DEFINE S == {k \in Nat : k <= n => f[k] = 0}
<1>5. 0 \in S
  BY <1>4 DEF Sums
<1>6. ASSUME NEW k \in Nat, k \in S
      PROVE  k + 1 \in S
  <2> SUFFICES ASSUME k + 1 <= n PROVE f[k + 1] = 0
    OBVIOUS
  <2>1. k + 1 \in 1 .. n /\ k <= n /\ (k + 1) - 1 = k
    BY <1>1
  <2>2. f[k + 1] = f[k] + z[k + 1]
    BY <1>4, <2>1 DEF Sums
  <2> QED
    BY <1>2, <1>6, <2>1, <2>2
<1>7. Nat \subseteq S
  <2> HIDE DEF S
  <2> QED
    BY <1>5, <1>6, NatSetInduction
<1>8. f[n] = 0
  BY <1>1, <1>7
<1> QED
  BY <1>4, <1>8 DEF z

-----------------------------------------------------------------------------
(* getline: what is before the first end of a line, and what is behind it.  *)
LEMMA LineRead ==
  ASSUME NEW s \in Words
  PROVE  LET r == getline(s)
         IN /\ s = r.line \o LineEnd(r.line, s) \o r.rest
            /\ r.count = AII_ERROR <=> r.line = << >>
            /\ \A i \in DOMAIN r.line : r.line[i] # Newline
<1> DEFINE m == Len(s)
           IsEnd(k) == EndOfLine(s, k) /\ \A i \in 1 .. k - 1 : ~EndOfLine(s, i)
           n == CHOOSE k \in 1 .. Len(s) + 1 : IsEnd(k)
           line == SubSeq(s, 1, n - 1)
           rest == SubSeq(s, n + 1, m)
<1>1. s \in Seq(Nat \ {0}) /\ m \in Nat /\ \A i \in 1 .. m : s[i] \in Nat \ {0}
  BY DEF Words
<1>2. \E k \in 1 .. Len(s) + 1 : IsEnd(k)
  <2> DEFINE T == {k \in 1 .. m + 1 : EndOfLine(s, k)}
  <2>1. m + 1 \in T
    BY <1>1 DEF EndOfLine
  <2>2. T \subseteq Nat
    BY <1>1
  <2>3. PICK k \in T : \A i \in T : k <= i
    <3> HIDE DEF T
    <3> QED
      BY <2>1, <2>2, LeastNat
  <2>4. \A i \in 1 .. k - 1 : i \in 1 .. m + 1 /\ ~(k <= i)
    BY <1>1
  <2>5. \A i \in 1 .. k - 1 : ~EndOfLine(s, i)
    BY <2>3, <2>4
  <2> QED
    BY <2>5
<1>3. n \in 1 .. m + 1 /\ IsEnd(n)
  BY <1>2
<1>4. getline(s) = [count |-> IF n = 1 THEN AII_ERROR ELSE n - 1, line |-> line, rest |-> rest]
  BY DEF getline
<1> HIDE DEF n, m
<1>5. /\ line \in Seq(Nat \ {0}) /\ Len(line) = n - 1 /\ Len(line) \in Nat
      /\ \A i \in 1 .. n - 1 : line[i] = s[i]
  <2>1. \A i \in 1 .. n - 1 : s[i] \in Nat \ {0}
    BY <1>1, <1>3
  <2>2. 1 \in Int /\ n - 1 \in Int
    BY <1>1, <1>3
  <2>3. /\ line \in Seq(Nat \ {0})
        /\ Len(line) = IF 1 <= n - 1 THEN (n - 1) - 1 + 1 ELSE 0
        /\ \A i \in 1 .. (n - 1) - 1 + 1 : line[i] = s[1 + i - 1]
    BY <2>1, <2>2, SubSeqProperties
  <2> QED
    BY <1>1, <1>3, <2>3
<1>6. /\ rest \in Seq(Nat \ {0}) /\ Len(rest) = IF n + 1 <= m THEN m - n ELSE 0
      /\ \A i \in 1 .. m - n : rest[i] = s[n + i]
  <2>1. \A i \in n + 1 .. m : s[i] \in Nat \ {0}
    BY <1>1, <1>3
  <2>2. n + 1 \in Int /\ m \in Int
    BY <1>1, <1>3
  <2>3. /\ rest \in Seq(Nat \ {0})
        /\ Len(rest) = IF n + 1 <= m THEN m - (n + 1) + 1 ELSE 0
        /\ \A i \in 1 .. m - (n + 1) + 1 : rest[i] = s[(n + 1) + i - 1]
    BY <2>1, <2>2, SubSeqProperties
  <2> QED
    BY <1>1, <1>3, <2>3
<1>7. s = line \o LineEnd(line, s) \o rest
  <2> HIDE DEF line, rest
  <2> DEFINE end == LineEnd(line, s)
  <2>1. end \in Seq(Nat \ {0}) /\ Len(end) = (IF n = m + 1 THEN 0 ELSE 1) /\ (n # m + 1 => end[1] = s[n])
    <3>1. n # m + 1 => s[n] = Newline
      BY <1>1, <1>3 DEF EndOfLine, CharAt, m
    <3>2. Len(line) = Len(s) <=> n = m + 1
      BY <1>1, <1>3, <1>5 DEF m
    <3>3. n = m + 1 => end = << >>
      BY <3>2 DEF LineEnd
    <3>4. n # m + 1 => end = <<Newline>>
      BY <3>2 DEF LineEnd
    <3>5. <<Newline>> \in Seq(Nat \ {0}) /\ Len(<<Newline>>) = 1 /\ <<Newline>>[1] = Newline
      BY DEF Newline
    <3> HIDE DEF end
    <3>6. CASE n = m + 1
      <4>1. end \in Seq(Nat \ {0}) /\ Len(end) = 0
        BY <3>3, <3>6
      <4> QED
        BY <3>6, <4>1
    <3>7. CASE n # m + 1
      <4>1. end \in Seq(Nat \ {0}) /\ Len(end) = 1 /\ end[1] = Newline
        BY <3>4, <3>5, <3>7
      <4> QED
        BY <3>1, <3>7, <4>1
    <3> QED
      BY <3>6, <3>7
  <2> HIDE DEF end
  <2> DEFINE front == line \o end
  <2>2. /\ front \in Seq(Nat \ {0}) /\ Len(front) = Len(line) + Len(end)
        /\ \A i \in 1 .. Len(line) + Len(end) :
             front[i] = IF i <= Len(line) THEN line[i] ELSE end[i - Len(line)]
    BY <1>5, <2>1, ConcatProperties
  <2> HIDE DEF front
  <2> DEFINE whole == front \o rest
  <2>3. /\ whole \in Seq(Nat \ {0}) /\ Len(whole) = Len(front) + Len(rest)
        /\ \A i \in 1 .. Len(front) + Len(rest) :
             whole[i] = IF i <= Len(front) THEN front[i] ELSE rest[i - Len(front)]
    <3>1. front \in Seq(Nat \ {0}) /\ rest \in Seq(Nat \ {0})
      BY <1>6, <2>2
    <3> QED
      BY <3>1, ConcatProperties
  <2> HIDE DEF whole
  <2>4. n \in Nat \ {0} /\ n <= m + 1 /\ m \in Nat /\ Len(end) \in {0, 1}
        /\ Len(line) = n - 1 /\ Len(front) = n - 1 + Len(end)
    BY <1>1, <1>3, <1>5, <2>1, <2>2
  <2>5. Len(front) = IF n = m + 1 THEN m ELSE n
    BY <2>1, <2>4
  <2>6. Len(whole) = m
    BY <1>1, <1>3, <1>6, <2>3, <2>5
  <2>7. ASSUME NEW i \in 1 .. m
        PROVE  whole[i] = s[i]
    <3>1. CASE i <= n - 1
      <4>1. i \in 1 .. Len(line) + Len(end) /\ i <= Len(line) /\ i <= Len(front)
        BY <2>4, <3>1
      <4>2. front[i] = line[i] /\ line[i] = s[i]
        BY <1>5, <2>2, <2>4, <3>1, <4>1
      <4>3. whole[i] = front[i]
        <5>1. i \in 1 .. Len(front) + Len(rest)
          BY <2>3, <2>6
        <5> QED
          BY <2>3, <4>1, <5>1
      <4> QED
        BY <4>2, <4>3
    <3>2. CASE i = n
      <4>1. n # m + 1 /\ Len(end) = 1 /\ end[1] = s[n]
        BY <2>1, <2>4, <3>2
      <4>2. i \in 1 .. Len(line) + Len(end) /\ ~(i <= Len(line)) /\ i <= Len(front) /\ i - Len(line) = 1
        <5>1. i = Len(line) + 1 /\ Len(line) \in Nat
          BY <2>4, <3>2
        <5>2. Len(front) = Len(line) + 1
          BY <2>4, <4>1
        <5> HIDE DEF end, front, line
        <5> QED
          BY <4>1, <5>1, <5>2
      <4>3. front[i] = end[1]
        BY <2>2, <4>2
      <4>4. whole[i] = front[i]
        <5>1. i \in 1 .. Len(front) + Len(rest)
          BY <2>3, <2>6
        <5> QED
          BY <2>3, <4>2, <5>1
      <4> QED
        BY <3>2, <4>1, <4>3, <4>4
    <3>3. CASE n < i
      <4>1. Len(front) = n /\ i - n \in 1 .. m - n /\ n + (i - n) = i
        BY <1>1, <1>3, <2>5, <3>3
      <4>2. rest[i - n] = s[i]
        BY <1>6, <4>1
      <4>3. whole[i] = rest[i - n]
        BY <1>1, <1>3, <2>3, <2>6, <3>3, <4>1
      <4> QED
        BY <4>2, <4>3
    <3> QED
      BY <1>1, <1>3, <3>1, <3>2, <3>3
  <2>8. whole = s
    BY <1>1, <2>3, <2>6, <2>7, SeqEqual DEF m
  <2> QED
    BY <2>8 DEF whole, front, end
<1>8. line = << >> <=> n = 1
  <2>1. ASSUME n = 1
        PROVE  line = << >>
    BY <2>1, SubSeqEmpty
  <2>2. ASSUME line = << >>
        PROVE  n = 1
    <3> HIDE DEF line
    <3>1. Len(line) = 0
      BY <2>2
    <3> QED
      BY <1>1, <1>3, <1>5, <3>1
  <2> QED
    BY <2>1, <2>2
<1>9. \A i \in DOMAIN line : line[i] # Newline
  <2>1. DOMAIN line = 1 .. n - 1
    BY <1>1, <1>3, <1>5
  <2>2. \A i \in 1 .. n - 1 : CharAt(s, i) = s[i] /\ CharAt(s, i) # Newline
    BY <1>1, <1>3 DEF EndOfLine, CharAt, m
  <2> QED
    BY <1>5, <2>1, <2>2
<1>10. n = 1 \/ n - 1 # AII_ERROR
  BY <1>1, <1>3 DEF AII_ERROR
<1> HIDE DEF line, rest
<1> QED
  BY <1>4, <1>7, <1>8, <1>9, <1>10

-----------------------------------------------------------------------------
StringsTypeOK ==
  /\ strsGiven \in BOOLEAN
  /\ str1 \in Strings
  /\ str2 \in Strings

LEMMA StringsInitOK == StringsInit => StringsTypeOK
<1> SUFFICES ASSUME StringsInit PROVE StringsTypeOK
  OBVIOUS
<1>1. << >> \in [1 .. 0 -> Characters] /\ 0 \in 0 .. MaxLength
  BY StringsAssumption
<1>2. << >> \in Strings
  BY <1>1 DEF Strings
<1> QED
  BY <1>2 DEF StringsInit, StringsTypeOK

LEMMA StringsNextOK == StringsTypeOK /\ [StringsNext]_stringVars => StringsTypeOK'
BY DEF StringsTypeOK, StringsNext, stringVars

LEMMA StrmatchFinds ==
  ASSUME NEW arr, DOMAIN arr = 1 .. 2, arr[1] \in Words, arr[2] \in Words, NEW cs \in Words
  PROVE  IsMatch(strmatch(2, arr, cs), arr, cs)
<1>1. \A k \in 1 .. 2 : strcmplow(arr[k], cs) = 0 <=> Lowered(arr[k]) = Lowered(cs)
  <2> TAKE k \in 1 .. 2
  <2>1. arr[k] \in Words
    OBVIOUS
  <2> QED BY <2>1, StrcmplowAgrees DEF Agrees
<1>2. PICK k \in 0 .. 2 :
        /\ \A j \in k + 1 .. 2 : strcmplow(arr[j], cs) # 0
        /\ k = 0 \/ strcmplow(arr[k], cs) = 0
        /\ strmatch(2, arr, cs) = IF k = 0 THEN AII_ERROR ELSE k - 1
  BY StrmatchLast
<1>3. CASE k = 0
  <2>1. \A j \in 1 .. 2 : strcmplow(arr[j], cs) # 0
    BY <1>2, <1>3
  <2> QED BY <1>1, <1>2, <1>3, <2>1 DEF IsMatch
<1>4. CASE k # 0
  <2>1. strmatch(2, arr, cs) = k - 1 /\ k - 1 # AII_ERROR /\ k \in 1 .. 2 /\ (k - 1) + 1 = k
    BY <1>2, <1>4 DEF AII_ERROR
  <2>2. Lowered(arr[k]) = Lowered(cs)
    BY <1>1, <1>2, <1>4, <2>1
  <2> QED BY <2>1, <2>2 DEF IsMatch
<1> QED
  BY <1>3, <1>4

(* findstr's answer is a place of the string, as an ending is one.          *)
LEMMA FindstrAnswersAPlace ==
  ASSUME NEW str \in Words, NEW match_str \in Words, match_str # << >>
  PROVE  IsPlace(findstr(str, match_str), match_str, str)
<1> DEFINE r == findstr(str, match_str)
<1>1. IsFirst(r, Endings(match_str, str))
  BY FindstrFinds DEF Endings
<1> HIDE DEF r
<1>2. CASE r = AII_ERROR
  BY <1>1, <1>2 DEF IsFirst, IsPlace, r
<1>3. CASE r # AII_ERROR
  <2> DEFINE i == r + 1
             m == Len(str)
  <2>1. i \in DOMAIN str /\ SubSeq(str, i, m) = match_str
    BY <1>1, <1>3 DEF IsFirst, Endings
  <2>2. str \in Seq(Nat \ {0}) /\ m \in Nat /\ i \in 1 .. m
    BY <2>1 DEF Words
  <2>3. Len(SubSeq(str, i, m)) = m - i + 1
    <3>1. m \in i - 1 .. Len(str) /\ i \in 1 .. Len(str) + 1
      BY <2>2
    <3> QED
      BY <2>2, <3>1, SubSeqProperties
  <2>4. i + Len(match_str) - 1 = m
    BY <2>1, <2>2, <2>3
  <2>5. Occurs(match_str, str, i)
    BY <2>1, <2>2, <2>4 DEF Occurs
  <2> QED
    BY <1>3, <2>5 DEF IsPlace, r
<1> QED
  BY <1>2, <1>3

LEMMA StringsInvariant == StringsTypeOK => StringsAsTold
<1> SUFFICES ASSUME StringsTypeOK PROVE StringsAsTold
  OBVIOUS
<1>1. str1 \in Words /\ str2 \in Words
  BY StringIsWord DEF StringsTypeOK
<1>2. /\ str1 \in Seq(Nat) /\ str2 \in Seq(Nat)
      /\ Len(str1) \in Nat /\ Len(str2) \in Nat
      /\ \A n \in 0 .. MaxLength : n \in Nat
  BY <1>1, StringsAssumption DEF Words
<1>3. Agrees(strcmplow(str1, str2), Lowered(str1), Lowered(str2))
  BY <1>1, StrcmplowAgrees
<1>4. \A n \in 0 .. MaxLength : Agrees(strcmpn(str1, str2, n), Prefix(str1, n), Prefix(str2, n))
  BY <1>1, <1>2, StrcmpnAgrees
<1>5. str2 # << >> => IsPlace(findstr(str1, str2), str2, str1)
  BY <1>1, FindstrAnswersAPlace
<1>6. \A c \in Characters :
        /\ IsFirst(findchar(c, str1, 1), {i \in DOMAIN str1 : str1[i] = c})
        /\ IsFirst(findchar(c, str1, 0), {i \in DOMAIN str1 : lower(str1[i]) = lower(c)})
  <2> TAKE c \in Characters
  <2>1. IsFirst(findchar(c, str1, 1), {i \in DOMAIN str1 : str1[i] = c})
    <3> DEFINE Hits == {i \in DOMAIN str1 : str1[i] = c}
    <3>1. /\ Hits \subseteq DOMAIN str1
          /\ \A i \in DOMAIN str1 : i \in Hits <=>
               (IF 1 = 1 THEN SameChar(c, str1[i]) ELSE SameLetter(c, str1[i]))
      BY DEF SameChar
    <3> HIDE DEF Hits
    <3>2. IsFirst(findchar(c, str1, 1), Hits)
      BY <1>1, <3>1, FindcharFinds
    <3> QED
      BY <3>2 DEF Hits
  <2>2. IsFirst(findchar(c, str1, 0), {i \in DOMAIN str1 : lower(str1[i]) = lower(c)})
    <3> DEFINE Hits == {i \in DOMAIN str1 : lower(str1[i]) = lower(c)}
    <3>1. /\ Hits \subseteq DOMAIN str1
          /\ \A i \in DOMAIN str1 : i \in Hits <=>
               (IF 0 = 1 THEN SameChar(c, str1[i]) ELSE SameLetter(c, str1[i]))
      <4>1. 0 # 1
        OBVIOUS
      <4> QED
        BY Zenon, <4>1 DEF SameLetter
    <3> HIDE DEF Hits
    <3>2. IsFirst(findchar(c, str1, 0), Hits)
      BY <1>1, <3>1, FindcharFinds
    <3> QED
      BY <3>2 DEF Hits
  <2> QED
    BY <2>1, <2>2
<1>7. \A strarray \in {<<str1, str2>>, <<str2, str1>>, <<str1, str1>>} :
        IsMatch(strmatch(2, strarray, str2), strarray, str2)
  <2> TAKE strarray \in {<<str1, str2>>, <<str2, str1>>, <<str1, str1>>}
  <2>1. DOMAIN strarray = 1 .. 2 /\ strarray[1] \in Words /\ strarray[2] \in Words
    BY <1>1
  <2> QED
    BY <1>1, <2>1, StrmatchFinds
<1>8. byte_sum(str1 \o str2, Len(str1 \o str2)) =
        byte_sum(str1, Len(str1)) + byte_sum(str2, Len(str2))
  BY <1>2, ByteSumOfBoth
<1>9. \A n \in 0 .. Len(str1) : byte_sum(zeros(n, str1), n) = 0
  BY <1>2, ByteSumOfZeros
<1>10. LET r == getline(str1)
       IN /\ str1 = r.line \o LineEnd(r.line, str1) \o r.rest
          /\ r.count = AII_ERROR <=> r.line = << >>
          /\ \A i \in DOMAIN r.line : r.line[i] # Newline
  BY <1>1, LineRead
<1> QED
  BY Zenon, <1>3, <1>4, <1>5, <1>6, <1>7, <1>8, <1>9, <1>10 DEF StringsAsTold

(* For any characters and strings of any length, the comparisons of tool.c  *)
(* order as told, findchar finds the first, what findstr and strmatch       *)
(* answer is a match, and the lines of a file are all of it.                *)
THEOREM StringsDoAsTold == StringsSpec => []StringsAsTold
<1>1. StringsInit => StringsTypeOK
  BY StringsInitOK
<1>2. StringsTypeOK /\ [StringsNext]_stringVars => StringsTypeOK'
  BY StringsNextOK
<1> QED
  BY <1>1, <1>2, StringsInvariant, PTL DEF StringsSpec
=============================================================================
