---------------------------- MODULE HintsProofs ----------------------------
(***************************************************************************)
(* read_hints and find_key read the documented format, for every source.   *)
(* The induction over the rounds of the loop is by the least               *)
(* counterexample: a set of naturals that is not empty has a least         *)
(* element.                                                                *)
(***************************************************************************)
EXTENDS Routines, SequenceTheorems, WellFoundedInduction, TLAPS

-----------------------------------------------------------------------------
(* A set of naturals has a least element, and a bounded one has a greatest *)
(* one: what every search in a text rests on.                              *)
LEMMA LeastNumber ==
  ASSUME NEW S, S \subseteq Nat, S # {}
  PROVE  \E x \in S : \A y \in S : x <= y
<1> DEFINE R == OpToRel(<, Nat)
<1>1. IsWellFoundedOn(R, Nat)
  BY NatLessThanWellFounded
<1>2. \E x \in S : \A y \in S : ~ (<<y, x>> \in R)
  <2> HIDE DEF R
  <2> QED BY <1>1, WFMin
<1>3. PICK x \in S : \A y \in S : ~ (<<y, x>> \in R)
  BY <1>2
<1>4. ASSUME NEW y \in S, y < x
      PROVE  <<y, x>> \in R
  BY <1>4 DEF OpToRel
<1> HIDE DEF R
<1>5. \A y \in S : ~ (y < x)
  BY <1>3, <1>4
<1> QED BY <1>5

LEMMA GreatestNumber ==
  ASSUME NEW S, S \subseteq Nat, S # {}, NEW n \in Nat, \A x \in S : x <= n
  PROVE  \E x \in S : \A y \in S : y <= x
<1> DEFINE T == {n - x : x \in S}
<1>1. T \subseteq Nat /\ T # {}
  OBVIOUS
<1>2. PICK t \in T : \A u \in T : t <= u
  <2> HIDE DEF T
  <2> QED BY <1>1, LeastNumber
<1>3. PICK x \in S : t = n - x
  OBVIOUS
<1>4. ASSUME NEW y \in S
      PROVE  y <= x
  <2>1. n - y \in T
    OBVIOUS
  <2>2. n - x <= n - y
    BY <1>2, <1>3, <2>1
  <2> QED BY <2>2
<1> QED BY <1>4

LEMMA MinIs ==
  ASSUME NEW S, S \subseteq Nat, S # {}
  PROVE  Min(S) \in S /\ \A y \in S : Min(S) <= y
BY LeastNumber DEF Min

LEMMA MaxIs ==
  ASSUME NEW S, S \subseteq Nat, S # {}, NEW n \in Nat, \A x \in S : x <= n
  PROVE  Max(S) \in S /\ \A y \in S : y <= Max(S)
BY GreatestNumber DEF Max

LEMMA Characters == Break # Blank /\ Break # Equals /\ Blank # Equals
BY DEF Break, Blank, Equals

-----------------------------------------------------------------------------
(* find_first_of: the first place of the character from the given one on,  *)
(* or npos when there is none.                                             *)
LEMMA FirstIs ==
  ASSUME NEW s \in Seq(STRING), NEW c, NEW from \in Nat \ {0}
  PROVE  \/ /\ FirstOf(s, c, from) = NPos
            /\ \A i \in from .. Len(s) : s[i] # c
         \/ /\ FirstOf(s, c, from) \in from .. Len(s)
            /\ s[FirstOf(s, c, from)] = c
            /\ \A i \in from .. FirstOf(s, c, from) - 1 : s[i] # c
<1> DEFINE found == {i \in from .. Len(s) : s[i] = c}
<1>1. FirstOf(s, c, from) = IF found = {} THEN NPos ELSE Min(found)
  BY DEF FirstOf
<1>2. CASE found = {}
  BY <1>1, <1>2
<1>3. CASE found # {}
  <2>1. found \subseteq Nat
    OBVIOUS
  <2>2. Min(found) \in found /\ \A y \in found : Min(found) <= y
    <3> HIDE DEF found
    <3> QED BY <1>3, <2>1, MinIs
  <2>3. PICK m : m = Min(found)
    OBVIOUS
  <2>4. FirstOf(s, c, from) = m
    BY <1>1, <1>3, <2>3
  <2>5. m \in from .. Len(s) /\ s[m] = c /\ \A y \in found : m <= y
    BY <2>2, <2>3
  <2>6. \A i \in from .. m - 1 : s[i] # c
    BY <2>5
  <2> QED BY <2>4, <2>5, <2>6
<1> QED BY <1>2, <1>3

-----------------------------------------------------------------------------
(* The part of a text from lo to hi, where lo = hi + 1 leaves nothing.     *)
LEMMA Segment ==
  ASSUME NEW s \in Seq(STRING), NEW lo \in Nat \ {0}, NEW hi \in lo - 1 .. Len(s)
  PROVE  /\ SubSeq(s, lo, hi) \in Seq(STRING)
         /\ Len(SubSeq(s, lo, hi)) = hi - lo + 1
         /\ \A i \in 1 .. hi - lo + 1 : SubSeq(s, lo, hi)[i] = s[lo + i - 1]
<1>1. lo \in Int /\ hi \in Int /\ \A i \in lo .. hi : s[i] \in STRING
  OBVIOUS
<1> QED BY <1>1, SubSeqProperties

LEMMA SegmentOfSegment ==
  ASSUME NEW s \in Seq(STRING), NEW lo \in Nat \ {0}, NEW hi \in lo - 1 .. Len(s),
         NEW m \in Nat \ {0}, NEW n \in m - 1 .. hi - lo + 1
  PROVE  SubSeq(SubSeq(s, lo, hi), m, n) = SubSeq(s, lo + m - 1, lo + n - 1)
<1> DEFINE t == SubSeq(s, lo, hi)
<1>1. t \in Seq(STRING) /\ Len(t) = hi - lo + 1
      /\ \A i \in 1 .. hi - lo + 1 : t[i] = s[lo + i - 1]
  BY Segment
<1> HIDE DEF t
<1>2. /\ SubSeq(t, m, n) \in Seq(STRING)
      /\ Len(SubSeq(t, m, n)) = n - m + 1
      /\ \A i \in 1 .. n - m + 1 : SubSeq(t, m, n)[i] = t[m + i - 1]
  <2>1. n \in m - 1 .. Len(t)
    BY <1>1
  <2> QED BY <1>1, <2>1, Segment
<1> DEFINE f == lo + m - 1  g == lo + n - 1
<1>3. f \in Nat \ {0} /\ g \in f - 1 .. Len(s) /\ g - f + 1 = n - m + 1
  OBVIOUS
<1>4. /\ SubSeq(s, f, g) \in Seq(STRING)
      /\ Len(SubSeq(s, f, g)) = g - f + 1
      /\ \A i \in 1 .. g - f + 1 : SubSeq(s, f, g)[i] = s[f + i - 1]
  <2> HIDE DEF f, g
  <2> QED BY <1>3, Segment
<1>5. \A i \in 1 .. n - m + 1 : SubSeq(t, m, n)[i] = SubSeq(s, f, g)[i]
  <2> SUFFICES ASSUME NEW i \in 1 .. n - m + 1
               PROVE  SubSeq(t, m, n)[i] = SubSeq(s, f, g)[i]
    OBVIOUS
  <2>1. SubSeq(t, m, n)[i] = t[m + i - 1] /\ SubSeq(s, f, g)[i] = s[f + i - 1]
    BY <1>2, <1>3, <1>4
  <2>2. m + i - 1 \in 1 .. hi - lo + 1
    OBVIOUS
  <2>3. t[m + i - 1] = s[lo + (m + i - 1) - 1]
    BY <1>1, <2>2
  <2>4. lo + (m + i - 1) - 1 = f + i - 1
    OBVIOUS
  <2> QED BY <2>1, <2>3, <2>4
<1>6. SubSeq(t, m, n) = SubSeq(s, f, g)
  <2> DEFINE u == SubSeq(t, m, n)  v == SubSeq(s, f, g)
  <2>1. u \in Seq(STRING) /\ v \in Seq(STRING) /\ Len(u) = Len(v) /\ Len(u) = n - m + 1
    BY <1>2, <1>3, <1>4
  <2>2. \A i \in 1 .. Len(u) : u[i] = v[i]
    BY <1>5, <2>1
  <2> HIDE DEF u, v
  <2>3. u = v
    BY <2>1, <2>2, SeqEqual
  <2> QED BY <2>3 DEF u, v
<1> QED BY <1>6 DEF t

-----------------------------------------------------------------------------
(* What of s from lo to hi is not blank begins at f and ends at g.         *)
AllBlank(s, lo, hi) == \A i \in lo .. hi : s[i] = Blank

Core(s, lo, hi, f, g) ==
  /\ f \in lo .. hi /\ g \in f .. hi
  /\ s[f] # Blank /\ s[g] # Blank
  /\ AllBlank(s, lo, f - 1) /\ AllBlank(s, g + 1, hi)

(* trim gives the part between the first and the last that is not blank.   *)
LEMMA TrimIs ==
  ASSUME NEW s \in Seq(STRING)
  PROVE  \/ AllBlank(s, 1, Len(s)) /\ trim(s) = <<>>
         \/ \E f, g \in Nat : Core(s, 1, Len(s), f, g) /\ trim(s) = SubSeq(s, f, g)
<1>1. /\ NotBlank(s) \subseteq Nat
      /\ \A i \in NotBlank(s) : i \in 1 .. Len(s) /\ s[i] # Blank
      /\ \A i \in 1 .. Len(s) : s[i] # Blank => i \in NotBlank(s)
  BY DEF NotBlank
<1>2. CASE NotBlank(s) = {}
  BY <1>1, <1>2 DEF trim, AllBlank
<1>3. CASE NotBlank(s) # {}
  <2>1. Len(s) \in Nat
    OBVIOUS
  <2>2. Min(NotBlank(s)) \in NotBlank(s) /\ \A y \in NotBlank(s) : Min(NotBlank(s)) <= y
    BY <1>1, <1>3, MinIs
  <2>3. \A x \in NotBlank(s) : x <= Len(s)
    BY <1>1
  <2>4. Max(NotBlank(s)) \in NotBlank(s) /\ \A y \in NotBlank(s) : y <= Max(NotBlank(s))
    BY <1>1, <1>3, <2>1, <2>3, MaxIs
  <2>5. PICK f \in NotBlank(s) : f = Min(NotBlank(s))
    BY <2>2
  <2>6. PICK g \in NotBlank(s) : g = Max(NotBlank(s))
    BY <2>4
  <2>7. trim(s) = SubSeq(s, f, g)
    BY <1>3, <2>5, <2>6 DEF trim
  <2>8. f \in 1 .. Len(s) /\ g \in f .. Len(s) /\ s[f] # Blank /\ s[g] # Blank
    BY <1>1, <2>1, <2>2, <2>5, <2>6
  <2>9. AllBlank(s, 1, f - 1)
    BY <1>1, <2>2, <2>5, <2>8 DEF AllBlank
  <2>10. AllBlank(s, g + 1, Len(s))
    BY <1>1, <2>4, <2>6, <2>8 DEF AllBlank
  <2> QED BY <2>7, <2>8, <2>9, <2>10 DEF Core
<1> QED BY <1>2, <1>3

(* The same for a part of a text, with the places counted in the text.     *)
LEMMA SegmentTrim ==
  ASSUME NEW s \in Seq(STRING), NEW lo \in Nat \ {0}, NEW hi \in lo - 1 .. Len(s)
  PROVE  \/ AllBlank(s, lo, hi) /\ trim(SubSeq(s, lo, hi)) = <<>>
         \/ \E f, g \in Nat : /\ Core(s, lo, hi, f, g)
                              /\ trim(SubSeq(s, lo, hi)) = SubSeq(s, f, g)
<1> DEFINE t == SubSeq(s, lo, hi)
<1>1. /\ t \in Seq(STRING) /\ Len(t) = hi - lo + 1
      /\ \A i \in 1 .. hi - lo + 1 : t[i] = s[lo + i - 1]
  BY Segment
<1>2. \A i \in lo .. hi : s[i] = t[i - lo + 1]
  <2> SUFFICES ASSUME NEW i \in lo .. hi
               PROVE  s[i] = t[i - lo + 1]
    OBVIOUS
  <2>1. i - lo + 1 \in 1 .. hi - lo + 1 /\ lo + (i - lo + 1) - 1 = i
    OBVIOUS
  <2> HIDE DEF t
  <2> QED BY <1>1, <2>1
<1>3. CASE AllBlank(t, 1, Len(t)) /\ trim(t) = <<>>
  <2>1. \A i \in lo .. hi : t[i - lo + 1] = Blank
    <3> HIDE DEF t
    <3> QED BY <1>1, <1>3 DEF AllBlank
  <2>2. AllBlank(s, lo, hi)
    BY <1>2, <2>1 DEF AllBlank
  <2> QED BY <1>3, <2>2
<1>4. ASSUME NEW m \in Nat, NEW n \in Nat, Core(t, 1, Len(t), m, n), trim(t) = SubSeq(t, m, n)
      PROVE  \E f, g \in Nat : Core(s, lo, hi, f, g) /\ trim(t) = SubSeq(s, f, g)
  <2>1. /\ m \in 1 .. hi - lo + 1 /\ n \in m .. hi - lo + 1
        /\ t[m] # Blank /\ t[n] # Blank
        /\ \A i \in 1 .. m - 1 : t[i] = Blank
        /\ \A i \in n + 1 .. hi - lo + 1 : t[i] = Blank
    <3> HIDE DEF t
    <3> QED BY <1>1, <1>4 DEF Core, AllBlank
  <2> DEFINE f == lo + m - 1  g == lo + n - 1
  <2>2. SubSeq(t, m, n) = SubSeq(s, f, g)
    BY <2>1, SegmentOfSegment
  <2>3. f \in lo .. hi /\ g \in f .. hi /\ f - lo + 1 = m /\ g - lo + 1 = n
    BY <2>1
  <2>4. s[f] # Blank /\ s[g] # Blank
    <3> HIDE DEF t
    <3> QED BY <1>2, <2>1, <2>3
  <2>5. AllBlank(s, lo, f - 1)
    <3> SUFFICES ASSUME NEW i \in lo .. f - 1
                 PROVE  s[i] = Blank
      BY DEF AllBlank
    <3>1. i - lo + 1 \in 1 .. m - 1 /\ i \in lo .. hi
      BY <2>1
    <3> HIDE DEF t
    <3> QED BY <1>2, <2>1, <3>1
  <2>6. AllBlank(s, g + 1, hi)
    <3> SUFFICES ASSUME NEW i \in g + 1 .. hi
                 PROVE  s[i] = Blank
      BY DEF AllBlank
    <3>1. i - lo + 1 \in n + 1 .. hi - lo + 1 /\ i \in lo .. hi
      BY <2>1
    <3> HIDE DEF t
    <3> QED BY <1>2, <2>1, <3>1
  <2>7. Core(s, lo, hi, f, g) /\ trim(t) = SubSeq(s, f, g) /\ f \in Nat /\ g \in Nat
    BY <1>4, <2>2, <2>3, <2>4, <2>5, <2>6 DEF Core
  <2> QED BY <2>7
<1>5. \/ AllBlank(t, 1, Len(t)) /\ trim(t) = <<>>
      \/ \E m, n \in Nat : Core(t, 1, Len(t), m, n) /\ trim(t) = SubSeq(t, m, n)
  <2> HIDE DEF t
  <2> QED BY <1>1, TrimIs
<1> QED BY <1>3, <1>4, <1>5

(* Blanks on either side change nothing: the line may be trimmed before or *)
(* after it is cut at its "=".                                             *)
LEMMA TrimWider ==
  ASSUME NEW s \in Seq(STRING),
         NEW lo \in Nat \ {0}, NEW from \in lo .. Len(s) + 1,
         NEW to \in from - 1 .. Len(s), NEW hi \in to .. Len(s),
         AllBlank(s, lo, from - 1), AllBlank(s, to + 1, hi)
  PROVE  trim(SubSeq(s, lo, hi)) = trim(SubSeq(s, from, to))
<1>1. hi \in lo - 1 .. Len(s) /\ from \in Nat \ {0}
  OBVIOUS
<1> DEFINE t == trim(SubSeq(s, lo, hi))  u == trim(SubSeq(s, from, to))
<1>2. \/ AllBlank(s, lo, hi) /\ t = <<>>
      \/ \E f, g \in Nat : Core(s, lo, hi, f, g) /\ t = SubSeq(s, f, g)
  BY <1>1, SegmentTrim
<1>3. \/ AllBlank(s, from, to) /\ u = <<>>
      \/ \E f, g \in Nat : Core(s, from, to, f, g) /\ u = SubSeq(s, f, g)
  BY <1>1, SegmentTrim
<1> HIDE DEF t, u
<1>4. AllBlank(s, from, to) => AllBlank(s, lo, hi)
  BY DEF AllBlank
<1>5. ASSUME NEW f \in Nat, NEW g \in Nat, Core(s, from, to, f, g)
      PROVE  Core(s, lo, hi, f, g)
  <2>1. /\ f \in from .. to /\ g \in f .. to /\ s[f] # Blank /\ s[g] # Blank
        /\ AllBlank(s, from, f - 1) /\ AllBlank(s, g + 1, to)
    BY <1>5 DEF Core
  <2>2. AllBlank(s, lo, f - 1)
    BY <2>1 DEF AllBlank
  <2>3. AllBlank(s, g + 1, hi)
    BY <2>1 DEF AllBlank
  <2> QED BY <2>1, <2>2, <2>3 DEF Core
<1>6. ASSUME NEW f \in Nat, NEW g \in Nat, Core(s, lo, hi, f, g)
      PROVE  ~ AllBlank(s, lo, hi)
  BY <1>6 DEF Core, AllBlank
<1>7. ASSUME NEW f \in Nat, NEW g \in Nat, Core(s, lo, hi, f, g),
             NEW m \in Nat, NEW n \in Nat, Core(s, lo, hi, m, n)
      PROVE  f = m /\ g = n
  <2>1. ~ (f < m) /\ ~ (m < f)
    BY <1>7 DEF Core, AllBlank
  <2>2. ~ (g < n) /\ ~ (n < g)
    BY <1>7 DEF Core, AllBlank
  <2> QED BY <2>1, <2>2
<1>8. t = u
  <2>1. CASE AllBlank(s, lo, hi) /\ t = <<>>
    BY <1>3, <1>5, <1>6, <2>1
  <2>2. ASSUME NEW m \in Nat, NEW n \in Nat, Core(s, lo, hi, m, n), t = SubSeq(s, m, n)
        PROVE  t = u
    BY <1>3, <1>4, <1>5, <1>6, <1>7, <2>2
  <2> QED BY <1>2, <2>1, <2>2
<1> QED BY <1>8 DEF t, u

(* The longest part that begins and ends with something else than a blank  *)
(* is what trim gives.                                                     *)
LEMMA StripIsTrim ==
  ASSUME NEW s \in Seq(STRING)
  PROVE  Stripped(s) = trim(s)
<1> DEFINE Parts == {part \in (DOMAIN s) \X (DOMAIN s) :
                       /\ part[1] <= part[2]
                       /\ s[part[1]] # Blank /\ s[part[2]] # Blank}
           Longest == CHOOSE part \in Parts :
                        \A other \in Parts : other[2] - other[1] <= part[2] - part[1]
<1>1. Stripped(s) = IF Parts = {} THEN <<>> ELSE SubSeq(s, Longest[1], Longest[2])
  BY DEF Stripped
<1>2. \A part \in Parts :
        /\ part[1] \in 1 .. Len(s) /\ part[2] \in part[1] .. Len(s)
        /\ s[part[1]] # Blank /\ s[part[2]] # Blank
  OBVIOUS
<1>3. CASE AllBlank(s, 1, Len(s)) /\ trim(s) = <<>>
  <2> HIDE DEF Parts
  <2>1. Parts = {}
    BY <1>2, <1>3 DEF AllBlank
  <2> QED BY <1>1, <1>3, <2>1
<1>4. ASSUME NEW f \in Nat, NEW g \in Nat, Core(s, 1, Len(s), f, g), trim(s) = SubSeq(s, f, g)
      PROVE  Stripped(s) = trim(s)
  <2>1. f \in 1 .. Len(s) /\ g \in f .. Len(s) /\ s[f] # Blank /\ s[g] # Blank
    BY <1>4 DEF Core
  <2>2. \A i \in 1 .. Len(s) : s[i] # Blank => f <= i /\ i <= g
    BY <1>4, <2>1 DEF Core, AllBlank
  <2>3. <<f, g>> \in Parts
    BY <2>1
  <2> HIDE DEF Parts
  <2>4. \A part \in Parts : f <= part[1] /\ part[2] <= g
    BY <1>2, <2>2
  <2>5. \A part \in Parts : part[2] - part[1] <= g - f
    BY <1>2, <2>1, <2>4
  <2>6. Longest \in Parts /\ \A other \in Parts : other[2] - other[1] <= Longest[2] - Longest[1]
    BY <2>3, <2>5
  <2> HIDE DEF Longest
  <2>7. g - f <= Longest[2] - Longest[1]
    <3>1. <<f, g>>[2] - <<f, g>>[1] <= Longest[2] - Longest[1]
      BY <2>3, <2>6
    <3> QED BY <3>1
  <2>8. Longest[1] = f /\ Longest[2] = g
    BY <1>2, <2>1, <2>4, <2>6, <2>7
  <2> QED BY <1>1, <1>4, <2>3, <2>8
<1>5. \/ AllBlank(s, 1, Len(s)) /\ trim(s) = <<>>
      \/ \E f, g \in Nat : Core(s, 1, Len(s), f, g) /\ trim(s) = SubSeq(s, f, g)
  BY TrimIs
<1> HIDE DEF Parts, Longest
<1> QED BY <1>3, <1>4, <1>5

-----------------------------------------------------------------------------
(* A line of the format that lies between two breaks, from lo to end, is   *)
(* the only one that ends there.                                           *)
Between(source, lo, end) ==
  /\ lo \in Nat \ {0} /\ end \in lo - 1 .. Len(source)
  /\ lo = 1 \/ lo - 1 \in Breaks(source)
  /\ end = Len(source) \/ end + 1 \in Breaks(source)
  /\ \A i \in lo .. end : i \notin Breaks(source)

(* The first "=" of that line.                                             *)
Delim(source, lo, end, e) ==
  /\ e \in lo .. end /\ source[e] = Equals
  /\ \A i \in lo .. e - 1 : source[i] # Equals

LEMMA LineBetween ==
  ASSUME NEW source \in Seq(STRING), NEW lo, NEW end, Between(source, lo, end),
         NEW line \in Lines(source), lo <= line[3], line[3] <= end + 1
  PROVE  line[1] = lo /\ line[3] = end /\ Delim(source, lo, end, line[2])
<1>1. PICK i, e, j \in 1 .. Len(source) :
        /\ line = <<i, e, j>>
        /\ i = 1 \/ i - 1 \in Breaks(source)
        /\ source[e] = Equals
        /\ j = Len(source) \/ j + 1 \in Breaks(source)
        /\ i <= e /\ e <= j
        /\ \A n \in i .. j : n \notin Breaks(source)
        /\ \A n \in i .. e - 1 : source[n] # Equals
  <2>1. line \in Starts(source) \X Delims(source) \X Ends(source)
    BY DEF Lines
  <2>2. /\ line[1] <= line[2] /\ line[2] <= line[3]
        /\ \A n \in line[1] .. line[3] : n \notin Breaks(source)
        /\ \A n \in line[1] .. line[2] - 1 : source[n] # Equals
    BY DEF Lines
  <2>3. PICK i \in Starts(source), e \in Delims(source), j \in Ends(source) : line = <<i, e, j>>
    BY <2>1
  <2>4. line[1] = i /\ line[2] = e /\ line[3] = j
    BY <2>3
  <2>5. i \in 1 .. Len(source) /\ (i = 1 \/ i - 1 \in Breaks(source))
    BY DEF Starts
  <2>6. e \in 1 .. Len(source) /\ source[e] = Equals
    BY DEF Delims
  <2>7. j \in 1 .. Len(source) /\ (j = Len(source) \/ j + 1 \in Breaks(source))
    BY DEF Ends
  <2> QED BY <2>2, <2>3, <2>4, <2>5, <2>6, <2>7
<1>2. lo \in Nat \ {0} /\ end \in lo - 1 .. Len(source) /\ lo <= j /\ j <= end + 1
  BY <1>1 DEF Between
<1>3. j <= end
  BY <1>1, <1>2 DEF Between
<1>4. j = end
  BY <1>1, <1>2, <1>3 DEF Between
<1>5. ~ (i < lo)
  BY <1>1, <1>2 DEF Between
<1>6. ~ (lo < i)
  BY <1>1, <1>2, <1>4 DEF Between
<1>7. i = lo
  BY <1>2, <1>5, <1>6
<1>8. line[1] = i /\ line[2] = e /\ line[3] = j
  BY <1>1
<1>9. Delim(source, lo, end, e)
  BY <1>1, <1>4, <1>7 DEF Delim
<1> QED BY <1>4, <1>7, <1>8, <1>9

LEMMA BetweenIsLine ==
  ASSUME NEW source \in Seq(STRING), NEW lo, NEW end, Between(source, lo, end),
         NEW e, Delim(source, lo, end, e)
  PROVE  <<lo, e, end>> \in Lines(source)
<1>1. lo \in 1 .. Len(source) /\ e \in lo .. end /\ end \in 1 .. Len(source)
  BY DEF Between, Delim
<1>2. lo \in Starts(source) /\ e \in Delims(source) /\ end \in Ends(source)
  BY <1>1 DEF Between, Delim, Starts, Delims, Ends
<1>3. /\ \A n \in lo .. end : n \notin Breaks(source)
      /\ \A n \in lo .. e - 1 : source[n] # Equals
  BY DEF Between, Delim
<1> QED BY <1>1, <1>2, <1>3 DEF Lines

-----------------------------------------------------------------------------
(* A line without "=" enters nothing.                                      *)
LEMMA NothingEntered ==
  ASSUME NEW source \in Seq(STRING), NEW lo, NEW end, Between(source, lo, end),
         NEW parameters, \A i \in lo .. end : source[i] # Equals
  PROVE  Entered(parameters, trim(SubSeq(source, lo, end))) = parameters
<1>1. lo \in Nat \ {0} /\ end \in lo - 1 .. Len(source)
  BY DEF Between
<1> DEFINE next == trim(SubSeq(source, lo, end))
<1>2. next \in Seq(STRING) /\ \A i \in 1 .. Len(next) : next[i] # Equals
  <2>1. CASE next = <<>>
    <3> HIDE DEF next
    <3> QED BY <2>1
  <2>2. ASSUME NEW f \in Nat, NEW g \in Nat, Core(source, lo, end, f, g), next = SubSeq(source, f, g)
        PROVE  next \in Seq(STRING) /\ \A i \in 1 .. Len(next) : next[i] # Equals
    <3>1. f \in lo .. end /\ g \in f .. end
      BY <2>2 DEF Core
    <3>2. f \in Nat \ {0} /\ g \in f - 1 .. Len(source)
      BY <1>1, <3>1
    <3>3. /\ next \in Seq(STRING) /\ Len(next) = g - f + 1
          /\ \A i \in 1 .. g - f + 1 : next[i] = source[f + i - 1]
      BY <2>2, <3>2, Segment
    <3>4. \A i \in 1 .. g - f + 1 : f + i - 1 \in lo .. end
      BY <1>1, <3>1
    <3> HIDE DEF next
    <3> QED BY <3>3, <3>4
  <2>3. next = <<>> \/ \E f, g \in Nat : Core(source, lo, end, f, g) /\ next = SubSeq(source, f, g)
    BY <1>1, SegmentTrim
  <2> QED BY <2>1, <2>2, <2>3
<1>3. FirstOf(next, Equals, 1) = NPos
  <2> HIDE DEF next
  <2>1. 1 \in Nat \ {0}
    OBVIOUS
  <2> QED BY <1>2, <2>1, FirstIs
<1> HIDE DEF next
<1>4. Entered(parameters, next) = parameters
  BY <1>3 DEF Entered
<1> QED BY <1>4 DEF next

(* The parameters with a line of the format.                               *)
WithLine(source, parameters, line) ==
  [k \in DOMAIN parameters \cup {KeyOf(source, line)} |->
     IF k = KeyOf(source, line) THEN ValueOf(source, line) ELSE parameters[k]]

(* A line with "=" enters what the format says: the blanks that go with    *)
(* the line, and those that go with its key and its value, are the same.   *)
LEMMA LineEntered ==
  ASSUME NEW source \in Seq(STRING), NEW lo, NEW end, Between(source, lo, end),
         NEW parameters, NEW e, Delim(source, lo, end, e)
  PROVE  Entered(parameters, trim(SubSeq(source, lo, end)))
           = WithLine(source, parameters, <<lo, e, end>>)
<1>1. lo \in Nat \ {0} /\ end \in lo - 1 .. Len(source)
  BY DEF Between
<1>2. e \in lo .. end /\ source[e] = Equals /\ \A i \in lo .. e - 1 : source[i] # Equals
  BY DEF Delim
<1>3. source[e] # Blank
  BY <1>2, Characters
<1> DEFINE next == trim(SubSeq(source, lo, end))
<1>4. ~ AllBlank(source, lo, end)
  BY <1>2, <1>3 DEF AllBlank
<1>5. PICK f, g \in Nat : Core(source, lo, end, f, g) /\ next = SubSeq(source, f, g)
  <2>1. \E f, g \in Nat : Core(source, lo, end, f, g) /\ next = SubSeq(source, f, g)
    BY <1>1, <1>4, SegmentTrim
  <2> QED BY <2>1
<1>6. /\ f \in lo .. end /\ g \in f .. end
      /\ AllBlank(source, lo, f - 1) /\ AllBlank(source, g + 1, end)
  BY <1>5 DEF Core
<1>7. f <= e /\ e <= g
  <2>1. ~ (e < f)
    BY <1>1, <1>2, <1>3, <1>6 DEF AllBlank
  <2>2. ~ (g < e)
    BY <1>1, <1>2, <1>3, <1>6 DEF AllBlank
  <2> QED BY <1>1, <1>2, <1>6, <2>1, <2>2
<1>8. f \in Nat \ {0} /\ g \in f - 1 .. Len(source) /\ e \in f .. g /\ e \in Nat
  BY <1>1, <1>2, <1>6, <1>7
<1>9. /\ next \in Seq(STRING) /\ Len(next) = g - f + 1
      /\ \A i \in 1 .. g - f + 1 : next[i] = source[f + i - 1]
  BY <1>5, <1>8, Segment
<1> DEFINE d == e - f + 1
<1>10. d \in 1 .. g - f + 1 /\ f + d - 1 = e
  BY <1>8
<1>11. FirstOf(next, Equals, 1) = d
  <2>1. next[d] = Equals
    <3> HIDE DEF next, d
    <3> QED BY <1>2, <1>9, <1>10
  <2>2. ASSUME NEW i \in 1 .. d - 1
        PROVE  next[i] # Equals
    <3>1. f + i - 1 \in lo .. e - 1 /\ i \in 1 .. g - f + 1
      BY <1>1, <1>6, <1>8
    <3> HIDE DEF next, d
    <3> QED BY <1>2, <1>9, <3>1
  <2> HIDE DEF next, d
  <2>3. d \in 1 .. Len(next) /\ d \in Nat
    BY <1>8, <1>9, <1>10
  <2>4. 1 \in Nat \ {0} /\ NPos = 0
    BY DEF NPos
  <2>5. PICK p : p = FirstOf(next, Equals, 1)
    OBVIOUS
  <2>6. \/ p = NPos /\ \A i \in 1 .. Len(next) : next[i] # Equals
        \/ p \in 1 .. Len(next) /\ next[p] = Equals /\ \A i \in 1 .. p - 1 : next[i] # Equals
    BY <1>9, <2>4, <2>5, FirstIs
  <2>7. p \in 1 .. Len(next) /\ next[p] = Equals /\ \A i \in 1 .. p - 1 : next[i] # Equals
    BY <2>1, <2>3, <2>6
  <2>8. ~ (p < d)
    BY <2>2, <2>3, <2>7
  <2>9. ~ (d < p)
    BY <2>1, <2>3, <2>7
  <2> QED BY <2>3, <2>5, <2>7, <2>8, <2>9
<1>12. trim(SubSeq(next, 1, d - 1)) = KeyOf(source, <<lo, e, end>>)
  <2>1. d - 1 \in 1 - 1 .. g - f + 1 /\ 1 \in Nat \ {0}
    BY <1>8
  <2>2. SubSeq(next, 1, d - 1) = SubSeq(source, f + 1 - 1, f + (d - 1) - 1)
    <3> HIDE DEF d, next
    <3> QED BY <1>5, <1>8, <2>1, SegmentOfSegment
  <2>3. f + 1 - 1 = f /\ f + (d - 1) - 1 = e - 1
    BY <1>8
  <2>4. trim(SubSeq(source, lo, e - 1)) = trim(SubSeq(source, f, e - 1))
    <3>1. /\ f \in lo .. Len(source) + 1 /\ e - 1 \in f - 1 .. Len(source)
          /\ e - 1 \in e - 1 .. Len(source)
      BY <1>1, <1>6, <1>8
    <3>2. AllBlank(source, (e - 1) + 1, e - 1)
      BY <1>8 DEF AllBlank
    <3> QED BY <1>1, <1>6, <3>1, <3>2, TrimWider
  <2>5. SubSeq(source, lo, e - 1) \in Seq(STRING)
    <3>1. e - 1 \in lo - 1 .. Len(source)
      BY <1>1, <1>2
    <3> QED BY <1>1, <3>1, Segment
  <2>6. KeyOf(source, <<lo, e, end>>) = trim(SubSeq(source, lo, e - 1))
    BY <2>5, StripIsTrim DEF KeyOf
  <2> HIDE DEF d, next
  <2> QED BY <2>2, <2>3, <2>4, <2>6
<1>13. trim(SubSeq(next, d + 1, Len(next))) = ValueOf(source, <<lo, e, end>>)
  <2>1. d + 1 \in Nat \ {0} /\ Len(next) \in (d + 1) - 1 .. g - f + 1 /\ Len(next) = g - f + 1
    <3> HIDE DEF d, next
    <3> QED BY <1>8, <1>9, <1>10
  <2>2. SubSeq(next, d + 1, Len(next)) = SubSeq(source, f + (d + 1) - 1, f + Len(next) - 1)
    <3>1. PICK n : n = Len(next)
      OBVIOUS
    <3>2. n \in (d + 1) - 1 .. g - f + 1
      BY <2>1, <3>1
    <3>3. SubSeq(SubSeq(source, f, g), d + 1, n) = SubSeq(source, f + (d + 1) - 1, f + n - 1)
      <4> HIDE DEF d, next
      <4> QED BY <1>8, <2>1, <3>2, SegmentOfSegment
    <3> HIDE DEF d, next
    <3> QED BY <1>5, <3>1, <3>3
  <2>3. f + (d + 1) - 1 = e + 1 /\ f + Len(next) - 1 = g
    <3>1. \A n \in Nat : n = g - f + 1 => f + n - 1 = g
      BY <1>8
    <3>2. f + (d + 1) - 1 = e + 1
      BY <1>8
    <3> HIDE DEF d, next
    <3> QED BY <1>8, <2>1, <3>1, <3>2
  <2>4. trim(SubSeq(source, e + 1, end)) = trim(SubSeq(source, e + 1, g))
    <3>1. /\ e + 1 \in Nat \ {0} /\ e + 1 \in e + 1 .. Len(source) + 1
          /\ g \in (e + 1) - 1 .. Len(source) /\ end \in g .. Len(source)
      BY <1>1, <1>6, <1>8
    <3>2. AllBlank(source, e + 1, (e + 1) - 1)
      BY <1>8 DEF AllBlank
    <3> QED BY <1>6, <3>1, <3>2, TrimWider
  <2>5. SubSeq(source, e + 1, end) \in Seq(STRING)
    <3>1. e + 1 \in Nat \ {0} /\ end \in (e + 1) - 1 .. Len(source)
      BY <1>1, <1>2
    <3> QED BY <3>1, Segment
  <2>6. ValueOf(source, <<lo, e, end>>) = trim(SubSeq(source, e + 1, end))
    BY <2>5, StripIsTrim DEF ValueOf
  <2> HIDE DEF d, next
  <2> QED BY <2>2, <2>3, <2>4, <2>6
<1>14. d # NPos
  BY <1>8 DEF NPos
<1> HIDE DEF next, d
<1>15. Entered(parameters, next)
         = [k \in DOMAIN parameters \cup {trim(SubSeq(next, 1, d - 1))} |->
              IF k = trim(SubSeq(next, 1, d - 1)) THEN trim(SubSeq(next, d + 1, Len(next)))
              ELSE parameters[k]]
  BY <1>11, <1>14 DEF Entered
<1>16. Entered(parameters, next)
         = [k \in DOMAIN parameters \cup {KeyOf(source, <<lo, e, end>>)} |->
              IF k = KeyOf(source, <<lo, e, end>>) THEN ValueOf(source, <<lo, e, end>>)
              ELSE parameters[k]]
  BY <1>12, <1>13, <1>15
<1> QED BY <1>16 DEF next, WithLine

-----------------------------------------------------------------------------
(* The invariant of the loop.  All lines that end in the first done places *)
(* have been read, and the parameters hold for each key the value of the   *)
(* last of them.                                                           *)
Done(source, loop) == IF loop.pos = NPos THEN Len(source) ELSE loop.last_pos - 1

AtBreak(source, loop) ==
  \/ loop.pos = NPos
  \/ loop.pos = 1 /\ loop.last_pos = 1
  \/ loop.pos \in Breaks(source) /\ loop.last_pos = loop.pos + 1

LinesTo(source, done) == {line \in Lines(source) : line[3] <= done}

(* No line up to done that has the key of this one begins after it.        *)
LastTo(source, done, line) ==
  /\ line \in LinesTo(source, done)
  /\ \A other \in LinesTo(source, done) :
       KeyOf(source, other) = KeyOf(source, line) => other[1] <= line[1]

HoldsTo(source, done, parameters) ==
  /\ parameters = [key \in {KeyOf(source, line) : line \in LinesTo(source, done)} |->
                     parameters[key]]
  /\ \A line \in Lines(source) :
       LastTo(source, done, line) => parameters[KeyOf(source, line)] = ValueOf(source, line)

LoopInvariant(source, loop) ==
  /\ loop.pos \in Nat
  /\ AtBreak(source, loop)
  /\ HoldsTo(source, Done(source, loop), loop.parameters)

LEMMA LinePlaces ==
  ASSUME NEW source \in Seq(STRING), NEW line \in Lines(source)
  PROVE  /\ line[1] \in 1 .. Len(source) /\ line[2] \in 1 .. Len(source)
         /\ line[3] \in 1 .. Len(source) /\ line[1] <= line[3]
         /\ line = <<line[1], line[2], line[3]>>
<1>1. /\ line \in Starts(source) \X Delims(source) \X Ends(source)
      /\ line[1] <= line[2] /\ line[2] <= line[3]
  BY DEF Lines
<1>2. /\ line[1] \in Starts(source) /\ line[2] \in Delims(source) /\ line[3] \in Ends(source)
      /\ line = <<line[1], line[2], line[3]>>
  BY <1>1
<1>3. /\ line[1] \in 1 .. Len(source) /\ line[2] \in 1 .. Len(source)
      /\ line[3] \in 1 .. Len(source)
  BY <1>2 DEF Starts, Delims, Ends
<1> QED BY <1>1, <1>2, <1>3

(* One line more, after all the others: its value takes the place of the   *)
(* one its key had.                                                        *)
LEMMA OneLineMore ==
  ASSUME NEW source \in Seq(STRING), NEW done, NEW parameters,
         HoldsTo(source, done, parameters),
         NEW later, NEW fresh \in Lines(source),
         LinesTo(source, later) = LinesTo(source, done) \cup {fresh},
         \A line \in LinesTo(source, done) : line[1] < fresh[1]
  PROVE  HoldsTo(source, later, WithLine(source, parameters, fresh))
<1> DEFINE Keys(d) == {KeyOf(source, line) : line \in LinesTo(source, d)}
           new == WithLine(source, parameters, fresh)
<1> USE DEF WithLine
<1>1. DOMAIN parameters = Keys(done)
  BY DEF HoldsTo
<1>2. Keys(later) = Keys(done) \cup {KeyOf(source, fresh)}
  OBVIOUS
<1>3. new = [key \in Keys(later) |-> new[key]]
  <2> HIDE DEF Keys
  <2> QED BY <1>1, <1>2
<1>4. ASSUME NEW line \in Lines(source), LastTo(source, later, line)
      PROVE  new[KeyOf(source, line)] = ValueOf(source, line)
  <2>1. CASE line = fresh
    BY <2>1
  <2>2. CASE line # fresh
    <3>1. line \in LinesTo(source, done)
      BY <1>4, <2>2 DEF LastTo
    <3>2. line[1] < fresh[1] /\ line[1] \in Int /\ fresh[1] \in Int
      BY <3>1, LinePlaces
    <3>3. fresh \in LinesTo(source, later)
      OBVIOUS
    <3>4. KeyOf(source, fresh) # KeyOf(source, line)
      BY <1>4, <3>2, <3>3 DEF LastTo
    <3>5. LastTo(source, done, line)
      BY <1>4, <3>1 DEF LastTo
    <3>6. parameters[KeyOf(source, line)] = ValueOf(source, line)
      BY <3>5 DEF HoldsTo
    <3>7. KeyOf(source, line) \in DOMAIN parameters
      BY <1>1, <3>1
    <3> QED BY <3>4, <3>6, <3>7
  <2> QED BY <2>1, <2>2
<1> HIDE DEF new
<1>5. HoldsTo(source, later, new)
  BY <1>3, <1>4 DEF HoldsTo
<1> QED BY <1>5 DEF new

(* A round reads one line more, and goes forward.                          *)
LEMMA RoundReads ==
  ASSUME NEW source \in Seq(STRING),
         NEW loop, LoopInvariant(source, loop), loop.pos # NPos
  PROVE  /\ LoopInvariant(source, Round(source, loop))
         /\ Round(source, loop).pos = NPos \/ Round(source, loop).pos > loop.pos
<1> DEFINE pos == FirstOf(source, Break, loop.pos + 1)
           lo == loop.last_pos
           end == IF pos = NPos THEN Len(source) ELSE pos - 1
           later == IF pos = NPos THEN Len(source) ELSE pos
           parameters == Entered(loop.parameters, trim(SubSeq(source, lo, end)))
<1>1. Round(source, loop) = [pos |-> pos, last_pos |-> pos + 1, parameters |-> parameters]
  BY DEF Round
<1>2. /\ loop.pos \in Nat \ {0} /\ loop.pos + 1 \in Nat \ {0}
      /\ \/ loop.pos = 1 /\ lo = 1
         \/ loop.pos \in Breaks(source) /\ loop.pos \in 1 .. Len(source) /\ lo = loop.pos + 1
  BY DEF LoopInvariant, AtBreak, NPos, Breaks
<1>3. \/ pos = 0 /\ \A i \in loop.pos + 1 .. Len(source) : source[i] # Break
      \/ /\ pos \in loop.pos + 1 .. Len(source) /\ source[pos] = Break
         /\ \A i \in loop.pos + 1 .. pos - 1 : source[i] # Break
  BY <1>2, FirstIs DEF NPos
<1> HIDE DEF pos
<1>4. pos = NPos \/ pos \in Breaks(source)
  <2>1. \A i \in loop.pos + 1 .. Len(source) : i \in DOMAIN source /\ i > 1
    BY <1>2
  <2> QED BY <1>3, <2>1 DEF Breaks, NPos
<1>5. /\ lo \in Nat \ {0} /\ end \in lo - 1 .. Len(source) /\ later \in Nat
      /\ end = later \/ end + 1 = later
      /\ later <= Len(source) /\ end <= later
  BY <1>2, <1>3 DEF NPos
<1>6. Between(source, lo, end)
  <2>1. lo = 1 \/ lo - 1 \in Breaks(source)
    <3>1. loop.pos + 1 - 1 = loop.pos
      BY <1>2
    <3> QED BY <1>2, <3>1
  <2>2. end = Len(source) \/ end + 1 \in Breaks(source)
    <3>1. pos \in Nat => pos - 1 + 1 = pos
      OBVIOUS
    <3> QED BY <1>2, <1>3, <1>4, <3>1 DEF NPos
  <2>3. ASSUME NEW i \in lo .. end
        PROVE  i \notin Breaks(source)
    <3>1. CASE loop.pos = 1 /\ lo = 1 /\ i = 1
      BY <3>1 DEF Breaks
    <3>2. CASE loop.pos + 1 <= i
      BY <1>2, <1>3, <1>5, <3>2 DEF NPos, Breaks
    <3> QED BY <1>2, <1>5, <3>1, <3>2
  <2> HIDE DEF end
  <2> QED BY <1>5, <2>1, <2>2, <2>3 DEF Between
<1> HIDE DEF end, later
<1>7. /\ HoldsTo(source, lo - 1, loop.parameters)
      /\ \A line \in LinesTo(source, lo - 1) : line[1] < lo
  <2>1. Done(source, loop) = lo - 1
    BY DEF Done
  <2>2. HoldsTo(source, lo - 1, loop.parameters)
    BY <2>1 DEF LoopInvariant
  <2>3. \A line \in LinesTo(source, lo - 1) :
          line[1] \in Int /\ line[3] \in Int /\ line[1] <= line[3] /\ line[3] <= lo - 1
    BY LinePlaces DEF LinesTo
  <2> QED BY <1>5, <2>2, <2>3
<1>8. HoldsTo(source, later, parameters)
  <2>1. \A line \in Lines(source) :
          line[3] <= later <=> line[3] <= lo - 1 \/ (lo <= line[3] /\ line[3] <= end + 1 /\ line[3] <= later)
    <3>1. \A line \in Lines(source) : line[3] \in Int
      BY LinePlaces
    <3> QED BY <1>5, <3>1
  <2>2. CASE \E e \in Nat : Delim(source, lo, end, e)
    <3>1. PICK e \in Nat : Delim(source, lo, end, e)
      BY <2>2
    <3> DEFINE fresh == <<lo, e, end>>
    <3>2. fresh \in Lines(source)
      BY <1>6, <3>1, BetweenIsLine
    <3>3. ASSUME NEW line \in Lines(source), lo <= line[3], line[3] <= end + 1
          PROVE  line = fresh
      <4>1. line[1] = lo /\ line[3] = end /\ Delim(source, lo, end, line[2])
        BY <1>6, <3>3, LineBetween
      <4>2. line[2] \in Nat
        BY LinePlaces
      <4>3. ~ (line[2] < e) /\ ~ (e < line[2])
        BY <1>5, <3>1, <4>1, <4>2 DEF Delim
      <4>4. line[2] = e
        BY <4>2, <4>3
      <4> QED BY <4>1, <4>4, LinePlaces
    <3>4. fresh[1] = lo /\ fresh[3] = end
      OBVIOUS
    <3> HIDE DEF fresh
    <3>5. LinesTo(source, later) = LinesTo(source, lo - 1) \cup {fresh}
      <4>1. end <= later /\ end \in Int /\ later \in Int
        BY <1>5
      <4>2. fresh \in LinesTo(source, later)
        BY <3>2, <3>4, <4>1 DEF LinesTo
      <4> QED BY <2>1, <3>3, <4>2 DEF LinesTo
    <3>6. parameters = WithLine(source, loop.parameters, fresh)
      BY <1>6, <3>1, LineEntered DEF fresh
    <3>7. \A line \in LinesTo(source, lo - 1) : line[1] < fresh[1]
      BY <1>7, <3>4
    <3>8. HoldsTo(source, later, WithLine(source, loop.parameters, fresh))
      BY <1>7, <3>2, <3>5, <3>7, OneLineMore
    <3> HIDE DEF parameters
    <3> QED BY <3>6, <3>8
  <2>3. CASE ~ \E e \in Nat : Delim(source, lo, end, e)
    <3>1. \A i \in lo .. end : source[i] # Equals
      <4>1. PICK e : e = FirstOf(source, Equals, lo)
        OBVIOUS
      <4>2. \/ \A i \in lo .. Len(source) : source[i] # Equals
            \/ /\ e \in lo .. Len(source) /\ source[e] = Equals
               /\ \A i \in lo .. e - 1 : source[i] # Equals
        BY <1>5, <4>1, FirstIs
      <4>3. CASE \A i \in lo .. Len(source) : source[i] # Equals
        BY <1>5, <4>3
      <4>4. CASE e \in lo .. Len(source) /\ \A i \in lo .. e - 1 : source[i] # Equals
        <5>1. e <= end => source[e] # Equals
          BY <1>5, <2>3, <4>4 DEF Delim
        <5>2. source[e] = Equals => end < e
          BY <1>5, <4>4, <5>1
        <5> QED BY <1>5, <4>2, <4>3, <4>4, <5>2
      <4> QED BY <4>2, <4>3, <4>4
    <3>2. parameters = loop.parameters
      BY <1>6, <3>1, NothingEntered
    <3>3. \A line \in Lines(source) : ~ (lo <= line[3] /\ line[3] <= end + 1)
      BY <1>6, <2>3, LineBetween, LinePlaces
    <3>4. LinesTo(source, later) = LinesTo(source, lo - 1)
      BY <2>1, <3>3 DEF LinesTo
    <3> HIDE DEF parameters
    <3> QED BY <1>7, <3>2, <3>4 DEF HoldsTo, LastTo
  <2> QED BY <2>2, <2>3
<1> HIDE DEF parameters
<1>9. PICK next : next = [pos |-> pos, last_pos |-> pos + 1, parameters |-> parameters]
  OBVIOUS
<1>10. next.pos = pos /\ next.last_pos = pos + 1 /\ next.parameters = parameters
  BY <1>9
<1>11. pos \in Nat /\ (pos = NPos \/ pos > loop.pos)
  BY <1>2, <1>3 DEF NPos
<1>12. AtBreak(source, next)
  BY <1>4, <1>10 DEF AtBreak, NPos
<1>13. Done(source, next) = later
  BY <1>10, <1>11 DEF Done, later
<1> QED BY <1>1, <1>8, <1>9, <1>10, <1>11, <1>12, <1>13 DEF LoopInvariant

-----------------------------------------------------------------------------
(* The rounds of the loop, one after the other.  The definition of         *)
(* read_hints chooses a function for them: there is one, since a least n   *)
(* for which there is none cannot be.                                      *)
AreRounds(source, n, after) ==
  after = [m \in 0 .. n |-> IF m = 0 THEN Start ELSE Round(source, after[m - 1])]

LEMMA RoundsExist ==
  ASSUME NEW source, NEW n \in Nat
  PROVE  \E after : AreRounds(source, n, after)
<1> DEFINE Without == {m \in Nat : ~ \E after : AreRounds(source, m, after)}
<1>1. 0 \notin Without
  <2>1. AreRounds(source, 0, [m \in 0 .. 0 |-> Start])
    BY DEF AreRounds
  <2> QED BY <2>1
<1>2. ASSUME NEW m \in Nat, m # 0, m - 1 \notin Without
      PROVE  m \notin Without
  <2>1. PICK before : AreRounds(source, m - 1, before)
    <3>1. m - 1 \in Nat
      BY <1>2
    <3> QED BY <1>2, <3>1
  <2> DEFINE after == [k \in 0 .. m |-> IF k = m THEN Round(source, before[m - 1]) ELSE before[k]]
  <2>2. AreRounds(source, m, after)
    <3>1. ASSUME NEW k \in 0 .. m
          PROVE  after[k] = IF k = 0 THEN Start ELSE Round(source, after[k - 1])
      <4>1. CASE k = m
        <5>1. after[k] = Round(source, before[m - 1]) /\ after[k - 1] = before[m - 1]
          BY <1>2, <4>1
        <5> QED BY <1>2, <4>1, <5>1
      <4>2. CASE k # m
        <5>1. k \in 0 .. m - 1 /\ after[k] = before[k]
          BY <4>2
        <5>2. before[k] = IF k = 0 THEN Start ELSE Round(source, before[k - 1])
          BY <2>1, <5>1 DEF AreRounds
        <5>3. k # 0 => after[k - 1] = before[k - 1]
          BY <5>1
        <5> QED BY <5>1, <5>2, <5>3
      <4> QED BY <4>1, <4>2
    <3>2. after = [k \in 0 .. m |-> after[k]]
      OBVIOUS
    <3> HIDE DEF after
    <3> QED BY <3>1, <3>2 DEF AreRounds
  <2> QED BY <2>2
<1>3. Without = {}
  <2> SUFFICES ASSUME Without # {}
               PROVE  FALSE
    OBVIOUS
  <2>1. Without \subseteq Nat
    OBVIOUS
  <2> HIDE DEF Without
  <2>2. PICK m \in Without : \A k \in Without : m <= k
    BY <2>1, LeastNumber
  <2>3. m \in Nat /\ m # 0
    BY <1>1, <2>1, <2>2
  <2>4. m - 1 \notin Without
    BY <2>2, <2>3
  <2> QED BY <1>2, <2>2, <2>3, <2>4
<1> QED BY <1>3

(* Each round keeps the invariant and goes forward, so that the loop is    *)
(* over after as many rounds as read_hints gives it.                       *)
LEMMA RoundsRead ==
  ASSUME NEW source \in Seq(STRING),
         NEW after, AreRounds(source, Len(source) + 1, after)
  PROVE  /\ after[Len(source) + 1].pos = NPos
         /\ LoopInvariant(source, after[Len(source) + 1])
<1> DEFINE last == Len(source) + 1
           Good(n) == /\ LoopInvariant(source, after[n])
                      /\ after[n].pos = NPos \/ after[n].pos > n
           Bad == {n \in 0 .. last : ~ Good(n)}
<1>1. last \in Nat \ {0}
  OBVIOUS
<1>2. \A n \in 0 .. last : after[n] = IF n = 0 THEN Start ELSE Round(source, after[n - 1])
  BY DEF AreRounds
<1>3. Good(0)
  <2>1. after[0] = Start
    BY <1>1, <1>2
  <2>2. Start.pos = 1 /\ Start.last_pos = 1 /\ Start.parameters = <<>>
    BY DEF Start
  <2>3. LinesTo(source, 0) = {}
    BY LinePlaces DEF LinesTo
  <2>4. Done(source, Start) = 0 /\ AtBreak(source, Start)
    BY <2>2 DEF Done, AtBreak, NPos
  <2>5. <<>> = [key \in {KeyOf(source, line) : line \in LinesTo(source, 0)} |-> <<>>[key]]
    <3>1. {KeyOf(source, line) : line \in LinesTo(source, 0)} = {}
      BY <2>3
    <3> QED BY <3>1
  <2>6. HoldsTo(source, 0, <<>>)
    BY <2>3, <2>5 DEF HoldsTo, LastTo
  <2>7. LoopInvariant(source, Start)
    BY <2>2, <2>4, <2>6 DEF LoopInvariant
  <2> QED BY <2>1, <2>2, <2>7
<1>4. ASSUME NEW n \in 0 .. last, n # 0, Good(n - 1)
      PROVE  Good(n)
  <2>1. after[n] = Round(source, after[n - 1])
    BY <1>2, <1>4
  <2>2. CASE after[n - 1].pos = NPos
    <3>1. after[n] = after[n - 1]
      BY <2>1, <2>2 DEF Round
    <3> QED BY <1>4, <2>2, <3>1
  <2>3. CASE after[n - 1].pos # NPos
    <3> DEFINE before == after[n - 1]
    <3>1. LoopInvariant(source, before) /\ before.pos > n - 1 /\ before.pos # NPos
      BY <1>4, <2>3
    <3> HIDE DEF before
    <3>2. /\ LoopInvariant(source, Round(source, before))
          /\ Round(source, before).pos = NPos \/ Round(source, before).pos > before.pos
      BY <3>1, RoundReads
    <3>3. after[n] = Round(source, before)
      BY <2>1 DEF before
    <3>4. before.pos \in Nat /\ after[n].pos \in Nat
      BY <3>1, <3>2, <3>3 DEF LoopInvariant
    <3>5. after[n].pos = NPos \/ after[n].pos > n
      BY <3>1, <3>2, <3>3, <3>4
    <3> QED BY <3>2, <3>3, <3>5
  <2> QED BY <2>2, <2>3
<1> HIDE DEF Good
<1>5. Bad = {}
  <2> SUFFICES ASSUME Bad # {}
               PROVE  FALSE
    OBVIOUS
  <2>1. Bad \subseteq Nat /\ \A n \in Bad : n \in 0 .. last /\ ~ Good(n)
    OBVIOUS
  <2>2. \A n \in 0 .. last : ~ Good(n) => n \in Bad
    OBVIOUS
  <2> HIDE DEF Bad, last
  <2>3. PICK n \in Bad : \A m \in Bad : n <= m
    BY <2>1, LeastNumber
  <2>4. n \in 0 .. last /\ n # 0 /\ ~ Good(n)
    BY <1>3, <2>1, <2>3
  <2>5. n - 1 \in 0 .. last /\ n - 1 \notin Bad
    BY <1>1, <2>3, <2>4
  <2> QED BY <1>4, <2>2, <2>4, <2>5
<1>6. Good(last)
  BY <1>1, <1>5
<1>7. LoopInvariant(source, after[last])
  BY <1>6 DEF Good
<1>8. after[last].pos = NPos
  <2>1. after[last].pos = NPos \/ after[last].pos > last
    BY <1>6 DEF Good
  <2>2. after[last].pos = NPos \/ after[last].pos = 1 \/ after[last].pos \in 1 .. Len(source)
    BY <1>7 DEF LoopInvariant, AtBreak, Breaks
  <2> QED BY <1>1, <2>1, <2>2
<1> QED BY <1>7, <1>8

-----------------------------------------------------------------------------
(* read_hints reads what the format says: every key of every line, with    *)
(* the value of the last line that has it, and nothing else.               *)
THEOREM HintsRead ==
  ASSUME NEW source \in Seq(STRING)
  PROVE  read_hints(source) = Documented(source)
<1> DEFINE n == Len(source) + 1
           lines == Lines(source)
           Keys == {KeyOf(source, line) : line \in lines}
           LastFor(key) ==
             CHOOSE line \in lines :
               /\ KeyOf(source, line) = key
               /\ \A other \in lines : KeyOf(source, other) = key => other[1] <= line[1]
<1>1. PICK after : /\ AreRounds(source, n, after)
                   /\ read_hints(source) = after[n].parameters
  <2> DEFINE f == CHOOSE g : g = [m \in 0 .. n |-> IF m = 0 THEN Start ELSE Round(source, g[m - 1])]
  <2>1. read_hints(source) = f[n].parameters
    BY DEF read_hints
  <2>2. \E g : g = [m \in 0 .. n |-> IF m = 0 THEN Start ELSE Round(source, g[m - 1])]
    <3>1. n \in Nat
      OBVIOUS
    <3> HIDE DEF n
    <3>2. PICK g : AreRounds(source, n, g)
      BY <3>1, RoundsExist
    <3>3. g = [m \in 0 .. n |-> IF m = 0 THEN Start ELSE Round(source, g[m - 1])]
      BY <3>2 DEF AreRounds
    <3> QED BY <3>3
  <2>3. AreRounds(source, n, f)
    BY <2>2 DEF AreRounds
  <2> QED BY <2>1, <2>3
<1>2. after[n].pos = NPos /\ LoopInvariant(source, after[n])
  BY <1>1, RoundsRead
<1>3. HoldsTo(source, Len(source), read_hints(source))
  BY <1>1, <1>2 DEF LoopInvariant, Done
<1>4. LinesTo(source, Len(source)) = lines
  BY LinePlaces DEF LinesTo
<1>5. read_hints(source) = [key \in Keys |-> read_hints(source)[key]]
  BY <1>3, <1>4 DEF HoldsTo
<1>6. ASSUME NEW key \in Keys
      PROVE  read_hints(source)[key] = ValueOf(source, LastFor(key))
  <2> DEFINE first == {line[1] : line \in {l \in lines : KeyOf(source, l) = key}}
  <2>1. first \subseteq Nat /\ first # {} /\ Len(source) \in Nat /\ \A i \in first : i <= Len(source)
    BY LinePlaces
  <2>2. PICK i \in first : \A j \in first : j <= i
    <3> HIDE DEF first
    <3> QED BY <2>1, GreatestNumber
  <2>3. \E line \in lines :
           /\ KeyOf(source, line) = key
           /\ \A other \in lines : KeyOf(source, other) = key => other[1] <= line[1]
    BY <2>2
  <2>4. /\ LastFor(key) \in lines
        /\ KeyOf(source, LastFor(key)) = key
        /\ \A other \in lines : KeyOf(source, other) = key => other[1] <= LastFor(key)[1]
    BY <2>3
  <2> HIDE DEF LastFor
  <2>5. LastTo(source, Len(source), LastFor(key))
    BY <1>4, <2>4 DEF LastTo
  <2> QED BY <1>3, <2>4, <2>5 DEF HoldsTo
<1>7. Documented(source) = [key \in Keys |-> ValueOf(source, LastFor(key))]
  BY DEF Documented
<1> HIDE DEF Keys, LastFor
<1> QED BY <1>5, <1>6, <1>7

(* find_key gives the value the hints name for the key, cut or filled up   *)
(* to the length of the caller's buffer, and finds no key they do not have.*)
THEOREM KeyFound ==
  ASSUME NEW source \in Seq(STRING), NEW length \in Nat
  PROVE  FoundAsDocumented(source, length)
<1> DEFINE hinted == Documented(source)
<1>1. read_hints(source) = hinted
  BY HintsRead
<1> HIDE DEF hinted
<1>2. ASSUME NEW key \in DOMAIN hinted
      PROVE  LET found == find_key(source, key, length) IN
             /\ found.found
             /\ Len(found.buf) = length
             /\ \A n \in 1 .. length :
                  found.buf[n] = IF n <= Len(hinted[key]) THEN hinted[key][n] ELSE NUL
  <2> DEFINE found == find_key(source, key, length)
  <2>1. found = [found |-> TRUE, buf |-> strncpy(hinted[key], length)]
    BY <1>1, <1>2 DEF find_key
  <2>2. found.found /\ found.buf = [i \in 1 .. length |->
                                      IF i <= Len(hinted[key]) THEN hinted[key][i] ELSE NUL]
    BY <2>1 DEF strncpy
  <2> HIDE DEF found
  <2>3. Len(found.buf) = length
    BY <2>2, LenProperties
  <2> QED BY <2>2, <2>3 DEF found
<1> QED BY <1>1, <1>2 DEF FoundAsDocumented, hinted

-----------------------------------------------------------------------------
(* The property of the run, for any set of sources and of lengths: the     *)
(* input of a behaviour stays what it was.                                 *)
THEOREM HintsFound == RoutinesSpec => []HintsAsDocumented
<1> DEFINE Chosen == input \in Inputs
<1>1. RoutinesInit => Chosen
  BY DEF RoutinesInit
<1>2. Chosen /\ [RoutinesNext]_<<iobufVars, input>> => Chosen'
  BY DEF RoutinesNext
<1>3. Chosen => HintsAsDocumented
  <2> SUFFICES ASSUME Chosen, input.of = "hints",
                      NEW length \in Lengths
               PROVE  FoundAsDocumented(input.source, length)
    BY DEF HintsAsDocumented
  <2>1. input.source \in Sources
    BY DEF Inputs, Ring
  <2>2. input.source \in Seq(STRING) /\ length \in Nat
    BY <2>1, RoutinesAssumption
  <2> QED BY <2>2, KeyFound
<1> QED BY <1>1, <1>2, <1>3, PTL DEF RoutinesSpec
=============================================================================
