-------------------------- MODULE DashboardProofs --------------------------
(***************************************************************************)
(* What the dashboard says of units is what the server does for them: the  *)
(* versions that the server, the device and the dashboard read out of one  *)
(* string are ordered alike (VersionParsing), and the cards of the device  *)
(* page agree with its rows (DevicePage).                                  *)
(***************************************************************************)
EXTENDS DevicePage, VersionParsing, VersionOrderProofs, FiniteSetTheorems

(***************************************************************************)
(* VersionParsing.                                                         *)
(***************************************************************************)
\* A dot is a string, which the provers do not know.
Characters == STRING \cup {"."}
Text == Seq(Characters)

LEMMA Dot ==
    /\ <<".">> \in Text /\ <<".">> # <<>>
    /\ Len(<<".">>) = 1 /\ Head(<<".">>) = "." /\ Range(<<".">>) = {"."}
  <1>1. "." \in Characters
    BY DEF Characters
  <1>2. <<".">> \in Seq(Characters) /\ Len(<<".">>) = 1 /\ DOMAIN <<".">> = 1..1
    BY <1>1
  <1>3. Range(<<".">>) = {"."}
    BY <1>2 DEF Range
  <1> QED BY <1>2, <1>3 DEF Text

LEMMA IntervalSize ==
    ASSUME NEW n \in Nat
    PROVE  IsFiniteSet(1..n) /\ Cardinality(1..n) = n
  <1>1. /\ IsFiniteSet(1..n)
        /\ Cardinality(1..n) = IF 1 > n THEN 0 ELSE n - 1 + 1
    BY FS_Interval
  <1> QED BY <1>1

(* What a leading run holds.                                               *)
LEMMA RunsHold ==
    ASSUME NEW S, NEW s \in Seq(S), NEW set
    PROVE  /\ LeadingRun(s, set) \in Seq(S \cap set)
           /\ Len(LeadingRun(s, set)) <= Len(s)
           /\ \A i \in 1..Len(LeadingRun(s, set)) : LeadingRun(s, set)[i] = s[i]
  <1> DEFINE Run == {i \in DOMAIN s : \A j \in 1..i : s[j] \in set}
             c == Cardinality(Run)
  <1>1. Len(s) \in Nat /\ DOMAIN s = 1..Len(s) /\ \A i \in 1..Len(s) : s[i] \in S
    BY LenProperties, ElementOfSeq
  <1>2. IsFiniteSet(1..Len(s)) /\ Cardinality(1..Len(s)) = Len(s)
    BY <1>1, IntervalSize
  <1>3. IsFiniteSet(Run) /\ c \in Nat /\ c <= Len(s)
    <2>1. Run \subseteq 1..Len(s)
      BY <1>1
    <2> HIDE DEF Run
    <2> QED BY <1>2, <2>1, FS_Subset, FS_CardinalityType
  <1>4. ASSUME NEW j \in 1..c PROVE s[j] \in set
    <2> SUFFICES ASSUME s[j] \notin set PROVE FALSE
      OBVIOUS
    <2>1. j \in Nat /\ j - 1 \in Nat /\ Run \subseteq 1..(j - 1)
      BY <1>1, <1>3
    <2>2. IsFiniteSet(1..(j - 1)) /\ Cardinality(1..(j - 1)) = j - 1
      BY <2>1, IntervalSize
    <2>3. c <= j - 1
      <3> HIDE DEF Run
      <3> QED BY <2>1, <2>2, FS_Subset
    <2> QED BY <1>3, <2>1, <2>3
  <1>5. LeadingRun(s, set) = SubSeq(s, 1, c)
    BY DEF LeadingRun
  <1> HIDE DEF c
  <1>6. /\ SubSeq(s, 1, c) \in Seq(S)
        /\ Len(SubSeq(s, 1, c)) = c
        /\ \A i \in 1..c : SubSeq(s, 1, c)[i] = s[i]
    BY <1>1, <1>3, SubSeqProperties
  <1>7. \A i \in 1..c : SubSeq(s, 1, c)[i] \in S \cap set
    BY <1>1, <1>3, <1>4, <1>6
  <1>8. SubSeq(s, 1, c) \in Seq(S \cap set)
    <2>1. SubSeq(s, 1, c) = [i \in 1..c |-> SubSeq(s, 1, c)[i]]
      BY <1>6, LenProperties
    <2> QED BY <1>3, <1>7, <2>1, IsASeq
  <1> QED BY <1>3, <1>5, <1>6, <1>8

LEMMA DigitValues ==
    \A c \in AsciiDigits \cup ScriptDigits : DigitValue[c] \in Nat
  BY DEF DigitValue, AsciiDigits, ScriptDigits

(* Decimal is defined by recursion over the digits: it is a number.        *)
LEMMA DecimalIsNat ==
    ASSUME NEW digits \in Seq(AsciiDigits \cup ScriptDigits)
    PROVE  Decimal(digits) \in Nat
  <1> DEFINE N == Len(digits)
             Body(g) == [n \in 0..N |-> IF n = 0 THEN 0 ELSE 10 * g[n - 1] + DigitValue[digits[n]]]
             step == [n \in 1..N |-> [x \in Nat |-> 10 * x + DigitValue[digits[n]]]]
             value == CHOOSE g : g = Body(g)
             T == {n \in Nat : n <= N => value[n] \in Nat}
  <1>1. N \in Nat /\ \A n \in 1..N : DigitValue[digits[n]] \in Nat
    BY LenProperties, ElementOfSeq, DigitValues
  <1>2. step \in [1..N -> [Nat -> Nat]]
    BY <1>1
  <1>3. \E g : g = Body(g)
    <2> HIDE DEF step
    <2>1. PICK g \in [0..N -> Nat] : g[0] = 0 /\ \A n \in 1..N : g[n] = step[n][g[n - 1]]
      <3> HIDE DEF N
      <3>1. N \in Nat /\ 0 \in Nat
        BY <1>1
      <3>2. Recursive(N, Nat, 0, step)
        BY <1>2, <3>1, Recursion
      <3> QED BY <3>2 DEF Recursive
    <2>2. ASSUME NEW n \in 0..N PROVE g[n] = Body(g)[n]
      <3>1. CASE n = 0
        BY <2>1, <3>1
      <3>2. CASE n # 0
        <4>1. n \in 1..N /\ n - 1 \in 0..N
          BY <1>1, <3>2
        <4>2. g[n - 1] \in Nat
          BY <2>1, <4>1
        <4>3. step[n][g[n - 1]] = 10 * g[n - 1] + DigitValue[digits[n]]
          BY <4>1, <4>2 DEF step
        <4> QED BY <2>1, <3>2, <4>1, <4>3
      <3> QED BY <3>1, <3>2
    <2>3. g = Body(g)
      BY <2>1, <2>2
    <2> QED BY <2>3
  <1>4. value = Body(value)
    <2> HIDE DEF Body
    <2> QED BY <1>3
  <1> HIDE DEF value
  <1>5. 0 \in T
    BY <1>1, <1>4
  <1>6. ASSUME NEW n \in Nat, n \in T PROVE n + 1 \in T
    <2> SUFFICES ASSUME n + 1 <= N PROVE value[n + 1] \in Nat
      OBVIOUS
    <2>1. n + 1 \in 1..N /\ n + 1 \in 0..N /\ n + 1 # 0 /\ (n + 1) - 1 = n /\ value[n] \in Nat
      BY <1>1, <1>6
    <2>2. value[n + 1] = 10 * value[n] + DigitValue[digits[n + 1]]
      BY <1>4, <2>1
    <2> QED BY <1>1, <2>1, <2>2
  <1>7. N \in T
    <2> HIDE DEF T
    <2> QED BY <1>1, <1>5, <1>6, Induction
  <1>8. Decimal(digits) = value[N]
    BY DEF Decimal, value
  <1> QED BY <1>1, <1>7, <1>8

(* The parts of a string, and which of them are read.                      *)
LEMMA SegmentsAre ==
    ASSUME NEW v \in Seq(Text)
    PROVE  /\ Segments(v) \in Seq(Text \ {<<>>})
           /\ Len(Segments(v)) \in Nat /\ Len(Segments(v)) <= 3
           /\ \A i \in 1..Len(Segments(v)) :
                 /\ i \in DOMAIN v
                 /\ Segments(v)[i] \in {v[i], v[i] \o <<".">>}
  <1> DEFINE parts == Parts(v)
             k == Shorter(v, <<1, 2, 3>>)
  <1>1. Len(v) \in Nat /\ DOMAIN v = 1..Len(v) /\ \A i \in 1..Len(v) : v[i] \in Text
    BY LenProperties, ElementOfSeq
  <1>2. k \in Nat /\ k <= 3 /\ k <= Len(v)
    BY <1>1 DEF Shorter
  <1>3. ASSUME NEW i \in 1..k PROVE i \in DOMAIN v /\ parts[i] \in {v[i], v[i] \o <<".">>}
    <2>1. i \in DOMAIN v
      BY <1>1, <1>2
    <2>2. parts[i] = IF i = 3 /\ Len(v) > 3 THEN v[3] \o <<".">> ELSE v[i]
      BY DEF Parts
    <2>3. CASE i = 3 /\ Len(v) > 3
      BY <2>1, <2>2, <2>3
    <2>4. CASE ~(i = 3 /\ Len(v) > 3)
      BY <2>1, <2>2, <2>4
    <2> QED BY <2>1, <2>3, <2>4
  <1>4. ASSUME NEW i \in 1..k PROVE parts[i] \in Text
    <2>1. v[i] \in Text /\ <<".">> \in Text
      BY <1>1, <1>3, Dot
    <2>2. v[i] \o <<".">> \in Text
      BY <2>1, ConcatProperties DEF Text
    <2> QED BY <1>3, <2>1, <2>2
  <1>5. parts \in Seq(Text) /\ Len(parts) = k
    <2>1. parts = [i \in 1..k |-> parts[i]]
      BY DEF Parts
    <2> HIDE DEF parts, k
    <2>2. parts \in Seq(Text)
      BY <1>2, <1>4, <2>1, IsASeq
    <2>3. DOMAIN parts = 1..k
      BY <2>1
    <2>4. Len(parts) = k
      BY <1>2, <2>2, <2>3, LenProperties
    <2> QED BY <2>2, <2>4
  <1> DEFINE told == Range(parts) \ {<<>>}
  <1>6. Segments(v) = LeadingRun(parts, told)
    BY DEF Segments, UpToBlank
  <1>11. Text \cap told \subseteq Text \ {<<>>}
    OBVIOUS
  <1> HIDE DEF parts, k, told
  <1>7. /\ Segments(v) \in Seq(Text \cap told)
        /\ Len(Segments(v)) <= k
        /\ \A i \in 1..Len(Segments(v)) : Segments(v)[i] = parts[i]
    <2> DEFINE run == LeadingRun(parts, told)
    <2>1. /\ run \in Seq(Text \cap told)
          /\ Len(run) <= Len(parts)
          /\ \A i \in 1..Len(run) : run[i] = parts[i]
      BY <1>5, RunsHold
    <2> QED BY <1>5, <1>6, <2>1
  <1>8. Len(Segments(v)) \in Nat
    BY <1>7, LenProperties
  <1>9. Segments(v) \in Seq(Text \ {<<>>})
    <2> QED BY <1>7, <1>11, SeqMonotonic
  <1>10. \A i \in 1..Len(Segments(v)) : i \in 1..k
    BY <1>2, <1>7, <1>8
  <1>12. ASSUME NEW i \in 1..Len(Segments(v))
         PROVE  i \in DOMAIN v /\ Segments(v)[i] \in {v[i], v[i] \o <<".">>}
    BY <1>3, <1>7, <1>10
  <1>13. Len(Segments(v)) <= 3
    BY <1>2, <1>7, <1>8
  <1> QED BY <1>8, <1>9, <1>12, <1>13

(* A segment without the exotic digits, and one without a sign or a space  *)
(* in front besides.                                                       *)
PlainDigits(s) == Range(s) \cap (ScriptDigits \cup Superscripts) = {}
Unsigned(s) == s # <<>> /\ Head(s) \notin Spaces \cup Signs

LEMMA AsciiSegments ==
    ASSUME NEW v \in Seq(Text), Ascii(v), NEW i \in 1..Len(Segments(v))
    PROVE  Segments(v)[i] \in Text /\ PlainDigits(Segments(v)[i])
  <1>1. Segments(v)[i] \in Text /\ i \in DOMAIN v /\ Segments(v)[i] \in {v[i], v[i] \o <<".">>}
    BY SegmentsAre, ElementOfSeq
  <1>2. v[i] \in Text /\ PlainDigits(v[i])
    BY <1>1, ElementOfSeq DEF Ascii, PlainDigits
  <1>3. PlainDigits(v[i] \o <<".">>)
    <2>2. Range(v[i] \o <<".">>) = Range(v[i]) \cup {"."}
      <3>1. v[i] \in Seq(Characters) /\ <<".">> \in Seq(Characters)
        BY <1>2, Dot DEF Text
      <3>2. Range(v[i] \o <<".">>) = Range(v[i]) \cup Range(<<".">>)
        BY <3>1, RangeConcatenation
      <3> QED BY <3>2, Dot
    <2>3. "." \notin ScriptDigits \cup Superscripts
      BY DEF ScriptDigits, Superscripts
    <2> QED BY <1>2, <2>2, <2>3 DEF PlainDigits
  <1> QED BY <1>1, <1>2, <1>3

LEMMA PlainSegments ==
    ASSUME NEW v \in Seq(Text), Plain(v), NEW i \in 1..Len(Segments(v))
    PROVE  Unsigned(Segments(v)[i])
  <1>1. Segments(v)[i] # <<>> /\ i \in DOMAIN v /\ Segments(v)[i] \in {v[i], v[i] \o <<".">>}
    BY SegmentsAre, ElementOfSeq
  <1>2. v[i] \in Text /\ (v[i] # <<>> => Head(v[i]) \notin Spaces \cup Signs)
    BY <1>1, ElementOfSeq DEF Plain
  <1>3. CASE Segments(v)[i] = v[i]
    BY <1>1, <1>2, <1>3 DEF Unsigned
  <1>4. CASE Segments(v)[i] = v[i] \o <<".">>
    <2>1. CASE v[i] = <<>>
      <3>1. Segments(v)[i] = <<".">>
        BY <1>4, <2>1
      <3> QED BY <3>1 DEF Unsigned, Spaces, Signs
    <2>2. CASE v[i] # <<>>
      <3>1. Len(v[i]) \in Nat \ {0}
        BY <1>2, <2>2, EmptySeq DEF Text
      <3>2. Segments(v)[i][1] = v[i][1]
        BY <1>2, <1>4, <3>1, Dot, ConcatProperties DEF Text
      <3> QED BY <1>1, <1>2, <2>2, <3>2 DEF Unsigned
    <2> QED BY <2>1, <2>2
  <1> QED BY <1>1, <1>3, <1>4

(* The number that an ASCII segment begins with.                           *)
Number(s) == Decimal(LeadingRun(s, AsciiDigits))

Exact(v) == [i \in DOMAIN Segments(v) |-> Number(Segments(v)[i])]

LEMMA RunsAgree ==
    ASSUME NEW s \in Text, PlainDigits(s)
    PROVE  PySegment(s) = Number(s) /\ Number(s) \in Nat
  <1>1. \A j \in DOMAIN s : s[j] \in PyIsDigit <=> s[j] \in AsciiDigits
    BY DEF PlainDigits, PyIsDigit, Range
  <1>2. DOMAIN s = 1..Len(s) /\ Len(s) \in Nat
    BY LenProperties DEF Text
  <1>3. ASSUME NEW i \in DOMAIN s
        PROVE  (\A j \in 1..i : s[j] \in PyIsDigit) <=> (\A j \in 1..i : s[j] \in AsciiDigits)
    <2>1. \A j \in 1..i : j \in DOMAIN s
      BY <1>2
    <2> QED BY <1>1, <2>1
  <1>4. {i \in DOMAIN s : \A j \in 1..i : s[j] \in PyIsDigit}
          = {i \in DOMAIN s : \A j \in 1..i : s[j] \in AsciiDigits}
    BY <1>3
  <1>5. LeadingRun(s, PyIsDigit) = LeadingRun(s, AsciiDigits)
    BY <1>4 DEF LeadingRun
  <1>6. LeadingRun(s, AsciiDigits) \in Seq(Characters \cap AsciiDigits)
    BY RunsHold DEF Text
  <1>7. LeadingRun(s, AsciiDigits) \in Seq(AsciiDigits \cup ScriptDigits)
    <2>1. Characters \cap AsciiDigits \subseteq AsciiDigits \cup ScriptDigits
      OBVIOUS
    <2> QED BY <1>6, <2>1, SeqMonotonic
  <1>8. Number(s) \in Nat
    BY <1>7, DecimalIsNat DEF Number
  <1> QED BY <1>5, <1>8 DEF PySegment, Number

(* The server reads the numbers as they are.                               *)
LEMMA ServerReadsExactly ==
    ASSUME NEW v \in Seq(Text), Ascii(v)
    PROVE  /\ ParseVersion(v) = Exact(v)
           /\ Exact(v) \in ParsedVersions
           /\ Len(Exact(v)) = Len(Segments(v))
           /\ \A i \in 1..Len(Segments(v)) : Exact(v)[i] \in Nat
  <1> DEFINE n == Len(Segments(v))
  <1>1. n \in Nat /\ n <= 3 /\ DOMAIN Segments(v) = 1..n
    BY SegmentsAre, LenProperties
  <1>2. ASSUME NEW i \in 1..n
        PROVE  PySegment(Segments(v)[i]) = Number(Segments(v)[i]) /\ Number(Segments(v)[i]) \in Nat
    BY AsciiSegments, RunsAgree
  <1>3. ParseVersion(v) = Exact(v)
    BY <1>1, <1>2 DEF ParseVersion, Exact
  <1>4. Exact(v) = [i \in 1..n |-> Number(Segments(v)[i])]
    BY <1>1 DEF Exact
  <1> HIDE DEF n
  <1>5. Exact(v) \in Seq(Nat) /\ Len(Exact(v)) = n
    <2>1. \A i \in 1..n : Number(Segments(v)[i]) \in Nat
      BY <1>2 DEF n
    <2>2. Exact(v) \in Seq(Nat)
      BY <1>1, <1>4, <2>1, IsASeq
    <2>3. DOMAIN Exact(v) = 1..n
      BY <1>4
    <2> QED BY <1>1, <2>2, <2>3, LenProperties
  <1>6. Exact(v) \in ParsedVersions
    <2>1. Exact(v) \in Seq(Int)
      BY <1>5, SeqMonotonic, Nat \subseteq Int
    <2> QED BY <1>1, <1>5, <2>1 DEF ParsedVersions
  <1>7. \A i \in 1..n : Exact(v)[i] \in Nat
    BY <1>2, <1>4 DEF n
  <1> QED BY <1>3, <1>5, <1>6, <1>7 DEF n

(* A double is the number itself as far as doubles are exact, and beyond   *)
(* that it stays beyond it.                                                *)
LEMMA DoublesAre ==
    ASSUME NEW n \in Nat
    PROVE  /\ Double(n) \in Nat
           /\ n <= MaxSafe => Double(n) = n
           /\ n > MaxSafe => Double(n) > MaxSafe
  <1> DEFINE Far == {Distance(n, d) : d \in Doubles}
             Nearest(d) == \A other \in Doubles : Distance(n, d) <= Distance(n, other)
  <1>1. MaxSafe \in Nat /\ Doubles \subseteq Nat /\ \A m \in 0 .. MaxSafe + 1 : m \in Doubles
    BY VersionParsingAssumption
  <1>2. \A d \in Doubles : Distance(n, d) \in Nat
    BY <1>1 DEF Distance
  <1>3. \E d \in Doubles : Nearest(d)
    <2>1. Far \in SUBSET Nat /\ Far # {}
      <3>1. 0 \in Doubles
        BY <1>1
      <3> QED BY <1>2, <3>1
    <2>2. PICK far \in Far : \A other \in Far : far <= other
      <3> HIDE DEF Far
      <3> QED BY <2>1, LeastNat
    <2> QED BY <2>2
  <1>4. Double(n) \in Doubles /\ Nearest(Double(n))
    <2>1. Double(n) = CHOOSE d \in Doubles : Nearest(d)
      BY DEF Double
    <2> HIDE DEF Nearest
    <2> QED BY <1>3, <2>1
  <1> DEFINE double == Double(n)
  <1>7. double \in Nat /\ \A other \in Doubles : Distance(n, double) <= Distance(n, other)
    BY <1>1, <1>4
  <1> HIDE DEF double
  <1>5. CASE n <= MaxSafe
    <2>1. n \in Doubles
      BY <1>1, <1>5
    <2>2. Distance(n, double) <= Distance(n, n)
      BY <1>7, <2>1
    <2>3. double = n
      BY <1>7, <2>2 DEF Distance
    <2> QED BY <1>1, <1>5, <2>3 DEF double
  <1>6. CASE n > MaxSafe
    <2>1. MaxSafe + 1 \in Doubles
      BY <1>1
    <2>2. Distance(n, double) <= Distance(n, MaxSafe + 1)
      BY <1>7, <2>1
    <2>3. double > MaxSafe
      BY <1>1, <1>6, <1>7, <2>2 DEF Distance
    <2> QED BY <1>1, <1>6, <1>7, <2>3 DEF double
  <1> QED BY <1>1, <1>5, <1>6

(* The page reads the nearest doubles.                                     *)
LEMMA PageReadsDoubles ==
    ASSUME NEW v \in Seq(Text), Ascii(v)
    PROVE  /\ JsParse(v) \in ParsedVersions
           /\ Len(JsParse(v)) = Len(Segments(v))
           /\ \A i \in 1..Len(Segments(v)) :
                 /\ JsParse(v)[i] = Double(Exact(v)[i])
                 /\ Exact(v)[i] > MaxSafe => Rounds(v)
  <1> DEFINE n == Len(Segments(v))
             doubles == JsParse(v)
  <1>1. n \in Nat /\ n <= 3 /\ DOMAIN Segments(v) = 1..n
    BY SegmentsAre, LenProperties
  <1>2. \A i \in 1..n : Exact(v)[i] = Number(Segments(v)[i])
    BY <1>1 DEF Exact
  <1>3. doubles = [i \in 1..n |-> Double(Exact(v)[i])]
    BY <1>1, <1>2 DEF JsParse, JsSegment, Number
  <1>4. ASSUME NEW i \in 1..n PROVE Double(Exact(v)[i]) \in Int
    <2>1. Exact(v)[i] \in Nat
      BY ServerReadsExactly
    <2>2. Double(Exact(v)[i]) \in Nat
      BY <2>1, DoublesAre
    <2> QED BY <2>2
  <1>5. \A i \in 1..n : Exact(v)[i] > MaxSafe => Rounds(v)
    BY <1>1, <1>2 DEF Rounds, Range, Number
  <1> HIDE DEF n, doubles
  <1>6. doubles \in Seq(Int) /\ Len(doubles) = n
    <2>1. doubles \in Seq(Int)
      BY <1>1, <1>3, <1>4, IsASeq
    <2>2. DOMAIN doubles = 1..n
      BY <1>3
    <2> QED BY <1>1, <2>1, <2>2, LenProperties
  <1>7. \A i \in 1..n : doubles[i] = Double(Exact(v)[i])
    BY <1>3
  <1> QED BY <1>1, <1>5, <1>6, <1>7 DEF n, doubles, ParsedVersions

(* The device reads the same numbers, as far as it can count.              *)
LEMMA UnsignedIsRead ==
    ASSUME NEW s \in Text, Unsigned(s)
    PROVE  AToL(s) = Saturated(Number(s))
  <1>1. Len(s) \in Nat /\ Len(s) # 0 /\ Head(s) = s[1]
    BY EmptySeq, LenProperties DEF Unsigned, Text
  <1>2. Len(LeadingRun(s, Spaces)) = 0
    <2> DEFINE run == LeadingRun(s, Spaces)
    <2>1. /\ run \in Seq(Characters \cap Spaces)
          /\ \A i \in 1..Len(run) : run[i] = s[i]
      BY RunsHold DEF Text
    <2>2. Len(run) \in Nat /\ \A i \in 1..Len(run) : run[i] \in Spaces
      BY <2>1, LenProperties, ElementOfSeq
    <2> HIDE DEF run
    <2>3. ASSUME Len(run) # 0 PROVE FALSE
      <3>1. 1 \in 1..Len(run)
        BY <2>2, <2>3
      <3>2. s[1] \in Spaces
        BY <2>1, <2>2, <3>1
      <3> QED BY <1>1, <3>2 DEF Unsigned
    <2> QED BY <2>3 DEF run
  <1>3. Unpadded(s) = s
    <2>1. Unpadded(s) = SubSeq(s, 1, Len(s))
      BY <1>2 DEF Unpadded
    <2>2. /\ SubSeq(s, 1, Len(s)) \in Text /\ Len(SubSeq(s, 1, Len(s))) = Len(s)
          /\ \A i \in 1..Len(s) : SubSeq(s, 1, Len(s))[i] = s[i]
      BY <1>1, SubSeqProperties DEF Text
    <2> QED BY <2>1, <2>2, SeqEqual DEF Text
  <1> QED BY <1>3 DEF AToL, Unsigned, Number

LEMMA DeviceSaturates ==
    ASSUME NEW v \in Seq(Text), Plain(v)
    PROVE  /\ ParseVersionSegments(v) \in ParsedVersions
           /\ Len(ParseVersionSegments(v)) = Len(Segments(v))
           /\ \A i \in 1..Len(Segments(v)) :
                 /\ ParseVersionSegments(v)[i] = Saturated(Exact(v)[i])
                 /\ ParseVersionSegments(v)[i] = IntMax => Saturates(v)
  <1> DEFINE n == Len(Segments(v))
             device == ParseVersionSegments(v)
  <1>1. n \in Nat /\ n <= 3 /\ DOMAIN Segments(v) = 1..n
    BY SegmentsAre, LenProperties
  <1>2. Ascii(v)
    BY DEF Plain
  <1>3. \A i \in 1..n : Exact(v)[i] \in Nat
    BY <1>2, ServerReadsExactly
  <1>4. ASSUME NEW i \in 1..n
        PROVE  AToL(Segments(v)[i]) = Saturated(Exact(v)[i])
    <2>1. Unsigned(Segments(v)[i])
      BY PlainSegments
    <2>2. Segments(v)[i] \in Text
      BY <1>2, AsciiSegments
    <2>3. Exact(v)[i] = Number(Segments(v)[i])
      BY <1>1 DEF Exact
    <2> QED BY <2>1, <2>2, <2>3, UnsignedIsRead
  <1>5. device = [i \in 1..n |-> AToL(Segments(v)[i])]
    BY <1>1 DEF ParseVersionSegments
  <1>6. \A i \in 1..n : AToL(Segments(v)[i]) = IntMax => Saturates(v)
    BY <1>1 DEF Saturates, Range
  <1>7. ASSUME NEW i \in 1..n
        PROVE  device[i] \in Int /\ device[i] = Saturated(Exact(v)[i])
               /\ (device[i] = IntMax => Saturates(v))
    BY <1>3, <1>4, <1>5, <1>6, VersionParsingAssumption DEF Saturated
  <1> HIDE DEF n, device
  <1>8. device \in Seq(Int) /\ Len(device) = n
    <2>1. device = [i \in 1..n |-> device[i]] /\ DOMAIN device = 1..n
      BY <1>5
    <2>2. device \in Seq(Int)
      BY <1>1, <1>7, <2>1, IsASeq
    <2> QED BY <1>1, <2>1, <2>2, LenProperties
  <1> QED BY <1>1, <1>7, <1>8 DEF device, n, ParsedVersions

LEMMA PublishedIsPlain ==
    ASSUME NEW v \in Seq(Text), WellFormed(v)
    PROVE  Plain(v)
  <1>1. ASSUME NEW i \in DOMAIN v
        PROVE  /\ Range(v[i]) \cap (ScriptDigits \cup Superscripts) = {}
               /\ Head(v[i]) \notin Spaces \cup Signs
    <2>1. i \in 1..3 /\ v[i] \in Text
      BY LenProperties, ElementOfSeq DEF WellFormed
    <2>2. v[i] # <<>> /\ Range(v[i]) \subseteq AsciiDigits
      BY <2>1 DEF WellFormed
    <2>3. Len(v[i]) \in Nat \ {0} /\ DOMAIN v[i] = 1..Len(v[i])
      BY <2>1, <2>2, EmptySeq, LenProperties DEF Text
    <2>4. Head(v[i]) \in AsciiDigits
      BY <2>1, <2>2, <2>3 DEF Range
    <2> QED BY <2>2, <2>4 DEF AsciiDigits, ScriptDigits, Superscripts, Spaces, Signs
  <1> QED BY <1>1 DEF Plain, Ascii

(* The order of two versions depends on nothing but how they compare       *)
(* segment by segment.                                                     *)
LEMMA SameOrder ==
    ASSUME NEW a \in ParsedVersions, NEW b \in ParsedVersions,
           NEW c \in ParsedVersions, NEW d \in ParsedVersions,
           Len(a) = Len(c), Len(b) = Len(d),
           \A i \in 1..3 : i <= Len(a) /\ i <= Len(b) =>
               (a[i] > b[i] <=> c[i] > d[i]) /\ (a[i] = b[i] <=> c[i] = d[i])
    PROVE  IsVersionNewer(a, b) <=> IsVersionNewer(c, d)
  <1>1. \A v \in {a, b, c, d} : Len(v) \in Nat /\ Len(v) <= 3
    BY Parsed
  <1>2. \A i \in {1, 2, 3} : Decides(a, b, i) <=> Decides(c, d, i)
    BY DEF Decides
  <1>3. \A i \in {1, 2, 3} : Ties(a, b, i) <=> Ties(c, d, i)
    BY DEF Ties
  <1>4. Len(a) > Len(b) => (\A i \in 1..3 : i <= Len(b) => a[i] = b[i])
                            <=> (\A i \in 1..3 : i <= Len(d) => c[i] = d[i])
    BY <1>1
  <1> QED BY <1>2, <1>3, <1>4, Unfolded

(* What a version is compared with was published, so it is well formed.    *)
StringsInv ==
    /\ published \in Seq(Text) /\ (published # <<>> => WellFormed(published))
    /\ reported \in Seq(Text)

LEMMA Strings == VSpec => []StringsInv
  <1>1. Published \cup Reported \subseteq Seq(Text) /\ <<>> \in Seq(Text)
    <2>1. \A t \in Seq(STRING) : t \in Text
      BY SeqMonotonic DEF Text, Characters
    <2>2. Seq(STRING) \subseteq Text
      BY <2>1
    <2>3. \A v \in Seq(Seq(STRING)) : v \in Seq(Text)
      BY <2>2, SeqMonotonic
    <2> QED BY <2>3, EmptySeq, VersionParsingAssumption
  <1>2. VInit => StringsInv
    BY <1>1 DEF VInit, StringsInv
  <1>3. StringsInv /\ [VNext]_<<published, reported>> => StringsInv'
    <2> SUFFICES ASSUME StringsInv, [VNext]_<<published, reported>> PROVE StringsInv'
      OBVIOUS
    <2>1. CASE VPublish
      BY <1>1, <2>1 DEF StringsInv, VPublish
    <2>2. CASE VReport
      BY <1>1, <2>2 DEF StringsInv, VReport
    <2>3. CASE UNCHANGED <<published, reported>>
      BY <2>3 DEF StringsInv
    <2> QED BY <2>1, <2>2, <2>3 DEF VNext
  <1> QED BY <1>2, <1>3, PTL DEF VSpec

(* signing.py, parse_version, "mirroring the device": whatever number of   *)
(* segments and digits a release and a report have, the server offers the  *)
(* one to the other exactly when the device would take it, as long as the  *)
(* server can read both, no segment of the report begins with a sign or    *)
(* white space, and not both reach the end of what the device counts to.   *)
THEOREM OffersAgree == VSpec => []OfferAgreement
  <1>1. StringsInv => OfferAgreement
    <2> SUFFICES ASSUME StringsInv, published # <<>>, Readable, Plain(reported),
                        ~(Saturates(published) /\ Saturates(reported))
                 PROVE  CompareVersion(published, reported) <=> DeviceFindsNewer(published, reported)
      BY DEF OfferAgreement
    <2> DEFINE a == Exact(published)
               b == Exact(reported)
               c == ParseVersionSegments(published)
               d == ParseVersionSegments(reported)
    <2>1. /\ published \in Seq(Text) /\ Plain(published) /\ Ascii(published)
          /\ reported \in Seq(Text) /\ Ascii(reported)
      BY PublishedIsPlain DEF StringsInv, Plain
    <2>2. CompareVersion(published, reported) <=> IsVersionNewer(a, b)
      BY <2>1, ServerReadsExactly DEF CompareVersion, Readable
    <2>3. /\ a \in ParsedVersions /\ b \in ParsedVersions
          /\ \A i \in 1..Len(a) : a[i] \in Nat
          /\ \A i \in 1..Len(b) : b[i] \in Nat
      BY <2>1, ServerReadsExactly
    <2>4. /\ c \in ParsedVersions /\ Len(c) = Len(a)
          /\ \A i \in 1..Len(a) : c[i] = Saturated(a[i]) /\ (c[i] = IntMax => Saturates(published))
      BY <2>1, DeviceSaturates, ServerReadsExactly
    <2>5. /\ d \in ParsedVersions /\ Len(d) = Len(b)
          /\ \A i \in 1..Len(b) : d[i] = Saturated(b[i]) /\ (d[i] = IntMax => Saturates(reported))
      BY <2>1, DeviceSaturates, ServerReadsExactly
    <2>6. Len(a) \in Nat /\ Len(b) \in Nat
      BY <2>3, Parsed
    <2> HIDE DEF a, b, c, d
    <2>7. ASSUME NEW i \in 1..3, i <= Len(a) /\ i <= Len(b)
          PROVE  (a[i] > b[i] <=> c[i] > d[i]) /\ (a[i] = b[i] <=> c[i] = d[i])
      <3>1. i \in 1..Len(a) /\ i \in 1..Len(b)
        BY <2>6, <2>7
      <3>2. a[i] \in Nat /\ b[i] \in Nat /\ c[i] = Saturated(a[i]) /\ d[i] = Saturated(b[i])
        BY <2>3, <2>4, <2>5, <3>1
      <3>3. ~(c[i] = IntMax /\ d[i] = IntMax)
        BY <2>4, <2>5, <3>1
      <3> QED BY <3>2, <3>3, VersionParsingAssumption DEF Saturated
    <2>8. IsVersionNewer(a, b) <=> IsVersionNewer(c, d)
      BY <2>3, <2>4, <2>5, <2>7, SameOrder
    <2> QED BY <2>2, <2>8 DEF DeviceFindsNewer, c, d
  <1> QED BY <1>1, Strings, PTL

(* What compareVersions subtracts decides as the tuples do.                *)
LEMMA FirstDifference ==
    ASSUME NEW l \in ParsedVersions, NEW r \in ParsedVersions,
           NEW differ, differ = {i \in 1..Shorter(l, r) : l[i] # r[i]}
    PROVE  /\ differ # {} =>
                 LET first == CHOOSE i \in differ : \A j \in differ : i <= j
                 IN  l[first] - r[first] > 0 <=> IsVersionNewer(l, r)
           /\ differ = {} => (Len(l) - Len(r) > 0 <=> IsVersionNewer(l, r))
  <1> DEFINE first == CHOOSE i \in differ : \A j \in differ : i <= j
             k == Shorter(l, r)
  <1>1. \A v \in {l, r} : Len(v) \in Nat /\ \A i \in 1..Len(v) : v[i] \in Int
    BY Parsed
  <1>2. k \in Nat /\ k <= Len(l) /\ k <= Len(r)
    BY <1>1 DEF Shorter
  <1>3. \A i \in 1..k : i \in Nat /\ l[i] \in Int /\ r[i] \in Int
    BY <1>1, <1>2
  <1>4. IsVersionNewer(l, r) <=>
          \/ \E i \in 1..k : (\A j \in 1..(i - 1) : l[j] = r[j]) /\ l[i] > r[i]
          \/ (\A j \in 1..k : l[j] = r[j]) /\ Len(l) > Len(r)
    BY DEF IsVersionNewer, SameUpTo
  <1>5. \A i : i \in differ <=> i \in 1..k /\ l[i] # r[i]
    OBVIOUS
  <1> HIDE DEF k
  <1>6. CASE differ = {}
    <2>1. \A i \in 1..k : l[i] = r[i]
      BY <1>5, <1>6
    <2> QED BY <1>1, <1>3, <1>4, <1>6, <2>1
  <1>7. CASE differ # {}
    <2>1. \E i \in differ : \A j \in differ : i <= j
      <3>1. differ \in SUBSET Nat
        BY <1>3, <1>5
      <3> QED BY <1>7, <3>1, LeastNat
    <2>2. first \in differ /\ \A j \in differ : first <= j
      BY <2>1
    <2> HIDE DEF first
    <2>3. first \in 1..k /\ l[first] # r[first]
      BY <1>5, <2>2
    <2>4. \A j \in 1..k : j < first => l[j] = r[j]
      BY <1>2, <1>5, <2>2, <2>3
    <2>5. l[first] > r[first] <=> IsVersionNewer(l, r)
      <3>1. ASSUME l[first] > r[first] PROVE IsVersionNewer(l, r)
        <4>1. \A j \in 1..(first - 1) : l[j] = r[j]
          BY <1>2, <2>3, <2>4
        <4> QED BY <1>4, <2>3, <3>1, <4>1
      <3>2. ASSUME NEW i \in 1..k, \A j \in 1..(i - 1) : l[j] = r[j], l[i] > r[i]
            PROVE  l[first] > r[first]
        <4>1. i \in differ /\ first <= i
          BY <1>3, <1>5, <2>2, <3>2
        <4>2. ~(first < i)
          BY <1>2, <2>3, <3>2
        <4>3. first = i
          BY <1>2, <2>3, <4>1, <4>2
        <4> QED BY <3>2, <4>3
      <3> QED BY <1>4, <2>3, <3>1, <3>2
    <2>6. l[first] - r[first] > 0 <=> l[first] > r[first]
      BY <1>3, <2>3
    <2> QED BY <1>7, <2>5, <2>6 DEF first
  <1> QED BY <1>6, <1>7

(* version.ts, "A dashboard that disagrees with the server reports the     *)
(* wrong devices as outdated": it does so on no ASCII report that the      *)
(* server can read, unless it and the release are both beyond the numbers  *)
(* that a double tells apart.                                              *)
THEOREM DashboardAgrees == VSpec => []DashboardAgreement
  <1>1. StringsInv => DashboardAgreement
    <2> SUFFICES ASSUME StringsInv, published # <<>>, Readable, Ascii(reported),
                        ~(Rounds(published) /\ Rounds(reported))
                 PROVE  CompareVersion(published, reported) <=> CompareVersions(published, reported) > 0
      BY DEF DashboardAgreement
    <2> DEFINE a == Exact(published)
               b == Exact(reported)
               l == JsParse(published)
               r == JsParse(reported)
               differ == {i \in 1..Shorter(l, r) : l[i] # r[i]}
    <2>1. /\ published \in Seq(Text) /\ Ascii(published)
          /\ reported \in Seq(Text)
      BY PublishedIsPlain DEF StringsInv, Plain
    <2>2. CompareVersion(published, reported) <=> IsVersionNewer(a, b)
      BY <2>1, ServerReadsExactly DEF CompareVersion, Readable
    <2>3. /\ a \in ParsedVersions /\ b \in ParsedVersions
          /\ \A i \in 1..Len(a) : a[i] \in Nat
          /\ \A i \in 1..Len(b) : b[i] \in Nat
      BY <2>1, ServerReadsExactly
    <2>4. /\ l \in ParsedVersions /\ Len(l) = Len(a)
          /\ \A i \in 1..Len(a) : l[i] = Double(a[i]) /\ (a[i] > MaxSafe => Rounds(published))
      BY <2>1, PageReadsDoubles, ServerReadsExactly
    <2>5. /\ r \in ParsedVersions /\ Len(r) = Len(b)
          /\ \A i \in 1..Len(b) : r[i] = Double(b[i]) /\ (b[i] > MaxSafe => Rounds(reported))
      BY <2>1, PageReadsDoubles, ServerReadsExactly
    <2>6. Len(a) \in Nat /\ Len(b) \in Nat
      BY <2>3, Parsed
    <2>7. CompareVersions(published, reported) =
            IF differ # {}
            THEN LET first == CHOOSE i \in differ : \A j \in differ : i <= j
                 IN  l[first] - r[first]
            ELSE Len(l) - Len(r)
      BY DEF CompareVersions
    <2> HIDE DEF a, b, l, r
    <2>8. ASSUME NEW i \in 1..3, i <= Len(a) /\ i <= Len(b)
          PROVE  (a[i] > b[i] <=> l[i] > r[i]) /\ (a[i] = b[i] <=> l[i] = r[i])
      <3>1. i \in 1..Len(a) /\ i \in 1..Len(b)
        BY <2>6, <2>8
      <3>2. a[i] \in Nat /\ b[i] \in Nat /\ l[i] = Double(a[i]) /\ r[i] = Double(b[i])
        BY <2>3, <2>4, <2>5, <3>1
      <3>3. ~(a[i] > MaxSafe /\ b[i] > MaxSafe)
        BY <2>4, <2>5, <3>1
      <3>4. /\ l[i] \in Nat /\ (a[i] <= MaxSafe => l[i] = a[i]) /\ (a[i] > MaxSafe => l[i] > MaxSafe)
            /\ r[i] \in Nat /\ (b[i] <= MaxSafe => r[i] = b[i]) /\ (b[i] > MaxSafe => r[i] > MaxSafe)
        BY <3>2, DoublesAre
      <3>5. MaxSafe \in Nat
        BY VersionParsingAssumption
      <3> QED BY <3>2, <3>3, <3>4, <3>5
    <2>9. IsVersionNewer(a, b) <=> IsVersionNewer(l, r)
      BY <2>3, <2>4, <2>5, <2>8, SameOrder
    <2>10. CompareVersions(published, reported) > 0 <=> IsVersionNewer(l, r)
      <3>1. l \in ParsedVersions /\ r \in ParsedVersions
        BY <2>4, <2>5
      <3> QED BY <2>7, <3>1, FirstDifference
    <2> QED BY <2>2, <2>9, <2>10
  <1> QED BY <1>1, Strings, PTL

(***************************************************************************)
(* DevicePage.                                                             *)
(***************************************************************************)
CurrentRows == [d \in Registered |-> row[d]]

(* What a read finds now.                                                  *)
Now == [devices |-> Listing, firmware |-> firmware, listed |-> CurrentRows,
        stats |-> Summarize(CurrentRows), at |-> changes]

Reads == {"devices", "firmware", "listed", "stats"}

(* A poll whose reads have all seen the same tables holds what is there    *)
(* now while these stay, and what it then holds matches.                   *)
PollHolds(p, now) ==
    /\ p.stats # Unread => p.listed # Unread
    /\ p.at \in 0 .. now.at \cup {Unread, Torn}
    /\ p.at = Unread => \A read \in Reads : p[read] = Unread
    /\ p.at = now.at => \A read \in Reads : p[read] \in {Unread, now[read]}
    /\ AllAnswered(p) /\ p.at # Torn => CardsMatch(p)

PageInv ==
    /\ TypeOK
    /\ \A i \in DOMAIN polls : PollHolds(polls[i], Now)
    /\ CardsMatchRows

(* The fold of pickLatestActive ends with the row that a query for the     *)
(* latest one sorts first.                                                 *)
Candidates(items, model) == {i \in DOMAIN items : items[i].model = model /\ items[i].active}

LEMMA PicksFirst ==
    ASSUME NEW items \in Seq(Rows), NEW model
    PROVE  LET best == PickLatestActive(items, model) IN
           IF Candidates(items, model) = {} THEN best = 0
           ELSE First(items, Candidates(items, model), best)
  <1> DEFINE N == Len(items)
             C == Candidates(items, model)
             Better(i, best) ==
                 \/ best = 0
                 \/ IsVersionNewer(items[i].version, items[best].version)
                 \/ items[i].version = items[best].version /\ i > best
             Keep(n, best) ==
                 IF /\ items[N - n + 1].model = model /\ items[N - n + 1].active
                    /\ Better(N - n + 1, best)
                 THEN N - n + 1 ELSE best
             Body(g) == [n \in 0..N |-> IF n = 0 THEN 0 ELSE Keep(n, g[n - 1])]
             step == [n \in 1..N |-> [x \in Nat |-> Keep(n, x)]]
             pick == CHOOSE g : g = Body(g)
             Upto(n) == {i \in C : i > N - n}
             Found(n, best) == IF Upto(n) = {} THEN best = 0 ELSE First(items, Upto(n), best)
             T == {n \in Nat : n <= N => Found(n, pick[n])}
  <1>1. /\ N \in Nat /\ DOMAIN items = 1..N
        /\ \A i \in 1..N : items[i].version \in ParsedVersions
    <2>1. N \in Nat /\ DOMAIN items = 1..N
      BY LenProperties
    <2>2. ASSUME NEW i \in 1..N PROVE items[i].version \in ParsedVersions
      <3>1. items[i] \in Rows
        BY ElementOfSeq
      <3> QED BY <3>1, DevicePageAssumption DEF Rows
    <2> QED BY <2>1, <2>2
  <1>2. \A i : i \in C <=> i \in 1..N /\ items[i].model = model /\ items[i].active
    BY <1>1 DEF Candidates
  <1>3. PickLatestActive(items, model) = pick[N]
    BY DEF PickLatestActive
  <1>4. \A n \in 1..N : \A x \in Nat : Keep(n, x) \in Nat
    BY <1>1
  <1>5. \E g : g = Body(g)
    <2>1. step \in [1..N -> [Nat -> Nat]]
      BY <1>4
    <2>2. \A n \in 1..N : \A x \in Nat : step[n][x] = Keep(n, x)
      OBVIOUS
    <2>3. PICK g \in [0..N -> Nat] : g[0] = 0 /\ \A n \in 1..N : g[n] = step[n][g[n - 1]]
      <3> HIDE DEF N, step
      <3>1. N \in Nat /\ 0 \in Nat
        BY <1>1
      <3>2. Recursive(N, Nat, 0, step)
        BY <2>1, <3>1, Recursion
      <3> QED BY <3>2 DEF Recursive
    <2> HIDE DEF step, Keep
    <2>4. ASSUME NEW n \in 0..N PROVE g[n] = IF n = 0 THEN 0 ELSE Keep(n, g[n - 1])
      <3>1. CASE n # 0
        <4>1. n \in 1..N /\ n - 1 \in 0..N
          BY <1>1, <3>1
        <4>2. g[n - 1] \in Nat
          BY <2>3, <4>1
        <4> QED BY <2>2, <2>3, <3>1, <4>1, <4>2
      <3> QED BY <2>3, <3>1
    <2>5. g = Body(g)
      BY <2>3, <2>4
    <2> QED BY <2>5
  <1>6. pick = Body(pick)
    <2> HIDE DEF Body
    <2> QED BY <1>5
  <1> HIDE DEF pick, C
  <1>7. 0 \in T
    <2>1. Upto(0) = {}
      BY <1>1, <1>2
    <2>2. pick[0] = 0
      BY <1>1, <1>6
    <2> QED BY <2>1, <2>2
  <1>8. ASSUME NEW n \in Nat, n \in T PROVE n + 1 \in T
    <2> SUFFICES ASSUME n + 1 <= N PROVE Found(n + 1, pick[n + 1])
      OBVIOUS
    <2> DEFINE i == N - n
               b == pick[n]
    <2>1. /\ i \in 1..N /\ N - (n + 1) + 1 = i /\ (n + 1) - 1 = n
          /\ n + 1 \in 0..N /\ n + 1 # 0 /\ n <= N
      BY <1>1
    <2>2. pick[n + 1] = IF items[i].model = model /\ items[i].active /\ Better(i, b) THEN i ELSE b
      <3>1. pick[n + 1] = Keep(n + 1, pick[(n + 1) - 1])
        <4> HIDE DEF Keep
        <4> QED BY <1>6, <2>1
      <3> HIDE DEF i
      <3> QED BY <2>1, <3>1
    <2>3. Found(n, b)
      BY <1>8, <2>1
    <2>4. Upto(n) \subseteq 1..N /\ \A j \in Upto(n) : j > i
      BY <1>1, <1>2
    <2>5. Upto(n + 1) = Upto(n) \cup (C \cap {i})
      BY <1>1, <1>2, <2>1
    <2>6. i \in C <=> items[i].model = model /\ items[i].active
      BY <1>2, <2>1
    <2> HIDE DEF i, b, Upto, Better
    <2>7. CASE i \notin C
      <3>1. Upto(n + 1) = Upto(n) /\ pick[n + 1] = b
        BY <2>2, <2>5, <2>6, <2>7
      <3> QED BY <2>3, <3>1
    <2>8. CASE i \in C /\ Upto(n) = {}
      <3>1. Upto(n + 1) = {i} /\ b = 0
        BY <2>3, <2>5, <2>8
      <3>2. pick[n + 1] = i
        BY <2>2, <2>6, <2>8, <3>1 DEF Better
      <3> QED BY <1>1, <2>1, <3>1, <3>2, Irreflexive DEF First
    <2>9. CASE i \in C /\ Upto(n) # {}
      <3>1. First(items, Upto(n), b) /\ Upto(n + 1) = Upto(n) \cup {i}
        BY <2>3, <2>5, <2>9
      <3>2. b \in Upto(n) /\ b \in 1..N /\ b > i /\ b # 0
        BY <1>1, <2>4, <3>1 DEF First
      <3> DEFINE v(j) == items[j].version
      <3>3. \A j \in Upto(n + 1) : v(j) \in ParsedVersions
        BY <1>1, <2>1, <2>4, <3>1
      <3>4. CASE IsVersionNewer(v(i), v(b))
        <4>1. pick[n + 1] = i
          BY <2>2, <2>6, <2>9, <3>4 DEF Better
        <4>2. ASSUME NEW j \in Upto(n) PROVE ~IsVersionNewer(v(j), v(i)) /\ v(j) # v(i)
          <5>1. ~IsVersionNewer(v(j), v(b))
            BY <3>1 DEF First
          <5> QED BY <3>1, <3>2, <3>3, <3>4, <5>1, Transitive
        <4>3. First(items, Upto(n + 1), i)
          BY <1>1, <2>1, <3>1, <4>2, Irreflexive DEF First
        <4> QED BY <3>1, <4>1, <4>3
      <3>5. CASE ~IsVersionNewer(v(i), v(b))
        <4>1. i \in Nat /\ b \in Nat /\ ~(i > b) /\ i <= b
          BY <1>1, <2>1, <3>2
        <4>2. pick[n + 1] = b
          BY <2>2, <3>2, <3>5, <4>1 DEF Better
        <4>3. First(items, Upto(n + 1), b)
          BY <3>1, <3>5, <4>1 DEF First
        <4> QED BY <3>1, <4>2, <4>3
      <3> QED BY <3>4, <3>5
    <2> QED BY <2>7, <2>8, <2>9
  <1>9. N \in T
    <2> HIDE DEF T
    <2> QED BY <1>1, <1>7, <1>8, Induction
  <1>10. Upto(N) = C
    BY <1>1, <1>2
  <1>11. Found(N, pick[N])
    <2> HIDE DEF Found
    <2> QED BY <1>1, <1>9
  <1>12. IF C = {} THEN pick[N] = 0 ELSE First(items, C, pick[N])
    <2> HIDE DEF Upto
    <2> QED BY <1>10, <1>11
  <1>13. C = Candidates(items, model)
    BY DEF C
  <1> HIDE DEF N
  <1> QED BY <1>3, <1>12, <1>13

(* What the page picks out of the list is what the server's query finds.   *)
LEMMA PageFindsTheLatest ==
    ASSUME firmware \in Seq(Rows), NEW model
    PROVE  LET best == PickLatestActive(firmware, model) IN
           /\ best = 0 => LatestVersion(model) = NoVersion
           /\ best # 0 => /\ LatestVersion(model) = firmware[best].version
                          /\ LatestVersion(model) # NoVersion
  <1> DEFINE C == Candidates(firmware, model)
             best == PickLatestActive(firmware, model)
  <1>1. ASSUME NEW i \in DOMAIN firmware
        PROVE  /\ i \in Nat /\ i # 0 /\ firmware[i].owner = Owner
               /\ firmware[i].version \in Versions /\ firmware[i].version \in ParsedVersions
    <2>1. firmware[i] \in Rows /\ i \in Nat /\ i # 0
      BY ElementOfSeq, LenProperties
    <2> QED BY <2>1, DevicePageAssumption DEF Rows
  <1>2. Offered(Owner, model) = C
    BY <1>1 DEF Offered, Candidates
  <1>3. IF C = {} THEN best = 0 ELSE First(firmware, C, best)
    BY PicksFirst
  <1>4. C \subseteq DOMAIN firmware
    BY DEF Candidates
  <1> HIDE DEF C, best
  <1>5. CASE C = {}
    <2>1. Latest(Owner, model) = {} /\ best = 0
      BY <1>2, <1>3, <1>5 DEF Latest
    <2> QED BY <2>1 DEF LatestVersion, best
  <1>6. CASE C # {}
    <2>1. First(firmware, C, best) /\ best \in C /\ best # 0
      BY <1>1, <1>3, <1>4, <1>6 DEF First
    <2>2. best \in Latest(Owner, model)
      BY <1>2, <2>1 DEF First, Latest
    <2>3. ASSUME NEW i \in Latest(Owner, model) PROVE i = best
      <3>1. /\ i \in C
            /\ ~IsVersionNewer(firmware[best].version, firmware[i].version)
            /\ ~IsVersionNewer(firmware[i].version, firmware[best].version)
            /\ firmware[i].version = firmware[best].version => i <= best /\ best <= i
        BY <1>2, <2>1, <2>2 DEF Latest
      <3>2. firmware[i].version = firmware[best].version
        BY <1>1, <1>4, <2>1, <3>1, Total
      <3> QED BY <1>1, <1>4, <2>1, <3>1, <3>2
    <2>4. (CHOOSE i \in Latest(Owner, model) : TRUE) = best
      BY <2>2, <2>3
    <2>5. LatestVersion(model) = firmware[best].version
      BY <2>2, <2>4 DEF LatestVersion
    <2>6. firmware[best].version # NoVersion
      BY <1>1, <1>4, <2>1, DevicePageAssumption
    <2> QED BY <2>1, <2>5, <2>6 DEF best
  <1> QED BY <1>5, <1>6

(* Three answers about the same tables count the same units.               *)
LEMMA SameTablesMatch ==
    ASSUME firmware \in Seq(Rows), NEW p, p.devices = Listing, p.firmware = firmware,
           p.stats = Summarize(CurrentRows)
    PROVE  CardsMatch(p)
  <1>1. /\ DOMAIN p.devices = Registered /\ DOMAIN CurrentRows = Registered
        /\ \A d \in Registered :
              /\ CurrentRows[d] = row[d]
              /\ p.devices[d].version = row[d].version
              /\ p.devices[d].online = IsOnline(row[d].seen, Interval[d], clock)
    BY DEF CurrentRows, Listing
  <1>2. ASSUME NEW state
        PROVE  {d \in DOMAIN CurrentRows : IsOnline(CurrentRows[d].seen, Interval[d], clock) = state}
                 = Dots(p, state)
    <2> HIDE DEF CurrentRows
    <2> QED BY <1>1 DEF Dots
  <1>3. {d \in DOMAIN CurrentRows :
            IsBehind(CurrentRows[d].version, LatestVersion(DeviceModel[d]))}
          = Outdated(p) \cup Unnamed(p)
    <2>1. ASSUME NEW d \in Registered
          PROVE  IsBehind(CurrentRows[d].version, LatestVersion(DeviceModel[d])) <=>
                   p.devices[d].version # NoVersion /\ Trails(p, d)
      <3> DEFINE best == PickLatestActive(firmware, DeviceModel[d])
      <3>1. /\ best = 0 => LatestVersion(DeviceModel[d]) = NoVersion
            /\ best # 0 => /\ LatestVersion(DeviceModel[d]) = firmware[best].version
                           /\ LatestVersion(DeviceModel[d]) # NoVersion
        BY PageFindsTheLatest
      <3>2. Trails(p, d) <=>
              best # 0 /\ IsVersionNewer(firmware[best].version, Reading(row[d].version))
        BY <1>1 DEF Trails
      <3> HIDE DEF best
      <3>3. IsBehind(row[d].version, LatestVersion(DeviceModel[d])) <=>
              /\ best # 0
              /\ row[d].version # NoVersion
              /\ IsVersionNewer(firmware[best].version, Reading(row[d].version))
        BY <3>1 DEF IsBehind
      <3> QED BY <1>1, <3>2, <3>3
    <2>2. \A d : d \in Outdated(p) \cup Unnamed(p) <=>
             d \in Registered /\ p.devices[d].version # NoVersion /\ Trails(p, d)
      BY <1>1, DevicePageAssumption DEF Outdated, Unnamed
    <2> HIDE DEF CurrentRows
    <2> QED BY <1>1, <2>1, <2>2
  <1>4. p.stats.behind = Cardinality(Outdated(p)) + Cardinality(Unnamed(p))
    <2> DEFINE Behind == {d \in DOMAIN CurrentRows :
                            IsBehind(CurrentRows[d].version, LatestVersion(DeviceModel[d]))}
    <2>1. Summarize(CurrentRows).behind = Cardinality(Behind)
      BY DEF Summarize
    <2>2. Behind = Outdated(p) \cup Unnamed(p)
      BY <1>3
    <2> HIDE DEF Behind
    <2>3. /\ Outdated(p) \subseteq Devices /\ Unnamed(p) \subseteq Devices
          /\ Outdated(p) \cap Unnamed(p) = {}
      BY <1>1 DEF Outdated, Unnamed, Registered
    <2> DEFINE named == Outdated(p)
               unnamed == Unnamed(p)
    <2> HIDE DEF named, unnamed
    <2>4. /\ IsFiniteSet(named) /\ IsFiniteSet(unnamed) /\ named \cap unnamed = {}
      BY <2>3, FS_Subset, DevicePageAssumption DEF named, unnamed
    <2>5. Cardinality(named \cup unnamed) = Cardinality(named) + Cardinality(unnamed)
      <3>1. Cardinality(named \cup unnamed)
              = Cardinality(named) + Cardinality(unnamed) - Cardinality(named \cap unnamed)
        BY <2>4, FS_Union
      <3>2. Cardinality(named) \in Nat /\ Cardinality(unnamed) \in Nat
        BY <2>4, FS_CardinalityType
      <3>3. Cardinality(named \cap unnamed) = 0
        BY <2>4, FS_EmptySet
      <3> QED BY <3>1, <3>2, <3>3
    <2> QED BY <2>1, <2>2, <2>5 DEF named, unnamed
  <1>5. /\ p.stats["online"] = Cardinality(Dots(p, "online"))
        /\ p.stats["offline"] = Cardinality(Dots(p, "offline"))
        /\ p.stats["unknown"] = Cardinality(Dots(p, "unknown"))
    <2>1. \A state : Reaching(CurrentRows, state) = Cardinality(Dots(p, state))
      BY <1>2 DEF Reaching
    <2> QED BY <2>1 DEF Summarize
  <1> QED BY <1>4, <1>5 DEF CardsMatch

LEMMA RemovingHolds ==
    ASSUME NEW S, NEW s \in Seq(S), NEW i \in DOMAIN s
    PROVE  /\ RemoveAt(s, i) \in Seq(S)
           /\ Len(RemoveAt(s, i)) = Len(s) - 1
           /\ \A j \in DOMAIN RemoveAt(s, i) : \E k \in DOMAIN s : RemoveAt(s, i)[j] = s[k]
  <1> DEFINE before == SubSeq(s, 1, i - 1)
             after == SubSeq(s, i + 1, Len(s))
  <1>1. /\ Len(s) \in Nat /\ DOMAIN s = 1..Len(s) /\ i \in 1..Len(s)
        /\ \A k \in 1..Len(s) : s[k] \in S
    BY LenProperties, ElementOfSeq
  <1>2. /\ before \in Seq(S) /\ Len(before) = i - 1
        /\ \A j \in 1..(i - 1) : before[j] = s[j]
    <2>1. \A k \in 1..(i - 1) : s[k] \in S
      BY <1>1
    <2>2. /\ SubSeq(s, 1, i - 1) \in Seq(S)
          /\ Len(SubSeq(s, 1, i - 1)) = IF 1 <= i - 1 THEN i - 1 - 1 + 1 ELSE 0
          /\ \A j \in 1..(i - 1 - 1 + 1) : SubSeq(s, 1, i - 1)[j] = s[1 + j - 1]
      BY <1>1, <2>1, SubSeqProperties
    <2> QED BY <1>1, <2>2
  <1>3. /\ after \in Seq(S) /\ Len(after) = Len(s) - i
        /\ \A j \in 1..(Len(s) - i) : after[j] = s[i + j]
    <2>1. \A k \in (i + 1)..Len(s) : s[k] \in S
      BY <1>1
    <2>2. /\ SubSeq(s, i + 1, Len(s)) \in Seq(S)
          /\ Len(SubSeq(s, i + 1, Len(s))) = IF i + 1 <= Len(s) THEN Len(s) - (i + 1) + 1 ELSE 0
          /\ \A j \in 1..(Len(s) - (i + 1) + 1) :
                SubSeq(s, i + 1, Len(s))[j] = s[(i + 1) + j - 1]
      BY <1>1, <2>1, SubSeqProperties
    <2>3. (IF i + 1 <= Len(s) THEN Len(s) - (i + 1) + 1 ELSE 0) = Len(s) - i
      BY <1>1
    <2>4. Len(s) - (i + 1) + 1 = Len(s) - i /\ \A j \in 1..(Len(s) - i) : (i + 1) + j - 1 = i + j
      BY <1>1
    <2> HIDE DEF after
    <2>5. /\ after \in Seq(S) /\ Len(after) = Len(s) - i
          /\ \A j \in 1..(Len(s) - i) : after[j] = s[(i + 1) + j - 1]
      BY <2>2, <2>3, <2>4 DEF after
    <2> QED BY <2>4, <2>5
  <1> HIDE DEF before, after
  <1>4. /\ before \o after \in Seq(S)
        /\ Len(before \o after) = Len(before) + Len(after)
        /\ \A j \in 1 .. Len(before) + Len(after) :
              (before \o after)[j] = IF j <= Len(before) THEN before[j] ELSE after[j - Len(before)]
    BY <1>2, <1>3, ConcatProperties
  <1>5. RemoveAt(s, i) = before \o after
    BY DEF RemoveAt, before, after
  <1>6. RemoveAt(s, i) \in Seq(S) /\ Len(RemoveAt(s, i)) = Len(s) - 1
    <2>1. Len(before) + Len(after) = Len(s) - 1
      BY <1>1, <1>2, <1>3
    <2> QED BY <1>4, <1>5, <2>1
  <1>7. ASSUME NEW j \in DOMAIN RemoveAt(s, i)
        PROVE  \E k \in DOMAIN s : RemoveAt(s, i)[j] = s[k]
    <2>1. j \in 1..(Len(s) - 1)
      BY <1>6, LenProperties
    <2>2. CASE j <= i - 1
      <3>1. RemoveAt(s, i)[j] = s[j] /\ j \in DOMAIN s
        BY <1>1, <1>2, <1>3, <1>4, <1>5, <2>1, <2>2
      <3> QED BY <3>1
    <2>3. CASE ~(j <= i - 1)
      <3>1. /\ RemoveAt(s, i)[j] = after[j - (i - 1)]
            /\ j - (i - 1) \in 1..(Len(s) - i) /\ i + (j - (i - 1)) = j + 1
        <4>1. /\ j \in 1 .. Len(before) + Len(after) /\ ~(j <= Len(before))
              /\ j - (i - 1) \in 1..(Len(s) - i) /\ i + (j - (i - 1)) = j + 1
          BY <1>1, <1>2, <1>3, <2>1, <2>3
        <4>2. RemoveAt(s, i)[j] = after[j - Len(before)]
          BY <1>4, <1>5, <4>1
        <4> QED BY <1>2, <4>1, <4>2
      <3>2. RemoveAt(s, i)[j] = s[j + 1] /\ j + 1 \in DOMAIN s
        BY <1>1, <1>3, <2>1, <3>1
      <3> QED BY <3>2
    <2> QED BY <2>2, <2>3
  <1> QED BY <1>6, <1>7

(* What a read finds is of the type of what a poll holds.                  *)
LEMMA CountsTyped ==
    ASSUME NEW rows, IsFiniteSet(DOMAIN rows)
    PROVE  Summarize(rows) \in Stats
  <1>1. ASSUME NEW state PROVE Reaching(rows, state) \in Nat
    <2> DEFINE S == {d \in DOMAIN rows : IsOnline(rows[d].seen, Interval[d], clock) = state}
    <2>1. S \subseteq DOMAIN rows
      OBVIOUS
    <2>2. Reaching(rows, state) = Cardinality(S)
      BY DEF Reaching
    <2> HIDE DEF S
    <2> QED BY <2>1, <2>2, FS_Subset, FS_CardinalityType
  <1> DEFINE B == {d \in DOMAIN rows : IsBehind(rows[d].version, LatestVersion(DeviceModel[d]))}
  <1>2. Cardinality(B) \in Nat
    <2>1. B \subseteq DOMAIN rows
      OBVIOUS
    <2> HIDE DEF B
    <2> QED BY <2>1, FS_Subset, FS_CardinalityType
  <1>3. Summarize(rows) = [online |-> Reaching(rows, "online"), offline |-> Reaching(rows, "offline"),
                           unknown |-> Reaching(rows, "unknown"), behind |-> Cardinality(B)]
    BY DEF Summarize
  <1> HIDE DEF B
  <1> QED BY <1>1, <1>2, <1>3 DEF Stats

LEMMA NowTyped ==
    ASSUME TypeOK
    PROVE  /\ Now \in Polls /\ Now.at = changes
           /\ Now.devices = Listing /\ Now.firmware = firmware
           /\ Now.listed = CurrentRows /\ Now.stats = Summarize(CurrentRows)
  <1>1. Registered \in SUBSET Devices /\ IsFiniteSet(Registered)
    BY FS_Subset, DevicePageAssumption DEF Registered
  <1>2. ASSUME NEW d \in Registered PROVE row[d] \in DeviceRows
    BY <1>1 DEF Registered, TypeOK
  <1>3. CurrentRows \in [Registered -> DeviceRows] /\ DOMAIN CurrentRows = Registered
    BY <1>2 DEF CurrentRows
  <1>4. Listing \in [Registered -> Shown]
    <2>1. ASSUME NEW d \in Registered
          PROVE  [version |-> row[d].version, enabled |-> row[d].enabled,
                  online |-> IsOnline(row[d].seen, Interval[d], clock)] \in Shown
      <3>1. IsOnline(row[d].seen, Interval[d], clock) \in {"online", "offline", "unknown"}
        BY DEF IsOnline
      <3>2. row[d].version \in Reports /\ row[d].enabled \in BOOLEAN
        BY <1>2 DEF DeviceRows
      <3> QED BY <3>1, <3>2 DEF Shown
    <2> QED BY <2>1 DEF Listing
  <1>5. Summarize(CurrentRows) \in Stats
    BY <1>1, <1>3, CountsTyped
  <1>6. firmware \in Seq(Rows) /\ changes \in Nat
    BY DevicePageAssumption DEF TypeOK
  <1>7. CurrentRows \in DeviceTables /\ Listing \in Listings
    BY <1>1, <1>3, <1>4 DEF DeviceTables, Listings
  <1> QED BY <1>5, <1>6, <1>7 DEF Now, Polls

LEMMA NowMatches ==
    ASSUME TypeOK, NEW p, p.devices = Now.devices, p.firmware = Now.firmware, p.stats = Now.stats
    PROVE  CardsMatch(p)
  BY NowTyped, SameTablesMatch DEF TypeOK

(* A read goes on with a poll that holds: it either finds what the others  *)
(* found, or marks the poll as torn.                                       *)
Filled(p, read, value, at) ==
    [p EXCEPT ![read] = value, !.at = IF p.at \in {Unread, at} THEN at ELSE Torn]

LEMMA FillingHolds ==
    ASSUME NEW now \in Polls, now.at \in Nat,
           \A q : q.devices = now.devices /\ q.firmware = now.firmware /\ q.stats = now.stats
                    => CardsMatch(q),
           NEW p \in Polls, PollHolds(p, now),
           NEW read \in Reads, p[read] = Unread,
           NEW value, Filled(p, read, value, now.at) \in Polls,
           p.at \in {Unread, now.at} => value = now[read],
           read = "stats" => p.listed # Unread
    PROVE  PollHolds(Filled(p, read, value, now.at), now)
  <1> DEFINE q == Filled(p, read, value, now.at)
  <1>1. Unread # Torn /\ Unread # now.at /\ Torn # now.at
    BY DevicePageAssumption
  <1>2. /\ DOMAIN p = Reads \cup {"at"}
        /\ "at" \notin Reads
    BY DEF Polls, Reads
  <1>3. /\ q[read] = value
        /\ \A r \in Reads : r # read => q[r] = p[r]
        /\ q.at = IF p.at \in {Unread, now.at} THEN now.at ELSE Torn
    BY <1>2 DEF Filled, Polls
  <1> HIDE DEF q
  <1>4. q.stats # Unread => q.listed # Unread
    <2>1. CASE read = "stats"
      BY <1>3, <2>1 DEF Reads
    <2>2. CASE read = "listed"
      BY <1>3, <2>2 DEF Reads, PollHolds
    <2>3. CASE read \notin {"stats", "listed"}
      BY <1>3, <2>3 DEF Reads, PollHolds
    <2> QED BY <2>1, <2>2, <2>3
  <1>5. q.at \in 0 .. now.at \cup {Unread, Torn} /\ q.at # Unread
    BY <1>1, <1>3
  <1>6. q.at = now.at => \A r \in Reads : q[r] \in {Unread, now[r]}
    <2> SUFFICES ASSUME q.at = now.at, NEW r \in Reads PROVE q[r] \in {Unread, now[r]}
      OBVIOUS
    <2>1. p.at \in {Unread, now.at}
      BY <1>1, <1>3
    <2>2. p[r] \in {Unread, now[r]}
      BY <2>1 DEF PollHolds
    <2> QED BY <1>3, <2>1, <2>2
  <1>7. ASSUME AllAnswered(q), q.at # Torn PROVE CardsMatch(q)
    <2>1. q.at = now.at
      BY <1>3, <1>7
    <2>2. q.devices = now.devices /\ q.firmware = now.firmware /\ q.stats = now.stats
      BY <1>6, <1>7, <2>1 DEF AllAnswered, Reads
    <2> QED BY <2>2
  <1>8. PollHolds(q, now)
    BY <1>4, <1>5, <1>6, <1>7 DEF PollHolds
  <1> QED BY <1>8 DEF q

(* A change of the tables leaves behind all that was read before it.       *)
LEMMA LaterHolds ==
    ASSUME NEW now, now.at \in Nat, NEW later, later.at = now.at + 1,
           NEW p, PollHolds(p, now)
    PROVE  PollHolds(p, later)
  <1>1. p.at \in 0 .. now.at \cup {Unread, Torn}
    BY DEF PollHolds
  <1>2. p.at # later.at /\ p.at \in 0 .. later.at \cup {Unread, Torn}
    BY <1>1, DevicePageAssumption
  <1> QED BY <1>2 DEF PollHolds

LEMMA SameTables ==
    ASSUME UNCHANGED tables
    PROVE  Now' = Now /\ changes' = changes
  BY DEF tables, Now, CurrentRows, Listing, Registered, Summarize, Reaching, IsBehind,
         LatestVersion, Latest, Offered, IsOnline

LEMMA TablesTyped ==
    ASSUME TypeOK, TablesChange
    PROVE  /\ (firmware \in Seq(Rows))'
           /\ (row \in [Devices -> DeviceRows \cup {NoRow}])'
           /\ (clock \in Moments)'
           /\ changes' = changes + 1 /\ changes' \in 0 .. MaxEvents
  <1>1. ASSUME NEW d \in Devices, NEW v \in Told, CheckIn(d, v)
        PROVE  firmware' \in Seq(Rows) /\ row' \in [Devices -> DeviceRows \cup {NoRow}] /\ clock' \in Moments
    <2>1. row[d] \in DeviceRows
      BY <1>1 DEF CheckIn, TypeOK
    <2>2. [row[d] EXCEPT !.version = v, !.seen = clock] \in DeviceRows
      BY <2>1, DevicePageAssumption DEF DeviceRows, Reports, TypeOK
    <2>3. row' = [row EXCEPT ![d] = [row[d] EXCEPT !.version = v, !.seen = clock]]
      BY <1>1 DEF CheckIn, TypeOK
    <2> QED BY <1>1, <2>2, <2>3 DEF CheckIn, TypeOK
  <1>2. ASSUME NEW moment \in Moments, Tick(moment)
        PROVE  firmware' \in Seq(Rows) /\ row' \in [Devices -> DeviceRows \cup {NoRow}] /\ clock' \in Moments
    BY <1>2 DEF Tick, TypeOK
  <1>3. ASSUME NEW d \in Devices, Register(d)
        PROVE  firmware' \in Seq(Rows) /\ row' \in [Devices -> DeviceRows \cup {NoRow}] /\ clock' \in Moments
    BY <1>3 DEF Register, TypeOK, DeviceRows, Reports
  <1>4. ASSUME NEW d \in Devices, NEW enabled \in BOOLEAN, SetEnabled(d, enabled)
        PROVE  firmware' \in Seq(Rows) /\ row' \in [Devices -> DeviceRows \cup {NoRow}] /\ clock' \in Moments
    <2>1. row[d] \in DeviceRows
      BY <1>4 DEF SetEnabled, TypeOK
    <2>2. [row[d] EXCEPT !.enabled = enabled] \in DeviceRows
      BY <2>1 DEF DeviceRows
    <2> QED BY <1>4, <2>2 DEF SetEnabled, TypeOK
  <1>5. ASSUME CatalogueNext, UNCHANGED <<row, clock>>
        PROVE  firmware' \in Seq(Rows) /\ row' \in [Devices -> DeviceRows \cup {NoRow}] /\ clock' \in Moments
    <2>1. ASSUME NEW r \in Releases, Publish(r) PROVE firmware' \in Seq(Rows)
      BY <2>1, CatalogueAssumption, AppendProperties DEF Publish, TypeOK
    <2>2. ASSUME NEW owner \in Owners, NEW id \in DOMAIN firmware, Withdraw(owner, id)
          PROVE  firmware' \in Seq(Rows)
      <3>1. firmware \in Seq(Rows) /\ id \in 1..Len(firmware) /\ firmware[id] \in Rows
        BY LenProperties, ElementOfSeq DEF TypeOK
      <3>2. [firmware[id] EXCEPT !.active = FALSE] \in Rows
        BY <3>1 DEF Rows
      <3>3. firmware' = [firmware EXCEPT ![id] = [firmware[id] EXCEPT !.active = FALSE]]
        BY <2>2, <3>1 DEF Withdraw
      <3> QED BY <3>1, <3>2, <3>3, ExceptSeq
    <2> QED BY <1>5, <2>1, <2>2 DEF CatalogueNext, TypeOK
  <1>6. changes' = changes + 1 /\ changes' \in 0 .. MaxEvents
    BY DevicePageAssumption DEF TablesChange, Change, TypeOK
  <1> QED BY <1>1, <1>2, <1>3, <1>4, <1>5, <1>6 DEF TablesChange

LEMMA ListedFinite ==
    ASSUME NEW p \in Polls, p.listed # Unread
    PROVE  IsFiniteSet(DOMAIN p.listed)
  <1>1. p.listed \in DeviceTables
    BY DEF Polls
  <1>2. PICK D \in SUBSET Devices : p.listed \in [D -> DeviceRows]
    BY <1>1 DEF DeviceTables
  <1> QED BY <1>2, FS_Subset, DevicePageAssumption

(* What each answer does to its poll.                                      *)
LEMMA AnsweringHolds ==
    ASSUME PageInv, NEW i \in DOMAIN polls, Answer(i)
    PROVE  \E q \in Polls : PollHolds(q, Now) /\ polls' = [polls EXCEPT ![i] = q]
  <1>1. /\ polls[i] \in Polls /\ PollHolds(polls[i], Now) /\ changes \in Nat
    BY ElementOfSeq, LenProperties, DevicePageAssumption DEF PageInv, TypeOK
  <1>2. /\ Now \in Polls /\ Now.at = changes
        /\ Now.devices = Listing /\ Now.firmware = firmware
        /\ Now.listed = CurrentRows /\ Now.stats = Summarize(CurrentRows)
    BY NowTyped DEF PageInv
  <1>3. \A q : q.devices = Now.devices /\ q.firmware = Now.firmware /\ q.stats = Now.stats
                 => CardsMatch(q)
    BY NowMatches DEF PageInv
  <1>4. ASSUME NEW read \in Reads, polls[i][read] = Unread,
               NEW value, Fill(i, read, value),
               Filled(polls[i], read, value, changes) \in Polls,
               polls[i].at \in {Unread, changes} => value = Now[read],
               read = "stats" => polls[i].listed # Unread
        PROVE  \E q \in Polls : PollHolds(q, Now) /\ polls' = [polls EXCEPT ![i] = q]
    <2> DEFINE q == Filled(polls[i], read, value, changes)
    <2>1. PollHolds(q, Now)
      BY <1>1, <1>2, <1>3, <1>4, FillingHolds
    <2>2. polls' = [polls EXCEPT ![i] = q]
      BY <1>4 DEF Fill, Filled
    <2> QED BY <1>4, <2>1, <2>2
  <1>5. ASSUME NEW read \in Reads
        PROVE  /\ Filled(polls[i], read, Now[read], changes) \in Polls
               /\ read = "stats" => \A value \in Stats : Filled(polls[i], read, value, changes) \in Polls
    <2> DEFINE at == IF polls[i].at \in {Unread, changes} THEN changes ELSE Torn
               Refilled(value) == [polls[i] EXCEPT ![read] = value, !.at = at]
    <2>1. at \in Nat \cup {Unread, Torn}
      BY <1>1
    <2>2. \A value : Filled(polls[i], read, value, changes) = Refilled(value)
      BY DEF Filled
    <2>3. ASSUME NEW now \in Polls
          PROVE  /\ now.devices \in Listings \cup {Unread}
                 /\ now.firmware \in Seq(Rows) \cup {Unread}
                 /\ now.listed \in DeviceTables \cup {Unread}
                 /\ now.stats \in Stats \cup {Unread}
      BY DEF Polls
    <2> HIDE DEF at
    <2>4. CASE read = "devices"
      <3>1. ASSUME NEW value \in Listings \cup {Unread} PROVE Refilled(value) \in Polls
        BY <1>1, <2>1, <2>4 DEF Polls
      <3> HIDE DEF Refilled
      <3> QED BY <1>2, <2>2, <2>3, <2>4, <3>1
    <2>5. CASE read = "firmware"
      <3>1. ASSUME NEW value \in Seq(Rows) \cup {Unread} PROVE Refilled(value) \in Polls
        BY <1>1, <2>1, <2>5 DEF Polls
      <3> HIDE DEF Refilled
      <3> QED BY <1>2, <2>2, <2>3, <2>5, <3>1
    <2>6. CASE read = "listed"
      <3>1. ASSUME NEW value \in DeviceTables \cup {Unread} PROVE Refilled(value) \in Polls
        BY <1>1, <2>1, <2>6 DEF Polls
      <3> HIDE DEF Refilled
      <3> QED BY <1>2, <2>2, <2>3, <2>6, <3>1
    <2>7. CASE read = "stats"
      <3>1. ASSUME NEW value \in Stats \cup {Unread} PROVE Refilled(value) \in Polls
        BY <1>1, <2>1, <2>7 DEF Polls
      <3> HIDE DEF Refilled
      <3> QED BY <1>2, <2>2, <2>3, <2>7, <3>1
    <2> QED BY <2>4, <2>5, <2>6, <2>7 DEF Reads
  <1>6. CASE AnswerDevices(i)
    BY <1>2, <1>4, <1>5, <1>6 DEF AnswerDevices, Reads
  <1>7. CASE AnswerFirmware(i)
    BY <1>2, <1>4, <1>5, <1>7 DEF AnswerFirmware, Reads
  <1>8. CASE ListForStats(i)
    BY <1>2, <1>4, <1>5, <1>8 DEF ListForStats, Reads, CurrentRows
  <1>9. CASE AnswerStats(i)
    <2> DEFINE rows == polls[i].listed
    <2>1. rows # Unread /\ polls[i].stats = Unread /\ Fill(i, "stats", Summarize(rows))
      BY <1>9 DEF AnswerStats
    <2>2. IsFiniteSet(DOMAIN rows)
      BY <1>1, <2>1, ListedFinite
    <2>3. Summarize(rows) \in Stats
      BY <2>2, CountsTyped
    <2>4. polls[i].at \in {Unread, changes} => rows = CurrentRows
      BY <1>1, <1>2, <2>1 DEF PollHolds, Reads
    <2>5. "stats" \in Reads /\ polls[i]["stats"] = Unread /\ Now["stats"] = Summarize(CurrentRows)
      BY <1>2, <2>1 DEF Reads
    <2> HIDE DEF rows
    <2>6. polls[i].listed # Unread /\ (polls[i].at \in {Unread, changes} => Summarize(rows) = Now["stats"])
      BY <2>1, <2>4, <2>5 DEF rows
    <2> QED BY <1>4, <1>5, <2>1, <2>3, <2>5, <2>6
  <1> QED BY <1>6, <1>7, <1>8, <1>9 DEF Answer

LEMMA PageInvInit ==
    ASSUME Init
    PROVE  PageInv
  <1>1. polls \in Seq(Polls) /\ Len(polls) = 0 /\ DOMAIN polls = {}
    BY DEF Init
  <1>2. /\ firmware \in Seq(Rows) /\ row \in [Devices -> DeviceRows \cup {NoRow}] /\ clock \in Moments
        /\ changes = 0 /\ losses = 0 /\ shown = Unread /\ error = FALSE
    BY DevicePageAssumption DEF Init
  <1>3. TypeOK
    <2>1. {changes, losses} \subseteq 0 .. MaxEvents /\ Len(polls) <= MaxPolls
      BY <1>1, <1>2, DevicePageAssumption
    <2> QED BY <1>1, <1>2, <2>1 DEF TypeOK
  <1> QED BY <1>1, <1>2, <1>3 DEF PageInv, CardsMatchRows

PollsHold == polls \in Seq(Polls) /\ Len(polls) <= MaxPolls /\ \A i \in DOMAIN polls : PollHolds(polls[i], Now)

LEMMA PageInvNext ==
    ASSUME PageInv, [Next]_vars
    PROVE  PageInv'
  <1>1. /\ TypeOK /\ CardsMatchRows /\ PollsHold
        /\ changes \in Nat /\ Now.at = changes
    BY DevicePageAssumption DEF PageInv, PollsHold, TypeOK, Now
  <1>2. ASSUME PollsHold', changes' \in Nat,
               (firmware \in Seq(Rows))', (row \in [Devices -> DeviceRows \cup {NoRow}])',
               (clock \in Moments)', ({changes, losses} \subseteq 0 .. MaxEvents)',
               (shown # Unread => shown \in Polls /\ Unread \notin {shown.devices, shown.firmware, shown.stats})',
               (error \in BOOLEAN)', CardsMatchRows'
        PROVE  PageInv'
    <2>1. (\A i \in DOMAIN polls : /\ polls[i].stats # Unread => polls[i].listed # Unread
                                   /\ polls[i].at \in 0 .. changes \cup {Unread, Torn})'
      <3>1. Now'.at = changes'
        BY DEF Now
      <3> QED BY <1>2, <3>1 DEF PollsHold, PollHolds
    <2>2. TypeOK'
      BY <1>2, <2>1 DEF PollsHold, TypeOK
    <2> QED BY <1>2, <2>2 DEF PageInv, PollsHold
  <1>3. CASE TablesChange
    <2>1. /\ (firmware \in Seq(Rows))' /\ (row \in [Devices -> DeviceRows \cup {NoRow}])'
          /\ (clock \in Moments)' /\ changes' = changes + 1 /\ changes' \in 0 .. MaxEvents
      BY <1>1, <1>3, TablesTyped
    <2>2. UNCHANGED <<polls, shown, error, losses>>
      BY <1>3 DEF TablesChange, page
    <2>3. PollsHold'
      <3>1. Now'.at = Now.at + 1
        BY <1>1, <2>1 DEF Now
      <3>2. \A p : PollHolds(p, Now) => PollHolds(p, Now')
        BY <1>1, <3>1, LaterHolds
      <3> QED BY <1>1, <2>2, <3>2 DEF PollsHold
    <2>4. CardsMatchRows'
      BY <1>1, <2>2 DEF CardsMatchRows
    <2> QED BY <1>1, <1>2, <2>1, <2>2, <2>3, <2>4 DEF TypeOK
  <1>4. CASE Fetch
    <2>1. UNCHANGED <<firmware, row, clock, changes, shown, error, losses>> /\ Now' = Now
      BY <1>4, SameTables DEF Fetch, tables, page
    <2>2. NewPoll \in Polls /\ PollHolds(NewPoll, Now)
      <3>1. NewPoll.at # changes
        BY <1>1, DevicePageAssumption DEF NewPoll
      <3>2. NewPoll \in Polls
        BY DEF NewPoll, Polls
      <3>3. NewPoll.at = Unread /\ \A read \in Reads : NewPoll[read] = Unread
        BY DEF NewPoll, Reads
      <3> QED BY <1>1, <3>1, <3>2, <3>3 DEF PollHolds, Reads, AllAnswered
    <2>3. PollsHold'
      <3>1. polls' = Append(polls, NewPoll) /\ Len(polls) < MaxPolls /\ polls \in Seq(Polls)
        BY <1>1, <1>4 DEF Fetch, PollsHold
      <3>2. /\ Append(polls, NewPoll) \in Seq(Polls)
            /\ Len(Append(polls, NewPoll)) = Len(polls) + 1
            /\ \A i \in 1..Len(polls) : Append(polls, NewPoll)[i] = polls[i]
            /\ Append(polls, NewPoll)[Len(polls) + 1] = NewPoll
        BY <2>2, <3>1, AppendProperties
      <3>3. Len(polls) \in Nat /\ DOMAIN polls = 1..Len(polls) /\ DOMAIN polls' = 1..(Len(polls) + 1)
        BY <3>1, <3>2, LenProperties
      <3>4. ASSUME NEW i \in DOMAIN polls' PROVE PollHolds(polls'[i], Now)
        BY <1>1, <2>2, <3>1, <3>2, <3>3 DEF PollsHold
      <3> QED BY <2>1, <3>1, <3>2, <3>3, <3>4, DevicePageAssumption DEF PollsHold
    <2> QED BY <1>1, <1>2, <2>1, <2>3 DEF TypeOK, CardsMatchRows
  <1>5. ASSUME NEW i \in DOMAIN polls, Answer(i) PROVE PageInv'
    <2>1. UNCHANGED <<firmware, row, clock, changes, shown, error, losses>> /\ Now' = Now
      BY <1>5, SameTables DEF Answer, tables, page
    <2>2. PICK q \in Polls : PollHolds(q, Now) /\ polls' = [polls EXCEPT ![i] = q]
      BY <1>5, AnsweringHolds
    <2>3. PollsHold'
      <3>1. polls \in Seq(Polls) /\ Len(polls) \in Nat /\ DOMAIN polls = 1..Len(polls)
        BY <1>1, LenProperties DEF PollsHold
      <3>2. /\ polls' \in Seq(Polls) /\ Len(polls') = Len(polls)
            /\ \A j \in 1..Len(polls) : polls'[j] = IF j = i THEN q ELSE polls[j]
        BY <2>2, <3>1, ExceptSeq
      <3>3. DOMAIN polls' = 1..Len(polls)
        BY <3>2, LenProperties
      <3> QED BY <1>1, <2>1, <2>2, <3>1, <3>2, <3>3 DEF PollsHold
    <2> QED BY <1>1, <1>2, <2>1, <2>3 DEF TypeOK, CardsMatchRows
  <1>6. ASSUME NEW i \in DOMAIN polls, polls' = RemoveAt(polls, i), UNCHANGED tables
        PROVE  PollsHold' /\ UNCHANGED <<firmware, row, clock, changes>>
    <2>1. Now' = Now
      BY <1>6, SameTables
    <2>2. /\ polls' \in Seq(Polls) /\ Len(polls') = Len(polls) - 1
          /\ \A j \in DOMAIN polls' : \E k \in DOMAIN polls : polls'[j] = polls[k]
      BY <1>1, <1>6, RemovingHolds DEF PollsHold
    <2>3. Len(polls) \in Nat /\ Len(polls) <= MaxPolls
      BY <1>1, LenProperties DEF PollsHold
    <2> QED BY <1>1, <1>6, <2>1, <2>2, <2>3, DevicePageAssumption DEF PollsHold, tables
  <1>7. ASSUME NEW i \in DOMAIN polls, Deliver(i) PROVE PageInv'
    <2>1. PollsHold' /\ UNCHANGED <<firmware, row, clock, changes, losses>>
      BY <1>6, <1>7 DEF Deliver
    <2>2. polls[i] \in Polls /\ PollHolds(polls[i], Now) /\ AllAnswered(polls[i])
      BY <1>1, <1>7, ElementOfSeq, LenProperties DEF PollsHold, Deliver
    <2>3. shown' = [polls[i] EXCEPT !.listed = Unread] /\ error' = FALSE
      BY <1>7 DEF Deliver
    <2>4. /\ shown' \in Polls
          /\ shown'.devices = polls[i].devices /\ shown'.firmware = polls[i].firmware
          /\ shown'.stats = polls[i].stats /\ shown'.at = polls[i].at
      <3>1. \A p \in Polls :
               /\ [p EXCEPT !.listed = Unread] \in Polls
               /\ [p EXCEPT !.listed = Unread].devices = p.devices
               /\ [p EXCEPT !.listed = Unread].firmware = p.firmware
               /\ [p EXCEPT !.listed = Unread].stats = p.stats
               /\ [p EXCEPT !.listed = Unread].at = p.at
        BY DEF Polls
      <3> QED BY <2>2, <2>3, <3>1
    <2>5. Unread \notin {shown'.devices, shown'.firmware, shown'.stats}
      BY <2>2, <2>4 DEF AllAnswered
    <2>6. CardsMatch(polls[i]) => CardsMatch(shown')
      BY <2>4 DEF CardsMatch, Outdated, Unnamed, Trails, Dots
    <2>7. CardsMatchRows'
      BY <2>2, <2>4, <2>6 DEF CardsMatchRows, PollHolds
    <2> QED BY <1>1, <1>2, <2>1, <2>3, <2>4, <2>5, <2>7 DEF TypeOK
  <1>8. ASSUME NEW i \in DOMAIN polls, Lose(i) PROVE PageInv'
    <2>1. PollsHold' /\ UNCHANGED <<firmware, row, clock, changes>>
      BY <1>6, <1>8 DEF Lose
    <2>2. shown' = shown /\ error' = TRUE /\ losses' \in 0 .. MaxEvents
      BY <1>1, <1>8, DevicePageAssumption DEF Lose, TypeOK
    <2> QED BY <1>1, <1>2, <2>1, <2>2 DEF TypeOK, CardsMatchRows
  <1>9. CASE UNCHANGED vars
    <2>1. UNCHANGED <<firmware, row, clock, changes, polls, shown, error, losses>> /\ Now' = Now
      BY <1>9, SameTables DEF vars, tables, page
    <2> QED BY <1>1, <1>2, <2>1 DEF TypeOK, CardsMatchRows, PollsHold
  <1> QED BY <1>3, <1>4, <1>5, <1>7, <1>8, <1>9 DEF Next, Answers, Delivers, Loses

THEOREM PageInvariant == Spec => []PageInv
  <1>1. Init => PageInv
    BY PageInvInit
  <1>2. PageInv /\ [Next]_vars => PageInv'
    BY PageInvNext
  <1> QED BY <1>1, <1>2, PTL DEF Spec

(* The page (DeviceList.tsx) shows all three answers of one poll or none,  *)
(* and no poll's statistics are counted before its units are read.         *)
THEOREM PageTypeCorrect == Spec => []TypeOK
  <1>1. PageInv => TypeOK
    BY DEF PageInv
  <1> QED BY <1>1, PageInvariant, PTL

(* However the reads of several polls interleave with check-ins, the clock *)
(* and publishing, a page whose three answers saw the same tables names in *)
(* its banner the units that the server counted as behind, all but those   *)
(* that report the empty string, and shows as many dots of each colour as  *)
(* the server counted (fleet.py, is_behind; DeviceList.tsx).               *)
THEOREM CardsAgree == Spec => []CardsMatchRows
  <1>1. PageInv => CardsMatchRows
    BY DEF PageInv
  <1> QED BY <1>1, PageInvariant, PTL
=============================================================================
