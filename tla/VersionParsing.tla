--------------------------- MODULE VersionParsing ---------------------------
(***************************************************************************)
(* What the server, the device and the dashboard read out of one version   *)
(* string.  A string is given split at its dots, as a sequence of segments;*)
(* a segment is a sequence of characters.  Three kinds of character beside *)
(* the ASCII digits matter: what str.isdigit() accepts and int() does not  *)
(* (a superscript), what both accept and the device does not (another      *)
(* script's digits), and what atol() skips or reads as a sign.  No number  *)
(* has an end of its own on the server; the dashboard's are doubles, and   *)
(* the device's have 32 bits.                                              *)
(***************************************************************************)
EXTENDS VersionOrder, FiniteSets, Functions

CONSTANTS
    IntMax,     \* the largest value of the device's 32-bit long
    MaxSafe,    \* the largest number up to which doubles are exact, 2^53 - 1
    Doubles,    \* the doubles that are whole numbers; the largest is Infinity
    MaxDigits,  \* the longest run of digits that int() reads, 4300
    Published,  \* version strings an upload may carry
    Reported    \* version strings a check-in may carry

ASSUME VersionParsingAssumption ==
    /\ {IntMax, MaxSafe, MaxDigits} \subseteq Nat
    /\ Doubles \subseteq Nat /\ 0 .. MaxSafe + 1 \subseteq Doubles
    /\ Published \cup Reported \subseteq Seq(Seq(STRING))

VARIABLES published, reported

AsciiDigits == {"0", "1", "2", "3", "4", "5", "6", "7", "8", "9"}
Superscripts == {"sup2"}
ScriptDigits == {"arabic1"}
Spaces == {" ", "tab", "newline", "vertical tab", "form feed", "return"}  \* isspace()
Signs == {"+", "-"}

DigitValue ==
    [c \in AsciiDigits \cup ScriptDigits |->
        CASE c = "0" -> 0 [] c \in {"1", "arabic1"} -> 1 [] c = "2" -> 2 [] c = "3" -> 3
          [] c = "4" -> 4 [] c = "5" -> 5 [] c = "6" -> 6 [] c = "7" -> 7
          [] c = "8" -> 8 [] c = "9" -> 9]

Decimal(digits) ==
    LET value[n \in 0 .. Len(digits)] ==
            IF n = 0 THEN 0 ELSE 10 * value[n - 1] + DigitValue[digits[n]]
    IN  value[Len(digits)]

\* The longest prefix of s whose members are all in set.
LeadingRun(s, set) ==
    SubSeq(s, 1, Cardinality({i \in DOMAIN s : \A j \in 1..i : s[j] \in set}))

(* str.split(".", 2), and what the loops of the other two amount to: three *)
(* parts at most, the third with all that follows it, of which nobody      *)
(* reads past the dot.                                                     *)
Parts(v) ==
    [i \in 1..Shorter(v, <<1, 2, 3>>) |->
        IF i = 3 /\ Len(v) > 3 THEN v[3] \o <<".">> ELSE v[i]]

\* The parts before the first empty one.
UpToBlank(parts) == LeadingRun(parts, Range(parts) \ {<<>>})

Segments(v) == UpToBlank(Parts(v))
-----------------------------------------------------------------------------
(* domain/signing.py *)
PyIsDigit == AsciiDigits \cup ScriptDigits \cup Superscripts

\* mutant: a segment that is not all digits reads as 0
PySegmentStrict(s) == IF Range(s) \subseteq PyIsDigit THEN Decimal(s) ELSE 0

PySegment(s) == Decimal(LeadingRun(s, PyIsDigit))

\* int() refuses a superscript that isdigit() let into the run, and a run
\* that is too long.
Raises(v) ==
    \E s \in Range(Segments(v)) :
        LET digits == LeadingRun(s, PyIsDigit)
        IN  Range(digits) \cap Superscripts # {} \/ Len(digits) > MaxDigits

ParseVersion(v) == [i \in DOMAIN Segments(v) |-> PySegment(Segments(v)[i])]

\* Where parse_version raises, the check-in fails and there is no offer.
CompareVersion(latest, current) ==
    /\ ~Raises(latest) /\ ~Raises(current)
    /\ IsVersionNewer(ParseVersion(latest), ParseVersion(current))

\* VERSION_FORMAT
WellFormed(v) ==
    Len(v) = 3 /\ \A i \in 1..3 : v[i] # <<>> /\ Range(v[i]) \subseteq AsciiDigits
-----------------------------------------------------------------------------
(* esp32/main/ota.cpp; String::toInt() is atol(), which saturates *)
Saturated(n) == IF n > IntMax THEN IntMax ELSE IF n < -IntMax - 1 THEN -IntMax - 1 ELSE n

\* s without the white space it begins with.
Unpadded(s) == SubSeq(s, Len(LeadingRun(s, Spaces)) + 1, Len(s))

AToL(s) ==
    LET text == Unpadded(s)
        signed == text # <<>> /\ Head(text) \in Signs
        number == Decimal(LeadingRun(IF signed THEN Tail(text) ELSE text, AsciiDigits))
    IN  Saturated(IF signed /\ Head(text) = "-" THEN -number ELSE number)

ParseVersionSegments(v) == [i \in DOMAIN Segments(v) |-> AToL(Segments(v)[i])]

DeviceFindsNewer(v1, v2) == IsVersionNewer(ParseVersionSegments(v1), ParseVersionSegments(v2))
-----------------------------------------------------------------------------
(* frontend/src/version.ts *)
Distance(a, b) == IF a > b THEN a - b ELSE b - a

\* Number(): the nearest double, and of two as near one of them.
Double(n) == CHOOSE d \in Doubles : \A other \in Doubles : Distance(n, d) <= Distance(n, other)

JsSegment(s) == Double(Decimal(LeadingRun(s, AsciiDigits)))

JsParse(v) == [i \in DOMAIN Segments(v) |-> JsSegment(Segments(v)[i])]

\* mutant: a version that ends early loses nothing
CompareVersionsPadded(a, b) ==
    LET l == JsParse(a)
        r == JsParse(b)
        At(s, i) == IF i <= Len(s) THEN s[i] ELSE 0
        differ == {i \in 1..3 : At(l, i) # At(r, i)}
    IN  IF differ = {} THEN 0
        ELSE LET first == CHOOSE i \in differ : \A j \in differ : i <= j
             IN  At(l, first) - At(r, first)

\* Element by element; the version that ends first loses.
CompareVersions(a, b) ==
    LET l == JsParse(a)
        r == JsParse(b)
        differ == {i \in 1..Shorter(l, r) : l[i] # r[i]}
    IN  IF differ # {}
        THEN LET first == CHOOSE i \in differ : \A j \in differ : i <= j
             IN  l[first] - r[first]
        ELSE Len(l) - Len(r)
-----------------------------------------------------------------------------
VInit == published = <<>> /\ reported = <<>>

VPublish == \E v \in Published : WellFormed(v) /\ published' = v /\ reported' = <<>>

VReport == reported = <<>> /\ (\E v \in Reported : reported' = v) /\ UNCHANGED published

VNext == VPublish \/ VReport

VSpec == VInit /\ [][VNext]_<<published, reported>>
-----------------------------------------------------------------------------
(* A report in plain ASCII, none of whose segments begins with a sign or   *)
(* white space.                                                            *)
Ascii(v) == \A i \in DOMAIN v : Range(v[i]) \cap (ScriptDigits \cup Superscripts) = {}

Plain(v) == Ascii(v) /\ \A i \in DOMAIN v : v[i] # <<>> => Head(v[i]) \notin Spaces \cup Signs

\* Some segment is the largest that the device counts to, or beyond it.
Saturates(v) == \E s \in Range(Segments(v)) : AToL(s) = IntMax

\* Some segment is beyond the numbers that the dashboard tells apart.
Rounds(v) == \E s \in Range(Segments(v)) : Decimal(LeadingRun(s, AsciiDigits)) > MaxSafe

\* The server can read both strings.
Readable == ~Raises(published) /\ ~Raises(reported)

(* The server offers a version exactly when the device's downgrade check   *)
(* would let it through, however odd the version the build reports and     *)
(* however large the one published, unless both reach the end of what the  *)
(* device can count to.                                                    *)
OfferAgreement ==
    /\ published # <<>> /\ Readable
    /\ Plain(reported)
    /\ ~(Saturates(published) /\ Saturates(reported))
    => (CompareVersion(published, reported) <=> DeviceFindsNewer(published, reported))

(* The dashboard calls a device behind exactly when the server would offer *)
(* it the version, whatever ASCII the device reports (version.ts 1-6),     *)
(* unless both versions are beyond what a double tells apart.              *)
DashboardAgreement ==
    /\ published # <<>> /\ Readable
    /\ Ascii(reported)
    /\ ~(Rounds(published) /\ Rounds(reported))
    => (CompareVersion(published, reported) <=> CompareVersions(published, reported) > 0)
=============================================================================
