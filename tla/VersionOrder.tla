---------------------------- MODULE VersionOrder ----------------------------
(***************************************************************************)
(* The order on parsed versions that decides every offer and every flash.  *)
(* A parsed version is a sequence of one to three integers.  The device    *)
(* (esp32/main/ota.cpp, isVersionNewer), the server (domain/signing.py,    *)
(* compare_version) and the dashboard (frontend/src/version.ts,            *)
(* compareVersions) each compute it; VersionParsing states what the three  *)
(* make of a version string and checks them against each other.            *)
(***************************************************************************)
EXTENDS Integers, Sequences

\* What the parsers produce.
ParsedVersions == {v \in Seq(Int) : Len(v) <= 3}

Shorter(a, b) == IF Len(a) < Len(b) THEN Len(a) ELSE Len(b)

\* The first n segments are equal.
SameUpTo(a, b, n) == \A i \in 1..n : a[i] = b[i]

(* v1 > v2: the first differing segment decides, and a version that is a   *)
(* strict prefix of another is the older of the two.                       *)
IsVersionNewer(v1, v2) ==
    \/ \E i \in 1..Shorter(v1, v2) : SameUpTo(v1, v2, i - 1) /\ v1[i] > v2[i]
    \/ SameUpTo(v1, v2, Shorter(v1, v2)) /\ Len(v1) > Len(v2)
=============================================================================
