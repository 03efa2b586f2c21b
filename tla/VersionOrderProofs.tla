------------------------- MODULE VersionOrderProofs -------------------------
(***************************************************************************)
(* isVersionNewer is a strict total order on parsed versions, whatever the *)
(* numbers.  The device's downgrade check and the server's choice of the   *)
(* latest row both rely on it.  Then what the proofs about whoever goes    *)
(* through a table or a string in order have in common.                    *)
(***************************************************************************)
EXTENDS VersionOrder, SequenceTheorems, WellFoundedInduction, TLAPS

LEMMA Parsed ==
    ASSUME NEW a \in ParsedVersions
    PROVE  /\ a \in Seq(Int) /\ Len(a) \in Nat /\ Len(a) <= 3
           /\ \A i \in 1..Len(a) : a[i] \in Int
  <1>1. a \in Seq(Int) /\ Len(a) <= 3
    BY DEF ParsedVersions
  <1> QED BY <1>1, LenProperties, ElementOfSeq

(* The comparison unfolded: at most three segments.                        *)
Decides(a, b, i) == i <= Len(a) /\ i <= Len(b) /\ a[i] > b[i]
Ties(a, b, i) == i <= Len(a) /\ i <= Len(b) /\ a[i] = b[i]

LEMMA Unfolded ==
    ASSUME NEW a \in ParsedVersions, NEW b \in ParsedVersions
    PROVE  IsVersionNewer(a, b) <=>
             \/ Decides(a, b, 1)
             \/ Ties(a, b, 1) /\ Decides(a, b, 2)
             \/ Ties(a, b, 1) /\ Ties(a, b, 2) /\ Decides(a, b, 3)
             \/ Len(a) > Len(b) /\ \A i \in 1..3 : i <= Len(b) => a[i] = b[i]
  <1> DEFINE m == Len(a)
             n == Len(b)
             k == Shorter(a, b)
  <1>1. m \in Nat /\ n \in Nat /\ m <= 3 /\ n <= 3
    BY Parsed
  <1>2. k = IF m < n THEN m ELSE n
    BY DEF Shorter
  <1> HIDE DEF m, n, k
  <1>3. k \in {0, 1, 2, 3} /\ k <= m /\ k <= n /\ (k = m \/ k = n)
    BY <1>1, <1>2
  <1>4. \A i \in Int : i \in 1..k <=> i \in {1, 2, 3} /\ i <= m /\ i <= n
    BY <1>1, <1>2, <1>3
  <1>5. (\E i \in 1..k : SameUpTo(a, b, i - 1) /\ a[i] > b[i]) <=>
             \/ Decides(a, b, 1)
             \/ Ties(a, b, 1) /\ Decides(a, b, 2)
             \/ Ties(a, b, 1) /\ Ties(a, b, 2) /\ Decides(a, b, 3)
    <2>1. \A i \in 1..k : i = 1 \/ i = 2 \/ i = 3
      BY <1>3
    <2>2. SameUpTo(a, b, 0) /\ (SameUpTo(a, b, 1) <=> a[1] = b[1])
          /\ (SameUpTo(a, b, 2) <=> a[1] = b[1] /\ a[2] = b[2])
      BY DEF SameUpTo
    <2>3. \A i \in {1, 2, 3} : i \in 1..k <=> i <= m /\ i <= n
      BY <1>4
    <2> QED BY <1>1, <2>1, <2>2, <2>3 DEF Decides, Ties, m, n
  <1>6. SameUpTo(a, b, k) /\ m > n <=> m > n /\ \A i \in 1..3 : i <= n => a[i] = b[i]
    BY <1>1, <1>2 DEF SameUpTo
  <1> QED BY <1>5, <1>6 DEF IsVersionNewer, m, n, k

(* No version is newer than itself: a unit is never offered the version it *)
(* reports.                                                                *)
THEOREM Irreflexive == \A a \in ParsedVersions : ~IsVersionNewer(a, a)
  <1> SUFFICES ASSUME NEW a \in ParsedVersions PROVE ~IsVersionNewer(a, a)
    OBVIOUS
  <1>1. Len(a) \in Nat /\ \A i \in 1..3 : i <= Len(a) => a[i] \in Int
    BY Parsed
  <1> QED BY <1>1, Unfolded DEF Decides

(* A chain of strictly newer flashes never leads back.                     *)
THEOREM Transitive ==
    \A a, b, c \in ParsedVersions :
        IsVersionNewer(a, b) /\ IsVersionNewer(b, c) => IsVersionNewer(a, c)
  <1> SUFFICES ASSUME NEW a \in ParsedVersions, NEW b \in ParsedVersions, NEW c \in ParsedVersions,
                      IsVersionNewer(a, b), IsVersionNewer(b, c)
               PROVE  IsVersionNewer(a, c)
    OBVIOUS
  <1>1. \A v \in {a, b, c} :
            Len(v) \in Nat /\ Len(v) <= 3 /\ \A i \in 1..3 : i <= Len(v) => v[i] \in Int
    BY Parsed
  <1> QED BY <1>1, Unfolded DEF Decides, Ties

(* Two versions neither of which is newer are the same segments, so the    *)
(* latest of a set of distinct versions is unique.                         *)
THEOREM Total ==
    \A a, b \in ParsedVersions : a = b \/ IsVersionNewer(a, b) \/ IsVersionNewer(b, a)
  <1> SUFFICES ASSUME NEW a \in ParsedVersions, NEW b \in ParsedVersions,
                      ~IsVersionNewer(a, b), ~IsVersionNewer(b, a)
               PROVE  a = b
    OBVIOUS
  <1>1. \A v \in {a, b} :
            /\ v \in Seq(Int) /\ Len(v) \in Nat /\ Len(v) <= 3
            /\ \A i \in 1..3 : i <= Len(v) => v[i] \in Int
    BY Parsed
  <1>2. Len(a) = Len(b) /\ \A i \in 1..3 : i <= Len(a) => a[i] = b[i]
    BY <1>1, Unfolded DEF Decides, Ties
  <1>3. a \in Seq(Int) /\ b \in Seq(Int) /\ \A i \in 1..Len(a) : a[i] = b[i]
    BY <1>1, <1>2
  <1> QED BY <1>2, <1>3, SeqEqual, Zenon

-----------------------------------------------------------------------------
(* A set of natural numbers has a least one.                               *)
LEMMA LeastNat ==
    ASSUME NEW T \in SUBSET Nat, T # {}
    PROVE  \E n \in T : \A m \in T : n <= m
<1> DEFINE R == OpToRel(<, Nat)
<1>1. IsWellFoundedOn(R, Nat)
  BY NatLessThanWellFounded
<1>2. \A m, n \in Nat : <<m, n>> \in R <=> m < n
  BY DEF OpToRel
<1> HIDE DEF R
<1>3. PICK n \in T : \A m \in T : ~ (<<m, n>> \in R)
  BY <1>1, WFMin
<1>4. n \in Nat /\ \A m \in T : m \in Nat /\ ~(m < n)
  BY <1>2, <1>3
<1>5. \A m \in T : n <= m
  BY <1>4
<1> QED BY <1>3, <1>5

LEMMA Induction ==
    ASSUME NEW T, 0 \in T, \A n \in Nat : n \in T => n + 1 \in T
    PROVE  \A n \in Nat : n \in T
<1> DEFINE Rest == {n \in Nat : n \notin T}
<1>1. SUFFICES ASSUME Rest # {} PROVE FALSE
  OBVIOUS
<1>2. PICK n \in Rest : \A m \in Rest : n <= m
  BY <1>1, LeastNat
<1>3. n \in Nat /\ n # 0 /\ n - 1 \in Nat /\ n - 1 \notin Rest /\ (n - 1) + 1 = n
  BY <1>2
<1> QED BY <1>2, <1>3

(* A function that is given by its first value and by a step from each     *)
(* value to the next exists.                                               *)
Recursive(N, X, base, step) ==
    \E g \in [0..N -> X] : g[0] = base /\ \A n \in 1..N : g[n] = step[n][g[n - 1]]

LEMMA Recursion ==
    ASSUME NEW N \in Nat, NEW X, NEW base \in X, NEW step \in [1..N -> [X -> X]]
    PROVE  Recursive(N, X, base, step)
<1> DEFINE Upto(k, g) == g[0] = base /\ \A n \in 1..k : g[n] = step[n][g[n - 1]]
           T == {k \in Nat : k <= N => \E g \in [0..k -> X] : Upto(k, g)}
<1>1. 0 \in T
  <2> DEFINE g == [n \in 0..0 |-> base]
  <2>1. g \in [0..0 -> X] /\ Upto(0, g)
    OBVIOUS
  <2> QED BY <2>1
<1>2. ASSUME NEW k \in Nat, k \in T PROVE k + 1 \in T
  <2> SUFFICES ASSUME k + 1 <= N PROVE \E g \in [0..(k + 1) -> X] : Upto(k + 1, g)
    BY <1>2
  <2>1. PICK g \in [0..k -> X] : Upto(k, g)
    BY <1>2
  <2> DEFINE h == [n \in 0..(k + 1) |-> IF n = k + 1 THEN step[k + 1][g[k]] ELSE g[n]]
  <2>2. g[k] \in X /\ k + 1 \in 1..N
    OBVIOUS
  <2>3. step[k + 1][g[k]] \in X
    BY <2>2
  <2>4. h \in [0..(k + 1) -> X]
    BY <2>3
  <2>5. h[0] = base
    BY <2>1
  <2>6. ASSUME NEW n \in 1..(k + 1) PROVE h[n] = step[n][h[n - 1]]
    <3>1. n - 1 \in 0..k /\ h[n - 1] = g[n - 1]
      OBVIOUS
    <3>2. CASE n = k + 1
      <4>1. n - 1 = k /\ h[n] = step[n][g[k]]
        BY <3>2
      <4> QED BY <3>1, <4>1
    <3>3. CASE n # k + 1
      <4>1. n \in 1..k /\ h[n] = g[n]
        BY <3>3
      <4> QED BY <2>1, <3>1, <4>1
    <3> QED BY <3>2, <3>3
  <2> QED BY <2>4, <2>5, <2>6
<1>3. N \in T
  <2> HIDE DEF T
  <2> QED BY <1>1, <1>2, Induction
<1> QED BY <1>3 DEF Recursive

(* What a query sorts first among some of its rows.                        *)
First(rows, S, i) ==
    /\ i \in S
    /\ \A j \in S : /\ ~IsVersionNewer(rows[j].version, rows[i].version)
                    /\ rows[j].version = rows[i].version => j <= i

(* If it were not so, the first rows of the table for which it fails would *)
(* end with one that is sorted first among them or leaves that one first.  *)
LEMMA SomeFirst ==
    ASSUME NEW rows, NEW S \in SUBSET Nat, S # {}, NEW max \in Nat, \A i \in S : i <= max,
           \A i \in S : rows[i].version \in ParsedVersions
    PROVE  \E i \in S : First(rows, S, i)
<1> DEFINE Upto(n) == {i \in S : i <= n}
           Fails == {n \in Nat : Upto(n) # {} /\ ~ \E i \in S : First(rows, Upto(n), i)}
<1>0. /\ Fails \subseteq Nat
      /\ \A n \in Nat : n \in Fails <=> Upto(n) # {} /\ ~ \E i \in S : First(rows, Upto(n), i)
  OBVIOUS
<1>1. Upto(max) = S
  OBVIOUS
<1> HIDE DEF Fails
<1>2. SUFFICES ASSUME Fails # {} PROVE FALSE
  BY <1>0, <1>1
<1>3. PICK n \in Fails : \A m \in Fails : n <= m
  BY <1>0, <1>2, LeastNat
<1>4. PICK k \in Upto(n) : TRUE
  BY <1>0, <1>3
<1>5. CASE n \notin S
  <2>1. n \in Nat /\ k \in Nat /\ k <= n /\ k # n
    BY <1>0, <1>3, <1>4, <1>5
  <2>2. n - 1 \in Nat /\ \A m \in S : m <= n - 1 <=> m <= n
    BY <1>5, <2>1
  <2>3. Upto(n - 1) = Upto(n)
    BY <2>2
  <2>4. n - 1 \notin Fails
    BY <1>0, <1>3, <2>1, <2>2
  <2> QED BY <1>0, <1>3, <2>2, <2>3, <2>4
<1>6. CASE n \in S /\ Upto(n) = {n}
  <2>1. First(rows, Upto(n), n)
    BY <1>6, Irreflexive DEF First
  <2> QED BY <1>0, <1>3, <1>6, <2>1
<1>7. CASE n \in S /\ Upto(n) # {n}
  <2>1. PICK j \in S : j <= n /\ j # n
    BY <1>0, <1>3, <1>7
  <2>2. n \in Nat /\ j \in Nat /\ n - 1 \in Nat /\ \A m \in S : m <= n <=> m <= n - 1 \/ m = n
    BY <1>0, <1>3, <2>1
  <2>3. j \in Upto(n - 1) /\ Upto(n) = Upto(n - 1) \cup {n}
    BY <1>7, <2>2, <2>1
  <2>4. n - 1 \notin Fails
    BY <1>0, <1>3, <2>2
  <2>5. PICK i \in S : First(rows, Upto(n - 1), i)
    BY <1>0, <2>2, <2>3, <2>4
  <2>6. i < n /\ n \notin Upto(n - 1) /\ \A m \in Upto(n - 1) : m < n
    BY <1>0, <1>3, <2>5 DEF First
  <2> DEFINE v(m) == rows[m].version
  <2>7. \A m \in Upto(n) : v(m) \in ParsedVersions
    OBVIOUS
  <2>8. CASE IsVersionNewer(v(n), v(i)) \/ v(n) = v(i)
    <3>1. ASSUME NEW m \in Upto(n - 1) PROVE ~IsVersionNewer(v(m), v(n))
      <4>1. ~IsVersionNewer(v(m), v(i)) /\ i \in Upto(n - 1)
        BY <2>5, <3>1 DEF First
      <4> QED BY <2>3, <2>7, <2>8, <4>1, Transitive
    <3>2. First(rows, Upto(n), n)
      BY <1>7, <2>3, <2>6, <2>7, <3>1, Irreflexive DEF First
    <3> QED BY <1>0, <1>3, <1>7, <3>2
  <2>9. CASE ~IsVersionNewer(v(n), v(i)) /\ v(n) # v(i)
    <3>1. First(rows, Upto(n), i)
      BY <2>3, <2>5, <2>9 DEF First
    <3> QED BY <1>0, <1>3, <2>5, <3>1
  <2> QED BY <2>8, <2>9
<1> QED BY <1>5, <1>6, <1>7
=============================================================================
