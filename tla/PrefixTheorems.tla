--------------------------- MODULE PrefixTheorems ---------------------------
(***************************************************************************)
(* Induction along the prefixes of a sequence, for the modules whose       *)
(* operators are functions over 0..n.  The provers cannot instantiate a    *)
(* theorem about an operator P(_), so the statements take a set: the       *)
(* numbers an assertion holds of, the states a recursion runs through.     *)
(***************************************************************************)
EXTENDS Naturals, WellFoundedInduction, TLAPS

\* A set of numbers that is not empty has a least element.
LEMMA LeastNumber ==
    ASSUME NEW T, T \subseteq Nat, T # {}
    PROVE  \E x \in T : \A y \in T : x <= y
<1>. DEFINE Less == OpToRel(<, Nat)
<1>1. IsWellFoundedOn(Less, Nat)
  BY NatLessThanWellFounded
<1>2. \A x, y \in Nat : y < x => <<y, x>> \in Less
  BY DEF OpToRel
<1>. HIDE DEF Less
<1>3. PICK x \in T : \A y \in T : ~(<<y, x>> \in Less)
  BY <1>1, WFMin
<1>4. \A y \in T : ~(y < x)
  BY <1>2, <1>3, T \subseteq Nat
<1>5. QED
  BY <1>4

\* Choosing a greatest number of a bounded set that is not empty stays in the set.
LEMMA GreatestNumber ==
    ASSUME NEW n \in Nat, NEW T, T \subseteq 1 .. n, T # {}
    PROVE  (CHOOSE i \in T : \A j \in T : j <= i) \in T
<1>. DEFINE U == { n - i : i \in T }
<1>1. U \subseteq Nat /\ U # {}
  <2>1. \A i \in T : n - i \in Nat
    OBVIOUS
  <2>2. PICK i \in T : TRUE
    OBVIOUS
  <2>3. n - i \in U
    BY <2>2
  <2>4. QED
    BY <2>1, <2>3
<1>2. PICK u \in U : \A v \in U : u <= v
  <2>. HIDE DEF U
  <2>1. QED
    BY <1>1, LeastNumber
<1>3. PICK i \in T : u = n - i
  OBVIOUS
<1>4. \A j \in T : j <= i
  <2>1. ASSUME NEW j \in T PROVE j <= i
    <3>1. n - j \in U
      OBVIOUS
    <3>. HIDE DEF U
    <3>2. n - i <= n - j
      BY <1>2, <1>3, <3>1
    <3>3. i \in 1 .. n /\ j \in 1 .. n
      OBVIOUS
    <3>4. QED
      BY <3>2, <3>3
  <2>2. QED
    BY <2>1
<1>5. QED
  BY <1>4

\* Some number of a bounded set has none of the set before it.
LEMMA FirstNumber ==
    ASSUME NEW n \in Nat, NEW T, T \subseteq 1 .. n, T # {}
    PROVE  \E i \in T : \A j \in 1 .. i - 1 : j \notin T
<1>1. PICK i \in T : \A j \in T : i <= j
  <2>1. T \subseteq Nat
    OBVIOUS
  <2>2. QED
    BY <2>1, LeastNumber
<1>2. \A j \in 1 .. i - 1 : j \notin T
  BY <1>1
<1>3. QED
  BY <1>2

\* A set that holds 0 and with n also n + 1 holds every number up to N.
LEMMA PrefixInduction ==
    ASSUME NEW N \in Nat, NEW G, 0 \in G, \A n \in 0..(N - 1) : n \in G => n + 1 \in G
    PROVE  \A n \in 0..N : n \in G
<1>. DEFINE T == {n \in 0..N : n \notin G}
<1>1. CASE T = {}
  BY <1>1
<1>2. CASE T # {}
  <2>1. T \subseteq Nat
    OBVIOUS
  <2>2. PICK x \in T : \A y \in T : x <= y
    BY <1>2, <2>1, LeastNumber
  <2>3. x \in 0..N /\ x \notin G /\ x # 0
    OBVIOUS
  <2>4. x - 1 \in 0..(N - 1) /\ ~(x <= x - 1)
    BY <2>3
  <2>5. x - 1 \in 0..N /\ x - 1 \notin T /\ (x - 1) + 1 = x
    BY <2>2, <2>4
  <2>6. x - 1 \in G
    BY <2>5
  <2>7. x \in G
    BY <2>4, <2>5, <2>6
  <2>8. QED
    BY <2>3, <2>7
<1>3. QED
  BY <1>1, <1>2

LEMMA NumberInduction ==
    ASSUME NEW G, 0 \in G, \A n \in Nat : n \in G => n + 1 \in G
    PROVE  \A n \in Nat : n \in G
<1>1. ASSUME NEW n \in Nat PROVE n \in G
  <2>1. \A k \in 0..n : k \in G
    BY PrefixInduction
  <2>2. QED
    BY <2>1
<1>2. QED
  BY <1>1

\* A recursion along a prefix defines a function.
Follows(f, N, base, step) ==
  f = [n \in 0..N |-> IF n = 0 THEN base ELSE step[n][f[n-1]]]

LEMMA PrefixRecursion ==
    ASSUME NEW N \in Nat, NEW S, NEW base \in S, NEW step \in [1..N -> [S -> S]]
    PROVE  \E f \in [0..N -> S] : Follows(f, N, base, step)
<1>. DEFINE Upto(m) == \E f \in [0..m -> S] :
                         f[0] = base /\ \A n \in 1..m : f[n] = step[n][f[n-1]]
            G == {m \in 0..N : Upto(m)}
<1>1. Upto(0)
  <2>. DEFINE f == [n \in 0..0 |-> base]
  <2>1. f \in [0..0 -> S] /\ f[0] = base
    OBVIOUS
  <2>. HIDE DEF f
  <2>2. QED
    BY <2>1
<1>2. ASSUME NEW m \in 0..(N - 1), Upto(m)
      PROVE  Upto(m + 1)
  <2>1. PICK f \in [0..m -> S] : f[0] = base /\ \A n \in 1..m : f[n] = step[n][f[n-1]]
    BY <1>2
  <2>. DEFINE g == [n \in 0..(m + 1) |-> IF n <= m THEN f[n] ELSE step[m + 1][f[m]]]
  <2>2. step[m + 1][f[m]] \in S
    OBVIOUS
  <2>3. g \in [0..(m + 1) -> S]
    BY <2>2
  <2>4. g[0] = base /\ \A n \in 1..(m + 1) : g[n] = step[n][g[n-1]]
    BY <2>1
  <2>. HIDE DEF g
  <2>5. QED
    BY <2>3, <2>4
<1>. HIDE DEF Upto
<1>3. N \in G
  <2>1. 0 \in G /\ \A n \in 0..(N - 1) : n \in G => n + 1 \in G
    BY <1>1, <1>2
  <2>. HIDE DEF G
  <2>2. \A n \in 0..N : n \in G
    BY <2>1, PrefixInduction
  <2>3. QED
    BY <2>2
<1>4. PICK f \in [0..N -> S] : f[0] = base /\ \A n \in 1..N : f[n] = step[n][f[n-1]]
  BY <1>3 DEF Upto
<1>5. \A n \in 0..N : f[n] = IF n = 0 THEN base ELSE step[n][f[n-1]]
  BY <1>4
<1>6. f = [n \in 0..N |-> IF n = 0 THEN base ELSE step[n][f[n-1]]]
  <2>. DEFINE value(n) == IF n = 0 THEN base ELSE step[n][f[n-1]]
  <2>1. f = [n \in 0..N |-> f[n]]
    OBVIOUS
  <2>2. \A n \in 0..N : f[n] = value(n)
    BY <1>5
  <2>. HIDE DEF value
  <2>3. [n \in 0..N |-> f[n]] = [n \in 0..N |-> value(n)]
    BY <2>2
  <2>4. QED
    BY <2>1, <2>3 DEF value
<1>7. QED
  BY <1>6 DEF Follows
=============================================================================
