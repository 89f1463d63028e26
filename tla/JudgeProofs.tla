----------------------------- MODULE JudgeProofs -----------------------------
(***************************************************************************)
(* Proofs about Judge, for any policies, asks, objects, transactions and   *)
(* number of asks.                                                         *)
(***************************************************************************)
EXTENDS Judge, FiniteSetTheorems, TLAPS

-----------------------------------------------------------------------------
(* Induction over data. The induction theorems of the library take an      *)
(* operator, which the provers cannot instantiate; the least element of a  *)
(* set of numbers serves instead, and follows from the well-foundedness of *)
(* the inclusion of finite sets.                                           *)

\* A set of natural numbers that is not empty has a least element.
LEMMA Least ==
    ASSUME NEW S, \A n \in S : n \in Nat, S # {}
    PROVE  \E m \in S : \A n \in S : m <= n
<1> DEFINE Up == {1..n : n \in S}
<1>1. IsWellFoundedOn(StrictSubsetOrdering(Nat), FiniteSubsetsOf(Nat))
  BY FS_StrictSubsetOrderingWellFounded
<1>2. Up \subseteq FiniteSubsetsOf(Nat)
  <2>1. \A n \in S : IsFiniteSet(1..n) /\ 1..n \in SUBSET Nat
    BY FS_Interval
  <2> QED
    BY <2>1 DEF FiniteSubsetsOf
<1>3. Up # {}
  OBVIOUS
<1>4. PICK x \in Up : \A y \in Up : ~(<<y, x>> \in StrictSubsetOrdering(Nat))
  <2> HIDE DEF Up
  <2> QED
    BY <1>1, <1>2, <1>3, WFMin
<1>5. PICK m \in S : x = 1..m
  BY <1>4
<1>6. ASSUME NEW n \in S, n < m PROVE FALSE
  <2>1. 1..n \in SUBSET Nat /\ 1..m \in SUBSET Nat /\ 1..n \subseteq 1..m
    BY <1>6
  <2>2. m \in 1..m /\ m \notin 1..n
    BY <1>6
  <2>3. 1..n # 1..m
    BY <2>2
  <2>4. <<1..n, 1..m>> \in StrictSubsetOrdering(Nat)
    BY <2>1, <2>3 DEF StrictSubsetOrdering
  <2> QED
    BY <2>4, <1>4, <1>5
<1> QED
  BY <1>6

\* Induction up to n, over a set.
LEMMA SetInduction ==
    ASSUME NEW n \in Nat, NEW S, 0 \in S, \A i \in 0..n : i < n /\ i \in S => i + 1 \in S
    PROVE  \A i \in 0..n : i \in S
<1> DEFINE Bad == {i \in 0..n : i \notin S}
<1> SUFFICES ASSUME Bad # {} PROVE FALSE
  OBVIOUS
<1>1. PICK m \in Bad : \A i \in Bad : m <= i
  <2>1. \A i \in Bad : i \in Nat
    OBVIOUS
  <2> HIDE DEF Bad
  <2> QED
    BY <2>1, Least
<1>2. m \in 0..n /\ m # 0
  BY <1>1
<1>3. m - 1 \in 0..n /\ m - 1 \in S /\ m - 1 < n
  BY <1>1, <1>2
<1>4. (m - 1) + 1 \in S
  BY <1>3
<1> QED
  BY <1>1, <1>2, <1>4

-----------------------------------------------------------------------------
(* The sum of what was taken.                                              *)

\* f is the running total of s.
Totals(s, f) ==
    f = [i \in 0..Len(s) |-> IF i = 0 THEN 0 ELSE f[i - 1] + s[i].took]

\* f is the running total of the first n.
Runs(s, f, n) ==
    \A i \in 0..n : f[i] = IF i = 0 THEN 0 ELSE f[i - 1] + s[i].took

\* The recursive definition has a solution for every sequence of taken asks.
LEMMA TotalsExist ==
    ASSUME NEW T, NEW s \in Seq(T), \A x \in T : x.took \in Int
    PROVE  \E f \in [0..Len(s) -> Int] : Totals(s, f)
<1> DEFINE Upto(n, f) ==
             f = [i \in 0..n |-> IF i = 0 THEN 0 ELSE f[i - 1] + s[i].took]
           Good == {n \in 0..Len(s) : \E f \in [0..n -> Int] : Upto(n, f)}
<1>1. 0 \in Good
  <2> DEFINE f == [i \in 0..0 |-> 0]
  <2>1. f \in [0..0 -> Int] /\ Upto(0, f)
    OBVIOUS
  <2>2. 0 \in 0..Len(s)
    OBVIOUS
  <2> QED
    BY <2>1, <2>2
<1>2. ASSUME NEW n \in 0..Len(s), n < Len(s), n \in Good
      PROVE  n + 1 \in Good
  <2>1. PICK f \in [0..n -> Int] : Upto(n, f)
    BY <1>2
  <2>2. n + 1 \in 0..Len(s) /\ s[n + 1].took \in Int
    BY <1>2
  <2> DEFINE g == [i \in 0..(n + 1) |-> IF i = n + 1 THEN f[n] + s[n + 1].took ELSE f[i]]
  <2>3. g \in [0..(n + 1) -> Int]
    BY <2>2
  <2>4. ASSUME NEW i \in 0..(n + 1)
        PROVE  g[i] = IF i = 0 THEN 0 ELSE g[i - 1] + s[i].took
    <3>1. CASE i = n + 1
      BY <3>1
    <3>2. CASE i \in 0..n
      BY <3>2, <2>1
    <3> QED
      BY <3>1, <3>2
  <2>5. Upto(n + 1, g)
    BY <2>3, <2>4
  <2> QED
    BY <2>2, <2>3, <2>5
<1>3. Len(s) \in Good
  <2>1. \A i \in 0..Len(s) : i < Len(s) /\ i \in Good => i + 1 \in Good
    BY <1>2
  <2>2. Len(s) \in Nat /\ Len(s) \in 0..Len(s)
    OBVIOUS
  <2> HIDE DEF Good
  <2> QED
    BY <1>1, <2>1, <2>2, SetInduction
<1> QED
  BY <1>3 DEF Totals

\* And only one.
LEMMA TotalsUnique ==
    ASSUME NEW s, NEW f, NEW g, NEW n \in Nat, Runs(s, f, n), Runs(s, g, n)
    PROVE  f[n] = g[n]
<1> DEFINE Good == {i \in 0..n : f[i] = g[i]}
<1>1. 0 \in Good
  BY DEF Runs
<1>2. ASSUME NEW i \in 0..n, i < n, i \in Good PROVE i + 1 \in Good
  <2>1. i + 1 \in 0..n /\ i + 1 # 0 /\ (i + 1) - 1 = i
    BY <1>2
  <2>2. f[i + 1] = f[i] + s[i + 1].took /\ g[i + 1] = g[i] + s[i + 1].took
    BY <2>1 DEF Runs
  <2> QED
    BY <1>2, <2>1, <2>2
<1>3. n \in Good
  <2>1. \A i \in 0..n : i < n /\ i \in Good => i + 1 \in Good
    BY <1>2
  <2>2. n \in Nat /\ n \in 0..n
    OBVIOUS
  <2> HIDE DEF Good
  <2> QED
    BY <1>1, <2>1, <2>2, SetInduction
<1> QED
  BY <1>3

\* Total is the last of the running totals.
LEMMA TotalIsLast ==
    ASSUME NEW T, NEW s \in Seq(T), \A x \in T : x.took \in Int
    PROVE  \E f \in [0..Len(s) -> Int] : Totals(s, f) /\ Total(s) = f[Len(s)]
<1>1. PICK f \in [0..Len(s) -> Int] : Totals(s, f)
  BY TotalsExist
<1> DEFINE c == CHOOSE h : h = [i \in 0..Len(s) |-> IF i = 0 THEN 0 ELSE h[i - 1] + s[i].took]
<1>2. Total(s) = c[Len(s)]
  BY DEF Total
<1>3. c = [i \in 0..Len(s) |-> IF i = 0 THEN 0 ELSE c[i - 1] + s[i].took]
  BY <1>1 DEF Totals
<1> HIDE DEF c
<1>4. Runs(s, c, Len(s)) /\ Runs(s, f, Len(s))
  BY <1>1, <1>3 DEF Totals, Runs
<1>5. Len(s) \in Nat
  OBVIOUS
<1>6. c[Len(s)] = f[Len(s)]
  BY <1>4, <1>5, TotalsUnique
<1> QED
  BY <1>1, <1>2, <1>6

\* The total of no asks is nothing, and another ask adds what was taken of it.
LEMMA TotalAdds ==
    /\ Total(<< >>) = 0
    /\ \A T : \A s \in Seq(T), x \in T :
          (\A y \in T : y.took \in Int) =>
              Total(Append(s, x)) = Total(s) + x.took /\ Total(s) \in Int
<1>1. Total(<< >>) = 0
  <2> DEFINE e == << >>
             T == {[took |-> 0]}
  <2>1. e \in Seq(T) /\ Len(e) = 0 /\ \A x \in T : x.took \in Int
    OBVIOUS
  <2> HIDE DEF e, T
  <2>2. PICK f \in [0..Len(e) -> Int] : Totals(e, f) /\ Total(e) = f[Len(e)]
    BY <2>1, TotalIsLast
  <2>3. 0 \in 0..Len(e)
    BY <2>1
  <2>4. f[0] = 0
    BY <2>2, <2>3 DEF Totals
  <2> QED
    BY <2>1, <2>2, <2>4 DEF e
<1>2. ASSUME NEW T, NEW s \in Seq(T), NEW x \in T, \A y \in T : y.took \in Int
      PROVE  Total(Append(s, x)) = Total(s) + x.took /\ Total(s) \in Int
  <2> DEFINE t == Append(s, x)
             n == Len(s)
  <2>1. /\ t \in Seq(T) /\ n \in Nat /\ Len(t) = n + 1
        /\ t[n + 1] = x
        /\ \A i \in 1..n : t[i] = s[i]
    OBVIOUS
  <2> HIDE DEF t
  <2>2. PICK f \in [0..n -> Int] : Totals(s, f) /\ Total(s) = f[n]
    BY <1>2, TotalIsLast
  <2>3. PICK g \in [0..(n + 1) -> Int] : Totals(t, g) /\ Total(t) = g[n + 1]
    BY <1>2, <2>1, TotalIsLast
  <2>4. Runs(s, f, n)
    BY <2>2 DEF Totals, Runs
  <2>5. \A i \in 0..(n + 1) : g[i] = IF i = 0 THEN 0 ELSE g[i - 1] + t[i].took
    BY <2>1, <2>3 DEF Totals
  <2>6. Runs(s, g, n)
    <3>1. \A i \in 0..n : i \in 0..(n + 1) /\ (i # 0 => i \in 1..n)
      BY <2>1
    <3> QED
      BY <2>1, <2>5, <3>1 DEF Runs
  <2>7. f[n] = g[n]
    BY <2>1, <2>4, <2>6, TotalsUnique
  <2>8. n + 1 \in 0..(n + 1) /\ n + 1 # 0 /\ (n + 1) - 1 = n /\ n \in 0..n
    BY <2>1
  <2>9. g[n + 1] = g[n] + x.took
    BY <2>1, <2>5, <2>8
  <2> QED
    BY <2>2, <2>3, <2>7, <2>8, <2>9 DEF t
<1> QED
  BY <1>1, <1>2

-----------------------------------------------------------------------------
(* The rows that are picked.                                               *)

\* Picked gives a sequence of rows at the places asked for.
LEMMA PickedRows ==
    ASSUME NEW T, NEW rows \in Seq(T), NEW I
    PROVE  Picked(rows, I) \in Seq({rows[i] : i \in DOMAIN rows \cap I})
<1> DEFINE V == {rows[i] : i \in DOMAIN rows \cap I}
           Step(f, i) == IF i = 0 THEN << >>
                         ELSE IF i \in I THEN Append(f[i - 1], rows[i]) ELSE f[i - 1]
           Upto(n, f) == f = [i \in 0..n |-> Step(f, i)]
           Good == {n \in 0..Len(rows) : \E f \in [0..n -> Seq(V)] : Upto(n, f)}
<1>0. /\ << >> \in Seq(V)
      /\ \A v \in Seq(V), i \in 1..Len(rows) : i \in I => Append(v, rows[i]) \in Seq(V)
  OBVIOUS
<1> HIDE DEF V
<1>1. 0 \in Good
  <2> DEFINE f == [i \in 0..0 |-> << >>]
  <2>1. f \in [0..0 -> Seq(V)] /\ Upto(0, f)
    BY <1>0
  <2>2. 0 \in 0..Len(rows)
    OBVIOUS
  <2> QED
    BY <2>1, <2>2
<1>2. ASSUME NEW n \in 0..Len(rows), n < Len(rows), n \in Good
      PROVE  n + 1 \in Good
  <2>1. PICK f \in [0..n -> Seq(V)] : Upto(n, f)
    BY <1>2
  <2>2. n + 1 \in 0..Len(rows) /\ n + 1 \in 1..Len(rows) /\ n \in 0..n
    BY <1>2
  <2> DEFINE new == IF n + 1 \in I THEN Append(f[n], rows[n + 1]) ELSE f[n]
             g == [i \in 0..(n + 1) |-> IF i = n + 1 THEN new ELSE f[i]]
  <2>3. new \in Seq(V)
    BY <1>0, <2>2
  <2>4. g \in [0..(n + 1) -> Seq(V)]
    <3> HIDE DEF new
    <3> QED
      BY <2>3
  <2>5. ASSUME NEW i \in 0..(n + 1) PROVE g[i] = Step(g, i)
    <3>1. CASE i = n + 1
      BY <3>1
    <3>2. CASE i \in 0..n
      <4>1. i # n + 1 /\ (i # 0 => i - 1 \in 0..n /\ i - 1 # n + 1)
        BY <3>2
      <4>2. g[i] = f[i] /\ (i # 0 => g[i - 1] = f[i - 1])
        BY <3>2, <4>1
      <4>3. f[i] = Step(f, i)
        BY <2>1, <3>2
      <4> QED
        BY <4>2, <4>3
    <3> QED
      BY <3>1, <3>2
  <2>6. Upto(n + 1, g)
    BY <2>5
  <2> QED
    BY <2>2, <2>4, <2>6
<1>3. Len(rows) \in Good
  <2>1. \A i \in 0..Len(rows) : i < Len(rows) /\ i \in Good => i + 1 \in Good
    BY <1>2
  <2>2. Len(rows) \in Nat /\ Len(rows) \in 0..Len(rows)
    OBVIOUS
  <2> HIDE DEF Good
  <2> QED
    BY <1>1, <2>1, <2>2, SetInduction
<1> DEFINE c == CHOOSE h : h = [i \in 0..Len(rows) |-> Step(h, i)]
<1>4. Picked(rows, I) = c[Len(rows)]
  BY DEF Picked
<1>5. c = [i \in 0..Len(rows) |-> Step(c, i)]
  <2>1. PICK f : f = [i \in 0..Len(rows) |-> Step(f, i)]
    BY <1>3
  <2>2. c = CHOOSE h : h = [i \in 0..Len(rows) |-> Step(h, i)]
    OBVIOUS
  <2> HIDE DEF c, Good, Step
  <2> QED
    BY <2>1, <2>2, Zenon
<1> HIDE DEF c
<1> DEFINE Fine == {n \in 0..Len(rows) : c[n] \in Seq(V)}
<1>6. 0 \in Fine
  <2>1. 0 \in 0..Len(rows)
    OBVIOUS
  <2>2. c[0] = << >>
    BY <1>5, <2>1
  <2> QED
    BY <1>0, <2>1, <2>2
<1>7. ASSUME NEW n \in 0..Len(rows), n < Len(rows), n \in Fine
      PROVE  n + 1 \in Fine
  <2>1. n + 1 \in 0..Len(rows) /\ n + 1 \in 1..Len(rows) /\ (n + 1) - 1 = n /\ n + 1 # 0
    BY <1>7
  <2>2. c[n + 1] = IF n + 1 \in I THEN Append(c[n], rows[n + 1]) ELSE c[n]
    BY <1>5, <2>1
  <2> QED
    BY <1>0, <1>7, <2>1, <2>2
<1>8. Len(rows) \in Fine
  <2>1. \A i \in 0..Len(rows) : i < Len(rows) /\ i \in Fine => i + 1 \in Fine
    BY <1>7
  <2>2. Len(rows) \in Nat /\ Len(rows) \in 0..Len(rows)
    OBVIOUS
  <2> HIDE DEF Fine
  <2> QED
    BY <1>6, <2>1, <2>2, SetInduction
<1> QED
  BY <1>4, <1>8 DEF V

-----------------------------------------------------------------------------
(* The arithmetic of the score.                                            *)

\* What a score may be, and the sum of the asks behind its cut.
Scores == 0..100
Percents == -100..900

\* The smaller and the larger of two numbers.
LEMMA MinTwo ==
    ASSUME NEW a \in Int, NEW b \in Int
    PROVE  Min({a, b}) = IF a <= b THEN a ELSE b
  BY DEF Min

LEMMA MaxTwo ==
    ASSUME NEW a \in Int, NEW b \in Int
    PROVE  Max({a, b}) = IF a <= b THEN b ELSE a
  BY DEF Max

\* Division rounds down.
LEMMA Quotient ==
    ASSUME NEW x \in Int, NEW y \in Nat \ {0}, NEW k \in Int
    PROVE  x \div y \in Int /\ (x \div y >= k <=> x >= k * y)
  OBVIOUS

\* Clamp cuts at both ends.
LEMMA ClampRange == \A p \in Int : Clamp(p) \in Percents
<1> SUFFICES ASSUME NEW p \in Int PROVE Clamp(p) \in -100..900
  BY Zenon DEF Percents
<1>1. Min({p, 900}) = IF p <= 900 THEN p ELSE 900
  BY MinTwo
<1>2. Max({-100, Min({p, 900})}) =
          IF -100 <= Min({p, 900}) THEN Min({p, 900}) ELSE -100
  BY <1>1, MaxTwo
<1> QED
  BY <1>1, <1>2 DEF Clamp

\* Half of the scale is the threshold of CRS, and the whole of it twice that.
OnScale(score, a, th) ==
    LET t == IF th <= 0 THEN 5 ELSE th
    IN  /\ score \in Scores
        /\ t < 100 => /\ score >= 50 <=> a >= t
                      /\ score = 100 <=> a >= 2 * t

\* Calibrate puts every anomaly and every threshold on that scale.
LEMMA CalibrateScale == \A a, th \in Int : OnScale(Calibrate(a, th), a, th)
<1> SUFFICES ASSUME NEW a \in Int, NEW th \in Int PROVE OnScale(Calibrate(a, th), a, th)
  OBVIOUS
<1> DEFINE t == IF th <= 0 THEN 5 ELSE th
<1>1. t \in Nat \ {0} /\ 2 * t \in Nat \ {0} /\ 100 * a + t \in Int
  OBVIOUS
<1> DEFINE q == (100 * a + t) \div (2 * t)
<1>2. /\ q \in Int
      /\ q >= 0 <=> 100 * a + t >= 0
      /\ q >= 50 <=> 100 * a + t >= 50 * (2 * t)
      /\ q >= 100 <=> 100 * a + t >= 100 * (2 * t)
  <2> HIDE DEF q
  <2>1. \A k \in Int : q \in Int /\ (q >= k <=> 100 * a + t >= k * (2 * t))
    BY <1>1, Quotient DEF q
  <2> QED
    BY <2>1, <1>1
<1>3. Calibrate(a, th) = IF a <= 0 THEN 0 ELSE Min({q, 100})
  BY DEF Calibrate
<1> HIDE DEF q, t
<1>4. Min({q, 100}) = IF q <= 100 THEN q ELSE 100
  BY <1>2, MinTwo
<1>5. /\ Calibrate(a, th) \in 0..100
      /\ t < 100 => /\ Calibrate(a, th) >= 50 <=> a >= t
                    /\ Calibrate(a, th) = 100 <=> a >= 2 * t
  BY <1>1, <1>2, <1>3, <1>4
<1> QED
  BY <1>5 DEF t, OnScale, Scores

\* Scaling keeps the score a percentage, a sum of zero leaves it, a positive one
\* does not lower it, a negative one does not raise it and -100 takes it away.
Moved(k, s, p) ==
    /\ k \in Scores
    /\ p >= 0 => k >= s
    /\ p <= 0 => k <= s
    /\ p = -100 => k = 0

\* ScaleScore moves every score so, by every sum that Clamp lets through.
LEMMA ScaleMoves ==
    \A s \in Scores, p \in Percents : \A k \in ScaleScore(s, p) : Moved(k, s, p)
<1> SUFFICES ASSUME NEW s \in Scores, NEW p \in Percents, NEW k \in ScaleScore(s, p)
             PROVE  Moved(k, s, p)
  BY Zenon
<1> USE DEF Scores, Percents
<1>1. CASE p = 0 \/ s <= 0
  <2>1. k = Max({s, 0})
    BY <1>1 DEF ScaleScore
  <2>2. k = s
    BY <2>1, MaxTwo
  <2> QED
    BY <1>1, <2>2 DEF Moved
<1>2. CASE ~(p = 0 \/ s <= 0)
  <2> DEFINE n == s * (100 + p)
  <2>1. /\ n \in Int /\ n >= 0
        /\ p >= 0 => n >= 100 * s
        /\ p <= 0 => n <= 100 * s
        /\ p = -100 => n = 0
    <3>1. n = 100 * s + s * p /\ s * p \in Int
      OBVIOUS
    <3>2. p >= 0 => s * p >= 0
      OBVIOUS
    <3>3. p <= 0 => s * p <= 0
      OBVIOUS
    <3>4. n >= 0
      OBVIOUS
    <3>5. p = -100 => n = 0
      OBVIOUS
    <3> HIDE DEF n
    <3> QED
      BY <3>1, <3>2, <3>3, <3>4, <3>5
  <2> DEFINE rounded == IF n % 100 = 50 THEN {n \div 100, n \div 100 + 1}
                                        ELSE {(n + 50) \div 100}
  <2>2. PICK r \in rounded : k = Min({Max({r, 0}), 100})
    <3>1. ScaleScore(s, p) = {Min({Max({j, 0}), 100}) : j \in rounded}
      BY <1>2, Zenon DEF ScaleScore
    <3> HIDE DEF rounded
    <3> QED
      BY <3>1
  <2> HIDE DEF n
  <2>3. /\ r \in Int /\ r >= 0
        /\ p >= 0 => r >= s
        /\ p <= 0 => r <= s
        /\ p = -100 => r = 0
    <3>1. CASE n % 100 = 50
      BY <2>1, <2>2, <3>1
    <3>2. CASE n % 100 # 50
      BY <2>1, <2>2, <3>2
    <3> QED
      BY <3>1, <3>2
  <2>4. Max({r, 0}) = r
    BY <2>3, MaxTwo
  <2>5. k = IF r <= 100 THEN r ELSE 100
    <3>1. Max({r, 0}) \in Int /\ 100 \in Int
      BY <2>3, <2>4
    <3>2. k = IF Max({r, 0}) <= 100 THEN Max({r, 0}) ELSE 100
      BY <2>2, <3>1, MinTwo
    <3> QED
      BY <2>4, <3>2
  <2> QED
    BY <2>3, <2>5 DEF Moved
<1> QED
  BY <1>1, <1>2

-----------------------------------------------------------------------------
(* The verdict, the engine's report, the objects and the verbs.            *)

\* r is no error, has an id and no actions yet, and is a score only as the anomaly
\* and the percentage give it.
Answers(r, o, p) ==
    \E v \in {"allow", "score", "deny", "redirect"}, k \in 0..100,
       c \in {"none", "CRS_ANOMALY", "CRS_RULE", "CRS_REDIRECT"} :
       /\ r = Reply(v, k, c)
       /\ v = "score" => k \in ScaleScore(Calibrate(o.anomaly, o.threshold), p)

\* What verdict.From may answer.
LEMMA FromForm ==
    ASSUME NEW o, o.anomaly \in Int, o.threshold \in Int,
           NEW p \in Percents, NEW r \in From(o, p)
    PROVE  Answers(r, o, p)
<1>1. CASE Disruptive(o.it)
  BY <1>1 DEF From, FromIntervention, Answers
<1>2. CASE /\ ~Disruptive(o.it)
           /\ \E m \in o.matched : Has(DenyIDs, m.id) \/ m.tags \cap DenyTags # {}
  <2>1. r = Reply("deny", 0, "CRS_RULE")
    BY <1>2, Zenon DEF From
  <2> QED
    BY <2>1 DEF Answers
<1>3. CASE /\ ~Disruptive(o.it)
           /\ ~(\E m \in o.matched : Has(DenyIDs, m.id) \/ m.tags \cap DenyTags # {})
  <2>1. r \in IF o.anomaly > 0
              THEN {WithScore(s) : s \in ScaleScore(Calibrate(o.anomaly, o.threshold), p)}
              ELSE {Reply("allow", 0, "none")}
    BY <1>3, Zenon DEF From
  <2>2. CASE o.anomaly > 0
    <3>1. PICK k \in ScaleScore(Calibrate(o.anomaly, o.threshold), p) : r = WithScore(k)
      BY <2>1, <2>2
    <3>2. Calibrate(o.anomaly, o.threshold) \in Scores
      <4>1. OnScale(Calibrate(o.anomaly, o.threshold), o.anomaly, o.threshold)
        BY CalibrateScale, Zenon
      <4> QED
        BY <4>1 DEF OnScale
    <3>3. k \in 0..100
      <4>1. Moved(k, Calibrate(o.anomaly, o.threshold), p)
        BY <3>1, <3>2, ScaleMoves, Zenon
      <4> QED
        BY <4>1 DEF Moved, Scores
    <3>4. r = Reply("score", k, "CRS_ANOMALY")
      BY <3>1, <3>3 DEF WithScore
    <3> QED
      BY <3>1, <3>3, <3>4 DEF Answers
  <2>3. CASE ~(o.anomaly > 0)
    BY <2>1, <2>3 DEF Answers
  <2> QED
    BY <2>2, <2>3
<1> QED
  BY <1>1, <1>2, <1>3

\* A call reports numbers, and only matches of its own phases.
LEMMA ReportedForm ==
    ASSUME NEW c, NEW t \in Found
    PROVE  /\ Reported(c, t).anomaly \in Int
           /\ Reported(c, t).threshold \in Int
           /\ \A m \in Reported(c, t).matched :
                 m.phase \in IF c.phase = "response" THEN 3..4 ELSE 1..2
<1> DEFINE Names == {"blocking_in", "in", "detection_in", "limit_in",
                     "blocking_out", "out", "detection_out", "limit_out"}
<1>1. ASSUME NEW name \in Names PROVE IntOf(t, name) \in Int
  <2>1. name \in DOMAIN t.vars => t.vars[name] \in Seq(Int)
    BY JudgeAssumption
  <2>2. CASE name \in DOMAIN t.vars /\ t.vars[name] # << >>
    <3>1. t.vars[name][1] \in Int
      BY <2>1, <2>2
    <3> QED
      BY <2>2, <3>1 DEF IntOf
  <2>3. CASE ~(name \in DOMAIN t.vars /\ t.vars[name] # << >>)
    BY <2>3 DEF IntOf, Junk
  <2> QED
    BY <2>2, <2>3
<1>2. ASSUME NEW a \in Names, NEW b \in Names, NEW d \in Names, NEW limit \in Names
      PROVE  /\ AnomalyOf(t, <<a, b, d>>, limit).score \in Int
             /\ AnomalyOf(t, <<a, b, d>>, limit).threshold \in Int
  <2> DEFINE names == <<a, b, d>>
             set == {i \in DOMAIN names : IntOf(t, names[i]) # Junk}
  <2>1. \A i \in 1..3 : names[i] \in Names
    OBVIOUS
  <2>2. set # {} => Min(set) \in 1..3
    <3>1. \A i \in set : i \in Nat /\ i \in 1..3
      OBVIOUS
    <3> HIDE DEF set
    <3>2. set # {} => \E m \in set : \A n \in set : m <= n
      BY <3>1, Least
    <3> QED
      BY <3>1, <3>2 DEF Min
  <2>3. set # {} => IntOf(t, names[Min(set)]) \in Int
    <3> HIDE DEF set, names
    <3> QED
      BY <1>1, <2>1, <2>2
  <2>4. IntOf(t, limit) \in Int
    BY <1>1
  <2>5. /\ AnomalyOf(t, names, limit).score =
              IF set = {} THEN 0 ELSE IntOf(t, names[Min(set)])
        /\ AnomalyOf(t, names, limit).threshold =
              IF IntOf(t, limit) = Junk THEN 0 ELSE IntOf(t, limit)
    BY DEF AnomalyOf
  <2> HIDE DEF set, names
  <2>6. /\ AnomalyOf(t, names, limit).score \in Int
        /\ AnomalyOf(t, names, limit).threshold \in Int
    BY <2>3, <2>4, <2>5
  <2> QED
    BY <2>6 DEF names
<1>3. CASE c.phase = "response"
  <2> DEFINE a == AnomalyOf(t, <<"blocking_out", "out", "detection_out">>, "limit_out")
  <2>1. a.score \in Int /\ a.threshold \in Int
    <3>1. /\ "blocking_out" \in Names /\ "out" \in Names /\ "detection_out" \in Names
          /\ "limit_out" \in Names
      OBVIOUS
    <3> HIDE DEF Names
    <3> QED
      BY <1>2, <3>1, Zenon
  <2>2. Reported(c, t) = Outcome(t, 3..4, FirstOf(t.its[3], t.its[4]), a)
    BY <1>3 DEF Reported, Outbound
  <2> HIDE DEF a
  <2> QED
    BY <1>3, <2>1, <2>2 DEF Outcome
<1>4. CASE c.phase # "response"
  <2> DEFINE a == AnomalyOf(t, <<"blocking_in", "in", "detection_in">>, "limit_in")
  <2>1. a.score \in Int /\ a.threshold \in Int
    <3>1. /\ "blocking_in" \in Names /\ "in" \in Names /\ "detection_in" \in Names
          /\ "limit_in" \in Names
      OBVIOUS
    <3> HIDE DEF Names
    <3> QED
      BY <1>2, <3>1, Zenon
  <2>2. Reported(c, t) = Outcome(t, 1..2, FirstOf(t.its[1], t.its[2]), a)
    BY <1>4 DEF Reported, Inbound
  <2> HIDE DEF a
  <2> QED
    BY <1>4, <2>1, <2>2 DEF Outcome
<1> QED
  BY <1>3, <1>4

\* A body that is available is empty, or has the digest that was recorded.
LEMMA Checked ==
    ASSUME NEW db, NEW loc, NEW raw
    PROVE  LET b == Finish(db, loc, raw)
           IN  Available(b) => Want(loc) \in {NoDigest, Digest(b.data)}
  BY DEF Finish, Available, Lost, Empty

\* An object that is not a stored one is empty or lost.
LEMMA Loaded ==
    ASSUME NEW db, NEW loc, loc.form \in {"nil", "blank", "lost", "stored"}
    PROVE  /\ Seen(Load(db, loc)) # NoText =>
                 Want(loc) \in {NoDigest, Digest(Seen(Load(db, loc)))}
           /\ loc.form = "stored" /\ "GET" \in db.failing => ~Available(Load(db, loc))
<1>1. CASE loc.form \in {"nil", "blank"}
  BY <1>1 DEF Load, Seen, Available, Empty
<1>2. CASE loc.form = "lost"
  BY <1>2 DEF Load, Seen, Available, Lost, Empty
<1>3. CASE loc.form = "stored"
  <2>1. Load(db, loc) = IF db.configured THEN Fetched(db, loc, "GET")
                                         ELSE Lost("store_unconfigured")
    BY <1>3 DEF Load
  <2> DEFINE Whys == {"store_unconfigured", "unknown_driver", "store_error"}
  <2>2. \A why \in Whys : ~Available(Lost(why)) /\ Seen(Lost(why)) = NoText
    BY DEF Available, Lost, Empty, Seen
  <2>3. \/ \E why \in Whys : Load(db, loc) = Lost(why)
        \/ /\ Load(db, loc) = Finish(db, loc, db.rows[loc.key])
           /\ "GET" \notin db.failing
    <3>1. \/ Load(db, loc) = Lost("store_unconfigured")
          \/ Load(db, loc) = Lost("unknown_driver")
          \/ Load(db, loc) = Lost("store_error")
          \/ /\ Load(db, loc) = Finish(db, loc, db.rows[loc.key])
             /\ "GET" \notin db.failing
      BY <2>1, Zenon DEF Fetched
    <3> QED
      BY <3>1
  <2> QED
    BY <2>2, <2>3, Checked DEF Seen
<1> QED
  BY <1>1, <1>2, <1>3

\* Every verb has a first axis.
LEMMA VerbsHaveAxes ==
    \A v \in DOMAIN Verbs : Verbs[v][1] \in Range(Verbs[v])
<1> SUFFICES ASSUME NEW v \in DOMAIN Verbs PROVE 1 \in DOMAIN Verbs[v]
  BY DEF Range
<1>1. v \in {"challenge", "threshold", "skip", "mutate", "reauth", "note", "active",
             "passive", "off", "vote", "audit", "archive", "mark", "score"}
  BY DEF Verbs
<1> QED
  BY <1>1 DEF Verbs

\* An ask that loads has an axis its verb takes.
LEMMA AxisTaken == \A o : ValidAsk(o) => Axis(o) \in Range(Verbs[o.do])
<1> SUFFICES ASSUME NEW o, ValidAsk(o) PROVE Axis(o) \in Range(Verbs[o.do])
  OBVIOUS
<1>1. CASE o.apply # ""
  BY <1>1 DEF ValidAsk, Axis
<1>2. CASE o.apply = ""
  <2>1. o.do \in DOMAIN Verbs /\ (Len(Verbs[o.do]) = 1 \/ o.do \in AuditVerbs)
    BY <1>2 DEF ValidAsk
  <2>2. Axis(o) = Verbs[o.do][1]
    BY <1>2, <2>1 DEF Axis
  <2> QED
    BY <2>1, <2>2, VerbsHaveAxes
<1> QED
  BY <1>1, <1>2

-----------------------------------------------------------------------------
(* The invariant.                                                          *)

Early == {"received", "select", "rules", "deliver", "load", "loaded"}
Rated == {"fire", "overload", "write"}
Ended == {"send", "audit", "done"}

Verdicts == {"none", "allow", "score", "deny", "redirect", "error"}

\* The rows any generation may have.
AllRows == UNION {Range(p.rows) : p \in Policies}

\* An ask as it is noted, with what was taken of it.
Noted == [ask : Asks, took : Int, applied : BOOLEAN]

IsReply(r) ==
    r = [verdict |-> r.verdict, score |-> r.score, code |-> r.code, rid |-> r.rid,
         actions |-> r.actions]

IsWire(w) ==
    /\ w = [known |-> w.known, mute |-> w.mute, panic |-> w.panic, sent |-> w.sent,
            events |-> w.events]
    /\ w.known \in BOOLEAN /\ w.mute \in BOOLEAN /\ w.panic \in BOOLEAN

\* The shape of the state; whatever generation is read has loaded, and what the
\* engine reports is of the phases of the call.
Shape ==
    /\ policy \in Policies /\ ValidPolicy(policy)
    /\ call \in CallForms \cup {NoCall}
    /\ stage \in Stages
    /\ rules \in Seq(Range(rules))
    /\ asks \in Seq(Noted)
    /\ ask \in [skip : BOOLEAN, percent : Int]
    /\ out.anomaly \in Int /\ out.threshold \in Int
    /\ \A m \in out.matched : m.phase \in IF call.phase = "response" THEN 3..4 ELSE 1..2
    /\ IsReply(reply) /\ reply.verdict \in Verdicts /\ reply.score \in 0..100
    /\ failed \in BOOLEAN
    /\ IsWire(wire)

\* What a stage says of the call and of the reply so far.
Control ==
    /\ stage \in Early => reply = NoReply
    /\ stage = "received" => call = NoCall /\ out = NoOut
    /\ call = NoCall => stage \in {"received"} \cup Ended
    /\ stage = "shed" => call.shed = "limit" /\ call.phase = "request"
    /\ stage \in (Early \ {"received"}) \cup {"fire", "overload"} => call.shed = "no"
    /\ stage = "overload" => call.phase = "request"
    /\ stage = "shed" => reply.verdict = "error"
    /\ stage \in {"fire", "overload"} => reply.verdict # "error"
    /\ stage = "write" => (reply.verdict = "error" <=> call.shed # "no")
    /\ stage \in Rated \cup {"shed"} => reply.actions = << >>
    /\ stage \in Ended /\ reply.verdict = "error" /\ call.shed = "no" => reply.actions = << >>
    /\ stage \notin Early /\ call # NoCall => reply.rid
    /\ failed => stage \in {"write"} \cup Ended
    /\ failed /\ stage \in Ended => reply.verdict = "error"
    /\ wire.panic => /\ stage \in Ended
                     /\ reply = Fallback("MODSEC_INTERNAL_ERROR", reply.rid)
                     /\ ~wire.known

\* The loaded objects are those of a load of this call, until the engine or an
\* error has done with them.
Objects ==
    /\ stage \notin {"loaded"} \cup Ended => load.code = "none"
    /\ stage = "loaded" =>
          \E l \in Loads :
              load = [from |-> <<l>>, got |-> LoadMany(l.db, Wanted(call, l)),
                      code |-> BodyError(LoadMany(l.db, Wanted(call, l))[BodyAt(call)])]
    /\ load.code # "none" /\ stage \in Ended => reply.verdict = "error"

\* The asks are still to come.
NotAsked == stage \in {"received", "shed", "rules"} \/ (stage = "select" /\ call.phase # "response")

\* The sum runs while the asks are delivered, and is cut once, behind the last.
Asked ==
    /\ NotAsked => asks = << >> /\ ask = NoAsk
    /\ stage = "deliver" => ask.percent = Total(asks)
    /\ stage \in {"load", "loaded"} \cup Rated \/ (stage = "select" /\ call.phase = "response") =>
          ask.percent = Clamp(Total(asks))
    /\ stage # "deliver" /\ ~wire.panic => ask.percent \in Percents
    /\ TakenIsApplied
    /\ \A i \in DOMAIN asks : asks[i].applied /\ asks[i].ask.do = "skip" => ask.skip
    /\ ask.skip /\ ~wire.panic =>
          stage = "deliver" \/ (stage \in Ended /\ reply.code = "MODSEC_SKIPPED")

\* A score is one that the anomaly and the asks scale to.
Scored ==
    /\ reply.code # "MODSEC_SCORE_RANGE"
    /\ reply.verdict = "score" =>
          reply.score \in ScaleScore(Calibrate(out.anomaly, out.threshold), ask.percent)

\* The rows that fired are rows that loaded, each for a reason the call has, and
\* the actions of the reply are asks of such rows.
Meant(o) ==
    /\ o.do # "" => ValidAsk(o)
    /\ o.on = "overload" => call.phase = "request"
    /\ o.on = "rule" => Hit(o, out.matched)
    /\ call.shed # "no" => o.on = "overload"

ActionsMeant ==
    \A i \in DOMAIN reply.actions :
        LET a == reply.actions[i]
        IN  /\ a.axis \in Range(Verbs[a.do])
            /\ a.do \in ControlVerbs => a.to
            /\ reply.verdict \in {"deny", "redirect"} =>
                  a.do \in RecordVerbs \/ a.on \in {"rule", "overload"}

Fired ==
    /\ stage \notin {"overload", "write"} \cup Ended => fired = << >>
    /\ fired \in Seq(AllRows)
    /\ \A i \in DOMAIN fired : Meant(fired[i])
    /\ stage \in {"overload", "write"} =>
          \A i \in DOMAIN fired :
              fired[i].on \in {"rule", "overload"} \/ Matches(fired[i], reply)
    /\ ActionsMeant

\* What was published: the reply, and before it only what was published of a
\* call whose audit panicked.
Published ==
    /\ stage \notin Ended => wire.sent = << >>
    /\ stage = "send" => \/ wire.sent = << >>
                         \/ wire.panic /\ wire.sent = <<wire.sent[1]>>
    /\ stage \in {"audit", "done"} =>
          \/ wire.sent = << >> /\ wire.mute /\ stage = "done"
          \/ ~wire.mute /\ wire.sent = <<reply>>
          \/ ~wire.mute /\ wire.panic /\ wire.sent = <<wire.sent[1], reply>>
    /\ stage # "done" => ~wire.mute /\ wire.events = << >>
    /\ wire.events # << >> => ~wire.panic /\ wire.events = wire.sent
    /\ \A i \in DOMAIN wire.sent : call # NoCall => wire.sent[i].rid

Inv ==
    /\ Shape
    /\ Control
    /\ Objects
    /\ Asked
    /\ Scored
    /\ Fired
    /\ Published

-----------------------------------------------------------------------------
(* Every step keeps every part of the invariant.                           *)

\* What the engine's step leaves: numbers, matches of the call's phases, and a
\* reply of verdict.From.
LEMMA EngineReply ==
    ASSUME Inv, NEW t \in Found, Engine(t)
    PROVE  /\ out'.anomaly \in Int /\ out'.threshold \in Int
           /\ \A m \in out'.matched : m.phase \in IF call.phase = "response" THEN 3..4 ELSE 1..2
           /\ Answers(reply', out', ask.percent)
<1> DEFINE o == out'
           r == reply'
           p == ask.percent
<1>1. o = Reported(call, t) /\ r \in From(o, p) /\ stage = "loaded"
  BY DEF Engine
<1> HIDE DEF o, r, p
<1>2. /\ o.anomaly \in Int /\ o.threshold \in Int
      /\ \A m \in o.matched : m.phase \in IF call.phase = "response" THEN 3..4 ELSE 1..2
  BY <1>1, ReportedForm
<1>3. p \in Percents
  BY <1>1 DEF p, Inv, Control, Asked, Ended
<1>4. Answers(r, o, p)
  BY <1>1, <1>2, <1>3, FromForm
<1> QED
  BY <1>2, <1>4 DEF o, r, p

\* The rules that take an ask are counted.
LEMMA TakersCount ==
    ASSUME rules \in Seq(Range(rules)), NEW a \in Asks
    PROVE  Takers(a) \in Nat /\ Took(a) \in Int /\ (Took(a) # 0 => Takers(a) > 0)
<1>1. IsFiniteSet(DOMAIN rules)
  <2>1. DOMAIN rules = 1..Len(rules) /\ Len(rules) \in Nat
    OBVIOUS
  <2> QED
    BY <2>1, FS_Interval
<1> DEFINE I == {i \in DOMAIN rules : Takes(rules[i], a)}
<1>2. IsFiniteSet(I)
  BY <1>1, FS_Subset
<1> HIDE DEF I
<1>3. Cardinality(I) \in Nat
  BY <1>2, FS_CardinalityType
<1>4. Takers(a) \in Nat
  BY <1>3 DEF Takers, I
<1>5. a.delta \in Int
  BY JudgeAssumption
<1>6. Took(a) = IF a.do = "threshold" THEN Takers(a) * a.delta ELSE 0
  BY DEF Took
<1>7. Took(a) \in Int
  BY <1>4, <1>5, <1>6
<1>8. Takers(a) = 0 => Took(a) = 0
  BY <1>5, <1>6
<1> QED
  BY <1>4, <1>7, <1>8

\* The shape of the state.
LEMMA ShapeStep ==
    ASSUME Inv, [Next]_vars
    PROVE  Shape'
<1>1. CASE UNCHANGED vars
  BY <1>1 DEF vars, Inv, Shape, Control, IsReply, IsWire, Verdicts, NoReply, NoCall,
     NoOut, Early, Rated, Ended, Stages
<1>2. ASSUME NEW p \in Policies, Swap(p) PROVE Shape'
  BY <1>2 DEF Swap, evalVars, Inv, Shape, Control, IsReply, IsWire, Verdicts, NoReply,
     NoCall, NoOut, Early, Rated, Ended, Stages
<1>3. ASSUME NEW m \in Messages, Receive(m) PROVE Shape'
  <2>1. IsReply(reply') /\ reply'.verdict \in Verdicts /\ reply'.score \in 0..100
    <3>1. CASE reply' = reply
      BY <3>1 DEF Inv, Shape, IsReply
    <3>2. CASE reply' = Fallback("MODSEC_MALFORMED_REQUEST", m.rid)
      BY <3>2 DEF Fallback, Reply, IsReply, Verdicts
    <3>3. CASE reply' = Reply("error", 0, "MODSEC_UNSUPPORTED_VERSION")
      BY <3>3 DEF Reply, IsReply, Verdicts
    <3> QED
      BY <1>3, <3>1, <3>2, <3>3 DEF Receive, Send
  <2>2. IsWire(wire')
    BY <1>3 DEF Receive, Inv, Shape, IsWire
  <2>3. stage' \in Stages /\ UNCHANGED <<policy, call, evalVars>>
    BY <1>3 DEF Receive, Send, Stages
  <2> QED
    BY <2>1, <2>2, <2>3 DEF Inv, Shape, evalVars
<1>4. ASSUME NEW c \in CallForms, Begin(c) PROVE Shape'
  <2>1. IsReply(reply') /\ reply'.verdict \in Verdicts /\ reply'.score \in 0..100
    BY <1>4 DEF Begin, Shed, Inspect, Reply, Inv, Shape, IsReply, Verdicts
  <2>2. IsWire(wire')
    BY <1>4 DEF Begin, Inv, Shape, IsWire
  <2>3. /\ stage' \in Stages /\ call' \in CallForms /\ UNCHANGED <<policy, evalVars>>
        /\ out.matched = {}
    BY <1>4 DEF Begin, Shed, Inspect, Stages, Inv, Control, NoOut
  <2> QED
    BY <2>1, <2>2, <2>3 DEF Inv, Shape, evalVars
<1>5. CASE ShedRows
  BY <1>5 DEF ShedRows, evalVars, Inv, Shape, Control, IsReply, IsWire, Verdicts,
     NoReply, NoCall, NoOut, Early, Rated, Ended, Stages
<1>6. CASE Select
  BY <1>6 DEF Select, evalVars, Send, Reply, Inv, Shape, Control, IsReply, IsWire,
     Verdicts, NoReply, NoCall, NoOut, Early, Rated, Ended, Stages
<1>7. CASE ReadRules
  <2>1. rules' \in Seq(Range(rules'))
    <3>1. policy.rules \in Seq(Range(policy.rules))
      BY JudgeAssumption DEF Inv, Shape
    <3>2. << >> \in Seq(Range(<< >>))
      OBVIOUS
    <3> QED
      BY <1>7, <3>1, <3>2, Zenon DEF ReadRules, RulesOf
  <2> QED
    BY <1>7, <2>1 DEF ReadRules, Inv, Shape, Stages
<1>8. ASSUME NEW a \in Asks, Deliver(a) PROVE Shape'
  <2>1. Took(a) \in Int /\ (Takers(a) > 0) \in BOOLEAN
    BY TakersCount DEF Inv, Shape
  <2>2. [ask |-> a, took |-> Took(a), applied |-> Takers(a) > 0] \in Noted
    BY <2>1 DEF Noted
  <2>3. asks' \in Seq(Noted)
    BY <1>8, <2>2 DEF Deliver, Inv, Shape
  <2>4. ask' \in [skip : BOOLEAN, percent : Int]
    BY <1>8, <2>1 DEF Deliver, Inv, Shape
  <2> QED
    BY <1>8, <2>3, <2>4 DEF Deliver, Inv, Shape
<1>9. CASE Delivered
  <2>1. IsReply(reply') /\ reply'.verdict \in Verdicts /\ reply'.score \in 0..100
    BY <1>9 DEF Delivered, Send, Reply, Inv, Shape, IsReply, Verdicts
  <2>2. ask.percent \in Int /\ Clamp(ask.percent) \in Int
    <3>1. ask.percent \in Int
      BY DEF Inv, Shape
    <3>2. Clamp(ask.percent) \in Percents
      BY <3>1, ClampRange, Zenon
    <3> QED
      BY <3>1, <3>2 DEF Percents
  <2>3. ask' \in [skip : BOOLEAN, percent : Int]
    BY <1>9, <2>2 DEF Delivered, Inv, Shape
  <2>4. stage' \in Stages
    BY <1>9 DEF Delivered, Send, Stages
  <2> QED
    BY <1>9, <2>1, <2>3, <2>4 DEF Delivered, Inv, Shape
<1>10. ASSUME NEW l \in Loads, LoadObjects(l) PROVE Shape'
  BY <1>10 DEF LoadObjects, evalVars, Inv, Shape, Control, IsReply, IsWire, Verdicts,
     NoReply, NoCall, NoOut, Early, Rated, Ended, Stages
<1>11. CASE Fail
  BY <1>11 DEF Fail, evalVars, Send, Reply, Inv, Shape, Control, IsReply, IsWire,
     Verdicts, NoReply, NoCall, NoOut, Early, Rated, Ended, Stages
<1>12. ASSUME NEW t \in Found, Engine(t) PROVE Shape'
  <2>1. PICK v \in {"allow", "score", "deny", "redirect"}, k \in 0..100,
             c \in {"none", "CRS_ANOMALY", "CRS_RULE", "CRS_REDIRECT"} :
             /\ reply' = Reply(v, k, c)
             /\ v = "score" =>
                   k \in ScaleScore(Calibrate(out'.anomaly, out'.threshold), ask.percent)
    BY <1>12, EngineReply DEF Answers
  <2>2. /\ out'.anomaly \in Int /\ out'.threshold \in Int
        /\ \A m \in out'.matched : m.phase \in IF call.phase = "response" THEN 3..4 ELSE 1..2
    BY <1>12, EngineReply
  <2>3. /\ stage = "loaded" /\ stage' = "fire" /\ load' = NoLoad
        /\ UNCHANGED <<policy, call, rules, asks, ask, fired, bans, failed, wire>>
    BY <1>12 DEF Engine
  <2> QED
    BY <2>1, <2>2, <2>3 DEF Reply, Inv, Shape, Control, IsReply, IsWire, Verdicts,
       NoReply, NoCall, NoOut, Early, Rated, Ended, Stages
<1>13. CASE FireRows
  BY <1>13 DEF FireRows, evalVars, Inv, Shape, Control, IsReply, IsWire, Verdicts,
     NoReply, NoCall, NoOut, Early, Rated, Ended, Stages
<1>14. CASE MoreRows
  BY <1>14 DEF MoreRows, evalVars, Inv, Shape, Control, IsReply, IsWire, Verdicts,
     NoReply, NoCall, NoOut, Early, Rated, Ended, Stages
<1>15. CASE WriteList
  BY <1>15 DEF WriteList, evalVars, Inv, Shape, Control, IsReply, IsWire, Verdicts,
     NoReply, NoCall, NoOut, Early, Rated, Ended, Stages
<1>16. CASE Written
  <2>1. IsReply(reply') /\ reply'.verdict \in Verdicts /\ reply'.score \in 0..100
    <3>1. CASE reply' = Reply("error", 0, "MODSEC_GEO_UNAVAILABLE")
      BY <3>1 DEF Reply, IsReply, Verdicts
    <3>2. CASE reply' = [reply EXCEPT !.actions = Actions(fired)]
      BY <3>2 DEF Inv, Shape, IsReply
    <3> QED
      BY <1>16, <3>1, <3>2 DEF Written, Send
  <2>2. stage' \in Stages /\ UNCHANGED <<policy, call, evalVars, wire>>
    BY <1>16 DEF Written, Send, Stages
  <2> QED
    BY <2>1, <2>2 DEF Inv, Shape, evalVars
<1>17. CASE PublishReply
  BY <1>17 DEF PublishReply, evalVars, Inv, Shape, Control, IsReply, IsWire, Verdicts,
     NoReply, NoCall, NoOut, Early, Rated, Ended, Stages
<1>18. CASE AddEvent
  BY <1>18 DEF AddEvent, evalVars, Inv, Shape, Control, IsReply, IsWire, Verdicts,
     NoReply, NoCall, NoOut, Early, Rated, Ended, Stages
<1>19. CASE Recover
  <2>1. IsReply(reply') /\ reply'.verdict \in Verdicts /\ reply'.score \in 0..100
    BY <1>19 DEF Recover, Send, Fallback, Reply, IsReply, Verdicts
  <2>2. IsWire(wire')
    BY <1>19 DEF Recover, Inv, Shape, IsWire
  <2>3. /\ stage' \in Stages
        /\ UNCHANGED <<policy, call, rules, asks, ask, out, fired, bans, failed>>
    BY <1>19 DEF Recover, Send, Stages
  <2> QED
    BY <2>1, <2>2, <2>3 DEF Inv, Shape
<1> QED
  BY <1>1, <1>2, <1>3, <1>4, <1>5, <1>6, <1>7, <1>8, <1>9, <1>10, <1>11, <1>12, <1>13,
     <1>14, <1>15, <1>16, <1>17, <1>18, <1>19 DEF Next

\* What a stage says of the call.
LEMMA ControlStep ==
    ASSUME Inv, [Next]_vars
    PROVE  Control'
<1>1. CASE UNCHANGED vars
  BY <1>1 DEF vars, Inv, Shape, Control, IsReply, IsWire, Verdicts, NoReply, NoCall,
     CallForms, Early, Rated, Ended, Stages
<1>2. ASSUME NEW p \in Policies, Swap(p) PROVE Control'
  BY <1>2 DEF Swap, evalVars, Inv, Shape, Control, IsReply, IsWire, Verdicts, NoReply,
     NoCall, CallForms, Early, Rated, Ended, Stages
<1>3. ASSUME NEW m \in Messages, Receive(m) PROVE Control'
  <2>1. CASE stage' = "done"
    BY <1>3, <2>1 DEF Receive, evalVars, Send, Reply, Fallback, Inv, Shape, Control,
       IsReply, IsWire, Verdicts, NoReply, NoCall, CallForms, Early, Rated, Ended,
       Stages
  <2>2. CASE stage' # "done"
    <3>1. \/ reply' = Fallback("MODSEC_MALFORMED_REQUEST", m.rid) /\ wire' = wire
          \/ /\ reply' = Reply("error", 0, "MODSEC_UNSUPPORTED_VERSION")
             /\ wire' = [wire EXCEPT !.known = TRUE]
      BY <1>3, <2>2 DEF Receive, Send
    <3>2. stage = "received" /\ stage' = "send" /\ UNCHANGED <<policy, call, evalVars>>
      BY <1>3, <2>2 DEF Receive, Send
    <3>3. \E code, rid :
             reply' = [verdict |-> "error", score |-> 0, code |-> code, rid |-> rid,
                       actions |-> << >>] /\ code # "MODSEC_SCORE_RANGE"
      BY <3>1 DEF Fallback, Reply
    <3> QED
      BY <3>1, <3>2, <3>3 DEF evalVars, Inv, Shape, Control, IsReply, IsWire, Verdicts,
         NoReply, NoCall, CallForms, Early, Rated, Ended, Stages
  <2> QED
    BY <2>1, <2>2
<1>4. ASSUME NEW c \in CallForms, Begin(c) PROVE Control'
  BY <1>4 DEF Begin, evalVars, Shed, Inspect, Reply, Inv, Shape, Control, IsReply,
     IsWire, Verdicts, NoReply, NoCall, CallForms, Early, Rated, Ended, Stages
<1>5. CASE ShedRows
  BY <1>5 DEF ShedRows, evalVars, Inv, Shape, Control, IsReply, IsWire, Verdicts,
     NoReply, NoCall, CallForms, Early, Rated, Ended, Stages
<1>6. CASE Select
  BY <1>6 DEF Select, evalVars, Send, Reply, Inv, Shape, Control, IsReply, IsWire,
     Verdicts, NoReply, NoCall, CallForms, Early, Rated, Ended, Stages
<1>7. CASE ReadRules
  BY <1>7 DEF ReadRules, evalVars, Inv, Shape, Control, IsReply, IsWire, Verdicts,
     NoReply, NoCall, CallForms, Early, Rated, Ended, Stages
<1>8. ASSUME NEW a \in Asks, Deliver(a) PROVE Control'
  BY <1>8 DEF Deliver, evalVars, Inv, Shape, Control, IsReply, IsWire, Verdicts,
     NoReply, NoCall, CallForms, Early, Rated, Ended, Stages
<1>9. CASE Delivered
  BY <1>9 DEF Delivered, evalVars, Send, Reply, Inv, Shape, Control, IsReply, IsWire,
     Verdicts, NoReply, NoCall, CallForms, Early, Rated, Ended, Stages
<1>10. ASSUME NEW l \in Loads, LoadObjects(l) PROVE Control'
  BY <1>10 DEF LoadObjects, evalVars, Inv, Shape, Control, IsReply, IsWire, Verdicts,
     NoReply, NoCall, CallForms, Early, Rated, Ended, Stages
<1>11. CASE Fail
  BY <1>11 DEF Fail, evalVars, Send, Reply, Inv, Shape, Control, IsReply, IsWire,
     Verdicts, NoReply, NoCall, CallForms, Early, Rated, Ended, Stages
<1>12. ASSUME NEW t \in Found, Engine(t) PROVE Control'
  <2>1. PICK v \in {"allow", "score", "deny", "redirect"}, k \in 0..100,
             c \in {"none", "CRS_ANOMALY", "CRS_RULE", "CRS_REDIRECT"} :
             /\ reply' = Reply(v, k, c)
             /\ v = "score" =>
                   k \in ScaleScore(Calibrate(out'.anomaly, out'.threshold), ask.percent)
    BY <1>12, EngineReply DEF Answers
  <2>2. /\ out'.anomaly \in Int /\ out'.threshold \in Int
        /\ \A m \in out'.matched : m.phase \in IF call.phase = "response" THEN 3..4 ELSE 1..2
    BY <1>12, EngineReply
  <2>3. /\ stage = "loaded" /\ stage' = "fire" /\ load' = NoLoad
        /\ UNCHANGED <<policy, call, rules, asks, ask, fired, bans, failed, wire>>
    BY <1>12 DEF Engine
  <2> QED
    BY <2>1, <2>2, <2>3 DEF Reply, Inv, Shape, Control, IsReply, IsWire, Verdicts,
       NoReply, NoCall, CallForms, Early, Rated, Ended, Stages
<1>13. CASE FireRows
  BY <1>13 DEF FireRows, evalVars, Inv, Shape, Control, IsReply, IsWire, Verdicts,
     NoReply, NoCall, CallForms, Early, Rated, Ended, Stages
<1>14. CASE MoreRows
  BY <1>14 DEF MoreRows, evalVars, Inv, Shape, Control, IsReply, IsWire, Verdicts,
     NoReply, NoCall, CallForms, Early, Rated, Ended, Stages
<1>15. CASE WriteList
  BY <1>15 DEF WriteList, evalVars, Inv, Shape, Control, IsReply, IsWire, Verdicts,
     NoReply, NoCall, CallForms, Early, Rated, Ended, Stages
<1>16. CASE Written
  BY <1>16 DEF Written, evalVars, Send, Reply, Inv, Shape, Control, IsReply, IsWire,
     Verdicts, NoReply, NoCall, CallForms, Early, Rated, Ended, Stages
<1>17. CASE PublishReply
  BY <1>17 DEF PublishReply, evalVars, Inv, Shape, Control, IsReply, IsWire, Verdicts,
     NoReply, NoCall, CallForms, Early, Rated, Ended, Stages
<1>18. CASE AddEvent
  BY <1>18 DEF AddEvent, evalVars, Inv, Shape, Control, IsReply, IsWire, Verdicts,
     NoReply, NoCall, CallForms, Early, Rated, Ended, Stages
<1>19. CASE Recover
  BY <1>19 DEF Recover, evalVars, Send, Reply, Fallback, Inv, Shape, Control, IsReply,
     IsWire, Verdicts, NoReply, NoCall, CallForms, Early, Rated, Ended, Stages
<1> QED
  BY <1>1, <1>2, <1>3, <1>4, <1>5, <1>6, <1>7, <1>8, <1>9, <1>10, <1>11, <1>12, <1>13,
     <1>14, <1>15, <1>16, <1>17, <1>18, <1>19 DEF Next

\* The loaded objects.
LEMMA ObjectsStep ==
    ASSUME Inv, [Next]_vars
    PROVE  Objects'
<1>1. CASE UNCHANGED vars
  BY <1>1 DEF vars, Inv, Shape, Control, Objects, NoLoad, IsReply, Early, Rated, Ended,
     Stages
<1>2. ASSUME NEW p \in Policies, Swap(p) PROVE Objects'
  BY <1>2 DEF Swap, evalVars, Inv, Shape, Control, Objects, NoLoad, IsReply, Early,
     Rated, Ended, Stages
<1>3. ASSUME NEW m \in Messages, Receive(m) PROVE Objects'
  <2>1. CASE stage' = "done"
    BY <1>3, <2>1 DEF Receive, evalVars, Send, Reply, Fallback, Inv, Shape, Control,
       Objects, NoLoad, IsReply, Early, Rated, Ended, Stages
  <2>2. CASE stage' # "done"
    <3>1. \/ reply' = Fallback("MODSEC_MALFORMED_REQUEST", m.rid) /\ wire' = wire
          \/ /\ reply' = Reply("error", 0, "MODSEC_UNSUPPORTED_VERSION")
             /\ wire' = [wire EXCEPT !.known = TRUE]
      BY <1>3, <2>2 DEF Receive, Send
    <3>2. stage = "received" /\ stage' = "send" /\ UNCHANGED <<policy, call, evalVars>>
      BY <1>3, <2>2 DEF Receive, Send
    <3>3. \E code, rid :
             reply' = [verdict |-> "error", score |-> 0, code |-> code, rid |-> rid,
                       actions |-> << >>] /\ code # "MODSEC_SCORE_RANGE"
      BY <3>1 DEF Fallback, Reply
    <3> QED
      BY <3>1, <3>2, <3>3 DEF evalVars, Inv, Shape, Control, Objects, NoLoad, IsReply,
         Early, Rated, Ended, Stages
  <2> QED
    BY <2>1, <2>2
<1>4. ASSUME NEW c \in CallForms, Begin(c) PROVE Objects'
  BY <1>4 DEF Begin, evalVars, Shed, Inspect, Reply, Inv, Shape, Control, Objects,
     NoLoad, IsReply, Early, Rated, Ended, Stages
<1>5. CASE ShedRows
  BY <1>5 DEF ShedRows, evalVars, Inv, Shape, Control, Objects, NoLoad, IsReply, Early,
     Rated, Ended, Stages
<1>6. CASE Select
  BY <1>6 DEF Select, evalVars, Send, Reply, Inv, Shape, Control, Objects, NoLoad,
     IsReply, Early, Rated, Ended, Stages
<1>7. CASE ReadRules
  BY <1>7 DEF ReadRules, evalVars, Inv, Shape, Control, Objects, NoLoad, IsReply,
     Early, Rated, Ended, Stages
<1>8. ASSUME NEW a \in Asks, Deliver(a) PROVE Objects'
  BY <1>8 DEF Deliver, evalVars, Inv, Shape, Control, Objects, NoLoad, IsReply, Early,
     Rated, Ended, Stages
<1>9. CASE Delivered
  BY <1>9 DEF Delivered, evalVars, Send, Reply, Inv, Shape, Control, Objects, NoLoad,
     IsReply, Early, Rated, Ended, Stages
<1>10. ASSUME NEW l \in Loads, LoadObjects(l) PROVE Objects'
  BY <1>10 DEF LoadObjects, evalVars, Inv, Shape, Control, Objects, NoLoad, IsReply,
     Early, Rated, Ended, Stages
<1>11. CASE Fail
  BY <1>11 DEF Fail, evalVars, Send, Reply, Inv, Shape, Control, Objects, NoLoad,
     IsReply, Early, Rated, Ended, Stages
<1>12. ASSUME NEW t \in Found, Engine(t) PROVE Objects'
  <2>1. PICK v \in {"allow", "score", "deny", "redirect"}, k \in 0..100,
             c \in {"none", "CRS_ANOMALY", "CRS_RULE", "CRS_REDIRECT"} :
             /\ reply' = Reply(v, k, c)
             /\ v = "score" =>
                   k \in ScaleScore(Calibrate(out'.anomaly, out'.threshold), ask.percent)
    BY <1>12, EngineReply DEF Answers
  <2>2. /\ out'.anomaly \in Int /\ out'.threshold \in Int
        /\ \A m \in out'.matched : m.phase \in IF call.phase = "response" THEN 3..4 ELSE 1..2
    BY <1>12, EngineReply
  <2>3. /\ stage = "loaded" /\ stage' = "fire" /\ load' = NoLoad
        /\ UNCHANGED <<policy, call, rules, asks, ask, fired, bans, failed, wire>>
    BY <1>12 DEF Engine
  <2> QED
    BY <2>1, <2>2, <2>3 DEF Reply, Inv, Shape, Control, Objects, NoLoad, IsReply,
       Early, Rated, Ended, Stages
<1>13. CASE FireRows
  BY <1>13 DEF FireRows, evalVars, Inv, Shape, Control, Objects, NoLoad, IsReply,
     Early, Rated, Ended, Stages
<1>14. CASE MoreRows
  BY <1>14 DEF MoreRows, evalVars, Inv, Shape, Control, Objects, NoLoad, IsReply,
     Early, Rated, Ended, Stages
<1>15. CASE WriteList
  BY <1>15 DEF WriteList, evalVars, Inv, Shape, Control, Objects, NoLoad, IsReply,
     Early, Rated, Ended, Stages
<1>16. CASE Written
  BY <1>16 DEF Written, evalVars, Send, Reply, Inv, Shape, Control, Objects, NoLoad,
     IsReply, Early, Rated, Ended, Stages
<1>17. CASE PublishReply
  BY <1>17 DEF PublishReply, evalVars, Inv, Shape, Control, Objects, NoLoad, IsReply,
     Early, Rated, Ended, Stages
<1>18. CASE AddEvent
  BY <1>18 DEF AddEvent, evalVars, Inv, Shape, Control, Objects, NoLoad, IsReply,
     Early, Rated, Ended, Stages
<1>19. CASE Recover
  BY <1>19 DEF Recover, evalVars, Send, Reply, Fallback, Inv, Shape, Control, Objects,
     NoLoad, IsReply, Early, Rated, Ended, Stages
<1> QED
  BY <1>1, <1>2, <1>3, <1>4, <1>5, <1>6, <1>7, <1>8, <1>9, <1>10, <1>11, <1>12, <1>13,
     <1>14, <1>15, <1>16, <1>17, <1>18, <1>19 DEF Next

\* The score.
LEMMA ScoredStep ==
    ASSUME Inv, [Next]_vars
    PROVE  Scored'
<1>1. CASE UNCHANGED vars
  BY <1>1 DEF vars, Inv, Shape, Control, Scored, NoReply, IsReply, Early, Rated, Ended,
     Stages
<1>2. ASSUME NEW p \in Policies, Swap(p) PROVE Scored'
  BY <1>2 DEF Swap, evalVars, Inv, Shape, Control, Scored, NoReply, IsReply, Early,
     Rated, Ended, Stages
<1>3. ASSUME NEW m \in Messages, Receive(m) PROVE Scored'
  <2>1. CASE stage' = "done"
    BY <1>3, <2>1 DEF Receive, evalVars, Send, Reply, Fallback, Inv, Shape, Control,
       Scored, NoReply, IsReply, Early, Rated, Ended, Stages
  <2>2. CASE stage' # "done"
    <3>1. \/ reply' = Fallback("MODSEC_MALFORMED_REQUEST", m.rid) /\ wire' = wire
          \/ /\ reply' = Reply("error", 0, "MODSEC_UNSUPPORTED_VERSION")
             /\ wire' = [wire EXCEPT !.known = TRUE]
      BY <1>3, <2>2 DEF Receive, Send
    <3>2. stage = "received" /\ stage' = "send" /\ UNCHANGED <<policy, call, evalVars>>
      BY <1>3, <2>2 DEF Receive, Send
    <3>3. \E code, rid :
             reply' = [verdict |-> "error", score |-> 0, code |-> code, rid |-> rid,
                       actions |-> << >>] /\ code # "MODSEC_SCORE_RANGE"
      BY <3>1 DEF Fallback, Reply
    <3> QED
      BY <3>1, <3>2, <3>3 DEF evalVars, Inv, Shape, Control, Scored, NoReply, IsReply,
         Early, Rated, Ended, Stages
  <2> QED
    BY <2>1, <2>2
<1>4. ASSUME NEW c \in CallForms, Begin(c) PROVE Scored'
  <2>1. reply' = reply \/ (reply' = Reply("error", 0, c.shed) /\ c.shed \in {"limit", "deadline"})
    BY <1>4 DEF Begin, Shed, Inspect, CallForms
  <2>2. stage = "received" /\ UNCHANGED <<out, ask>>
    BY <1>4 DEF Begin, evalVars
  <2> QED
    BY <2>1, <2>2 DEF Reply, Inv, Scored
<1>5. CASE ShedRows
  BY <1>5 DEF ShedRows, evalVars, Inv, Shape, Control, Scored, NoReply, IsReply, Early,
     Rated, Ended, Stages
<1>6. CASE Select
  BY <1>6 DEF Select, evalVars, Send, Reply, Inv, Shape, Control, Scored, NoReply,
     IsReply, Early, Rated, Ended, Stages
<1>7. CASE ReadRules
  BY <1>7 DEF ReadRules, evalVars, Inv, Shape, Control, Scored, NoReply, IsReply,
     Early, Rated, Ended, Stages
<1>8. ASSUME NEW a \in Asks, Deliver(a) PROVE Scored'
  BY <1>8 DEF Deliver, evalVars, Inv, Shape, Control, Scored, NoReply, IsReply, Early,
     Rated, Ended, Stages
<1>9. CASE Delivered
  BY <1>9 DEF Delivered, evalVars, Send, Reply, Inv, Shape, Control, Scored, NoReply,
     IsReply, Early, Rated, Ended, Stages
<1>10. ASSUME NEW l \in Loads, LoadObjects(l) PROVE Scored'
  BY <1>10 DEF LoadObjects, evalVars, Inv, Shape, Control, Scored, NoReply, IsReply,
     Early, Rated, Ended, Stages
<1>11. CASE Fail
  <2>1. PICK b : load.code = BodyError(b)
    BY <1>11 DEF Fail, Inv, Objects
  <2>2. \E code \in {"MODSEC_INTERNAL_ERROR", "MODSEC_BODY_UNAVAILABLE", "MODSEC_BODY_TRUNCATED"} :
           reply' = Reply("error", 0, code)
    BY <1>11, <2>1 DEF Fail, Send, BodyError
  <2> QED
    BY <2>2 DEF Reply, Scored
<1>12. ASSUME NEW t \in Found, Engine(t) PROVE Scored'
  <2>1. PICK v \in {"allow", "score", "deny", "redirect"}, k \in 0..100,
             c \in {"none", "CRS_ANOMALY", "CRS_RULE", "CRS_REDIRECT"} :
             /\ reply' = Reply(v, k, c)
             /\ v = "score" =>
                   k \in ScaleScore(Calibrate(out'.anomaly, out'.threshold), ask.percent)
    BY <1>12, EngineReply DEF Answers
  <2>2. /\ out'.anomaly \in Int /\ out'.threshold \in Int
        /\ \A m \in out'.matched : m.phase \in IF call.phase = "response" THEN 3..4 ELSE 1..2
    BY <1>12, EngineReply
  <2>3. /\ stage = "loaded" /\ stage' = "fire" /\ load' = NoLoad
        /\ UNCHANGED <<policy, call, rules, asks, ask, fired, bans, failed, wire>>
    BY <1>12 DEF Engine
  <2> QED
    BY <2>1, <2>2, <2>3 DEF Reply, Inv, Shape, Control, Scored, NoReply, IsReply,
       Early, Rated, Ended, Stages
<1>13. CASE FireRows
  BY <1>13 DEF FireRows, evalVars, Inv, Shape, Control, Scored, NoReply, IsReply,
     Early, Rated, Ended, Stages
<1>14. CASE MoreRows
  BY <1>14 DEF MoreRows, evalVars, Inv, Shape, Control, Scored, NoReply, IsReply,
     Early, Rated, Ended, Stages
<1>15. CASE WriteList
  BY <1>15 DEF WriteList, evalVars, Inv, Shape, Control, Scored, NoReply, IsReply,
     Early, Rated, Ended, Stages
<1>16. CASE Written
  BY <1>16 DEF Written, evalVars, Send, Reply, Inv, Shape, Control, Scored, NoReply,
     IsReply, Early, Rated, Ended, Stages
<1>17. CASE PublishReply
  BY <1>17 DEF PublishReply, evalVars, Inv, Shape, Control, Scored, NoReply, IsReply,
     Early, Rated, Ended, Stages
<1>18. CASE AddEvent
  BY <1>18 DEF AddEvent, evalVars, Inv, Shape, Control, Scored, NoReply, IsReply,
     Early, Rated, Ended, Stages
<1>19. CASE Recover
  BY <1>19 DEF Recover, evalVars, Send, Reply, Fallback, Inv, Shape, Control, Scored,
     NoReply, IsReply, Early, Rated, Ended, Stages
<1> QED
  BY <1>1, <1>2, <1>3, <1>4, <1>5, <1>6, <1>7, <1>8, <1>9, <1>10, <1>11, <1>12, <1>13,
     <1>14, <1>15, <1>16, <1>17, <1>18, <1>19 DEF Next

LEMMA ClampNothing == Clamp(0) = 0
<1>1. Min({0, 900}) = 0
  BY MinTwo
<1>2. Max({-100, Min({0, 900})}) =
          IF -100 <= Min({0, 900}) THEN Min({0, 900}) ELSE -100
  BY <1>1, MaxTwo
<1> QED
  BY <1>1, <1>2 DEF Clamp

\* The asks and their sum.
LEMMA AskedStep ==
    ASSUME Inv, [Next]_vars
    PROVE  Asked'
<1>1. CASE UNCHANGED vars
  BY <1>1 DEF vars, Inv, Shape, Control, Asked, NotAsked, NoAsk, TakenIsApplied,
     IsWire, Early, Rated, Ended, Stages
<1>2. ASSUME NEW p \in Policies, Swap(p) PROVE Asked'
  BY <1>2 DEF Swap, evalVars, Inv, Shape, Control, Asked, NotAsked, NoAsk,
     TakenIsApplied, IsWire, Early, Rated, Ended, Stages
<1>3. ASSUME NEW m \in Messages, Receive(m) PROVE Asked'
  <2>1. /\ stage = "received" /\ stage' \in {"send", "done"} /\ UNCHANGED <<call, asks, ask>>
        /\ wire'.panic = wire.panic
    BY <1>3 DEF Receive, Send, Inv, Shape, IsWire, evalVars
  <2> QED
    BY <2>1 DEF Inv, Asked, NotAsked, NoAsk, Rated, Ended, TakenIsApplied
<1>4. ASSUME NEW c \in CallForms, Begin(c) PROVE Asked'
  <2>1. /\ stage = "received" /\ call' = c /\ UNCHANGED <<asks, ask>>
        /\ stage' \in {"shed", "send", "rules", "select"}
        /\ stage' = "select" => c.phase # "response"
        /\ wire'.panic = wire.panic
    BY <1>4 DEF Begin, Shed, Inspect, evalVars, Inv, Shape, IsWire
  <2>2. asks = << >> /\ ask = NoAsk
    BY <2>1 DEF Inv, Asked, NotAsked
  <2> QED
    BY <2>1, <2>2 DEF Asked, NotAsked, NoAsk, Percents, TakenIsApplied, Rated
<1>5. CASE ShedRows
  <2>1. /\ stage = "shed" /\ stage' = "write" /\ UNCHANGED <<asks, ask, wire, call>>
    BY <1>5 DEF ShedRows
  <2>2. asks = << >> /\ ask = NoAsk
    BY <2>1 DEF Inv, Asked, NotAsked
  <2>3. Total(asks) = 0 /\ Clamp(0) = 0
    BY <2>2, TotalAdds, ClampNothing
  <2> QED
    BY <2>1, <2>2, <2>3 DEF Asked, NotAsked, NoAsk, Percents, TakenIsApplied, Rated
<1>6. CASE Select
  BY <1>6 DEF Select, evalVars, Send, Reply, Inv, Shape, Control, Asked, NotAsked,
     NoAsk, TakenIsApplied, IsWire, Early, Rated, Ended, Stages
<1>7. CASE ReadRules
  <2>1. /\ stage = "rules" /\ stage' = "deliver" /\ UNCHANGED <<asks, ask, wire, call>>
    BY <1>7 DEF ReadRules
  <2>2. asks = << >> /\ ask = NoAsk
    BY <2>1 DEF Inv, Asked, NotAsked
  <2>3. Total(asks) = 0
    BY <2>2, TotalAdds
  <2> QED
    BY <2>1, <2>2, <2>3 DEF Asked, NotAsked, NoAsk, TakenIsApplied, Rated
<1>8. ASSUME NEW a \in Asks, Deliver(a) PROVE Asked'
  <2> DEFINE x == [ask |-> a, took |-> Took(a), applied |-> Takers(a) > 0]
  <2>1. /\ stage = "deliver" /\ UNCHANGED <<stage, call, wire, reply>>
        /\ asks' = Append(asks, x)
        /\ ask'.skip = (ask.skip \/ (a.do = "skip" /\ Takers(a) > 0))
        /\ ask'.percent = ask.percent + Took(a)
    BY <1>8 DEF Deliver
  <2>2. Takers(a) \in Nat /\ Took(a) \in Int /\ (Took(a) # 0 => Takers(a) > 0)
    BY TakersCount DEF Inv, Shape
  <2>3. x \in Noted /\ asks \in Seq(Noted)
    BY <2>2 DEF Noted, Inv, Shape
  <2>4. x.took = Took(a) /\ x.applied = (Takers(a) > 0) /\ x.ask = a
    OBVIOUS
  <2> HIDE DEF x
  <2>5. Total(asks') = Total(asks) + Took(a)
    <3>1. \A y \in Noted : y.took \in Int
      BY DEF Noted
    <3> QED
      BY <2>1, <2>3, <2>4, <3>1, TotalAdds
  <2>6. /\ asks' \in Seq(Noted) /\ Len(asks') = Len(asks) + 1 /\ Len(asks) \in Nat
        /\ asks'[Len(asks) + 1] = x
        /\ \A i \in 1..Len(asks) : asks'[i] = asks[i]
    BY <2>1, <2>3
  <2>7. \A i \in DOMAIN asks' : (i \in DOMAIN asks /\ asks'[i] = asks[i]) \/ asks'[i] = x
    BY <2>3, <2>6
  <2>8. TakenIsApplied'
    <3>1. \A i \in DOMAIN asks : asks[i].took # 0 => asks[i].applied
      BY <2>1 DEF Inv, Asked, TakenIsApplied
    <3>2. x.took # 0 => x.applied
      BY <2>2, <2>4
    <3> QED
      BY <2>7, <3>1, <3>2 DEF TakenIsApplied
  <2>9. \A i \in DOMAIN asks' : asks'[i].applied /\ asks'[i].ask.do = "skip" => ask'.skip
    <3>1. \A i \in DOMAIN asks : asks[i].applied /\ asks[i].ask.do = "skip" => ask.skip
      BY DEF Inv, Asked
    <3>2. ask.skip => ask'.skip
      BY <2>1
    <3>3. x.applied /\ x.ask.do = "skip" => ask'.skip
      BY <2>1, <2>4
    <3> QED
      BY <2>7, <3>1, <3>2, <3>3, Zenon
  <2> QED
    BY <2>1, <2>5, <2>8, <2>9 DEF Inv, Asked, NotAsked, Rated
<1>9. CASE Delivered
  <2>1. /\ stage = "deliver" /\ UNCHANGED <<call, wire, asks>>
        /\ ask' = [ask EXCEPT !.percent = Clamp(@)]
    BY <1>9 DEF Delivered
  <2>2. ask'.percent = Clamp(Total(asks)) /\ ask'.skip = ask.skip
    BY <2>1 DEF Inv, Shape, Asked
  <2>3. ask'.percent \in Percents
    <3>1. ask.percent \in Int
      BY DEF Inv, Shape
    <3>2. ask'.percent = Clamp(ask.percent)
      BY <2>1 DEF Inv, Shape
    <3> QED
      BY <3>1, <3>2, ClampRange, Zenon
  <2>4. \/ stage' = "send" /\ ask.skip /\ reply'.code = "MODSEC_SKIPPED"
        \/ stage' = "send" /\ ~ask.skip
        \/ stage' = "load" /\ ~ask.skip
        \/ stage' = "select" /\ ~ask.skip /\ call.state = "rebuild"
    BY <1>9 DEF Delivered, Send, Reply
  <2>5. call.state = "rebuild" => call.phase = "response"
    BY DEF Inv, Shape, CallForms, NoCall
  <2> QED
    BY <2>1, <2>2, <2>3, <2>4, <2>5 DEF Inv, Asked, NotAsked, Rated, Ended, TakenIsApplied
<1>10. ASSUME NEW l \in Loads, LoadObjects(l) PROVE Asked'
  BY <1>10 DEF LoadObjects, evalVars, Inv, Shape, Control, Asked, NotAsked, NoAsk,
     TakenIsApplied, IsWire, Early, Rated, Ended, Stages
<1>11. CASE Fail
  BY <1>11 DEF Fail, evalVars, Send, Reply, Inv, Shape, Control, Asked, NotAsked,
     NoAsk, TakenIsApplied, IsWire, Early, Rated, Ended, Stages
<1>12. ASSUME NEW t \in Found, Engine(t) PROVE Asked'
  <2>1. stage = "loaded" /\ stage' = "fire" /\ UNCHANGED <<call, asks, ask, wire>>
    BY <1>12 DEF Engine
  <2> QED
    BY <2>1 DEF Inv, Asked, NotAsked, Rated, Ended, TakenIsApplied
<1>13. CASE FireRows
  BY <1>13 DEF FireRows, evalVars, Inv, Shape, Control, Asked, NotAsked, NoAsk,
     TakenIsApplied, IsWire, Early, Rated, Ended, Stages
<1>14. CASE MoreRows
  BY <1>14 DEF MoreRows, evalVars, Inv, Shape, Control, Asked, NotAsked, NoAsk,
     TakenIsApplied, IsWire, Early, Rated, Ended, Stages
<1>15. CASE WriteList
  BY <1>15 DEF WriteList, evalVars, Inv, Shape, Control, Asked, NotAsked, NoAsk,
     TakenIsApplied, IsWire, Early, Rated, Ended, Stages
<1>16. CASE Written
  <2>1. /\ stage = "write" /\ stage' = "send" /\ UNCHANGED <<call, wire, asks, ask>>
    BY <1>16 DEF Written, Send, evalVars
  <2> QED
    BY <2>1 DEF Inv, Control, Asked, NotAsked, Rated, Ended, TakenIsApplied
<1>17. CASE PublishReply
  <2>1. /\ stage = "send" /\ stage' \in {"audit", "done"} /\ UNCHANGED <<call, asks, ask, reply>>
        /\ wire'.panic = wire.panic
    BY <1>17 DEF PublishReply, evalVars, Inv, Shape, IsWire
  <2> QED
    BY <2>1 DEF Inv, Asked, NotAsked, Rated, Ended, TakenIsApplied
<1>18. CASE AddEvent
  BY <1>18 DEF AddEvent, evalVars, Inv, Shape, Control, Asked, NotAsked, NoAsk,
     TakenIsApplied, IsWire, Early, Rated, Ended, Stages
<1>19. CASE Recover
  <2>1. /\ stage' = "send" /\ UNCHANGED <<call, asks, ask>> /\ wire'.panic
    BY <1>19 DEF Recover, Send, Inv, Shape, IsWire
  <2> QED
    BY <2>1 DEF Inv, Asked, NotAsked, Rated, Ended, TakenIsApplied
<1> QED
  BY <1>1, <1>2, <1>3, <1>4, <1>5, <1>6, <1>7, <1>8, <1>9, <1>10, <1>11, <1>12, <1>13,
     <1>14, <1>15, <1>16, <1>17, <1>18, <1>19 DEF Next

LEMMA AppendSecond ==
    ASSUME NEW a, NEW b
    PROVE  Append(<<a>>, b) = <<a, b>>
<1>1. <<a>> \in Seq({a, b}) /\ b \in {a, b} /\ Len(<<a>>) = 1
  OBVIOUS
<1>2. /\ Append(<<a>>, b) \in Seq({a, b}) /\ Len(Append(<<a>>, b)) = 2
      /\ Append(<<a>>, b)[1] = a /\ Append(<<a>>, b)[2] = b
  BY <1>1
<1>3. \A t \in Seq({a, b}) : Len(t) = 2 => t = <<t[1], t[2]>>
  OBVIOUS
<1> QED
  BY <1>2, <1>3

\* What was published.
LEMMA PublishedStep ==
    ASSUME Inv, [Next]_vars
    PROVE  Published'
<1>1. CASE UNCHANGED vars
  BY <1>1 DEF vars, Inv, Shape, Control, Published, IsReply, IsWire, NoReply, NoCall,
     Early, Rated, Ended, Stages
<1>2. ASSUME NEW p \in Policies, Swap(p) PROVE Published'
  BY <1>2 DEF Swap, evalVars, Inv, Shape, Control, Published, IsReply, IsWire, NoReply,
     NoCall, Early, Rated, Ended, Stages
<1>3. ASSUME NEW m \in Messages, Receive(m) PROVE Published'
  <2>1. CASE stage' = "done"
    BY <1>3, <2>1 DEF Receive, evalVars, Send, Reply, Fallback, Inv, Shape, Control,
       Published, IsReply, IsWire, NoReply, NoCall, Early, Rated, Ended, Stages
  <2>2. CASE stage' # "done"
    <3>1. \/ reply' = Fallback("MODSEC_MALFORMED_REQUEST", m.rid) /\ wire' = wire
          \/ /\ reply' = Reply("error", 0, "MODSEC_UNSUPPORTED_VERSION")
             /\ wire' = [wire EXCEPT !.known = TRUE]
      BY <1>3, <2>2 DEF Receive, Send
    <3>2. stage = "received" /\ stage' = "send" /\ UNCHANGED <<policy, call, evalVars>>
      BY <1>3, <2>2 DEF Receive, Send
    <3>3. \E code, rid :
             reply' = [verdict |-> "error", score |-> 0, code |-> code, rid |-> rid,
                       actions |-> << >>] /\ code # "MODSEC_SCORE_RANGE"
      BY <3>1 DEF Fallback, Reply
    <3> QED
      BY <3>1, <3>2, <3>3 DEF evalVars, Inv, Shape, Control, Published, IsReply,
         IsWire, NoReply, NoCall, Early, Rated, Ended, Stages
  <2> QED
    BY <2>1, <2>2
<1>4. ASSUME NEW c \in CallForms, Begin(c) PROVE Published'
  BY <1>4 DEF Begin, evalVars, Shed, Inspect, Reply, Inv, Shape, Control, Published,
     IsReply, IsWire, NoReply, NoCall, Early, Rated, Ended, Stages
<1>5. CASE ShedRows
  BY <1>5 DEF ShedRows, evalVars, Inv, Shape, Control, Published, IsReply, IsWire,
     NoReply, NoCall, Early, Rated, Ended, Stages
<1>6. CASE Select
  BY <1>6 DEF Select, evalVars, Send, Reply, Inv, Shape, Control, Published, IsReply,
     IsWire, NoReply, NoCall, Early, Rated, Ended, Stages
<1>7. CASE ReadRules
  BY <1>7 DEF ReadRules, evalVars, Inv, Shape, Control, Published, IsReply, IsWire,
     NoReply, NoCall, Early, Rated, Ended, Stages
<1>8. ASSUME NEW a \in Asks, Deliver(a) PROVE Published'
  BY <1>8 DEF Deliver, evalVars, Inv, Shape, Control, Published, IsReply, IsWire,
     NoReply, NoCall, Early, Rated, Ended, Stages
<1>9. CASE Delivered
  BY <1>9 DEF Delivered, evalVars, Send, Reply, Inv, Shape, Control, Published,
     IsReply, IsWire, NoReply, NoCall, Early, Rated, Ended, Stages
<1>10. ASSUME NEW l \in Loads, LoadObjects(l) PROVE Published'
  BY <1>10 DEF LoadObjects, evalVars, Inv, Shape, Control, Published, IsReply, IsWire,
     NoReply, NoCall, Early, Rated, Ended, Stages
<1>11. CASE Fail
  BY <1>11 DEF Fail, evalVars, Send, Reply, Inv, Shape, Control, Published, IsReply,
     IsWire, NoReply, NoCall, Early, Rated, Ended, Stages
<1>12. ASSUME NEW t \in Found, Engine(t) PROVE Published'
  <2>1. PICK v \in {"allow", "score", "deny", "redirect"}, k \in 0..100,
             c \in {"none", "CRS_ANOMALY", "CRS_RULE", "CRS_REDIRECT"} :
             /\ reply' = Reply(v, k, c)
             /\ v = "score" =>
                   k \in ScaleScore(Calibrate(out'.anomaly, out'.threshold), ask.percent)
    BY <1>12, EngineReply DEF Answers
  <2>2. /\ out'.anomaly \in Int /\ out'.threshold \in Int
        /\ \A m \in out'.matched : m.phase \in IF call.phase = "response" THEN 3..4 ELSE 1..2
    BY <1>12, EngineReply
  <2>3. /\ stage = "loaded" /\ stage' = "fire" /\ load' = NoLoad
        /\ UNCHANGED <<policy, call, rules, asks, ask, fired, bans, failed, wire>>
    BY <1>12 DEF Engine
  <2> QED
    BY <2>1, <2>2, <2>3 DEF Reply, Inv, Shape, Control, Published, IsReply, IsWire,
       NoReply, NoCall, Early, Rated, Ended, Stages
<1>13. CASE FireRows
  BY <1>13 DEF FireRows, evalVars, Inv, Shape, Control, Published, IsReply, IsWire,
     NoReply, NoCall, Early, Rated, Ended, Stages
<1>14. CASE MoreRows
  BY <1>14 DEF MoreRows, evalVars, Inv, Shape, Control, Published, IsReply, IsWire,
     NoReply, NoCall, Early, Rated, Ended, Stages
<1>15. CASE WriteList
  BY <1>15 DEF WriteList, evalVars, Inv, Shape, Control, Published, IsReply, IsWire,
     NoReply, NoCall, Early, Rated, Ended, Stages
<1>16. CASE Written
  BY <1>16 DEF Written, evalVars, Send, Reply, Inv, Shape, Control, Published, IsReply,
     IsWire, NoReply, NoCall, Early, Rated, Ended, Stages
<1>17. CASE PublishReply
  <2>1. /\ stage = "send" /\ UNCHANGED <<call, reply>>
        /\ \/ wire.sent = << >> /\ wire'.mute /\ wire'.sent = << >> /\ stage' = "done"
           \/ /\ wire'.sent = Append(wire.sent, Payload(reply)) /\ wire'.mute = wire.mute
              /\ stage' = "audit"
        /\ wire'.panic = wire.panic /\ wire'.events = wire.events
    BY <1>17 DEF PublishReply, evalVars, Inv, Shape, IsWire
  <2>2. Payload(reply) = reply
    BY DEF Payload, Inv, Shape
  <2>3. wire.events = << >> /\ ~wire.mute
    BY <2>1 DEF Inv, Published
  <2>4. call # NoCall => reply.rid
    BY <2>1 DEF Inv, Control, Early
  <2>5. CASE stage' = "done"
    BY <2>1, <2>3, <2>5 DEF Inv, Published, Ended
  <2>6. CASE stage' = "audit" /\ wire.sent = << >>
    <3>1. wire'.sent = <<reply>>
      BY <2>1, <2>2, <2>6
    <3> QED
      BY <2>1, <2>3, <2>4, <2>6, <3>1 DEF Published, Ended
  <2>7. CASE stage' = "audit" /\ wire.panic /\ wire.sent = <<wire.sent[1]>>
    <3> DEFINE first == wire.sent[1]
    <3>1. wire'.sent = Append(<<first>>, reply)
      BY <2>1, <2>2, <2>7
    <3>2. Append(<<first>>, reply) = <<first, reply>>
      BY AppendSecond
    <3>3. call # NoCall => first.rid
      BY <2>7 DEF Inv, Published
    <3> HIDE DEF first
    <3>4. wire'.sent = <<first, reply>>
      BY <3>1, <3>2, Zenon
    <3>5. wire'.sent = <<wire'.sent[1], reply>>
      BY <3>4
    <3>6. \A i \in DOMAIN wire'.sent : call # NoCall => wire'.sent[i].rid
      BY <2>4, <3>3, <3>4
    <3> QED
      BY <2>1, <2>3, <2>7, <3>5, <3>6 DEF Published, Ended
  <2> QED
    BY <2>1, <2>5, <2>6, <2>7 DEF Inv, Published
<1>18. CASE AddEvent
  <2>1. stage = "audit" /\ stage' = "done" /\ UNCHANGED <<reply, call>>
    BY <1>18 DEF AddEvent, evalVars
  <2>2. /\ wire'.sent = wire.sent /\ wire'.mute = wire.mute /\ wire'.panic = wire.panic
        /\ wire'.events = << >> \/ (~wire'.panic /\ wire'.events = wire.sent)
    <3>1. wire' = [wire EXCEPT !.events = IF wire.known THEN Append(@, reply) ELSE @]
      BY <1>18 DEF AddEvent
    <3>2. wire.events = << >> /\ (wire.panic \/ wire.sent = <<reply>>)
      BY <2>1 DEF Inv, Published
    <3>3. wire.known => ~wire.panic
      BY <2>1 DEF Inv, Control
    <3>4. IsWire(wire)
      BY DEF Inv, Shape
    <3> QED
      BY <3>1, <3>2, <3>3, <3>4 DEF IsWire
  <2> QED
    BY <2>1, <2>2 DEF Inv, Published, Ended
<1>19. CASE Recover
  BY <1>19 DEF Recover, evalVars, Send, Reply, Fallback, Inv, Shape, Control,
     Published, IsReply, IsWire, NoReply, NoCall, Early, Rated, Ended, Stages
<1> QED
  BY <1>1, <1>2, <1>3, <1>4, <1>5, <1>6, <1>7, <1>8, <1>9, <1>10, <1>11, <1>12, <1>13,
     <1>14, <1>15, <1>16, <1>17, <1>18, <1>19 DEF Next

\* The rows of the policy, and any pick of them, are rows that loaded.
LEMMA PolicyRows ==
    ASSUME Inv
    PROVE  /\ RowsOf(policy) \in Seq(AllRows)
           /\ \A i \in DOMAIN RowsOf(policy) :
                 RowsOf(policy)[i].do # "" => ValidAsk(RowsOf(policy)[i])
           /\ \A I : /\ Picked(RowsOf(policy), I) \in Seq(AllRows)
                     /\ \A k \in DOMAIN Picked(RowsOf(policy), I) :
                           \E i \in DOMAIN RowsOf(policy) \cap I :
                               Picked(RowsOf(policy), I)[k] = RowsOf(policy)[i]
<1> DEFINE rows == RowsOf(policy)
<1>1. rows \in Seq(AllRows)
  <2>1. policy \in Policies /\ policy.rows \in Seq(Range(policy.rows))
    BY JudgeAssumption DEF Inv, Shape
  <2>2. Range(policy.rows) \subseteq AllRows
    BY <2>1 DEF AllRows
  <2>3. policy.rows \in Seq(AllRows)
    BY <2>1, <2>2
  <2>4. << >> \in Seq(AllRows)
    OBVIOUS
  <2> QED
    BY <2>3, <2>4 DEF RowsOf
<1>2. \A i \in DOMAIN rows : rows[i].do # "" => ValidAsk(rows[i])
  <2>1. \A i \in DOMAIN policy.rows : ValidRow(policy.rows[i])
    BY DEF Inv, Shape, ValidPolicy
  <2>2. CASE policy.known
    BY <2>1, <2>2 DEF RowsOf, ValidRow
  <2>3. CASE ~policy.known
    <3>1. rows = << >>
      BY <2>3, Zenon DEF RowsOf
    <3>2. DOMAIN << >> = {}
      OBVIOUS
    <3> QED
      BY <3>1, <3>2, Zenon
  <2> QED
    BY <2>2, <2>3
<1> HIDE DEF rows
<1>3. ASSUME NEW I
      PROVE  /\ Picked(rows, I) \in Seq(AllRows)
             /\ \A k \in DOMAIN Picked(rows, I) :
                   \E i \in DOMAIN rows \cap I : Picked(rows, I)[k] = rows[i]
  <2> DEFINE V == {rows[i] : i \in DOMAIN rows \cap I}
             picked == Picked(rows, I)
  <2>1. picked \in Seq(V)
    BY <1>1, PickedRows
  <2>2. V \subseteq AllRows
    BY <1>1
  <2> HIDE DEF picked
  <2>3. \A k \in DOMAIN picked : picked[k] \in V
    <3> HIDE DEF V
    <3> QED
      BY <2>1
  <2>4. picked \in Seq(AllRows)
    <3> HIDE DEF V
    <3> QED
      BY <2>1, <2>2
  <2> QED
    BY <2>3, <2>4 DEF picked
<1> QED
  BY <1>1, <1>2, <1>3 DEF rows

\* The rows that fired and the actions of the reply.
LEMMA FiredStep ==
    ASSUME Inv, [Next]_vars
    PROVE  Fired'
<1>1. CASE UNCHANGED vars
  BY <1>1 DEF vars, Inv, Shape, Control, Fired, ActionsMeant, Meant, Early, Rated,
     Ended, Stages
<1>2. ASSUME NEW p \in Policies, Swap(p) PROVE Fired'
  BY <1>2 DEF Swap, evalVars, Inv, Shape, Control, Fired, ActionsMeant, Meant, Early,
     Rated, Ended, Stages
<1>3. ASSUME NEW m \in Messages, Receive(m) PROVE Fired'
  <2>1. stage = "received" /\ fired = << >> /\ fired' = << >> /\ << >> \in Seq(AllRows)
    BY <1>3 DEF Receive, evalVars, Inv, Fired, Ended
  <2>2. reply' = reply \/ reply'.actions = << >>
    BY <1>3 DEF Receive, Send, Fallback, Reply
  <2>3. reply.actions = << >>
    BY <2>1 DEF Inv, Control, Early, NoReply
  <2> QED
    BY <2>1, <2>2, <2>3 DEF Fired, ActionsMeant
<1>4. ASSUME NEW c \in CallForms, Begin(c) PROVE Fired'
  <2>1. stage = "received" /\ fired = << >> /\ fired' = << >> /\ << >> \in Seq(AllRows)
    BY <1>4 DEF Begin, evalVars, Inv, Fired, Ended
  <2>2. reply' = reply \/ reply'.actions = << >>
    BY <1>4 DEF Begin, Shed, Inspect, Reply
  <2>3. reply.actions = << >>
    BY <2>1 DEF Inv, Control, Early, NoReply
  <2> QED
    BY <2>1, <2>2, <2>3 DEF Fired, ActionsMeant
<1>5. CASE ShedRows
  <2> DEFINE rows == RowsOf(policy)
             I == {i \in DOMAIN rows :
                      rows[i].on = "overload" /\ Fires(At(rows[i]), call.fill, TRUE)}
  <2>1. /\ stage = "shed" /\ stage' = "write" /\ UNCHANGED <<call, out, reply>>
        /\ fired' = Picked(rows, I)
    BY <1>5 DEF ShedRows, FireOverload
  <2>2. call.phase = "request" /\ reply.actions = << >>
    BY <2>1 DEF Inv, Control
  <2>3. \A i \in I : rows[i].on = "overload"
    OBVIOUS
  <2> HIDE DEF I, rows
  <2>4. /\ fired' \in Seq(AllRows)
        /\ \A k \in DOMAIN fired' : \E i \in DOMAIN rows \cap I : fired'[k] = rows[i]
    BY <2>1, PolicyRows DEF rows
  <2>5. \A k \in DOMAIN fired' : fired'[k].on = "overload" /\ (fired'[k].do # "" => ValidAsk(fired'[k]))
    <3>1. \A i \in DOMAIN rows : rows[i].do # "" => ValidAsk(rows[i])
      BY PolicyRows DEF rows
    <3> QED
      BY <2>3, <2>4, <3>1
  <2>6. (\A k \in DOMAIN fired : Meant(fired[k]))'
    BY <2>1, <2>2, <2>5 DEF Meant
  <2>7. ActionsMeant'
    BY <2>1, <2>2 DEF ActionsMeant
  <2>8. (\A k \in DOMAIN fired :
            fired[k].on \in {"rule", "overload"} \/ Matches(fired[k], reply))'
    BY <2>1, <2>5
  <2>9. stage' \in {"overload", "write"} /\ fired' \in Seq(AllRows)
    BY <2>1, <2>4
  <2> QED
    BY <2>6, <2>7, <2>8, <2>9 DEF Fired
<1>6. CASE Select
  <2>1. /\ UNCHANGED <<call, out, fired>> /\ stage = "select" /\ stage' \in {"send", "load", "rules"}
        /\ reply' = reply \/ reply'.actions = << >>
    BY <1>6 DEF Select, Send, Fallback, Reply, evalVars, Ended
  <2>2. ActionsMeant'
    BY <2>1 DEF Inv, Fired, ActionsMeant
  <2> QED
    BY <2>1, <2>2 DEF Inv, Fired, Meant, Ended
<1>7. CASE ReadRules
  BY <1>7 DEF ReadRules, evalVars, Inv, Shape, Control, Fired, ActionsMeant, Meant,
     Early, Rated, Ended, Stages
<1>8. ASSUME NEW a \in Asks, Deliver(a) PROVE Fired'
  BY <1>8 DEF Deliver, evalVars, Inv, Shape, Control, Fired, ActionsMeant, Meant,
     Early, Rated, Ended, Stages
<1>9. CASE Delivered
  <2>1. /\ UNCHANGED <<call, out, fired>> /\ stage = "deliver" /\ stage' \in {"send", "select", "load"}
        /\ reply' = reply \/ reply'.actions = << >>
    BY <1>9 DEF Delivered, Send, Fallback, Reply, evalVars, Ended
  <2>2. ActionsMeant'
    BY <2>1 DEF Inv, Fired, ActionsMeant
  <2> QED
    BY <2>1, <2>2 DEF Inv, Fired, Meant, Ended
<1>10. ASSUME NEW l \in Loads, LoadObjects(l) PROVE Fired'
  BY <1>10 DEF LoadObjects, evalVars, Inv, Shape, Control, Fired, ActionsMeant, Meant,
     Early, Rated, Ended, Stages
<1>11. CASE Fail
  <2>1. /\ UNCHANGED <<call, out, fired>> /\ stage = "loaded" /\ stage' = "send"
        /\ reply' = reply \/ reply'.actions = << >>
    BY <1>11 DEF Fail, Send, Fallback, Reply, evalVars, Ended
  <2>2. ActionsMeant'
    BY <2>1 DEF Inv, Fired, ActionsMeant
  <2> QED
    BY <2>1, <2>2 DEF Inv, Fired, Meant, Ended
<1>12. ASSUME NEW t \in Found, Engine(t) PROVE Fired'
  <2>1. stage = "loaded" /\ fired = << >> /\ fired' = << >> /\ << >> \in Seq(AllRows)
    BY <1>12 DEF Engine, Inv, Fired, Ended
  <2>2. Answers(reply', out', ask.percent)
    BY <1>12, EngineReply
  <2>3. reply'.actions = << >>
    BY <2>2 DEF Answers, Reply
  <2> QED
    BY <2>1, <2>3 DEF Fired, ActionsMeant
<1>13. CASE FireRows
  <2> DEFINE rows == RowsOf(policy)
             I == {i \in DOMAIN rows : IF rows[i].on = "rule" THEN Hit(rows[i], out.matched)
                                                            ELSE Matches(rows[i], reply)}
  <2>1. /\ stage = "fire" /\ stage' \in {"overload", "write"} /\ UNCHANGED <<call, out, reply>>
        /\ fired' = Picked(rows, I)
    BY <1>13 DEF FireRows, Fire
  <2>2. call.shed = "no" /\ reply.actions = << >>
    BY <2>1 DEF Inv, Control, Rated
  <2>3. \A i \in I : \/ rows[i].on = "rule" /\ Hit(rows[i], out.matched)
                     \/ /\ rows[i].on # "rule" /\ rows[i].on # "overload"
                        /\ Matches(rows[i], reply)
    BY DEF Matches
  <2> HIDE DEF I, rows
  <2>4. /\ fired' \in Seq(AllRows)
        /\ \A k \in DOMAIN fired' : \E i \in DOMAIN rows \cap I : fired'[k] = rows[i]
    BY <2>1, PolicyRows DEF rows
  <2>5. \A k \in DOMAIN fired' :
           /\ \/ fired'[k].on = "rule" /\ Hit(fired'[k], out.matched)
              \/ /\ fired'[k].on # "rule" /\ fired'[k].on # "overload"
                 /\ Matches(fired'[k], reply)
           /\ fired'[k].do # "" => ValidAsk(fired'[k])
    <3>1. \A i \in DOMAIN rows : rows[i].do # "" => ValidAsk(rows[i])
      BY PolicyRows DEF rows
    <3> QED
      BY <2>3, <2>4, <3>1
  <2>6. (\A k \in DOMAIN fired : Meant(fired[k]))'
    BY <2>1, <2>2, <2>5 DEF Meant
  <2>7. ActionsMeant'
    BY <2>1, <2>2 DEF ActionsMeant
  <2>8. (\A k \in DOMAIN fired :
            fired[k].on \in {"rule", "overload"} \/ Matches(fired[k], reply))'
    BY <2>1, <2>5
  <2>9. stage' \in {"overload", "write"} /\ fired' \in Seq(AllRows)
    BY <2>1, <2>4
  <2> QED
    BY <2>6, <2>7, <2>8, <2>9 DEF Fired
<1>14. CASE MoreRows
  <2> DEFINE rows == RowsOf(policy)
             I == {i \in DOMAIN rows :
                      rows[i].on = "overload" /\ Fires(At(rows[i]), call.fill, FALSE)}
             more == Picked(rows, I)
  <2>1. /\ stage = "overload" /\ stage' = "write" /\ UNCHANGED <<call, out, reply>>
        /\ fired' = fired \o more
    BY <1>14 DEF MoreRows, FireOverload
  <2>2. call.phase = "request" /\ call.shed = "no" /\ reply.actions = << >>
    BY <2>1 DEF Inv, Control, Rated
  <2>3. \A i \in I : rows[i].on = "overload"
    OBVIOUS
  <2> HIDE DEF I, rows
  <2>4. /\ more \in Seq(AllRows)
        /\ \A k \in DOMAIN more : \E i \in DOMAIN rows \cap I : more[k] = rows[i]
    BY PolicyRows DEF rows
  <2> HIDE DEF more
  <2>5. \A k \in DOMAIN more : more[k].on = "overload" /\ (more[k].do # "" => ValidAsk(more[k]))
    <3>1. \A i \in DOMAIN rows : rows[i].do # "" => ValidAsk(rows[i])
      BY PolicyRows DEF rows
    <3> QED
      BY <2>3, <2>4, <3>1
  <2>6. fired \in Seq(AllRows)
    BY DEF Inv, Fired
  <2>7. /\ fired' \in Seq(AllRows)
        /\ \A k \in DOMAIN fired' : (k \in DOMAIN fired /\ fired'[k] = fired[k])
                                  \/ (\E j \in DOMAIN more : fired'[k] = more[j])
    <3>1. \A k \in 1..(Len(fired) + Len(more)) :
             (fired \o more)[k] = IF k <= Len(fired) THEN fired[k] ELSE more[k - Len(fired)]
      BY <2>4, <2>6
    <3>2. /\ fired \o more \in Seq(AllRows) /\ Len(fired \o more) = Len(fired) + Len(more)
          /\ Len(fired) \in Nat /\ Len(more) \in Nat
          /\ DOMAIN fired = 1..Len(fired) /\ DOMAIN more = 1..Len(more)
      BY <2>4, <2>6
    <3>3. DOMAIN (fired \o more) = 1..(Len(fired) + Len(more))
      BY <3>2
    <3> QED
      BY <2>1, <3>1, <3>2, <3>3
  <2>8. \A k \in DOMAIN fired :
           Meant(fired[k]) /\ (fired[k].on \in {"rule", "overload"} \/ Matches(fired[k], reply))
    BY <2>1 DEF Inv, Fired
  <2>9. \A k \in DOMAIN fired' :
           /\ Meant(fired'[k])
           /\ fired'[k].on \in {"rule", "overload"} \/ Matches(fired'[k], reply)
    <3>1. \A j \in DOMAIN more : Meant(more[j])
      BY <2>2, <2>5 DEF Meant
    <3> QED
      BY <2>5, <2>7, <2>8, <3>1
  <2>10. (\A k \in DOMAIN fired : Meant(fired[k]))'
    BY <2>1, <2>9 DEF Meant
  <2> QED
    BY <2>1, <2>2, <2>7, <2>9, <2>10 DEF Fired, ActionsMeant, Ended
<1>15. CASE WriteList
  BY <1>15 DEF WriteList, evalVars, Inv, Shape, Control, Fired, ActionsMeant, Meant,
     Early, Rated, Ended, Stages
<1>16. CASE Written
  <2>1. /\ stage = "write" /\ stage' = "send" /\ UNCHANGED <<call, out, fired>>
        /\ \/ reply' = Reply("error", 0, "MODSEC_GEO_UNAVAILABLE")
           \/ reply' = [reply EXCEPT !.actions = Actions(fired)]
    BY <1>16 DEF Written, Send, evalVars
  <2>2. ActionsMeant'
    <3>1. CASE reply' = Reply("error", 0, "MODSEC_GEO_UNAVAILABLE")
      BY <3>1 DEF Reply, ActionsMeant
    <3>2. CASE reply' = [reply EXCEPT !.actions = Actions(fired)]
      <4>1. reply'.actions = Actions(fired) /\ reply'.verdict = reply.verdict
        BY <3>2 DEF Inv, Shape, IsReply
      <4>2. \A k \in DOMAIN fired :
               Meant(fired[k]) /\ (fired[k].on \in {"rule", "overload"} \/ Matches(fired[k], reply))
        BY <2>1 DEF Inv, Fired
      <4>3. \A k \in DOMAIN AsksOf(fired) :
               \E i \in DOMAIN fired : fired[i].do # "" /\ AsksOf(fired)[k] = fired[i]
        <5> DEFINE I == {i \in DOMAIN fired : fired[i].do # ""}
        <5>1. Picked(fired, I) \in Seq({fired[i] : i \in DOMAIN fired \cap I})
          <6> HIDE DEF I
          <6> QED
            BY PickedRows DEF Inv, Fired
        <5>2. \A k \in DOMAIN Picked(fired, I) :
                 Picked(fired, I)[k] \in {fired[i] : i \in DOMAIN fired \cap I}
          <6> HIDE DEF I
          <6> QED
            BY <5>1
        <5> QED
          BY <5>2 DEF AsksOf
      <4>4. ASSUME NEW k \in DOMAIN Actions(fired)
            PROVE  LET a == Actions(fired)[k]
                   IN  /\ a.axis \in Range(Verbs[a.do])
                       /\ a.do \in ControlVerbs => a.to
                       /\ reply.verdict \in {"deny", "redirect"} =>
                             a.do \in RecordVerbs \/ a.on \in {"rule", "overload"}
        <5>1. k \in DOMAIN AsksOf(fired) /\ Actions(fired)[k] = Action(AsksOf(fired)[k])
          BY DEF Actions
        <5>2. PICK i \in DOMAIN fired : fired[i].do # "" /\ AsksOf(fired)[k] = fired[i]
          BY <4>3, <5>1
        <5> DEFINE o == fired[i]
        <5>3. ValidAsk(o) /\ (o.on \in {"rule", "overload"} \/ Matches(o, reply))
          BY <4>2, <5>2 DEF Meant
        <5> HIDE DEF o
        <5>4. Axis(o) \in Range(Verbs[o.do])
          BY <5>3, AxisTaken
        <5>5. /\ o.do \in ControlVerbs => o.to
              /\ reply.verdict \in {"deny", "redirect"} =>
                    o.do \in RecordVerbs \/ o.on \in {"rule", "overload"}
          BY <5>3 DEF ValidAsk, Matches
        <5>6. Actions(fired)[k] = [do |-> o.do, axis |-> Axis(o), to |-> o.to, on |-> o.on]
          BY <5>1, <5>2 DEF Action, o
        <5> QED
          BY <5>4, <5>5, <5>6
      <4> QED
        BY <4>1, <4>4 DEF ActionsMeant
    <3> QED
      BY <2>1, <3>1, <3>2
  <2> QED
    BY <2>1, <2>2 DEF Inv, Fired, Meant, Ended
<1>17. CASE PublishReply
  BY <1>17 DEF PublishReply, evalVars, Inv, Shape, Control, Fired, ActionsMeant, Meant,
     Early, Rated, Ended, Stages
<1>18. CASE AddEvent
  BY <1>18 DEF AddEvent, evalVars, Inv, Shape, Control, Fired, ActionsMeant, Meant,
     Early, Rated, Ended, Stages
<1>19. CASE Recover
  <2>1. /\ UNCHANGED <<call, out, fired>> /\ stage' = "send"
        /\ reply' = reply \/ reply'.actions = << >>
    BY <1>19 DEF Recover, Send, Fallback, Reply, evalVars, Ended
  <2>2. ActionsMeant'
    BY <2>1 DEF Inv, Fired, ActionsMeant
  <2> QED
    BY <2>1, <2>2 DEF Inv, Fired, Meant, Ended
<1> QED
  BY <1>1, <1>2, <1>3, <1>4, <1>5, <1>6, <1>7, <1>8, <1>9, <1>10, <1>11, <1>12, <1>13,
     <1>14, <1>15, <1>16, <1>17, <1>18, <1>19 DEF Next

-----------------------------------------------------------------------------
(* The theorems.                                                           *)

LEMMA InvInit == Init => Inv
<1> SUFFICES ASSUME Init PROVE Inv
  OBVIOUS
<1> USE DEF Init
<1>1. /\ << >> \in Seq(Range(<< >>)) /\ << >> \in Seq(Noted) /\ << >> \in Seq(AllRows)
      /\ DOMAIN << >> = {}
  OBVIOUS
<1>2. Shape
  <2>1. IsReply(reply) /\ reply.verdict \in Verdicts /\ reply.score \in 0..100
    BY DEF NoReply, IsReply, Verdicts
  <2>2. IsWire(wire)
    BY DEF IsWire
  <2>3. ask \in [skip : BOOLEAN, percent : Int]
    BY DEF NoAsk
  <2>4. out.anomaly \in Int /\ out.threshold \in Int /\ out.matched = {}
    BY DEF NoOut
  <2>5. rules \in Seq(Range(rules)) /\ asks \in Seq(Noted)
    BY <1>1, Zenon
  <2> QED
    BY <2>1, <2>2, <2>3, <2>4, <2>5 DEF Shape, Stages
<1>3. Control
  BY DEF Control, Early, Rated, Ended
<1>4. Objects
  BY DEF Objects, NoLoad, Ended
<1>5. Asked
  BY <1>1 DEF Asked, NoAsk, Percents, NotAsked, TakenIsApplied, Rated
<1>6. Scored
  BY DEF Scored, NoReply
<1>7. Fired
  BY <1>1 DEF Fired, ActionsMeant, NoReply
<1>8. Published
  BY <1>1 DEF Published
<1> QED
  BY <1>2, <1>3, <1>4, <1>5, <1>6, <1>7, <1>8 DEF Inv

LEMMA InvStep == Inv /\ [Next]_vars => Inv'
  BY ShapeStep, ControlStep, ObjectsStep, AskedStep, ScoredStep, FiredStep,
     PublishedStep DEF Inv

LEMMA Invariance == Spec => []Inv
  BY InvInit, InvStep, PTL DEF Spec

\* Type correctness of a message on its way through receive and evaluate.
THEOREM TypeCorrect == Spec => []TypeOK
<1>1. Inv => TypeOK
  <2> SUFFICES ASSUME Inv PROVE TypeOK
    OBVIOUS
  <2>1. Len(wire.sent) <= 2
    <3>1. CASE wire.sent = << >>
      BY <3>1
    <3>2. CASE wire.sent = <<wire.sent[1]>>
      <4>1. Len(<<wire.sent[1]>>) = 1
        OBVIOUS
      <4>2. Len(wire.sent) = 1
        BY <3>2, <4>1, Zenon
      <4> QED
        BY <4>2
    <3>3. CASE wire.sent = <<reply>>
      BY <3>3
    <3>4. CASE wire.sent = <<wire.sent[1], reply>>
      <4>1. Len(<<wire.sent[1], reply>>) = 2
        OBVIOUS
      <4>2. Len(wire.sent) = 2
        BY <3>4, <4>1, Zenon
      <4> QED
        BY <4>2
    <3> QED
      BY <3>1, <3>2, <3>3, <3>4 DEF Inv, Published, Shape, Stages, Ended
  <2>2. Len(wire.events) <= 1
    <3>1. CASE wire.events = << >>
      BY <3>1
    <3>2. CASE wire.events = <<reply>>
      BY <3>2
    <3> QED
      BY <3>1, <3>2 DEF Inv, Published, Shape, Stages, Ended
  <2>3. ask.percent \in IF stage = "deliver" \/ wire.panic THEN Int ELSE -100..900
    BY DEF Inv, Shape, Asked, IsWire, Percents
  <2> QED
    BY <2>1, <2>2, <2>3 DEF Inv, Shape, TypeOK, Verdicts
<1> QED
  BY <1>1, Invariance, PTL

\* The score of verdict.From is on the scale that is promised for it: 50 at the
\* threshold of CRS and 100 at twice that, moved by the asks of neighbours only
\* the way they asked, and never refused by WithScore.
THEOREM ScoreOnScale == Spec => []ScoreScale
<1>1. Inv => ScoreScale
  <2> SUFFICES ASSUME Inv PROVE ScoreScale
    OBVIOUS
  <2> DEFINE t == IF out.threshold <= 0 THEN 5 ELSE out.threshold
             raw == Calibrate(out.anomaly, out.threshold)
  <2>1. out.anomaly \in Int /\ out.threshold \in Int
    BY DEF Inv, Shape
  <2>2. /\ raw \in Scores
        /\ t < 100 => /\ raw >= 50 <=> out.anomaly >= t
                      /\ raw = 100 <=> out.anomaly >= 2 * t
    <3>1. OnScale(raw, out.anomaly, out.threshold)
      BY <2>1, CalibrateScale, Zenon
    <3> HIDE DEF raw
    <3> QED
      BY <3>1 DEF OnScale
  <2>3. ASSUME reply.verdict = "score"
        PROVE  /\ ask.percent = 0 /\ t < 100 =>
                     /\ reply.score >= 50 <=> out.anomaly >= t
                     /\ reply.score = 100 <=> out.anomaly >= 2 * t
               /\ ask.percent >= 0 => reply.score >= raw
               /\ ask.percent <= 0 => reply.score <= raw
               /\ ask.percent = -100 => reply.score = 0
    <3>1. reply.score \in ScaleScore(raw, ask.percent)
      BY <2>3 DEF Inv, Scored
    <3>2. stage # "deliver" /\ ~wire.panic
      BY <2>3 DEF Inv, Control, Early, NoReply, Fallback, Reply
    <3>3. ask.percent \in Percents
      BY <3>2 DEF Inv, Asked
    <3> HIDE DEF t, raw
    <3>4. /\ reply.score \in Scores
          /\ ask.percent >= 0 => reply.score >= raw
          /\ ask.percent <= 0 => reply.score <= raw
          /\ ask.percent = -100 => reply.score = 0
      <4>0. raw \in Scores
        BY <2>2
      <4>1. Moved(reply.score, raw, ask.percent)
        BY <3>1, <3>3, <4>0, ScaleMoves, Zenon
      <4> QED
        BY <4>1 DEF Moved
    <3>5. ask.percent = 0 => reply.score = raw
      BY <2>2, <3>4 DEF Scores
    <3> QED
      BY <2>2, <3>4, <3>5
  <2>4. reply.code # "MODSEC_SCORE_RANGE"
    BY DEF Inv, Scored
  <2> QED
    BY <2>3, <2>4 DEF ScoreScale
<1> QED
  BY <1>1, Invariance, PTL

\* prior.Evaluate adds up: the factor the score is scaled by is the sum of what
\* the audit event says was taken of every ask, cut once behind the last one.
THEOREM AsksAddedUp == Spec => []AsksAddUp
<1>1. Inv => AsksAddUp
  BY DEF Inv, Asked, AsksAddUp, SkipEndsCall, Rated
<1> QED
  BY <1>1, Invariance, PTL

\* A list write of writeLists that fails ends in an error reply without asks.
THEOREM FailedWritesReported == Spec => []FailedWriteIsError
<1>1. Inv => FailedWriteIsError
  BY DEF Inv, Control, FailedWriteIsError, Ended
<1> QED
  BY <1>1, Invariance, PTL

\* Fire and FireOverload pick rows that mean what they say, whatever generation
\* is read at which step, and the actions that leave have an axis of their verb.
THEOREM RowsMeanWhatTheySay == Spec => []RowsAsMeant
<1>1. Inv => RowsAsMeant
  <2> SUFFICES ASSUME Inv PROVE RowsAsMeant
    OBVIOUS
  <2>1. \A i \in DOMAIN fired : Meant(fired[i])
    BY DEF Inv, Fired
  <2>2. ActionsMeant
    BY DEF Inv, Fired
  <2>3. ASSUME NEW o, Hit(o, out.matched)
        PROVE  \E m \in out.matched :
                  /\ Hit(o, {m})
                  /\ m.phase \in IF call.phase = "response" THEN 3..4 ELSE 1..2
    <3>1. PICK m \in out.matched :
              /\ m.finding
              /\ o.ids = {} \/ Has(o.ids, m.id)
              /\ o.tags = {} \/ m.tags \cap o.tags # {}
      BY <2>3, Zenon DEF Hit
    <3>2. Hit(o, {m})
      BY <3>1, Zenon DEF Hit
    <3>3. m.phase \in IF call.phase = "response" THEN 3..4 ELSE 1..2
      BY <3>1 DEF Inv, Shape
    <3> QED
      BY <3>1, <3>2, <3>3
  <2>4. \A i \in DOMAIN fired :
          /\ fired[i].on = "overload" => call.phase = "request"
          /\ fired[i].on = "rule" =>
                \E m \in out.matched :
                    /\ Hit(fired[i], {m})
                    /\ m.phase \in IF call.phase = "response" THEN 3..4 ELSE 1..2
          /\ call.shed # "no" => fired[i].on = "overload"
    BY <2>1, <2>3 DEF Meant
  <2> QED
    BY <2>2, <2>4 DEF RowsAsMeant, ActionsMeant
<1> QED
  BY <1>1, Invariance, PTL

\* LoadMany gives what Load would give of each locator, finish lets through only
\* data with the digest the proxy recorded, and a body that is not whole is an
\* error.
THEOREM ObjectsChecked == Spec => []ObjectsFaithful
<1>1. Inv => ObjectsFaithful
  <2> SUFFICES ASSUME Inv PROVE ObjectsFaithful
    OBVIOUS
  <2>1. load.code # "none" /\ stage \in Ended => reply.verdict = "error"
    BY DEF Inv, Objects
  <2>2. ASSUME stage = "loaded"
        PROVE  LET l == load.from[1]
                   locs == Wanted(call, l)
               IN  /\ l.db.failing = {} =>
                         load.got = [i \in DOMAIN locs |-> Load(l.db, locs[i])]
                   /\ \A i \in DOMAIN locs : Seen(load.got[i]) # NoText =>
                         Want(locs[i]) \in {NoDigest, Digest(Seen(load.got[i]))}
                   /\ "GET" \in l.db.failing /\ "MGET" \in l.db.failing =>
                         \A i \in DOMAIN locs :
                             locs[i].form = "stored" => ~Available(load.got[i])
    <3>1. PICK l \in Loads :
              load = [from |-> <<l>>, got |-> LoadMany(l.db, Wanted(call, l)),
                      code |-> BodyError(LoadMany(l.db, Wanted(call, l))[BodyAt(call)])]
      BY <2>2 DEF Inv, Objects
    <3> DEFINE locs == Wanted(call, l)
    <3>2. load.from[1] = l /\ load.got = LoadMany(l.db, locs)
      BY <3>1
    <3>3. \A i \in DOMAIN locs : locs[i].form \in {"nil", "blank", "lost", "stored"}
      <4>1. call.phase \in {"request", "response", "frame"}
        BY <2>2 DEF Inv, Shape, Control, CallForms, Ended
      <4>2. \A x \in {l.headers, l.args, l.body, l.reqHeaders, l.reqArgs} :
               x.form \in {"nil", "blank", "lost", "stored"}
        BY JudgeAssumption
      <4> QED
        BY <4>1, <4>2 DEF Wanted
    <3> HIDE DEF locs
    <3>4. ASSUME NEW i \in DOMAIN locs
          PROVE  \/ load.got[i] = Load(l.db, locs[i])
                 \/ /\ load.got[i] = Fetched(l.db, locs[i], "MGET")
                    /\ l.db.configured /\ locs[i].form = "stored"
      BY <3>2, Zenon DEF LoadMany, Batch
    <3>5. DOMAIN load.got = DOMAIN locs /\ load.got = [i \in DOMAIN locs |-> load.got[i]]
      BY <3>2 DEF LoadMany
    <3>6. ASSUME l.db.failing = {}, NEW i \in DOMAIN locs
          PROVE  load.got[i] = Load(l.db, locs[i])
      <4>1. l.db.configured /\ locs[i].form = "stored" =>
                Load(l.db, locs[i]) = Fetched(l.db, locs[i], "GET")
        BY DEF Load
      <4>2. Fetched(l.db, locs[i], "GET") = Fetched(l.db, locs[i], "MGET")
        BY <3>6 DEF Fetched
      <4> QED
        BY <3>4, <4>1, <4>2
    <3>7. ASSUME NEW i \in DOMAIN locs
          PROVE  /\ Seen(load.got[i]) # NoText =>
                       Want(locs[i]) \in {NoDigest, Digest(Seen(load.got[i]))}
                 /\ ("GET" \in l.db.failing /\ "MGET" \in l.db.failing
                        /\ locs[i].form = "stored") => ~Available(load.got[i])
      <4>1. CASE load.got[i] = Load(l.db, locs[i])
        BY <3>3, <4>1, Loaded
      <4>2. CASE load.got[i] = Fetched(l.db, locs[i], "MGET")
        <5>1. \A why \in {"unknown_driver", "store_error"} :
                 ~Available(Lost(why)) /\ Seen(Lost(why)) = NoText
          BY DEF Available, Lost, Empty, Seen
        <5>2. \/ load.got[i] = Lost("unknown_driver")
              \/ load.got[i] = Lost("store_error")
              \/ /\ load.got[i] = Finish(l.db, locs[i], l.db.rows[locs[i].key])
                 /\ "MGET" \notin l.db.failing
          BY <4>2, Zenon DEF Fetched
        <5> QED
          BY <5>1, <5>2, Checked DEF Seen
      <4> QED
        BY <3>4, <4>1, <4>2
    <3>8. l.db.failing = {} => load.got = [i \in DOMAIN locs |-> Load(l.db, locs[i])]
      BY <3>5, <3>6
    <3> QED
      BY <3>2, <3>7, <3>8 DEF locs
  <2> QED
    BY <2>1, <2>2 DEF ObjectsFaithful, Ended
<1> QED
  BY <1>1, Invariance, PTL

\* Every message of receive but a release is answered once, with its id, and
\* reported at most once; only a panic in the audit adds a second reply.
THEOREM AnsweredOnce == Spec => []OneReply
<1>1. Inv => OneReply
  <2> SUFFICES ASSUME Inv PROVE OneReply
    OBVIOUS
  <2>1. \A a, b : /\ <<a>> # << >> /\ <<a, b>> # << >>
                  /\ Len(<<a>>) = 1 /\ Len(<<a, b>>) = 2 /\ Len(<< >>) = 0
                  /\ <<a, b>>[2] = b
    OBVIOUS
  <2>2. stage = "done" => (wire.mute <=> wire.sent = << >>)
    BY <2>1 DEF Inv, Published
  <2>3. ASSUME Len(wire.sent) = 2
        PROVE  /\ wire.panic /\ wire.sent[2] = reply
               /\ wire.events = << >>
    <3>1. wire.panic /\ wire.sent = <<wire.sent[1], reply>>
      BY <2>1, <2>3, SMTT(20) DEF Inv, Published, Shape, Stages, Ended
    <3> QED
      BY <2>1, <3>1 DEF Inv, Published
  <2>4. wire.panic => reply.code = "MODSEC_INTERNAL_ERROR"
    BY DEF Inv, Control, Fallback, Reply
  <2> QED
    BY <2>2, <2>3, <2>4 DEF Inv, Published, OneReply
<1> QED
  BY <1>1, Invariance, PTL
=============================================================================
