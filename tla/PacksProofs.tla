----------------------------- MODULE PacksProofs -----------------------------
(***************************************************************************)
(* Proofs about Packs, for any packs, any lists in their blobs and any     *)
(* store.                                                                  *)
(***************************************************************************)
EXTENDS Packs, FiniteSetTheorems, TLAPS

-----------------------------------------------------------------------------
(* Induction over data. The induction theorems of the library take an      *)
(* operator, which the provers cannot instantiate; the least element of a  *)
(* set of numbers serves instead.                                          *)

\* A set of natural numbers that is not empty has a least element: inclusion is
\* well-founded on finite sets, so on the intervals up to its members.
LEMMA Least ==
    ASSUME NEW S, \A n \in S : n \in Nat, S # {}
    PROVE  \E m \in S : \A n \in S : m <= n
<1> DEFINE Up == {1..n : n \in S}
<1>1. IsWellFoundedOn(StrictSubsetOrdering(Nat), FiniteSubsetsOf(Nat))
  BY FS_StrictSubsetOrderingWellFounded
<1>2. Up \subseteq FiniteSubsetsOf(Nat)
  <2>1. \A n \in S : IsFiniteSet(1..n) /\ 1..n \in SUBSET Nat
    BY FS_Interval
  <2> QED
    BY <2>1 DEF FiniteSubsetsOf
<1>3. Up # {}
  OBVIOUS
<1>4. PICK x \in Up : \A y \in Up : ~(<<y, x>> \in StrictSubsetOrdering(Nat))
  <2> HIDE DEF Up
  <2> QED
    BY <1>1, <1>2, <1>3, WFMin
<1>5. PICK m \in S : x = 1..m
  BY <1>4
<1>6. ASSUME NEW n \in S, n < m PROVE FALSE
  <2>1. 1..n \in SUBSET Nat /\ 1..m \in SUBSET Nat /\ 1..n \subseteq 1..m
    BY <1>6
  <2>2. m \in 1..m /\ m \notin 1..n
    BY <1>6
  <2>3. 1..n # 1..m
    BY <2>2
  <2>4. <<1..n, 1..m>> \in StrictSubsetOrdering(Nat)
    BY <2>1, <2>3 DEF StrictSubsetOrdering
  <2> QED
    BY <2>4, <1>4, <1>5
<1> QED
  BY <1>6

\* Induction up to n, over a set.
LEMMA SetInduction ==
    ASSUME NEW n \in Nat, NEW S, 0 \in S, \A i \in 0..n : i < n /\ i \in S => i + 1 \in S
    PROVE  \A i \in 0..n : i \in S
<1> DEFINE Bad == {i \in 0..n : i \notin S}
<1> SUFFICES ASSUME Bad # {} PROVE FALSE
  OBVIOUS
<1>1. PICK m \in Bad : \A i \in Bad : m <= i
  <2>1. \A i \in Bad : i \in Nat
    OBVIOUS
  <2> HIDE DEF Bad
  <2> QED
    BY <2>1, Least
<1>2. m \in 0..n /\ m # 0
  BY <1>1
<1>3. m - 1 \in 0..n /\ m - 1 \in S /\ m - 1 < n
  BY <1>1, <1>2
<1>4. (m - 1) + 1 \in S
  BY <1>3
<1> QED
  BY <1>1, <1>2, <1>4

\* f starts with a and goes on with step, up to n.
Iterates(f, n, a, step) == f[0] = a /\ \A k \in 0..n : k < n => f[k + 1] = step[f[k]]

\* There is such a function: a recursive definition has a solution.
LEMMA Recursion ==
    ASSUME NEW n \in Nat, NEW S, NEW a \in S, NEW step \in [S -> S]
    PROVE  \E f \in [0..n -> S] : Iterates(f, n, a, step)
<1> DEFINE Good == {m \in 0..n : \E f \in [0..m -> S] : Iterates(f, m, a, step)}
<1>1. 0 \in Good
  <2> DEFINE f == [k \in 0..0 |-> a]
  <2>1. f \in [0..0 -> S] /\ Iterates(f, 0, a, step)
    BY DEF Iterates
  <2>2. 0 \in 0..n
    OBVIOUS
  <2> QED
    BY <2>1, <2>2
<1>2. ASSUME NEW m \in 0..n, m < n, m \in Good PROVE m + 1 \in Good
  <2>1. PICK f \in [0..m -> S] : Iterates(f, m, a, step)
    BY <1>2
  <2> DEFINE g == [k \in 0..(m + 1) |-> IF k = m + 1 THEN step[f[m]] ELSE f[k]]
  <2>2. g \in [0..(m + 1) -> S]
    OBVIOUS
  <2>3. ASSUME NEW k \in 0..(m + 1), k < m + 1 PROVE g[k + 1] = step[g[k]]
    <3>1. CASE k = m
      BY <3>1
    <3>2. CASE k < m
      BY <3>2, <2>1, <2>3 DEF Iterates
    <3> QED
      BY <3>1, <3>2, <2>3
  <2>4. Iterates(g, m + 1, a, step)
    BY <2>1, <2>3 DEF Iterates
  <2>5. m + 1 \in 0..n
    BY <1>2
  <2> QED
    BY <2>2, <2>4, <2>5
<1>3. n \in Good
  <2>1. \A i \in 0..n : i < n /\ i \in Good => i + 1 \in Good
    BY <1>2
  <2>2. n \in 0..n
    OBVIOUS
  <2> HIDE DEF Good
  <2> QED
    BY <1>1, <2>1, <2>2, SetInduction
<1> QED
  BY <1>3

-----------------------------------------------------------------------------
(* Numbers and their digits.                                               *)

\* Numbers are written with two digits at least, and in one place.
LEMMA Notation == Base \in Nat /\ Base >= 2 /\ Width \in Nat /\ Width >= 1
<1>1. Base \in Nat \ {0, 1} /\ Width \in Nat \ {0}
  BY PacksAssumption, Zenon
<1> QED
  BY <1>1

\* Division with remainder.
LEMMA Division ==
    \A n \in Nat : /\ n \div Base \in Nat /\ n % Base \in 0..(Base - 1)
                   /\ n = Base * (n \div Base) + (n % Base)
<1>1. ASSUME NEW n \in Nat, NEW b \in Nat, b >= 2
      PROVE  /\ n \div b \in Nat /\ n % b \in 0..(b - 1)
             /\ n = b * (n \div b) + (n % b)
  BY <1>1
<1> QED
  BY <1>1, Notation, Zenon

\* It makes a number smaller.
LEMMA DivisionShrinks ==
    ASSUME NEW n \in Nat
    PROVE  (n = 0 /\ n \div Base = 0) \/ n \div Base < n
<1> DEFINE q == n \div Base
           r == n % Base
<1>1. q \in Nat /\ r \in 0..(Base - 1) /\ n = Base * q + r /\ Base \in Nat /\ Base >= 2
  BY Division, Notation
<1> HIDE DEF q, r
<1>2. Base * q >= 2 * q
  BY <1>1
<1>3. (n = 0 /\ q = 0) \/ q < n
  BY <1>1, <1>2
<1> QED
  BY <1>3 DEF q

\* Division keeps the order of numbers, and where it does not tell two apart the
\* remainders do.
LEMMA DivisionOrder ==
    ASSUME NEW a \in Nat, NEW b \in Nat, a < b
    PROVE  /\ a \div Base <= b \div Base
           /\ a \div Base = b \div Base => a % Base < b % Base
<1> DEFINE q == a \div Base
           r == a % Base
           x == b \div Base
           y == b % Base
<1>1. /\ q \in Nat /\ r \in 0..(Base - 1) /\ a = Base * q + r
      /\ x \in Nat /\ y \in 0..(Base - 1) /\ b = Base * x + y
      /\ Base \in Nat /\ Base >= 2
  BY Division, Notation
<1> HIDE DEF q, r, x, y
<1>2. ASSUME x < q PROVE FALSE
  <2>1. Base * q >= Base * (x + 1)
    BY <1>1, <1>2
  <2>2. Base * (x + 1) = Base * x + Base
    BY <1>1
  <2> QED
    BY <1>1, <2>1, <2>2
<1>3. q = x => r < y
  BY <1>1
<1>4. q <= x
  BY <1>1, <1>2
<1> QED
  BY <1>3, <1>4 DEF q, r, x, y

\* The recursive definition of Quotients has a solution, of natural numbers.
LEMMA QuotientsForm ==
    ASSUME NEW n \in Nat
    PROVE  /\ Quotients(n) \in [0..(Width + n) -> Nat]
           /\ Quotients(n)[0] = n
           /\ \A k \in 0..(Width + n) :
                 k < Width + n => Quotients(n)[k + 1] = Quotients(n)[k] \div Base
<1> DEFINE N == Width + n
           step == [x \in Nat |-> x \div Base]
           q == Quotients(n)
<1>1. N \in Nat
  BY Notation
<1>2. step \in [Nat -> Nat]
  BY Division
<1>3. PICK f \in [0..N -> Nat] : Iterates(f, N, n, step)
  <2> DEFINE T == Nat
  <2>1. n \in T /\ step \in [T -> T]
    BY <1>2
  <2>2. \E f \in [0..N -> T] : Iterates(f, N, n, step)
    <3> HIDE DEF N, step, T
    <3> QED
      BY <1>1, <2>1, Recursion
  <2> QED
    BY <2>2
<1>4. f = [k \in 0..N |-> IF k = 0 THEN n ELSE f[k - 1] \div Base]
  <2> HIDE DEF N
  <2>1. ASSUME NEW k \in 0..N, k # 0 PROVE f[k] = f[k - 1] \div Base
    <3>1. k - 1 \in 0..N /\ k - 1 < N /\ (k - 1) + 1 = k
      BY <1>1, <2>1
    <3>2. f[k] = step[f[k - 1]] /\ f[k - 1] \in Nat
      <4> HIDE DEF step
      <4> QED
        BY <1>3, <3>1 DEF Iterates
    <3> QED
      BY <3>2
  <2> QED
    BY <1>3, <2>1 DEF Iterates
<1>5. q = CHOOSE h : h = [k \in 0..N |-> IF k = 0 THEN n ELSE h[k - 1] \div Base]
  BY DEF Quotients
<1>6. q = [k \in 0..N |-> IF k = 0 THEN n ELSE q[k - 1] \div Base]
  <2> HIDE DEF q, N
  <2> QED
    BY <1>4, <1>5
<1> HIDE DEF q, N
<1> DEFINE Good == {k \in 0..N : q[k] \in Nat}
<1>7. q[0] = n /\ \A k \in 0..N : k < N => q[k + 1] = q[k] \div Base
  BY <1>1, <1>6
<1>8. \A k \in 0..N : k \in Good
  <2>1. 0 \in Good
    BY <1>1, <1>7
  <2>2. ASSUME NEW k \in 0..N, k < N, k \in Good PROVE k + 1 \in Good
    <3>1. q[k] \in Nat /\ q[k + 1] = q[k] \div Base /\ k + 1 \in 0..N
      BY <1>1, <1>7, <2>2
    <3>2. q[k] \div Base \in Nat
      BY <3>1, Division, Zenon
    <3> QED
      BY <3>1, <3>2
  <2> HIDE DEF Good
  <2> QED
    BY <1>1, <2>1, <2>2, SetInduction
<1>9. q \in [0..N -> Nat]
  BY <1>6, <1>8
<1> QED
  BY <1>7, <1>9 DEF q, N

\* They come to nothing before there are more of them than n counts.
LEMMA QuotientsEnd ==
    ASSUME NEW n \in Nat
    PROVE  Quotients(n)[Width + n] = 0
<1> DEFINE N == Width + n
           q == Quotients(n)
           Good == {k \in 0..N : q[k] = 0 \/ q[k] + k <= n}
<1>1. N \in Nat /\ N > n /\ N \in 0..N
  BY Notation
<1>2. q \in [0..N -> Nat] /\ q[0] = n /\ \A k \in 0..N : k < N => q[k + 1] = q[k] \div Base
  BY QuotientsForm
<1> HIDE DEF q, N
<1>3. \A k \in 0..N : k \in Good
  <2>1. 0 \in Good
    BY <1>1, <1>2
  <2>2. ASSUME NEW k \in 0..N, k < N, k \in Good PROVE k + 1 \in Good
    <3>1. k + 1 \in 0..N /\ q[k] \in Nat /\ q[k + 1] \in Nat
      BY <1>1, <1>2, <2>2
    <3>2. (q[k] = 0 /\ q[k + 1] = 0) \/ q[k + 1] < q[k]
      <4>1. q[k + 1] = q[k] \div Base
        BY <1>2, <2>2
      <4> QED
        BY <3>1, <4>1, DivisionShrinks
    <3> QED
      BY <2>2, <3>1, <3>2
  <2> HIDE DEF Good
  <2> QED
    BY <1>1, <2>1, <2>2, SetInduction
<1>4. q[N] = 0 \/ q[N] + N <= n
  BY <1>1, <1>3
<1>5. q[N] = 0
  BY <1>1, <1>2, <1>4
<1> QED
  BY <1>5 DEF q, N

\* The digits of a number are remainders of its quotients; there are Width of
\* them where Width divisions leave nothing.
LEMMA DigitsForm ==
    ASSUME NEW n \in Nat
    PROVE  \E len \in Width..(Width + n) :
              /\ Digits(n) = [k \in 1..len |-> Quotients(n)[len - k] % Base]
              /\ \A k \in 1..len : Digits(n)[k] \in Nat
              /\ Quotients(n)[Width] = 0 => len = Width
<1> DEFINE N == Width + n
           q == Quotients(n)
           S == {k \in Width..N : q[k] = 0}
           len == Min(S)
<1>1. Width \in Nat /\ N \in Nat /\ N \in Width..N /\ Width \in Width..N
  BY Notation
<1>2. q \in [0..N -> Nat] /\ q[N] = 0
  BY QuotientsForm, QuotientsEnd
<1>3. Digits(n) = [k \in 1..len |-> q[len - k] % Base]
  BY DEF Digits
<1> HIDE DEF q, N
<1>4. N \in S /\ (\A k \in S : k \in Nat /\ k \in Width..N) /\ (q[Width] = 0 => Width \in S)
  BY <1>1, <1>2
<1> HIDE DEF S
<1>5. len \in S /\ \A k \in S : len <= k
  <2>1. \E m \in S : \A k \in S : m <= k
    BY <1>4, Least
  <2> QED
    BY <2>1 DEF Min
<1> HIDE DEF len
<1>6. len \in Width..N /\ (q[Width] = 0 => len = Width)
  BY <1>1, <1>4, <1>5
<1>7. ASSUME NEW k \in 1..len PROVE Digits(n)[k] \in Nat
  <2>1. len - k \in 0..N
    BY <1>1, <1>6
  <2>2. q[len - k] \in Nat
    BY <1>2, <2>1
  <2>3. q[len - k] % Base \in Nat
    BY <2>2, Division, Notation
  <2> QED
    BY <1>3, <2>3
<1> QED
  BY <1>3, <1>6, <1>7 DEF q, N

\* The first Width divisions.
LEMMA QuotientsUpTo ==
    ASSUME NEW n \in Nat
    PROVE  /\ \A k \in 0..Width : Quotients(n)[k] \in Nat
           /\ Quotients(n)[0] = n
           /\ \A k \in 0..Width :
                 k < Width => Quotients(n)[k + 1] = Quotients(n)[k] \div Base
<1> DEFINE N == Width + n
           q == Quotients(n)
<1>1. /\ q \in [0..N -> Nat] /\ q[0] = n
      /\ \A k \in 0..N : k < N => q[k + 1] = q[k] \div Base
  BY QuotientsForm
<1>2. \A k \in 0..Width : k \in 0..N /\ (k < Width => k < N)
  BY Notation
<1> HIDE DEF q, N
<1>3. /\ \A k \in 0..Width : q[k] \in Nat
      /\ \A k \in 0..Width : k < Width => q[k + 1] = q[k] \div Base
  BY <1>1, <1>2
<1> QED
  BY <1>1, <1>3 DEF q

\* Where fewer than Numbers are counted, Width divisions leave nothing.
LEMMA NumbersFit ==
    ASSUME NEW n \in Nat
    PROVE  Numbers \in Nat /\ (n < Numbers => Quotients(n)[Width] = 0)
<1> DEFINE q == Quotients(n)
           step == [x \in Nat |-> Base * x]
           p == CHOOSE h : h = [k \in 0..Width |-> IF k = 0 THEN 1 ELSE Base * h[k - 1]]
           Good == {k \in 0..Width : p[k] \in Nat /\ p[k] * q[k] <= n}
<1>1. /\ Base \in Nat /\ Width \in Nat /\ Width \in 0..Width
      /\ Width <= Width + n
  BY Notation
<1>2. PICK f \in [0..Width -> Nat] : Iterates(f, Width, 1, step)
  <2> DEFINE T == Nat
  <2>1. 1 \in T /\ step \in [T -> T]
    BY <1>1
  <2>2. \E f \in [0..Width -> T] : Iterates(f, Width, 1, step)
    <3> HIDE DEF step, T
    <3> QED
      BY <1>1, <2>1, Recursion
  <2> QED
    BY <2>2
<1>3. f = [k \in 0..Width |-> IF k = 0 THEN 1 ELSE Base * f[k - 1]]
  <2>1. ASSUME NEW k \in 0..Width, k # 0 PROVE f[k] = Base * f[k - 1]
    <3>1. k - 1 \in 0..Width /\ k - 1 < Width /\ (k - 1) + 1 = k
      BY <1>1, <2>1
    <3>2. f[k] = step[f[k - 1]] /\ f[k - 1] \in Nat
      <4> HIDE DEF step
      <4> QED
        BY <1>2, <3>1 DEF Iterates
    <3> QED
      BY <3>2
  <2> QED
    BY <1>2, <2>1 DEF Iterates
<1>4. p = [k \in 0..Width |-> IF k = 0 THEN 1 ELSE Base * p[k - 1]]
  BY <1>3
<1>5. Numbers = p[Width]
  BY DEF Numbers
<1>6. /\ \A k \in 0..Width : q[k] \in Nat
      /\ q[0] = n
      /\ \A k \in 0..Width : k < Width => q[k + 1] = q[k] \div Base
  BY QuotientsUpTo
<1> HIDE DEF p, q
<1>7. p[0] = 1 /\ \A k \in 0..Width : k < Width => p[k + 1] = Base * p[k]
  BY <1>1, <1>4
<1>8. \A k \in 0..Width : k \in Good
  <2>1. 0 \in Good
    BY <1>1, <1>6, <1>7
  <2>2. ASSUME NEW k \in 0..Width, k < Width, k \in Good PROVE k + 1 \in Good
    <3> DEFINE x == q[k]
               y == q[k + 1]
               z == p[k]
    <3>1. /\ k + 1 \in 0..Width /\ x \in Nat /\ y \in Nat /\ z \in Nat
          /\ z * x <= n /\ p[k + 1] = Base * z
      BY <1>1, <1>6, <1>7, <2>2
    <3>2. Base * y <= x
      <4>1. y = x \div Base
        BY <1>6, <2>2
      <4> HIDE DEF x, y
      <4>2. /\ x \div Base \in Nat /\ x % Base \in 0..(Base - 1)
            /\ x = Base * (x \div Base) + (x % Base)
        BY <3>1, Division, Zenon
      <4> QED
        BY <1>1, <3>1, <4>1, <4>2
    <3> HIDE DEF x, y, z
    <3>3. (Base * z) * y <= n
      <4>1. (Base * z) * y = z * (Base * y)
        BY <1>1, <3>1
      <4>2. z * (Base * y) <= z * x
        <5> DEFINE u == Base * y
        <5>1. u \in Nat /\ u <= x /\ x \in Nat /\ z \in Nat
          BY <1>1, <3>1, <3>2
        <5> HIDE DEF u
        <5>2. z * u <= z * x
          BY <5>1
        <5> QED
          BY <5>2 DEF u
      <4> DEFINE u == z * (Base * y)
                 v == z * x
      <4>3. u \in Nat /\ v \in Nat /\ u <= v /\ v <= n /\ (Base * z) * y = u
        BY <1>1, <3>1, <4>1, <4>2
      <4> HIDE DEF u, v
      <4> QED
        BY <4>3
    <3>4. Base * z \in Nat
      BY <1>1, <3>1
    <3>5. p[k + 1] \in Nat /\ p[k + 1] * q[k + 1] <= n
      BY <3>1, <3>3, <3>4 DEF y
    <3> QED
      BY <3>1, <3>5
  <2> HIDE DEF Good
  <2> QED
    BY <1>1, <2>1, <2>2, SetInduction
<1>9. p[Width] \in Nat /\ p[Width] * q[Width] <= n /\ q[Width] \in Nat
  BY <1>1, <1>6, <1>8
<1>10. ASSUME n < p[Width], q[Width] >= 1 PROVE FALSE
  <2>1. p[Width] * q[Width] >= p[Width]
    BY <1>9, <1>10
  <2> QED
    BY <1>9, <1>10, <2>1
<1>11. n < p[Width] => q[Width] = 0
  BY <1>9, <1>10
<1> QED
  BY <1>5, <1>9, <1>11 DEF q

\* Numbers that fit Width digits are written with Width digits, and of two of
\* them the smaller one has the smaller digit where they first differ.
LEMMA DigitsOrder ==
    ASSUME NEW a \in Nat, NEW b \in Nat, a < b, b < Numbers
    PROVE  /\ DOMAIN Digits(a) = 1..Width /\ DOMAIN Digits(b) = 1..Width
           /\ \E k \in 1..Width : /\ Digits(a)[k] < Digits(b)[k]
                                  /\ \A j \in 1..(k - 1) : Digits(a)[j] = Digits(b)[j]
<1> DEFINE q == Quotients(a)
           r == Quotients(b)
<1>1. /\ \A k \in 0..Width : q[k] \in Nat /\ r[k] \in Nat
      /\ q[0] = a /\ r[0] = b
      /\ \A k \in 0..Width : k < Width => /\ q[k + 1] = q[k] \div Base
                                          /\ r[k + 1] = r[k] \div Base
  BY QuotientsUpTo
<1>2. q[Width] = 0 /\ r[Width] = 0
  <2>1. Numbers \in Nat
    BY NumbersFit
  <2>2. a < Numbers
    BY <2>1
  <2> QED
    BY <2>2, NumbersFit
<1>3. /\ Digits(a) = [k \in 1..Width |-> q[Width - k] % Base]
      /\ Digits(b) = [k \in 1..Width |-> r[Width - k] % Base]
  <2>1. /\ \E len \in Width..(Width + a) :
              /\ Digits(a) = [k \in 1..len |-> q[len - k] % Base]
              /\ q[Width] = 0 => len = Width
        /\ \E len \in Width..(Width + b) :
              /\ Digits(b) = [k \in 1..len |-> r[len - k] % Base]
              /\ r[Width] = 0 => len = Width
    BY DigitsForm
  <2> HIDE DEF q, r
  <2> QED
    BY <1>2, <2>1
<1>4. Width \in Nat /\ Width \in 0..Width /\ 0 \in 0..Width
  BY Notation
<1> HIDE DEF q, r
<1> DEFINE Order == {k \in 0..Width : q[k] <= r[k]}
           Same == {k \in 0..Width : q[k] = r[k]}
<1>5. \A k \in 0..Width : k \in Order
  <2>1. 0 \in Order
    BY <1>1, <1>4
  <2>2. ASSUME NEW k \in 0..Width, k < Width, k \in Order PROVE k + 1 \in Order
    <3>1. /\ k + 1 \in 0..Width /\ q[k] \in Nat /\ r[k] \in Nat /\ q[k] <= r[k]
          /\ q[k + 1] = q[k] \div Base /\ r[k + 1] = r[k] \div Base
          /\ q[k + 1] \in Nat /\ r[k + 1] \in Nat
      BY <1>1, <1>4, <2>2
    <3>2. CASE q[k] = r[k]
      BY <3>1, <3>2
    <3>3. CASE q[k] < r[k]
      <4>1. q[k] \div Base <= r[k] \div Base
        BY <3>1, <3>3, DivisionOrder
      <4> QED
        BY <3>1, <4>1
    <3> QED
      BY <3>1, <3>2, <3>3
  <2> HIDE DEF Order
  <2> QED
    BY <1>4, <2>1, <2>2, SetInduction
<1>6. PICK m \in Same : \A k \in Same : m <= k
  <2>1. Width \in Same /\ \A k \in Same : k \in Nat
    BY <1>2, <1>4
  <2> HIDE DEF Same
  <2> QED
    BY <2>1, Least
<1>7. m \in 1..Width /\ q[m] = r[m]
  BY <1>1, <1>4, <1>6
<1>8. q[m - 1] % Base < r[m - 1] % Base
  <2>1. m - 1 \in 0..Width /\ m - 1 < Width /\ (m - 1) + 1 = m /\ m - 1 \notin Same
    BY <1>4, <1>6, <1>7
  <2>2. q[m - 1] \in Nat /\ r[m - 1] \in Nat /\ q[m - 1] <= r[m - 1] /\ q[m - 1] # r[m - 1]
    BY <1>1, <1>5, <2>1
  <2>3. q[m - 1] \div Base = r[m - 1] \div Base
    BY <1>1, <1>7, <2>1
  <2>4. q[m - 1] < r[m - 1]
    BY <2>2
  <2> QED
    BY <2>2, <2>3, <2>4, DivisionOrder
<1>9. \A k \in 0..Width : k >= m => q[k] = r[k]
  <2> DEFINE Good == {k \in 0..Width : k >= m => q[k] = r[k]}
  <2>1. 0 \in Good
    BY <1>4, <1>7
  <2>2. ASSUME NEW k \in 0..Width, k < Width, k \in Good PROVE k + 1 \in Good
    <3>1. k + 1 \in 0..Width /\ (k + 1 = m \/ k + 1 < m \/ k >= m)
      BY <1>4, <1>7, <2>2
    <3>2. CASE k >= m
      <4>1. q[k] = r[k] /\ q[k + 1] = q[k] \div Base /\ r[k + 1] = r[k] \div Base
        BY <1>1, <2>2, <3>2
      <4> QED
        BY <3>1, <4>1
    <3> QED
      BY <1>4, <1>7, <3>1, <3>2
  <2>3. \A k \in 0..Width : k \in Good
    <3> HIDE DEF Good
    <3> QED
      BY <1>4, <2>1, <2>2, SetInduction
  <2> QED
    BY <2>3
<1> DEFINE k == Width - m + 1
<1>10. k \in 1..Width /\ Width - k = m - 1
  BY <1>4, <1>7
<1>11. Digits(a)[k] < Digits(b)[k]
  BY <1>3, <1>8, <1>10
<1>12. ASSUME NEW j \in 1..(k - 1) PROVE Digits(a)[j] = Digits(b)[j]
  <2>1. j \in 1..Width /\ Width - j \in 0..Width /\ Width - j >= m
    BY <1>4, <1>7, <1>10
  <2> QED
    BY <1>3, <1>9, <2>1
<1> QED
  BY <1>3, <1>10, <1>11, <1>12

-----------------------------------------------------------------------------
(* The order of file names.                                                *)

\* s and t first differ in the k-th place: there s ends or has the smaller
\* character.
Splits(s, t, k) ==
    /\ k \in 1..Len(t) /\ k <= Len(s) + 1
    /\ \A j \in 1..(k - 1) : s[j] = t[j]
    /\ k <= Len(s) => s[k] < t[k]

\* The characters of a name are numbers.
LEMMA TextForm ==
    ASSUME NEW s \in Seq(Int)
    PROVE  Len(s) \in Nat /\ \A j \in 1..Len(s) : s[j] \in Int
  OBVIOUS

\* Before says that there is such a place.
LEMMA BeforeSplits ==
    ASSUME NEW s \in Seq(Int), NEW t \in Seq(Int)
    PROVE  Before(s, t) <=> \E k \in 1..Len(t) : Splits(s, t, k)
<1> DEFINE a == Len(s)
           b == Len(t)
           m == Min({a, b})
           Same(k) == \A j \in 1..(k - 1) : s[j] = t[j]
<1>1. a \in Nat /\ b \in Nat
  OBVIOUS
<1>2. Before(s, t) <=> \/ a < b /\ Same(a + 1)
                       \/ \E k \in 1..m : Same(k) /\ s[k] < t[k]
  BY DEF Before
<1> HIDE DEF a, b
<1>3. m \in {a, b} /\ m <= a /\ m <= b
  <2>1. \E x \in {a, b} : \A y \in {a, b} : x <= y
    BY <1>1
  <2> QED
    BY <1>1, <2>1 DEF Min
<1>4. \A k : Splits(s, t, k) <=> /\ k \in 1..b /\ k <= a + 1 /\ Same(k)
                                 /\ k <= a => s[k] < t[k]
  BY DEF Splits, a, b
<1> HIDE DEF m, Same
<1>5. ASSUME a < b, Same(a + 1) PROVE \E k \in 1..b : Splits(s, t, k)
  <2> DEFINE k == a + 1
  <2>1. k \in 1..b /\ ~(k <= a) /\ k <= a + 1 /\ Same(k)
    BY <1>1, <1>5
  <2> HIDE DEF k
  <2> QED
    BY <1>4, <2>1
<1>6. ASSUME NEW k \in 1..m, Same(k), s[k] < t[k] PROVE \E l \in 1..b : Splits(s, t, l)
  <2>1. k \in 1..b /\ k <= a + 1
    BY <1>1, <1>3
  <2> QED
    BY <1>4, <1>6, <2>1
<1>7. ASSUME NEW k \in 1..b, Splits(s, t, k)
      PROVE  \/ a < b /\ Same(a + 1)
             \/ \E l \in 1..m : Same(l) /\ s[l] < t[l]
  <2>1. k <= a + 1 /\ Same(k) /\ (k <= a => s[k] < t[k])
    BY <1>4, <1>7
  <2>2. CASE k <= a
    <3>1. k \in 1..m
      BY <1>1, <1>3, <2>2
    <3> QED
      BY <2>1, <2>2, <3>1
  <2>3. CASE ~(k <= a)
    <3>1. k = a + 1 /\ a < b
      BY <1>1, <2>1, <2>3
    <3> QED
      BY <2>1, <3>1
  <2> QED
    BY <2>2, <2>3
<1>8. Before(s, t) <=> \E k \in 1..b : Splits(s, t, k)
  BY <1>2, <1>5, <1>6, <1>7
<1> QED
  BY <1>8 DEF b

\* sort.Strings has one result: no name is before itself,
LEMMA BeforeIrreflexive ==
    ASSUME NEW s \in Seq(Int) PROVE ~Before(s, s)
<1> SUFFICES ASSUME NEW k \in 1..Len(s), Splits(s, s, k) PROVE FALSE
  BY BeforeSplits
<1>1. s[k] \in Int /\ k <= Len(s)
  OBVIOUS
<1> QED
  BY <1>1 DEF Splits

\* what is before a name is before the ones behind it,
LEMMA BeforeTransitive ==
    ASSUME NEW s \in Seq(Int), NEW t \in Seq(Int), NEW u \in Seq(Int),
           Before(s, t), Before(t, u)
    PROVE  Before(s, u)
<1>1. PICK k \in 1..Len(t) : Splits(s, t, k)
  BY BeforeSplits
<1>2. PICK l \in 1..Len(u) : Splits(t, u, l)
  BY BeforeSplits
<1> DEFINE a == Len(s)
           b == Len(t)
           c == Len(u)
<1>3. /\ a \in Nat /\ b \in Nat /\ c \in Nat
      /\ \A j \in 1..a : s[j] \in Int
      /\ \A j \in 1..b : t[j] \in Int
      /\ \A j \in 1..c : u[j] \in Int
  BY TextForm
<1>4. /\ k \in 1..b /\ k <= a + 1
      /\ \A j \in 1..(k - 1) : s[j] = t[j]
      /\ k <= a => s[k] < t[k]
  BY <1>1 DEF Splits
<1>5. /\ l \in 1..c /\ l <= b + 1
      /\ \A j \in 1..(l - 1) : t[j] = u[j]
      /\ l <= b => t[l] < u[l]
  BY <1>2 DEF Splits
<1>6. SUFFICES \E i \in 1..c : /\ i <= a + 1
                               /\ \A j \in 1..(i - 1) : s[j] = u[j]
                               /\ i <= a => s[i] < u[i]
  BY BeforeSplits DEF Splits
<1> HIDE DEF a, b, c
<1>7. CASE k < l
  <2>1. k \in 1..c /\ k \in 1..(l - 1)
    BY <1>3, <1>4, <1>5, <1>7
  <2>2. \A j \in 1..(k - 1) : j \in 1..(l - 1)
    BY <2>1
  <2>3. \A j \in 1..(k - 1) : s[j] = u[j]
    BY <1>4, <1>5, <2>2
  <2>4. t[k] = u[k]
    BY <1>5, <2>1
  <2> QED
    BY <1>4, <2>1, <2>3, <2>4
<1>8. CASE l < k
  <2>1. l <= a + 1 /\ l <= b /\ l \in 1..(k - 1)
    BY <1>3, <1>4, <1>5, <1>8
  <2>2. \A j \in 1..(l - 1) : j \in 1..(k - 1)
    BY <2>1
  <2>3. \A j \in 1..(l - 1) : s[j] = u[j]
    BY <1>4, <1>5, <2>2
  <2>4. s[l] = t[l] /\ t[l] < u[l]
    BY <1>4, <1>5, <2>1
  <2> QED
    BY <1>5, <2>1, <2>3, <2>4
<1>9. CASE k = l
  <2>1. \A j \in 1..(k - 1) : s[j] = u[j]
    BY <1>4, <1>5, <1>9
  <2>2. ASSUME k <= a PROVE s[k] < u[k]
    <3>1. s[k] \in Int /\ t[k] \in Int /\ u[k] \in Int /\ k <= b
      BY <1>3, <1>4, <1>5, <1>9, <2>2
    <3>2. s[k] < t[k] /\ t[k] < u[k]
      BY <1>4, <1>5, <1>9, <2>2, <3>1
    <3> QED
      BY <3>1, <3>2, SMTT(20)
  <2> QED
    BY <1>4, <1>5, <1>9, <2>1, <2>2
<1> QED
  BY <1>3, <1>4, <1>5, <1>7, <1>8, <1>9

\* and of two different names one is before the other.
LEMMA BeforeTotal ==
    ASSUME NEW s \in Seq(Int), NEW t \in Seq(Int)
    PROVE  s = t \/ Before(s, t) \/ Before(t, s)
<1> DEFINE a == Len(s)
           b == Len(t)
           Apart == {k \in 1..a : k <= b /\ s[k] # t[k]}
<1>1. /\ a \in Nat /\ b \in Nat
      /\ \A j \in 1..a : s[j] \in Int
      /\ \A j \in 1..b : t[j] \in Int
  BY TextForm
<1>2. (\E k \in 1..b : Splits(s, t, k)) => Before(s, t)
  BY BeforeSplits
<1>3. (\E k \in 1..a : Splits(t, s, k)) => Before(t, s)
  BY BeforeSplits
<1>4. a = b /\ (\A k \in 1..a : s[k] = t[k]) => s = t
  BY SMTT(20)
<1>5. /\ \A k : Splits(s, t, k) <=> /\ k \in 1..b /\ k <= a + 1
                                    /\ \A j \in 1..(k - 1) : s[j] = t[j]
                                    /\ k <= a => s[k] < t[k]
      /\ \A k : Splits(t, s, k) <=> /\ k \in 1..a /\ k <= b + 1
                                    /\ \A j \in 1..(k - 1) : t[j] = s[j]
                                    /\ k <= b => t[k] < s[k]
  BY DEF Splits
<1> HIDE DEF a, b
<1>6. CASE Apart = {}
  <2>1. \A k \in 1..a : k <= b => s[k] = t[k]
    BY <1>6
  <2>2. CASE a = b
    BY <1>1, <1>4, <2>1, <2>2
  <2>3. CASE a < b
    <3>1. a + 1 \in 1..b /\ a + 1 <= a + 1 /\ ~(a + 1 <= a) /\ (a + 1) - 1 = a
      BY <1>1, <2>3
    <3>2. \A j \in 1..a : s[j] = t[j]
      BY <1>1, <2>1, <2>3
    <3>3. Splits(s, t, a + 1)
      BY <1>5, <3>1, <3>2
    <3> QED
      BY <1>2, <3>1, <3>3
  <2>4. CASE b < a
    <3>1. b + 1 \in 1..a /\ b + 1 <= b + 1 /\ ~(b + 1 <= b) /\ (b + 1) - 1 = b
      BY <1>1, <2>4
    <3>2. \A j \in 1..b : t[j] = s[j]
      BY <1>1, <2>1, <2>4
    <3>3. Splits(t, s, b + 1)
      BY <1>5, <3>1, <3>2
    <3> QED
      BY <1>3, <3>1, <3>3
  <2> QED
    BY <1>1, <2>2, <2>3, <2>4
<1>7. CASE Apart # {}
  <2>1. PICK k \in Apart : \A j \in Apart : k <= j
    <3>1. \A j \in Apart : j \in Nat
      BY <1>1
    <3> HIDE DEF Apart
    <3> QED
      BY <1>7, <3>1, Least
  <2>2. k \in 1..a /\ k \in 1..b /\ k <= a + 1 /\ k <= b + 1
    BY <1>1, <2>1
  <2>3. \A j \in 1..(k - 1) : s[j] = t[j]
    <3>1. ASSUME NEW j \in 1..(k - 1), s[j] # t[j] PROVE FALSE
      <4>1. j \in 1..a /\ j <= b /\ j < k
        BY <1>1, <2>2
      <4>2. j \in Apart
        BY <3>1, <4>1
      <4> QED
        BY <2>1, <2>2, <4>1, <4>2
    <3> QED
      BY <3>1
  <2>4. s[k] < t[k] \/ t[k] < s[k]
    <3>1. s[k] \in Int /\ t[k] \in Int /\ s[k] # t[k]
      BY <1>1, <2>1, <2>2
    <3> QED
      BY <3>1
  <2>5. s[k] < t[k] => Splits(s, t, k)
    BY <1>5, <2>2, <2>3
  <2>6. t[k] < s[k] => Splits(t, s, k)
    BY <1>5, <2>2, <2>3
  <2> QED
    BY <1>2, <1>3, <2>2, <2>4, <2>5, <2>6
<1> QED
  BY <1>6, <1>7

\* The names of files; a name of the form that Expand gives the i-th rule file:
\* len digits, a dash and the id.
FileNames == [text : Seq(Int), conf : BOOLEAN]

Written(text, i, id, len) ==
    /\ DOMAIN Digits(i) = 1..len
    /\ text \in Seq(Int) /\ Len(text) = len + 2
    /\ \A k \in 1..len : Digits(i)[k] \in Int /\ text[k] = Digits(i)[k] + 1
    /\ text[len + 2] = id

\* The characters of two texts in a row.
LEMMA Joined ==
    ASSUME NEW s \in Seq(Int), NEW t \in Seq(Int)
    PROVE  /\ s \o t \in Seq(Int) /\ Len(s \o t) = Len(s) + Len(t)
           /\ \A k \in 1..Len(s) : (s \o t)[k] = s[k]
           /\ \A k \in 1..Len(t) : (s \o t)[Len(s) + k] = t[k]
<1>1. s \o t \in Seq(Int) /\ Len(s \o t) = Len(s) + Len(t)
  OBVIOUS
<1>2. \A k \in 1..Len(s) : (s \o t)[k] = s[k]
  OBVIOUS
<1>3. \A k \in 1..Len(t) : (s \o t)[Len(s) + k] = t[k]
  OBVIOUS
<1> QED
  BY <1>1, <1>2, <1>3

\* The name of a rule file has that form.
LEMMA RuleFileForm ==
    ASSUME NEW i \in Nat, NEW id \in Int
    PROVE  /\ RuleFile(i, id) \in FileNames /\ RuleFile(i, id).conf
           /\ \E len \in Nat : Written(RuleFile(i, id).text, i, id, len)
<1>1. PICK len \in Nat : DOMAIN Digits(i) = 1..len /\ \A k \in 1..len : Digits(i)[k] \in Nat
  <2>1. PICK len \in Width..(Width + i) :
           /\ Digits(i) = [k \in 1..len |-> Quotients(i)[len - k] % Base]
           /\ \A k \in 1..len : Digits(i)[k] \in Nat
    BY DigitsForm
  <2>2. len \in Nat
    BY Notation
  <2> QED
    BY <2>1, <2>2
<1> DEFINE number == [k \in DOMAIN Digits(i) |-> Digits(i)[k] + 1]
           rest == <<Dash, id>>
           text == RuleFile(i, id).text
<1>2. number = [k \in 1..len |-> Digits(i)[k] + 1] /\ \A k \in 1..len : Digits(i)[k] + 1 \in Int
  BY <1>1
<1>3. number \in Seq(Int) /\ Len(number) = len /\ \A k \in 1..len : number[k] = Digits(i)[k] + 1
  BY <1>2
<1>4. rest \in Seq(Int) /\ Len(rest) = 2 /\ rest[2] = id
  BY DEF Dash
<1>5. /\ text = number \o rest /\ RuleFile(i, id).conf
      /\ RuleFile(i, id) = [text |-> text, conf |-> TRUE]
  BY DEF RuleFile
<1> HIDE DEF number, rest, text
<1>6. /\ text \in Seq(Int) /\ Len(text) = len + 2
      /\ \A k \in 1..len : text[k] = number[k]
      /\ text[len + 2] = id
  <2>1. /\ text \in Seq(Int) /\ Len(text) = Len(number) + Len(rest)
        /\ \A k \in 1..Len(number) : text[k] = number[k]
        /\ \A k \in 1..Len(rest) : text[Len(number) + k] = rest[k]
    BY <1>3, <1>4, <1>5, Joined, ZenonT(30)
  <2>2. 2 \in 1..Len(rest)
    BY <1>4
  <2> QED
    BY <1>3, <1>4, <2>1, <2>2
<1>7. RuleFile(i, id) \in FileNames
  BY <1>5, <1>6 DEF FileNames
<1>8. \A k \in 1..len : Digits(i)[k] \in Int /\ text[k] = Digits(i)[k] + 1
  BY <1>1, <1>3, <1>6
<1> QED
  BY <1>1, <1>5, <1>6, <1>7, <1>8 DEF text, Written

\* The id can be read from the name.
LEMMA SameRule ==
    ASSUME NEW i \in Nat, NEW j \in Nat, NEW x \in Int, NEW y \in Int,
           RuleFile(i, x) = RuleFile(j, y)
    PROVE  x = y
<1> DEFINE s == RuleFile(i, x).text
           t == RuleFile(j, y).text
<1>1. PICK m \in Nat : Written(s, i, x, m)
  BY RuleFileForm
<1>2. PICK n \in Nat : Written(t, j, y, n)
  BY RuleFileForm
<1>3. s = t
  OBVIOUS
<1> HIDE DEF s, t
<1>4. m + 2 = n + 2
  BY <1>1, <1>2, <1>3 DEF Written
<1> QED
  BY <1>1, <1>2, <1>3, <1>4 DEF Written

\* The names of rule files sort like the numbers in front of them, as long as
\* those fit the width: the digits before the first that differs are the same.
LEMMA RuleFileOrder ==
    ASSUME NEW i \in Nat, NEW j \in Nat, NEW x \in Int, NEW y \in Int, i < j, j < Numbers
    PROVE  Before(RuleFile(i, x).text, RuleFile(j, y).text)
<1> DEFINE s == RuleFile(i, x).text
           t == RuleFile(j, y).text
<1>1. PICK m \in Nat : Written(s, i, x, m)
  BY RuleFileForm
<1>2. PICK n \in Nat : Written(t, j, y, n)
  BY RuleFileForm
<1>3. /\ DOMAIN Digits(i) = 1..Width /\ DOMAIN Digits(j) = 1..Width
      /\ \E k \in 1..Width : /\ Digits(i)[k] < Digits(j)[k]
                             /\ \A l \in 1..(k - 1) : Digits(i)[l] = Digits(j)[l]
  BY DigitsOrder
<1> HIDE DEF s, t
<1>4. PICK k \in 1..Width : /\ Digits(i)[k] < Digits(j)[k]
                            /\ \A l \in 1..(k - 1) : Digits(i)[l] = Digits(j)[l]
  BY <1>3
<1>5. Width \in Nat
  BY Notation
<1>6. m = Width /\ n = Width
  <2>1. ASSUME NEW a \in Nat, NEW b \in Nat, 1..a = 1..b PROVE a = b
    BY <2>1
  <2> QED
    BY <1>1, <1>2, <1>3, <1>5, <2>1 DEF Written
<1>7. k \in 1..Len(t) /\ k <= Len(s) + 1
  BY <1>1, <1>2, <1>5, <1>6 DEF Written
<1>8. s[k] < t[k]
  <2>1. /\ s[k] = Digits(i)[k] + 1 /\ t[k] = Digits(j)[k] + 1
        /\ Digits(i)[k] \in Int /\ Digits(j)[k] \in Int
    BY <1>1, <1>2, <1>6 DEF Written
  <2> QED
    BY <1>4, <2>1
<1>9. ASSUME NEW l \in 1..(k - 1) PROVE s[l] = t[l]
  <2>1. l \in 1..Width
    BY <1>5
  <2>2. s[l] = Digits(i)[l] + 1 /\ t[l] = Digits(j)[l] + 1
    BY <1>1, <1>2, <1>6, <2>1 DEF Written
  <2> QED
    BY <1>4, <2>2
<1>10. Before(s, t)
  <2>1. Splits(s, t, k)
    BY <1>7, <1>8, <1>9 DEF Splits
  <2>2. s \in Seq(Int) /\ t \in Seq(Int)
    BY <1>1, <1>2 DEF Written
  <2> QED
    BY <1>7, <2>1, <2>2, BeforeSplits
<1> QED
  BY <1>10 DEF s, t

-----------------------------------------------------------------------------
(* Sorting. Loaded puts a name at the place that its rank among the others *)
(* gives it; the ranks are the numbers below the size of the set.          *)

Below(C, n) == {m \in C : Before(m.text, n.text)}
Rank(C, n) == Cardinality(Below(C, n))

\* A set of *.conf files.
ConfSet(C) == IsFiniteSet(C) /\ \A n \in C : n \in FileNames /\ n.conf

\* Two of them with the same characters are one.
LEMMA ConfNames ==
    ASSUME NEW m \in FileNames, NEW n \in FileNames, m.conf, n.conf, m.text = n.text
    PROVE  m = n
<1>1. /\ m = [text |-> m.text, conf |-> m.conf] /\ n = [text |-> n.text, conf |-> n.conf]
      /\ m.conf \in BOOLEAN /\ n.conf \in BOOLEAN
  BY DEF FileNames
<1>2. m.conf = n.conf
  BY <1>1
<1> QED
  BY <1>1, <1>2

\* A name has a higher rank than one before it, because whatever is before that
\* is before it, too.
LEMMA RankGrows ==
    ASSUME NEW C, ConfSet(C), NEW m \in C, NEW n \in C, Before(m.text, n.text)
    PROVE  Rank(C, m) < Rank(C, n)
<1> DEFINE A == Below(C, m)
           B == Below(C, n)
<1>1. \A x \in C : x.text \in Seq(Int)
  BY DEF ConfSet, FileNames
<1>2. A \in SUBSET B
  <2> SUFFICES ASSUME NEW x \in C, Before(x.text, m.text) PROVE Before(x.text, n.text)
    BY DEF Below
  <2> QED
    BY <1>1, BeforeTransitive
<1>3. m \in B /\ m \notin A
  <2>1. ~Before(m.text, m.text)
    BY <1>1, BeforeIrreflexive
  <2> QED
    BY <2>1 DEF Below
<1>4. B \in SUBSET C /\ IsFiniteSet(C)
  BY DEF Below, ConfSet
<1> HIDE DEF A, B
<1>5. IsFiniteSet(B)
  BY <1>4, FS_Subset
<1>6. /\ IsFiniteSet(A) /\ Cardinality(A) <= Cardinality(B)
      /\ Cardinality(B) = Cardinality(A) => B = A
  BY <1>2, <1>5, FS_Subset
<1>7. Cardinality(A) \in Nat /\ Cardinality(B) \in Nat
  BY <1>5, <1>6, FS_CardinalityType
<1>8. Cardinality(A) < Cardinality(B)
  BY <1>3, <1>6, <1>7
<1> QED
  BY <1>8 DEF A, B, Rank

\* The ranks are numbers below the size of the set, for no name is before itself,
LEMMA RankBounds ==
    ASSUME NEW C, ConfSet(C), NEW n \in C
    PROVE  Cardinality(C) \in Nat /\ Rank(C, n) \in 0..(Cardinality(C) - 1)
<1> DEFINE B == Below(C, n)
<1>1. B \in SUBSET C /\ IsFiniteSet(C)
  BY DEF Below, ConfSet
<1>2. n \notin B
  <2>1. n.text \in Seq(Int)
    BY DEF ConfSet, FileNames
  <2>2. ~Before(n.text, n.text)
    BY <2>1, BeforeIrreflexive
  <2> QED
    BY <2>2 DEF Below
<1> HIDE DEF B
<1>3. /\ IsFiniteSet(B) /\ Cardinality(B) <= Cardinality(C)
      /\ Cardinality(C) = Cardinality(B) => C = B
  BY <1>1, FS_Subset
<1>4. Cardinality(B) \in Nat /\ Cardinality(C) \in Nat
  BY <1>1, <1>3, FS_CardinalityType
<1>5. Cardinality(B) \in 0..(Cardinality(C) - 1)
  BY <1>2, <1>3, <1>4
<1> QED
  BY <1>4, <1>5 DEF B, Rank

\* no two names have the same rank,
LEMMA RankInjective ==
    ASSUME NEW C, ConfSet(C), NEW m \in C, NEW n \in C, Rank(C, m) = Rank(C, n)
    PROVE  m = n
<1>1. m \in FileNames /\ m.conf /\ n \in FileNames /\ n.conf
  BY DEF ConfSet
<1>2. m.text \in Seq(Int) /\ n.text \in Seq(Int)
  BY <1>1 DEF FileNames
<1>3. Rank(C, m) \in Int /\ Rank(C, n) \in Int
  BY RankBounds
<1>4. ~Before(m.text, n.text) /\ ~Before(n.text, m.text)
  <2>1. Before(m.text, n.text) => Rank(C, m) < Rank(C, n)
    BY RankGrows
  <2>2. Before(n.text, m.text) => Rank(C, n) < Rank(C, m)
    BY RankGrows
  <2> QED
    BY <1>3, <2>1, <2>2
<1>5. m.text = n.text
  BY <1>2, <1>4, BeforeTotal
<1> QED
  BY <1>1, <1>5, ConfNames

\* and so every such number is a rank.
LEMMA RankOnto ==
    ASSUME NEW C, ConfSet(C), NEW i \in 0..(Cardinality(C) - 1)
    PROVE  \E n \in C : Rank(C, n) = i
<1> DEFINE T == 0..(Cardinality(C) - 1)
           f == [n \in C |-> Rank(C, n)]
<1>1. IsFiniteSet(C)
  BY DEF ConfSet
<1>2. Cardinality(C) \in Nat
  BY <1>1, FS_CardinalityType
<1>3. IsFiniteSet(T) /\ Cardinality(T) = Cardinality(C)
  <2>1. 0 \in Int /\ Cardinality(C) - 1 \in Int
    BY <1>2
  <2>2. /\ IsFiniteSet(T)
        /\ Cardinality(T) = IF 0 > Cardinality(C) - 1 THEN 0 ELSE (Cardinality(C) - 1) - 0 + 1
    BY <2>1, FS_Interval
  <2> QED
    BY <1>2, <2>2
<1>4. f \in Injection(C, T)
  <2>1. f \in [C -> T]
    BY RankBounds
  <2>2. \A m, n \in C : f[m] = f[n] => m = n
    BY RankInjective
  <2> HIDE DEF f, T
  <2> QED
    BY <2>1, <2>2 DEF Injection, IsInjective
<1>5. f \in Surjection(C, T)
  <2> HIDE DEF f, T
  <2> QED
    BY <1>3, <1>4, FS_Injection
<1>6. \E n \in C : f[n] = i
  <2>1. i \in T
    OBVIOUS
  <2> HIDE DEF f, T
  <2> QED
    BY <1>5, <2>1 DEF Surjection
<1> QED
  BY <1>6

\* What buildTree reads: every *.conf file of the directory, with its text, in
\* the order of the names.
Sorted(names, rules, tree) ==
    LET confs == {n \in DOMAIN tree : n.conf}
    IN  /\ \A k \in DOMAIN names : names[k] \in confs /\ rules[k] = tree[names[k]]
        /\ \A n \in confs : \E k \in DOMAIN names : names[k] = n
        /\ \A k, l \in DOMAIN names : Before(names[k].text, names[l].text) => k < l

\* Loaded, which asks for the name of each rank, finds it.
LEMMA LoadedSorted ==
    ASSUME NEW tree, ConfSet({n \in DOMAIN tree : n.conf})
    PROVE  Sorted(Loaded(tree).names, Loaded(tree).rules, tree)
<1> DEFINE C == {n \in DOMAIN tree : n.conf}
           order == [i \in 1..Cardinality(C) |-> CHOOSE n \in C : Rank(C, n) = i - 1]
           names == Loaded(tree).names
           rules == Loaded(tree).rules
<1>1. names = order /\ rules = [i \in DOMAIN order |-> tree[order[i]]]
  BY DEF Loaded, Rank, Below
<1>2. ConfSet(C)
  OBVIOUS
<1> HIDE DEF C
<1>3. Cardinality(C) \in Nat
  BY <1>2, FS_CardinalityType DEF ConfSet
<1>4. ASSUME NEW i \in 1..Cardinality(C) PROVE order[i] \in C /\ Rank(C, order[i]) = i - 1
  <2>1. i - 1 \in 0..(Cardinality(C) - 1)
    BY <1>3
  <2>2. \E n \in C : Rank(C, n) = i - 1
    BY <1>2, <2>1, RankOnto
  <2> QED
    BY <2>2
<1>5. ASSUME NEW n \in C PROVE \E i \in 1..Cardinality(C) : order[i] = n
  <2> DEFINE i == Rank(C, n) + 1
  <2>1. Rank(C, n) \in 0..(Cardinality(C) - 1)
    BY <1>2, RankBounds
  <2>2. i \in 1..Cardinality(C) /\ i - 1 = Rank(C, n)
    BY <1>3, <2>1
  <2>3. order[i] \in C /\ Rank(C, order[i]) = Rank(C, n)
    BY <1>4, <2>2
  <2> HIDE DEF order
  <2>4. order[i] = n
    BY <1>2, <2>3, RankInjective
  <2> QED
    BY <2>2, <2>4
<1> HIDE DEF order
<1>6. DOMAIN order = 1..Cardinality(C)
  BY DEF order
<1>7. ASSUME NEW k \in DOMAIN order, NEW l \in DOMAIN order, Before(order[k].text, order[l].text)
      PROVE  k < l
  <2>1. order[k] \in C /\ order[l] \in C /\ Rank(C, order[k]) = k - 1 /\ Rank(C, order[l]) = l - 1
    BY <1>4, <1>6
  <2>2. k - 1 < l - 1
    BY <1>2, <1>7, <2>1, RankGrows
  <2> QED
    BY <1>3, <1>6, <2>2
<1>8. \A k \in DOMAIN order : order[k] \in C /\ rules[k] = tree[order[k]]
  BY <1>1, <1>4, <1>6
<1>9. \A n \in C : \E k \in DOMAIN order : order[k] = n
  BY <1>5, <1>6
<1> HIDE DEF names, rules
<1>10. Sorted(names, rules, tree)
  BY <1>1, <1>7, <1>8, <1>9 DEF Sorted, C
<1> QED
  BY <1>10 DEF names, rules

-----------------------------------------------------------------------------
(* Facts about the operators.                                              *)

\* The names of a pack's profiles, and the blobs it names.
LEMMA PackForm ==
    ASSUME pack \in PackSet \cup {NoPack}
    PROVE  /\ \A n \in DOMAIN pack.profiles : n = <<n[1], n[2]>> /\ n[1] \in Nat
           /\ \A n \in DOMAIN pack.profiles : pack.profiles[n] \in Contents
           /\ \A n \in DOMAIN pack.files : pack.files[n] \in Contents
           /\ \A n \in DOMAIN pack.policies : pack.policies[n] \in Contents
           /\ \A n \in DOMAIN pack.data : pack.data[n] \in Contents
<1>1. CASE pack \in PackSet
  BY <1>1, PacksAssumption DEF Range
<1>2. CASE pack = NoPack
  BY <1>2 DEF NoPack, Empty
<1> QED
  BY <1>1, <1>2

\* Two runtime profiles of a pack have different destinations: a long name is
\* left out where the short one is taken.
LEMMA DestInjective ==
    ASSUME pack \in PackSet \cup {NoPack},
           NEW m \in DOMAIN pack.profiles, NEW n \in DOMAIN pack.profiles,
           IsRuntime(pack, m), IsRuntime(pack, n), Dest(m) = Dest(n)
    PROVE  m = n
<1>1. /\ m = <<m[1], m[2]>> /\ m[1] \in Nat
      /\ n = <<n[1], n[2]>> /\ n[1] \in Nat
  BY PackForm
<1>2. CASE m[1] > 0 /\ n[1] > 0
  <2>1. m[1] - 1 = n[1] - 1 /\ m[2] = n[2]
    BY <1>2 DEF Dest, Short
  <2> QED
    BY <1>1, <2>1
<1>3. CASE ~(m[1] > 0) /\ ~(n[1] > 0)
  BY <1>3 DEF Dest
<1>4. CASE m[1] > 0 /\ ~(n[1] > 0)
  BY <1>4 DEF Dest, IsRuntime
<1>5. CASE ~(m[1] > 0) /\ n[1] > 0
  BY <1>5 DEF Dest, IsRuntime
<1> QED
  BY <1>2, <1>3, <1>4, <1>5

\* So the random order in which RuntimeProfiles walks the pack does not matter:
\* FetchBlobs and Expand find the same profiles with the same lists.
LEMMA RuntimeUnique ==
    ASSUME pack \in PackSet \cup {NoPack},
           NEW f \in RuntimeProfiles(pack), NEW g \in RuntimeProfiles(pack)
    PROVE  f = g
<1> DEFINE names == {n \in DOMAIN pack.profiles : IsRuntime(pack, n)}
           dests == {Dest(n) : n \in names}
<1>1. /\ f \in [dests -> Range(pack.profiles)] /\ g \in [dests -> Range(pack.profiles)]
      /\ \A d \in dests : \E n \in names : Dest(n) = d /\ f[d] = pack.profiles[n]
      /\ \A d \in dests : \E n \in names : Dest(n) = d /\ g[d] = pack.profiles[n]
  BY DEF RuntimeProfiles
<1>2. ASSUME NEW d \in dests PROVE f[d] = g[d]
  <2>1. PICK m \in names : Dest(m) = d /\ f[d] = pack.profiles[m]
    BY <1>1
  <2>2. PICK n \in names : Dest(n) = d /\ g[d] = pack.profiles[n]
    BY <1>1
  <2>3. m = n
    BY <2>1, <2>2, DestInjective
  <2> QED
    BY <2>1, <2>2, <2>3
<1> HIDE DEF dests
<1> QED
  BY <1>1, <1>2

\* A sound answer is every blob that was asked for, under its own hash.
LEMMA SoundAnswer ==
    ASSUME NEW H, NEW answer \in Answers(H), Sound(answer)
    PROVE  DOMAIN answer = H /\ \A h \in H : answer[h] = h
<1>1. DOMAIN answer = H
  BY DEF Answers
<1> QED
  BY <1>1 DEF Sound

-----------------------------------------------------------------------------
(* The inductive invariant.                                                *)

\* Blobs are what they are called, and name no unknown content.
BlobsOK == \A h \in DOMAIN blobs : blobs[h] = h /\ h \in Contents

\* What the first round established, and the second.
Fetched ==
    /\ pc \in {"files", "expand", "write", "done"} =>
          /\ runtime \in RuntimeProfiles(pack)
          /\ \A d \in DOMAIN runtime : runtime[d] \in DOMAIN blobs /\ ListOK(runtime[d])
    /\ pc \in {"expand", "write", "done"} => FileHashes(runtime, blobs) \subseteq DOMAIN blobs

\* What Expand and writeTree made of it.
Manifest == [d \in DOMAIN runtime |-> Expanded(d, runtime)]
Trees == [d \in DOMAIN manifest |-> Loaded(Tree(d))]

Made ==
    /\ pc \in {"write", "done"} => manifest = Manifest
    /\ pc = "done" => loaded = Trees

Inv ==
    /\ TypeOK
    /\ BlobsOK
    /\ Fetched
    /\ Made
\* Nothing has been fetched at the start.
LEMMA InvInit == Init => Inv
  BY DEF Init, Inv, TypeOK, BlobsOK, Fetched, Made, Empty, Range

\* A new pack starts from nothing.
LEMMA ReceiveStep == ASSUME NEW p \in PackSet, Receive(p) PROVE Inv'
  BY DEF Receive, Inv, TypeOK, BlobsOK, Fetched, Made, Empty, Range

\* The first round fetches the lists of all runtime profiles.
LEMMA FetchListsStep == ASSUME Inv, FetchLists PROVE Inv'
<1> USE DEF Inv
<1>1. CASE FetchListsFails
  BY <1>1 DEF FetchLists, FetchListsFails, TypeOK, BlobsOK, Fetched, Made
<1>2. CASE FetchListsOK
  <2>1. PICK rt \in RuntimeProfiles(pack) : \E answer \in Answers(Range(rt)) :
            /\ Sound(answer)
            /\ \A d \in DOMAIN rt : ListOK(answer[rt[d]])
            /\ runtime' = rt
            /\ blobs' = answer
    BY <1>2 DEF FetchListsOK
  <2>2. PICK answer \in Answers(Range(rt)) :
            /\ Sound(answer)
            /\ \A d \in DOMAIN rt : ListOK(answer[rt[d]])
            /\ runtime' = rt
            /\ blobs' = answer
    BY <2>1
  <2>3. DOMAIN answer = Range(rt) /\ \A h \in Range(rt) : answer[h] = h
    BY <2>2, SoundAnswer
  <2>4. \A d \in DOMAIN rt : rt[d] \in Range(rt) /\ rt[d] \in Range(pack.profiles)
    BY DEF RuntimeProfiles, Range
  <2>5. \A h \in Range(rt) : h \in Contents
    BY <2>4, PackForm DEF Range, TypeOK
  <2>6. pack' = pack /\ pc' = "files" /\ pc = "lists" /\ UNCHANGED <<manifest, loaded>>
    BY <1>2 DEF FetchLists, FetchListsOK
  <2>7. TypeOK'
    BY <2>2, <2>3, <2>4, <2>5, <2>6 DEF TypeOK, Range
  <2>8. BlobsOK'
    BY <2>2, <2>3, <2>5 DEF BlobsOK
  <2>9. Fetched'
    <3>1. \A d \in DOMAIN rt : rt[d] \in DOMAIN answer /\ ListOK(rt[d])
      BY <2>2, <2>3, <2>4
    <3> QED
      BY <2>2, <2>6, <3>1 DEF Fetched, ListOK
  <2> QED
    BY <2>6, <2>7, <2>8, <2>9 DEF Made
<1> QED
  BY <1>1, <1>2 DEF FetchLists

\* The second round fetches everything the lists, the policies and the data
\* files name.
LEMMA FetchFilesStep == ASSUME Inv, FetchFiles PROVE Inv'
<1> USE DEF Inv
<1>1. CASE FetchFilesFails
  BY <1>1 DEF FetchFiles, FetchFilesFails, TypeOK, BlobsOK, Fetched, Made, Empty, Range
<1>2. CASE FetchFilesOK
  <2> DEFINE H == FileHashes(runtime, blobs)
  <2>1. PICK answer \in Answers(H) :
            /\ Sound(answer)
            /\ blobs' = [h \in DOMAIN blobs \cup DOMAIN answer |->
                            IF h \in DOMAIN answer THEN answer[h] ELSE blobs[h]]
    BY <1>2 DEF FetchFilesOK
  <2>2. DOMAIN answer = H /\ \A h \in H : answer[h] = h
    BY <2>1, SoundAnswer
  <2>3. pc = "files" /\ pc' = "expand" /\ UNCHANGED <<pack, runtime, manifest, loaded>>
    BY <1>2 DEF FetchFiles, FetchFilesOK
  <2>4. DOMAIN blobs' = DOMAIN blobs \cup H
    BY <2>1, <2>2
  <2>5. \A h \in H : h \in Contents
    <3>1. \A d \in DOMAIN runtime : blobs[runtime[d]] = runtime[d] /\ ListOK(runtime[d])
      BY <2>3 DEF BlobsOK, Fetched
    <3>2. \A d \in DOMAIN runtime : Range(Ids(runtime[d])) \subseteq DOMAIN pack.files
      BY <3>1 DEF ListOK
    <3> QED
      BY <3>1, <3>2, PackForm DEF FileHashes, Policies, TypeOK, Range
  <2>6. \A h \in DOMAIN blobs' : blobs'[h] = h /\ h \in Contents
    BY <2>1, <2>2, <2>4, <2>5 DEF BlobsOK
  <2>7. TypeOK' /\ BlobsOK'
    BY <2>3, <2>4, <2>6 DEF TypeOK, BlobsOK, Range
  <2>8. Fetched'
    <3>1. FileHashes(runtime, blobs)' = H
      <4>1. \A d \in DOMAIN runtime : blobs[runtime[d]] = blobs'[runtime[d]]
        BY <2>3, <2>4, <2>6 DEF BlobsOK, Fetched
      <4> QED
        BY <2>3, <4>1 DEF FileHashes, Policies
    <3> QED
      BY <2>3, <2>4, <3>1 DEF Fetched, ListOK
  <2> QED
    BY <2>3, <2>7, <2>8 DEF Made
<1> QED
  BY <1>1, <1>2 DEF FetchFiles

\* What is made depends on the pack and the blobs alone.
LEMMA SameMade ==
    ASSUME UNCHANGED <<pack, runtime, blobs>>
    PROVE  /\ Manifest' = Manifest
           /\ UNCHANGED manifest => Trees' = Trees
<1>1. Manifest' = Manifest
  <2>1. \A d, rt : Expanded(d, rt)' = Expanded(d, rt)
    BY DEF Expanded, RuleFiles
  <2> QED
    BY <2>1 DEF Manifest
<1>2. ASSUME UNCHANGED manifest PROVE Trees' = Trees
  <2>1. ASSUME NEW d PROVE Tree(d)' = Tree(d)
    BY <1>2 DEF Tree
  <2> QED
    BY <1>2, <2>1 DEF Trees
<1> QED
  BY <1>1, <1>2

\* Expand finds the profiles that FetchBlobs found.
LEMMA ExpandStep == ASSUME Inv, Expand PROVE Inv'
<1> USE DEF Inv
<1>1. UNCHANGED <<pack, runtime, blobs, loaded>> /\ pc = "expand" /\ pc' \in {"write", "refused"}
  BY DEF Expand
<1>2. TypeOK' /\ BlobsOK' /\ Fetched'
  BY <1>1 DEF TypeOK, BlobsOK, Fetched, FileHashes, Policies, ListOK
<1>3. ASSUME pc' = "write" PROVE manifest' = Manifest
  <2>1. PICK rt \in RuntimeProfiles(pack) : manifest' = [d \in DOMAIN rt |-> Expanded(d, rt)]
    BY <1>3 DEF Expand
  <2>2. rt = runtime
    BY <1>1, RuntimeUnique DEF Fetched, TypeOK
  <2> QED
    BY <2>1, <2>2 DEF Manifest
<1>4. Made'
  BY <1>1, <1>3, SameMade DEF Made
<1> QED
  BY <1>2, <1>4

\* writeTree and the registry work on what Expand made.
LEMMA WriteStep == ASSUME Inv, Write PROVE Inv'
<1> USE DEF Inv
<1>1. UNCHANGED <<pack, runtime, blobs, manifest>> /\ pc = "write" /\ pc' \in {"done", "refused"}
  BY DEF Write
<1>2. TypeOK' /\ BlobsOK' /\ Fetched'
  BY <1>1 DEF TypeOK, BlobsOK, Fetched, FileHashes, Policies, ListOK
<1>3. Made'
  BY <1>1, SameMade DEF Made, Write, Trees
<1> QED
  BY <1>2, <1>3

\* Every step keeps the invariant.
LEMMA InvStep == ASSUME Inv, [Next]_vars PROVE Inv'
<1>1. CASE Retry
  BY <1>1 DEF Retry, Inv, TypeOK, BlobsOK, Fetched, Made
<1>2. CASE UNCHANGED vars
  BY <1>2, SameMade DEF vars, Inv, TypeOK, BlobsOK, Fetched, FileHashes, Policies, ListOK,
                        Made
<1> QED
  BY <1>1, <1>2, ReceiveStep, FetchListsStep, FetchFilesStep, ExpandStep, WriteStep DEF Next
-----------------------------------------------------------------------------
(* The theorems.                                                           *)

\* The invariant holds in every reachable state.
LEMMA Invariance == Spec => []Inv
  BY InvInit, InvStep, PTL DEF Spec

\* What is fetched is known content, and no list is missing that a runtime
\* profile refers to.
THEOREM TypeCorrect == Spec => []TypeOK
<1>1. Inv => TypeOK
  BY DEF Inv
<1> QED
  BY <1>1, Invariance, PTL

\* Whatever pack is published and whatever the store answered, Expand finds every
\* blob it looks up: FetchBlobs, which works out the same profiles on its own, in
\* another random order, has fetched them all.
THEOREM NothingLeftToFetch == Spec => []FetchCoversExpand
<1>1. Inv => FetchCoversExpand
  <2> SUFFICES ASSUME Inv, pc = "expand", NEW rt \in RuntimeProfiles(pack)
               PROVE  Needed(rt) \subseteq DOMAIN blobs
    BY DEF FetchCoversExpand
  <2>1. rt = runtime
    BY RuntimeUnique DEF Inv, Fetched, TypeOK
  <2>2. \A d \in DOMAIN runtime : runtime[d] \in DOMAIN blobs /\ blobs[runtime[d]] = runtime[d]
    BY DEF Inv, Fetched, BlobsOK
  <2>3. FileHashes(runtime, blobs) \subseteq DOMAIN blobs
    BY DEF Inv, Fetched
  <2> QED
    BY <2>1, <2>2, <2>3 DEF Needed, FileHashes, Policies, Range
<1> QED
  BY <1>1, Invariance, PTL

\* Every profile x or pack-x of the pack is served under the name x.
LEMMA EveryProfileServed == ASSUME Inv, pc = "done" PROVE AllServed
<1> DEFINE names == {n \in DOMAIN pack.profiles : IsRuntime(pack, n)}
<1>1. DOMAIN loaded = {Dest(n) : n \in names}
  BY DEF Inv, Fetched, Made, Trees, Manifest, RuntimeProfiles
<1>2. SUFFICES ASSUME NEW n \in DOMAIN pack.profiles, n[1] <= 1, n[2] \notin Volumes
               PROVE  \E m \in names : Dest(m) = Dest(n)
  BY <1>1 DEF AllServed
<1>3. n = <<n[1], n[2]>> /\ n[1] \in {0, 1}
  BY <1>2, PackForm DEF Inv, TypeOK
<1>4. CASE n[1] = 0 \/ Short(n) \notin DOMAIN pack.profiles
  BY <1>2, <1>3, <1>4 DEF IsRuntime
<1>5. CASE n[1] = 1 /\ Short(n) \in DOMAIN pack.profiles
  <2>1. Short(n)[1] = 0 /\ Short(n)[2] = n[2]
    BY <1>5 DEF Short
  <2>2. IsRuntime(pack, Short(n)) /\ Dest(Short(n)) = Short(n) /\ Dest(n) = Short(n)
    BY <1>2, <1>5, <2>1 DEF IsRuntime, Dest
  <2> QED
    BY <1>5, <2>2
<1> QED
  BY <1>3, <1>4, <1>5

\* No data file and no rule file takes the place of a profile's policy.
LEMMA PolicyPrevails ==
    ASSUME Inv, pc = "done", NEW d \in DOMAIN loaded PROVE OwnPolicy(d)
<1> SUFFICES ASSUME d \in DOMAIN pack.policies PROVE loaded[d].policy = pack.policies[d]
  BY DEF OwnPolicy
<1> DEFINE hash == pack.policies[d]
           ids == Ids(blobs[runtime[d]])
           files == RuleFiles(ids)
           first == [name |-> PolicyFile, text |-> blobs[hash]]
<1>1. /\ d \in DOMAIN runtime /\ d \in DOMAIN manifest
      /\ manifest[d] = Expanded(d, runtime) /\ loaded[d] = Loaded(Tree(d))
  BY DEF Inv, Made, Trees, Manifest
<1>2. blobs[hash] = hash
  BY <1>1 DEF Inv, Fetched, FileHashes, Policies, BlobsOK
<1>3. ids \in Seq(Int)
  BY PacksAssumption DEF Ids
<1>4. files \in Seq(Range(files)) /\ \A i \in DOMAIN files : files[i].name.conf
  <2>1. Len(ids) \in Nat /\ DOMAIN files = 1..Len(ids)
    BY <1>3 DEF RuleFiles
  <2>2. \A i \in DOMAIN files : files[i].name.conf
    BY DEF RuleFiles, RuleFile
  <2>3. files = [i \in DOMAIN files |-> files[i]]
    BY DEF RuleFiles
  <2> HIDE DEF files
  <2>4. files \in [1..Len(ids) -> Range(files)]
    BY <2>1, <2>3 DEF Range
  <2> QED
    BY <2>1, <2>2, <2>4
<1>5. manifest[d] = <<first>> \o files
  BY <1>1 DEF Expanded
<1>6. first \in Range(manifest[d])
  <2> HIDE DEF first, files
  <2>1. 1 \in DOMAIN (<<first>> \o files) /\ (<<first>> \o files)[1] = first
    BY <1>4
  <2> QED
    BY <1>5, <2>1 DEF Range
<1>7. ASSUME NEW f \in Range(manifest[d]), f.name = PolicyFile PROVE f.text = hash
  BY <1>2, <1>4, <1>5, <1>7 DEF Range, PolicyFile
<1>8. PolicyFile \in DOMAIN Tree(d) /\ Tree(d)[PolicyFile] = Rewritten(hash, d)
  BY <1>6, <1>7 DEF Tree, Range
<1> QED
  BY <1>1, <1>8 DEF Loaded, Rewritten

-----------------------------------------------------------------------------
(* What is read of a profile.                                              *)

\* The elements of two sequences in a row.
LEMMA RangeJoined ==
    ASSUME NEW S, NEW s \in Seq(S), NEW t \in Seq(S)
    PROVE  \A x : x \in Range(s \o t) <=> x \in Range(s) \/ x \in Range(t)
<1> DEFINE u == s \o t
           a == Len(s)
           b == Len(t)
<1>1. /\ a \in Nat /\ b \in Nat
      /\ DOMAIN s = 1..a /\ DOMAIN t = 1..b /\ DOMAIN u = 1..(a + b)
  OBVIOUS
<1>2. \A k \in 1..a : u[k] = s[k]
  OBVIOUS
<1>3. \A k \in 1..b : u[a + k] = t[k]
  OBVIOUS
<1> HIDE DEF u, a, b
<1>4. ASSUME NEW k \in 1..(a + b) PROVE u[k] \in Range(s) \/ u[k] \in Range(t)
  <2>1. CASE k <= a
    BY <1>1, <1>2, <2>1 DEF Range
  <2>2. CASE k > a
    <3>1. k - a \in 1..b /\ a + (k - a) = k
      BY <1>1, <2>2
    <3>2. u[k] = t[k - a]
      BY <1>3, <3>1
    <3> QED
      BY <1>1, <3>1, <3>2 DEF Range
  <2> QED
    BY <1>1, <2>1, <2>2
<1>5. ASSUME NEW k \in 1..a PROVE s[k] \in Range(u)
  <2>1. k \in 1..(a + b)
    BY <1>1
  <2> QED
    BY <1>1, <1>2, <2>1 DEF Range
<1>6. ASSUME NEW k \in 1..b PROVE t[k] \in Range(u)
  <2>1. a + k \in 1..(a + b)
    BY <1>1
  <2>2. t[k] = u[a + k]
    BY <1>3
  <2> QED
    BY <1>1, <2>1, <2>2 DEF Range
<1>7. \A x : x \in Range(u) <=> x \in Range(s) \/ x \in Range(t)
  BY <1>1, <1>4, <1>5, <1>6 DEF Range
<1> QED
  BY <1>7 DEF u

\* The list of a runtime profile is that of the profile it stands for.
LEMMA OwnList ==
    ASSUME Inv, pc = "done", NEW d \in DOMAIN runtime
    PROVE  /\ blobs[runtime[d]] = runtime[d] /\ Listed(d) = Ids(runtime[d])
           /\ Listed(d) \in Seq(Int) /\ Range(Listed(d)) \subseteq DOMAIN pack.files
<1>1. PICK n \in DOMAIN pack.profiles : /\ IsRuntime(pack, n) /\ Dest(n) = d
                                       /\ runtime[d] = pack.profiles[n]
  BY DEF Inv, Fetched, RuntimeProfiles
<1>2. n = <<n[1], n[2]>> /\ n[1] \in Nat
  BY PackForm DEF Inv, TypeOK
<1>3. Source(d) = n
  <2>1. CASE n[1] > 0
    <3>1. d = <<n[1] - 1, n[2]>> /\ d \notin DOMAIN pack.profiles
      BY <1>1, <2>1 DEF Dest, Short, IsRuntime
    <3>2. Source(d) = <<d[1] + 1, d[2]>>
      BY <3>1 DEF Source
    <3>3. d[1] + 1 = n[1] /\ d[2] = n[2]
      BY <1>2, <3>1
    <3> QED
      BY <1>2, <3>2, <3>3
  <2>2. CASE ~(n[1] > 0)
    BY <1>1, <2>2 DEF Dest, Source
  <2> QED
    BY <2>1, <2>2
<1>4. Listed(d) = Ids(runtime[d])
  BY <1>1, <1>3 DEF Listed
<1>5. runtime[d] \in DOMAIN blobs /\ ListOK(runtime[d])
  BY DEF Inv, Fetched
<1>6. blobs[runtime[d]] = runtime[d]
  BY <1>5 DEF Inv, BlobsOK
<1>7. Ids(runtime[d]) \in Seq(Int)
  BY PacksAssumption DEF Ids
<1> QED
  BY <1>4, <1>5, <1>6, <1>7 DEF ListOK

\* The files of a profile: its policy, and a file for every rule of its list, in
\* which stands what the pack has under the rule's id.
Rule(d, i) == [name |-> RuleFile(i - 1, Listed(d)[i]), text |-> pack.files[Listed(d)[i]]]

\* Expand makes these files, of blobs that are all there and what they are called.
LEMMA FilesOf ==
    ASSUME Inv, pc = "done", NEW d \in DOMAIN runtime
    PROVE  /\ \A f \in Range(manifest[d]) :
                 f.name = PolicyFile \/ \E i \in DOMAIN Listed(d) : f = Rule(d, i)
           /\ \A i \in DOMAIN Listed(d) : Rule(d, i) \in Range(manifest[d])
<1> DEFINE ids == Listed(d)
           files == RuleFiles(ids)
           first == [name |-> PolicyFile, text |-> blobs[pack.policies[d]]]
           policy == IF d \in DOMAIN pack.policies THEN <<first>> ELSE << >>
           S == {first} \cup Range(files)
<1>1. /\ blobs[runtime[d]] = runtime[d] /\ ids = Ids(runtime[d])
      /\ ids \in Seq(Int) /\ Range(ids) \subseteq DOMAIN pack.files
  BY OwnList
<1>2. manifest[d] = policy \o files
  BY <1>1 DEF Inv, Made, Manifest, Expanded
<1>3. ASSUME NEW i \in DOMAIN ids PROVE blobs[pack.files[ids[i]]] = pack.files[ids[i]]
  <2>1. ids[i] \in Range(Ids(blobs[runtime[d]]))
    BY <1>1 DEF Range
  <2>2. pack.files[ids[i]] \in FileHashes(runtime, blobs)
    BY <2>1 DEF FileHashes
  <2>3. pack.files[ids[i]] \in DOMAIN blobs
    BY <2>2 DEF Inv, Fetched
  <2> QED
    BY <2>3 DEF Inv, BlobsOK
<1>4. DOMAIN files = DOMAIN ids /\ \A i \in DOMAIN ids : files[i] = Rule(d, i)
  BY <1>3 DEF RuleFiles, Rule
<1>5. files = [i \in DOMAIN ids |-> files[i]]
  BY DEF RuleFiles
<1>6. Len(ids) \in Nat /\ DOMAIN ids = 1..Len(ids)
  BY <1>1
<1> HIDE DEF ids, files, first
<1>7. files \in Seq(S)
  <2>1. files \in [1..Len(ids) -> S]
    BY <1>5, <1>6 DEF Range
  <2> QED
    BY <1>6, <2>1
<1>8. policy \in Seq(S) /\ \A f \in Range(policy) : f = first
  <2>1. << >> \in Seq(S) /\ Range(<< >>) = {}
    BY DEF Range
  <2>2. <<first>> \in Seq(S) /\ Range(<<first>>) = {first}
    BY DEF Range
  <2> QED
    BY <2>1, <2>2
<1>9. \A f : f \in Range(files) <=> \E i \in DOMAIN ids : f = Rule(d, i)
  BY <1>4 DEF Range
<1> HIDE DEF policy, S
<1>10. \A f : f \in Range(manifest[d]) <=> f \in Range(policy) \/ f \in Range(files)
  BY <1>2, <1>7, <1>8, RangeJoined
<1>11. first.name = PolicyFile
  BY DEF first
<1> QED
  BY <1>8, <1>9, <1>10, <1>11 DEF ids

\* The names of the data files of a pack are file names, and finitely many.
LEMMA DataNames ==
    ASSUME pack \in PackSet \cup {NoPack}
    PROVE  IsFiniteSet(DOMAIN pack.data) /\ \A n \in DOMAIN pack.data : n \in FileNames
<1>1. CASE pack \in PackSet
  BY <1>1, PacksAssumption, Zenon DEF FileNames
<1>2. CASE pack = NoPack
  <2>1. DOMAIN pack.data = {}
    BY <1>2 DEF NoPack, Empty
  <2> QED
    BY <2>1, FS_EmptySet
<1> QED
  BY <1>1, <1>2

\* Two rules of a list that share a name, because they are the same number and
\* id, have the same text, so what writeTree leaves under it is the rule's own.
LEMMA RuleText ==
    ASSUME Inv, pc = "done", NEW d \in DOMAIN runtime, NEW i \in DOMAIN Listed(d)
    PROVE  /\ Rule(d, i).name \in DOMAIN Tree(d)
           /\ Tree(d)[Rule(d, i).name] = Rewritten(pack.files[Listed(d)[i]], d)
<1> DEFINE n == Rule(d, i).name
           names == {manifest[d][k].name : k \in DOMAIN manifest[d]}
           f == CHOOSE g \in Range(manifest[d]) : g.name = n
<1>1. Rule(d, i) \in Range(manifest[d])
  BY FilesOf
<1>2. n \in names
  BY <1>1 DEF Range
<1>3. n \in DOMAIN Tree(d) /\ Tree(d)[n] = Rewritten(f.text, d)
  BY <1>2 DEF Tree
<1>4. f \in Range(manifest[d]) /\ f.name = n
  BY <1>1
<1> HIDE DEF f
<1>5. n = RuleFile(i - 1, Listed(d)[i])
  BY DEF Rule
<1>6. n # PolicyFile
  BY <1>5 DEF RuleFile, PolicyFile
<1>7. PICK j \in DOMAIN Listed(d) : f = Rule(d, j)
  BY <1>4, <1>6, FilesOf
<1>8. Listed(d)[i] \in Int /\ Listed(d)[j] \in Int /\ i - 1 \in Nat /\ j - 1 \in Nat
  <2>1. Listed(d) \in Seq(Int)
    BY OwnList
  <2> QED
    BY <2>1
<1>9. RuleFile(i - 1, Listed(d)[i]) = RuleFile(j - 1, Listed(d)[j])
  BY <1>4, <1>5, <1>7 DEF Rule
<1>10. Listed(d)[i] = Listed(d)[j]
  BY <1>8, <1>9, SameRule
<1>11. f.text = pack.files[Listed(d)[i]]
  BY <1>7, <1>10 DEF Rule
<1> QED
  BY <1>3, <1>11

\* The *.conf files of a profile's directory are its rules and finitely many data
\* files, so they can be sorted.
LEMMA TreeSorts ==
    ASSUME Inv, pc = "done", NEW d \in DOMAIN runtime
    PROVE  ConfSet({n \in DOMAIN Tree(d) : n.conf})
<1> DEFINE C == {n \in DOMAIN Tree(d) : n.conf}
           rules == {Rule(d, i).name : i \in DOMAIN Listed(d)}
           data == DOMAIN pack.data
<1>1. IsFiniteSet(data) /\ \A n \in data : n \in FileNames
  BY DataNames DEF Inv, TypeOK
<1>2. Listed(d) \in Seq(Int)
  BY OwnList
<1>3. \A n \in rules : n \in FileNames
  <2> SUFFICES ASSUME NEW i \in DOMAIN Listed(d) PROVE Rule(d, i).name \in FileNames
    OBVIOUS
  <2>1. Listed(d)[i] \in Int /\ i - 1 \in Nat
    BY <1>2
  <2>2. RuleFile(i - 1, Listed(d)[i]) \in FileNames
    BY <2>1, RuleFileForm
  <2> QED
    BY <2>2 DEF Rule
<1>4. IsFiniteSet(rules)
  <2> DEFINE D == DOMAIN Listed(d)
             g == [i \in D |-> Rule(d, i).name]
  <2>1. IsFiniteSet(D)
    <3>1. D = 1..Len(Listed(d)) /\ 1 \in Int /\ Len(Listed(d)) \in Int
      BY <1>2
    <3> QED
      BY <3>1, FS_Interval
  <2>2. g \in Surjection(D, rules)
    BY DEF Surjection
  <2> HIDE DEF D, g, rules
  <2> QED
    BY <2>1, <2>2, FS_Surjection
<1>5. \A n \in C : n \in rules \/ n \in data
  <2> SUFFICES ASSUME NEW n \in C, n \notin data PROVE n \in rules
    OBVIOUS
  <2>1. PICK k \in DOMAIN manifest[d] : manifest[d][k].name = n
    BY DEF Tree
  <2> DEFINE f == manifest[d][k]
  <2>2. f \in Range(manifest[d]) /\ f.name = n /\ n.conf
    BY <2>1 DEF Range
  <2> HIDE DEF f
  <2>3. n # PolicyFile
    BY <2>2 DEF PolicyFile
  <2>4. PICK i \in DOMAIN Listed(d) : f = Rule(d, i)
    BY <2>2, <2>3, FilesOf
  <2> QED
    BY <2>2, <2>4
<1> HIDE DEF rules, data
<1>6. C \in SUBSET (rules \cup data)
  BY <1>5
<1>7. IsFiniteSet(rules \cup data)
  BY <1>1, <1>4, FS_Union
<1>8. IsFiniteSet(C)
  <2> HIDE DEF C
  <2> QED
    BY <1>6, <1>7, FS_Subset
<1>9. \A n \in C : n.conf
  OBVIOUS
<1> HIDE DEF C
<1>10. ConfSet(C)
  BY <1>1, <1>3, <1>5, <1>8, <1>9 DEF ConfSet
<1> QED
  BY <1>10 DEF C

\* So the engine reads the rules of the list, each with its own text, and, where
\* their numbers fit the width, in the order of the list.
LEMMA RulesPrevail ==
    ASSUME Inv, pc = "done", NEW d \in DOMAIN loaded PROVE RulesAsListed(d)
<1> DEFINE names == loaded[d].names
           rules == loaded[d].rules
           ids == Listed(d)
           name(i) == RuleFile(i - 1, ids[i])
           text(i) == Rewritten(pack.files[ids[i]], d)
           at(i) == CHOOSE k \in DOMAIN names : names[k] = name(i)
<1>1. d \in DOMAIN runtime /\ loaded[d] = Loaded(Tree(d))
  BY DEF Inv, Made, Trees, Manifest
<1>2. Sorted(names, rules, Tree(d))
  BY <1>1, TreeSorts, LoadedSorted
<1>3. ids \in Seq(Int)
  BY <1>1, OwnList
<1>4. ASSUME NEW i \in DOMAIN ids
      PROVE  /\ ids[i] \in Int /\ i \in Nat /\ i - 1 \in Nat /\ i <= Len(ids)
             /\ name(i) \in DOMAIN Tree(d) /\ name(i).conf /\ Tree(d)[name(i)] = text(i)
  <2>1. ids[i] \in Int /\ i \in Nat /\ i - 1 \in Nat /\ i <= Len(ids)
    BY <1>3
  <2>2. Rule(d, i).name = name(i)
    BY DEF Rule
  <2>3. name(i) \in DOMAIN Tree(d) /\ Tree(d)[name(i)] = text(i)
    BY <1>1, <2>2, RuleText
  <2>4. name(i).conf
    BY DEF RuleFile
  <2> QED
    BY <2>1, <2>3, <2>4
<1>5. /\ \A k \in DOMAIN names : rules[k] = Tree(d)[names[k]]
      /\ \A i \in DOMAIN ids : \E k \in DOMAIN names : names[k] = name(i)
      /\ \A k, l \in DOMAIN names : Before(names[k].text, names[l].text) => k < l
  <2>1. \A i \in DOMAIN ids : name(i) \in {n \in DOMAIN Tree(d) : n.conf}
    BY <1>4
  <2> HIDE DEF names, rules, name
  <2> QED
    BY <1>2, <2>1 DEF Sorted
<1>6. RulesOf(d) = {<<name(i), text(i)>> : i \in DOMAIN ids}
  <2> DEFINE at0 == {k \in DOMAIN names : names[k] \in ListedNames(d)}
  <2>1. RulesOf(d) = {<<names[k], rules[k]>> : k \in at0}
    BY DEF RulesOf
  <2>2. \A k \in DOMAIN names : k \in at0 <=> \E i \in DOMAIN ids : names[k] = name(i)
    BY DEF ListedNames
  <2>3. \A i \in DOMAIN ids : Tree(d)[name(i)] = text(i)
    BY <1>4
  <2>4. \A k \in at0 : k \in DOMAIN names
    OBVIOUS
  <2> HIDE DEF names, rules, name, text, ids, at0
  <2>5. ASSUME NEW k \in at0
        PROVE  \E i \in DOMAIN ids : <<names[k], rules[k]>> = <<name(i), text(i)>>
    <3>1. PICK i \in DOMAIN ids : names[k] = name(i)
      BY <2>2, <2>4
    <3>2. rules[k] = text(i)
      BY <1>5, <2>3, <2>4, <3>1
    <3> QED
      BY <3>1, <3>2
  <2>6. ASSUME NEW i \in DOMAIN ids
        PROVE  \E k \in at0 : <<names[k], rules[k]>> = <<name(i), text(i)>>
    <3>1. PICK k \in DOMAIN names : names[k] = name(i)
      BY <1>5
    <3>2. k \in at0 /\ rules[k] = text(i)
      BY <1>5, <2>2, <2>3, <3>1
    <3> QED
      BY <3>1, <3>2
  <2> QED
    BY <2>1, <2>5, <2>6
<1>7. ASSUME Len(ids) <= Numbers, NEW i \in DOMAIN ids, NEW j \in DOMAIN ids, i < j
      PROVE  at(i) < at(j)
  <2>1. /\ at(i) \in DOMAIN names /\ names[at(i)] = name(i)
        /\ at(j) \in DOMAIN names /\ names[at(j)] = name(j)
    <3>1. /\ \E k \in DOMAIN names : names[k] = name(i)
          /\ \E k \in DOMAIN names : names[k] = name(j)
      BY <1>5
    <3> HIDE DEF names, name
    <3> QED
      BY <3>1
  <2>2. i - 1 < j - 1 /\ j - 1 < Numbers
    <3>1. Numbers \in Nat
      BY NumbersFit, <1>4
    <3>2. Len(ids) \in Nat
      BY <1>3
    <3> QED
      BY <1>4, <1>7, <3>1, <3>2, SMTT(20)
  <2>3. Before(name(i).text, name(j).text)
    BY <1>4, <2>2, RuleFileOrder
  <2> HIDE DEF at, names, name
  <2> QED
    BY <1>5, <2>1, <2>3
<1> QED
  BY <1>6, <1>7 DEF RulesAsListed

\* What the engine reads is what the pack says, for every pack, list and store:
\* every profile that is no volume is served under its short name, with its own
\* policy and the rules of its own list, in the order of the list as long as the
\* number in front of a file name fits its width.
THEOREM PackServed == Spec => []ServedAsPublished
<1>1. Inv => ServedAsPublished
  BY EveryProfileServed, PolicyPrevails, RulesPrevail DEF ServedAsPublished
<1> QED
  BY <1>1, Invariance, PTL
=============================================================================
