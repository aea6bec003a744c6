---------------------------- MODULE IntegersProofs -----------------------------
(***************************************************************************)
(* Facts about integers that the conversions rest on and the provers do    *)
(* not know: induction, for a set instead of a predicate; division by a    *)
(* number that is not given; powers, which are defined by recursion.       *)
(***************************************************************************)
EXTENDS GoIntegers, WellFoundedInduction, TLAPS

-----------------------------------------------------------------------------
(* Induction.                                                              *)

\* A set that has 0 and the successor of every natural number it has, has all.
LEMMA SetInduction ==
  ASSUME NEW S, 0 \in S, \A n \in Nat : n \in S => n + 1 \in S
  PROVE  Nat \subseteq S
<1>1. SUFFICES ASSUME NEW k \in Nat, k \notin S PROVE FALSE
  OBVIOUS
<1> DEFINE T == {n \in Nat : n \notin S}
           R == OpToRel(<, Nat)
<1>2. T \subseteq Nat /\ T # {}
  BY <1>1
<1>3. IsWellFoundedOn(R, Nat)
  BY NatLessThanWellFounded
<1>4. PICK x \in T : \A y \in T : ~(<<y, x>> \in R)
  <2> HIDE DEF T, R
  <2> QED
    BY <1>2, <1>3, WFMin
<1>5. \A y \in T : ~(y < x)
  BY <1>4, <1>2 DEF OpToRel
<1>6. x # 0 /\ x \in Nat /\ x \notin S
  OBVIOUS
<1>7. x - 1 \in Nat /\ x - 1 < x /\ (x - 1) + 1 = x
  BY <1>6
<1>8. x - 1 \notin T
  BY <1>5, <1>7
<1> QED
  BY <1>6, <1>7, <1>8

-----------------------------------------------------------------------------
(* Division.                                                               *)

LEMMA Division ==
  ASSUME NEW n \in Int, NEW k \in Nat \ {0}
  PROVE  /\ n \div k \in Int /\ n % k \in 0 .. k - 1
         /\ n = k * (n \div k) + (n % k)
OBVIOUS

LEMMA NaturalDivision ==
  ASSUME NEW n \in Nat, NEW k \in Nat \ {0}
  PROVE  n \div k \in Nat /\ n \div k <= n
<1>1. n \div k \in Nat
  OBVIOUS
<1>2. k * (n \div k) <= n
  BY <1>1, Division
<1>3. n \div k <= k * (n \div k)
  BY <1>1
<1> QED
  BY <1>1, <1>2, <1>3

\* There is one way only to divide with a rest.
LEMMA DivisionIsUnique ==
  ASSUME NEW k \in Nat \ {0}, NEW q \in Int, NEW r \in 0 .. k - 1
  PROVE  (k * q + r) \div k = q /\ (k * q + r) % k = r
<1> DEFINE n == k * q + r
           p == n \div k
<1>1. n \in Int
  OBVIOUS
<1>2. p \in Int /\ n % k \in 0 .. k - 1 /\ n = k * p + (n % k)
  BY <1>1, Division
<1>3. k * q + r = k * p + (n % k)
  BY <1>2
<1> HIDE DEF n, p
<1>4. ASSUME p > q PROVE FALSE
  <2>1. p - q >= 1 /\ k * (p - q) >= k
    BY <1>2, <1>4
  <2>2. k * (p - q) = k * p - k * q
    BY <1>2
  <2>3. k * p \in Int /\ k * q \in Int
    BY <1>2
  <2> QED
    BY <2>1, <2>2, <2>3, <1>2, <1>3
<1>5. ASSUME p < q PROVE FALSE
  <2>1. q - p >= 1 /\ k * (q - p) >= k
    BY <1>2, <1>5
  <2>2. k * (q - p) = k * q - k * p
    BY <1>2
  <2>3. k * p \in Int /\ k * q \in Int
    BY <1>2
  <2> QED
    BY <2>1, <2>2, <2>3, <1>2, <1>3
<1>6. p = q
  BY <1>2, <1>4, <1>5
<1>7. n % k = r
  <2>1. k * q \in Int /\ k * p = k * q
    BY <1>6
  <2> QED
    BY <2>1, <1>2, <1>3
<1> QED
  BY <1>6, <1>7 DEF n, p

\* A number divides another exactly when the quotient gives it back.
LEMMA DividesExactly ==
  ASSUME NEW n \in Int, NEW k \in Nat \ {0}
  PROVE  (n \div k) * k = n <=> n % k = 0
<1>1. n \div k \in Int /\ n % k \in 0 .. k - 1 /\ n = k * (n \div k) + (n % k)
  BY Division
<1>2. (n \div k) * k = k * (n \div k) /\ k * (n \div k) \in Int
  BY <1>1
<1> QED
  BY <1>1, <1>2

LEMMA DivisionInSteps ==
  ASSUME NEW n \in Nat, NEW a \in Nat \ {0}, NEW b \in Nat \ {0}
  PROVE  (n \div a) \div b = n \div (a * b)
<1> DEFINE q == n \div a
           r == n % a
           p == q \div b
           s == q % b
<1>1. q \in Nat /\ r \in 0 .. a - 1 /\ n = a * q + r
  BY Division, NaturalDivision
<1>2. p \in Nat /\ s \in 0 .. b - 1 /\ q = b * p + s
  <2> HIDE DEF q
  <2>1. q \in Int /\ q \div b \in Nat
    BY <1>1, NaturalDivision
  <2>2. q % b \in 0 .. b - 1 /\ q = b * (q \div b) + (q % b)
    BY <2>1, Division
  <2> QED
    BY <2>1, <2>2
<1> HIDE DEF q, r, p, s
<1>3. n = (a * b) * p + (a * s + r)
  <2>1. a * q = (a * b) * p + a * s
    <3>1. a * q = a * (b * p + s)
      BY <1>2
    <3> QED
      BY <3>1, <1>2
  <2> QED
    BY <2>1, <1>1, <1>2
<1>4. a * s + r \in 0 .. a * b - 1 /\ a * b \in Nat \ {0}
  <2>1. a * s \in Nat /\ a * b \in Nat \ {0}
    BY <1>2
  <2>2. a * s + a <= a * b
    <3>1. s + 1 <= b /\ a * (s + 1) <= a * b
      BY <1>2
    <3>2. a * (s + 1) = a * s + a
      BY <1>2
    <3> QED
      BY <3>1, <3>2
  <2> QED
    BY <2>1, <2>2, <1>1
<1>5. n \div (a * b) = p
  BY <1>2, <1>3, <1>4, DivisionIsUnique
<1> QED
  BY <1>5 DEF p, q

-----------------------------------------------------------------------------
(* Powers.                                                                 *)

\* f is the powers of b as far as n.
PowersTo(f, b, n) ==
  /\ f \in [0 .. n -> Nat]
  /\ f[0] = 1
  /\ \A i \in 1 .. n : f[i] = b * f[i - 1]

LEMMA PowersExist ==
  ASSUME NEW b \in Nat, NEW n \in Nat
  PROVE  \E f : PowersTo(f, b, n)
<1> DEFINE S == {m \in Nat : \E f : PowersTo(f, b, m)}
<1>1. 0 \in S
  <2>1. PowersTo([i \in 0 .. 0 |-> 1], b, 0)
    BY DEF PowersTo
  <2> QED
    BY <2>1
<1>2. ASSUME NEW m \in Nat, m \in S
      PROVE  m + 1 \in S
  <2>1. PICK f : PowersTo(f, b, m)
    BY <1>2
  <2> DEFINE g == [i \in 0 .. m + 1 |-> IF i <= m THEN f[i] ELSE b * f[m]]
  <2>2. g \in [0 .. m + 1 -> Nat] /\ g[0] = 1
    BY <2>1 DEF PowersTo
  <2>3. ASSUME NEW i \in 1 .. m + 1 PROVE g[i] = b * g[i - 1]
    <3>1. CASE i <= m
      BY <2>1, <3>1 DEF PowersTo
    <3>2. CASE i = m + 1
      BY <2>1, <3>2 DEF PowersTo
    <3> QED
      BY <3>1, <3>2
  <2>4. PowersTo(g, b, m + 1)
    BY <2>2, <2>3 DEF PowersTo
  <2> QED
    BY <2>4
<1> HIDE DEF S
<1>3. Nat \subseteq S
  BY <1>1, <1>2, SetInduction
<1> QED
  BY <1>3 DEF S

LEMMA PowersAgree ==
  ASSUME NEW b \in Nat, NEW m \in Nat, NEW n \in Nat, NEW f, NEW g,
         PowersTo(f, b, m), PowersTo(g, b, n)
  PROVE  \A i \in Nat : i <= m /\ i <= n => f[i] = g[i]
<1> DEFINE S == {i \in Nat : i <= m /\ i <= n => f[i] = g[i]}
<1>1. 0 \in S
  BY DEF PowersTo
<1>2. ASSUME NEW i \in Nat, i \in S
      PROVE  i + 1 \in S
  <2> SUFFICES ASSUME i + 1 <= m, i + 1 <= n PROVE f[i + 1] = g[i + 1]
    OBVIOUS
  <2>1. f[i] = g[i] /\ (i + 1) - 1 = i
    BY <1>2
  <2> QED
    BY <2>1 DEF PowersTo
<1> HIDE DEF S
<1>3. Nat \subseteq S
  BY <1>1, <1>2, SetInduction
<1> QED
  BY <1>3 DEF S

\* What the recursion says is so.
LEMMA PowerStep ==
  ASSUME NEW b \in Nat
  PROVE  /\ Power(b, 0) = 1
         /\ \A n \in Nat : Power(b, n) \in Nat /\ Power(b, n + 1) = b * Power(b, n)
<1> DEFINE Def(p) == [i \in Nat |-> IF i = 0 THEN 1 ELSE b * p[i - 1]]
           To(n)  == CHOOSE f : PowersTo(f, b, n)
           all    == [n \in Nat |-> To(n)[n]]
<1>1. \A n \in Nat : PowersTo(To(n), b, n)
  BY PowersExist
<1> HIDE DEF To
<1>2. \A n \in Nat : To(n)[n] \in Nat
  BY <1>1 DEF PowersTo
<1>3. To(0)[0] = 1
  BY <1>1 DEF PowersTo
<1>4. ASSUME NEW n \in Nat \ {0} PROVE To(n)[n] = b * To(n - 1)[n - 1]
  <2>1. n \in 1 .. n /\ n - 1 \in Nat /\ n - 1 <= n
    OBVIOUS
  <2>2. To(n)[n] = b * To(n)[n - 1]
    BY <1>1, <2>1 DEF PowersTo
  <2>3. To(n)[n - 1] = To(n - 1)[n - 1]
    BY <1>1, <2>1, PowersAgree
  <2> QED
    BY <2>2, <2>3
<1>5. all = Def(all)
  <2>1. \A n \in Nat : all[n] = IF n = 0 THEN 1 ELSE b * all[n - 1]
    BY <1>3, <1>4
  <2> QED
    BY <2>1
<1> DEFINE power == CHOOSE p : p = Def(p)
<1>6. \A n \in Nat : Power(b, n) = power[n]
  BY DEF Power
<1>7. power = Def(power)
  <2> HIDE DEF all, Def
  <2> QED
    BY <1>5
<1> HIDE DEF power, all
<1>8. /\ power[0] = 1
      /\ \A n \in Nat : power[n + 1] = b * power[n]
  BY <1>7
<1> DEFINE S == {n \in Nat : power[n] \in Nat}
<1>9. 0 \in S /\ \A n \in Nat : n \in S => n + 1 \in S
  BY <1>8
<1> HIDE DEF S
<1>10. Nat \subseteq S
  BY <1>9, SetInduction
<1> QED
  BY <1>6, <1>8, <1>10 DEF S

LEMMA PowerSum ==
  ASSUME NEW b \in Nat, NEW m \in Nat, NEW n \in Nat
  PROVE  Power(b, m + n) = Power(b, m) * Power(b, n)
<1> DEFINE S == {k \in Nat : Power(b, m + k) = Power(b, m) * Power(b, k)}
<1>1. 0 \in S
  BY PowerStep
<1>2. ASSUME NEW k \in Nat, k \in S
      PROVE  k + 1 \in S
  <2>1. Power(b, m + (k + 1)) = b * Power(b, m + k)
    <3>1. m + k \in Nat /\ m + (k + 1) = (m + k) + 1
      OBVIOUS
    <3> QED
      BY <3>1, PowerStep
  <2>2. Power(b, k + 1) = b * Power(b, k) /\ Power(b, k) \in Nat /\ Power(b, m) \in Nat
    BY PowerStep
  <2>3. b * (Power(b, m) * Power(b, k)) = Power(b, m) * (b * Power(b, k))
    BY <2>2
  <2> QED
    BY <2>1, <2>2, <2>3, <1>2
<1> HIDE DEF S
<1>3. Nat \subseteq S
  BY <1>1, <1>2, SetInduction
<1> QED
  BY <1>3 DEF S

LEMMA PowerIsPositive ==
  ASSUME NEW b \in Nat \ {0}, NEW n \in Nat
  PROVE  Power(b, n) \in Nat \ {0}
<1> DEFINE S == {k \in Nat : Power(b, k) # 0}
<1>1. 0 \in S
  BY PowerStep
<1>2. ASSUME NEW k \in Nat, k \in S
      PROVE  k + 1 \in S
  <2>1. Power(b, k) \in Nat \ {0} /\ Power(b, k + 1) = b * Power(b, k)
    BY <1>2, PowerStep
  <2> QED
    BY <2>1
<1> HIDE DEF S
<1>3. Nat \subseteq S
  BY <1>1, <1>2, SetInduction
<1> QED
  BY <1>3, PowerStep DEF S

LEMMA PowerIsMonotonic ==
  ASSUME NEW b \in Nat \ {0}, NEW m \in Nat, NEW n \in Nat, m <= n
  PROVE  Power(b, m) <= Power(b, n)
<1>1. n - m \in Nat /\ m + (n - m) = n
  OBVIOUS
<1>2. Power(b, n) = Power(b, m) * Power(b, n - m)
  BY <1>1, PowerSum
<1>3. Power(b, m) \in Nat \ {0} /\ Power(b, n - m) \in Nat \ {0}
  BY <1>1, PowerIsPositive
<1> HIDE DEF Power
<1> QED
  BY <1>2, <1>3

LEMMA PowerExceeds ==
  ASSUME NEW b \in Nat \ {0, 1}, NEW n \in Nat
  PROVE  Power(b, n) > n
<1> DEFINE S == {k \in Nat : Power(b, k) > k}
<1>1. 0 \in S
  BY PowerStep
<1>2. ASSUME NEW k \in Nat, k \in S
      PROVE  k + 1 \in S
  <2>1. Power(b, k) \in Nat /\ Power(b, k) > k /\ Power(b, k + 1) = b * Power(b, k)
    BY <1>2, PowerStep
  <2>2. b * Power(b, k) >= 2 * Power(b, k)
    BY <2>1
  <2> QED
    BY <2>1, <2>2
<1> HIDE DEF S
<1>3. Nat \subseteq S
  BY <1>1, <1>2, SetInduction
<1> QED
  BY <1>3 DEF S
=============================================================================
