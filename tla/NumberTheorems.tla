--------------------------- MODULE NumberTheorems ---------------------------
(***************************************************************************)
(* Facts about the natural numbers that the other proofs rest on: every    *)
(* induction is an argument about a least counterexample, and a shift is a *)
(* multiplication by, or a division by, a power of two.                    *)
(***************************************************************************)
EXTENDS Powers, TLAPS, WellFoundedInduction

-----------------------------------------------------------------------------
\* Induction on the natural numbers, in the form of the least-number principle.

LessThan == {ss \in Nat \X Nat : ss[1] < ss[2]}

\* The order of the natural numbers is well founded.
LEMMA LessThanWellFounded == IsWellFoundedOn(LessThan, Nat)
  BY NatLessThanWellFounded, Zenon DEF OpToRel, LessThan

\* Every non-empty set of natural numbers has a least element.
LEMMA LeastElement ==
  ASSUME NEW T, T \subseteq Nat, T # {}
  PROVE  \E x \in T : \A y \in T : x <= y
<1>1. PICK x \in T : \A y \in T : ~ (<<y, x>> \in LessThan)
  BY LessThanWellFounded, WFMin
<1>2. \A y \in T : x <= y
  <2> TAKE y \in T
  <2>1. x \in Nat /\ y \in Nat
    OBVIOUS
  <2>2. ~ (y < x)
    BY <1>1, <2>1 DEF LessThan
  <2> QED BY <2>1, <2>2
<1> QED BY <1>2

-----------------------------------------------------------------------------
\* Powers of two.

PowTable(n, g) == [i \in 0 .. n |-> IF i = 0 THEN 1 ELSE 2 * g[i - 1]]

\* The doubling has a solution up to every exponent.
LEMMA PowTableExists == \A n \in Nat : \E g : g = PowTable(n, g)
<1> DEFINE T == {n \in Nat : ~ \E g : g = PowTable(n, g)}
<1>1. SUFFICES ASSUME T # {} PROVE FALSE
  OBVIOUS
<1>2. PICK n \in T : \A m \in T : n <= m
  BY <1>1, LeastElement
<1>3. CASE n = 0
  <2> DEFINE g0 == PowTable(0, << >>)
  <2>1. g0 = PowTable(0, g0)
    BY DEF PowTable
  <2> QED BY <2>1, <1>3, <1>2
<1>4. CASE n # 0
  <2>1. n - 1 \in Nat /\ ~ (n <= n - 1) /\ n \in Nat
    BY <1>4
  <2>2. PICK g : g = PowTable(n - 1, g)
    BY <2>1, <1>2
  <2> DEFINE G == PowTable(n, g)
  <2>3. \A i \in 0 .. n - 1 : G[i] = g[i]
    BY <2>1, <2>2 DEF PowTable
  <2>4. ASSUME NEW i \in 0 .. n, i # 0 PROVE g[i - 1] = G[i - 1]
    <3> HIDE DEF G
    <3> QED BY <2>1, <2>3, <2>4
  <2>5. G = PowTable(n, G)
    BY <2>4 DEF PowTable
  <2> QED BY <2>5, <1>2
<1> QED BY <1>3, <1>4

\* Two solutions agree where both are defined.
LEMMA PowTablesAgree ==
  ASSUME NEW n \in Nat, NEW g, g = PowTable(n, g), NEW h, h = PowTable(n + 1, h)
  PROVE  \A i \in 0 .. n : g[i] = h[i] /\ g[i] \in Nat \ {0}
<1> DEFINE T == {i \in 0 .. n : ~ (g[i] = h[i] /\ g[i] \in Nat \ {0})}
<1>1. SUFFICES ASSUME T # {} PROVE FALSE
  OBVIOUS
<1>2. T \subseteq Nat
  OBVIOUS
<1>3. PICK i \in T : \A m \in T : i <= m
  BY <1>1, <1>2, LeastElement
<1>4. i \in 0 .. n /\ i \in 0 .. n + 1 /\ ~ (g[i] = h[i] /\ g[i] \in Nat \ {0})
  BY <1>3
<1>5. /\ g[i] = IF i = 0 THEN 1 ELSE 2 * g[i - 1]
      /\ h[i] = IF i = 0 THEN 1 ELSE 2 * h[i - 1]
  BY <1>4 DEF PowTable
<1>6. CASE i = 0
  BY <1>4, <1>5, <1>6
<1>7. CASE i # 0
  <2>1. i - 1 \in 0 .. n /\ ~ (i <= i - 1)
    BY <1>4, <1>7
  <2>2. g[i - 1] = h[i - 1] /\ g[i - 1] \in Nat \ {0}
    BY <2>1, <1>3
  <2> QED BY <2>2, <1>4, <1>5, <1>7
<1> QED BY <1>6, <1>7

\* A power of two is the last row of a table.
LEMMA PowTableOf ==
  ASSUME NEW k \in Nat
  PROVE  \E g : g = PowTable(k, g) /\ Pow2(k) = g[k]
<1> DEFINE g == CHOOSE p : p = PowTable(k, p)
<1>1. g = PowTable(k, g)
  BY PowTableExists
<1>2. Pow2(k) = g[k]
  BY DEF Pow2, PowTable
<1> QED BY <1>1, <1>2

\* The powers of two double.
LEMMA PowerLaws ==
  /\ Pow2(0) = 1
  /\ \A k \in Nat : Pow2(k) \in Nat \ {0} /\ Pow2(k + 1) = 2 * Pow2(k)
<1>1. Pow2(0) = 1
  BY PowTableOf DEF PowTable
<1>2. ASSUME NEW k \in Nat
      PROVE  Pow2(k) \in Nat \ {0} /\ Pow2(k + 1) = 2 * Pow2(k)
  <2>1. PICK g : g = PowTable(k, g) /\ Pow2(k) = g[k]
    BY PowTableOf
  <2>2. PICK h : h = PowTable(k + 1, h) /\ Pow2(k + 1) = h[k + 1]
    BY PowTableOf
  <2>3. g[k] = h[k] /\ g[k] \in Nat \ {0}
    BY <2>1, <2>2, PowTablesAgree
  <2>4. h[k + 1] = 2 * h[k]
    <3>1. k + 1 \in 0 .. k + 1 /\ k + 1 # 0 /\ k + 1 - 1 = k
      OBVIOUS
    <3>2. PowTable(k + 1, h)[k + 1] = 2 * h[k]
      BY <3>1 DEF PowTable
    <3> QED BY <2>2, <3>2
  <2> QED BY <2>1, <2>2, <2>3, <2>4
<1> QED BY <1>1, <1>2

\* Adding exponents multiplies.
LEMMA PowerSum ==
  ASSUME NEW a \in Nat
  PROVE  \A b \in Nat : Pow2(a + b) = Pow2(a) * Pow2(b)
<1> DEFINE T == {b \in Nat : Pow2(a + b) # Pow2(a) * Pow2(b)}
<1>1. SUFFICES ASSUME T # {} PROVE FALSE
  OBVIOUS
<1>2. PICK b \in T : \A m \in T : b <= m
  BY <1>1, LeastElement
<1>3. CASE b = 0
  BY <1>2, <1>3, PowerLaws
<1>4. CASE b # 0
  <2>1. PICK c \in Nat : b = c + 1
    BY <1>2, <1>4
  <2>2. Pow2(a + c) = Pow2(a) * Pow2(c)
    BY <1>2, <2>1
  <2>3. a + c \in Nat /\ a + b = (a + c) + 1
    BY <2>1
  <2>4. Pow2(a + b) = 2 * Pow2(a + c) /\ Pow2(b) = 2 * Pow2(c)
    BY <2>1, <2>3, PowerLaws
  <2>5. PICK x \in Nat : x = Pow2(a)
    BY PowerLaws
  <2>6. PICK y \in Nat : y = Pow2(c)
    BY <2>1, PowerLaws
  <2>7. 2 * (x * y) = x * (2 * y)
    BY <2>5, <2>6
  <2> QED BY <1>2, <2>2, <2>4, <2>5, <2>6, <2>7
<1> QED BY <1>3, <1>4

-----------------------------------------------------------------------------
\* Products and quotients.

LEMMA TimesMonotone ==
  ASSUME NEW a \in Nat, NEW b \in Nat, NEW k \in Nat, a <= b
  PROVE  a * k <= b * k /\ a * k \in Nat /\ b * k \in Nat
  OBVIOUS

LEMMA Division ==
  ASSUME NEW a \in Nat, NEW b \in Nat \ {0}
  PROVE  /\ a \div b \in Nat
         /\ (a \div b) * b <= a
         /\ a < (a \div b) * b + b
  OBVIOUS

\* The quotient is the only number between whose multiples the dividend lies.
LEMMA Quotient ==
  ASSUME NEW a \in Nat, NEW b \in Nat \ {0}, NEW q \in Nat
  PROVE  a \div b = q <=> q * b <= a /\ a < q * b + b
<1> DEFINE r == a \div b
<1>1. r \in Nat /\ r * b <= a /\ a < r * b + b
  BY Division
<1> HIDE DEF r
<1>2. ASSUME q * b <= a, a < q * b + b PROVE r = q
  <2>1. ASSUME NEW x \in Nat, NEW y \in Nat, x < y, y * b <= a, a < x * b + b
        PROVE  FALSE
    <3>1. (x + 1) * b <= y * b /\ (x + 1) * b = x * b + b
      BY <2>1, TimesMonotone
    <3>2. PICK u \in Nat : u = x * b
      OBVIOUS
    <3>3. PICK v \in Nat : v = y * b
      OBVIOUS
    <3> QED BY <2>1, <3>1, <3>2, <3>3
  <2> QED BY <1>1, <1>2, <2>1
<1> QED BY <1>1, <1>2 DEF r

\* Dividing by twice a number is dividing by it and halving.
LEMMA HalfQuotient ==
  ASSUME NEW a \in Nat, NEW b \in Nat \ {0}
  PROVE  a \div (2 * b) = (a \div b) \div 2
<1> DEFINE q == a \div b
           h == q \div 2
<1>1. q \in Nat /\ q * b <= a /\ a < q * b + b
  BY Division
<1> HIDE DEF q
<1>2. h \in Nat /\ (q = 2 * h \/ q = 2 * h + 1)
  BY <1>1
<1> HIDE DEF h
<1>3. PICK u \in Nat : u = h * b
  BY <1>2
<1>4. h * (2 * b) = 2 * u /\ (2 * h) * b = 2 * u /\ (2 * h + 1) * b = 2 * u + b
  BY <1>2, <1>3
<1>5. h * (2 * b) <= a /\ a < h * (2 * b) + 2 * b
  BY <1>1, <1>2, <1>3, <1>4
<1>6. 2 * b \in Nat \ {0}
  OBVIOUS
<1>7. a \div (2 * b) = h
  BY <1>2, <1>5, <1>6, Quotient
<1> QED BY <1>7 DEF h, q
=============================================================================
