---------------------------- MODULE ValueProofs -----------------------------
(***************************************************************************)
(* Theorems about values, for every width of integers and doubles.         *)
(***************************************************************************)
EXTENDS Value, Induction, SequenceTheorems, TLAPS

(***************************************************************************)
(* What Equal and Less take for granted: the signed representation is only *)
(* used below zero.                                                        *)
(***************************************************************************)
SignFits(x) ==
    /\ x.type \in {"UnsignedInt", "SignedInt", "Double"}
    /\ x.type = "UnsignedInt" => x.value \in Int /\ x.value >= 0
    /\ x.type = "SignedInt" => x.value \in Int /\ x.value < 0

\* What an application makes keeps the signs where they belong.
LEMMA MadeFits ==
    ASSUME NEW T \in DOMAIN CppValues, NEW v \in CppValues[T]
    PROVE  SignFits(MakeNumber(T, v))
<1>1. CASE T = "unsigned"
  <2>1. v \in Int /\ v >= 0
    BY <1>1 DEF CppValues
  <2>2. MakeNumber(T, v) = [type |-> "UnsignedInt", value |-> v]
    BY <1>1 DEF MakeNumber
  <2> QED BY <2>1, <2>2 DEF SignFits
<1>2. CASE T = "signed"
  <2>1. v \in Int
    BY <1>2 DEF CppValues
  <2>2. MakeNumber(T, v) = [type |-> IF v < 0 THEN "SignedInt" ELSE "UnsignedInt",
                            value |-> v]
    BY <1>2 DEF MakeNumber
  <2> QED BY <2>1, <2>2 DEF SignFits
<1>3. CASE T = "floating"
  <2>1. MakeNumber(T, v) = [type |-> "Double", value |-> v]
    BY <1>3 DEF MakeNumber
  <2> QED BY <2>1 DEF SignFits
<1> QED BY <1>1, <1>2, <1>3 DEF CppValues

\* All numbers there are, were made.
LEMMA NumbersFit == \A x \in Numbers : SignFits(x)
BY MadeFits DEF Numbers

(***************************************************************************)
(* With signs that fit, integers compare as what they stand for, whatever  *)
(* they are kept as.                                                       *)
(***************************************************************************)
LEMMA IntegersCompare ==
    ASSUME NEW x, NEW y, SignFits(x), SignFits(y),
           x.type # "Double", y.type # "Double"
    PROVE  /\ Equal(x, y) <=> Halves(x) = Halves(y)
           /\ Less(x, y) <=> Halves(x) < Halves(y)
<1>1. x.value \in Int /\ y.value \in Int
  BY DEF SignFits
<1>2. Halves(x) = 2 * x.value /\ Halves(y) = 2 * y.value
  BY DEF Halves
<1>3. "Double" \notin {x.type, y.type}
    OBVIOUS
<1>4. CASE x.type = y.type
  BY <1>1, <1>2, <1>3, <1>4 DEF Equal, Less
<1>5. CASE x.type = "SignedInt" /\ y.type = "UnsignedInt"
  <2>1. x.value < 0 /\ y.value >= 0
    BY <1>5 DEF SignFits
  <2> QED BY <1>1, <1>2, <1>3, <1>5, <2>1 DEF Equal, Less
<1>6. CASE x.type = "UnsignedInt" /\ y.type = "SignedInt"
  <2>1. x.value >= 0 /\ y.value < 0
    BY <1>6 DEF SignFits
  <2> QED BY <1>1, <1>2, <1>3, <1>6, <2>1 DEF Equal, Less
<1> QED BY <1>4, <1>5, <1>6 DEF SignFits

(***************************************************************************)
(* Powers of two, up to the highest that is used.                          *)
(***************************************************************************)
Power(n) == 2 ^ n
Limit == 2 * W + MaxExponent + 1

\* The widths of the three types, and the powers.
LEMMA Widths ==
  /\ W \in Nat /\ Mantissa \in Nat /\ MaxExponent \in Nat /\ Limit \in Nat
  /\ 1 <= Mantissa /\ Mantissa <= W - 2 /\ W + 2 <= Mantissa + MaxExponent
  /\ Mantissa + MaxExponent + 1 <= Limit /\ Mantissa + W + 1 <= Limit
BY NumberAssumption DEF Limit

\* The first of them, and each from the one before.
LEMMA NextPower ==
  /\ Power(0) = 1
  /\ \A n \in 0 .. Limit - 1 : Power(n + 1) = 2 * Power(n)
<1>1. \A n \in 0 .. 2 * W + MaxExponent : Power(n + 1) = 2 * Power(n)
  BY PowerAssumption DEF Power
<1>2. 0 .. Limit - 1 = 0 .. 2 * W + MaxExponent
  BY Widths DEF Limit
<1>3. Power(0) = 1
  BY DEF Power
<1> QED BY <1>1, <1>2, <1>3

\* They are positive numbers.
LEMMA PowersPositive == \A n \in 0 .. Limit : Power(n) \in Nat \ {0}
<1> DEFINE T == {n \in 0 .. Limit : Power(n) \in Nat \ {0}}
<1>1. 0 \in T
  BY Widths, NextPower
<1>2. ASSUME NEW n \in 0 .. Limit - 1, n \in T PROVE n + 1 \in T
  <2>1. Power(n) \in Nat \ {0} /\ Power(n + 1) = 2 * Power(n)
    BY <1>2, NextPower
  <2>2. n + 1 \in 0 .. Limit
    BY Widths
  <2> QED BY <2>1, <2>2
<1> HIDE DEF T
<1>3. \A n \in 0 .. Limit : n \in T
  BY <1>1, <1>2, Widths, IntervalInduction
<1> QED BY <1>3 DEF T

\* The power of a sum.
LEMMA PowerOfSum ==
  ASSUME NEW m \in Nat, NEW n \in Nat, m + n <= Limit
  PROVE  Power(m + n) = Power(m) * Power(n)
<1> DEFINE T == {k \in 0 .. n : Power(m + k) = Power(m) * Power(k)}
<1>0. \A k \in 0 .. n : m + k \in 0 .. Limit /\ k \in 0 .. Limit /\ m \in 0 .. Limit
  BY Widths
<1>1. 0 \in T
  <2>1. Power(m) \in Nat /\ Power(0) = 1 /\ m + 0 = m
    BY <1>0, NextPower, PowersPositive
  <2>2. Power(m) * Power(0) = Power(m)
    BY <2>1
  <2> QED BY <2>1, <2>2
<1>2. ASSUME NEW k \in 0 .. n - 1, k \in T PROVE k + 1 \in T
  <2>1. /\ k \in 0 .. n /\ k + 1 \in 0 .. n /\ m + (k + 1) = (m + k) + 1
        /\ m + k \in 0 .. Limit - 1 /\ k \in 0 .. Limit - 1
    BY Widths
  <2>2. Power((m + k) + 1) = 2 * Power(m + k) /\ Power(k + 1) = 2 * Power(k)
    BY <2>1, NextPower
  <2>3. PICK a \in Nat, b \in Nat : a = Power(m) /\ b = Power(k)
    BY <1>0, <2>1, PowersPositive
  <2>4. 2 * (a * b) = a * (2 * b)
    BY <2>3
  <2> QED BY <1>2, <2>1, <2>2, <2>3, <2>4
<1> HIDE DEF T
<1>3. n \in T
  <2>1. n \in 0 .. n
    OBVIOUS
  <2> QED BY <1>1, <1>2, <2>1, IntervalInduction
<1> QED BY <1>3 DEF T

\* Powers grow.
LEMMA PowersGrow ==
  ASSUME NEW m \in Nat, NEW n \in Nat, m <= n, n <= Limit
  PROVE  Power(m) <= Power(n)
<1>1. n - m \in Nat /\ m + (n - m) = n /\ n - m \in 0 .. Limit /\ m \in 0 .. Limit
  BY Widths
<1>2. Power(n) = Power(m) * Power(n - m)
  BY <1>1, PowerOfSum
<1>3. PICK a \in Nat \ {0}, b \in Nat \ {0} : a = Power(m) /\ b = Power(n - m)
  BY <1>1, PowersPositive
<1>4. a <= a * b
  <2>1. PICK c \in Nat : b = c + 1
    <3>1. b - 1 \in Nat /\ b = (b - 1) + 1
      BY <1>3
    <3> QED BY <3>1
  <2>2. a * (c + 1) = a * c + a /\ a * c \in Nat
    BY <1>3, <2>1
  <2> QED BY <1>3, <2>1, <2>2
<1> QED BY <1>2, <1>3, <1>4

(***************************************************************************)
(* Rounding to multiples of p.                                             *)
(***************************************************************************)

\* The quotient that a rounds to.
Quotient(a, p) ==
    LET m == a \div p
        rest == 2 * (a % p)
    IN  IF rest > p \/ (rest = p /\ m % 2 = 1) THEN m + 1 ELSE m

\* A product grows with its first factor.
LEMMA ProductsGrow ==
  ASSUME NEW m \in Nat, NEW n \in Nat, NEW p \in Nat, m <= n
  PROVE  /\ m * p \in Nat /\ n * p \in Nat /\ m * p <= n * p
         /\ m < n => m * p + p <= n * p
<1>1. PICK k \in Nat : n = m + k
  <2>1. n - m \in Nat /\ n = m + (n - m)
    OBVIOUS
  <2> QED BY <2>1
<1>2. (m + k) * p = m * p + k * p /\ m * p \in Nat /\ k * p \in Nat
  OBVIOUS
<1>3. m < n => p <= k * p
  <2> SUFFICES ASSUME m < n PROVE p <= k * p
    OBVIOUS
  <2>1. PICK j \in Nat : k = j + 1
    <3>1. k - 1 \in Nat /\ k = (k - 1) + 1
      BY <1>1
    <3> QED BY <3>1
  <2>2. (j + 1) * p = j * p + p /\ j * p \in Nat
    OBVIOUS
  <2> QED BY <2>1, <2>2
<1> QED BY <1>1, <1>2, <1>3

\* A number between the multiples around it.
LEMMA Division ==
  ASSUME NEW a \in Nat, NEW p \in Nat \ {0}
  PROVE  /\ a \div p \in Nat /\ a % p \in 0 .. p - 1
         /\ a = (a \div p) * p + (a % p)
<1>1. a \div p \in Nat /\ a % p \in 0 .. p - 1
  OBVIOUS
<1>2. a = p * (a \div p) + (a % p)
  OBVIOUS
<1>3. PICK q \in Nat : q = a \div p
  BY <1>1
<1>4. p * q = q * p
  OBVIOUS
<1> QED BY <1>1, <1>2, <1>3, <1>4

\* A number rounds to one of the multiples around it, to itself if it is one.
LEMMA QuotientBounds ==
  ASSUME NEW a \in Nat, NEW p \in Nat \ {0}
  PROVE  /\ Quotient(a, p) \in {a \div p, a \div p + 1}
         /\ a % p = 0 => Quotient(a, p) = a \div p
<1>1. a % p = 0 => ~(2 * (a % p) > p) /\ ~(2 * (a % p) = p)
  OBVIOUS
<1> QED BY <1>1 DEF Quotient

\* The more, the higher.
LEMMA QuotientsGrow ==
  ASSUME NEW a \in Nat, NEW b \in Nat, NEW p \in Nat \ {0}, a <= b
  PROVE  Quotient(a, p) <= Quotient(b, p)
<1>1. PICK m \in Nat, r \in 0 .. p - 1 :
         m = a \div p /\ r = a % p /\ a = m * p + r
  BY Division
<1>2. PICK n \in Nat, s \in 0 .. p - 1 :
         n = b \div p /\ s = b % p /\ b = n * p + s
  BY Division
<1>3. Quotient(a, p) \in {m, m + 1} /\ Quotient(b, p) \in {n, n + 1}
  BY <1>1, <1>2, QuotientBounds
<1>4. m <= n
  <2> SUFFICES ASSUME n < m PROVE FALSE
    BY <1>1, <1>2
  <2>1. n * p + p <= m * p /\ n * p \in Nat /\ m * p \in Nat
    BY ProductsGrow
  <2>2. b < a
    BY <1>1, <1>2, <2>1
  <2> QED BY <2>2
<1>5. CASE m < n
  BY <1>3, <1>5
<1>6. CASE m = n
  <2>1. r <= s
    <3>1. m * p \in Nat
      OBVIOUS
    <3> QED BY <1>1, <1>2, <1>6, <3>1
  <2>2. (2 * r > p => 2 * s > p) /\ (2 * r = p => 2 * s = p \/ 2 * s > p)
    BY <2>1
  <2>3. Quotient(a, p) = IF 2 * r > p \/ (2 * r = p /\ m % 2 = 1) THEN m + 1 ELSE m
    BY <1>1 DEF Quotient
  <2>4. Quotient(b, p) = IF 2 * s > p \/ (2 * s = p /\ m % 2 = 1) THEN m + 1 ELSE m
    BY <1>2, <1>6 DEF Quotient
  <2> QED BY <2>2, <2>3, <2>4
<1> QED BY <1>4, <1>5, <1>6

\* Rounding does not lead past a multiple of p.
LEMMA QuotientKeepsSide ==
  ASSUME NEW a \in Nat, NEW p \in Nat \ {0}, NEW c \in Nat
  PROVE  /\ c * p <= a => c <= Quotient(a, p)
         /\ a <= c * p => Quotient(a, p) <= c
<1>1. PICK m \in Nat, r \in 0 .. p - 1 :
         m = a \div p /\ r = a % p /\ a = m * p + r
  BY Division
<1>2. Quotient(a, p) \in {m, m + 1} /\ (r = 0 => Quotient(a, p) = m)
  BY <1>1, QuotientBounds
<1>3. m * p \in Nat /\ c * p \in Nat
  OBVIOUS
<1>4. ASSUME c * p <= a PROVE c <= m
  <2> SUFFICES ASSUME m < c PROVE FALSE
    OBVIOUS
  <2>1. m * p + p <= c * p
    BY ProductsGrow
  <2> QED BY <1>1, <1>3, <1>4, <2>1
<1>5. ASSUME a <= c * p PROVE m < c \/ (m = c /\ r = 0)
  <2> SUFFICES ASSUME ~(m < c) PROVE m = c /\ r = 0
    OBVIOUS
  <2>1. c * p <= m * p
    BY ProductsGrow
  <2>2. m * p = c * p /\ r = 0
    BY <1>1, <1>3, <1>5, <2>1
  <2>3. m = c
    <3> SUFFICES ASSUME c < m PROVE FALSE
      OBVIOUS
    <3>1. c * p + p <= m * p
      BY ProductsGrow
    <3> QED BY <1>3, <2>2, <3>1
  <2> QED BY <2>2, <2>3
<1> QED BY <1>2, <1>4, <1>5

(***************************************************************************)
(* Round, of the halves of an integer of W bits.                           *)
(***************************************************************************)
Fits(a, k) == a < Power(Mantissa + k) /\ (k > 0 => a >= Power(Mantissa + k - 1))
Exponent(a) == CHOOSE k \in 0 .. W + 1 : Fits(a, k)
Rounded(a) == Quotient(a, Power(Exponent(a))) * Power(Exponent(a))

\* The sizes of such halves.
Sizes == {a \in Nat : a <= Power(W + 1)}

\* Every size has an exponent: the least of those that make it fit.
LEMMA ExponentFits ==
  ASSUME NEW a \in Sizes
  PROVE  /\ Exponent(a) \in 0 .. W + 1 /\ Exponent(a) \in 0 .. Limit
         /\ Power(Exponent(a)) \in Nat \ {0} /\ Fits(a, Exponent(a))
<1> DEFINE T == {k \in 0 .. W + 1 : a < Power(Mantissa + k)}
<1>1. W + 1 \in T
  <2>1. Power(W + 1) \in Nat \ {0} /\ Power(W + 2) = 2 * Power(W + 1)
    <3>1. W + 1 \in 0 .. Limit - 1 /\ (W + 1) + 1 = W + 2
      BY Widths
    <3>2. Power(W + 1) \in Nat \ {0}
      BY <3>1, PowersPositive, Widths
    <3>3. Power((W + 1) + 1) = 2 * Power(W + 1)
      BY <3>1, NextPower
    <3> QED BY <3>1, <3>2, <3>3
  <2>2. Power(W + 2) <= Power(Mantissa + (W + 1))
    <3>1. W + 2 \in Nat /\ Mantissa + (W + 1) \in Nat /\ W + 2 <= Mantissa + (W + 1)
          /\ Mantissa + (W + 1) <= Limit
      BY Widths
    <3> QED BY <3>1, PowersGrow
  <2>3. Power(Mantissa + (W + 1)) \in Nat
    <3>1. Mantissa + (W + 1) \in 0 .. Limit
      BY Widths
    <3> QED BY <3>1, PowersPositive
  <2>4. a \in Nat /\ a <= Power(W + 1)
    BY DEF Sizes
  <2>5. a < Power(Mantissa + (W + 1))
    BY <2>1, <2>2, <2>3, <2>4
  <2>6. W + 1 \in 0 .. W + 1
    BY Widths
  <2> QED BY <2>5, <2>6
<1>2. PICK k \in T : \A j \in T : k <= j
  <2>1. T \subseteq Nat /\ T # {}
    BY <1>1
  <2> HIDE DEF T
  <2> QED BY <2>1, LeastNumber
<1>3. Fits(a, k)
  <2>1. ASSUME k > 0 PROVE a >= Power(Mantissa + k - 1)
    <3>1. k - 1 \in 0 .. W + 1 /\ ~(k <= k - 1) /\ Mantissa + (k - 1) = Mantissa + k - 1
      BY <1>2, <2>1, Widths
    <3>2. k - 1 \notin T
      BY <1>2, <3>1
    <3>3. ~(a < Power(Mantissa + (k - 1)))
      BY <3>1, <3>2
    <3>4. Power(Mantissa + (k - 1)) \in Nat
      <4>1. Mantissa + (k - 1) \in 0 .. Limit
        BY <3>1, Widths
      <4> QED BY <4>1, PowersPositive
    <3>5. a \in Nat
      BY DEF Sizes
    <3> QED BY <3>1, <3>3, <3>4, <3>5
  <2>2. a < Power(Mantissa + k)
    BY <1>2
  <2> QED BY <2>1, <2>2 DEF Fits
<1>4. k \in 0 .. W + 1
  BY <1>2
<1>5. Exponent(a) \in 0 .. W + 1 /\ Fits(a, Exponent(a))
  BY <1>3, <1>4 DEF Exponent
<1>6. Exponent(a) \in 0 .. Limit
  BY <1>5, Widths
<1> QED BY <1>5, <1>6, PowersPositive

\* The definition, in these terms.
LEMMA RoundIs ==
  ASSUME NEW h \in Int
  PROVE  Round(h) = IF h < 0 THEN -Rounded(-h) ELSE Rounded(h)
<1> DEFINE R(a) ==
      LET e == CHOOSE k \in 0 .. W + 1 :
                /\ a < 2 ^ (Mantissa + k)
                /\ k > 0 => a >= 2 ^ (Mantissa + k - 1)
          m == a \div 2 ^ e
          rest == 2 * (a % 2 ^ e)
          up == rest > 2 ^ e \/ (rest = 2 ^ e /\ m % 2 = 1)
      IN  (IF up THEN m + 1 ELSE m) * 2 ^ e
<1>1. \A a : R(a) = Rounded(a)
  BY Zenon DEF R, Rounded, Quotient, Exponent, Fits, Power
<1>2. Round(h) = LET a == IF h < 0 THEN -h ELSE h IN IF h < 0 THEN -R(a) ELSE R(a)
  BY Zenon DEF Round
<1> HIDE DEF R
<1>3. CASE h < 0
  BY <1>1, <1>2, <1>3, Zenon
<1>4. CASE ~(h < 0)
  BY <1>1, <1>2, <1>4, Zenon
<1> QED BY <1>3, <1>4

\* A size rounds to a size.
LEMMA RoundedIsNat == ASSUME NEW a \in Sizes PROVE Rounded(a) \in Nat
<1>1. PICK p \in Nat \ {0} : p = Power(Exponent(a))
  BY ExponentFits
<1>2. a \in Nat
  BY DEF Sizes
<1>3. a \div p \in Nat
  BY <1>1, <1>2, Division
<1>4. PICK q \in Nat : q = Quotient(a, p)
  BY <1>1, <1>2, <1>3, QuotientBounds
<1>5. q * p \in Nat
  BY <1>1, <1>4
<1> QED BY <1>1, <1>4, <1>5 DEF Rounded

\* Rounding does not lead past a multiple of the last place that is kept.
LEMMA MultiplesKept ==
  ASSUME NEW a \in Sizes, NEW c \in Nat, NEW y \in Nat, y = c * Power(Exponent(a))
  PROVE  /\ y <= a => y <= Rounded(a)
         /\ a <= y => Rounded(a) <= y
<1>1. PICK p \in Nat \ {0} : p = Power(Exponent(a))
  BY ExponentFits
<1>2. a \in Nat
  BY DEF Sizes
<1>3. a \div p \in Nat
  BY <1>1, <1>2, Division
<1>4. PICK q \in Nat : q = Quotient(a, p)
  BY <1>1, <1>2, <1>3, QuotientBounds
<1>5. (c * p <= a => c <= q) /\ (a <= c * p => q <= c)
  BY <1>1, <1>2, <1>4, QuotientKeepsSide
<1>6. c <= q => c * p <= q * p
  BY ProductsGrow
<1>7. q <= c => q * p <= c * p
  BY ProductsGrow
<1>8. Rounded(a) = q * p /\ y = c * p
  BY <1>1, <1>4 DEF Rounded
<1> QED BY <1>5, <1>6, <1>7, <1>8

\* A power at least that of the last place is a multiple of it.
LEMMA PowersAreMultiples ==
  ASSUME NEW a \in Sizes, NEW n \in 0 .. Limit, Exponent(a) <= n
  PROVE  \E c \in Nat : Power(n) = c * Power(Exponent(a))
<1>1. PICK e \in Nat : e = Exponent(a)
  BY ExponentFits
<1>2. n - e \in Nat /\ (n - e) + e = n /\ n - e \in 0 .. Limit
  BY <1>1, Widths
<1>3. Power(n) = Power(n - e) * Power(e)
  BY <1>1, <1>2, PowerOfSum
<1>4. Power(n - e) \in Nat
  BY <1>2, PowersPositive
<1> QED BY <1>1, <1>3, <1>4

\* The binade of a size: its first power is passed by no rounding.
LEMMA BinadeStart ==
  ASSUME NEW a \in Sizes, Exponent(a) > 0
  PROVE  LET y == Power(Mantissa + Exponent(a) - 1)
         IN  y \in Nat /\ y <= a /\ y <= Rounded(a)
<1>1. PICK e \in 0 .. W + 1 : e = Exponent(a)
  BY ExponentFits
<1>2. Mantissa + e - 1 \in 0 .. Limit /\ e <= Mantissa + e - 1
  BY <1>1, Widths
<1>3. PICK c \in Nat : Power(Mantissa + e - 1) = c * Power(Exponent(a))
  BY <1>1, <1>2, PowersAreMultiples
<1>4. Power(Mantissa + e - 1) \in Nat
  BY <1>2, PowersPositive
<1>5. Power(Mantissa + e - 1) <= a
  BY <1>1, ExponentFits DEF Fits
<1>6. Power(Mantissa + e - 1) <= Rounded(a)
  BY <1>3, <1>4, <1>5, MultiplesKept
<1> QED BY <1>1, <1>4, <1>5, <1>6

\* Rounding keeps the order.
LEMMA RoundedGrows ==
  ASSUME NEW a \in Sizes, NEW b \in Sizes, a <= b
  PROVE  Rounded(a) <= Rounded(b)
<1>0. a \in Nat /\ b \in Nat /\ Rounded(a) \in Nat /\ Rounded(b) \in Nat
  BY RoundedIsNat DEF Sizes
<1>1. PICK d \in 0 .. W + 1 : d = Exponent(a)
  BY ExponentFits
<1>2. PICK e \in 0 .. W + 1 : e = Exponent(b)
  BY ExponentFits
<1>3. CASE d = e
  <2>1. PICK p \in Nat \ {0} : p = Power(Exponent(a)) /\ p = Power(Exponent(b))
    BY <1>1, <1>2, <1>3, ExponentFits
  <2>2. a \div p \in Nat /\ b \div p \in Nat
    BY <1>0, <2>1, Division
  <2>3. PICK q \in Nat, r \in Nat : q = Quotient(a, p) /\ r = Quotient(b, p)
    BY <1>0, <2>1, <2>2, QuotientBounds
  <2>4. q <= r
    BY <1>0, <2>1, <2>3, QuotientsGrow
  <2>5. q * p <= r * p
    BY <2>4, ProductsGrow
  <2> QED BY <2>1, <2>3, <2>5 DEF Rounded
<1>4. CASE d < e
  <2>1. e > 0 /\ Mantissa + e - 1 \in 0 .. Limit /\ d <= Mantissa + e - 1
        /\ Mantissa + d \in 0 .. Limit /\ Mantissa + d <= Mantissa + e - 1
        /\ Mantissa + d \in Nat /\ Mantissa + e - 1 \in Nat
    BY <1>1, <1>2, <1>4, Widths
  <2>2. PICK y \in Nat : y = Power(Mantissa + e - 1)
    BY <2>1, PowersPositive
  <2>3. y <= Rounded(b)
    BY <1>2, <2>1, <2>2, BinadeStart
  <2>4. a <= y
    <3>1. a < Power(Mantissa + d)
      BY <1>1, ExponentFits DEF Fits
    <3>2. Power(Mantissa + d) <= y /\ Power(Mantissa + d) \in Nat
      BY <2>1, <2>2, PowersGrow, PowersPositive
    <3> QED BY <1>0, <3>1, <3>2
  <2>5. PICK c \in Nat : y = c * Power(Exponent(a))
    BY <1>1, <2>1, <2>2, PowersAreMultiples
  <2>6. Rounded(a) <= y
    BY <2>4, <2>5, MultiplesKept
  <2> QED BY <1>0, <2>3, <2>6
<1>5. CASE e < d
  <2>1. d > 0 /\ Mantissa + d - 1 \in Nat /\ Mantissa + e \in Nat /\ Mantissa + e \in 0 .. Limit
        /\ Mantissa + e <= Mantissa + d - 1 /\ Mantissa + d - 1 <= Limit
    BY <1>1, <1>2, <1>5, Widths
  <2>2. Power(Mantissa + d - 1) <= a /\ Power(Mantissa + d - 1) \in Nat
    BY <1>1, <2>1, BinadeStart
  <2>3. b < Power(Mantissa + e)
    BY <1>2, ExponentFits DEF Fits
  <2>4. Power(Mantissa + e) <= Power(Mantissa + d - 1) /\ Power(Mantissa + e) \in Nat
    BY <2>1, PowersGrow, PowersPositive
  <2> QED BY <1>0, <2>2, <2>3, <2>4
<1> QED BY <1>1, <1>2, <1>3, <1>4, <1>5

\* The sizes of the doubles, Infinity among them.
IsDoubleSize(y) ==
  \E m \in 0 .. Power(Mantissa) - 1 : \E k \in 0 .. MaxExponent + 1 : y = m * Power(k)

\* Rounding does not lead past a double.
LEMMA DoublesKept ==
  ASSUME NEW a \in Sizes, NEW y \in Nat, IsDoubleSize(y)
  PROVE  /\ y <= a => y <= Rounded(a)
         /\ a <= y => Rounded(a) <= y
<1>0. Power(Mantissa) \in Nat \ {0}
  <2>1. Mantissa \in 0 .. Limit
    BY Widths
  <2> QED BY <2>1, PowersPositive
<1>1. PICK m \in 0 .. Power(Mantissa) - 1, k \in 0 .. MaxExponent + 1 : y = m * Power(k)
  BY DEF IsDoubleSize
<1>2. PICK e \in 0 .. W + 1 : e = Exponent(a)
  BY ExponentFits
<1>3. m \in Nat /\ m < Power(Mantissa) /\ k \in 0 .. Limit
  BY <1>0, <1>1, Widths
<1>4. CASE e <= k
  <2>1. PICK c \in Nat : Power(k) = c * Power(Exponent(a))
    BY <1>2, <1>3, <1>4, PowersAreMultiples
  <2>2. PICK p \in Nat \ {0} : p = Power(Exponent(a))
    BY ExponentFits
  <2>3. m * (c * p) = (m * c) * p /\ m * c \in Nat
    BY <1>3
  <2>4. y = (m * c) * Power(Exponent(a))
    BY <1>1, <2>1, <2>2, <2>3
  <2> QED BY <2>3, <2>4, MultiplesKept
<1>5. CASE k < e
  <2>1. Exponent(a) > 0 /\ Mantissa + k \in Nat /\ Mantissa + e - 1 \in Nat
        /\ Mantissa + k <= Mantissa + e - 1 /\ Mantissa + e - 1 <= Limit /\ Mantissa + k <= Limit
    BY <1>1, <1>2, <1>5, Widths
  <2>2. PICK z \in Nat : z = Power(Mantissa + e - 1) /\ z <= a /\ z <= Rounded(a)
    BY <1>2, <2>1, BinadeStart
  <2>3. y < Power(Mantissa + k)
    <3>1. PICK p \in Nat \ {0} : p = Power(k)
      BY <1>3, PowersPositive
    <3>2. PICK n \in Nat : n = Power(Mantissa)
      BY <1>0
    <3>3. m * p + p <= n * p /\ m * p \in Nat /\ n * p \in Nat
      BY <1>3, <3>2, ProductsGrow
    <3>4. Power(Mantissa + k) = n * p
      <4>1. Mantissa \in Nat /\ k \in Nat
        BY <1>1, Widths
      <4> QED BY <2>1, <3>1, <3>2, <4>1, PowerOfSum
    <3> QED BY <1>1, <3>1, <3>3, <3>4
  <2>4. Power(Mantissa + k) <= z /\ Power(Mantissa + k) \in Nat
    <3>1. Mantissa + k \in 0 .. Limit
      BY <2>1, Widths
    <3> QED BY <2>1, <2>2, <3>1, PowersGrow, PowersPositive
  <2>5. a \in Nat
    BY DEF Sizes
  <2>6. y < z
    BY <2>3, <2>4
  <2>7. Rounded(a) \in Nat
    BY RoundedIsNat
  <2> QED BY <2>2, <2>5, <2>6, <2>7
<1> QED BY <1>1, <1>2, <1>4, <1>5

\* The halves of integers of W bits, of either sign.
Wide == {h \in Int : -Power(W + 1) <= h /\ h <= Power(W + 1)}

\* What doubles there are, but for NaN.
Doubles == Finite \cup {-Infinity, Infinity}

\* Such halves, or minus them, are sizes.
LEMMA WideSizes ==
  ASSUME NEW h \in Wide
  PROVE  /\ h \in Int /\ (h < 0 => -h \in Sizes) /\ (h >= 0 => h \in Sizes)
<1>1. Power(W + 1) \in Nat
  <2>1. W + 1 \in 0 .. Limit
    BY Widths
  <2> QED BY <2>1, PowersPositive
<1> QED BY <1>1 DEF Wide, Sizes

\* An integer rounds to a whole number of halves.
LEMMA RoundIsInt == ASSUME NEW h \in Wide PROVE Round(h) \in Int
<1>1. CASE h < 0
  <2>1. Rounded(-h) \in Nat
    BY <1>1, WideSizes, RoundedIsNat
  <2> QED BY <1>1, <2>1, WideSizes, RoundIs
<1>2. CASE h >= 0
  <2>1. Rounded(h) \in Nat
    BY <1>2, WideSizes, RoundedIsNat
  <2>2. h \in Int /\ ~(h < 0)
    BY <1>2, WideSizes
  <2> QED BY <2>1, <2>2, RoundIs
<1> QED BY <1>1, <1>2, WideSizes

\* Rounding keeps the order of both signs.
LEMMA RoundGrows ==
  ASSUME NEW g \in Wide, NEW h \in Wide, g <= h
  PROVE  Round(g) <= Round(h)
<1>0. g \in Int /\ h \in Int
  BY WideSizes
<1>1. CASE g >= 0
  <2>1. g \in Sizes /\ h \in Sizes /\ ~(g < 0) /\ ~(h < 0)
    BY <1>0, <1>1, WideSizes
  <2> QED BY <1>0, <2>1, RoundIs, RoundedGrows
<1>2. CASE h < 0
  <2>1. -g \in Sizes /\ -h \in Sizes /\ g < 0 /\ -h <= -g
    BY <1>0, <1>2, WideSizes
  <2>2. Rounded(-h) <= Rounded(-g) /\ Rounded(-h) \in Nat /\ Rounded(-g) \in Nat
    BY <2>1, RoundedGrows, RoundedIsNat
  <2>3. Round(g) = -Rounded(-g) /\ Round(h) = -Rounded(-h)
    BY <1>0, <1>2, <2>1, RoundIs
  <2> QED BY <2>2, <2>3
<1>3. CASE g < 0 /\ h >= 0
  <2>1. -g \in Sizes /\ h \in Sizes /\ ~(h < 0)
    BY <1>0, <1>3, WideSizes
  <2>2. Rounded(h) \in Nat /\ Rounded(-g) \in Nat
    BY <2>1, RoundedIsNat
  <2>3. Round(g) = -Rounded(-g) /\ Round(h) = Rounded(h)
    BY <1>0, <1>3, <2>1, RoundIs
  <2> QED BY <2>2, <2>3
<1> QED BY <1>0, <1>1, <1>2, <1>3

\* A double is one of the sizes, or minus one.
LEMMA DoubleSizes ==
  ASSUME NEW y \in Doubles
  PROVE  \E s \in Nat : IsDoubleSize(s) /\ (y = s \/ y = -s)
<1>0. /\ \A k \in 0 .. MaxExponent + 1 : k \in 0 .. Limit /\ Power(k) \in Nat
      /\ Power(Mantissa) \in Nat \ {0}
  <2>1. Mantissa \in 0 .. Limit /\ \A k \in 0 .. MaxExponent + 1 : k \in 0 .. Limit
    BY Widths
  <2> QED BY <2>1, PowersPositive
<1>1. ASSUME NEW d \in {m * 2 ^ e : m \in 0 .. 2 ^ Mantissa - 1, e \in 0 .. MaxExponent}
      PROVE  d \in Nat /\ IsDoubleSize(d)
  <2>1. PICK m \in 0 .. Power(Mantissa) - 1, e \in 0 .. MaxExponent : d = m * Power(e)
    <3>1. d \in {m * Power(e) : m \in 0 .. Power(Mantissa) - 1, e \in 0 .. MaxExponent}
      BY DEF Power
    <3> QED BY <3>1
  <2>2. e \in 0 .. MaxExponent + 1
    BY Widths
  <2>3. PICK p \in Nat : p = Power(e)
    BY <1>0, <2>2
  <2>4. m \in Nat
    BY <1>0
  <2>5. m * p \in Nat
    BY <2>4
  <2> QED BY <2>1, <2>2, <2>3, <2>5 DEF IsDoubleSize
<1>2. Infinity \in Nat /\ IsDoubleSize(Infinity)
  <2>1. Mantissa - 1 \in Nat /\ MaxExponent + 1 \in Nat /\ Mantissa - 1 \in 0 .. Limit - 1
        /\ (Mantissa - 1) + (MaxExponent + 1) <= Limit /\ (Mantissa - 1) + 1 = Mantissa
        /\ (Mantissa - 1) + (MaxExponent + 1) = Mantissa + MaxExponent
        /\ MaxExponent + 1 \in 0 .. MaxExponent + 1 /\ Mantissa - 1 \in 0 .. Limit
    BY Widths
  <2>2. PICK m \in Nat \ {0} : m = Power(Mantissa - 1)
    BY <2>1, PowersPositive
  <2>3. Power(Mantissa) = 2 * m
    BY <2>1, <2>2, NextPower
  <2>4. m \in 0 .. Power(Mantissa) - 1
    BY <2>2, <2>3
  <2>5. Infinity = m * Power(MaxExponent + 1)
    <3>1. Infinity = Power(Mantissa + MaxExponent)
      BY DEF Infinity, Power
    <3> QED BY <2>1, <2>2, <3>1, PowerOfSum
  <2>6. PICK p \in Nat : p = Power(MaxExponent + 1)
    BY <1>0, <2>1
  <2>7. m * p \in Nat
    BY <2>2
  <2> QED BY <2>1, <2>4, <2>5, <2>6, <2>7 DEF IsDoubleSize
<1>3. CASE y \in {-Infinity, Infinity}
  BY <1>2, <1>3
<1>4. CASE y \in Finite
  BY <1>1, <1>4 DEF Finite
<1> QED BY <1>3, <1>4 DEF Doubles

\* Doubles are whole numbers of halves.
LEMMA DoublesAreInts == Doubles \subseteq Int /\ Infinity \in Nat /\ NaN \in Nat
<1>1. Doubles \subseteq Int
  BY DoubleSizes
<1>2. Infinity \in Nat
  <2>1. Infinity = Power(Mantissa + MaxExponent) /\ Mantissa + MaxExponent \in 0 .. Limit
    BY Widths DEF Infinity, Power
  <2> QED BY <2>1, PowersPositive
<1> QED BY <1>1, <1>2 DEF NaN

\* Rounding does not lead past a double, of either sign.
LEMMA RoundKeepsSides ==
  ASSUME NEW h \in Wide, NEW y \in Doubles
  PROVE  /\ y <= h => y <= Round(h)
         /\ h <= y => Round(h) <= y
<1>1. PICK s \in Nat : IsDoubleSize(s) /\ (y = s \/ y = -s)
  BY DoubleSizes
<1>2. CASE h < 0
  <2>1. -h \in Sizes /\ h \in Int
    BY <1>2, WideSizes
  <2>2. PICK r \in Nat : r = Rounded(-h)
    BY <2>1, RoundedIsNat
  <2>3. Round(h) = -r
    BY <1>2, <2>1, <2>2, RoundIs
  <2>4. (s <= -h => s <= r) /\ (-h <= s => r <= s)
    BY <1>1, <2>1, <2>2, DoublesKept
  <2> QED BY <1>1, <1>2, <2>1, <2>3, <2>4
<1>3. CASE h >= 0
  <2>1. h \in Sizes /\ h \in Int /\ ~(h < 0)
    BY <1>3, WideSizes
  <2>2. PICK r \in Nat : r = Rounded(h)
    BY <2>1, RoundedIsNat
  <2>3. Round(h) = r
    BY <2>1, <2>2, RoundIs
  <2>4. (s <= h => s <= r) /\ (h <= s => r <= s)
    BY <1>1, <2>1, <2>2, DoublesKept
  <2> QED BY <1>1, <1>3, <2>1, <2>3, <2>4
<1> QED BY <1>2, <1>3, WideSizes

\* No integer rounds to anything that is not a number.
LEMMA RoundIsNumber == ASSUME NEW h \in Wide PROVE Round(h) # NaN
<1>1. Infinity = Power(Mantissa + MaxExponent)
  BY DEF Infinity, Power
<1>2. Power(W + 1) <= Power(Mantissa + MaxExponent)
  <2>1. W + 1 \in Nat /\ Mantissa + MaxExponent \in Nat
        /\ W + 1 <= Mantissa + MaxExponent /\ Mantissa + MaxExponent <= Limit
    BY Widths
  <2> QED BY <2>1, PowersGrow
<1>3. Power(W + 1) \in Nat
  <2>1. W + 1 \in 0 .. Limit
    BY Widths
  <2> QED BY <2>1, PowersPositive
<1>4. h \in Int /\ h <= Power(W + 1)
  BY DEF Wide
<1>5. h <= Infinity
  BY <1>1, <1>2, <1>3, <1>4, DoublesAreInts
<1>6. Round(h) <= Infinity
  BY <1>5, RoundKeepsSides DEF Doubles
<1> QED BY <1>6, RoundIsInt, DoublesAreInts DEF NaN

Types == {"UnsignedInt", "SignedInt", "Double"}

\* What a number holds.
Holds(x) ==
  /\ x.type \in Types
  /\ x.type = "Double" => x.value \in Doubles \cup {NaN}
  /\ x.type # "Double" => /\ x.value \in -Power(W - 1) .. Power(W) - 1
                          /\ x.value \in Int

\* The limits of the integers.
LEMMA IntegerLimits ==
  /\ Power(W - 1) \in Nat \ {0}
  /\ Power(W) = 2 * Power(W - 1)
  /\ Power(W + 1) = 2 * Power(W)
  /\ 2 * Power(W + 1) <= Infinity
<1>1. /\ W - 1 \in 0 .. Limit - 1 /\ W \in 0 .. Limit - 1 /\ (W - 1) + 1 = W
      /\ W - 1 \in 0 .. Limit /\ W + 1 \in 0 .. Limit - 1 /\ (W + 1) + 1 = W + 2
      /\ W + 2 \in Nat /\ Mantissa + MaxExponent \in Nat
      /\ W + 2 <= Mantissa + MaxExponent /\ Mantissa + MaxExponent <= Limit
  BY Widths
<1>2. Power(W - 1) \in Nat \ {0}
  BY <1>1, PowersPositive
<1>3. Power((W - 1) + 1) = 2 * Power(W - 1) /\ Power(W + 1) = 2 * Power(W)
      /\ Power((W + 1) + 1) = 2 * Power(W + 1)
  BY <1>1, NextPower
<1>4. Power(W + 2) <= Power(Mantissa + MaxExponent)
  BY <1>1, PowersGrow
<1>5. Infinity = Power(Mantissa + MaxExponent)
  BY DEF Infinity, Power
<1> QED BY <1>1, <1>2, <1>3, <1>4, <1>5

\* So do the numbers that can be made.
LEMMA NumbersHold == \A x \in Numbers : Holds(x)
<1>1. PICK a \in Nat \ {0} : a = Power(W - 1) /\ Power(W) = 2 * a
  BY IntegerLimits
<1>2. ASSUME NEW v \in CppValues["unsigned"] PROVE Holds(MakeNumber("unsigned", v))
  <2>1. v \in 0 .. Power(W) - 1
    BY <1>2 DEF CppValues, Power
  <2>2. v \in -Power(W - 1) .. Power(W) - 1 /\ v \in Int
    BY <1>1, <2>1
  <2>3. MakeNumber("unsigned", v) = [type |-> "UnsignedInt", value |-> v]
    BY DEF MakeNumber
  <2> QED BY <2>2, <2>3 DEF Holds, Types
<1>3. ASSUME NEW v \in CppValues["signed"] PROVE Holds(MakeNumber("signed", v))
  <2>1. v \in -Power(W - 1) .. Power(W - 1) - 1
    BY <1>3 DEF CppValues, Power
  <2>2. v \in -Power(W - 1) .. Power(W) - 1 /\ v \in Int
    BY <1>1, <2>1
  <2>3. MakeNumber("signed", v)
          = [type |-> IF v < 0 THEN "SignedInt" ELSE "UnsignedInt", value |-> v]
    BY DEF MakeNumber
  <2> QED BY <2>2, <2>3 DEF Holds, Types
<1>4. ASSUME NEW v \in CppValues["floating"] PROVE Holds(MakeNumber("floating", v))
  <2>1. v \in Doubles \cup {NaN}
    BY <1>4 DEF CppValues, Doubles
  <2>2. MakeNumber("floating", v) = [type |-> "Double", value |-> v]
    BY DEF MakeNumber
  <2> QED BY <2>1, <2>2 DEF Holds, Types
<1>5. DOMAIN CppValues = {"unsigned", "signed", "floating"}
  BY DEF CppValues
<1>6. ASSUME NEW x \in Numbers
      PROVE  \E T \in DOMAIN CppValues : \E v \in CppValues[T] : x = MakeNumber(T, v)
  BY Zenon DEF Numbers
<1>7. ASSUME NEW x \in Numbers PROVE Holds(x)
  <2>1. PICK T \in DOMAIN CppValues : \E v \in CppValues[T] : x = MakeNumber(T, v)
    BY <1>6
  <2>2. PICK v \in CppValues[T] : x = MakeNumber(T, v)
    BY <2>1
  <2>3. CASE T = "unsigned"
    BY <1>2, <2>2, <2>3, Zenon
  <2>4. CASE T = "signed"
    BY <1>3, <2>2, <2>4, Zenon
  <2>5. CASE T = "floating"
    BY <1>4, <2>2, <2>5, Zenon
  <2> QED BY <1>5, <2>3, <2>4, <2>5
<1> QED BY <1>7

\* The halves of a number, and of what it is as a double.
Converts(x) ==
  /\ x.type = "Double" => Halves(x) \in Doubles /\ as_double(x) = Halves(x)
  /\ x.type # "Double" => Halves(x) \in Wide /\ as_double(x) = Round(Halves(x))
  /\ Halves(x) \in Int /\ as_double(x) \in Int /\ as_double(x) # NaN

\* All numbers but NaN convert so, and NaN is a double.
LEMMA NumbersConvert ==
  ASSUME NEW x \in Numbers
  PROVE  /\ IsNumber(x) => Converts(x)
         /\ x.type # "Double" => IsNumber(x)
         /\ ~IsNumber(x) => x.type = "Double" /\ as_double(x) = NaN
<1>0. Holds(x)
  BY NumbersHold
<1>1. CASE x.type = "Double"
  <2>1. as_double(x) = x.value /\ Halves(x) = x.value
    BY <1>1 DEF as_double, Halves
  <2>2. IsNumber(x) <=> x.value # NaN
    BY DEF IsNumber
  <2>3. x.value \in Doubles \cup {NaN}
    BY <1>0, <1>1 DEF Holds
  <2>4. IsNumber(x) => x.value \in Doubles /\ x.value \in Int
    BY <2>2, <2>3, DoublesAreInts
  <2> QED BY <1>1, <2>1, <2>2, <2>4 DEF Converts
<1>2. CASE x.type # "Double"
  <2>1. as_double(x) = Round(2 * x.value) /\ Halves(x) = 2 * x.value
    BY <1>2 DEF as_double, Halves
  <2>2. x.value \in -Power(W - 1) .. Power(W) - 1 /\ x.value \in Int
    BY <1>0, <1>2 DEF Holds
  <2>3. PICK a \in Nat \ {0} : a = Power(W - 1) /\ Power(W) = 2 * a /\ Power(W + 1) = 2 * (2 * a)
    BY IntegerLimits
  <2>4. 2 * x.value \in Wide
    BY <2>2, <2>3 DEF Wide
  <2>5. x.value < NaN
    BY <2>2, <2>3, IntegerLimits, DoublesAreInts DEF NaN
  <2>6. IsNumber(x)
    BY <2>2, <2>5, DoublesAreInts DEF IsNumber
  <2>7. Round(2 * x.value) \in Int /\ Round(2 * x.value) # NaN /\ 2 * x.value \in Int
    BY <2>2, <2>4, RoundIsInt, RoundIsNumber
  <2> QED BY <1>2, <2>1, <2>4, <2>6, <2>7 DEF Converts
<1> QED BY <1>1, <1>2

\* As doubles, numbers keep their order.
LEMMA OrderKept ==
  ASSUME NEW x, NEW y, Converts(x), Converts(y), Halves(x) <= Halves(y)
  PROVE  as_double(x) <= as_double(y)
<1>1. CASE x.type = "Double" /\ y.type = "Double"
  BY <1>1 DEF Converts
<1>2. CASE x.type = "Double" /\ y.type # "Double"
  BY <1>2, RoundKeepsSides DEF Converts
<1>3. CASE x.type # "Double" /\ y.type = "Double"
  BY <1>3, RoundKeepsSides DEF Converts
<1>4. CASE x.type # "Double" /\ y.type # "Double"
  BY <1>4, RoundGrows DEF Converts
<1> QED BY <1>1, <1>2, <1>3, <1>4

\* What is compared as doubles.
LEMMA DoublesCompare ==
  ASSUME NEW x, NEW y, x.type = "Double" \/ y.type = "Double"
  PROVE  /\ Less(x, y) <=> DoubleLess(as_double(x), as_double(y))
         /\ Equal(x, y) <=> DoubleEqual(as_double(x), as_double(y))
<1>1. "Double" \in {x.type, y.type}
  OBVIOUS
<1> QED BY <1>1, Zenon DEF Less, Equal

\* What is less, or equal, is a number.
LEMMA OnlyNumbersCompare ==
  ASSUME NEW x \in Numbers, NEW y \in Numbers, Less(x, y) \/ Equal(x, y)
  PROVE  IsNumber(x) /\ IsNumber(y)
<1>1. CASE x.type = "Double" \/ y.type = "Double"
  <2>1. as_double(x) # NaN /\ as_double(y) # NaN
    BY <1>1, DoublesCompare DEF DoubleLess, DoubleEqual
  <2> QED BY <2>1, NumbersConvert
<1>2. CASE x.type # "Double" /\ y.type # "Double"
  BY <1>2, NumbersConvert
<1> QED BY <1>1, <1>2

\* The comparison of two numbers, one of them a double.
LEMMA MixedCompare ==
  ASSUME NEW x, NEW y, Converts(x), Converts(y), x.type = "Double" \/ y.type = "Double"
  PROVE  /\ Less(x, y) <=> as_double(x) < as_double(y)
         /\ Equal(x, y) <=> as_double(x) = as_double(y)
BY DoublesCompare DEF Converts, DoubleLess, DoubleEqual

\* What ComparesUpToRounding says, of any two numbers.
LEMMA ComparisonRounds ==
  ASSUME NEW x \in Numbers, NEW y \in Numbers, IsNumber(x), IsNumber(y)
  PROVE  /\ Less(x, y) => Halves(x) < Halves(y)
         /\ Halves(x) < Halves(y) => Less(x, y) \/ (Equal(x, y) /\ y.type # x.type)
         /\ Halves(x) = Halves(y) => Equal(x, y)
<1>0. Converts(x) /\ Converts(y)
  BY NumbersConvert
<1>1. Halves(x) \in Int /\ Halves(y) \in Int /\ as_double(x) \in Int /\ as_double(y) \in Int
  BY <1>0 DEF Converts
<1>2. CASE x.type = "Double" \/ y.type = "Double"
  <2>1. ASSUME as_double(x) < as_double(y) PROVE Halves(x) < Halves(y)
    BY <1>0, <1>1, <2>1, OrderKept
  <2>2. ASSUME Halves(x) < Halves(y) PROVE as_double(x) <= as_double(y)
    BY <1>0, <1>1, <2>2, OrderKept
  <2>3. ASSUME Halves(x) = Halves(y) PROVE as_double(x) = as_double(y)
    BY <1>0, <1>1, <2>3, OrderKept
  <2>4. ASSUME Halves(x) < Halves(y), y.type = x.type PROVE as_double(x) < as_double(y)
    BY <1>0, <1>2, <2>4 DEF Converts
  <2> QED BY <1>0, <1>1, <1>2, <2>1, <2>2, <2>3, <2>4, MixedCompare
<1>3. CASE x.type # "Double" /\ y.type # "Double"
  <2>1. SignFits(x) /\ SignFits(y)
    BY NumbersFit
  <2> QED BY <1>3, <2>1, IntegersCompare
<1> QED BY <1>2, <1>3

\* Less is transitive, whatever is compared as what.
LEMMA LessChains ==
  ASSUME NEW x \in Numbers, NEW y \in Numbers, NEW z \in Numbers, Less(x, y), Less(y, z)
  PROVE  Less(x, z)
<1>0. IsNumber(x) /\ IsNumber(y) /\ IsNumber(z)
  BY OnlyNumbersCompare
<1>1. Converts(x) /\ Converts(y) /\ Converts(z)
  BY <1>0, NumbersConvert
<1>2. /\ Halves(x) \in Int /\ Halves(y) \in Int /\ Halves(z) \in Int
      /\ as_double(x) \in Int /\ as_double(y) \in Int /\ as_double(z) \in Int
  BY <1>1 DEF Converts
<1>3. Halves(x) < Halves(y) /\ Halves(y) < Halves(z)
  BY <1>0, ComparisonRounds
<1>4. as_double(x) <= as_double(y) /\ as_double(y) <= as_double(z)
  BY <1>1, <1>2, <1>3, OrderKept
<1>5. CASE x.type = "Double" \/ z.type = "Double"
  <2>1. as_double(x) < as_double(y) \/ as_double(y) < as_double(z)
    BY <1>1, <1>5, MixedCompare
  <2> QED BY <1>1, <1>2, <1>4, <1>5, <2>1, MixedCompare
<1>6. CASE x.type # "Double" /\ z.type # "Double"
  <2>1. SignFits(x) /\ SignFits(z)
    BY NumbersFit
  <2> QED BY <1>2, <1>3, <1>6, <2>1, IntegersCompare
<1> QED BY <1>5, <1>6

\* One of the three, of any two numbers.
LEMMA NumbersRelate ==
  ASSUME NEW x \in Numbers, NEW y \in Numbers, IsNumber(x), IsNumber(y)
  PROVE  /\ Less(x, y) \/ Equal(x, y) \/ Less(y, x)
         /\ ~(Less(x, y) /\ Equal(x, y)) /\ ~(Less(x, y) /\ Less(y, x))
         /\ Equal(x, y) => Equal(y, x)
<1>0. Converts(x) /\ Converts(y)
  BY NumbersConvert
<1>1. Halves(x) \in Int /\ Halves(y) \in Int /\ as_double(x) \in Int /\ as_double(y) \in Int
  BY <1>0 DEF Converts
<1>2. CASE x.type = "Double" \/ y.type = "Double"
  BY <1>0, <1>1, <1>2, MixedCompare
<1>3. CASE x.type # "Double" /\ y.type # "Double"
  <2>1. SignFits(x) /\ SignFits(y)
    BY NumbersFit
  <2> QED BY <1>1, <1>3, <2>1, IntegersCompare
<1> QED BY <1>2, <1>3

\* No number is less than itself, and neither is what is none.
LEMMA LessNotSelf == \A x \in Numbers : ~Less(x, x)
<1> SUFFICES ASSUME NEW x \in Numbers, Less(x, x) PROVE FALSE
  OBVIOUS
<1>1. IsNumber(x)
  BY OnlyNumbersCompare
<1> QED BY <1>1, NumbersRelate

(***************************************************************************)
(* Strings are in an order.                                                *)
(***************************************************************************)

\* Strings are less from the unit n + 1 on.
LessFrom(s, t, n) ==
  /\ n \in 0 .. Len(s) /\ n < Len(t)
  /\ \A i \in 1 .. n : s[i] = t[i]
  /\ n = Len(s) \/ s[n + 1] < t[n + 1]

\* The definition, in these terms.
LEMMA StringLessFrom ==
  ASSUME NEW s, NEW t
  PROVE  StringLess(s, t) <=> \E n : LessFrom(s, t, n)
BY DEF StringLess, LessFrom

\* No string is less than itself.
LEMMA StringNotSelf == ASSUME NEW s \in Seq(Nat) PROVE ~StringLess(s, s)
<1> SUFFICES ASSUME NEW n, LessFrom(s, s, n) PROVE FALSE
  BY StringLessFrom
<1>1. n \in 0 .. Len(s) /\ n < Len(s) /\ (n = Len(s) \/ s[n + 1] < s[n + 1])
  BY DEF LessFrom
<1>2. Len(s) \in Nat /\ \A i \in 1 .. Len(s) : s[i] \in Nat
  OBVIOUS
<1>3. n + 1 \in 1 .. Len(s)
  BY <1>1, <1>2
<1> QED BY <1>1, <1>2, <1>3

\* What is less than a lesser string is less: the first unit that differs decides.
LEMMA StringsChain ==
  ASSUME NEW s \in Seq(Nat), NEW t \in Seq(Nat), NEW u \in Seq(Nat),
         StringLess(s, t), StringLess(t, u)
  PROVE  StringLess(s, u)
<1>1. PICK m : LessFrom(s, t, m)
  BY StringLessFrom
<1>2. PICK n : LessFrom(t, u, n)
  BY StringLessFrom
<1>3. /\ Len(s) \in Nat /\ Len(t) \in Nat /\ Len(u) \in Nat
      /\ \A i \in 1 .. Len(s) : s[i] \in Nat
      /\ \A i \in 1 .. Len(t) : t[i] \in Nat
      /\ \A i \in 1 .. Len(u) : u[i] \in Nat
  OBVIOUS
<1>4. m \in Nat /\ m <= Len(s) /\ m < Len(t) /\ n \in Nat /\ n <= Len(t) /\ n < Len(u)
  BY <1>1, <1>2, <1>3 DEF LessFrom
<1>5. CASE m < n
  <2>1. m \in 0 .. Len(s) /\ m < Len(u)
    BY <1>3, <1>4, <1>5
  <2>2. \A i \in 1 .. m : s[i] = u[i]
    BY <1>1, <1>2, <1>4, <1>5 DEF LessFrom
  <2>3. m + 1 \in 1 .. n
    BY <1>4, <1>5
  <2>4. t[m + 1] = u[m + 1]
    BY <1>2, <2>3 DEF LessFrom
  <2>5. m = Len(s) \/ s[m + 1] < u[m + 1]
    BY <1>1, <2>4 DEF LessFrom
  <2>6. LessFrom(s, u, m)
    BY <2>1, <2>2, <2>5 DEF LessFrom
  <2> QED BY <2>6, StringLessFrom
<1>6. CASE n < m
  <2>1. n \in 0 .. Len(s) /\ n < Len(u)
    BY <1>3, <1>4, <1>6
  <2>2. \A i \in 1 .. n : s[i] = u[i]
    BY <1>1, <1>2, <1>4, <1>6 DEF LessFrom
  <2>3. n + 1 \in 1 .. m /\ n # Len(t)
    BY <1>3, <1>4, <1>6
  <2>4. s[n + 1] = t[n + 1]
    BY <1>1, <2>3 DEF LessFrom
  <2>5. s[n + 1] < u[n + 1]
    BY <1>2, <2>3, <2>4 DEF LessFrom
  <2>6. LessFrom(s, u, n)
    BY <2>1, <2>2, <2>5 DEF LessFrom
  <2> QED BY <2>6, StringLessFrom
<1>7. CASE m = n
  <2>1. n \in 0 .. Len(s) /\ n < Len(u) /\ n # Len(t)
    BY <1>3, <1>4, <1>7
  <2>2. \A i \in 1 .. n : s[i] = u[i]
    BY <1>1, <1>2, <1>7 DEF LessFrom
  <2>3. t[n + 1] < u[n + 1]
    BY <1>2, <2>1 DEF LessFrom
  <2>4. n = Len(s) \/ s[n + 1] < t[n + 1]
    BY <1>1, <1>7 DEF LessFrom
  <2>5. n + 1 \in 1 .. Len(t) /\ n + 1 \in 1 .. Len(u)
    BY <1>3, <1>4, <1>7
  <2>6. t[n + 1] \in Nat /\ u[n + 1] \in Nat
    BY <1>3, <2>5
  <2>7. n # Len(s) => n + 1 \in 1 .. Len(s)
    BY <1>3, <2>1
  <2>8. ASSUME n # Len(s) PROVE s[n + 1] < u[n + 1]
    <3>1. PICK a \in Nat : a = s[n + 1]
      BY <1>3, <2>7, <2>8
    <3>2. PICK b \in Nat, c \in Nat : b = t[n + 1] /\ c = u[n + 1]
      BY <2>6
    <3>3. a < b /\ b < c
      BY <2>3, <2>4, <2>8, <3>1, <3>2
    <3>4. a < c
      BY <3>3
    <3> QED BY <3>1, <3>2, <3>4
  <2>9. LessFrom(s, u, n)
    BY <2>1, <2>2, <2>8 DEF LessFrom
  <2> QED BY <2>9, StringLessFrom
<1> QED BY <1>4, <1>5, <1>6, <1>7

\* Of two strings one is less, or they are the same.
LEMMA StringsRelate ==
  ASSUME NEW s \in Seq(Nat), NEW t \in Seq(Nat)
  PROVE  StringLess(s, t) \/ s = t \/ StringLess(t, s)
<1>0. /\ Len(s) \in Nat /\ Len(t) \in Nat
      /\ \A i \in 1 .. Len(s) : s[i] \in Nat
      /\ \A i \in 1 .. Len(t) : t[i] \in Nat
  OBVIOUS
<1> DEFINE Ends(n) == n = Len(s) \/ n = Len(t) \/ s[n + 1] # t[n + 1]
           T == {n \in Nat : n <= Len(s) /\ n <= Len(t) /\ Ends(n)}
<1>1. T # {} /\ T \subseteq Nat
  <2>1. CASE Len(s) <= Len(t)
    BY <1>0, <2>1
  <2>2. CASE Len(t) <= Len(s)
    BY <1>0, <2>2
  <2> QED BY <1>0, <2>1, <2>2
<1>2. PICK n \in T : \A m \in T : n <= m
  <2> HIDE DEF T
  <2> QED BY <1>1, LeastNumber
<1>3. n \in Nat /\ n <= Len(s) /\ n <= Len(t) /\ Ends(n)
  BY <1>2
<1>4. \A i \in 1 .. n : s[i] = t[i]
  <2> SUFFICES ASSUME NEW i \in 1 .. n, s[i] # t[i] PROVE FALSE
    OBVIOUS
  <2>1. PICK j \in Nat : j + 1 = i /\ j <= n /\ ~(n <= j)
    <3>1. n \in Nat
      BY <1>2
    <3> HIDE DEF T, Ends
    <3>2. i - 1 \in Nat /\ (i - 1) + 1 = i /\ i - 1 <= n /\ ~(n <= i - 1)
      BY <3>1
    <3> QED BY <3>2
  <2>2. j <= Len(s) /\ j <= Len(t)
    <3>1. n \in Nat /\ n <= Len(s) /\ n <= Len(t) /\ Len(s) \in Nat /\ Len(t) \in Nat
      BY <1>2
    <3> HIDE DEF T, Ends
    <3> QED BY <2>1, <3>1
  <2>3. Ends(j)
    BY <2>1
  <2>4. j \in T
    <3> HIDE DEF Ends
    <3> QED BY <2>2, <2>3
  <2> HIDE DEF T
  <2> QED BY <1>2, <2>1, <2>4
<1> HIDE DEF T
<1>5. CASE n = Len(s) /\ n = Len(t)
  <2>1. Len(s) = Len(t) /\ \A i \in 1 .. Len(s) : s[i] = t[i]
    BY <1>4, <1>5
  <2>2. s = t
    BY <2>1, SeqEqual
  <2> QED BY <2>2
<1>6. CASE n = Len(s) /\ n < Len(t)
  <2>1. LessFrom(s, t, n)
    BY <1>0, <1>3, <1>4, <1>6 DEF LessFrom
  <2> QED BY <2>1, StringLessFrom
<1>7. CASE n = Len(t) /\ n < Len(s)
  <2>1. LessFrom(t, s, n)
    BY <1>0, <1>3, <1>4, <1>7 DEF LessFrom
  <2> QED BY <2>1, StringLessFrom
<1>8. CASE n < Len(s) /\ n < Len(t)
  <2>1. n + 1 \in 1 .. Len(s) /\ n + 1 \in 1 .. Len(t) /\ s[n + 1] # t[n + 1]
    BY <1>0, <1>3, <1>8
  <2>2. s[n + 1] \in Nat /\ t[n + 1] \in Nat
    BY <1>0, <2>1
  <2>3. CASE s[n + 1] < t[n + 1]
    <3>1. LessFrom(s, t, n)
      BY <1>0, <1>3, <1>4, <1>8, <2>3 DEF LessFrom
    <3> QED BY <3>1, StringLessFrom
  <2>4. CASE t[n + 1] < s[n + 1]
    <3>1. LessFrom(t, s, n)
      BY <1>0, <1>3, <1>4, <1>8, <2>4 DEF LessFrom
    <3> QED BY <3>1, StringLessFrom
  <2> QED BY <2>1, <2>2, <2>3, <2>4
<1> QED BY <1>0, <1>3, <1>5, <1>6, <1>7, <1>8

(***************************************************************************)
(* The values that an application can make, by what they are.              *)
(***************************************************************************)
IsValue(v) ==
  /\ v.kind \in {"Null", "Number", "String", "Object"}
  /\ v.kind = "Null" => v.content = "none"
  /\ v.kind = "Number" => v.content \in Numbers
  /\ v.kind = "String" => v.content \in Seq(Nat)
  /\ v.kind = "Object" => v.content \in Nat

\* All values are one of them.
LEMMA ValuesAre == \A v \in Values : IsValue(v)
<1> SUFFICES ASSUME NEW v \in Values PROVE IsValue(v)
  OBVIOUS
<1>1. CASE v = NullValue
  BY <1>1 DEF NullValue, IsValue
<1>2. CASE v \in {NumberValue(x) : x \in Numbers}
  BY <1>2 DEF NumberValue, IsValue
<1>3. CASE v \in {StringValue(s) : s \in Strings}
  BY <1>3, ValueAssumption DEF StringValue, IsValue
<1>4. CASE v \in {ObjectValue(o) : o \in Objects}
  BY <1>4, ValueAssumption DEF ObjectValue, IsValue
<1> QED BY <1>1, <1>2, <1>3, <1>4 DEF Values

\* The order of two values, by their kinds.
LEMMA ValueLessIs ==
  ASSUME NEW v, NEW w
  PROVE  /\ v.kind = "Null" /\ w.kind = "Null" => ~ValueLess(v, w)
         /\ v.kind = "Number" /\ w.kind = "Number" =>
               (ValueLess(v, w) <=> Less(v.content, w.content))
         /\ v.kind = "String" /\ w.kind = "String" =>
               (ValueLess(v, w) <=> StringLess(v.content, w.content))
         /\ v.kind = "Object" /\ w.kind = "Object" =>
               (ValueLess(v, w) <=> v.content < w.content)
<1> DEFINE L == CASE v.kind = "Null"   -> FALSE
                  [] v.kind = "Number" -> Less(v.content, w.content)
                  [] v.kind = "String" -> StringLess(v.content, w.content)
                  [] v.kind = "Object" -> v.content < w.content
<1>1. ValueLess(v, w) <=> Rank[v.kind] < Rank[w.kind] \/ (v.kind = w.kind /\ L)
  BY Zenon DEF ValueLess
<1>2. /\ v.kind = "Null" => ~L
      /\ v.kind = "Number" => (L <=> Less(v.content, w.content))
      /\ v.kind = "String" => (L <=> StringLess(v.content, w.content))
      /\ v.kind = "Object" => (L <=> v.content < w.content)
  OBVIOUS
<1> HIDE DEF L
<1>3. v.kind = w.kind /\ v.kind \in DOMAIN Rank => ~(Rank[v.kind] < Rank[w.kind])
  BY DEF Rank
<1>4. {"Null", "Number", "String", "Object"} \subseteq DOMAIN Rank
  BY DEF Rank
<1> QED BY <1>1, <1>2, <1>3, <1>4

\* Values of two kinds compare as their kinds.
LEMMA KindsCompare ==
  ASSUME NEW v, NEW w, IsValue(v), IsValue(w)
  PROVE  /\ Rank[v.kind] \in Nat /\ Rank[w.kind] \in Nat
         /\ Rank[v.kind] = Rank[w.kind] <=> v.kind = w.kind
         /\ v.kind # w.kind => (ValueLess(v, w) <=> Rank[v.kind] < Rank[w.kind])
         /\ ValueLess(v, w) => Rank[v.kind] <= Rank[w.kind]
<1>1. /\ Rank[v.kind] \in Nat /\ Rank[w.kind] \in Nat
      /\ Rank[v.kind] = Rank[w.kind] <=> v.kind = w.kind
  BY DEF Rank, IsValue
<1>2. /\ v.kind # w.kind => (ValueLess(v, w) <=> Rank[v.kind] < Rank[w.kind])
      /\ ValueLess(v, w) => Rank[v.kind] < Rank[w.kind] \/ v.kind = w.kind
  BY Zenon DEF ValueLess
<1> QED BY <1>1, <1>2

\* No value is less than itself, NaN among them.
LEMMA ValueNotSelf == ASSUME NEW v, IsValue(v) PROVE ~ValueLess(v, v)
<1>1. CASE v.kind = "Null"
  BY <1>1, ValueLessIs
<1>2. CASE v.kind = "Number"
  <2>1. v.content \in Numbers
    BY <1>2 DEF IsValue
  <2> QED BY <1>2, <2>1, ValueLessIs, LessNotSelf
<1>3. CASE v.kind = "String"
  <2>1. v.content \in Seq(Nat)
    BY <1>3 DEF IsValue
  <2> QED BY <1>3, <2>1, ValueLessIs, StringNotSelf
<1>4. CASE v.kind = "Object"
  <2>1. v.content \in Nat
    BY <1>4 DEF IsValue
  <2> QED BY <1>4, <2>1, ValueLessIs
<1> QED BY <1>1, <1>2, <1>3, <1>4 DEF IsValue

\* Less is transitive over all values.
LEMMA ValuesChain ==
  ASSUME NEW u, NEW v, NEW w, IsValue(u), IsValue(v), IsValue(w),
         ValueLess(u, v), ValueLess(v, w)
  PROVE  ValueLess(u, w)
<1>1. /\ Rank[u.kind] \in Nat /\ Rank[v.kind] \in Nat /\ Rank[w.kind] \in Nat
      /\ Rank[u.kind] <= Rank[v.kind] /\ Rank[v.kind] <= Rank[w.kind]
  BY KindsCompare
<1>2. CASE u.kind # w.kind
  <2>1. Rank[u.kind] # Rank[w.kind]
    BY <1>2, KindsCompare
  <2> QED BY <1>1, <1>2, <2>1, KindsCompare
<1>3. CASE u.kind = w.kind
  <2>1. v.kind = u.kind
    <3>1. Rank[u.kind] = Rank[v.kind]
      BY <1>1, <1>3
    <3> QED BY <3>1, KindsCompare
  <2>2. CASE u.kind = "Null"
    BY <2>1, <2>2, ValueLessIs
  <2>3. CASE u.kind = "Number"
    <3>1. u.content \in Numbers /\ v.content \in Numbers /\ w.content \in Numbers
      BY <1>3, <2>1, <2>3 DEF IsValue
    <3>2. Less(u.content, v.content) /\ Less(v.content, w.content)
      BY <1>3, <2>1, <2>3, ValueLessIs
    <3> QED BY <1>3, <2>3, <3>1, <3>2, ValueLessIs, LessChains
  <2>4. CASE u.kind = "String"
    <3>1. u.content \in Seq(Nat) /\ v.content \in Seq(Nat) /\ w.content \in Seq(Nat)
      BY <1>3, <2>1, <2>4 DEF IsValue
    <3>2. StringLess(u.content, v.content) /\ StringLess(v.content, w.content)
      BY <1>3, <2>1, <2>4, ValueLessIs
    <3> QED BY <1>3, <2>4, <3>1, <3>2, ValueLessIs, StringsChain
  <2>5. CASE u.kind = "Object"
    <3>1. u.content \in Nat /\ v.content \in Nat /\ w.content \in Nat
      BY <1>3, <2>1, <2>5 DEF IsValue
    <3>2. u.content < v.content /\ v.content < w.content
      BY <1>3, <2>1, <2>5, ValueLessIs
    <3>3. u.content < w.content
      BY <3>1, <3>2
    <3> QED BY <1>3, <2>5, <3>3, ValueLessIs
  <2> QED BY <2>2, <2>3, <2>4, <2>5 DEF IsValue
<1> QED BY <1>2, <1>3

\* One of the three, of any two values that are not NaN.
LEMMA ValuesRelate ==
  ASSUME NEW v, NEW w, IsValue(v), IsValue(w), ~IsNaN(v), ~IsNaN(w)
  PROVE  /\ ValueLess(v, w) \/ ValueEqual(v, w) \/ ValueLess(w, v)
         /\ ~(ValueLess(v, w) /\ ValueEqual(v, w))
         /\ ~(ValueLess(w, v) /\ ValueEqual(v, w))
         /\ ~(ValueLess(w, v) /\ ValueLess(v, w))
<1>1. ~(ValueLess(w, v) /\ ValueLess(v, w))
  <2> SUFFICES ASSUME ValueLess(w, v), ValueLess(v, w) PROVE FALSE
    OBVIOUS
  <2>1. ValueLess(v, v)
    BY ValuesChain
  <2> QED BY <2>1, ValueNotSelf
<1>2. CASE v.kind # w.kind
  <2>1. ~ValueEqual(v, w)
    BY <1>2 DEF ValueEqual
  <2>2. ValueLess(v, w) \/ ValueLess(w, v)
    BY <1>2, KindsCompare
  <2> QED BY <1>1, <2>1, <2>2
<1>3. CASE v.kind = w.kind /\ v.kind = "Null"
  <2>1. ValueEqual(v, w)
    BY <1>3 DEF ValueEqual, IsValue
  <2> QED BY <1>3, <2>1, ValueLessIs
<1>4. CASE v.kind = w.kind /\ v.kind = "Number"
  <2>1. v.content \in Numbers /\ w.content \in Numbers
    BY <1>4 DEF IsValue
  <2>2. IsNumber(v.content) /\ IsNumber(w.content)
    BY <1>4 DEF IsNaN
  <2>3. ValueEqual(v, w) <=> Equal(v.content, w.content)
    BY <1>4 DEF ValueEqual
  <2>4. /\ ValueLess(v, w) <=> Less(v.content, w.content)
        /\ ValueLess(w, v) <=> Less(w.content, v.content)
    BY <1>4, ValueLessIs
  <2> QED BY <2>1, <2>2, <2>3, <2>4, NumbersRelate
<1>5. CASE v.kind = w.kind /\ v.kind = "String"
  <2>1. v.content \in Seq(Nat) /\ w.content \in Seq(Nat)
    BY <1>5 DEF IsValue
  <2>2. ValueEqual(v, w) <=> v.content = w.content
    BY <1>5 DEF ValueEqual
  <2>3. /\ ValueLess(v, w) <=> StringLess(v.content, w.content)
        /\ ValueLess(w, v) <=> StringLess(w.content, v.content)
    BY <1>5, ValueLessIs
  <2> QED BY <2>1, <2>2, <2>3, <1>1, StringsRelate, StringNotSelf
<1>6. CASE v.kind = w.kind /\ v.kind = "Object"
  <2>1. v.content \in Nat /\ w.content \in Nat
    BY <1>6 DEF IsValue
  <2>2. ValueEqual(v, w) <=> v.content = w.content
    BY <1>6 DEF ValueEqual
  <2>3. /\ ValueLess(v, w) <=> v.content < w.content
        /\ ValueLess(w, v) <=> w.content < v.content
    BY <1>6, ValueLessIs
  <2> QED BY <2>1, <2>2, <2>3
<1> QED BY <1>2, <1>3, <1>4, <1>5, <1>6 DEF IsValue

(***************************************************************************)
(* Conversions to integers.                                                *)
(***************************************************************************)
Signs == {"unsigned", "signed"}

\* The limits of the types, by the half of their width.
LEMMA CastLimits ==
  /\ \E a \in Nat \ {0} :
        /\ 2 ^ W = 2 * a
        /\ Lowest("unsigned") = 0 /\ Highest("unsigned") = 2 * a - 1
        /\ Lowest("signed") = -a /\ Highest("signed") = a - 1
        /\ 8 * a <= Infinity /\ Power(W) = 2 * a /\ Power(W - 1) = a
<1>1. PICK a \in Nat \ {0} : a = Power(W - 1)
  BY IntegerLimits
<1>2. Power(W) = 2 * a /\ 8 * a <= Infinity
  BY <1>1, IntegerLimits
<1>3. 2 ^ W = 2 * a /\ 2 ^ (W - 1) = a
  BY <1>1, <1>2 DEF Power
<1>4. /\ Lowest("unsigned") = 0 /\ Highest("unsigned") = 2 * a - 1
      /\ Lowest("signed") = -a /\ Highest("signed") = a - 1
  BY <1>3 DEF Lowest, Highest
<1> QED BY <1>1, <1>2, <1>3, <1>4

\* A number below p that is a multiple of p is 0.
LEMMA SmallMultiple ==
  ASSUME NEW p \in Nat \ {0}, NEW d \in Int, -p < d, d < p
  PROVE  d % p = 0 <=> d = 0
<1>1. CASE d >= 0
  <2>1. d % p = d
    BY <1>1
  <2> QED BY <2>1
<1>2. CASE d < 0
  <2>1. d % p = d + p
    BY <1>2
  <2> QED BY <1>2, <2>1
<1> QED BY <1>1, <1>2

\* An integer that fits a type is cast to itself.
LEMMA IntegerCast ==
  ASSUME NEW T \in Signs, NEW x, x.type # "Double", x.value \in Int,
         x.value \in Lowest(T) .. Highest(T)
  PROVE  StaticCast(T, x) = {x.value}
<1>1. PICK a \in Nat \ {0} :
         /\ 2 ^ W = 2 * a
         /\ Lowest("unsigned") = 0 /\ Highest("unsigned") = 2 * a - 1
         /\ Lowest("signed") = -a /\ Highest("signed") = a - 1
  BY CastLimits
<1>2. StaticCast(T, x) = {v \in Lowest(T) .. Highest(T) : (v - x.value) % (2 * a) = 0}
  BY <1>1, Zenon DEF StaticCast
<1>3. ASSUME NEW v \in Lowest(T) .. Highest(T)
      PROVE  (v - x.value) % (2 * a) = 0 <=> v = x.value
  <2>1. Lowest(T) \in Int /\ Highest(T) \in Int /\ Highest(T) - Lowest(T) = 2 * a - 1
    BY <1>1 DEF Signs
  <2>2. v \in Int /\ v - x.value \in Int /\ -(2 * a) < v - x.value /\ v - x.value < 2 * a
    BY <1>1, <2>1
  <2>3. 2 * a \in Nat \ {0}
    BY <1>1
  <2>4. (v - x.value) % (2 * a) = 0 <=> v - x.value = 0
    BY <2>2, <2>3, SmallMultiple
  <2> QED BY <2>2, <2>4
<1> QED BY <1>2, <1>3

\* What Castable takes for granted of a number, with the integer it is towards zero.
Cast(x, whole) ==
  /\ whole \in Int /\ x.value \in Int /\ x.value # NaN
  /\ x.value >= 0 => whole >= 0
  /\ x.value <= 0 => whole <= 0
  /\ \A T \in Signs : whole \in Lowest(T) .. Highest(T) => StaticCast(T, x) = {whole}

\* What is not infinite fits one of the types.
FitsOne(x, whole) ==
  /\ x.value = Infinity => whole > Highest("unsigned")
  /\ x.value = -Infinity => whole < Lowest("signed")
  /\ x.value \notin {Infinity, -Infinity} => /\ whole >= Lowest("signed")
                                            /\ whole <= Highest("unsigned")
                                            /\ x.value < Infinity

\* The nearest to a number that a type has.
Nearest(T, whole) ==
  CASE whole < Lowest(T)  -> Lowest(T)
    [] whole > Highest(T) -> Highest(T)
    [] OTHER              -> whole

\* Its cases exclude one another.
LEMMA NearestIs ==
  ASSUME NEW T \in Signs, NEW whole \in Int
  PROVE  /\ whole < Lowest(T) => Nearest(T, whole) = Lowest(T)
         /\ whole > Highest(T) => Nearest(T, whole) = Highest(T)
         /\ whole \in Lowest(T) .. Highest(T) => Nearest(T, whole) = whole
<1>1. Lowest(T) \in Int /\ Highest(T) \in Int /\ Lowest(T) <= Highest(T)
  BY CastLimits DEF Signs
<1>2. whole < Lowest(T) => ~(whole > Highest(T))
  BY <1>1
<1>3. CASE whole < Lowest(T)
  BY <1>1, <1>2, <1>3 DEF Nearest
<1>4. CASE whole > Highest(T)
  BY <1>1, <1>2, <1>4 DEF Nearest
<1>5. CASE whole \in Lowest(T) .. Highest(T)
  <2>1. ~(whole < Lowest(T)) /\ ~(whole > Highest(T))
    BY <1>1, <1>5
  <2> QED BY <1>1, <1>5, <2>1 DEF Nearest
<1> QED BY <1>1, <1>3, <1>4, <1>5

\* Clamping, case by case.
LEMMA ClampIs ==
  ASSUME NEW T, NEW x, x.value \in Int, x.value # NaN
  PROVE  /\ x.value = Infinity => clamp_cast(T, x) = {Highest(T)}
         /\ x.value = -Infinity => clamp_cast(T, x) = {Lowest(T)}
         /\ x.value > 0 /\ x.value < Infinity =>
               clamp_cast(T, x) =
                 UNION {IF c > Highest(T) THEN {Highest(T)} ELSE StaticCast(T, x) :
                           c \in StaticCast("unsigned", x)}
         /\ x.value <= 0 /\ x.value # -Infinity =>
               clamp_cast(T, x) =
                 UNION {IF x.value < 0 /\ c < Lowest(T) THEN {Lowest(T)}
                        ELSE StaticCast(T, x) : c \in StaticCast("signed", x)}
<1>0. Infinity \in Nat /\ Infinity > 0
  BY CastLimits, DoublesAreInts
<1>1. CASE x.value = Infinity
  <2>1. x.value # NaN /\ x.value # -Infinity /\ ~(x.value > 0 /\ x.value < Infinity)
        /\ ~(x.value <= 0)
    BY <1>0, <1>1
  <2> QED BY <1>1, <2>1 DEF clamp_cast
<1>2. CASE x.value = -Infinity
  <2>1. x.value # NaN /\ x.value # Infinity /\ ~(x.value > 0 /\ x.value < Infinity)
    BY <1>0, <1>2
  <2> QED BY <1>2, <2>1 DEF clamp_cast
<1>3. CASE x.value > 0 /\ x.value < Infinity
  <2>1. x.value # NaN /\ x.value # Infinity /\ x.value # -Infinity /\ ~(x.value <= 0)
    BY <1>0, <1>3
  <2> QED BY <1>3, <2>1 DEF clamp_cast
<1>4. CASE x.value <= 0 /\ x.value # -Infinity
  <2>1. x.value # NaN /\ x.value # Infinity /\ ~(x.value > 0 /\ x.value < Infinity)
        /\ ~(x.value > 0)
    BY <1>0, <1>4
  <2> QED BY <1>4, <2>1 DEF clamp_cast
<1>5. CASE x.value > Infinity
  <2>1. x.value # Infinity /\ x.value # -Infinity /\ ~(x.value < Infinity) /\ ~(x.value <= 0)
    BY <1>0, <1>5
  <2> QED BY <2>1
<1> QED BY <1>0, <1>1, <1>2, <1>3, <1>4, <1>5

\* A number that is cast is clamped to the nearest.
LEMMA ClampNearest ==
  ASSUME NEW T \in Signs, NEW x, NEW whole, Cast(x, whole), FitsOne(x, whole)
  PROVE  clamp_cast(T, x) = {Nearest(T, whole)}
<1>1. PICK a \in Nat \ {0} :
         /\ Lowest("unsigned") = 0 /\ Highest("unsigned") = 2 * a - 1
         /\ Lowest("signed") = -a /\ Highest("signed") = a - 1
         /\ 8 * a <= Infinity
  BY CastLimits
<1>2. whole \in Int /\ x.value \in Int /\ x.value # NaN /\ Infinity \in Nat /\ Infinity > 0
  BY <1>1, DoublesAreInts DEF Cast
<1>3. /\ Lowest(T) \in Int /\ Highest(T) \in Int /\ Lowest(T) <= 0 /\ 0 <= Highest(T)
      /\ -a <= Lowest(T) /\ Highest(T) <= 2 * a - 1
  BY <1>1 DEF Signs
<1>4. CASE x.value = Infinity
  <2>1. whole > Highest(T)
    BY <1>1, <1>2, <1>3, <1>4 DEF FitsOne
  <2> QED BY <1>2, <1>4, <2>1, ClampIs, NearestIs
<1>5. CASE x.value = -Infinity
  <2>1. whole < Lowest(T)
    BY <1>1, <1>2, <1>3, <1>5 DEF FitsOne
  <2> QED BY <1>2, <1>5, <2>1, ClampIs, NearestIs
<1>6. CASE x.value > 0 /\ x.value < Infinity
  <2>1. x.value \notin {Infinity, -Infinity}
    BY <1>2, <1>6
  <2>2. whole \in Lowest("unsigned") .. Highest("unsigned") /\ Lowest(T) <= whole
    BY <1>1, <1>2, <1>3, <1>6, <2>1 DEF FitsOne, Cast
  <2>3. StaticCast("unsigned", x) = {whole}
    BY <2>2 DEF Cast, Signs
  <2>4. clamp_cast(T, x) = IF whole > Highest(T) THEN {Highest(T)} ELSE StaticCast(T, x)
    BY <1>2, <1>6, <2>3, ClampIs
  <2>5. CASE whole > Highest(T)
    BY <1>2, <2>4, <2>5, NearestIs
  <2>6. CASE ~(whole > Highest(T))
    <3>1. whole \in Lowest(T) .. Highest(T)
      BY <1>2, <1>3, <2>2, <2>6
    <3>2. StaticCast(T, x) = {whole}
      BY <3>1 DEF Cast
    <3> QED BY <1>2, <2>4, <2>6, <3>1, <3>2, NearestIs
  <2> QED BY <2>5, <2>6
<1>7. CASE x.value <= 0 /\ x.value # -Infinity
  <2>1. x.value \notin {Infinity, -Infinity}
    BY <1>2, <1>7
  <2>2. whole \in Lowest("signed") .. Highest("signed") /\ whole <= Highest(T)
    BY <1>1, <1>2, <1>3, <1>7, <2>1 DEF FitsOne, Cast
  <2>3. StaticCast("signed", x) = {whole}
    BY <2>2 DEF Cast, Signs
  <2>4. clamp_cast(T, x) = IF x.value < 0 /\ whole < Lowest(T) THEN {Lowest(T)}
                           ELSE StaticCast(T, x)
    BY <1>2, <1>7, <2>3, ClampIs
  <2>5. CASE whole < Lowest(T)
    <3>1. x.value < 0
      BY <1>2, <1>3, <1>7, <2>5 DEF Cast
    <3> QED BY <1>2, <2>4, <2>5, <3>1, NearestIs
  <2>6. CASE ~(whole < Lowest(T))
    <3>1. whole \in Lowest(T) .. Highest(T)
      BY <1>2, <1>3, <2>2, <2>6
    <3>2. StaticCast(T, x) = {whole}
      BY <3>1 DEF Cast
    <3> QED BY <1>2, <2>4, <2>6, <3>1, <3>2, NearestIs
  <2> QED BY <2>5, <2>6
<1>8. x.value <= Infinity
  BY <1>2 DEF FitsOne
<1> QED BY <1>2, <1>4, <1>5, <1>6, <1>7, <1>8

\* Towards zero, by less than one.
LEMMA TruncatedIs ==
  ASSUME NEW h \in Int
  PROVE  /\ Truncated(h) \in Int /\ Truncated(2 * h) = h
         /\ h >= 0 => Truncated(h) >= 0 /\ 2 * Truncated(h) <= h /\ h <= 2 * Truncated(h) + 1
         /\ h <= 0 => Truncated(h) <= 0 /\ h <= 2 * Truncated(h) /\ 2 * Truncated(h) <= h + 1
BY DEF Truncated

\* Numbers that can be cast.
LEMMA CastableFits ==
  ASSUME NEW x \in Numbers, IsNumber(x), Castable(x)
  PROVE  Cast(x, Truncated(Halves(x))) /\ FitsOne(x, Truncated(Halves(x)))
<1>0. Holds(x)
  BY NumbersHold
<1>1. PICK a \in Nat \ {0} :
         /\ Lowest("unsigned") = 0 /\ Highest("unsigned") = 2 * a - 1
         /\ Lowest("signed") = -a /\ Highest("signed") = a - 1
         /\ 8 * a <= Infinity /\ Power(W) = 2 * a /\ Power(W - 1) = a
  BY CastLimits
<1>2. Infinity \in Nat /\ x.value # NaN
  BY DoublesAreInts DEF IsNumber
<1>3. CASE x.type # "Double"
  <2>1. x.value \in -a .. 2 * a - 1 /\ x.value \in Int
    BY <1>0, <1>1, <1>3 DEF Holds
  <2>2. Truncated(Halves(x)) = x.value
    BY <1>3, <2>1, TruncatedIs DEF Halves
  <2>3. Cast(x, x.value)
    BY <1>2, <1>3, <2>1, IntegerCast DEF Cast
  <2>4. FitsOne(x, x.value)
    BY <1>1, <1>2, <2>1 DEF FitsOne
  <2> QED BY <2>2, <2>3, <2>4
<1>4. CASE x.type = "Double"
  <2>1. x.value \in Doubles /\ x.value \in Int /\ Halves(x) = x.value
    BY <1>0, <1>2, <1>4, DoublesAreInts DEF Holds, Halves
  <2>2. PICK whole \in Int : whole = Truncated(x.value)
    BY <2>1, TruncatedIs
  <2>3. /\ x.value >= 0 => whole >= 0 /\ 2 * whole <= x.value /\ x.value <= 2 * whole + 1
        /\ x.value <= 0 => whole <= 0 /\ x.value <= 2 * whole /\ 2 * whole <= x.value + 1
    BY <2>1, <2>2, TruncatedIs
  <2>4. CASE x.value \in {-Infinity, Infinity}
    <3>1. /\ x.value = Infinity => whole > Highest("unsigned")
          /\ x.value = -Infinity => whole < Lowest("signed")
      BY <1>1, <1>2, <2>2, <2>3
    <3>2. FitsOne(x, whole)
      BY <2>4, <3>1 DEF FitsOne
    <3>3. \A T \in Signs : ~(whole \in Lowest(T) .. Highest(T))
      BY <1>1, <1>2, <2>2, <2>4, <3>1 DEF Signs
    <3>4. Cast(x, whole)
      BY <1>2, <2>1, <2>2, <2>3, <3>3 DEF Cast
    <3> QED BY <2>1, <2>2, <3>2, <3>4
  <2>5. CASE x.value \notin {-Infinity, Infinity}
    <3>1. x.value \in Finite /\ whole \in Lowest("signed") .. Highest("unsigned")
      BY <1>4, <2>2, <2>5 DEF Castable
    <3>2. ASSUME NEW T \in Signs, whole \in Lowest(T) .. Highest(T)
          PROVE  StaticCast(T, x) = {whole}
      BY <1>4, <2>2, <3>1, <3>2, Zenon DEF StaticCast
    <3>3. Cast(x, whole)
      BY <1>2, <2>1, <2>2, <2>3, <3>2 DEF Cast
    <3>4. x.value < Infinity /\ whole >= Lowest("signed") /\ whole <= Highest("unsigned")
      BY <1>1, <1>2, <2>1, <2>2, <2>3, <3>1
    <3>5. FitsOne(x, whole)
      BY <2>5, <3>4 DEF FitsOne
    <3> QED BY <2>1, <2>2, <3>3, <3>5
  <2> QED BY <2>4, <2>5
<1> QED BY <1>3, <1>4

\* NaN is not one of them.
LEMMA CastableIsNumber ==
  ASSUME NEW x \in Numbers, Castable(x)
  PROVE  IsNumber(x)
<1> SUFFICES ASSUME ~IsNumber(x) PROVE FALSE
  OBVIOUS
<1>1. x.type = "Double" /\ x.value = NaN
  BY NumbersConvert DEF IsNumber
<1>2. PICK a \in Nat \ {0} : Highest("unsigned") = 2 * a - 1 /\ 8 * a <= Infinity
  BY CastLimits
<1>3. Infinity \in Nat /\ NaN = Infinity + 1 /\ NaN \in Int
  BY DoublesAreInts DEF NaN
<1>4. Truncated(NaN) \in Int /\ NaN <= 2 * Truncated(NaN) + 1
  <2>1. PICK n \in Nat : n = NaN
    BY <1>3
  <2>2. Truncated(n) \in Int /\ n <= 2 * Truncated(n) + 1
    BY TruncatedIs
  <2> QED BY <2>1, <2>2
<1>5. ~(Truncated(NaN) \in Lowest("signed") .. Highest("unsigned"))
  BY <1>2, <1>3, <1>4
<1>6. NaN \notin {-Infinity, Infinity}
  BY <1>3
<1> QED BY <1>1, <1>5, <1>6 DEF Castable

(***************************************************************************)
(* The value is one that an application can make.                          *)
(***************************************************************************)
ValuesOnly == value \in Values

\* Null is one.
LEMMA InitValues == ValueInit => ValuesOnly
BY DEF ValueInit, ValuesOnly, Values

\* So it stays, whatever is assigned.
LEMMA NextValues == ValuesOnly /\ [ValueNext]_value => ValuesOnly'
<1> SUFFICES ASSUME ValuesOnly, [ValueNext]_value PROVE value' \in Values
  BY DEF ValuesOnly
<1>1. CASE AssignNull
  BY <1>1 DEF AssignNull, Values
<1>2. ASSUME NEW T \in DOMAIN CppValues, NEW v \in CppValues[T], AssignNumber(T, v)
      PROVE  value' \in Values
  <2>1. MakeNumber(T, v) \in Numbers
    BY DEF Numbers
  <2> QED BY <1>2, <2>1 DEF AssignNumber, Values
<1>3. ASSUME NEW s \in Strings, AssignString(s) PROVE value' \in Values
  BY <1>3 DEF AssignString, Values
<1>4. ASSUME NEW o \in Objects, AssignObject(o) PROVE value' \in Values
  BY <1>4 DEF AssignObject, Values
<1>5. CASE UNCHANGED value
  BY <1>5 DEF ValuesOnly
<1> QED BY <1>1, <1>2, <1>3, <1>4, <1>5 DEF ValueNext

\* A number that is a value is a number that can be made.
LEMMA NumberMade == ValuesOnly /\ IsNumberValue => number \in Numbers
BY ValuesAre DEF ValuesOnly, IsNumberValue, number, IsValue

(***************************************************************************)
(* "The signedness is handled like you'd expect": whatever integers of     *)
(* whatever types and widths are assigned, they are equal and less as the  *)
(* numbers they stand for.                                                 *)
(***************************************************************************)
THEOREM IntegersCorrect == ValueSpec => []IntegersByValue
<1>1. ValuesOnly => IntegersByValue
  <2> SUFFICES ASSUME ValuesOnly, IsNumberValue, number.type # "Double",
                      NEW x \in Numbers, x.type # "Double"
               PROVE  /\ Equal(number, x) <=> Halves(number) = Halves(x)
                      /\ Less(number, x) <=> Halves(number) < Halves(x)
    BY DEF IntegersByValue
  <2>1. SignFits(number) /\ SignFits(x)
    BY NumbersFit, NumberMade
  <2> QED BY <2>1, IntegersCompare
<1> QED BY <1>1, InitValues, NextValues, PTL DEF ValueSpec

(***************************************************************************)
(* Rounding misses no order that there is, and adds none: less than a      *)
(* double, as a double, is less, and what is less and not found to be is   *)
(* an integer rounded to the double, or the other way round.               *)
(***************************************************************************)
THEOREM RoundingCorrect == ValueSpec => []ComparesUpToRounding
<1>1. ValuesOnly => ComparesUpToRounding
  <2> SUFFICES ASSUME ValuesOnly, IsNumberValue, IsNumber(number),
                      NEW x \in Numbers, IsNumber(x)
               PROVE  /\ Less(number, x) => Halves(number) < Halves(x)
                      /\ Halves(number) < Halves(x) =>
                            Less(number, x) \/ (Equal(number, x) /\ x.type # number.type)
                      /\ Halves(number) = Halves(x) => Equal(number, x)
    BY Zenon DEF ComparesUpToRounding
  <2>1. number \in Numbers
    BY NumberMade
  <2> QED BY <2>1, ComparisonRounds
<1> QED BY <1>1, InitValues, NextValues, PTL DEF ValueSpec

(***************************************************************************)
(* Less is an order over all values, of whatever kinds, and of numbers     *)
(* over the three representations: the integers that a double is compared  *)
(* to round to doubles in their order, so that it comes between none that  *)
(* are not in order themselves.                                            *)
(***************************************************************************)
THEOREM OrderCorrect == ValueSpec => []LessIsOrder
<1>1. ValuesOnly => LessIsOrder
  <2> SUFFICES ASSUME ValuesOnly, NEW v \in Values, NEW w \in Values
               PROVE  /\ ~ValueLess(value, value)
                      /\ ValueLess(value, v) /\ ValueLess(v, w) => ValueLess(value, w)
    BY Zenon DEF LessIsOrder
  <2>1. IsValue(value) /\ IsValue(v) /\ IsValue(w)
    BY ValuesAre DEF ValuesOnly
  <2> QED BY <2>1, ValueNotSelf, ValuesChain
<1> QED BY <1>1, InitValues, NextValues, PTL DEF ValueSpec

(***************************************************************************)
(* The comparisons that are derived from less and equal agree with them,   *)
(* of all values but NaN.                                                  *)
(***************************************************************************)
THEOREM RelationCorrect == ValueSpec => []OneRelation
<1>1. ValuesOnly => OneRelation
  <2> SUFFICES ASSUME ValuesOnly, NEW v \in Values, ~IsNaN(value), ~IsNaN(v)
               PROVE  /\ ValueGreater(value, v) <=> ValueLess(v, value)
                      /\ ~(ValueLess(value, v) /\ ValueEqual(value, v))
    BY Zenon DEF OneRelation
  <2>1. IsValue(value) /\ IsValue(v)
    BY ValuesAre DEF ValuesOnly
  <2> QED BY <2>1, ValuesRelate, Zenon DEF ValueGreater, ValueLessEqual
<1> QED BY <1>1, InitValues, NextValues, PTL DEF ValueSpec

(***************************************************************************)
(* The conversions to integers of either sign return the nearest there is  *)
(* to an infinite number, an integer, or a double that fits one of the     *)
(* types.                                                                  *)
(***************************************************************************)
THEOREM ClampCorrect == ValueSpec => []ConversionsClamp
<1>1. ValuesOnly => ConversionsClamp
  <2> SUFFICES ASSUME ValuesOnly, IsNumberValue, Castable(number), NEW T \in Signs
               PROVE  clamp_cast(T, number) = {Nearest(T, Truncated(Halves(number)))}
    BY Zenon DEF ConversionsClamp, Nearest, Signs
  <2>1. number \in Numbers
    BY NumberMade
  <2>2. IsNumber(number)
    BY <2>1, CastableIsNumber
  <2> QED BY <2>1, <2>2, CastableFits, ClampNearest
<1> QED BY <1>1, InitValues, NextValues, PTL DEF ValueSpec
=============================================================================
