------------------------------ MODULE Induction -----------------------------
(***************************************************************************)
(* Induction over the naturals, and functions defined by recursion over an *)
(* interval of them, in a form that needs no operator as a parameter: a    *)
(* property is the set of the numbers that have it, and what one step of a *)
(* recursion does is a function.  Also, sums of sequences, and arithmetic  *)
(* of digits and of sums that wrap at a limit.                             *)
(***************************************************************************)
EXTENDS Sums, TLAPS, WellFoundedInduction

\* A set of naturals has a least element.
LEMMA LeastNumber ==
  ASSUME NEW T, T \subseteq Nat, T # {}
  PROVE  \E n \in T : \A m \in T : n <= m
<1> DEFINE R == OpToRel(<, Nat)
<1>1. IsWellFoundedOn(R, Nat)
  BY NatLessThanWellFounded
<1>2. \A m, n \in Nat : m < n => <<m, n>> \in R
  BY DEF OpToRel
<1> HIDE DEF R
<1>3. PICK n \in T : \A m \in T : ~ (<<m, n>> \in R)
  BY <1>1, WFMin
<1>4. \A m \in T : m \in Nat /\ n \in Nat /\ ~ (m < n)
  BY <1>2, <1>3
<1>5. \A m \in T : n <= m
  BY <1>4
<1> QED BY <1>5

\* What holds of 0, and of n + 1 if of n, holds up to any bound.
LEMMA IntervalInduction ==
  ASSUME NEW N \in Nat, NEW T, 0 \in T, \A n \in 0 .. N - 1 : n \in T => n + 1 \in T
  PROVE  \A n \in 0 .. N : n \in T
<1> SUFFICES ASSUME (0 .. N) \ T # {} PROVE FALSE
  OBVIOUS
<1>1. PICK n \in (0 .. N) \ T : \A m \in (0 .. N) \ T : n <= m
  <2>1. (0 .. N) \ T \subseteq Nat
    OBVIOUS
  <2> QED BY <2>1, LeastNumber
<1>2. n \in 1 .. N /\ n - 1 \in 0 .. N - 1 /\ n - 1 \in 0 .. N
  BY <1>1
<1>3. n - 1 \in T
  BY <1>1, <1>2
<1>4. (n - 1) + 1 \in T
  BY <1>2, <1>3
<1> QED BY <1>1, <1>2, <1>4

\* f is a at 0, and at each i up to N what the step makes of f at i - 1.
Recursion(f, a, step, N) ==
    f[0] = a /\ \A i \in 1 .. N : f[i] = step[<<f[i - 1], i>>]

\* A value and a step for each number of an interval define a function.
LEMMA RecursionExists ==
  ASSUME NEW N \in Nat, NEW S, NEW a \in S, NEW step \in [S \X (1 .. N) -> S]
  PROVE  \E f \in [0 .. N -> S] : Recursion(f, a, step, N)
<1> DEFINE Defines(f, n) ==
              f[0] = a /\ \A i \in 1 .. n : f[i] = step[<<f[i - 1], i>>]
           T == {n \in 0 .. N : \E f \in [0 .. n -> S] : Defines(f, n)}
<1>1. 0 \in T
  <2> DEFINE f == [i \in 0 .. 0 |-> a]
  <2>1. f \in [0 .. 0 -> S] /\ f[0] = a
    OBVIOUS
  <2>2. \A i \in 1 .. 0 : FALSE
    OBVIOUS
  <2>3. 0 \in 0 .. N
    OBVIOUS
  <2> HIDE DEF f
  <2> QED BY <2>1, <2>2, <2>3
<1>2. ASSUME NEW n \in 0 .. N - 1, n \in T PROVE n + 1 \in T
  <2>0. n \in Nat /\ n + 1 <= N
    OBVIOUS
  <2>1. PICK f \in [0 .. n -> S] : Defines(f, n)
    BY <1>2
  <2> DEFINE g == [i \in 0 .. n + 1 |-> IF i = n + 1 THEN step[<<f[n], n + 1>>] ELSE f[i]]
  <2>2. <<f[n], n + 1>> \in S \X (1 .. N)
    OBVIOUS
  <2>3. step[<<f[n], n + 1>>] \in S
    BY <2>2
  <2>4. g \in [0 .. n + 1 -> S]
    BY <2>3
  <2>5. \A i \in 0 .. n : g[i] = f[i]
    OBVIOUS
  <2>6. g[n + 1] = step[<<g[n], n + 1>>]
    <3>1. n + 1 \in 0 .. n + 1 /\ n \in 0 .. n
      BY <2>0
    <3>2. g[n + 1] = step[<<f[n], n + 1>>]
      BY <3>1
    <3> QED BY <2>5, <3>1, <3>2
  <2> HIDE DEF g
  <2>7. g[0] = a
    BY <2>1, <2>5
  <2>8. ASSUME NEW i \in 1 .. n + 1 PROVE g[i] = step[<<g[i - 1], i>>]
    <3>1. CASE i = n + 1
      BY <2>6, <3>1
    <3>2. CASE i # n + 1
      <4>1. i \in 1 .. n /\ i \in 0 .. n /\ i - 1 \in 0 .. n
        BY <3>2
      <4> QED BY <2>1, <2>5, <4>1
    <3> QED BY <3>1, <3>2
  <2>9. n + 1 \in 0 .. N
    BY <2>0
  <2> QED BY <2>4, <2>7, <2>8, <2>9
<1> HIDE DEF T
<1>3. N \in T
  <2>1. N \in 0 .. N
    OBVIOUS
  <2> QED BY <1>1, <1>2, <2>1, IntervalInduction
<1> QED BY <1>3 DEF T, Recursion
-----------------------------------------------------------------------------
\* t has the totals of seq up to each of its elements.
Totals(t, seq) ==
    t = [n \in 0 .. Len(seq) |-> IF n = 0 THEN 0 ELSE t[n - 1] + seq[n]]

\* A total is a natural number, and what is added up.
LEMMA TotalIs ==
  ASSUME NEW seq, Len(seq) \in Nat, \A n \in 1 .. Len(seq) : seq[n] \in Nat
  PROVE  \E t \in [0 .. Len(seq) -> Nat] :
            /\ t[0] = 0
            /\ \A n \in 1 .. Len(seq) : t[n] = t[n - 1] + seq[n]
            /\ Total(seq) = t[Len(seq)]
<1> DEFINE L == Len(seq)
           step == [p \in Nat \X (1 .. L) |-> p[1] + seq[p[2]]]
<1>1. /\ step \in [Nat \X (1 .. L) -> Nat]
      /\ \A x \in Nat, n \in 1 .. L : step[<<x, n>>] = x + seq[n]
  <2>1. \A x \in Nat, n \in 1 .. L : x + seq[n] \in Nat
    OBVIOUS
  <2> QED BY <2>1
<1> HIDE DEF step
<1>2. PICK f \in [0 .. L -> Nat] : Recursion(f, 0, step, L)
  <2>1. 0 \in Nat /\ L \in Nat
    OBVIOUS
  <2> HIDE DEF L
  <2> QED BY <1>1, <2>1, RecursionExists, Zenon
<1>3. \A n \in 1 .. L : n \in 0 .. L /\ n - 1 \in 0 .. L /\ n # 0
  OBVIOUS
<1>4. /\ f[0] = 0
      /\ \A n \in 1 .. L : f[n] = f[n - 1] + seq[n]
  <2>1. \A n \in 1 .. L : f[n - 1] \in Nat
    BY <1>2, <1>3
  <2> QED BY <1>1, <1>2, <2>1 DEF Recursion
<1>5. Totals(f, seq)
  <2>1. \A n \in 0 .. L : n # 0 => n \in 1 .. L
    OBVIOUS
  <2>2. \A n \in 0 .. L : f[n] = IF n = 0 THEN 0 ELSE f[n - 1] + seq[n]
    BY <1>4, <2>1
  <2>3. f = [n \in 0 .. L |-> f[n]]
    BY <1>2
  <2> QED BY <2>2, <2>3 DEF Totals
<1>6. PICK t : Totals(t, seq) /\ t = CHOOSE u : Totals(u, seq)
  <2>1. \E u : Totals(u, seq)
    BY <1>5
  <2> HIDE DEF L
  <2> QED BY <2>1
<1>7. Total(seq) = t[L]
  <2>1. Total(seq) = (CHOOSE u : Totals(u, seq))[Len(seq)]
    BY Zenon DEF Total, Totals
  <2> QED BY <1>6, <2>1
<1>8. t = f
  <2> DEFINE T == {n \in 0 .. L : t[n] = f[n]}
  <2>0. L \in Nat /\ 0 \in 0 .. L
    OBVIOUS
  <2>1. \A n \in 0 .. L : t[n] = IF n = 0 THEN 0 ELSE t[n - 1] + seq[n]
    BY <1>6 DEF Totals
  <2>2. 0 \in T
    BY <1>4, <2>0, <2>1
  <2>3. ASSUME NEW n \in 0 .. L - 1, n \in T PROVE n + 1 \in T
    <3>1. n + 1 \in 0 .. L /\ n + 1 \in 1 .. L /\ n + 1 # 0 /\ (n + 1) - 1 = n
      OBVIOUS
    <3> QED BY <1>4, <2>1, <2>3, <3>1
  <2> HIDE DEF T
  <2>4. \A n \in 0 .. L : n \in T
    BY <2>0, <2>2, <2>3, IntervalInduction
  <2>5. \A n \in 0 .. L : t[n] = f[n]
    BY <2>4 DEF T
  <2>6. t = [n \in 0 .. L |-> t[n]] /\ f = [n \in 0 .. L |-> f[n]]
    BY <1>2, <1>6 DEF Totals
  <2> QED BY <2>5, <2>6
<1> QED BY <1>2, <1>4, <1>7, <1>8

\* A number more at the end is added to the total.
LEMMA TotalOfOneMore ==
  ASSUME NEW s, NEW t, Len(s) \in Nat, Len(t) = Len(s) + 1,
         \A n \in 1 .. Len(t) : t[n] \in Nat,
         \A n \in 1 .. Len(s) : t[n] = s[n]
  PROVE  /\ Total(s) \in Nat
         /\ Total(t) = Total(s) + t[Len(t)]
<1>1. \A n \in 1 .. Len(s) : n \in 1 .. Len(t) /\ s[n] \in Nat
  OBVIOUS
<1>2. PICK f \in [0 .. Len(s) -> Nat] :
         /\ f[0] = 0
         /\ \A n \in 1 .. Len(s) : f[n] = f[n - 1] + s[n]
         /\ Total(s) = f[Len(s)]
  BY <1>1, TotalIs
<1>3. PICK g \in [0 .. Len(t) -> Nat] :
         /\ g[0] = 0
         /\ \A n \in 1 .. Len(t) : g[n] = g[n - 1] + t[n]
         /\ Total(t) = g[Len(t)]
  <2>1. Len(t) \in Nat
    OBVIOUS
  <2> QED BY <2>1, TotalIs
<1>4. PICK L \in Nat : L = Len(s)
  OBVIOUS
<1>5. f[L] = g[L]
  <2> DEFINE T == {n \in 0 .. L : f[n] = g[n]}
  <2>1. 0 \in T
    BY <1>2, <1>3
  <2>2. ASSUME NEW n \in 0 .. L - 1, n \in T PROVE n + 1 \in T
    <3>1. n + 1 \in 0 .. L /\ n + 1 \in 1 .. L /\ (n + 1) - 1 = n
      OBVIOUS
    <3>2. f[n + 1] = f[n] + s[n + 1] /\ g[n + 1] = g[n] + t[n + 1] /\ t[n + 1] = s[n + 1]
      BY <1>1, <1>2, <1>3, <1>4, <3>1
    <3> QED BY <2>2, <3>1, <3>2
  <2>3. L \in 0 .. L
    OBVIOUS
  <2> HIDE DEF T
  <2>4. L \in T
    BY <2>1, <2>2, <2>3, IntervalInduction
  <2> QED BY <2>4 DEF T
<1>6. g[L + 1] = g[L] + t[L + 1]
  <2>1. L + 1 \in 1 .. Len(t) /\ (L + 1) - 1 = L
    BY <1>4
  <2> QED BY <1>3, <2>1
<1> QED BY <1>2, <1>3, <1>4, <1>5, <1>6
-----------------------------------------------------------------------------
\* A digit more makes a natural number of one, and no smaller one.
LEMMA DigitAdded ==
  ASSUME NEW base \in Nat, NEW x \in Nat, NEW digit \in Nat
  PROVE  /\ base * x + digit \in Nat
         /\ base # 0 => x <= base * x + digit
<1>1. base * x \in Nat
  OBVIOUS
<1>2. ASSUME base # 0 PROVE x <= base * x
  <2>1. PICK c \in Nat : base = c + 1
    <3>1. base - 1 \in Nat /\ base = (base - 1) + 1
      BY <1>2
    <3> QED BY <3>1
  <2>2. c * x \in Nat
    OBVIOUS
  <2>3. (c + 1) * x = c * x + x
    OBVIOUS
  <2> QED BY <2>1, <2>2, <2>3
<1>3. \A y \in Nat : y + digit \in Nat /\ (x <= y => x <= y + digit)
  OBVIOUS
<1> QED BY <1>1, <1>2, <1>3

\* A digit that is added to x before a factor p or after it.
DigitMoves(base, x, digit, p) ==
    (base * x + digit) * p = x * (base * p) + digit * p

LEMMA DigitsMove ==
  ASSUME NEW base \in Nat, NEW x \in Nat, NEW digit \in Nat, NEW p \in Nat
  PROVE  DigitMoves(base, x, digit, p)
<1>1. base * x = x * base /\ base * x \in Nat
  OBVIOUS
<1>2. (base * x) * p = x * (base * p)
  BY <1>1
<1>3. (base * x + digit) * p = (base * x) * p + digit * p
  BY <1>1
<1> QED BY <1>2, <1>3 DEF DigitMoves

\* A multiple of M more has the same remainder.
LEMMA MultipleMore ==
  ASSUME NEW M \in Nat \ {0}, NEW q \in Nat, NEW r \in Nat
  PROVE  (M * q + r) % M = r % M
<1> DEFINE d == r \div M
           s == r % M
<1>1. r = M * d + s /\ d \in Nat /\ s \in 0 .. M - 1
  OBVIOUS
<1> HIDE DEF d, s
<1>2. M * q + (M * d + s) = M * (q + d) + s /\ q + d \in Nat
  BY <1>1
<1>3. \A n \in Nat : (M * n + s) % M = s
  BY <1>1
<1>4. (M * q + r) % M = s
  BY <1>1, <1>2, <1>3
<1> QED BY <1>4 DEF s

\* Two numbers that sizes do not tell apart.
SameRemainder(a, b, M) == a % M = b % M

\* Sums of such numbers are not told apart either.
LEMMA SumOfRemainders ==
  ASSUME NEW M \in Nat \ {0}, NEW a \in Nat, NEW b \in Nat, NEW c \in Nat, NEW d \in Nat,
         SameRemainder(a, c, M), SameRemainder(b, d, M)
  PROVE  SameRemainder(a + b, c + d, M)
<1>1. ASSUME NEW x \in Nat, NEW y \in Nat, NEW z \in Nat, x % M = y % M
      PROVE  (x + z) % M = (y + z) % M
  <2> DEFINE r == x % M
             p == x \div M
             q == y \div M
  <2>1. r \in Nat /\ p \in Nat /\ q \in Nat /\ x = M * p + r /\ y = M * q + r
    <3>1. r \in Nat /\ p \in Nat /\ x = M * p + r
      OBVIOUS
    <3>2. q \in Nat /\ y = M * q + (y % M)
      OBVIOUS
    <3> QED BY <1>1, <3>1, <3>2
  <2> HIDE DEF r, p, q
  <2>2. x + z = M * p + (r + z) /\ y + z = M * q + (r + z) /\ r + z \in Nat
    <3>1. M * p \in Nat /\ M * q \in Nat
      BY <2>1
    <3> QED BY <2>1, <3>1
  <2>3. PICK s \in Nat : s = r + z
    BY <2>2
  <2>4. (M * p + s) % M = s % M
    BY <2>1, <2>3, MultipleMore
  <2>5. (M * q + s) % M = s % M
    BY <2>1, <2>3, MultipleMore
  <2>6. x + z = M * p + s /\ y + z = M * q + s
    BY <2>2, <2>3
  <2> QED BY <2>4, <2>5, <2>6
<1>2. (a + b) % M = (c + b) % M
  BY <1>1 DEF SameRemainder
<1>3. (b + c) % M = (d + c) % M
  BY <1>1 DEF SameRemainder
<1>4. c + b = b + c /\ d + c = c + d
  OBVIOUS
<1> QED BY <1>2, <1>3, <1>4 DEF SameRemainder

\* t has the sums of y, u the sums of x that wrap at each step, and x and y
\* have the same remainders.
SumsOf(t, y, L) ==
    t[0] = 0 /\ \A n \in 1 .. L : t[n] = t[n - 1] + y[n]

WrappedSumsOf(u, x, L, M) ==
    u[0] = 0 /\ \A n \in 1 .. L : u[n] = (u[n - 1] + x[n]) % M

AllSameRemainders(x, y, L, M) ==
    \A n \in 1 .. L : x[n] \in Nat /\ y[n] \in Nat /\ x[n] % M = y[n] % M

\* A remainder is its own.
LEMMA RemainderTwice ==
  ASSUME NEW M \in Nat \ {0}, NEW a \in Nat
  PROVE  a % M \in Nat /\ (a % M) % M = a % M /\ 0 % M = 0
OBVIOUS

\* Sums that wrap at each step are the total, wrapped once.
LEMMA SumsWrapOnce ==
  ASSUME NEW M \in Nat \ {0}, NEW L \in Nat,
         NEW u \in [0 .. L -> Nat], NEW t \in [0 .. L -> Nat], NEW x, NEW y,
         AllSameRemainders(x, y, L, M), WrappedSumsOf(u, x, L, M), SumsOf(t, y, L)
  PROVE  u[L] = t[L] % M
<1> DEFINE T == {n \in 0 .. L : u[n] = t[n] % M}
<1>1. 0 \in T
  <2>1. 0 % M = 0
    BY RemainderTwice
  <2> QED BY <2>1 DEF WrappedSumsOf, SumsOf
<1>2. ASSUME NEW n \in 0 .. L - 1, n \in T PROVE n + 1 \in T
  <2>1. n + 1 \in 0 .. L /\ n + 1 \in 1 .. L /\ (n + 1) - 1 = n /\ n \in 0 .. L
    OBVIOUS
  <2>2. PICK a \in Nat, b \in Nat, c \in Nat, d \in Nat :
           a = u[n] /\ b = x[n + 1] /\ c = t[n] /\ d = y[n + 1]
    BY <2>1 DEF AllSameRemainders
  <2>3. a = c % M
    BY <1>2, <2>2
  <2> HIDE DEF T
  <2>4. a % M = c % M
    BY <2>3, RemainderTwice
  <2>5. b % M = d % M
    BY <2>1, <2>2 DEF AllSameRemainders
  <2>6. u[n + 1] = (a + b) % M /\ t[n + 1] = c + d
    BY <2>1, <2>2 DEF WrappedSumsOf, SumsOf
  <2>7. (a + b) % M = (c + d) % M
    <3>1. SameRemainder(a, c, M) /\ SameRemainder(b, d, M)
      BY <2>4, <2>5 DEF SameRemainder
    <3>2. SameRemainder(a + b, c + d, M)
      BY <3>1, SumOfRemainders
    <3> QED BY <3>2 DEF SameRemainder
  <2> QED BY <2>1, <2>6, <2>7 DEF T
<1> HIDE DEF T
<1>3. \A n \in 0 .. L : n \in T
  BY <1>1, <1>2, IntervalInduction
<1> QED BY <1>3 DEF T
=============================================================================
