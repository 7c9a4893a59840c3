--------------------------- MODULE SortitionProofs ---------------------------
(***************************************************************************)
(* Proofs about Sortition: the binomial coefficients that the code         *)
(* multiplies and divides count the outcomes of the draws, so what each    *)
(* loop compares is the chance that it means; and each loop stops at the   *)
(* first value that is good enough.                                        *)
(***************************************************************************)
EXTENDS Sortition, Induction

-----------------------------------------------------------------------------
(* Powers *)

LEMMA PowerEquations ==
    ASSUME NEW b \in Nat
    PROVE  /\ Power(b, 0) = 1
           /\ \A e \in Nat : Power(b, e) \in Nat /\ Power(b, e + 1) = b * Power(b, e)
<1> DEFINE power == CHOOSE f : f = [i \in Nat |-> IF i = 0 THEN 1 ELSE b * f[i - 1]]
           step  == [p \in Nat \X Nat |-> b * p[2]]
<1>1. PICK f \in [Nat -> Nat] : NatRecurs(f, 1, step)
  <2>1. step \in [Nat \X Nat -> Nat]
    OBVIOUS
  <2> HIDE DEF step
  <2> QED
    BY <2>1, NatRecursion
<1>2. f = [i \in Nat |-> IF i = 0 THEN 1 ELSE b * f[i - 1]]
  <2>1. \A i \in Nat : i # 0 => step[<<i, f[i - 1]>>] = b * f[i - 1]
    OBVIOUS
  <2> HIDE DEF step
  <2> QED
    BY <1>1, <2>1 DEF NatRecurs
<1>3. power = [i \in Nat |-> IF i = 0 THEN 1 ELSE b * power[i - 1]]
  BY <1>2
<1>4. \A e : Power(b, e) = power[e]
  BY DEF Power
<1> HIDE DEF power
<1> DEFINE Bad == {i \in Nat : power[i] \notin Nat}
<1>5. Bad = {}
  <2>1. SUFFICES ASSUME Bad # {} PROVE FALSE
    OBVIOUS
  <2>2. PICK i \in Bad : \A j \in Bad : i <= j
    <3>1. Bad \in SUBSET Nat
      OBVIOUS
    <3> HIDE DEF Bad
    <3> QED
      BY <2>1, <3>1, LeastNat
  <2>3. power[i] = IF i = 0 THEN 1 ELSE b * power[i - 1]
    BY <1>3
  <2>4. i # 0 => power[i - 1] \in Nat
    BY <2>2
  <2> QED
    BY <2>3, <2>4
<1>6. ASSUME NEW e \in Nat PROVE power[e] \in Nat /\ power[e + 1] = b * power[e]
  <2>1. power[e] \in Nat
    BY <1>5
  <2>2. power[e + 1] = b * power[e + 1 - 1]
    BY <1>3
  <2> QED
    BY <2>1, <2>2
<1>7. power[0] = 1
  BY <1>3
<1> QED
  BY <1>4, <1>6, <1>7

LEMMA PowerPositive ==
    ASSUME NEW b \in Nat, b > 0, NEW e \in Nat
    PROVE  Power(b, e) > 0
<1> DEFINE Bad == {i \in Nat : ~ Power(b, i) > 0}
<1>1. SUFFICES ASSUME Bad # {} PROVE FALSE
  OBVIOUS
<1>2. PICK i \in Bad : \A j \in Bad : i <= j
  <2>1. Bad \in SUBSET Nat
    OBVIOUS
  <2> HIDE DEF Bad
  <2> QED
    BY <1>1, <2>1, LeastNat
<1>3. i # 0
  BY PowerEquations
<1>4. i - 1 \in Nat /\ Power(b, i - 1) > 0
  BY <1>2, <1>3
<1>5. Power(b, i - 1) \in Nat /\ Power(b, i - 1 + 1) = b * Power(b, i - 1) /\ i - 1 + 1 = i
  BY <1>4, PowerEquations
<1> DEFINE x == Power(b, i - 1)
<1>6. x \in Nat /\ x > 0
  BY <1>4, <1>5
<1> HIDE DEF x
<1>7. b * x > 0
  BY <1>6
<1> QED
  BY <1>5, <1>7 DEF x

-----------------------------------------------------------------------------
(* Binomial coefficients *)

LEMMA DivisionExact ==
    ASSUME NEW i \in Nat, i > 0, NEW x \in Int
    PROVE  (i * x) \div i = x
  OBVIOUS

LEMMA BinomialEquations ==
    ASSUME NEW n \in Nat
    PROVE  /\ Binomial(n, 0) = 1
           /\ \A i \in Nat : Binomial(n, i) \in Int
           /\ \A i \in Nat : i > 0 => Binomial(n, i) = (Binomial(n, i - 1) * (n - i + 1)) \div i
<1> DEFINE falling == CHOOSE f : f = [i \in Nat |-> IF i = 0 THEN 1 ELSE (f[i - 1] * (n - i + 1)) \div i]
           step  == [p \in Nat \X Int |-> IF p[1] = 0 THEN 0 ELSE (p[2] * (n - p[1] + 1)) \div p[1]]
<1>1. PICK f \in [Nat -> Int] : NatRecurs(f, 1, step)
  <2>1. step \in [Nat \X Int -> Int]
    OBVIOUS
  <2>2. 1 \in Int
    OBVIOUS
  <2> HIDE DEF step
  <2> QED
    BY <2>1, <2>2, NatRecursion
<1>2. f = [i \in Nat |-> IF i = 0 THEN 1 ELSE (f[i - 1] * (n - i + 1)) \div i]
  <2>1. ASSUME NEW i \in Nat, i # 0
        PROVE  step[<<i, f[i - 1]>>] = (f[i - 1] * (n - i + 1)) \div i
    <3>1. i - 1 \in Nat /\ f[i - 1] \in Int
      BY <2>1
    <3> QED
      BY <2>1, <3>1
  <2> HIDE DEF step
  <2> QED
    BY <1>1, <2>1 DEF NatRecurs
<1>3. falling = [i \in Nat |-> IF i = 0 THEN 1 ELSE (falling[i - 1] * (n - i + 1)) \div i]
  BY <1>2
<1>4. \A i : Binomial(n, i) = falling[i]
  BY DEF Binomial
<1> HIDE DEF falling
<1> DEFINE Bad == {i \in Nat : falling[i] \notin Int}
<1>5. Bad = {}
  <2>1. SUFFICES ASSUME Bad # {} PROVE FALSE
    OBVIOUS
  <2>2. PICK i \in Bad : \A j \in Bad : i <= j
    <3>1. Bad \in SUBSET Nat
      OBVIOUS
    <3> HIDE DEF Bad
    <3> QED
      BY <2>1, <3>1, LeastNat
  <2>3. falling[i] = IF i = 0 THEN 1 ELSE (falling[i - 1] * (n - i + 1)) \div i
    BY <1>3
  <2>4. i # 0 => falling[i - 1] \in Int
    BY <2>2
  <2> QED
    BY <2>3, <2>4
<1>6. ASSUME NEW i \in Nat, i > 0
      PROVE  falling[i] = (falling[i - 1] * (n - i + 1)) \div i
  BY <1>3, <1>6
<1>7. falling[0] = 1
  BY <1>3
<1> QED
  BY <1>4, <1>5, <1>6, <1>7

\* The division of the code never leaves a remainder.
Exact(n) == \A i \in 1 .. n + 1 : i * Binomial(n, i) = (n - i + 1) * Binomial(n, i - 1)

\* What the code divides by i to come to the i-th coefficient of the next row.
LEMMA NextInRow ==
    ASSUME NEW n \in Nat, Exact(n), NEW i \in 1 .. n + 1,
           i # 1 => Binomial(n + 1, i - 1) = Binomial(n, i - 1) + Binomial(n, i - 2)
    PROVE  Binomial(n + 1, i - 1) * (n + 1 - i + 1) = i * (Binomial(n, i) + Binomial(n, i - 1))
<1> DEFINE a == Binomial(n, i)
           b == Binomial(n, i - 1)
           up == Binomial(n + 1, i - 1)
<1>1. i \in Nat /\ i - 1 \in Nat /\ i > 0 /\ n + 1 \in Nat
  OBVIOUS
<1>2. a \in Int /\ b \in Int /\ up \in Int
  BY <1>1, BinomialEquations
<1>3. i * a = (n - i + 1) * b
  BY DEF Exact
<1>4. CASE i = 1
  <2>1. up = 1 /\ b = 1
    BY <1>1, <1>4, BinomialEquations
  <2> HIDE DEF a, b, up
  <2>2. up * (n + 1 - i + 1) = i * (a + b)
    BY <1>1, <1>2, <1>3, <1>4, <2>1
  <2> QED
    BY <2>2 DEF a, b, up
<1>5. CASE i # 1
  <2> DEFINE c == Binomial(n, i - 2)
  <2>1. i - 1 \in 1 .. n + 1 /\ i - 2 \in Nat /\ (i - 1) - 1 = i - 2
    BY <1>5
  <2>2. up = b + c
    BY <1>5
  <2>3. (i - 1) * b = (n - (i - 1) + 1) * c
    BY <2>1 DEF Exact
  <2>4. c \in Int
    BY <2>1, BinomialEquations
  <2> HIDE DEF a, b, c, up
  <2>5. up * (n + 1 - i + 1) = (n + 2 - i) * b + (n + 2 - i) * c
    BY <1>1, <1>2, <2>2, <2>4
  <2>6. (n + 2 - i) * c = (i - 1) * b
    BY <1>1, <1>2, <2>3, <2>4
  <2>7. up * (n + 1 - i + 1) = (n + 1) * b
    BY <1>1, <1>2, <2>5, <2>6
  <2>8. i * (a + b) = (n + 1) * b
    BY <1>1, <1>2, <1>3
  <2> QED
    BY <2>7, <2>8 DEF a, b, up
<1> QED
  BY <1>4, <1>5

\* The rule of Pascal's triangle, which follows from the row above.
LEMMA PascalStep ==
    ASSUME NEW n \in Nat, Exact(n)
    PROVE  \A i \in 1 .. n + 1 : Binomial(n + 1, i) = Binomial(n, i) + Binomial(n, i - 1)
<1> DEFINE Bad == {i \in 1 .. n + 1 : Binomial(n + 1, i) # Binomial(n, i) + Binomial(n, i - 1)}
<1>1. SUFFICES ASSUME Bad # {} PROVE FALSE
  OBVIOUS
<1>2. PICK i \in Bad : \A j \in Bad : i <= j
  <2>1. Bad \in SUBSET Nat
    OBVIOUS
  <2> HIDE DEF Bad
  <2> QED
    BY <1>1, <2>1, LeastNat
<1>3. i \in 1 .. n + 1 /\ i \in Nat /\ i - 1 \in Nat /\ i > 0 /\ n + 1 \in Nat
  OBVIOUS
<1>4. i # 1 => Binomial(n + 1, i - 1) = Binomial(n, i - 1) + Binomial(n, i - 2)
  <2>1. i # 1 => i - 1 \in 1 .. n + 1 /\ i - 1 \notin Bad /\ (i - 1) - 1 = i - 2
    BY <1>2, <1>3
  <2> QED
    BY <2>1
<1> DEFINE x  == Binomial(n, i) + Binomial(n, i - 1)
           up == Binomial(n + 1, i - 1)
<1>5. x \in Int /\ Binomial(n + 1, i) = (up * (n + 1 - i + 1)) \div i
  <2>1. Binomial(n, i) \in Int /\ Binomial(n, i - 1) \in Int
    BY <1>3, BinomialEquations
  <2>2. Binomial(n + 1, i) = (up * (n + 1 - i + 1)) \div i
    BY <1>3, BinomialEquations
  <2> QED
    BY <2>1, <2>2
<1>6. up * (n + 1 - i + 1) = i * x
  BY <1>3, <1>4, NextInRow
<1>7. Binomial(n + 1, i) = x
  <2> HIDE DEF x, up
  <2> QED
    BY <1>3, <1>5, <1>6, DivisionExact
<1> QED
  BY <1>7

LEMMA ExactStep ==
    ASSUME NEW n \in Nat, Exact(n)
    PROVE  Exact(n + 1)
<1>1. SUFFICES ASSUME NEW i \in 1 .. n + 2
               PROVE  i * Binomial(n + 1, i) = (n + 1 - i + 1) * Binomial(n + 1, i - 1)
  BY DEF Exact
<1>2. i \in Nat /\ i - 1 \in Nat /\ i > 0 /\ n + 1 \in Nat
  OBVIOUS
<1> DEFINE up == Binomial(n + 1, i - 1)
<1>3. up \in Int
  BY <1>2, BinomialEquations
<1>4. Binomial(n + 1, i) = (up * (n + 1 - i + 1)) \div i
  BY <1>2, BinomialEquations
<1>5. CASE i = n + 2
  <2> HIDE DEF up
  <2>1. up * (n + 1 - i + 1) = i * 0 /\ (n + 1 - i + 1) * up = 0
    BY <1>2, <1>3, <1>5
  <2>2. Binomial(n + 1, i) = 0
    BY <1>2, <1>4, <2>1, DivisionExact
  <2> QED
    BY <1>2, <2>1, <2>2 DEF up
<1>6. CASE i # n + 2
  <2> DEFINE x == Binomial(n, i) + Binomial(n, i - 1)
  <2>1. i \in 1 .. n + 1
    BY <1>6
  <2>2. Binomial(n + 1, i) = x
    BY <2>1, PascalStep
  <2>3. i # 1 => Binomial(n + 1, i - 1) = Binomial(n, i - 1) + Binomial(n, i - 2)
    <3>1. i # 1 => i - 1 \in 1 .. n + 1 /\ (i - 1) - 1 = i - 2
      BY <2>1
    <3> QED
      BY <3>1, PascalStep
  <2>4. up * (n + 1 - i + 1) = i * x
    BY <2>1, <2>3, NextInRow
  <2> HIDE DEF x, up
  <2> QED
    BY <1>2, <1>3, <2>2, <2>4 DEF up
<1> QED
  BY <1>5, <1>6

LEMMA AllExact == \A n \in Nat : Exact(n)
<1> DEFINE Bad == {n \in Nat : ~ Exact(n)}
<1>1. SUFFICES ASSUME Bad # {} PROVE FALSE
  OBVIOUS
<1>2. PICK n \in Bad : \A m \in Bad : n <= m
  <2>1. Bad \in SUBSET Nat
    OBVIOUS
  <2> HIDE DEF Bad
  <2> QED
    BY <1>1, <2>1, LeastNat
<1>3. CASE n = 0
  <2>1. Binomial(0, 0) = 1 /\ Binomial(0, 1) = (Binomial(0, 1 - 1) * (0 - 1 + 1)) \div 1
    BY BinomialEquations
  <2>2. (1 * 0) \div 1 = 0
    OBVIOUS
  <2>3. Exact(0)
    BY <2>1, <2>2 DEF Exact
  <2> QED
    BY <1>3, <2>3
<1>4. CASE n # 0
  <2>1. n - 1 \in Nat /\ Exact(n - 1) /\ (n - 1) + 1 = n
    BY <1>2, <1>4
  <2> HIDE DEF Bad
  <2>2. Exact(n)
    BY <2>1, ExactStep
  <2> QED
    BY <2>2 DEF Bad
<1> QED
  BY <1>3, <1>4

LEMMA Pascal ==
    ASSUME NEW n \in Nat
    PROVE  /\ Binomial(n, 0) = 1
           /\ Binomial(n, n + 1) = 0
           /\ \A i \in 1 .. n + 1 : Binomial(n + 1, i) = Binomial(n, i) + Binomial(n, i - 1)
<1>1. Exact(n)
  BY AllExact
<1>2. n + 1 \in Nat /\ n + 1 > 0 /\ (n + 1) - 1 \in Nat
  OBVIOUS
<1>3. Binomial(n, n + 1) = 0
  <2> DEFINE a == Binomial(n, n + 1)
             b == Binomial(n, (n + 1) - 1)
  <2>1. (n + 1) * a = (n - (n + 1) + 1) * b
    BY <1>1 DEF Exact
  <2>2. a \in Int /\ b \in Int
    BY <1>2, BinomialEquations
  <2> HIDE DEF a, b
  <2>3. (n + 1) * a = (n + 1) * 0
    BY <1>2, <2>1, <2>2
  <2>4. ((n + 1) * a) \div (n + 1) = a /\ ((n + 1) * 0) \div (n + 1) = 0
    BY <1>2, <2>2, DivisionExact
  <2> QED
    BY <2>3, <2>4 DEF a
<1> QED
  BY <1>1, <1>3, BinomialEquations, PascalStep

-----------------------------------------------------------------------------
(* The outcomes of the draws *)

\* a counts, after d of the draws, the outcomes with k successes, draw by draw.
Counts(a, w, tau, n) ==
    /\ a \in [Nat -> [0 .. n -> Nat]]
    /\ \A k \in 0 .. n : a[0][k] = IF k = 0 THEN 1 ELSE 0
    /\ \A d \in Nat, k \in 0 .. n :
          a[d + 1][k] = a[d][k] * (w - tau) + (IF k = 0 THEN 0 ELSE a[d][k - 1] * tau)

LEMMA OutcomesAreCounted ==
    ASSUME NEW w \in Nat, NEW tau \in Nat, tau <= w, NEW n \in Nat
    PROVE  \E a : Counts(a, w, tau, n) /\ Outcomes(w, tau, n) = a[n]
<1> DEFINE Val   == [0 .. n -> Nat]
           first == [k \in 0 .. n |-> IF k = 0 THEN 1 ELSE 0]
           next(before) == [k \in 0 .. n |-> before[k] * (w - tau)
                                             + (IF k = 0 THEN 0 ELSE before[k - 1] * tau)]
           step  == [p \in Nat \X Val |-> next(p[2])]
           IsAfter(f) == f = [d \in Nat |-> IF d = 0 THEN first ELSE next(f[d - 1])]
           after == CHOOSE f : IsAfter(f)
<1>1. first \in Val
  OBVIOUS
<1>2. ASSUME NEW before \in Val PROVE next(before) \in Val
  <2>1. ASSUME NEW k \in 0 .. n
        PROVE  before[k] * (w - tau) + (IF k = 0 THEN 0 ELSE before[k - 1] * tau) \in Nat
    <3>1. before[k] \in Nat /\ w - tau \in Nat /\ (k # 0 => before[k - 1] \in Nat)
      OBVIOUS
    <3>2. before[k] * (w - tau) \in Nat
      BY <3>1
    <3>3. (IF k = 0 THEN 0 ELSE before[k - 1] * tau) \in Nat
      BY <3>1
    <3> QED
      BY <3>2, <3>3
  <2> QED
    BY <2>1
<1>3. \E f : IsAfter(f)
  <2>1. step \in [Nat \X Val -> Val]
    <3> HIDE DEF next, Val
    <3> QED
      BY <1>2
  <2>2. PICK f \in [Nat -> Val] : NatRecurs(f, first, step)
    <3> HIDE DEF step, Val, first
    <3> QED
      BY <1>1, <2>1, NatRecursion
  <2> HIDE DEF next, first, Val
  <2>3. \A d \in Nat : d # 0 => step[<<d, f[d - 1]>>] = next(f[d - 1])
    OBVIOUS
  <2> HIDE DEF step
  <2>4. IsAfter(f)
    BY <2>2, <2>3 DEF NatRecurs
  <2> QED
    BY <2>4
<1>4. IsAfter(after)
  <2> HIDE DEF IsAfter
  <2> QED
    BY <1>3
<1>5. Outcomes(w, tau, n) = after[n]
  BY DEF Outcomes
<1> HIDE DEF after
<1>6. \A d \in Nat : after[d] = IF d = 0 THEN first ELSE next(after[d - 1])
  <2> HIDE DEF first, next
  <2> QED
    BY <1>4
<1> DEFINE Bad == {d \in Nat : after[d] \notin Val}
<1>7. Bad = {}
  <2> HIDE DEF first, next, Val
  <2>1. SUFFICES ASSUME Bad # {} PROVE FALSE
    OBVIOUS
  <2>2. PICK d \in Bad : \A j \in Bad : d <= j
    <3>1. Bad \in SUBSET Nat
      OBVIOUS
    <3> HIDE DEF Bad
    <3> QED
      BY <2>1, <3>1, LeastNat
  <2>3. after[d] = IF d = 0 THEN first ELSE next(after[d - 1])
    BY <1>6
  <2>4. d # 0 => after[d - 1] \in Val
    BY <2>2
  <2> QED
    BY <1>1, <1>2, <2>3, <2>4
<1>8. after \in [Nat -> Val]
  <2> HIDE DEF first, next, Val
  <2>1. after = [d \in Nat |-> after[d]]
    BY <1>4
  <2> QED
    BY <1>7, <2>1
<1>9. ASSUME NEW d \in Nat, NEW k \in 0 .. n
      PROVE  after[d + 1][k] = after[d][k] * (w - tau)
                                 + (IF k = 0 THEN 0 ELSE after[d][k - 1] * tau)
  <2>1. after[d + 1] = next(after[d])
    <3>1. d + 1 \in Nat /\ d + 1 # 0 /\ (d + 1) - 1 = d
      OBVIOUS
    <3> HIDE DEF first, next
    <3> QED
      BY <1>6, <3>1
  <2> QED
    BY <2>1
<1>10. \A k \in 0 .. n : after[0][k] = IF k = 0 THEN 1 ELSE 0
  BY <1>6
<1>11. Counts(after, w, tau, n)
  BY <1>8, <1>9, <1>10 DEF Counts
<1> QED
  BY <1>5, <1>11

\* The product of the code, for d draws, k of them won.
Term(w, tau, d, k) == Power(tau, k) * Power(w - tau, d - k) * Binomial(d, k)

LEMMA TermStep ==
    ASSUME NEW w \in Nat, NEW tau \in Nat, tau <= w, NEW d \in Nat, NEW k \in 1 .. d
    PROVE  Term(w, tau, d + 1, k) = Term(w, tau, d, k) * (w - tau) + Term(w, tau, d, k - 1) * tau
<1> DEFINE u == w - tau
           x == Power(tau, k - 1)
           y == Power(u, d - k)
           a == Binomial(d, k)
           b == Binomial(d, k - 1)
<1>1. u \in Nat /\ k - 1 \in Nat /\ d - k \in Nat /\ k \in Nat /\ (k - 1) + 1 = k
      /\ (d - k) + 1 = d + 1 - k /\ (d - k) + 1 = d - (k - 1) /\ k \in 1 .. d + 1
  OBVIOUS
<1>2. a \in Int /\ b \in Int /\ x \in Nat /\ y \in Nat
  BY <1>1, BinomialEquations, PowerEquations
<1>3. Power(tau, k) = tau * x
  BY <1>1, PowerEquations
<1>4. Power(u, d + 1 - k) = u * y /\ Power(u, d - (k - 1)) = u * y
  <2> HIDE DEF u
  <2> QED
    BY <1>1, PowerEquations
<1>5. Binomial(d + 1, k) = a + b
  BY <1>1, Pascal
<1>6. Term(w, tau, d + 1, k) = (tau * x) * (u * y) * (a + b)
  BY <1>3, <1>4, <1>5 DEF Term
<1>7. Term(w, tau, d, k) = (tau * x) * y * a
  BY <1>3 DEF Term
<1>8. Term(w, tau, d, k - 1) = x * (u * y) * b
  BY <1>4 DEF Term
<1> HIDE DEF u, x, y, a, b
<1>9. (tau * x) * (u * y) * (a + b) = ((tau * x) * y * a) * u + (x * (u * y) * b) * tau
  BY <1>1, <1>2
<1> QED
  BY <1>6, <1>7, <1>8, <1>9 DEF u

LEMMA TermEnds ==
    ASSUME NEW w \in Nat, NEW tau \in Nat, tau <= w, NEW d \in Nat
    PROVE  /\ Term(w, tau, 0, 0) = 1
           /\ Term(w, tau, d + 1, 0) = Term(w, tau, d, 0) * (w - tau)
           /\ Term(w, tau, d + 1, d + 1) = Term(w, tau, d, d) * tau
<1> DEFINE u == w - tau
           x == Power(tau, d)
           y == Power(u, d)
           b == Binomial(d, d)
<1>1. u \in Nat /\ d + 1 \in Nat /\ d - 0 = d /\ (d + 1) - 0 = d + 1 /\ d - d = 0
      /\ (d + 1) - (d + 1) = 0 /\ d + 1 \in 1 .. d + 1 /\ (d + 1) - 1 = d /\ 0 - 0 = 0
  OBVIOUS
<1>2. x \in Nat /\ y \in Nat /\ b \in Int
  BY <1>1, PowerEquations, BinomialEquations
<1>3. Power(tau, 0) = 1 /\ Power(u, 0) = 1 /\ Power(tau, d + 1) = tau * x
      /\ Power(u, d + 1) = u * y
  BY <1>1, PowerEquations
<1>4. Binomial(0, 0) = 1 /\ Binomial(d, 0) = 1 /\ Binomial(d + 1, 0) = 1
  BY <1>1, Pascal
<1>5. Binomial(d + 1, d + 1) = b
  <2>1. Binomial(d + 1, d + 1) = Binomial(d, d + 1) + Binomial(d, (d + 1) - 1)
    BY <1>1, Pascal
  <2>2. Binomial(d, d + 1) = 0
    BY Pascal
  <2> QED
    BY <1>1, <1>2, <2>1, <2>2
<1>6. Term(w, tau, 0, 0) = 1 * 1 * 1
  BY <1>1, <1>3, <1>4 DEF Term
<1>7. Term(w, tau, d + 1, 0) = 1 * (u * y) * 1 /\ Term(w, tau, d, 0) = 1 * y * 1
  BY <1>1, <1>3, <1>4 DEF Term
<1>8. Term(w, tau, d + 1, d + 1) = (tau * x) * 1 * b /\ Term(w, tau, d, d) = x * 1 * b
  BY <1>1, <1>3, <1>5 DEF Term
<1> HIDE DEF u, x, y, b
<1>9. 1 * (u * y) * 1 = (1 * y * 1) * u /\ (tau * x) * 1 * b = (x * 1 * b) * tau
  BY <1>1, <1>2
<1> QED
  BY <1>6, <1>7, <1>8, <1>9 DEF u

\* The draws have k successes in as many outcomes as the code computes.
LEMMA CountsAreTerms ==
    ASSUME NEW w \in Nat, NEW tau \in Nat, tau <= w, NEW n \in Nat,
           NEW a, Counts(a, w, tau, n)
    PROVE  \A d \in 0 .. n : \A k \in 0 .. n :
              a[d][k] = IF k <= d THEN Term(w, tau, d, k) ELSE 0
<1> DEFINE Right(d) == \A k \in 0 .. n : a[d][k] = IF k <= d THEN Term(w, tau, d, k) ELSE 0
           Bad      == {d \in 0 .. n : ~ Right(d)}
<1>1. SUFFICES ASSUME Bad # {} PROVE FALSE
  OBVIOUS
<1>2. PICK d \in Bad : \A j \in Bad : d <= j
  <2>1. Bad \in SUBSET Nat
    OBVIOUS
  <2> HIDE DEF Bad
  <2> QED
    BY <1>1, <2>1, LeastNat
<1>3. CASE d = 0
  <2>1. \A k \in 0 .. n : a[0][k] = IF k = 0 THEN 1 ELSE 0
    BY DEF Counts
  <2>2. Term(w, tau, 0, 0) = 1
    BY TermEnds
  <2>3. \A k \in 0 .. n : k <= 0 <=> k = 0
    OBVIOUS
  <2>4. Right(0)
    BY <2>1, <2>2, <2>3
  <2> QED
    BY <1>3, <2>4
<1>4. CASE d # 0
  <2> DEFINE e == d - 1
  <2>1. e \in 0 .. n /\ e \in Nat /\ e + 1 = d /\ e \notin Bad /\ d \in 0 .. n
    BY <1>2, <1>4
  <2>2. Right(e)
    BY <2>1
  <2> HIDE DEF e, Bad
  <2>3. ASSUME NEW k \in 0 .. n
        PROVE  a[d][k] = IF k <= d THEN Term(w, tau, d, k) ELSE 0
    <3>1. a[d][k] = a[e][k] * (w - tau) + (IF k = 0 THEN 0 ELSE a[e][k - 1] * tau)
      BY <2>1 DEF Counts
    <3>2. a[e][k] \in Nat /\ w - tau \in Nat /\ a[e][k] * (w - tau) \in Nat
      <4>1. a[e][k] \in Nat /\ w - tau \in Nat
        BY <2>1 DEF Counts
      <4> QED
        BY <4>1
    <3>3. CASE k = 0
      <4>1. a[e][k] = Term(w, tau, e, 0)
        BY <2>1, <2>2, <3>3
      <4>2. Term(w, tau, e + 1, 0) = Term(w, tau, e, 0) * (w - tau)
        BY <2>1, TermEnds
      <4>3. a[d][k] = a[e][k] * (w - tau)
        BY <3>1, <3>2, <3>3
      <4> QED
        BY <2>1, <3>3, <4>1, <4>2, <4>3
    <3>4. CASE k \in 1 .. e
      <4>1. a[e][k] = Term(w, tau, e, k) /\ a[e][k - 1] = Term(w, tau, e, k - 1)
        BY <2>1, <2>2, <3>4
      <4>2. Term(w, tau, e + 1, k)
              = Term(w, tau, e, k) * (w - tau) + Term(w, tau, e, k - 1) * tau
        BY <2>1, <3>4, TermStep
      <4>3. k # 0 /\ k <= d
        BY <2>1, <3>4
      <4> QED
        BY <2>1, <3>1, <4>1, <4>2, <4>3
    <3>5. CASE k = e + 1
      <4>1. a[e][k] = 0 /\ a[e][k - 1] = Term(w, tau, e, e) /\ k # 0 /\ k <= d /\ k = d
        BY <2>1, <2>2, <3>5
      <4>2. Term(w, tau, e + 1, e + 1) = Term(w, tau, e, e) * tau
        BY <2>1, TermEnds
      <4>3. a[d][k] = 0 * (w - tau) + a[e][k - 1] * tau
        BY <3>1, <4>1
      <4>4. a[e][k - 1] \in Nat
        <5>1. k - 1 \in 0 .. n
          BY <2>1, <3>5
        <5> QED
          BY <2>1, <5>1 DEF Counts
      <4>5. a[d][k] = a[e][k - 1] * tau
        BY <3>2, <4>3, <4>4
      <4> QED
        BY <2>1, <3>5, <4>1, <4>2, <4>5
    <3>6. CASE k > e + 1
      <4>1. a[e][k] = 0 /\ a[e][k - 1] = 0 /\ k # 0 /\ ~ k <= d
        BY <2>1, <2>2, <3>6
      <4>2. a[d][k] = 0 * (w - tau) + 0 * tau
        BY <3>1, <4>1
      <4> QED
        BY <3>2, <4>1, <4>2
    <3> QED
      BY <2>1, <3>3, <3>4, <3>5, <3>6
  <2>4. Right(d)
    BY <2>3
  <2> QED
    BY <2>4 DEF Bad
<1> QED
  BY <1>3, <1>4

\* Every outcome has some number of successes: w^n of them in all.
LEMMA CountsTotal ==
    ASSUME NEW w \in Nat, NEW tau \in Nat, tau <= w, NEW n \in Nat,
           NEW a, Counts(a, w, tau, n)
    PROVE  SumFunctionOnSet(a[n], 0 .. n) = Power(w, n)
<1> DEFINE T(d, m) == SumFunctionOnSet(a[d], 0 .. m)
           u == w - tau
<1>1. ASSUME NEW d \in Nat, NEW k \in 0 .. n
      PROVE  /\ a[d][k] \in Nat
             /\ a[d + 1][k] = a[d][k] * u + (IF k = 0 THEN 0 ELSE a[d][k - 1] * tau)
  BY DEF Counts
<1>2. u \in Nat
  OBVIOUS
<1>3. ASSUME NEW d \in Nat, NEW m \in 0 .. n
      PROVE  T(d, m) \in Int /\ T(d, m - 1) \in Int /\ T(d, m) = T(d, m - 1) + a[d][m]
  <2>1. \A k \in 0 .. m : a[d][k] \in Int
    BY <1>1
  <2>2. m \in Nat /\ a[d][m] \in Int
    BY <2>1
  <2> DEFINE f == a[d]
  <2> HIDE DEF f
  <2>3. \A k \in 0 .. m : f[k] \in Int
    BY <2>1 DEF f
  <2>4. SumFunctionOnSet(f, 0 .. m - 1) \in Int
        /\ SumFunctionOnSet(f, 0 .. m) = SumFunctionOnSet(f, 0 .. m - 1) + f[m]
    BY <2>2, <2>3, SumUpTo
  <2> QED
    BY <2>2, <2>4 DEF f
<1>4. ASSUME NEW d \in Nat PROVE T(d, -1) = 0
  <2>1. 0 .. -1 = {}
    OBVIOUS
  <2> QED
    BY <2>1, SumEmpty
<1> HIDE DEF T
<1>5. ASSUME NEW d \in Nat, NEW m \in 0 .. n
      PROVE  T(d + 1, m) = u * T(d, m) + tau * T(d, m - 1)
  <2> DEFINE Bad == {j \in 0 .. n : T(d + 1, j) # u * T(d, j) + tau * T(d, j - 1)}
  <2>1. SUFFICES ASSUME Bad # {} PROVE FALSE
    OBVIOUS
  <2>2. PICK i \in Bad : \A j \in Bad : i <= j
    <3>1. Bad \in SUBSET Nat
      OBVIOUS
    <3> HIDE DEF Bad
    <3> QED
      BY <2>1, <3>1, LeastNat
  <2>3. i \in 0 .. n /\ T(d + 1, i) # u * T(d, i) + tau * T(d, i - 1)
    OBVIOUS
  <2>4. d + 1 \in Nat
    OBVIOUS
  <2> DEFINE x  == a[d][i]
             t  == T(d, i - 1)
             t1 == T(d + 1, i - 1)
  <2>5. T(d + 1, i) = t1 + a[d + 1][i] /\ T(d, i) = t + x /\ t \in Int /\ t1 \in Int
        /\ x \in Int
    BY <1>1, <1>3, <2>3, <2>4
  <2>6. CASE i = 0
    <3>1. a[d + 1][i] = x * u
      <4>1. a[d + 1][i] = x * u + 0 /\ x * u \in Int
        BY <1>1, <1>2, <2>3, <2>5, <2>6
      <4> QED
        BY <4>1
    <3>2. t = 0 /\ t1 = 0
      BY <1>4, <2>4, <2>6
    <3> HIDE DEF x, t, t1
    <3>3. T(d + 1, i) = u * x /\ T(d, i) = x
      BY <1>2, <2>5, <3>1, <3>2
    <3>4. u * T(d, i) + tau * t = u * x
      BY <1>2, <2>5, <3>2, <3>3
    <3> QED
      BY <2>3, <3>3, <3>4 DEF t
  <2>7. CASE i # 0
    <3> DEFINE y == a[d][i - 1]
               v == T(d, (i - 1) - 1)
    <3>1. i - 1 \in 0 .. n /\ i - 1 \notin Bad
      BY <2>2, <2>3, <2>7
    <3>2. t1 = u * t + tau * v
      BY <3>1
    <3>3. t = v + y /\ v \in Int /\ y \in Int
      BY <1>1, <1>3, <3>1
    <3>4. a[d + 1][i] = x * u + y * tau
      BY <1>1, <2>3, <2>7
    <3> HIDE DEF x, t, t1, y, v, u
    <3>5. T(d + 1, i) = u * t + tau * v + (x * u + y * tau)
      BY <2>5, <3>2, <3>4
    <3>6. u * T(d, i) + tau * t = u * (t + x) + tau * (v + y)
      BY <2>5, <3>3
    <3>7. u * t + tau * v + (x * u + y * tau) = u * (t + x) + tau * (v + y)
      BY <1>2, <2>5, <3>3
    <3> QED
      BY <2>3, <3>5, <3>6, <3>7 DEF t
  <2> QED
    BY <2>6, <2>7
<1> DEFINE Bad == {d \in 0 .. n : T(d, n) # Power(w, d)}
<1>6. SUFFICES ASSUME Bad # {} PROVE FALSE
  <2>1. n \in 0 .. n
    OBVIOUS
  <2> QED
    BY <2>1 DEF T
<1>7. PICK d \in Bad : \A j \in Bad : d <= j
  <2>1. Bad \in SUBSET Nat
    OBVIOUS
  <2> HIDE DEF Bad
  <2> QED
    BY <1>6, <2>1, LeastNat
<1>8. CASE d = 0
  <2> DEFINE Wrong == {m \in 0 .. n : T(0, m) # 1}
  <2>1. Wrong = {}
    <3>1. SUFFICES ASSUME Wrong # {} PROVE FALSE
      OBVIOUS
    <3>2. PICK i \in Wrong : \A j \in Wrong : i <= j
      <4>1. Wrong \in SUBSET Nat
        OBVIOUS
      <4> HIDE DEF Wrong
      <4> QED
        BY <3>1, <4>1, LeastNat
    <3>3. a[0][i] = IF i = 0 THEN 1 ELSE 0
      BY <3>2 DEF Counts
    <3>4. T(0, i) = T(0, i - 1) + a[0][i] /\ T(0, i - 1) \in Int
      BY <1>3, <3>2
    <3>5. CASE i = 0
      BY <1>4, <3>2, <3>3, <3>4, <3>5
    <3>6. CASE i # 0
      <4>1. i - 1 \in 0 .. n /\ i - 1 \notin Wrong
        BY <3>2, <3>6
      <4>2. T(0, i - 1) = 1
        BY <4>1
      <4> QED
        BY <3>2, <3>3, <3>4, <3>6, <4>2
    <3> QED
      BY <3>5, <3>6
  <2>2. n \in 0 .. n
    OBVIOUS
  <2>3. T(0, n) = 1
    BY <2>1, <2>2
  <2>4. Power(w, 0) = 1
    BY PowerEquations
  <2> QED
    BY <1>7, <1>8, <2>3, <2>4
<1>9. CASE d # 0
  <2> DEFINE e == d - 1
  <2>1. e \in 0 .. n /\ e \in Nat /\ e + 1 = d /\ e \notin Bad /\ e < n /\ n \in 0 .. n /\ d \in Nat
    BY <1>7, <1>9
  <2>2. T(e, n) = Power(w, e)
    BY <2>1
  <2> HIDE DEF e
  <2>3. T(d, n) = u * T(e, n) + tau * T(e, n - 1)
    BY <1>5, <2>1
  <2>4. a[e][n] = 0
    <3>1. a[e][n] = IF n <= e THEN Term(w, tau, e, n) ELSE 0
      BY <2>1, CountsAreTerms
    <3> QED
      BY <2>1, <3>1
  <2>5. T(e, n) \in Int /\ T(e, n - 1) = T(e, n)
    BY <1>3, <2>1, <2>4
  <2> DEFINE t == T(e, n)
  <2>6. t \in Int /\ T(d, n) = u * t + tau * t
    BY <2>3, <2>5
  <2>7. Power(w, d) = w * t
    BY <2>1, <2>2, PowerEquations
  <2> HIDE DEF t
  <2>8. u * t + tau * t = w * t
    BY <2>6
  <2> QED
    BY <1>7, <2>6, <2>7, <2>8
<1> QED
  BY <1>8, <1>9

LEMMA OutcomesTotal ==
    ASSUME NEW w \in Nat, NEW tau \in Nat, tau <= w, NEW n \in Nat
    PROVE  /\ \A k \in 0 .. n : Outcomes(w, tau, n)[k] \in Nat
           /\ \A k \in 0 .. n : Outcomes(w, tau, n)[k] = Term(w, tau, n, k)
           /\ SumFunctionOnSet(Outcomes(w, tau, n), 0 .. n) = Power(w, n)
<1>1. PICK a : Counts(a, w, tau, n) /\ Outcomes(w, tau, n) = a[n]
  BY OutcomesAreCounted
<1>2. n \in 0 .. n /\ \A k \in 0 .. n : k <= n
  OBVIOUS
<1>3. \A d \in 0 .. n : \A k \in 0 .. n : a[d][k] = IF k <= d THEN Term(w, tau, d, k) ELSE 0
  BY <1>1, CountsAreTerms
<1>4. \A k \in 0 .. n : a[n][k] \in Nat
  BY <1>1 DEF Counts
<1>5. SumFunctionOnSet(a[n], 0 .. n) = Power(w, n)
  BY <1>1, CountsTotal
<1> QED
  BY <1>1, <1>2, <1>3, <1>4, <1>5

\* cumulative_binom_dist, with the factorials of binomial divided out, counts
\* the outcomes with at most k successes, for all n and k and for every chance
\* tau / w of one success (sortition.py:8-24).
THEOREM CumulativeCounts ==
    ASSUME NEW w \in Nat, NEW tau \in Nat, tau <= w, NEW n \in Nat,
           NEW k \in Int, k <= n
    PROVE  CumulativeBinomDist(w, tau, n, k) = SumFunctionOnSet(Outcomes(w, tau, n), 0 .. k)
<1> DEFINE g == [i \in 0 .. k |-> Power(tau, i) * Power(w - tau, n - i) * Binomial(n, i)]
           S == 0 .. k
           o == Outcomes(w, tau, n)
<1>1. DOMAIN g = S /\ IsFiniteSet(S)
  BY FS_Interval
<1>2. \A i \in S : g[i] = Term(w, tau, n, i)
  BY DEF Term
<1>3. \A i \in S : o[i] = Term(w, tau, n, i)
  <2>1. \A i \in S : i \in 0 .. n
    OBVIOUS
  <2> QED
    BY <2>1, OutcomesTotal
<1>4. CumulativeBinomDist(w, tau, n, k) = SumFunctionOnSet(g, DOMAIN g)
  BY DEF CumulativeBinomDist, SumFunction
<1> HIDE DEF g, S, o
<1>5. \A i \in S : g[i] = o[i]
  BY <1>2, <1>3
<1>6. SumFunctionOnSet(g, S) = SumFunctionOnSet(o, S)
  BY <1>1, <1>5, SumAgrees
<1> QED
  BY <1>1, <1>4, <1>6 DEF S, o

-----------------------------------------------------------------------------
(* What the loops compare *)

LEMMA CallTypes ==
    ASSUME NEW c \in Calls
    PROVE  /\ c.total_stake \in Nat /\ c.tau \in Nat
           /\ 0 < c.tau /\ c.tau <= c.total_stake
           /\ c.fn \in {"run_sortition", "confirmation_threshold", "fork_threshold"}
           /\ c.fn # "run_sortition" => c.delta_r \in Nat /\ c.delta_r > 0 /\ Draws(c) \in Nat
           /\ c.fn = "run_sortition" => c.stake \in Nat /\ c.hash \in Nat /\ c.hash < Grid
<1>1. /\ c \in Sortitions \cup Thresholds
      /\ 0 < c.tau /\ c.tau <= c.total_stake
      /\ c \in Thresholds => c.delta_r > 0
      /\ c \in Sortitions => c.hash < Grid
  BY CallsAssumption
<1>2. CASE c \in Sortitions
  BY <1>1, <1>2 DEF Sortitions
<1>3. CASE c \in Thresholds
  <2>1. /\ c.total_stake \in Nat /\ c.tau \in Nat /\ c.delta_r \in Nat /\ c.delta_r > 0
        /\ c.fn \in {"confirmation_threshold", "fork_threshold"}
    BY <1>1, <1>3 DEF Thresholds
  <2>2. Draws(c) \in Nat
    BY <2>1 DEF Draws
  <2> QED
    BY <1>1, <2>1, <2>2
<1> QED
  BY <1>1, <1>2, <1>3

LEMMA MinOfTwo ==
    ASSUME NEW x \in Int, NEW y \in Int
    PROVE  Min({x, y}) = IF x <= y THEN x ELSE y
<1> DEFINE z == IF x <= y THEN x ELSE y
<1>1. z \in {x, y} /\ \A e \in {x, y} : z <= e
  OBVIOUS
<1>2. ASSUME NEW v \in {x, y}, \A e \in {x, y} : v <= e PROVE v = z
  BY <1>2
<1> HIDE DEF z
<1>3. Min({x, y}) = z
  BY <1>1, <1>2 DEF Min
<1> QED
  BY <1>3 DEF z

\* chance is the chance of at least m successes, where the code sums up to m - 1.
LEMMA ChanceOfAtLeast ==
    ASSUME NEW c \in Calls, c.fn # "run_sortition", NEW m \in Nat
    PROVE  /\ Chance(c, Min({m - 1, Draws(c)})) = AtLeast(c, m)
           /\ AtLeast(c, m) \in Int
<1> DEFINE w   == c.total_stake
           tau == c.tau
           D   == Draws(c)
           f   == Outcomes(w, tau, D)
           P   == Power(w, D)
<1>1. w \in Nat /\ tau \in Nat /\ tau <= w /\ D \in Nat
  BY CallTypes
<1> HIDE DEF w, tau, D
<1>2. (\A k \in 0 .. D : f[k] \in Int) /\ SumFunctionOnSet(f, 0 .. D) = P
  <2>1. \A k \in 0 .. D : f[k] \in Nat
    BY <1>1, OutcomesTotal
  <2>2. SumFunctionOnSet(f, 0 .. D) = P
    BY <1>1, OutcomesTotal
  <2> QED
    BY <2>1, <2>2
<1>3. ASSUME NEW k \in Int, k <= D
      PROVE  Chance(c, k) = P - SumFunctionOnSet(f, 0 .. k)
  BY <1>1, <1>3, CumulativeCounts DEF Chance, w, tau, D
<1>4. AtLeast(c, m) = SumFunctionOnSet(f, {k \in 0 .. D : k >= m})
  BY DEF AtLeast, w, tau, D
<1>5. P \in Int
  BY <1>1, PowerEquations
<1> HIDE DEF f, P
<1>6. CASE m \in 0 .. D + 1
  <2>1. Min({m - 1, D}) = m - 1 /\ m - 1 \in Int /\ m - 1 <= D
    BY <1>1, <1>6, MinOfTwo
  <2>2. Chance(c, m - 1) = P - SumFunctionOnSet(f, 0 .. m - 1)
    BY <1>3, <2>1
  <2>3. /\ SumFunctionOnSet(f, 0 .. m - 1) \in Int
        /\ SumFunctionOnSet(f, {k \in 0 .. D : k >= m}) \in Int
        /\ SumFunctionOnSet(f, 0 .. D)
             = SumFunctionOnSet(f, 0 .. m - 1) + SumFunctionOnSet(f, {k \in 0 .. D : k >= m})
    BY <1>1, <1>2, <1>6, SumSplit
  <2>4. Chance(c, m - 1) = AtLeast(c, m)
    BY <1>2, <1>4, <2>2, <2>3
  <2> QED
    BY <1>4, <2>1, <2>3, <2>4 DEF D
<1>7. CASE m > D + 1
  <2>1. Min({m - 1, D}) = D /\ D \in Int /\ D <= D
    BY <1>1, <1>7, MinOfTwo
  <2>2. Chance(c, D) = P - P
    BY <1>2, <1>3, <2>1
  <2>3. {k \in 0 .. D : k >= m} = {}
    BY <1>1, <1>7
  <2>4. AtLeast(c, m) = 0
    BY <1>4, <2>3, SumEmpty
  <2>5. P - P = 0
    BY <1>5
  <2> QED
    BY <2>1, <2>2, <2>4, <2>5 DEF D
<1> QED
  BY <1>1, <1>6, <1>7

Safe(c, s)  == Negligible(c, AtLeast(c, 2 * s * c.delta_r))
Usual(c, a) == Likely(c, AtLeast(c, a * c.delta_r))

LEMMA ConfirmationTest ==
    ASSUME NEW c \in Calls, c.fn = "confirmation_threshold", NEW s \in Nat
    PROVE  Negligible(c, Chance(c, Min({2 * c.delta_r * s - 1, Draws(c)}))) <=> Safe(c, s)
<1> DEFINE m == 2 * c.delta_r * s
<1>1. c.delta_r \in Nat
  BY CallTypes
<1>2. m \in Nat /\ m = 2 * s * c.delta_r
  BY <1>1
<1> HIDE DEF m
<1>3. Chance(c, Min({m - 1, Draws(c)})) = AtLeast(c, m)
  BY <1>2, ChanceOfAtLeast
<1> QED
  BY <1>2, <1>3 DEF Safe, m

LEMMA ForkTest ==
    ASSUME NEW c \in Calls, c.fn = "fork_threshold", NEW a \in Nat
    PROVE  Likely(c, Chance(c, Min({a * c.delta_r - 1, Draws(c)}))) <=> Usual(c, a)
<1> DEFINE m == a * c.delta_r
<1>1. m \in Nat
  BY CallTypes
<1> HIDE DEF m
<1>2. Chance(c, Min({m - 1, Draws(c)})) = AtLeast(c, m)
  BY <1>1, ChanceOfAtLeast
<1> QED
  BY <1>2 DEF Usual, m

\* Every outcome has at least no successes, so an average of zero is usual.
LEMMA ZeroIsUsual ==
    ASSUME NEW c \in Calls, c.fn = "fork_threshold"
    PROVE  Usual(c, 0)
<1> DEFINE w   == c.total_stake
           tau == c.tau
           D   == Draws(c)
           P   == Power(w, D)
<1>1. w \in Nat /\ tau \in Nat /\ tau <= w /\ D \in Nat /\ c.delta_r \in Nat
  BY CallTypes
<1> HIDE DEF w, tau, D
<1>2. {k \in 0 .. D : k >= 0} = 0 .. D /\ 0 * c.delta_r = 0
  BY <1>1
<1>3. AtLeast(c, 0) = P
  <2>1. AtLeast(c, 0) = SumFunctionOnSet(Outcomes(w, tau, D), {k \in 0 .. D : k >= 0})
    BY DEF AtLeast, w, tau, D
  <2>2. SumFunctionOnSet(Outcomes(w, tau, D), 0 .. D) = P
    BY <1>1, OutcomesTotal
  <2> QED
    BY <1>2, <2>1, <2>2
<1>4. P \in Nat
  BY <1>1, PowerEquations
<1>5. P - P <= P \div 20
  <2> HIDE DEF P
  <2> QED
    BY <1>4
<1>6. Power(c.total_stake, Draws(c)) = P
  BY DEF w, D
<1> HIDE DEF P
<1> QED
  BY <1>2, <1>3, <1>5, <1>6 DEF Usual, Likely

\* The hash is below all the outcomes, so i stops at the stake at the latest.
LEMMA TicketTest ==
    ASSUME NEW c \in Calls, c.fn = "run_sortition", NEW i \in 0 .. c.stake
    PROVE  /\ CumulativeBinomDist(c.total_stake, c.tau, c.stake, i) = AtMost(c, i)
           /\ AtMost(c, i) \in Int
           /\ i = c.stake => ~ QAbove(c, i)
           /\ \A j \in 0 .. i : QAbove(c, i) => QAbove(c, j)
<1> DEFINE w   == c.total_stake
           tau == c.tau
           n   == c.stake
           h   == c.hash
           f   == Outcomes(w, tau, n)
           P   == Power(w, n)
<1>1. w \in Nat /\ w > 0 /\ tau \in Nat /\ tau <= w /\ n \in Nat /\ h \in Nat /\ h < Grid
      /\ i \in Nat /\ i <= n
  BY CallTypes
<1>2. Grid \in Nat
  BY GridAssumption
<1> HIDE DEF w, tau, n, h
<1>3. \A k \in 0 .. n : f[k] \in Nat
  BY <1>1, OutcomesTotal
<1>4. SumFunctionOnSet(f, 0 .. n) = P
  BY <1>1, OutcomesTotal
<1>5. ASSUME NEW k \in 0 .. n
      PROVE  /\ AtMost(c, k) = SumFunctionOnSet(f, 0 .. k)
             /\ CumulativeBinomDist(w, tau, n, k) = AtMost(c, k)
             /\ QAbove(c, k) <=> h * P > AtMost(c, k) * Grid
  <2>1. AtMost(c, k) = SumFunctionOnSet(f, 0 .. k)
    BY DEF AtMost, w, tau, n
  <2>2. CumulativeBinomDist(w, tau, n, k) = AtMost(c, k)
    <3>1. k \in Int /\ k <= n
      BY <1>1
    <3> QED
      BY <1>1, <2>1, <3>1, CumulativeCounts
  <2> QED
    BY <2>1, <2>2 DEF QAbove, w, tau, n, h
<1>6. P \in Nat /\ P > 0
  BY <1>1, PowerEquations, PowerPositive
<1> HIDE DEF f, P
<1>7. ASSUME NEW k \in 0 .. n PROVE AtMost(c, k) \in Int
  <2> DEFINE S == 0 .. k
  <2>1. IsFiniteSet(S) /\ \A e \in S : f[e] \in Int
    BY <1>1, <1>3, <1>7, FS_Interval
  <2> HIDE DEF S
  <2>2. SumFunctionOnSet(f, S) \in Int
    BY <2>1, SumInt
  <2> QED
    BY <1>5, <2>2 DEF S
<1>8. i = n => ~ QAbove(c, i)
  <2>1. n \in 0 .. n
    BY <1>1
  <2>2. AtMost(c, n) = P
    BY <1>4, <1>5, <2>1
  <2>3. h * P <= P * Grid
    BY <1>1, <1>2, <1>6
  <2>4. ~ h * P > AtMost(c, n) * Grid
    BY <1>1, <1>2, <1>6, <2>2, <2>3
  <2> QED
    BY <1>5, <2>1, <2>4
<1>9. ASSUME NEW j \in 0 .. i, QAbove(c, i) PROVE QAbove(c, j)
  <2>1. i \in 0 .. n /\ j \in 0 .. n /\ j \in Int /\ i \in Int /\ -1 <= j /\ j <= i /\ i <= n
    BY <1>1
  <2>2. AtMost(c, j) <= AtMost(c, i)
    <3>1. SumFunctionOnSet(f, 0 .. j) <= SumFunctionOnSet(f, 0 .. i)
      BY <1>1, <1>3, <2>1, SumMonotone
    <3> QED
      BY <1>5, <2>1, <3>1
  <2>3. h * P > AtMost(c, i) * Grid
    BY <1>5, <1>9, <2>1
  <2> DEFINE x == AtMost(c, j)
             y == AtMost(c, i)
  <2>4. x \in Int /\ y \in Int /\ x <= y
    BY <1>7, <2>1, <2>2
  <2> HIDE DEF x, y
  <2>5. x * Grid <= y * Grid
    BY <1>2, <2>4
  <2>6. h * P > x * Grid
    BY <1>1, <1>2, <1>6, <2>3, <2>4, <2>5 DEF y
  <2> QED
    BY <1>5, <2>1, <2>6 DEF x
<1>10. i \in 0 .. n
  BY <1>1
<1> QED
  BY <1>5, <1>7, <1>8, <1>9, <1>10 DEF w, tau, n

-----------------------------------------------------------------------------
(* The loops *)

\* Each loop has tried every value it passed, and rejected it.
Searching ==
    /\ TypeOK
    /\ call.fn = "run_sortition" =>
          /\ guess <= call.stake
          /\ \A i \in 0 .. guess - 1 : QAbove(call, i)
          /\ done => ~ QAbove(call, guess)
    /\ call.fn = "confirmation_threshold" =>
          /\ guess > 0
          /\ \A s \in 1 .. guess - 1 : ~ Safe(call, s)
          /\ done => Safe(call, guess)
    /\ call.fn = "fork_threshold" =>
          /\ guess <= call.tau
          /\ \A a \in guess + 1 .. call.tau : ~ Usual(call, a)
          /\ done => Usual(call, guess)

LEMMA InitSearches == Init => Searching
<1> SUFFICES ASSUME Init PROVE Searching
  OBVIOUS
<1>1. call \in Calls /\ call.tau \in Nat
      /\ (call.fn = "run_sortition" => call.stake \in Nat)
  BY CallTypes DEF Init
<1>2. TypeOK
  BY <1>1 DEF Init, TypeOK
<1>3. CASE call.fn = "run_sortition"
  BY <1>1, <1>2, <1>3 DEF Init, Searching
<1>4. CASE call.fn = "confirmation_threshold"
  BY <1>1, <1>2, <1>4 DEF Init, Searching
<1>5. CASE call.fn = "fork_threshold"
  BY <1>1, <1>2, <1>5 DEF Init, Searching
<1> QED
  BY <1>1, <1>3, <1>4, <1>5, CallTypes

LEMMA RunSortitionSearches ==
    ASSUME Searching, RunSortition
    PROVE  Searching'
<1>1. call \in Calls /\ guess \in Nat /\ call.fn = "run_sortition" /\ call' = call /\ ~ done
  BY DEF Searching, TypeOK, RunSortition
<1>2. call.stake \in Nat /\ guess \in 0 .. call.stake
  BY <1>1, CallTypes DEF Searching
<1>3. CASE QAbove(call, guess)
  <2>1. guess' = guess + 1 /\ done' = done
    BY <1>3 DEF RunSortition
  <2>2. guess # call.stake
    BY <1>1, <1>2, <1>3, TicketTest
  <2>3. guess' <= call.stake /\ guess' \in Nat
    BY <1>1, <1>2, <2>1, <2>2
  <2>4. \A i \in 0 .. guess' - 1 : QAbove(call, i)
    BY <1>1, <1>3, <2>1 DEF Searching
  <2> QED
    BY <1>1, <2>1, <2>3, <2>4 DEF Searching, TypeOK
<1>4. CASE ~ QAbove(call, guess)
  <2>1. guess' = guess /\ done' = TRUE
    BY <1>4 DEF RunSortition
  <2> QED
    BY <1>1, <1>4, <2>1 DEF Searching, TypeOK
<1> QED
  BY <1>3, <1>4

LEMMA ConfirmationSearches ==
    ASSUME Searching, ConfirmationThreshold
    PROVE  Searching'
<1>1. call \in Calls /\ guess \in Nat /\ call.fn = "confirmation_threshold" /\ call' = call
      /\ ~ done /\ guess > 0
  BY DEF Searching, TypeOK, ConfirmationThreshold
<1> DEFINE k == Min({2 * call.delta_r * guess - 1, Draws(call)})
<1>2. Negligible(call, Chance(call, k)) <=> Safe(call, guess)
  BY <1>1, ConfirmationTest
<1>3. CASE Safe(call, guess)
  <2>1. guess' = guess /\ done' = TRUE
    BY <1>2, <1>3 DEF ConfirmationThreshold
  <2> QED
    BY <1>1, <1>3, <2>1 DEF Searching, TypeOK
<1>4. CASE ~ Safe(call, guess)
  <2>1. guess' = guess + 1 /\ done' = done
    BY <1>2, <1>4 DEF ConfirmationThreshold
  <2>2. \A s \in 1 .. guess' - 1 : ~ Safe(call, s)
    BY <1>1, <1>4, <2>1 DEF Searching
  <2> QED
    BY <1>1, <2>1, <2>2 DEF Searching, TypeOK
<1> QED
  BY <1>3, <1>4

LEMMA ForkSearches ==
    ASSUME Searching, ForkThreshold
    PROVE  Searching'
<1>1. call \in Calls /\ guess \in Nat /\ call.fn = "fork_threshold" /\ call' = call
      /\ ~ done /\ guess <= call.tau
  BY DEF Searching, TypeOK, ForkThreshold
<1>2. call.tau \in Nat
  BY <1>1, CallTypes
<1> DEFINE k == Min({guess * call.delta_r - 1, Draws(call)})
<1>3. Likely(call, Chance(call, k)) <=> Usual(call, guess)
  BY <1>1, ForkTest
<1>4. CASE Usual(call, guess)
  <2>1. guess' = guess /\ done' = TRUE
    BY <1>3, <1>4 DEF ForkThreshold
  <2> QED
    BY <1>1, <1>4, <2>1 DEF Searching, TypeOK
<1>5. CASE ~ Usual(call, guess)
  <2>1. guess' = guess - 1 /\ done' = done
    BY <1>3, <1>5 DEF ForkThreshold
  <2>2. guess # 0
    BY <1>1, <1>5, ZeroIsUsual
  <2>3. guess' \in Nat /\ guess' <= call.tau
    BY <1>1, <1>2, <2>1, <2>2
  <2>4. \A a \in guess' + 1 .. call.tau : ~ Usual(call, a)
    BY <1>1, <1>2, <1>5, <2>1 DEF Searching
  <2> QED
    BY <1>1, <2>1, <2>3, <2>4 DEF Searching, TypeOK
<1> QED
  BY <1>4, <1>5

LEMMA AlwaysSearching == Spec => []Searching
<1>1. Searching /\ [Next]_vars => Searching'
  <2> SUFFICES ASSUME Searching, [Next]_vars PROVE Searching'
    OBVIOUS
  <2>1. CASE RunSortition
    BY <2>1, RunSortitionSearches
  <2>2. CASE ConfirmationThreshold
    BY <2>2, ConfirmationSearches
  <2>3. CASE ForkThreshold
    BY <2>3, ForkSearches
  <2>4. CASE UNCHANGED vars
    BY <2>4 DEF Searching, TypeOK, vars
  <2> QED
    BY <2>1, <2>2, <2>3, <2>4 DEF Next
<1> QED
  BY <1>1, InitSearches, PTL DEF Spec

\* The value that a loop tries stays a natural number: fork_threshold, which
\* counts down, never passes zero (sortition.py:46, 57, 71).
THEOREM TypeCorrect == Spec => []TypeOK
<1>1. Searching => TypeOK
  BY DEF Searching
<1> QED
  BY <1>1, AlwaysSearching, PTL

\* confirmation_threshold returns the least average that both branches of a
\* fork reach with a negligible chance, counted draw by draw, for every stake,
\* tau and number of rounds (sortition.py:54-68).
THEOREM ConfirmationThresholdIsLeast == Spec => []ConfirmationIsLeast
<1>1. Searching => ConfirmationIsLeast
  BY DEF Searching, ConfirmationIsLeast, Returned, Safe
<1> QED
  BY <1>1, AlwaysSearching, PTL

\* fork_threshold returns the greatest average that an unforked chain usually
\* reaches, and one from 0 to tau, for every call (sortition.py:70-86).
THEOREM ForkThresholdIsGreatest == Spec => []ForkIsGreatest
<1>1. Searching => ForkIsGreatest
  <2> SUFFICES ASSUME Searching, Returned("fork_threshold")
               PROVE  /\ guess \in 0 .. call.tau
                      /\ Usual(call, guess)
                      /\ \A a \in guess + 1 .. call.tau : ~ Usual(call, a)
    BY DEF ForkIsGreatest, Usual
  <2>1. call.tau \in Nat /\ guess \in Nat
    BY CallTypes DEF Searching, TypeOK
  <2> QED
    BY <2>1 DEF Searching, Returned
<1> QED
  BY <1>1, AlwaysSearching, PTL

\* run_sortition returns the number of tickets whose binomial chance the hash
\* of the node beats, at most its stake, for every hash (sortition.py:37-52).
THEOREM TicketsAreTheQuantile == Spec => []TicketsAreQuantile
<1>1. Searching => TicketsAreQuantile
  <2> SUFFICES ASSUME Searching, Returned("run_sortition") PROVE TicketsAreQuantile
    BY DEF TicketsAreQuantile
  <2>1. call \in Calls /\ call.fn = "run_sortition" /\ guess \in Nat /\ call.stake \in Nat
        /\ guess <= call.stake
    BY CallTypes DEF Searching, Returned, TypeOK
  <2> DEFINE above(i) == call.hash * Power(call.total_stake, call.stake) > AtMost(call, i) * Grid
             beaten   == {i \in 0 .. call.stake : above(i)}
  <2>2. ASSUME NEW i \in 0 .. call.stake PROVE above(i) <=> i < guess
    <3>1. above(i) <=> QAbove(call, i)
      BY <2>1, TicketTest DEF QAbove
    <3>2. CASE i < guess
      <4>1. QAbove(call, i)
        BY <2>1, <3>2 DEF Searching
      <4> QED
        BY <3>1, <3>2, <4>1
    <3>3. CASE ~ i < guess
      <4>1. guess \in 0 .. i /\ ~ QAbove(call, guess)
        BY <2>1, <3>3 DEF Searching, Returned
      <4>2. ~ QAbove(call, i)
        BY <2>1, <4>1, TicketTest
      <4> QED
        BY <3>1, <3>3, <4>2
    <3> QED
      BY <3>2, <3>3
  <2> HIDE DEF above
  <2>3. beaten = 0 .. guess - 1
    <3>1. \A i : i \in beaten <=> i \in 0 .. guess - 1
      BY <2>1, <2>2
    <3> HIDE DEF beaten
    <3> QED
      BY <3>1
  <2>4. Cardinality(0 .. guess - 1) = guess
    BY <2>1, FS_Interval
  <2>5. Cardinality(beaten) = guess
    BY <2>3, <2>4
  <2> QED
    BY <2>1, <2>5 DEF TicketsAreQuantile, above
<1> QED
  BY <1>1, AlwaysSearching, PTL

\* More than all the draws are never won.
LEMMA HalfIsSafe ==
    ASSUME NEW c \in Calls, c.fn = "confirmation_threshold",
           NEW s \in Nat, s > c.total_stake \div 2
    PROVE  Safe(c, s)
<1> DEFINE w == c.total_stake
           d == c.delta_r
           D == Draws(c)
           m == 2 * s * d
           P == Power(w, D)
<1>1. w \in Nat /\ d \in Nat /\ d > 0 /\ D \in Nat /\ D = w * d
  BY CallTypes DEF Draws
<1>2. 2 * s > w
  BY <1>1
<1> HIDE DEF w, d, D
<1>3. m \in Nat /\ m > D
  <2> DEFINE t == 2 * s
  <2>1. t \in Nat /\ t > w
    BY <1>2
  <2> HIDE DEF t
  <2>2. t * d > w * d
    BY <1>1, <2>1
  <2>3. t * d \in Nat
    BY <1>1, <2>1
  <2> QED
    BY <1>1, <2>2, <2>3 DEF t
<1> HIDE DEF m
<1>4. {k \in 0 .. D : k >= m} = {}
  BY <1>1, <1>3
<1>5. AtLeast(c, m) = 0
  BY <1>4, SumEmpty DEF AtLeast, D
<1>6. P \in Nat
  BY <1>1, PowerEquations
<1> HIDE DEF P
<1>7. 0 <= P \div 1000000
  BY <1>6
<1> QED
  BY <1>5, <1>7 DEF Safe, Negligible, m, d, w, D, P

\* No loop makes more passes than PassesLeft says when it starts, whatever the
\* stakes, tau, the rounds and the hash are (sortition.py:47, 59, 73).
THEOREM LoopsAreBounded == Spec => EveryPassIsCloser
<1>1. Searching /\ Searching' /\ [Next]_vars
        => [PassesLeft' \in Nat /\ PassesLeft' < PassesLeft]_vars
  <2> SUFFICES ASSUME Searching, Searching', Next
               PROVE  PassesLeft' \in Nat /\ PassesLeft' < PassesLeft
    OBVIOUS
  <2>1. call \in Calls /\ guess \in Nat /\ guess' \in Nat
    BY DEF Searching, TypeOK
  <2>2. CASE RunSortition
    <3>1. call.fn = "run_sortition" /\ ~ done /\ call' = call
          /\ (done' \/ (~ done' /\ guess' = guess + 1))
      BY <2>2 DEF RunSortition
    <3>2. call.stake \in Nat /\ guess <= call.stake /\ guess' <= call.stake
      BY <2>1, <3>1, CallTypes DEF Searching
    <3>3. PassesLeft = 1 + call.stake - guess
      BY <3>1 DEF PassesLeft
    <3>4. PassesLeft' = IF done' THEN 0 ELSE 1 + call.stake - guess'
      BY <3>1 DEF PassesLeft
    <3> QED
      BY <2>1, <3>1, <3>2, <3>3, <3>4
  <2>3. CASE ConfirmationThreshold
    <3>1. call.fn = "confirmation_threshold" /\ ~ done /\ call' = call
          /\ (done' \/ (~ done' /\ guess' = guess + 1))
      BY <2>3 DEF ConfirmationThreshold
    <3> DEFINE h == call.total_stake \div 2
    <3>2. h \in Nat
      BY <2>1, CallTypes
    <3>3. guess <= 1 + h
      <4>1. SUFFICES ASSUME guess > 1 + h PROVE FALSE
        BY <2>1, <3>2
      <4>2. 1 + h \in Nat /\ 1 + h > h /\ 1 + h \in 1 .. guess - 1
        BY <2>1, <3>2, <4>1
      <4>3. Safe(call, 1 + h)
        BY <2>1, <3>1, <4>2, HalfIsSafe
      <4> QED
        BY <3>1, <4>2, <4>3 DEF Searching
    <3>4. ~ done' => guess' <= 1 + h
      <4>1. SUFFICES ASSUME guess' > 1 + h PROVE FALSE
        BY <2>1, <3>2
      <4>2. 1 + h \in Nat /\ 1 + h > h /\ 1 + h \in 1 .. guess' - 1
        BY <2>1, <3>2, <4>1
      <4>3. Safe(call, 1 + h)
        BY <2>1, <3>1, <4>2, HalfIsSafe
      <4> QED
        BY <3>1, <4>2, <4>3 DEF Searching
    <3>5. PassesLeft = 2 + h - guess
      BY <3>1 DEF PassesLeft
    <3>6. PassesLeft' = IF done' THEN 0 ELSE 2 + h - guess'
      BY <3>1 DEF PassesLeft
    <3> HIDE DEF h
    <3>7. PassesLeft \in Nat /\ PassesLeft > 0
      BY <2>1, <3>2, <3>3, <3>5
    <3>8. CASE done'
      BY <3>6, <3>7, <3>8
    <3>9. CASE ~ done'
      <4>1. PassesLeft' = 2 + h - guess' /\ guess' = guess + 1 /\ guess' <= 1 + h
        BY <3>1, <3>4, <3>6, <3>9
      <4> QED
        BY <2>1, <3>2, <3>5, <3>7, <4>1
    <3> QED
      BY <3>8, <3>9
  <2>4. CASE ForkThreshold
    <3>1. call.fn = "fork_threshold" /\ ~ done /\ call' = call
          /\ (done' \/ (~ done' /\ guess' = guess - 1))
      BY <2>4 DEF ForkThreshold
    <3>2. PassesLeft = 1 + guess
      BY <3>1 DEF PassesLeft
    <3>3. PassesLeft' = IF done' THEN 0 ELSE 1 + guess'
      BY <3>1 DEF PassesLeft
    <3>4. CASE done'
      BY <2>1, <3>2, <3>3, <3>4
    <3>5. CASE ~ done'
      <4>1. PassesLeft' = 1 + guess' /\ guess' = guess - 1
        BY <3>1, <3>3, <3>5
      <4> QED
        BY <2>1, <3>2, <4>1
    <3> QED
      BY <3>4, <3>5
  <2> QED
    BY <2>2, <2>3, <2>4 DEF Next
<1> QED
  BY <1>1, AlwaysSearching, PTL DEF Spec, EveryPassIsCloser
=============================================================================
