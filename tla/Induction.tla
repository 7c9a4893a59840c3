------------------------------ MODULE Induction ------------------------------
(***************************************************************************)
(* What the proofs need of the data they reason about: a set of natural    *)
(* numbers, or of finite sets, has a least element, so a property that     *)
(* fails somewhere fails first somewhere; a function can be defined by     *)
(* recursion; and the sum of a function over a finite set does not depend  *)
(* on the order in which the fold of the community modules takes it.       *)
(***************************************************************************)
EXTENDS Integers, Functions, FiniteSetTheorems, TLAPS

LEMMA LeastSet ==
    ASSUME NEW S, IsFiniteSet(S), NEW B \in SUBSET (SUBSET S), B # {}
    PROVE  \E s \in B : \A t \in B : t \subseteq s => t = s
<1>1. B \subseteq FiniteSubsetsOf(S)
  BY FS_Subset DEF FiniteSubsetsOf
<1>2. PICK s \in B : \A t \in B : <<t, s>> \notin StrictSubsetOrdering(S)
  BY <1>1, FS_StrictSubsetOrderingWellFounded, WFMin
<1>3. ASSUME NEW t \in B, t \subseteq s, t # s PROVE FALSE
  BY <1>2, <1>3 DEF StrictSubsetOrdering
<1> QED
  BY <1>2, <1>3

LEMMA LeastNat ==
    ASSUME NEW S \in SUBSET Nat, S # {}
    PROVE  \E n \in S : \A m \in S : n <= m
<1> DEFINE T == {0 .. (n - 1) : n \in S}
<1>1. T \subseteq FiniteSubsetsOf(Nat)
  <2>1. ASSUME NEW n \in S
        PROVE  0 .. (n - 1) \subseteq Nat /\ IsFiniteSet(0 .. (n - 1))
    BY FS_Interval
  <2>2. ASSUME NEW n \in S
        PROVE  0 .. (n - 1) \in FiniteSubsetsOf(Nat)
    BY <2>1 DEF FiniteSubsetsOf
  <2> QED
    BY <2>2
<1>2. T # {}
  OBVIOUS
<1>3. PICK x \in T : \A y \in T : <<y, x>> \notin StrictSubsetOrdering(Nat)
  BY <1>1, <1>2, FS_StrictSubsetOrderingWellFounded, WFMin
<1>4. PICK n \in S : x = 0 .. (n - 1)
  OBVIOUS
<1>5. ASSUME NEW m \in S, m < n PROVE FALSE
  <2>1. n - 1 \in 0 .. (n - 1) /\ n - 1 \notin 0 .. (m - 1)
    BY <1>5
  <2>2. 0 .. (m - 1) \subseteq 0 .. (n - 1) /\ 0 .. (m - 1) # 0 .. (n - 1)
    BY <1>5, <2>1
  <2>3. <<0 .. (m - 1), x>> \in StrictSubsetOrdering(Nat)
    BY <1>4, <2>2 DEF StrictSubsetOrdering
  <2> QED
    BY <1>3, <2>3
<1> QED
  BY <1>4, <1>5

-----------------------------------------------------------------------------
(* Functions defined by recursion *)

Recurs(f, base, step, n) ==
    f = [i \in 0 .. n |-> IF i = 0 THEN base ELSE step[<<i, f[i - 1]>>]]

LEMMA Recursion ==
    ASSUME NEW Val, NEW base \in Val, NEW step \in [Nat \X Val -> Val], NEW n \in Nat
    PROVE  \E f \in [0 .. n -> Val] : Recurs(f, base, step, n)
<1> DEFINE Bad == {i \in Nat : ~ \E f \in [0 .. i -> Val] : Recurs(f, base, step, i)}
<1>1. SUFFICES ASSUME Bad # {} PROVE FALSE
  OBVIOUS
<1>2. PICK i \in Bad : \A j \in Bad : i <= j
  <2>1. Bad \in SUBSET Nat
    OBVIOUS
  <2> HIDE DEF Bad
  <2> QED
    BY <1>1, <2>1, LeastNat
<1>3. CASE i = 0
  <2> DEFINE f == [j \in 0 .. 0 |-> base]
  <2>1. f \in [0 .. 0 -> Val] /\ Recurs(f, base, step, 0)
    BY DEF Recurs
  <2> QED
    BY <1>3, <2>1
<1>4. CASE i # 0
  <2>1. i - 1 \in Nat /\ i - 1 \notin Bad /\ i \in Nat
    BY <1>2, <1>4
  <2>2. PICK f \in [0 .. i - 1 -> Val] : Recurs(f, base, step, i - 1)
    BY <2>1
  <2> DEFINE last == step[<<i, f[i - 1]>>]
             h    == [j \in 0 .. i |-> IF j = i THEN last ELSE f[j]]
  <2>3. last \in Val
    BY <2>1
  <2>4. h \in [0 .. i -> Val]
    BY <2>3
  <2>5. ASSUME NEW j \in 0 .. i
        PROVE  h[j] = IF j = 0 THEN base ELSE step[<<j, h[j - 1]>>]
    <3>1. CASE j = i
      <4>1. h[j] = last /\ j # 0 /\ h[j - 1] = f[i - 1]
        BY <1>4, <2>1, <3>1
      <4> QED
        BY <3>1, <4>1
    <3>2. CASE j # i
      <4>1. j \in 0 .. i - 1
        BY <2>1, <3>2
      <4>2. h[j] = f[j] /\ (j # 0 => h[j - 1] = f[j - 1])
        BY <2>1, <3>2, <4>1
      <4>3. f[j] = IF j = 0 THEN base ELSE step[<<j, f[j - 1]>>]
        BY <2>2, <4>1 DEF Recurs
      <4> QED
        BY <4>2, <4>3
    <3> QED
      BY <3>1, <3>2
  <2> HIDE DEF h
  <2>6. Recurs(h, base, step, i)
    BY <2>4, <2>5 DEF Recurs
  <2> QED
    BY <2>4, <2>6
<1> QED
  BY <1>3, <1>4

LEMMA RecursionsAgree ==
    ASSUME NEW base, NEW step, NEW n \in Nat, NEW m \in Nat, n <= m, NEW f, NEW g,
           Recurs(f, base, step, n), Recurs(g, base, step, m), NEW a \in 0 .. n
    PROVE  f[a] = g[a]
<1> DEFINE Bad == {i \in 0 .. n : f[i] # g[i]}
<1>1. SUFFICES ASSUME Bad # {} PROVE FALSE
  OBVIOUS
<1>2. PICK i \in Bad : \A j \in Bad : i <= j
  <2>1. Bad \in SUBSET Nat
    OBVIOUS
  <2> HIDE DEF Bad
  <2> QED
    BY <1>1, <2>1, LeastNat
<1>3. i \in 0 .. n /\ i \in 0 .. m /\ f[i] # g[i]
  OBVIOUS
<1>4. f[i] = IF i = 0 THEN base ELSE step[<<i, f[i - 1]>>]
  BY <1>3 DEF Recurs
<1>5. g[i] = IF i = 0 THEN base ELSE step[<<i, g[i - 1]>>]
  BY <1>3 DEF Recurs
<1>6. i # 0 => i - 1 \in 0 .. n /\ i - 1 \notin Bad
  BY <1>2, <1>3
<1>7. i # 0 => f[i - 1] = g[i - 1]
  BY <1>6
<1> QED
  BY <1>3, <1>4, <1>5, <1>7

\* A function over all natural numbers, as the LET of an algorithm defines it.
NatRecurs(f, base, step) ==
    f = [i \in Nat |-> IF i = 0 THEN base ELSE step[<<i, f[i - 1]>>]]

LEMMA NatRecursion ==
    ASSUME NEW Val, NEW base \in Val, NEW step \in [Nat \X Val -> Val]
    PROVE  \E f \in [Nat -> Val] : NatRecurs(f, base, step)
<1> DEFINE G(n) == CHOOSE f \in [0 .. n -> Val] : Recurs(f, base, step, n)
           h    == [n \in Nat |-> G(n)[n]]
<1>1. ASSUME NEW n \in Nat
      PROVE  G(n) \in [0 .. n -> Val] /\ Recurs(G(n), base, step, n)
  BY Recursion
<1> HIDE DEF G
<1>2. ASSUME NEW n \in Nat
      PROVE  h[n] \in Val /\ h[n] = IF n = 0 THEN base ELSE step[<<n, h[n - 1]>>]
  <2>1. G(n) \in [0 .. n -> Val] /\ Recurs(G(n), base, step, n)
    BY <1>1
  <2>2. G(n)[n] = IF n = 0 THEN base ELSE step[<<n, G(n)[n - 1]>>]
    BY <2>1 DEF Recurs
  <2>3. CASE n # 0
    <3>1. n - 1 \in Nat /\ n - 1 <= n /\ n - 1 \in 0 .. n - 1
      BY <2>3
    <3>2. Recurs(G(n - 1), base, step, n - 1)
      BY <3>1, <1>1
    <3>3. G(n - 1)[n - 1] = G(n)[n - 1]
      <4> DEFINE m == n - 1
                 f == G(m)
                 g == G(n)
      <4>1. m \in Nat /\ m <= n /\ Recurs(f, base, step, m) /\ m \in 0 .. m
        BY <3>1, <3>2
      <4>2. Recurs(g, base, step, n)
        BY <2>1
      <4> HIDE DEF m, f, g
      <4>3. f[m] = g[m]
        BY <4>1, <4>2, RecursionsAgree
      <4> QED
        BY <4>3 DEF m, f, g
    <3> QED
      BY <2>1, <2>2, <2>3, <3>1, <3>3
  <2> QED
    BY <2>1, <2>2, <2>3
<1>3. h = [n \in Nat |-> h[n]]
  OBVIOUS
<1> HIDE DEF h
<1>4. NatRecurs(h, base, step)
  BY <1>2, <1>3 DEF NatRecurs
<1>5. h \in [Nat -> Val]
  BY <1>2, <1>3
<1> QED
  BY <1>4, <1>5

-----------------------------------------------------------------------------
(* The sum of a function over a finite set *)

Some(s) == CHOOSE x \in s : TRUE

\* g holds the sums of f over the subsets of S, as the fold computes them.
Folds(g, f, S) ==
    g = [s \in SUBSET S |-> IF s = {} THEN 0 ELSE f[Some(s)] + g[s \ {Some(s)}]]

LEMMA FoldsEmpty ==
    ASSUME NEW S, NEW f, NEW g, Folds(g, f, S)
    PROVE  g[{}] = 0
  BY DEF Folds

LEMMA FoldsAt ==
    ASSUME NEW S, NEW f, NEW g, Folds(g, f, S), NEW s \in SUBSET S, s # {}
    PROVE  /\ g[s] = f[Some(s)] + g[s \ {Some(s)}]
           /\ Some(s) \in s
           /\ s \ {Some(s)} \in SUBSET S
           /\ s \ {Some(s)} \subseteq s
           /\ s \ {Some(s)} # s
<1>1. g[s] = IF s = {} THEN 0 ELSE f[Some(s)] + g[s \ {Some(s)}]
  BY DEF Folds
<1>2. Some(s) \in s
  BY DEF Some
<1> QED
  BY <1>1, <1>2

LEMMA FoldsAgree ==
    ASSUME NEW S, IsFiniteSet(S), NEW R, NEW f, NEW f1, NEW g, NEW g1,
           Folds(g, f, S), Folds(g1, f1, R), S \subseteq R,
           \A x \in S : f[x] = f1[x]
    PROVE  \A s \in SUBSET S : g[s] = g1[s]
<1> DEFINE B == {s \in SUBSET S : g[s] # g1[s]}
<1>1. SUFFICES ASSUME B # {} PROVE FALSE
  OBVIOUS
<1>2. PICK s \in B : \A t \in B : t \subseteq s => t = s
  <2>1. B \in SUBSET (SUBSET S)
    OBVIOUS
  <2> HIDE DEF B
  <2> QED
    BY <1>1, <2>1, LeastSet
<1>3. s \in SUBSET S /\ s \in SUBSET R /\ g[s] # g1[s]
  OBVIOUS
<1>4. s # {}
  <2>1. g[{}] = 0
    BY FoldsEmpty
  <2>2. g1[{}] = 0
    BY FoldsEmpty
  <2> QED
    BY <1>3, <2>1, <2>2
<1> DEFINE rest == s \ {Some(s)}
<1>5. g[s] = f[Some(s)] + g[rest] /\ Some(s) \in s /\ rest \in SUBSET S
      /\ rest \subseteq s /\ rest # s
  BY <1>3, <1>4, FoldsAt
<1>6. g1[s] = f1[Some(s)] + g1[rest]
  <2>1. s \in SUBSET R
    BY <1>3
  <2> QED
    BY <1>4, <2>1 DEF Folds
<1> HIDE DEF rest
<1>7. g[rest] = g1[rest]
  BY <1>2, <1>5
<1>8. f[Some(s)] = f1[Some(s)]
  BY <1>3, <1>5
<1> QED
  BY <1>3, <1>5, <1>6, <1>7, <1>8

LEMMA FoldsExist ==
    ASSUME NEW S, IsFiniteSet(S), NEW f
    PROVE  \E g : Folds(g, f, S)
<1> DEFINE B == {s \in SUBSET S : ~ \E g : Folds(g, f, s)}
<1>1. SUFFICES ASSUME B # {} PROVE FALSE
  OBVIOUS
<1>2. PICK s \in B : \A t \in B : t \subseteq s => t = s
  <2>1. B \in SUBSET (SUBSET S)
    OBVIOUS
  <2> HIDE DEF B
  <2> QED
    BY <1>1, <2>1, LeastSet
<1> DEFINE G(t)  == CHOOSE g : Folds(g, f, t)
           At(t) == G(t)[t]
           h     == [t \in SUBSET s |->
                       IF t = {} THEN 0 ELSE f[Some(t)] + At(t \ {Some(t)})]
<1>3. ASSUME NEW t \in SUBSET s, t # s PROVE Folds(G(t), f, t) /\ IsFiniteSet(t)
  <2>1. t \in SUBSET S /\ t \notin B
    BY <1>2, <1>3
  <2>2. IsFiniteSet(t)
    BY <2>1, FS_Subset
  <2> QED
    BY <2>1, <2>2
<1> HIDE DEF G
<1>4. ASSUME NEW t \in SUBSET s, t # s PROVE h[t] = At(t)
  <2>1. Folds(G(t), f, t) /\ IsFiniteSet(t) /\ t \in SUBSET t
    BY <1>3, <1>4
  <2>2. CASE t = {}
    <3>1. G(t)[{}] = 0
      BY <2>1, FoldsEmpty
    <3>2. h[t] = 0
      BY <2>2
    <3> QED
      BY <2>2, <3>1, <3>2
  <2>3. CASE t # {}
    <3> DEFINE u == t \ {Some(t)}
    <3>1. G(t)[t] = f[Some(t)] + G(t)[u] /\ u \in SUBSET t /\ u # t
      BY <2>1, <2>3, FoldsAt
    <3>2. u \in SUBSET s /\ u # s
      BY <3>1
    <3>3. h[t] = f[Some(t)] + At(u)
      BY <2>3
    <3> HIDE DEF u, h
    <3>4. Folds(G(u), f, u) /\ IsFiniteSet(u) /\ u \in SUBSET u
      BY <3>2, <1>3
    <3>5. G(u)[u] = G(t)[u]
      BY <3>1, <3>4, <2>1, FoldsAgree
    <3> QED
      BY <3>1, <3>3, <3>5
  <2> QED
    BY <2>2, <2>3
<1>5. ASSUME NEW t \in SUBSET s
      PROVE  h[t] = IF t = {} THEN 0 ELSE f[Some(t)] + h[t \ {Some(t)}]
  <2>1. CASE t = {}
    BY <2>1
  <2>2. CASE t # {}
    <3> DEFINE u == t \ {Some(t)}
    <3>1. Some(t) \in t
      BY <2>2 DEF Some
    <3>2. u \in SUBSET s /\ u # s
      BY <3>1
    <3>3. h[t] = f[Some(t)] + At(u)
      BY <2>2
    <3>4. h[u] = At(u)
      <4> HIDE DEF u, h
      <4> QED
        BY <3>2, <1>4
    <3> HIDE DEF h, At
    <3> QED
      BY <2>2, <3>3, <3>4
  <2> QED
    BY <2>1, <2>2
<1>6. h = [t \in SUBSET s |-> h[t]]
  OBVIOUS
<1> HIDE DEF h
<1>7. Folds(h, f, s)
  BY <1>5, <1>6 DEF Folds
<1> QED
  BY <1>7, <1>2

LEMMA SumIsFold ==
    ASSUME NEW S, IsFiniteSet(S), NEW f
    PROVE  \E g : Folds(g, f, S) /\ SumFunctionOnSet(f, S) = g[S]
<1> DEFINE iter == CHOOSE g : Folds(g, f, S)
<1>1. Folds(iter, f, S)
  BY FoldsExist
<1>2. SumFunctionOnSet(f, S) = iter[S]
  BY DEF SumFunctionOnSet, FoldFunctionOnSet, MapThenFoldSet, Folds, Some
<1> QED
  BY <1>1, <1>2

LEMMA SumEmpty ==
    ASSUME NEW f
    PROVE  SumFunctionOnSet(f, {}) = 0
<1>1. IsFiniteSet({}) /\ {} \in SUBSET {}
  BY FS_EmptySet
<1>2. PICK g : Folds(g, f, {}) /\ SumFunctionOnSet(f, {}) = g[{}]
  BY <1>1, SumIsFold
<1>3. g[{}] = 0
  BY <1>2, FoldsEmpty
<1> QED
  BY <1>2, <1>3

LEMMA SumAgrees ==
    ASSUME NEW S, IsFiniteSet(S), NEW f, NEW f1, \A x \in S : f[x] = f1[x]
    PROVE  SumFunctionOnSet(f, S) = SumFunctionOnSet(f1, S)
<1>1. PICK g : Folds(g, f, S) /\ SumFunctionOnSet(f, S) = g[S]
  BY SumIsFold
<1>2. PICK g1 : Folds(g1, f1, S) /\ SumFunctionOnSet(f1, S) = g1[S]
  BY SumIsFold
<1>3. S \in SUBSET S /\ S \subseteq S
  OBVIOUS
<1>4. g[S] = g1[S]
  BY <1>1, <1>2, <1>3, FoldsAgree
<1> QED
  BY <1>1, <1>2, <1>4

LEMMA FoldsInt ==
    ASSUME NEW S, IsFiniteSet(S), NEW f, NEW g, Folds(g, f, S), \A x \in S : f[x] \in Int
    PROVE  \A s \in SUBSET S : g[s] \in Int
<1> DEFINE B == {s \in SUBSET S : g[s] \notin Int}
<1>1. SUFFICES ASSUME B # {} PROVE FALSE
  OBVIOUS
<1>2. PICK s \in B : \A t \in B : t \subseteq s => t = s
  <2>1. B \in SUBSET (SUBSET S)
    OBVIOUS
  <2> HIDE DEF B
  <2> QED
    BY <1>1, <2>1, LeastSet
<1>3. s \in SUBSET S /\ g[s] \notin Int
  OBVIOUS
<1>4. s # {}
  <2>1. g[{}] = 0
    BY FoldsEmpty
  <2> QED
    BY <1>3, <2>1
<1> DEFINE rest == s \ {Some(s)}
<1>5. g[s] = f[Some(s)] + g[rest] /\ Some(s) \in s /\ rest \in SUBSET S
      /\ rest \subseteq s /\ rest # s
  BY <1>3, <1>4, FoldsAt
<1> HIDE DEF rest
<1>6. g[rest] \in Int
  BY <1>2, <1>5
<1> QED
  BY <1>3, <1>5, <1>6

LEMMA FoldsRemove ==
    ASSUME NEW S, IsFiniteSet(S), NEW f, NEW g, Folds(g, f, S), \A x \in S : f[x] \in Int,
           NEW a \in SUBSET S, NEW b \in a
    PROVE  g[a] = f[b] + g[a \ {b}]
<1> DEFINE B == {s \in SUBSET S : \E x \in s : g[s] # f[x] + g[s \ {x}]}
<1>1. SUFFICES ASSUME B # {} PROVE FALSE
  OBVIOUS
<1>2. PICK s \in B : \A t \in B : t \subseteq s => t = s
  <2>1. B \in SUBSET (SUBSET S)
    OBVIOUS
  <2> HIDE DEF B
  <2> QED
    BY <1>1, <2>1, LeastSet
<1>3. s \in SUBSET S
  OBVIOUS
<1>4. PICK x \in s : g[s] # f[x] + g[s \ {x}]
  OBVIOUS
<1> HIDE DEF B
<1> DEFINE c    == Some(s)
           none == s \ {c}
           rest == s \ {x}
           both == none \ {x}
<1>5. g[s] = f[c] + g[none] /\ c \in s /\ none \in SUBSET S
      /\ none \subseteq s /\ none # s
  <2>1. s # {}
    BY <1>4
  <2> QED
    BY <1>3, <2>1, FoldsAt
<1> HIDE DEF c
<1>6. x # c
  BY <1>4, <1>5
<1>7. x \in none /\ c \in rest /\ rest \in SUBSET S /\ rest # s /\ rest \ {c} = both
      /\ both \in SUBSET S
  BY <1>3, <1>4, <1>5, <1>6
<1>8. g[none] = f[x] + g[both]
  <2>1. none \notin B
    BY <1>2, <1>5
  <2> QED
    BY <1>5, <1>7, <2>1 DEF B
<1>9. g[rest] = f[c] + g[both]
  <2>1. rest \notin B
    BY <1>2, <1>7
  <2> QED
    BY <1>7, <2>1 DEF B
<1>10. g[both] \in Int /\ f[c] \in Int /\ f[x] \in Int
  BY <1>3, <1>4, <1>5, <1>7, FoldsInt
<1> HIDE DEF none, rest, both
<1> QED
  BY <1>4, <1>5, <1>8, <1>9, <1>10 DEF rest

LEMMA SumInt ==
    ASSUME NEW S, IsFiniteSet(S), NEW f, \A x \in S : f[x] \in Int
    PROVE  SumFunctionOnSet(f, S) \in Int
<1>1. PICK g : Folds(g, f, S) /\ SumFunctionOnSet(f, S) = g[S]
  BY SumIsFold
<1>2. \A s \in SUBSET S : g[s] \in Int
  BY <1>1, FoldsInt
<1> QED
  BY <1>1, <1>2

\* Any element may be taken out of the sum first.
LEMMA SumRemove ==
    ASSUME NEW S, IsFiniteSet(S), NEW f, \A x \in S : f[x] \in Int, NEW x \in S
    PROVE  SumFunctionOnSet(f, S) = f[x] + SumFunctionOnSet(f, S \ {x})
<1> DEFINE R == S \ {x}
<1>1. IsFiniteSet(R) /\ R \subseteq S /\ R \in SUBSET R /\ S \in SUBSET S
  BY FS_Subset
<1>2. PICK g : Folds(g, f, S) /\ SumFunctionOnSet(f, S) = g[S]
  BY SumIsFold
<1> HIDE DEF R
<1>3. PICK g1 : Folds(g1, f, R) /\ SumFunctionOnSet(f, R) = g1[R]
  BY <1>1, SumIsFold
<1>4. g1[R] = g[R]
  BY <1>1, <1>2, <1>3, FoldsAgree
<1>5. g[S] = f[x] + g[R]
  BY <1>1, <1>2, FoldsRemove DEF R
<1> QED
  BY <1>2, <1>3, <1>4, <1>5 DEF R

\* Every element of S counts, so a sum over a larger set of naturals is larger.
LEMMA SumNat ==
    ASSUME NEW S, IsFiniteSet(S), NEW f, \A x \in S : f[x] \in Nat
    PROVE  SumFunctionOnSet(f, S) \in Nat
<1> DEFINE B == {s \in SUBSET S : SumFunctionOnSet(f, s) \notin Nat}
<1>1. SUFFICES ASSUME B # {} PROVE FALSE
  BY DEF B
<1>2. PICK s \in B : \A t \in B : t \subseteq s => t = s
  <2>1. B \in SUBSET (SUBSET S)
    OBVIOUS
  <2> HIDE DEF B
  <2> QED
    BY <1>1, <2>1, LeastSet
<1>3. s \in SUBSET S /\ SumFunctionOnSet(f, s) \notin Nat /\ IsFiniteSet(s)
  BY FS_Subset
<1>4. PICK x \in s : TRUE
  BY <1>3, SumEmpty
<1>5. SumFunctionOnSet(f, s) = f[x] + SumFunctionOnSet(f, s \ {x})
  <2>1. \A y \in s : f[y] \in Int
    BY <1>3
  <2> QED
    BY <1>3, <2>1, SumRemove
<1>6. SumFunctionOnSet(f, s \ {x}) \in Nat
  BY <1>2, <1>3
<1> QED
  BY <1>3, <1>5, <1>6

-----------------------------------------------------------------------------
(* Sums over an interval *)

LEMMA SumUpTo ==
    ASSUME NEW n \in Nat, NEW f, \A k \in 0 .. n : f[k] \in Int
    PROVE  /\ SumFunctionOnSet(f, 0 .. n - 1) \in Int
           /\ SumFunctionOnSet(f, 0 .. n) = SumFunctionOnSet(f, 0 .. n - 1) + f[n]
<1> DEFINE S == 0 .. n
           R == 0 .. n - 1
<1>1. IsFiniteSet(S) /\ IsFiniteSet(R) /\ n \in S /\ S \ {n} = R
  <2>1. IsFiniteSet(S) /\ IsFiniteSet(R)
    BY FS_Interval
  <2>2. \A k : k \in S \ {n} <=> k \in R
    OBVIOUS
  <2> QED
    BY <2>1, <2>2
<1>2. \A k \in R : f[k] \in Int
  OBVIOUS
<1>3. \A k \in S : f[k] \in Int
  OBVIOUS
<1> HIDE DEF S, R
<1>4. SumFunctionOnSet(f, R) \in Int
  BY <1>1, <1>2, SumInt
<1>5. SumFunctionOnSet(f, S) = f[n] + SumFunctionOnSet(f, S \ {n})
  BY <1>1, <1>3, SumRemove
<1>6. f[n] \in Int
  BY <1>1, <1>3
<1>7. SumFunctionOnSet(f, S) = SumFunctionOnSet(f, R) + f[n]
  BY <1>1, <1>4, <1>5, <1>6
<1> QED
  BY <1>4, <1>7 DEF S, R

LEMMA SumFrom ==
    ASSUME NEW n \in Nat, NEW f, \A k \in 0 .. n : f[k] \in Int, NEW m \in 0 .. n
    PROVE  SumFunctionOnSet(f, {k \in 0 .. n : k >= m})
             = f[m] + SumFunctionOnSet(f, {k \in 0 .. n : k >= m + 1})
<1> DEFINE S == {k \in 0 .. n : k >= m}
           R == {k \in 0 .. n : k >= m + 1}
<1>1. IsFiniteSet(S) /\ m \in S /\ S \ {m} = R
  <2>1. IsFiniteSet(0 .. n) /\ S \subseteq 0 .. n
    BY FS_Interval
  <2>2. \A k : k \in S \ {m} <=> k \in R
    OBVIOUS
  <2>3. IsFiniteSet(S)
    BY <2>1, FS_Subset
  <2>4. m \in S
    OBVIOUS
  <2> QED
    BY <2>2, <2>3, <2>4
<1>2. \A k \in S : f[k] \in Int
  OBVIOUS
<1> HIDE DEF S, R
<1>3. SumFunctionOnSet(f, S) = f[m] + SumFunctionOnSet(f, S \ {m})
  BY <1>1, <1>2, SumRemove
<1> QED
  BY <1>1, <1>3 DEF S, R

LEMMA SumSplit ==
    ASSUME NEW n \in Nat, NEW f, \A k \in 0 .. n : f[k] \in Int, NEW m \in 0 .. n + 1
    PROVE  /\ SumFunctionOnSet(f, 0 .. m - 1) \in Int
           /\ SumFunctionOnSet(f, {k \in 0 .. n : k >= m}) \in Int
           /\ SumFunctionOnSet(f, 0 .. n)
                = SumFunctionOnSet(f, 0 .. m - 1) + SumFunctionOnSet(f, {k \in 0 .. n : k >= m})
<1> DEFINE Low(i)   == SumFunctionOnSet(f, 0 .. i - 1)
           High(i)  == SumFunctionOnSet(f, {k \in 0 .. n : k >= i})
           Bad      == {i \in 0 .. n + 1 : SumFunctionOnSet(f, 0 .. n) # Low(i) + High(i)}
<1>1. ASSUME NEW i \in 0 .. n + 1 PROVE Low(i) \in Int /\ High(i) \in Int
  <2> DEFINE S == 0 .. i - 1
             R == {k \in 0 .. n : k >= i}
  <2>1. IsFiniteSet(S)
    BY FS_Interval
  <2>2. IsFiniteSet(R)
    <3>1. IsFiniteSet(0 .. n) /\ R \subseteq 0 .. n
      BY FS_Interval
    <3> HIDE DEF R
    <3> QED
      BY <3>1, FS_Subset
  <2>3. (\A k \in S : f[k] \in Int) /\ (\A k \in R : f[k] \in Int)
    OBVIOUS
  <2> HIDE DEF S, R
  <2>4. SumFunctionOnSet(f, S) \in Int /\ SumFunctionOnSet(f, R) \in Int
    BY <2>1, <2>2, <2>3, SumInt
  <2> QED
    BY <2>4 DEF S, R
<1>2. ASSUME NEW i \in 0 .. n
      PROVE  Low(i + 1) = Low(i) + f[i] /\ High(i) = f[i] + High(i + 1)
  <2>1. \A k \in 0 .. i : f[k] \in Int
    OBVIOUS
  <2>2. SumFunctionOnSet(f, 0 .. i) = SumFunctionOnSet(f, 0 .. i - 1) + f[i]
    BY <2>1, SumUpTo
  <2>3. (i + 1) - 1 = i
    OBVIOUS
  <2>4. High(i) = f[i] + High(i + 1)
    BY SumFrom
  <2> QED
    BY <2>2, <2>3, <2>4
<1>3. Low(0) = 0 /\ High(0) = SumFunctionOnSet(f, 0 .. n)
  <2>1. 0 .. 0 - 1 = {}
    OBVIOUS
  <2>2. {k \in 0 .. n : k >= 0} = 0 .. n
    OBVIOUS
  <2> QED
    BY <2>1, <2>2, SumEmpty
<1> HIDE DEF Low, High
<1>4. Bad = {}
  <2>1. SUFFICES ASSUME Bad # {} PROVE FALSE
    OBVIOUS
  <2>2. PICK i \in Bad : \A j \in Bad : i <= j
    <3>1. Bad \in SUBSET Nat
      OBVIOUS
    <3> HIDE DEF Bad
    <3> QED
      BY <2>1, <3>1, LeastNat
  <2>3. i # 0
    BY <1>1, <1>3
  <2>4. i - 1 \in 0 .. n /\ i - 1 \in 0 .. n + 1 /\ i - 1 \notin Bad /\ (i - 1) + 1 = i
        /\ i \in 0 .. n + 1
    BY <2>2, <2>3
  <2>5. SumFunctionOnSet(f, 0 .. n) = Low(i - 1) + High(i - 1)
    BY <2>4
  <2>6. Low(i) = Low(i - 1) + f[i - 1] /\ High(i - 1) = f[i - 1] + High(i)
    BY <1>2, <2>4
  <2>7. Low(i - 1) \in Int /\ High(i) \in Int /\ f[i - 1] \in Int
    BY <1>1, <2>4
  <2> QED
    BY <2>5, <2>6, <2>7
<1> QED
  BY <1>1, <1>4 DEF Low, High

LEMMA SumMonotone ==
    ASSUME NEW n \in Nat, NEW f, \A k \in 0 .. n : f[k] \in Nat,
           NEW i \in Int, NEW m \in Int, -1 <= i, i <= m, m <= n
    PROVE  SumFunctionOnSet(f, 0 .. i) <= SumFunctionOnSet(f, 0 .. m)
<1> DEFINE S(j) == SumFunctionOnSet(f, 0 .. j)
           Bad  == {d \in Nat : i + d <= n /\ ~ S(i) <= S(i + d)}
<1>1. ASSUME NEW j \in Int, -1 <= j, j <= n PROVE S(j) \in Int
  <2> DEFINE R == 0 .. j
  <2>1. IsFiniteSet(R) /\ \A k \in R : f[k] \in Int
    BY <1>1, FS_Interval
  <2> HIDE DEF R
  <2>2. SumFunctionOnSet(f, R) \in Int
    BY <2>1, SumInt
  <2> QED
    BY <2>2 DEF R
<1>2. ASSUME NEW j \in 0 .. n PROVE S(j) = S(j - 1) + f[j]
  <2>1. \A k \in 0 .. j : f[k] \in Int
    OBVIOUS
  <2> QED
    BY <2>1, SumUpTo
<1> HIDE DEF S
<1>3. Bad = {}
  <2>1. SUFFICES ASSUME Bad # {} PROVE FALSE
    OBVIOUS
  <2>2. PICK d \in Bad : \A e \in Bad : d <= e
    <3>1. Bad \in SUBSET Nat
      OBVIOUS
    <3> HIDE DEF Bad
    <3> QED
      BY <2>1, <3>1, LeastNat
  <2>3. S(i) \in Int /\ i + 0 = i
    BY <1>1
  <2>4. d # 0
    BY <2>2, <2>3
  <2>5. d - 1 \in Nat /\ d - 1 \notin Bad /\ i + (d - 1) <= n /\ i + d \in 0 .. n
        /\ i + (d - 1) = (i + d) - 1 /\ -1 <= i + (d - 1)
    BY <2>2, <2>4
  <2>6. S(i) <= S((i + d) - 1)
    BY <2>5
  <2>7. S(i + d) = S((i + d) - 1) + f[i + d]
    BY <1>2, <2>5
  <2>8. S((i + d) - 1) \in Int /\ f[i + d] \in Nat
    BY <1>1, <2>5
  <2> QED
    BY <2>2, <2>3, <2>6, <2>7, <2>8
<1>4. m - i \in Nat /\ i + (m - i) = m
  OBVIOUS
<1>5. m - i \notin Bad
  BY <1>3
<1>6. S(i) <= S(m)
  BY <1>4, <1>5
<1> QED
  BY <1>6 DEF S
=============================================================================
