-------------------------- MODULE LocalChainProofs --------------------------
(***************************************************************************)
(* Lemmas about the operators of LocalChain: which of them keep the rows   *)
(* of the table one chain, and what they make of its path of blocks.       *)
(***************************************************************************)
EXTENDS LocalChain, Induction, FunctionTheorems, SequenceTheorems

(***************************************************************************)
(* Shape(c, n): the rows of c are a chain of height n.  Unlike Contiguous  *)
(* it does not count rows, so the steps below need no cardinality.         *)
(***************************************************************************)
Shape(c, n) ==
    /\ c \subseteq Rows
    /\ {r.block.index : r \in c} = 0 .. n
    /\ Linked(c)

GoodChain(c) ==
    /\ c \subseteq Rows
    /\ IsFiniteSet(c)
    /\ Linked(c)
    /\ Contiguous(c)

\* The indexes and rounds of rows are natural numbers.
LEMMA RowTypes ==
    ASSUME NEW r \in Rows
    PROVE  /\ r.block \in Blocks \cup {GenesisBlock}
           /\ r.block.index \in Nat
           /\ r.block.round \in Nat
           /\ r.confirmed \in BOOLEAN
           /\ r.numSuc \in Nat
<1>1. r.block \in Blocks \cup {GenesisBlock}
  BY DEF Rows
<1>2. r.block.index \in Nat /\ r.block.round \in Nat
  BY <1>1, BlocksAssumption DEF IsBlock, GenesisBlock
<1> QED
  BY <1>1, <1>2 DEF Rows

\* A chain of height n has n + 1 rows.
LEMMA ShapeCount ==
    ASSUME NEW c, NEW n \in Nat, Shape(c, n)
    PROVE  IsFiniteSet(c) /\ NumberOfBlocks(c) = n + 1
<1> DEFINE f == [i \in 0 .. n |-> RowAt(c, i)]
<1>1. ASSUME NEW i \in 0 .. n
      PROVE  RowAt(c, i) \in c /\ RowAt(c, i).block.index = i
  <2>1. \E r \in c : r.block.index = i
    BY DEF Shape
  <2> QED
    BY <2>1 DEF RowAt
<1>2. f \in [0 .. n -> c]
  BY <1>1
<1>3. ASSUME NEW i \in 0 .. n, NEW j \in 0 .. n, f[i] = f[j]
      PROVE  i = j
  BY <1>1, <1>3
<1>4. ASSUME NEW r \in c
      PROVE  \E i \in 0 .. n : f[i] = r
  <2>1. r.block.index \in 0 .. n
    BY DEF Shape
  <2>2. RowAt(c, r.block.index) = r
    BY <1>1, <2>1 DEF Shape, Linked
  <2> QED
    BY <2>1, <2>2
<1>5. f \in Bijection(0 .. n, c)
  BY <1>2, <1>3, <1>4 DEF Bijection, Injection, Surjection, IsInjective
<1>6. ExistsBijection(0 .. n, c)
  BY <1>5 DEF ExistsBijection
<1>7. IsFiniteSet(0 .. n) /\ Cardinality(0 .. n) = n + 1
  BY FS_Interval
<1> QED
  BY <1>6, <1>7, FS_Bijection DEF NumberOfBlocks

\* Shape is what a well-formed table of n + 1 rows has, and conversely.
LEMMA GoodIsShape ==
    ASSUME NEW c, GoodChain(c)
    PROVE  /\ NumberOfBlocks(c) - 1 \in Nat
           /\ Shape(c, NumberOfBlocks(c) - 1)
<1>1. Cardinality(c) \in Nat
  BY FS_CardinalityType DEF GoodChain
<1>2. c # {}
  BY DEF GoodChain, Linked
<1>3. Cardinality(c) # 0
  BY <1>2, FS_EmptySet DEF GoodChain
<1> QED
  BY <1>1, <1>3 DEF GoodChain, Shape, Contiguous, NumberOfBlocks

LEMMA ShapeIsGood ==
    ASSUME NEW c, NEW n \in Nat, Shape(c, n)
    PROVE  GoodChain(c)
<1>1. IsFiniteSet(c) /\ NumberOfBlocks(c) = n + 1
  BY ShapeCount
<1>2. NumberOfBlocks(c) - 1 = n
  BY <1>1
<1> QED
  BY <1>1, <1>2 DEF GoodChain, Shape, Contiguous

-----------------------------------------------------------------------------
\* Rewriting the other columns of the rows leaves a chain a chain.
LEMMA SameBlocksShape ==
    ASSUME NEW c, NEW n \in Nat, Shape(c, n),
           NEW d, d \subseteq Rows,
           {r.block : r \in d} = {r.block : r \in c},
           \A r, q \in d : r.block = q.block => r = q
    PROVE  Shape(d, n)
<1>1. ASSUME NEW r \in d PROVE \E q \in c : q.block = r.block
  OBVIOUS
<1>2. ASSUME NEW r \in c PROVE \E q \in d : q.block = r.block
  OBVIOUS
<1>3. {r.block.index : r \in d} = 0 .. n
  <2>1. {r.block.index : r \in d} = {r.block.index : r \in c}
    BY <1>1, <1>2
  <2> QED
    BY <2>1 DEF Shape
<1>4. GenesisBlock \in {r.block : r \in d}
  BY DEF Shape, Linked
<1>5. ASSUME NEW r \in d, NEW q \in d, r.block.index = q.block.index
      PROVE  r = q
  <2>1. PICK r1 \in c : r1.block = r.block
    BY <1>1
  <2>2. PICK q1 \in c : q1.block = q.block
    BY <1>1
  <2>3. r1 = q1
    BY <1>5, <2>1, <2>2 DEF Shape, Linked
  <2> QED
    BY <2>1, <2>2, <2>3
<1>6. ASSUME NEW r \in d, r.block # GenesisBlock
      PROVE  \E p \in d : /\ p.block.index = r.block.index - 1
                          /\ r.block.parent = Hash(p.block)
                          /\ p.block.round < r.block.round
  <2>1. PICK r1 \in c : r1.block = r.block
    BY <1>1
  <2>2. PICK p1 \in c : /\ p1.block.index = r1.block.index - 1
                        /\ r1.block.parent = Hash(p1.block)
                        /\ p1.block.round < r1.block.round
    BY <1>6, <2>1 DEF Shape, Linked
  <2>3. PICK p \in d : p.block = p1.block
    BY <1>2
  <2> QED
    BY <2>1, <2>2, <2>3
<1> QED
  BY <1>3, <1>4, <1>5, <1>6 DEF Shape, Linked

\* Counting the tickets of a block only changes numSuc.
LEMMA CountShape ==
    ASSUME NEW c, NEW n \in Nat, Shape(c, n), NEW i, NEW t \in Nat
    PROVE  Shape(UpdateSuccessfulSortition(c, i, t), n)
<1> DEFINE g(r) == IF r.block.index < i /\ ~r.confirmed
                     THEN [r EXCEPT !.numSuc = @ + t] ELSE r
           d == {g(r) : r \in c}
<1>1. ASSUME NEW r \in c PROVE g(r) \in Rows /\ g(r).block = r.block
  <2>1. r \in Rows
    BY DEF Shape
  <2> QED
    BY <2>1 DEF Rows
<1>2. d \subseteq Rows
  BY <1>1
<1>3. {r.block : r \in d} = {r.block : r \in c}
  BY <1>1
<1>4. ASSUME NEW r \in d, NEW q \in d, r.block = q.block PROVE r = q
  <2>1. PICK r1 \in c : r = g(r1)
    OBVIOUS
  <2>2. PICK q1 \in c : q = g(q1)
    OBVIOUS
  <2>3. r1.block = q1.block
    BY <1>1, <1>4, <2>1, <2>2
  <2>4. r1 = q1
    BY <2>3 DEF Shape, Linked
  <2> QED
    BY <2>1, <2>2, <2>4
<1>5. Shape(d, n)
  <2> HIDE DEF d
  <2> QED
    BY <1>2, <1>3, <1>4, SameBlocksShape
<1> QED
  BY <1>5 DEF UpdateSuccessfulSortition

\* Confirming rows only changes confirmed.
LEMMA ConfirmShape ==
    ASSUME NEW c, NEW n \in Nat, Shape(c, n), NEW rows \in SUBSET c
    PROVE  Shape(Confirm(c, rows), n)
<1> DEFINE g(r) == IF r \in rows THEN [r EXCEPT !.confirmed = TRUE] ELSE r
           d == {g(r) : r \in c}
<1>1. ASSUME NEW r \in c PROVE g(r) \in Rows /\ g(r).block = r.block
  <2>1. r \in Rows
    BY DEF Shape
  <2> QED
    BY <2>1 DEF Rows
<1>2. d \subseteq Rows
  BY <1>1
<1>3. {r.block : r \in d} = {r.block : r \in c}
  BY <1>1
<1>4. ASSUME NEW r \in d, NEW q \in d, r.block = q.block PROVE r = q
  <2>1. PICK r1 \in c : r = g(r1)
    OBVIOUS
  <2>2. PICK q1 \in c : q = g(q1)
    OBVIOUS
  <2>3. r1.block = q1.block
    BY <1>1, <1>4, <2>1, <2>2
  <2>4. r1 = q1
    BY <2>3 DEF Shape, Linked
  <2> QED
    BY <2>1, <2>2, <2>4
<1>5. Shape(d, n)
  <2> HIDE DEF d
  <2> QED
    BY <1>2, <1>3, <1>4, SameBlocksShape
<1>6. d = Confirm(c, rows)
  BY DEF Confirm
<1> QED
  BY <1>5, <1>6

\* Cutting a chain at an index above the genesis block leaves a chain.
LEMMA DeleteShape ==
    ASSUME NEW c, NEW n \in Nat, Shape(c, n), NEW i \in 1 .. n + 1
    PROVE  Shape(DeleteBlocksSince(c, i), i - 1)
<1> DEFINE d == DeleteBlocksSince(c, i)
<1>0. \A r \in c : r \in Rows /\ r.block.index \in Nat
  BY RowTypes DEF Shape
<1>1. d = {r \in c : r.block.index < i}
  BY DEF DeleteBlocksSince
<1> HIDE DEF d
<1>2. {r.block.index : r \in d} = 0 .. i - 1
  <2>1. ASSUME NEW k \in 0 .. i - 1 PROVE \E r \in d : r.block.index = k
    <3>1. k \in 0 .. n
      OBVIOUS
    <3>2. PICK r \in c : r.block.index = k
      BY <3>1 DEF Shape
    <3> QED
      BY <1>1, <3>2
  <2>2. ASSUME NEW r \in d PROVE r.block.index \in 0 .. i - 1
    BY <1>0, <1>1
  <2> QED
    BY <2>1, <2>2
<1>3. GenesisBlock \in {r.block : r \in d}
  <2>1. PICK r \in c : r.block = GenesisBlock
    BY DEF Shape, Linked
  <2>2. r \in d
    BY <1>1, <2>1 DEF GenesisBlock
  <2> QED
    BY <2>1, <2>2
<1>4. \A r, q \in d : r.block.index = q.block.index => r = q
  BY <1>1 DEF Shape, Linked
<1>5. ASSUME NEW r \in d, r.block # GenesisBlock
      PROVE  \E p \in d : /\ p.block.index = r.block.index - 1
                          /\ r.block.parent = Hash(p.block)
                          /\ p.block.round < r.block.round
  <2>1. PICK p \in c : /\ p.block.index = r.block.index - 1
                       /\ r.block.parent = Hash(p.block)
                       /\ p.block.round < r.block.round
    BY <1>1, <1>5 DEF Shape, Linked
  <2>2. p \in d
    BY <1>0, <1>1, <2>1
  <2> QED
    BY <2>1, <2>2
<1>6. d \subseteq Rows
  BY <1>0, <1>1
<1>7. Shape(d, i - 1)
  BY <1>2, <1>3, <1>4, <1>5, <1>6 DEF Shape, Linked
<1> QED
  BY <1>7 DEF d

\* A block of a later round than the tip, built on it, can be added above it.
LEMMA AppendShape ==
    ASSUME NEW c, NEW n \in Nat, Shape(c, n),
           NEW b \in Blocks, b.index = n + 1,
           NEW p \in c, p.block.index = n, Hash(p.block) = b.parent,
           p.block.round < b.round
    PROVE  Shape(c \cup {Row(b, FALSE)}, n + 1)
<1> DEFINE row == Row(b, FALSE)
           d == c \cup {row}
<1>1. row \in Rows /\ row.block = b
  BY DEF Row, Rows
<1>2. \A r \in c : r \in Rows /\ r.block.index \in 0 .. n
  BY DEF Shape
<1> HIDE DEF row
<1>3. {r.block.index : r \in d} = 0 .. n + 1
  <2>1. ASSUME NEW k \in 0 .. n + 1 PROVE \E r \in d : r.block.index = k
    <3>1. CASE k = n + 1
      BY <1>1, <3>1
    <3>2. CASE k \in 0 .. n
      BY <3>2 DEF Shape
    <3> QED
      BY <3>1, <3>2
  <2>2. ASSUME NEW r \in d PROVE r.block.index \in 0 .. n + 1
    BY <1>1, <1>2
  <2> QED
    BY <2>1, <2>2
<1>4. GenesisBlock \in {r.block : r \in d}
  BY DEF Shape, Linked
<1>5. ASSUME NEW r \in d, NEW q \in d, r.block.index = q.block.index
      PROVE  r = q
  <2>1. CASE r \in c /\ q \in c
    BY <1>5, <2>1 DEF Shape, Linked
  <2>2. CASE r = row /\ q \in c
    BY <1>1, <1>2, <1>5, <2>2
  <2>3. CASE r \in c /\ q = row
    BY <1>1, <1>2, <1>5, <2>3
  <2> QED
    BY <2>1, <2>2, <2>3
<1>6. ASSUME NEW r \in d, r.block # GenesisBlock
      PROVE  \E s \in d : /\ s.block.index = r.block.index - 1
                          /\ r.block.parent = Hash(s.block)
                          /\ s.block.round < r.block.round
  <2>1. CASE r \in c
    BY <1>6, <2>1 DEF Shape, Linked
  <2>2. CASE r = row
    BY <1>1, <2>2
  <2> QED
    BY <2>1, <2>2
<1>7. d \subseteq Rows
  BY <1>1, <1>2
<1>8. Shape(d, n + 1)
  BY <1>3, <1>4, <1>5, <1>6, <1>7 DEF Shape, Linked
<1> QED
  BY <1>8 DEF row

-----------------------------------------------------------------------------
LEMMA ValidateType ==
    ASSUME NEW b \in Blocks
    PROVE  ValidateBlock(b) \in Nat
BY BlocksAssumption DEF ValidateBlock

\* In a chain, the row of an index is the only one.
LEMMA RowAtUnique ==
    ASSUME NEW c, NEW n \in Nat, Shape(c, n), NEW r \in c
    PROVE  RowAt(c, r.block.index) = r
<1>1. RowAt(c, r.block.index) \in c /\ RowAt(c, r.block.index).block.index = r.block.index
  BY DEF RowAt
<1> QED
  BY <1>1 DEF Shape, Linked

\* The blocks of the rows do not change when tickets are counted.
LEMMA CountBlocks ==
    ASSUME NEW c, c \subseteq Rows, NEW i, NEW t
    PROVE  {r.block : r \in UpdateSuccessfulSortition(c, i, t)} = {r.block : r \in c}
<1> DEFINE g(r) == IF r.block.index < i /\ ~r.confirmed
                     THEN [r EXCEPT !.numSuc = @ + t] ELSE r
<1>1. ASSUME NEW r \in c PROVE g(r).block = r.block
  <2>1. r \in Rows
    OBVIOUS
  <2> QED
    BY <2>1 DEF Rows
<1>2. UpdateSuccessfulSortition(c, i, t) = {g(r) : r \in c}
  BY DEF UpdateSuccessfulSortition
<1> HIDE DEF g
<1> QED
  BY <1>1, <1>2

\* A block that insert refuses leaves the blocks of the chain as they were.
LEMMA InsertRefused ==
    ASSUME NEW c, NEW n \in Nat, Shape(c, n), NEW b \in Blocks, ~Insert(c, b).ok
    PROVE  /\ Shape(Insert(c, b).chain, n)
           /\ {r.block : r \in Insert(c, b).chain} = {r.block : r \in c}
<1>1. CASE ~Acceptable(c, b)
  BY <1>1 DEF Insert
<1>2. CASE Acceptable(c, b) /\ ~Preferred(Counted(c, b), b)
  <2>1. Insert(c, b).chain = Counted(c, b)
    BY <1>2 DEF Insert
  <2>2. Shape(Counted(c, b), n)
    BY CountShape, ValidateType DEF Counted
  <2>3. {r.block : r \in Counted(c, b)} = {r.block : r \in c}
    BY CountBlocks DEF Counted, Shape
  <2> QED
    BY <2>1, <2>2, <2>3
<1> QED
  BY <1>1, <1>2 DEF Insert

\* A block that insert takes becomes the tip, at its own index.
LEMMA InsertTaken ==
    ASSUME NEW c, NEW n \in Nat, Shape(c, n), NEW b \in Blocks, Insert(c, b).ok
    PROVE  /\ b.index \in 1 .. n + 1
           /\ Shape(Insert(c, b).chain, b.index)
<1> DEFINE d == Counted(c, b)
           e == DeleteBlocksSince(d, b.index)
<1>1. Acceptable(c, b) /\ Preferred(d, b) /\ Insert(c, b).chain = e \cup {Row(b, FALSE)}
  BY DEF Insert
<1>2. b.index \in 1 .. n + 1
  <2>1. b.index \in Nat
    BY BlocksAssumption DEF IsBlock
  <2>2. NumberOfBlocks(c) = n + 1
    BY ShapeCount
  <2> QED
    BY <1>1, <2>1, <2>2 DEF Acceptable
<1>3. Shape(d, n)
  BY CountShape, ValidateType DEF Counted
<1>4. Shape(e, b.index - 1)
  BY <1>2, <1>3, DeleteShape
<1>5. PICK p \in d : p.block.index = b.index - 1 /\ Hash(p.block) = b.parent
  <2>1. PICK q \in c : q.block.index = b.index - 1 /\ Hash(q.block) = b.parent
    BY <1>1 DEF Acceptable, HasCorrectParent
  <2>2. {r.block : r \in d} = {r.block : r \in c}
    BY CountBlocks DEF Counted, Shape
  <2>3. PICK p \in d : p.block = q.block
    BY <2>2
  <2> QED
    BY <2>1, <2>3
<1>6. p.block.round < b.round
  <2>1. RowAt(d, b.index - 1) = p
    BY <1>3, <1>5, RowAtUnique
  <2>2. p.block.round \in Nat /\ b.round \in Nat
    BY <1>3, RowTypes, BlocksAssumption DEF Shape, IsBlock
  <2> QED
    BY <1>1, <2>1, <2>2 DEF Preferred
<1>7. p \in e
  BY <1>2, <1>5 DEF DeleteBlocksSince
<1>8. Shape(e \cup {Row(b, FALSE)}, b.index)
  <2> DEFINE k == b.index - 1
  <2>1. k \in Nat /\ b.index = k + 1
    BY <1>2
  <2>2. Shape(e, k) /\ p \in e /\ p.block.index = k
    BY <1>4, <1>5, <1>7
  <2> HIDE DEF e, d, k
  <2>3. Shape(e \cup {Row(b, FALSE)}, k + 1)
    BY <1>5, <1>6, <2>1, <2>2, AppendShape
  <2> QED
    BY <2>1, <2>3
<1> QED
  BY <1>1, <1>2, <1>8

-----------------------------------------------------------------------------
(* The loop of merge, by induction on the length of the foreign subchain *)

\* g computes the first n iterations of the loop.
Iterates(g, c, f, n) ==
    g = [k \in 0 .. n |->
           IF k = 0 THEN [ok |-> TRUE, chain |-> c]
           ELSE IF g[k - 1].ok THEN Insert(g[k - 1].chain, f[k])
           ELSE g[k - 1]]

LEMMA IteratesExists ==
    ASSUME NEW c, NEW f, NEW n \in Nat
    PROVE  \E g : Iterates(g, c, f, n)
<1> DEFINE Bad == {i \in Nat : ~ \E g : Iterates(g, c, f, i)}
<1>1. SUFFICES ASSUME Bad # {} PROVE FALSE
  OBVIOUS
<1>2. PICK i \in Bad : \A j \in Bad : i <= j
  <2> HIDE DEF Bad
  <2>1. Bad \in SUBSET Nat
    BY DEF Bad
  <2> QED
    BY <1>1, <2>1, LeastNat
<1>3. CASE i = 0
  <2>1. Iterates([k \in 0 .. 0 |-> [ok |-> TRUE, chain |-> c]], c, f, 0)
    BY DEF Iterates
  <2> QED
    BY <1>3, <2>1
<1>4. CASE i # 0
  <2>1. i - 1 \in Nat /\ i - 1 \notin Bad
    BY <1>2, <1>4
  <2>2. PICK g : Iterates(g, c, f, i - 1)
    BY <2>1
  <2> DEFINE last == IF g[i - 1].ok THEN Insert(g[i - 1].chain, f[i]) ELSE g[i - 1]
             h == [k \in 0 .. i |-> IF k = i THEN last ELSE g[k]]
  <2>3. \A k \in 0 .. i - 1 : h[k] = g[k]
    BY <2>1
  <2>4. ASSUME NEW k \in 0 .. i
        PROVE  h[k] = IF k = 0 THEN [ok |-> TRUE, chain |-> c]
                      ELSE IF h[k - 1].ok THEN Insert(h[k - 1].chain, f[k])
                      ELSE h[k - 1]
    <3>1. CASE k = i
      <4>1. h[k] = last /\ k # 0 /\ h[k - 1] = g[i - 1]
        BY <1>4, <2>1, <3>1
      <4> HIDE DEF h
      <4> QED
        BY <3>1, <4>1
    <3>2. CASE k # i
      <4>1. k \in 0 .. i - 1
        BY <2>1, <3>2
      <4>2. h[k] = g[k] /\ (k # 0 => h[k - 1] = g[k - 1])
        BY <2>1, <2>3, <4>1
      <4>3. g[k] = IF k = 0 THEN [ok |-> TRUE, chain |-> c]
                   ELSE IF g[k - 1].ok THEN Insert(g[k - 1].chain, f[k])
                   ELSE g[k - 1]
        BY <2>2, <4>1 DEF Iterates
      <4> HIDE DEF h
      <4> QED
        BY <4>2, <4>3
    <3> QED
      BY <3>1, <3>2
  <2>5. Iterates(h, c, f, i)
    <3>1. h = [k \in 0 .. i |-> h[k]]
      OBVIOUS
    <3> HIDE DEF h
    <3> QED
      BY <2>4, <3>1 DEF Iterates
  <2> QED
    BY <2>5
<1> QED
  BY <1>3, <1>4

LEMMA InsertLoopDef ==
    ASSUME NEW c, NEW f, Len(f) \in Nat
    PROVE  Iterates(InsertLoop(c, f), c, f, Len(f))
<1>1. \E g : Iterates(g, c, f, Len(f))
  BY IteratesExists
<1>2. InsertLoop(c, f) = CHOOSE g : Iterates(g, c, f, Len(f))
  BY DEF InsertLoop, Iterates
<1> QED
  BY <1>1, <1>2

-----------------------------------------------------------------------------
(***************************************************************************)
(* Sound(c, n): what the methods keep of the other two columns, in a chain *)
(* of height n.  The genesis row is never touched, the confirmed rows are  *)
(* the lowest ones, and an unconfirmed row has at least one ticket for     *)
(* every row above it.  Open(c, n): moreover the tip is unconfirmed.       *)
(***************************************************************************)
Sound(c, n) ==
    /\ Shape(c, n)
    /\ GenesisRow \in c
    /\ \A r, q \in c : r.confirmed /\ q.block.index <= r.block.index => q.confirmed
    /\ \A r \in c : ~r.confirmed => r.numSuc >= n - r.block.index

Open(c, n) ==
    /\ Sound(c, n)
    /\ n # 0 => \A r \in c : r.block.index = n => ~r.confirmed

\* d has the rows of c, some with more tickets.
Grown(c, d) ==
    /\ \A r \in c : r.confirmed => r \in d
    /\ \A r \in d : \E q \in c : /\ q.block = r.block
                               /\ q.confirmed = r.confirmed
                               /\ q.numSuc <= r.numSuc

LEMMA GrownRefl ==
    ASSUME NEW c, c \subseteq Rows
    PROVE  Grown(c, c)
<1>1. \A r \in c : r.numSuc \in Nat
  BY RowTypes
<1> QED
  BY <1>1 DEF Grown

\* Counting adds the tickets to every unconfirmed row below the index.
LEMMA CountGrown ==
    ASSUME NEW c, c \subseteq Rows, NEW i, NEW t \in Nat
    PROVE  /\ Grown(c, UpdateSuccessfulSortition(c, i, t))
           /\ \A r \in UpdateSuccessfulSortition(c, i, t) :
                 ~r.confirmed /\ r.block.index < i =>
                   \E q \in c : /\ q.block = r.block
                               /\ ~q.confirmed
                               /\ r.numSuc = q.numSuc + t
<1> DEFINE g(r) == IF r.block.index < i /\ ~r.confirmed
                     THEN [r EXCEPT !.numSuc = @ + t] ELSE r
           d == {g(r) : r \in c}
<1>1. ASSUME NEW r \in c
      PROVE  /\ r.confirmed => g(r) = r
             /\ g(r).block = r.block
             /\ g(r).confirmed = r.confirmed
             /\ r.numSuc <= g(r).numSuc
             /\ ~r.confirmed /\ r.block.index < i => g(r).numSuc = r.numSuc + t
  <2>1. r \in Rows /\ r.numSuc \in Nat
    BY RowTypes
  <2>2. r.confirmed => g(r) = r
    OBVIOUS
  <2>3. CASE r.block.index < i /\ ~r.confirmed
    <3>1. g(r) = [r EXCEPT !.numSuc = @ + t]
      BY <2>3
    <3> HIDE DEF g
    <3>2. /\ g(r).block = r.block
          /\ g(r).confirmed = r.confirmed
          /\ g(r).numSuc = r.numSuc + t
      BY <2>1, <3>1 DEF Rows
    <3> QED
      BY <2>1, <2>2, <3>2
  <2>4. CASE ~ (r.block.index < i /\ ~r.confirmed)
    BY <2>1, <2>4
  <2> QED
    BY <2>3, <2>4
<1>2. UpdateSuccessfulSortition(c, i, t) = d
  BY DEF UpdateSuccessfulSortition
<1> HIDE DEF g
<1>3. Grown(c, d)
  <2>1. ASSUME NEW r \in c, r.confirmed PROVE r \in d
    BY <1>1, <2>1
  <2>2. ASSUME NEW r \in d
        PROVE \E q \in c : /\ q.block = r.block
                           /\ q.confirmed = r.confirmed
                           /\ q.numSuc <= r.numSuc
    BY <1>1
  <2> QED
    BY <2>1, <2>2 DEF Grown
<1>4. ASSUME NEW r \in d, ~r.confirmed, r.block.index < i
      PROVE  \E q \in c : q.block = r.block /\ ~q.confirmed /\ r.numSuc = q.numSuc + t
  <2>1. PICK q \in c : r = g(q)
    OBVIOUS
  <2>2. q.block = r.block /\ q.confirmed = r.confirmed
    BY <1>1, <2>1
  <2> QED
    BY <1>1, <1>4, <2>1, <2>2
<1> QED
  BY <1>2, <1>3, <1>4

\* More tickets on the rows of a sound chain leave it sound, and open.
LEMMA GrownSound ==
    ASSUME NEW c, NEW n \in Nat, Sound(c, n), NEW d, Shape(d, n), Grown(c, d)
    PROVE  Sound(d, n) /\ (Open(c, n) => Open(d, n))
<1>1. GenesisRow \in d
  BY DEF Sound, Grown, GenesisRow, Row
<1>2. \A r \in c : r.numSuc \in Nat /\ r.block.index \in Nat
  BY RowTypes DEF Sound, Shape
<1>3. \A r \in d : r.numSuc \in Nat /\ r.block.index \in Nat
  BY RowTypes DEF Shape
<1>4. ASSUME NEW r \in d, NEW q \in d, r.confirmed, q.block.index <= r.block.index
      PROVE  q.confirmed
  <2>1. PICK r1 \in c : r1.block = r.block /\ r1.confirmed = r.confirmed
    BY DEF Grown
  <2>2. PICK q1 \in c : q1.block = q.block /\ q1.confirmed = q.confirmed
    BY DEF Grown
  <2> QED
    BY <1>4, <2>1, <2>2 DEF Sound
<1>5. ASSUME NEW r \in d, ~r.confirmed
      PROVE  r.numSuc >= n - r.block.index
  <2>1. PICK q \in c : /\ q.block = r.block
                       /\ q.confirmed = r.confirmed
                       /\ q.numSuc <= r.numSuc
    BY DEF Grown
  <2>2. q.numSuc >= n - q.block.index
    BY <1>5, <2>1 DEF Sound
  <2> QED
    BY <1>2, <1>3, <2>1, <2>2
<1>6. ASSUME Open(c, n), n # 0, NEW r \in d, r.block.index = n
      PROVE  ~r.confirmed
  BY <1>6 DEF Open, Grown
<1> QED
  BY <1>1, <1>4, <1>5, <1>6 DEF Sound, Open

\* A sound chain cut above the genesis block is sound.
LEMMA DeleteSound ==
    ASSUME NEW c, NEW n \in Nat, Sound(c, n), NEW i \in 1 .. n + 1
    PROVE  Sound(DeleteBlocksSince(c, i), i - 1)
<1> DEFINE d == DeleteBlocksSince(c, i)
<1>1. Shape(d, i - 1)
  BY DeleteShape DEF Sound
<1>2. d \subseteq c /\ GenesisRow \in d
  BY DEF Sound, DeleteBlocksSince, GenesisRow, Row, GenesisBlock
<1>3. \A r \in c : r.numSuc \in Nat /\ r.block.index \in Nat
  BY RowTypes DEF Sound, Shape
<1> HIDE DEF d
<1>4. ASSUME NEW r \in d, ~r.confirmed
      PROVE  r.numSuc >= (i - 1) - r.block.index
  <2>1. r.numSuc >= n - r.block.index
    BY <1>2, <1>4 DEF Sound
  <2> QED
    BY <1>2, <1>3, <2>1
<1>5. \A r, q \in d : r.confirmed /\ q.block.index <= r.block.index => q.confirmed
  BY <1>2 DEF Sound
<1>6. Sound(d, i - 1)
  BY <1>1, <1>2, <1>4, <1>5 DEF Sound
<1> QED
  BY <1>6 DEF d

\* insert keeps a sound chain sound; a block it takes is an unconfirmed tip.
LEMMA InsertSound ==
    ASSUME NEW c, NEW n \in Nat, Sound(c, n), NEW b \in Blocks
    PROVE  /\ ~Insert(c, b).ok => /\ Sound(Insert(c, b).chain, n)
                                  /\ Grown(c, Insert(c, b).chain)
                                  /\ Open(c, n) => Open(Insert(c, b).chain, n)
           /\ Insert(c, b).ok => /\ b.index \in 1 .. n + 1
                                 /\ Open(Insert(c, b).chain, b.index)
<1> DEFINE d == Counted(c, b)
           e == DeleteBlocksSince(d, b.index)
<1>0. Shape(c, n) /\ c \subseteq Rows
  BY DEF Sound, Shape
<1>1. Grown(c, d) /\ Shape(d, n) /\ Sound(d, n)
  <2>1. Grown(c, d)
    BY <1>0, CountGrown, ValidateType DEF Counted
  <2>2. Shape(d, n)
    BY <1>0, CountShape, ValidateType DEF Counted
  <2> QED
    BY <2>1, <2>2, GrownSound
<1>2. ASSUME ~Insert(c, b).ok
      PROVE  /\ Sound(Insert(c, b).chain, n)
             /\ Grown(c, Insert(c, b).chain)
             /\ Open(c, n) => Open(Insert(c, b).chain, n)
  <2>1. Insert(c, b).chain = c \/ Insert(c, b).chain = d
    BY <1>2 DEF Insert
  <2> HIDE DEF d
  <2> QED
    BY <1>0, <1>1, <2>1, GrownRefl, GrownSound
<1>3. ASSUME Insert(c, b).ok
      PROVE  /\ b.index \in 1 .. n + 1
             /\ Open(Insert(c, b).chain, b.index)
  <2>1. ValidateBlock(b) \in Nat \ {0} /\ Insert(c, b).chain = e \cup {Row(b, FALSE)}
    <3>1. Acceptable(c, b) /\ Insert(c, b).chain = e \cup {Row(b, FALSE)}
      BY <1>3 DEF Insert
    <3>2. ValidateBlock(b) \in Nat /\ ValidateBlock(b) > 0
      BY <3>1, ValidateType DEF Acceptable
    <3> HIDE DEF e
    <3> QED
      BY <3>1, <3>2
  <2>2. b.index \in 1 .. n + 1 /\ Shape(Insert(c, b).chain, b.index)
    BY <1>0, <1>3, InsertTaken
  <2>3. Sound(e, b.index - 1)
    <3> HIDE DEF d
    <3> QED
      BY <1>1, <2>2, DeleteSound
  <2>4. \A r \in e : r \in d /\ r.block.index < b.index /\ r.block.index \in Nat /\ r.numSuc \in Nat
    BY <1>1, RowTypes DEF DeleteBlocksSince, Shape
  <2>5. ASSUME NEW r \in e, ~r.confirmed
        PROVE  r.numSuc >= b.index - r.block.index
    <3>1. PICK q \in c : /\ q.block = r.block
                         /\ ~q.confirmed
                         /\ r.numSuc = q.numSuc + ValidateBlock(b)
      BY <1>0, <2>4, <2>5, CountGrown, ValidateType DEF Counted
    <3>2. q.numSuc >= n - r.block.index /\ q.numSuc \in Nat
      BY <1>0, <3>1, RowTypes DEF Sound
    <3> QED
      BY <2>1, <2>2, <2>4, <3>1, <3>2
  <2> DEFINE row == Row(b, FALSE)
             new == e \cup {row}
  <2>6. row.block = b /\ ~row.confirmed /\ row.numSuc = 0 /\ b.index \in Nat
    BY <2>2 DEF Row
  <2> HIDE DEF e, d, row
  <2>7. GenesisRow \in new
    BY <2>3 DEF Sound
  <2>8. ASSUME NEW r \in new, NEW q \in new, r.confirmed, q.block.index <= r.block.index
        PROVE  q.confirmed
    <3>1. r \in e /\ r.block.index < b.index
      BY <2>4, <2>6, <2>8
    <3>2. q # row
      BY <2>2, <2>4, <2>6, <2>8, <3>1
    <3> QED
      BY <2>3, <2>8, <3>1, <3>2 DEF Sound
  <2>9. ASSUME NEW r \in new, ~r.confirmed
        PROVE  r.numSuc >= b.index - r.block.index
    <3>1. CASE r = row
      BY <2>2, <2>6, <3>1
    <3> QED
      BY <2>5, <2>9, <3>1
  <2>10. ASSUME NEW r \in new, r.block.index = b.index
         PROVE  ~r.confirmed
    BY <2>4, <2>6, <2>10
  <2>11. Insert(c, b).chain = new
    BY <2>1 DEF row
  <2> HIDE DEF new
  <2> QED
    BY <2>2, <2>7, <2>8, <2>9, <2>10, <2>11 DEF Open, Sound
<1> QED
  BY <1>2, <1>3

\* Every iteration of the loop of merge leaves an open chain.
LEMMA InsertAllOpen ==
    ASSUME NEW c, NEW n \in Nat, Open(c, n), NEW f \in Seq(Blocks)
    PROVE  \E m \in Nat : Open(InsertAll(c, f), m)
<1> DEFINE loop == InsertLoop(c, f)
           Bad == {k \in 0 .. Len(f) : ~ \E m \in Nat : Open(loop[k].chain, m)}
<1>1. Len(f) \in Nat /\ \A k \in 1 .. Len(f) : f[k] \in Blocks
  OBVIOUS
<1>2. \A k \in 0 .. Len(f) :
         loop[k] = IF k = 0 THEN [ok |-> TRUE, chain |-> c]
                   ELSE IF loop[k - 1].ok THEN Insert(loop[k - 1].chain, f[k])
                   ELSE loop[k - 1]
  <2>1. Iterates(loop, c, f, Len(f))
    BY <1>1, InsertLoopDef
  <2> HIDE DEF loop
  <2> QED
    BY <2>1 DEF Iterates
<1> HIDE DEF loop
<1>3. SUFFICES ASSUME Bad # {} PROVE FALSE
  <2>1. Len(f) \in 0 .. Len(f)
    BY <1>1
  <2> QED
    BY <2>1 DEF InsertAll, loop
<1>4. PICK k \in Bad : \A j \in Bad : k <= j
  <2>1. Bad \in SUBSET Nat
    BY <1>1
  <2> HIDE DEF Bad
  <2> QED
    BY <1>3, <2>1, LeastNat
<1>5. CASE k = 0
  <2>1. loop[0].chain = c
    BY <1>1, <1>2
  <2> QED
    BY <1>5, <2>1
<1>6. CASE k # 0
  <2>1. k - 1 \in 0 .. Len(f) /\ k - 1 \notin Bad /\ k \in 1 .. Len(f)
    BY <1>1, <1>4, <1>6
  <2>2. PICK m \in Nat : Open(loop[k - 1].chain, m)
    BY <2>1
  <2>3. \E j \in Nat : Open(Insert(loop[k - 1].chain, f[k]).chain, j)
    <3>1. f[k] \in Blocks /\ f[k].index \in Nat /\ Sound(loop[k - 1].chain, m)
      BY <1>1, <2>1, <2>2, BlocksAssumption DEF Open, IsBlock
    <3> QED
      BY <2>2, <3>1, InsertSound
  <2>4. \/ loop[k] = Insert(loop[k - 1].chain, f[k])
        \/ loop[k] = loop[k - 1]
    BY <1>2, <1>6
  <2> QED
    BY <2>2, <2>3, <2>4
<1> QED
  BY <1>5, <1>6

-----------------------------------------------------------------------------
\* The rows saved by merge fit on the rows below them, also when insert has
\* counted the tickets of the block it then refused.
LEMMA ReintroduceGrown ==
    ASSUME NEW c, NEW n \in Nat, Shape(c, n), NEW i \in 1 .. n + 1,
           NEW low, Shape(low, i - 1), Grown(DeleteBlocksSince(c, i), low)
    PROVE  LET d == low \cup BlocksSinceIndex(c, i)
           IN  Shape(d, n) /\ Grown(c, d)
<1> DEFINE high == BlocksSinceIndex(c, i)
           cut == DeleteBlocksSince(c, i)
           d == low \cup high
<1>1. \A r \in c : r \in Rows /\ r.block.index \in Nat /\ r.numSuc \in Nat
  BY RowTypes DEF Shape
<1>2. \A r : r \in cut <=> r \in c /\ r.block.index < i
  BY DEF DeleteBlocksSince
<1>3. \A r : r \in high <=> r \in c /\ r.block.index >= i
  BY DEF BlocksSinceIndex
<1>4. \A r \in low : r \in Rows /\ r.block.index < i
  <2>1. \A r \in low : r \in Rows /\ r.block.index \in 0 .. i - 1
    BY DEF Shape
  <2> QED
    BY <2>1
<1>5. \A r \in low : \E q \in cut : /\ q.block = r.block
                                  /\ q.confirmed = r.confirmed
                                  /\ q.numSuc <= r.numSuc
  BY DEF Grown
<1>6. \A r \in cut : r.confirmed => r \in low
  BY DEF Grown
<1>7. ASSUME NEW r \in cut PROVE \E q \in low : q.block = r.block
  <2>1. r.block.index \in 0 .. i - 1
    BY <1>1, <1>2
  <2>2. PICK q \in low : q.block.index = r.block.index
    BY <2>1 DEF Shape
  <2>3. PICK s \in cut : s.block = q.block
    BY <1>5
  <2>4. s = r
    BY <1>2, <2>2, <2>3 DEF Shape, Linked
  <2> QED
    BY <2>3, <2>4
<1> HIDE DEF high, cut
<1>8. {r.block : r \in d} = {r.block : r \in c}
  <2>1. ASSUME NEW r \in d PROVE \E q \in c : q.block = r.block
    BY <1>2, <1>3, <1>5
  <2>2. ASSUME NEW r \in c PROVE \E q \in d : q.block = r.block
    BY <1>1, <1>2, <1>3, <1>7
  <2> HIDE DEF d
  <2> QED
    BY <2>1, <2>2
<1>9. ASSUME NEW r \in d, NEW q \in d, r.block = q.block PROVE r = q
  <2>1. CASE r \in low /\ q \in low
    BY <1>9, <2>1 DEF Shape, Linked
  <2>2. CASE r \in high /\ q \in high
    BY <1>3, <1>9, <2>2 DEF Shape, Linked
  <2>3. CASE r \in low /\ q \in high
    BY <1>1, <1>3, <1>4, <1>9, <2>3
  <2>4. CASE r \in high /\ q \in low
    BY <1>1, <1>3, <1>4, <1>9, <2>4
  <2> QED
    BY <2>1, <2>2, <2>3, <2>4
<1>10. d \subseteq Rows
  BY <1>1, <1>3, <1>4
<1>11. Grown(c, d)
  <2>1. ASSUME NEW r \in c, r.confirmed PROVE r \in d
    BY <1>1, <1>2, <1>3, <1>6, <2>1
  <2>2. ASSUME NEW r \in d
        PROVE  \E q \in c : /\ q.block = r.block
                            /\ q.confirmed = r.confirmed
                            /\ q.numSuc <= r.numSuc
    <3>1. CASE r \in low
      BY <1>2, <1>5, <3>1
    <3>2. CASE r \in high
      BY <1>1, <1>3, <3>2
    <3> QED
      BY <3>1, <3>2
  <2> HIDE DEF d
  <2> QED
    BY <2>1, <2>2 DEF Grown
<1>12. Shape(d, n)
  <2> HIDE DEF d
  <2> QED
    BY <1>8, <1>9, <1>10, SameBlocksShape
<1> QED
  BY <1>11, <1>12 DEF high

\* merge leaves an open chain when it succeeds, and otherwise the rows it
\* found, some with more tickets.
LEMMA MergeSound ==
    ASSUME NEW c, NEW n \in Nat, Sound(c, n), NEW f \in Seq(Blocks), f # << >>
    PROVE  /\ Merge(c, f).ok => \E m \in Nat : Open(Merge(c, f).chain, m)
           /\ ~Merge(c, f).ok => /\ Sound(Merge(c, f).chain, n)
                                 /\ Open(c, n) => Open(Merge(c, f).chain, n)
<1>1. CASE Ancestors(c, f) = {}
  BY <1>1 DEF Merge
<1>2. CASE Ancestors(c, f) # {}
  <2> DEFINE idx == CommonAncestor(c, f).block.index
             cut == DeleteBlocksSince(c, idx + 1)
             head == Insert(cut, Head(f))
  <2>1. idx \in 0 .. n
    <3>1. \A r \in Ancestors(c, f) : r \in c /\ r.block.index \in 0 .. n
      BY DEF Ancestors, Sound, Shape
    <3> DEFINE I == {r.block.index : r \in Ancestors(c, f)}
    <3>2. I \in SUBSET Nat /\ I # {}
      BY <1>2, <3>1
    <3>3. PICK i \in I : \A j \in I : i <= j
      <4> HIDE DEF I
      <4> QED
        BY <3>2, LeastNat
    <3>4. \E r \in Ancestors(c, f) :
             \A q \in Ancestors(c, f) : r.block.index <= q.block.index
      BY <3>3
    <3>5. CommonAncestor(c, f) \in Ancestors(c, f)
      BY <3>4 DEF CommonAncestor
    <3> QED
      BY <3>1, <3>5
  <2>2. Head(f) \in Blocks /\ Tail(f) \in Seq(Blocks) /\ Head(f).index \in Nat
    BY BlocksAssumption DEF IsBlock
  <2> DEFINE i == idx + 1
  <2>3. i \in 1 .. n + 1 /\ idx = i - 1 /\ idx \in Nat
    BY <2>1
  <2>4. Sound(cut, idx)
    <3>1. Sound(DeleteBlocksSince(c, i), i - 1)
      <4> HIDE DEF i
      <4> QED
        BY <2>3, DeleteSound
    <3> QED
      BY <2>3, <3>1
  <2>5. Merge(c, f) = MergeAt(c, f, idx)
    BY <1>2 DEF Merge
  <2> HIDE DEF idx
  <2>6. CASE head.ok
    <3>1. Open(head.chain, Head(f).index)
      <4> HIDE DEF cut
      <4> QED
        BY <2>2, <2>3, <2>4, <2>6, InsertSound
    <3>2. \E m \in Nat : Open(InsertAll(head.chain, Tail(f)), m)
      <4> HIDE DEF head
      <4> QED
        BY <2>2, <3>1, InsertAllOpen
    <3>3. Merge(c, f) = [ok |-> TRUE, chain |-> InsertAll(head.chain, Tail(f))]
      BY <2>5, <2>6 DEF MergeAt
    <3> HIDE DEF head
    <3> QED
      BY <3>2, <3>3
  <2>7. CASE ~head.ok
    <3>1. Sound(head.chain, idx) /\ Grown(cut, head.chain)
      <4> HIDE DEF cut
      <4> QED
        BY <2>2, <2>3, <2>4, <2>7, InsertSound
    <3> DEFINE d == head.chain \cup BlocksSinceIndex(c, i)
    <3>2. Merge(c, f) = [ok |-> FALSE, chain |-> d]
      BY <2>5, <2>7 DEF MergeAt
    <3>3. Shape(c, n) /\ Shape(head.chain, i - 1) /\ Grown(DeleteBlocksSince(c, i), head.chain)
      BY <2>3, <3>1 DEF Sound
    <3>4. Shape(d, n) /\ Grown(c, d)
      <4> HIDE DEF head, cut, i
      <4> QED
        BY <2>3, <3>3, ReintroduceGrown
    <3> HIDE DEF d
    <3>5. Sound(d, n) /\ (Open(c, n) => Open(d, n))
      BY <3>4, GrownSound
    <3> QED
      BY <3>2, <3>5
  <2> QED
    BY <2>6, <2>7
<1> QED
  BY <1>1, <1>2

-----------------------------------------------------------------------------
\* The rows update_round confirms are the lowest unconfirmed ones; when they
\* are not all the unconfirmed rows, the tip is not among them.
LEMMA ConfirmSound ==
    ASSUME NEW c, NEW n \in Nat, Sound(c, n), NEW round
    PROVE  LET new == NewlyConfirmed(c, round)
           IN  /\ Sound(Confirm(c, new), n)
               /\ Open(c, n) /\ new # Unconfirmed(c) => Open(Confirm(c, new), n)
<1> DEFINE new == NewlyConfirmed(c, round)
           d == Confirm(c, new)
<1>1. \A r \in c : r \in Rows /\ r.block.index \in 0 .. n /\ r.confirmed \in BOOLEAN
  BY RowTypes DEF Sound, Shape
<1>2. \A r : r \in new <=>
            /\ r \in c /\ ~r.confirmed
            /\ \A q \in c : ~q.confirmed /\ q.block.index <= r.block.index
                               => Confirmable(q, round)
  BY DEF NewlyConfirmed, Unconfirmed
<1>3. Shape(d, n)
  <2>1. Shape(c, n) /\ new \in SUBSET c
    BY <1>2 DEF Sound
  <2> HIDE DEF new
  <2> QED
    BY <2>1, ConfirmShape
<1>4. ASSUME NEW r \in d
      PROVE  \E q \in c : /\ q.block = r.block
                          /\ q.numSuc = r.numSuc
                          /\ r.confirmed <=> (q.confirmed \/ q \in new)
  <2>1. CASE r \in c \ new
    BY <2>1
  <2>2. CASE \E q \in new : r = [q EXCEPT !.confirmed = TRUE]
    <3>1. PICK q \in new : r = [q EXCEPT !.confirmed = TRUE]
      BY <2>2
    <3>2. q \in Rows /\ q \in c
      BY <1>1, <1>2
    <3> HIDE DEF new
    <3>3. r.block = q.block /\ r.numSuc = q.numSuc /\ r.confirmed
      BY <3>1, <3>2 DEF Rows
    <3> QED
      BY <3>2, <3>3
  <2> QED
    BY <2>1, <2>2 DEF Confirm
<1>5. GenesisRow \in d
  BY <1>2 DEF Sound, Confirm, GenesisRow, Row
<1> HIDE DEF new, d
<1>6. ASSUME NEW r \in d, NEW q \in d, r.confirmed, q.block.index <= r.block.index
      PROVE  q.confirmed
  <2>1. PICK r1 \in c : r1.block = r.block /\ (r1.confirmed \/ r1 \in new)
    BY <1>4, <1>6
  <2>2. PICK q1 \in c : q1.block = q.block /\ (q.confirmed <=> (q1.confirmed \/ q1 \in new))
    BY <1>4
  <2>3. CASE r1.confirmed
    BY <1>6, <2>1, <2>2, <2>3 DEF Sound
  <2>4. CASE r1 \in new /\ ~q1.confirmed
    <3>1. ASSUME NEW s \in c, ~s.confirmed, s.block.index <= q1.block.index
          PROVE  Confirmable(s, round)
      <4>1. s.block.index <= r1.block.index
        BY <1>1, <1>6, <2>1, <2>2, <3>1
      <4> QED
        BY <1>2, <2>4, <3>1, <4>1
    <3>2. q1 \in new
      BY <1>2, <2>4, <3>1
    <3> QED
      BY <2>2, <3>2
  <2> QED
    BY <2>1, <2>2, <2>3, <2>4
<1>7. ASSUME NEW r \in d, ~r.confirmed
      PROVE  r.numSuc >= n - r.block.index
  BY <1>4, <1>7 DEF Sound
<1>8. ASSUME Open(c, n), new # Unconfirmed(c), n # 0, NEW r \in d, r.block.index = n
      PROVE  ~r.confirmed
  <2>1. PICK q \in c : q.block = r.block /\ (r.confirmed <=> (q.confirmed \/ q \in new))
    BY <1>4
  <2>2. ~q.confirmed
    BY <1>8, <2>1 DEF Open
  <2>3. ASSUME q \in new PROVE FALSE
    <3>1. ASSUME NEW s \in Unconfirmed(c) PROVE s \in new
      <4>1. \A u \in c : ~u.confirmed => Confirmable(u, round)
        BY <1>1, <1>2, <1>8, <2>1, <2>3
      <4> QED
        BY <1>2, <4>1 DEF Unconfirmed
    <3>2. new \subseteq Unconfirmed(c)
      BY <1>2 DEF Unconfirmed
    <3> QED
      BY <1>8, <3>1, <3>2
  <2> QED
    BY <2>1, <2>2, <2>3
<1>9. Sound(d, n)
  BY <1>3, <1>5, <1>6, <1>7 DEF Sound
<1>10. Open(c, n) /\ new # Unconfirmed(c) => Open(d, n)
  BY <1>8, <1>9 DEF Open
<1> QED
  BY <1>9, <1>10 DEF new, d

\* In an open chain only the genesis block can be a confirmed tip.
LEMMA OpenTip ==
    ASSUME NEW c, NEW n \in Nat, Open(c, n), TipConfirmed(c)
    PROVE  c = {GenesisRow}
<1>1. PICK r \in c : r.confirmed /\ \A q \in c : q.block.index <= r.block.index
  BY DEF TipConfirmed
<1>2. \A q \in c : q.block.index \in 0 .. n
  BY DEF Open, Sound, Shape
<1>3. PICK t \in c : t.block.index = n
  <2>1. n \in 0 .. n
    OBVIOUS
  <2> QED
    BY <2>1 DEF Open, Sound, Shape
<1>4. r.block.index = n
  BY <1>1, <1>2, <1>3
<1>5. n = 0
  BY <1>1, <1>4 DEF Open
<1>6. GenesisRow \in c /\ GenesisRow.block.index = 0
  BY DEF Open, Sound, GenesisRow, Row, GenesisBlock
<1>7. \A q \in c : q.block.index = 0
  BY <1>2, <1>5
<1>8. \A q \in c : q = GenesisRow
  BY <1>6, <1>7 DEF Open, Sound, Shape, Linked
<1> QED
  BY <1>6, <1>8

\* Above the row of index i stand n - i rows.
LEMMA AboveCount ==
    ASSUME NEW c, NEW n \in Nat, Shape(c, n), NEW r \in c
    PROVE  Cardinality({q \in c : q.block.index > r.block.index}) = n - r.block.index
<1> DEFINE i == r.block.index + 1
           cut == DeleteBlocksSince(c, i)
           above == {q \in c : q.block.index > r.block.index}
<1>1. \A q \in c : q.block.index \in 0 .. n
  BY DEF Shape
<1>2. i \in 1 .. n + 1 /\ i - 1 \in Nat
  BY <1>1
<1>3. Shape(cut, i - 1)
  <2> HIDE DEF i
  <2> QED
    BY <1>2, DeleteShape
<1>4. IsFiniteSet(c) /\ Cardinality(c) = n + 1
  BY ShapeCount DEF NumberOfBlocks
<1>5. IsFiniteSet(cut) /\ Cardinality(cut) = (i - 1) + 1
  <2> HIDE DEF i, cut
  <2> QED
    BY <1>2, <1>3, ShapeCount DEF NumberOfBlocks
<1>6. above = c \ cut /\ c \cap cut = cut
  BY <1>1 DEF DeleteBlocksSince
<1>7. Cardinality(c \ cut) = Cardinality(c) - Cardinality(c \cap cut)
  BY <1>4, FS_Difference
<1> HIDE DEF above, cut
<1>8. Cardinality(above) = (n + 1) - ((i - 1) + 1)
  BY <1>4, <1>5, <1>6, <1>7
<1>9. (n + 1) - ((i - 1) + 1) = n - r.block.index
  BY <1>1
<1> QED
  BY <1>8, <1>9 DEF above

-----------------------------------------------------------------------------
(***************************************************************************)
(* What the operators do to the blocks of the rows.                        *)
(***************************************************************************)
\* The index of a block is at most its round, because rounds grow along the chain.
LEMMA IndexWithinRound ==
    ASSUME NEW c, NEW n \in Nat, Shape(c, n), NEW r \in c
    PROVE  r.block.index <= r.block.round
<1> DEFINE Bad == {q.block.index : q \in {x \in c : ~(x.block.index <= x.block.round)}}
<1>1. \A q \in c : q.block.index \in Nat /\ q.block.round \in Nat
  BY RowTypes DEF Shape
<1>2. ASSUME Bad # {} PROVE FALSE
  <2>1. Bad \in SUBSET Nat
    BY <1>1
  <2>2. PICK i \in Bad : \A j \in Bad : i <= j
    <3> HIDE DEF Bad
    <3> QED
      BY <1>2, <2>1, LeastNat
  <2>3. PICK q \in c : q.block.index = i /\ ~(q.block.index <= q.block.round)
    BY <2>2
  <2>4. q.block # GenesisBlock
    BY <2>3 DEF GenesisBlock
  <2>5. PICK p \in c : p.block.index = q.block.index - 1 /\ p.block.round < q.block.round
    BY <2>4 DEF Shape, Linked
  <2>6. p.block.index <= p.block.round
    <3>1. SUFFICES ASSUME ~(p.block.index <= p.block.round) PROVE FALSE
      OBVIOUS
    <3>2. p.block.index \in Bad
      BY <3>1
    <3>3. i <= p.block.index
      BY <2>2, <3>2
    <3> HIDE DEF Bad
    <3> QED
      BY <1>1, <2>3, <2>5, <3>3
  <2> HIDE DEF Bad
  <2> QED
    BY <1>1, <2>3, <2>5, <2>6
<1> QED
  BY <1>2

\* insert brings no block into the table but its own, and that only if it says so.
LEMMA InsertBlocks ==
    ASSUME NEW c, NEW n \in Nat, Shape(c, n), NEW b \in Blocks,
           NEW r \in Insert(c, b).chain
    PROVE  (\E q \in c : q.block = r.block) \/ (Insert(c, b).ok /\ r.block = b)
<1>1. CASE ~Insert(c, b).ok
  BY <1>1, InsertRefused
<1>2. CASE Insert(c, b).ok
  <2>1. Insert(c, b).chain = DeleteBlocksSince(Counted(c, b), b.index) \cup {Row(b, FALSE)}
    BY <1>2 DEF Insert
  <2>2. CASE r \in Counted(c, b)
    <3>1. {q.block : q \in Counted(c, b)} = {q.block : q \in c}
      BY CountBlocks DEF Counted, Shape
    <3> QED
      BY <2>2, <3>1
  <2> QED
    BY <1>2, <2>1, <2>2 DEF DeleteBlocksSince, Row
<1> QED
  BY <1>1, <1>2

\* Neither does a merge that fails.
LEMMA MergeRefusedBlocks ==
    ASSUME NEW c, NEW n \in Nat, Shape(c, n), NEW f \in Seq(Blocks), f # << >>,
           ~Merge(c, f).ok, NEW r \in Merge(c, f).chain
    PROVE  \E q \in c : q.block = r.block
<1>1. CASE Ancestors(c, f) = {}
  BY <1>1 DEF Merge
<1>2. CASE Ancestors(c, f) # {}
  <2> DEFINE idx == CommonAncestor(c, f).block.index
             cut == DeleteBlocksSince(c, idx + 1)
             head == Insert(cut, Head(f))
  <2>1. idx \in 0 .. n
    <3>1. \A q \in Ancestors(c, f) : q \in c /\ q.block.index \in 0 .. n
      BY DEF Ancestors, Shape
    <3> DEFINE I == {q.block.index : q \in Ancestors(c, f)}
    <3>2. I \in SUBSET Nat /\ I # {}
      BY <1>2, <3>1
    <3>3. PICK i \in I : \A j \in I : i <= j
      <4> HIDE DEF I
      <4> QED
        BY <3>2, LeastNat
    <3>4. CommonAncestor(c, f) \in Ancestors(c, f)
      BY <3>3 DEF CommonAncestor
    <3> QED
      BY <3>1, <3>4
  <2>2. Merge(c, f) = MergeAt(c, f, idx)
    BY <1>2 DEF Merge
  <2>3. Head(f) \in Blocks
    BY HeadTailProperties
  <2> DEFINE i == idx + 1
  <2>4. i \in 1 .. n + 1 /\ idx = i - 1 /\ idx \in Nat
    BY <2>1
  <2>5. Shape(cut, idx)
    <3>1. Shape(DeleteBlocksSince(c, i), i - 1)
      <4> HIDE DEF i
      <4> QED
        BY <2>4, DeleteShape
    <3> QED
      BY <2>4, <3>1
  <2> HIDE DEF idx, i
  <2>6. ~head.ok /\ Merge(c, f).chain = head.chain \cup BlocksSinceIndex(c, idx + 1)
    BY <2>2 DEF MergeAt
  <2>7. CASE r \in head.chain
    <3>1. {q.block : q \in head.chain} = {q.block : q \in cut}
      <4> HIDE DEF cut
      <4> QED
        BY <2>3, <2>4, <2>5, <2>6, InsertRefused
    <3>2. \E q \in cut : q.block = r.block
      <4> HIDE DEF head, cut
      <4>1. r.block \in {q.block : q \in cut}
        BY <2>7, <3>1
      <4> QED
        BY <4>1
    <3> QED
      BY <3>2 DEF DeleteBlocksSince
  <2> QED
    BY <2>6, <2>7 DEF BlocksSinceIndex
<1> QED
  BY <1>1, <1>2

\* Confirmations change no block.
LEMMA ConfirmBlocks ==
    ASSUME NEW c, c \subseteq Rows, NEW rows \in SUBSET c, NEW r \in Confirm(c, rows)
    PROVE  \E q \in c : q.block = r.block
<1>1. CASE r \in c
  BY <1>1
<1>2. CASE r \notin c
  <2>1. PICK q \in rows : r = [q EXCEPT !.confirmed = TRUE]
    BY <1>2 DEF Confirm
  <2>2. q \in Rows
    OBVIOUS
  <2> QED
    BY <2>1, <2>2 DEF Rows
<1> QED
  BY <1>1, <1>2

\* The row of an index of the chain.
LEMMA RowAtOK ==
    ASSUME NEW c, NEW n \in Nat, Shape(c, n), NEW i \in 0 .. n
    PROVE  RowAt(c, i) \in c /\ RowAt(c, i).block.index = i
<1>1. \E r \in c : r.block.index = i
  BY DEF Shape
<1> QED
  BY <1>1 DEF RowAt
-----------------------------------------------------------------------------
(* The path of a chain: what insert, merge and a round change make of it *)

\* The block at height k, and a subchain whose blocks are the ones of one chain,
\* as in ForkChoice.
BlockAtHeight(c, k) == IF k = 0 THEN GenesisBlock ELSE Path(c)[k]

Climbs(f) == \A k \in DOMAIN f : f[k].index = f[1].index + k - 1

LEMMA PrefixOK ==
    ASSUME NEW p \in Seq(Blocks), NEW j \in 0 .. Len(p)
    PROVE  /\ SubSeq(p, 1, j) \in Seq(Blocks)
           /\ Len(SubSeq(p, 1, j)) = j
           /\ \A k \in 1 .. j : SubSeq(p, 1, j)[k] = p[k]
<1>1. \A k \in 1 .. j : p[k] \in Blocks
  OBVIOUS
<1>2. j \in Int /\ 1 \in Int /\ j - 1 + 1 = j
  OBVIOUS
<1>3. /\ SubSeq(p, 1, j) \in Seq(Blocks)
      /\ Len(SubSeq(p, 1, j)) = IF 1 <= j THEN j - 1 + 1 ELSE 0
      /\ \A k \in 1 .. j - 1 + 1 : SubSeq(p, 1, j)[k] = p[1 + k - 1]
  BY <1>1, <1>2, SubSeqProperties
<1>4. \A k \in 1 .. j : 1 + k - 1 = k
  OBVIOUS
<1> QED
  BY <1>2, <1>3, <1>4

\* The path of a chain.
LEMMA PathOK ==
    ASSUME NEW c, NEW n \in Nat, Shape(c, n)
    PROVE  /\ Path(c) \in Seq(Blocks)
           /\ Len(Path(c)) = n
           /\ \A k \in 1 .. n : Path(c)[k] = RowAt(c, k).block
<1>1. NumberOfBlocks(c) - 1 = n
  <2>1. NumberOfBlocks(c) = n + 1
    BY ShapeCount
  <2> QED
    BY <2>1
<1>2. Path(c) = [k \in 1 .. n |-> RowAt(c, k).block]
  BY <1>1 DEF Path
<1>3. ASSUME NEW k \in 1 .. n PROVE RowAt(c, k).block \in Blocks
  <2>1. k \in 0 .. n /\ k # 0
    OBVIOUS
  <2>2. RowAt(c, k) \in c /\ RowAt(c, k).block.index = k
    BY <2>1, RowAtOK
  <2>3. RowAt(c, k).block \in Blocks \cup {GenesisBlock}
    BY <2>2 DEF Shape, Rows
  <2> QED
    BY <2>1, <2>2, <2>3 DEF GenesisBlock
<1> QED
  BY <1>2, <1>3

\* A row stands on the path at its index.
LEMMA RowOnPath ==
    ASSUME NEW c, NEW n \in Nat, Shape(c, n), NEW r \in c
    PROVE  /\ r.block.index \in 0 .. n
           /\ BlockAtHeight(c, r.block.index) = r.block
<1>1. r.block.index \in 0 .. n
  BY DEF Shape
<1>2. CASE r.block.index = 0
  <2>1. PICK g \in c : g.block = GenesisBlock
    BY DEF Shape, Linked
  <2>2. g = r
    BY <1>2, <2>1 DEF Shape, Linked, GenesisBlock
  <2> QED
    BY <1>1, <1>2, <2>1, <2>2 DEF BlockAtHeight
<1>3. CASE r.block.index # 0
  <2>1. RowAt(c, r.block.index) = r
    BY RowAtUnique
  <2>2. r.block.index \in 1 .. n
    BY <1>1, <1>3
  <2>3. Path(c)[r.block.index] = RowAt(c, r.block.index).block
    BY <2>2, PathOK
  <2> QED
    BY <1>1, <1>3, <2>1, <2>3 DEF BlockAtHeight
<1> QED
  BY <1>2, <1>3

\* Where two chains of one height hold the same blocks, they are the same path.
LEMMA SamePath ==
    ASSUME NEW c, NEW n \in Nat, Shape(c, n), NEW d, NEW m \in Nat, Shape(d, m),
           NEW i \in Nat, i <= n, i <= m,
           \A r \in d : r.block.index <= i => \E q \in c : q.block = r.block
    PROVE  \A k \in 1 .. i : Path(d)[k] = Path(c)[k]
<1> SUFFICES ASSUME NEW k \in 1 .. i PROVE Path(d)[k] = Path(c)[k]
  OBVIOUS
<1>1. k \in 0 .. m /\ k \in 1 .. n /\ k \in 1 .. m /\ k <= i /\ k # 0
  OBVIOUS
<1>2. RowAt(d, k) \in d /\ RowAt(d, k).block.index = k
  BY <1>1, RowAtOK
<1>3. Path(d)[k] = RowAt(d, k).block
  BY <1>1, PathOK
<1>4. PICK q \in c : q.block = RowAt(d, k).block
  BY <1>1, <1>2
<1>5. BlockAtHeight(c, k) = q.block
  BY <1>2, <1>4, RowOnPath
<1> QED
  BY <1>1, <1>3, <1>4, <1>5 DEF BlockAtHeight

LEMMA SameHeightPath ==
    ASSUME NEW c, NEW n \in Nat, Shape(c, n), NEW d, Shape(d, n),
           \A r \in d : \E q \in c : q.block = r.block
    PROVE  Path(d) = Path(c)
<1>1. \A k \in 1 .. n : Path(d)[k] = Path(c)[k]
  BY SamePath
<1>2. Path(c) \in Seq(Blocks) /\ Len(Path(c)) = n
  BY PathOK
<1>3. Path(d) \in Seq(Blocks) /\ Len(Path(d)) = n
  BY PathOK
<1> HIDE DEF Path
<1> QED
  BY <1>1, <1>2, <1>3, SeqEqual

-----------------------------------------------------------------------------
\* What insert does to the path: the block follows the one below it, beats the
\* one in its place, and cuts what stood above.
LEMMA InsertPath ==
    ASSUME NEW c, NEW n \in Nat, Shape(c, n), NEW b \in Blocks, Insert(c, b).ok
    PROVE  /\ b.index \in 1 .. n + 1
           /\ Shape(Insert(c, b).chain, b.index)
           /\ Path(Insert(c, b).chain) = Append(SubSeq(Path(c), 1, b.index - 1), b)
           /\ b.parent = Hash(BlockAtHeight(c, b.index - 1))
           /\ b.round > BlockAtHeight(c, b.index - 1).round
           /\ b.index <= n => ProofHash(b) < ProofHash(Path(c)[b.index])
<1> DEFINE i == b.index
           d == Insert(c, b).chain
           e == Counted(c, b)
<1>1. i \in 1 .. n + 1 /\ Shape(d, i)
  BY InsertTaken
<1>2. i \in Nat /\ i - 1 \in Nat /\ i - 1 <= n /\ i - 1 <= i /\ i - 1 \in 0 .. n
  BY <1>1
<1>3. /\ Acceptable(c, b) /\ Preferred(e, b)
      /\ d = DeleteBlocksSince(e, i) \cup {Row(b, FALSE)}
  BY DEF Insert
<1>4. Shape(e, n) /\ {r.block : r \in e} = {r.block : r \in c}
  BY CountShape, CountBlocks, ValidateType DEF Counted, Shape
<1>5. Path(e) = Path(c)
  <2>1. \A r \in e : \E q \in c : q.block = r.block
    BY <1>4
  <2> HIDE DEF e
  <2> QED
    BY <1>4, <2>1, SameHeightPath
<1>6. BlockAtHeight(e, i - 1) = BlockAtHeight(c, i - 1)
  BY <1>5 DEF BlockAtHeight
<1>7. PICK p \in c : p.block.index = i - 1 /\ Hash(p.block) = b.parent
  BY <1>3 DEF Acceptable, HasCorrectParent
<1>8. BlockAtHeight(c, i - 1) = p.block
  BY <1>7, RowOnPath
<1>9. RowAt(e, i - 1) \in e /\ RowAt(e, i - 1).block.index = i - 1
  <2> HIDE DEF e, i
  <2> QED
    BY <1>2, <1>4, RowAtOK
<1>10. BlockAtHeight(e, i - 1) = RowAt(e, i - 1).block
  <2> HIDE DEF e
  <2> QED
    BY <1>4, <1>9, RowOnPath
<1>11. b.round > BlockAtHeight(c, i - 1).round
  BY <1>3, <1>6, <1>10 DEF Preferred
<1>12. ASSUME i <= n PROVE ProofHash(b) < ProofHash(Path(c)[i])
  <2>1. NumberOfBlocks(e) = n + 1
    <3> HIDE DEF e
    <3> QED
      BY <1>4, ShapeCount
  <2>2. NumberOfBlocks(e) > i
    BY <1>2, <1>12, <2>1
  <2>3. ProofHash(b) < ProofHash(RowAt(e, i).block)
    BY <1>3, <2>2 DEF Preferred
  <2>4. i \in 1 .. n
    BY <1>1, <1>12
  <2>5. Path(e)[i] = RowAt(e, i).block
    <3> HIDE DEF e, i
    <3> QED
      BY <1>4, <2>4, PathOK
  <2> QED
    BY <1>5, <2>3, <2>5
<1>13. Path(d) = Append(SubSeq(Path(c), 1, i - 1), b)
  <2>1. Row(b, FALSE) \in d /\ Row(b, FALSE).block = b
    BY <1>3 DEF Row
  <2>2. BlockAtHeight(d, i) = b
    <3>1. Row(b, FALSE).block.index = i
      BY <2>1
    <3> DEFINE row == Row(b, FALSE)
    <3>2. row \in d /\ row.block.index = i /\ row.block = b
      BY <2>1, <3>1
    <3> HIDE DEF d, i, row
    <3>3. BlockAtHeight(d, row.block.index) = row.block
      BY <1>1, <1>2, <3>2, RowOnPath
    <3> QED
      BY <3>2, <3>3
  <2>3. ASSUME NEW r \in d, r.block.index <= i - 1 PROVE \E q \in c : q.block = r.block
    <3>1. r # Row(b, FALSE)
      <4>1. b.index \in Nat => ~(b.index <= b.index - 1)
        OBVIOUS
      <4>2. r = Row(b, FALSE) => r.block.index = b.index
        BY <2>1
      <4> QED
        BY <1>2, <2>3, <4>1, <4>2
    <3>2. r \in e
      BY <1>3, <2>3, <3>1 DEF DeleteBlocksSince
    <3> QED
      BY <1>4, <3>2
  <2>4. \A k \in 1 .. i - 1 : Path(d)[k] = Path(c)[k]
    <3> DEFINE j == i - 1
    <3>1. j \in Nat /\ j <= n /\ j <= i /\ i \in Nat
      BY <1>2
    <3>2. \A r \in d : r.block.index <= j => \E q \in c : q.block = r.block
      BY <2>3
    <3> HIDE DEF d, i, j
    <3>3. \A k \in 1 .. j : Path(d)[k] = Path(c)[k]
      BY <1>1, <3>1, <3>2, SamePath
    <3> QED
      BY <3>3 DEF j
  <2>5. Path(d) \in Seq(Blocks) /\ Len(Path(d)) = i
    <3> HIDE DEF d, i
    <3> QED
      BY <1>1, <1>2, PathOK
  <2>6. Path(c) \in Seq(Blocks) /\ Len(Path(c)) = n
    BY PathOK
  <2>7. Path(d)[i] = b
    BY <1>1, <2>2 DEF BlockAtHeight
  <2> HIDE DEF d, i
  <2>8. SubSeq(Path(c), 1, i - 1) \in Seq(Blocks)
        /\ Len(SubSeq(Path(c), 1, i - 1)) = i - 1
        /\ \A k \in 1 .. i - 1 : SubSeq(Path(c), 1, i - 1)[k] = Path(c)[k]
    <3>1. i - 1 \in 0 .. Len(Path(c))
      BY <1>2, <2>6
    <3> QED
      BY <2>6, <3>1, PrefixOK
  <2> DEFINE s == SubSeq(Path(c), 1, i - 1)
             t == Path(d)
  <2>9. s \in Seq(Blocks) /\ Len(s) = i - 1 /\ t \in Seq(Blocks) /\ Len(t) = i /\ t[i] = b
        /\ \A k \in 1 .. i - 1 : s[k] = t[k]
    BY <2>4, <2>5, <2>7, <2>8
  <2> HIDE DEF s, t
  <2>10. Append(s, b) \in Seq(Blocks) /\ Len(Append(s, b)) = i
         /\ \A k \in 1 .. i - 1 : Append(s, b)[k] = s[k]
         /\ Append(s, b)[i] = b
    BY <1>2, <2>9, AppendProperties
  <2>11. \A k \in 1 .. i : Append(s, b)[k] = t[k]
    BY <1>2, <2>9, <2>10
  <2>12. t = Append(s, b)
    BY <2>9, <2>10, <2>11, SeqEqual
  <2> QED
    BY <2>12 DEF s, t
<1> QED
  BY <1>1, <1>7, <1>8, <1>11, <1>12, <1>13

-----------------------------------------------------------------------------
\* Three sequences of blocks, put after each other.
LEMMA ThreeParts ==
    ASSUME NEW p \in Seq(Blocks), NEW q \in Seq(Blocks), NEW s \in Seq(Blocks)
    PROVE  (p \o q) \o s = p \o (q \o s)
OBVIOUS

LEMMA AppendFork ==
    ASSUME NEW p \in Seq(Blocks), NEW f \in Seq(Blocks), NEW j \in 0 .. Len(f) - 1
    PROVE  Append(p \o SubSeq(f, 1, j), f[j + 1]) = p \o SubSeq(f, 1, j + 1)
<1>1. j \in 0 .. Len(f) /\ j + 1 \in 1 .. Len(f) /\ j + 1 \in 0 .. Len(f) /\ j \in Nat
  OBVIOUS
<1> DEFINE a == SubSeq(f, 1, j)
           b == SubSeq(f, 1, j + 1)
           x == f[j + 1]
<1>2. a \in Seq(Blocks) /\ Len(a) = j /\ \A k \in 1 .. j : a[k] = f[k]
  BY <1>1, PrefixOK
<1>3. b \in Seq(Blocks) /\ Len(b) = j + 1 /\ \A k \in 1 .. j + 1 : b[k] = f[k]
  <2> DEFINE i == j + 1
  <2>1. i \in 0 .. Len(f)
    BY <1>1
  <2> HIDE DEF i
  <2>2. /\ SubSeq(f, 1, i) \in Seq(Blocks) /\ Len(SubSeq(f, 1, i)) = i
        /\ \A k \in 1 .. i : SubSeq(f, 1, i)[k] = f[k]
    BY <2>1, PrefixOK
  <2> QED
    BY <2>2 DEF i
<1>4. x \in Blocks /\ x = f[j + 1]
  BY <1>1
<1> HIDE DEF a, b, x
<1>5. Append(a, x) \in Seq(Blocks) /\ Len(Append(a, x)) = j + 1
      /\ (\A k \in 1 .. j : Append(a, x)[k] = a[k]) /\ Append(a, x)[j + 1] = x
  BY <1>2, <1>4, AppendProperties
<1>6. \A k \in 1 .. j + 1 : Append(a, x)[k] = b[k]
  BY <1>1, <1>2, <1>3, <1>4, <1>5
<1>7. b = Append(a, x)
  BY <1>3, <1>5, <1>6, SeqEqual
<1>8. Append(p \o a, x) = p \o Append(a, x)
  <2> DEFINE y == <<x>>
  <2>1. p \o a \in Seq(Blocks) /\ y \in Seq(Blocks)
    BY <1>2, <1>4, ConcatProperties
  <2>2. Append(p \o a, x) = (p \o a) \o y /\ Append(a, x) = a \o y
    BY <1>2, <1>4, <2>1, AppendIsConcat
  <2> HIDE DEF y
  <2>3. (p \o a) \o y = p \o (a \o y)
    BY <1>2, <2>1, ThreeParts
  <2> QED
    BY <2>2, <2>3
<1> QED
  BY <1>7, <1>8 DEF a, b, x

\* A block that follows the tip is put on top of it.
LEMMA InsertOnTip ==
    ASSUME NEW c, NEW n \in Nat, Shape(c, n), NEW b \in Blocks, Insert(c, b).ok, b.index = n + 1
    PROVE  /\ Shape(Insert(c, b).chain, n + 1)
           /\ Path(Insert(c, b).chain) = Append(Path(c), b)
<1>1. /\ Shape(Insert(c, b).chain, b.index)
      /\ Path(Insert(c, b).chain) = Append(SubSeq(Path(c), 1, b.index - 1), b)
  BY InsertPath
<1>2. b.index - 1 = n
  OBVIOUS
<1>3. Path(c) \in Seq(Blocks) /\ Len(Path(c)) = n /\ n \in 0 .. n
  BY PathOK
<1>4. SubSeq(Path(c), 1, n) = Path(c)
  <2> DEFINE p == Path(c)
             q == SubSeq(Path(c), 1, n)
  <2>1. q \in Seq(Blocks) /\ Len(q) = n /\ \A k \in 1 .. n : q[k] = p[k]
    BY <1>3, PrefixOK
  <2>2. p \in Seq(Blocks) /\ Len(p) = n
    BY <1>3
  <2> HIDE DEF p, q
  <2>3. q = p
    BY <2>1, <2>2, SeqEqual
  <2> QED
    BY <2>3 DEF p, q
<1> QED
  BY <1>1, <1>2, <1>4

\* The loop of merge puts the blocks of a subchain on top, one after the other,
\* until one is refused.
LEMMA InsertAllPath ==
    ASSUME NEW c, NEW n \in Nat, Shape(c, n), NEW f \in Seq(Blocks),
           \A k \in 1 .. Len(f) : f[k].index = n + k
    PROVE  \E j \in 0 .. Len(f) : Path(InsertAll(c, f)) = Path(c) \o SubSeq(f, 1, j)
<1> DEFINE loop == InsertLoop(c, f)
           Good(k, j) == /\ Shape(loop[k].chain, n + j)
                         /\ Path(loop[k].chain) = Path(c) \o SubSeq(f, 1, j)
                         /\ loop[k].ok => j = k
           Bad == {k \in 0 .. Len(f) : ~ \E j \in 0 .. k : Good(k, j)}
<1>1. Len(f) \in Nat /\ \A k \in 1 .. Len(f) : f[k] \in Blocks
  OBVIOUS
<1>2. \A k \in 0 .. Len(f) :
         loop[k] = IF k = 0 THEN [ok |-> TRUE, chain |-> c]
                   ELSE IF loop[k - 1].ok THEN Insert(loop[k - 1].chain, f[k])
                   ELSE loop[k - 1]
  <2>1. Iterates(loop, c, f, Len(f))
    BY <1>1, InsertLoopDef
  <2> HIDE DEF loop
  <2> QED
    BY <2>1 DEF Iterates
<1> HIDE DEF loop
<1>3. Path(c) \in Seq(Blocks)
  BY PathOK
<1>4. SUFFICES ASSUME Bad # {} PROVE FALSE
  <2>1. Len(f) \in 0 .. Len(f)
    BY <1>1
  <2> QED
    BY <2>1 DEF InsertAll, loop
<1>5. PICK k \in Bad : \A j \in Bad : k <= j
  <2>1. Bad \in SUBSET Nat
    BY <1>1
  <2> HIDE DEF Bad
  <2> QED
    BY <1>4, <2>1, LeastNat
<1>6. CASE k = 0
  <2>1. loop[0].chain = c
    BY <1>1, <1>2
  <2>2. SubSeq(f, 1, 0) = << >>
    <3>1. 0 \in 0 .. Len(f)
      BY <1>1
    <3>2. SubSeq(f, 1, 0) \in Seq(Blocks) /\ Len(SubSeq(f, 1, 0)) = 0
      BY <3>1, PrefixOK
    <3> QED
      BY <3>2, EmptySeq
  <2>3. Path(c) \o << >> = Path(c)
    BY <1>3, ConcatEmptySeq
  <2>4. n + 0 = n /\ 0 \in 0 .. 0
    OBVIOUS
  <2>5. Good(0, 0)
    BY <2>1, <2>2, <2>3, <2>4
  <2> QED
    BY <1>6, <2>4, <2>5
<1>7. CASE k # 0
  <2>1. k - 1 \in 0 .. Len(f) /\ k - 1 \notin Bad /\ k \in 1 .. Len(f) /\ k - 1 \in 0 .. Len(f) - 1
    <3>1. k \in 0 .. Len(f)
      OBVIOUS
    <3>2. k - 1 < k
      BY <3>1
    <3> HIDE DEF Bad
    <3>3. k - 1 \notin Bad
      BY <1>1, <1>5, <3>1, <3>2
    <3> QED
      BY <1>1, <1>7, <3>1, <3>3
  <2>2. PICK j \in 0 .. k - 1 : Good(k - 1, j)
    BY <2>1
  <2>3. j \in 0 .. k /\ k \in 0 .. k /\ n + j \in Nat
    BY <1>1, <2>1
  <2> DEFINE d == loop[k - 1].chain
  <2>4. Shape(d, n + j) /\ Path(d) = Path(c) \o SubSeq(f, 1, j)
    BY <2>2
  <2>5. CASE ~loop[k - 1].ok
    <3>1. loop[k] = loop[k - 1]
      BY <1>2, <1>7, <2>5
    <3>2. Good(k, j)
      BY <2>4, <2>5, <3>1
    <3> QED
      BY <2>3, <3>2
  <2>6. CASE loop[k - 1].ok
    <3>1. j = k - 1 /\ loop[k] = Insert(d, f[k])
      BY <1>2, <1>7, <2>2, <2>6
    <3>2. f[k] \in Blocks /\ f[k].index = (n + j) + 1
      BY <1>1, <2>1, <3>1
    <3>3. CASE Insert(d, f[k]).ok
      <4>1. Shape(Insert(d, f[k]).chain, (n + j) + 1)
            /\ Path(Insert(d, f[k]).chain) = Append(Path(d), f[k])
        <5> DEFINE h == n + j
                   b == f[k]
        <5>1. h \in Nat /\ Shape(d, h) /\ b \in Blocks /\ b.index = h + 1 /\ Insert(d, b).ok
          BY <2>3, <2>4, <3>2, <3>3
        <5> HIDE DEF d, h, b
        <5>2. Shape(Insert(d, b).chain, h + 1) /\ Path(Insert(d, b).chain) = Append(Path(d), b)
          BY <5>1, InsertOnTip
        <5> QED
          BY <5>2 DEF h, b
      <4>2. Append(Path(c) \o SubSeq(f, 1, k - 1), f[(k - 1) + 1]) = Path(c) \o SubSeq(f, 1, (k - 1) + 1)
        BY <1>3, <2>1, AppendFork
      <4>3. (k - 1) + 1 = k /\ (n + j) + 1 = n + k
        BY <2>1, <3>1
      <4> HIDE DEF d
      <4>4. Good(k, k)
        BY <2>4, <3>1, <4>1, <4>2, <4>3
      <4> QED
        BY <2>3, <4>4
    <3>4. CASE ~Insert(d, f[k]).ok
      <4>1. Shape(Insert(d, f[k]).chain, n + j)
            /\ {r.block : r \in Insert(d, f[k]).chain} = {r.block : r \in d}
        <5> DEFINE h == n + j
                   b == f[k]
        <5>1. h \in Nat /\ Shape(d, h) /\ b \in Blocks /\ ~Insert(d, b).ok
          BY <2>3, <2>4, <3>2, <3>4
        <5> HIDE DEF d, h, b
        <5>2. Shape(Insert(d, b).chain, h) /\ {r.block : r \in Insert(d, b).chain} = {r.block : r \in d}
          BY <5>1, InsertRefused
        <5> QED
          BY <5>2 DEF h, b
      <4> DEFINE e == Insert(d, f[k]).chain
      <4>2. \A r \in e : \E q \in d : q.block = r.block
        BY <4>1
      <4>3. Path(e) = Path(d)
        <5> DEFINE h == n + j
        <5>1. h \in Nat /\ Shape(d, h) /\ Shape(e, h)
          BY <2>3, <2>4, <4>1
        <5> HIDE DEF d, e, h
        <5> QED
          BY <4>2, <5>1, SameHeightPath
      <4> HIDE DEF d
      <4>4. Good(k, j)
        BY <2>4, <3>1, <3>4, <4>1, <4>3
      <4> QED
        BY <2>3, <4>4
    <3> QED
      BY <3>3, <3>4
  <2> QED
    BY <2>5, <2>6
<1> QED
  BY <1>6, <1>7

LEMMA ForkHead ==
    ASSUME NEW f \in Seq(Blocks), f # << >>, NEW j \in 0 .. Len(Tail(f))
    PROVE  /\ j + 1 \in 1 .. Len(f)
           /\ <<f[1]>> \o SubSeq(Tail(f), 1, j) = SubSeq(f, 1, j + 1)
<1> DEFINE t == Tail(f)
           s == SubSeq(t, 1, j)
           i == j + 1
           q == SubSeq(f, 1, i)
<1>1. /\ t \in Seq(Blocks) /\ Len(t) = Len(f) - 1
      /\ \A k \in 1 .. Len(t) : t[k] = f[k + 1]
  BY HeadTailProperties
<1>2. j \in Nat /\ i \in 1 .. Len(f) /\ i \in 0 .. Len(f) /\ 1 \in 1 .. Len(f) /\ j <= Len(t)
  BY <1>1
<1>3. s \in Seq(Blocks) /\ Len(s) = j /\ \A k \in 1 .. j : s[k] = t[k]
  <2> HIDE DEF t
  <2> QED
    BY <1>1, PrefixOK
<1>4. q \in Seq(Blocks) /\ Len(q) = i /\ \A k \in 1 .. i : q[k] = f[k]
  <2> HIDE DEF i
  <2> QED
    BY <1>2, PrefixOK
<1>5. <<f[1]>> \in Seq(Blocks) /\ Len(<<f[1]>>) = 1 /\ <<f[1]>>[1] = f[1]
  BY <1>2
<1> DEFINE x == <<f[1]>>
<1>6. x \in Seq(Blocks) /\ Len(x) = 1 /\ x[1] = f[1]
  BY <1>5
<1> HIDE DEF t, s, q, x
<1>7. /\ x \o s \in Seq(Blocks) /\ Len(x \o s) = 1 + j
      /\ \A k \in 1 .. 1 + j : (x \o s)[k] = IF k <= 1 THEN x[k] ELSE s[k - 1]
  <2>1. /\ x \o s \in Seq(Blocks) /\ Len(x \o s) = Len(x) + Len(s)
        /\ \A k \in 1 .. Len(x) + Len(s) :
              (x \o s)[k] = IF k <= Len(x) THEN x[k] ELSE s[k - Len(x)]
    BY <1>3, <1>6, ConcatProperties
  <2> QED
    BY <1>3, <1>6, <2>1
<1>8. ASSUME NEW k \in 1 .. 1 + j PROVE (x \o s)[k] = q[k]
  <2>1. CASE k = 1
    BY <1>2, <1>4, <1>6, <1>7, <2>1
  <2>2. CASE k # 1
    <3>1. k - 1 \in 1 .. j /\ k - 1 \in 1 .. Len(t) /\ (k - 1) + 1 = k /\ k \in 1 .. i /\ ~(k <= 1)
      BY <1>2, <2>2
    <3>2. (x \o s)[k] = t[k - 1]
      BY <1>3, <1>7, <3>1
    <3>3. t[k - 1] = f[k]
      BY <1>1, <3>1
    <3> QED
      BY <1>4, <3>1, <3>2, <3>3
  <2> QED
    BY <2>1, <2>2
<1>9. x \o s = q
  <2>1. Len(q) = 1 + j
    BY <1>2, <1>4
  <2> QED
    BY <1>4, <1>7, <1>8, <2>1, SeqEqual
<1> QED
  BY <1>2, <1>9 DEF x, s, t, q

\* A chain that is cut above height i.
LEMMA CutPath ==
    ASSUME NEW c, NEW n \in Nat, Shape(c, n), NEW i \in 0 .. n
    PROVE  /\ Shape(DeleteBlocksSince(c, i + 1), i)
           /\ Path(DeleteBlocksSince(c, i + 1)) = SubSeq(Path(c), 1, i)
<1> DEFINE cut == DeleteBlocksSince(c, i + 1)
           p == Path(cut)
           q == SubSeq(Path(c), 1, i)
<1>1. Shape(cut, i) /\ cut \subseteq c
  <2> DEFINE j == i + 1
  <2>1. j \in 1 .. n + 1 /\ i = j - 1
    OBVIOUS
  <2>2. Shape(DeleteBlocksSince(c, j), j - 1)
    <3> HIDE DEF j
    <3> QED
      BY <2>1, DeleteShape
  <2> QED
    BY <2>1, <2>2 DEF DeleteBlocksSince
<1> HIDE DEF cut
<1>2. p \in Seq(Blocks) /\ Len(p) = i
  BY <1>1, PathOK
<1>3. Path(c) \in Seq(Blocks) /\ Len(Path(c)) = n
  BY PathOK
<1>4. q \in Seq(Blocks) /\ Len(q) = i /\ \A k \in 1 .. i : q[k] = Path(c)[k]
  BY <1>3, PrefixOK
<1>5. \A k \in 1 .. i : p[k] = Path(c)[k]
  <2>1. i <= n /\ i <= i /\ i \in Nat
    OBVIOUS
  <2>2. \A r \in cut : r.block.index <= i => \E s \in c : s.block = r.block
    BY <1>1
  <2>3. \A k \in 1 .. i : Path(cut)[k] = Path(c)[k]
    BY <1>1, <2>1, <2>2, SamePath
  <2> QED
    BY <2>3
<1> HIDE DEF p, q
<1>6. p = q
  BY <1>2, <1>4, <1>5, SeqEqual
<1> QED
  BY <1>1, <1>6 DEF cut, p, q

\* What a merge that succeeds does first: its first block follows the block at
\* some height of the path, and is put on top of it.
LEMMA MergeHead ==
    ASSUME NEW c, NEW n \in Nat, Shape(c, n), NEW f \in Seq(Blocks), f # << >>, Merge(c, f).ok
    PROVE  \E k \in 0 .. n : \E d :
              /\ f[1].parent = Hash(BlockAtHeight(c, k))
              /\ f[1].round > BlockAtHeight(c, k).round
              /\ f[1].index = k + 1
              /\ Shape(d, k + 1)
              /\ Path(d) = Append(SubSeq(Path(c), 1, k), f[1])
              /\ Merge(c, f).chain = InsertAll(d, Tail(f))
<1> DEFINE idx == CommonAncestor(c, f).block.index
           cut == DeleteBlocksSince(c, idx + 1)
           head == Insert(cut, Head(f))
<1>1. Ancestors(c, f) # {}
  BY DEF Merge
<1>2. /\ CommonAncestor(c, f) \in c /\ Hash(CommonAncestor(c, f).block) = Head(f).parent
      /\ idx \in 0 .. n
      /\ \A q \in Ancestors(c, f) : idx <= q.block.index
  <2>1. \A q \in Ancestors(c, f) : q \in c /\ q.block.index \in 0 .. n
    BY DEF Ancestors, Shape
  <2> DEFINE I == {q.block.index : q \in Ancestors(c, f)}
  <2>2. I \in SUBSET Nat /\ I # {}
    BY <1>1, <2>1
  <2>3. PICK i \in I : \A j \in I : i <= j
    <3> HIDE DEF I
    <3> QED
      BY <2>2, LeastNat
  <2>4. \E r \in Ancestors(c, f) : \A q \in Ancestors(c, f) : r.block.index <= q.block.index
    BY <2>3
  <2>5. /\ CommonAncestor(c, f) \in Ancestors(c, f)
        /\ \A q \in Ancestors(c, f) : CommonAncestor(c, f).block.index <= q.block.index
    BY <2>4 DEF CommonAncestor
  <2> QED
    BY <2>1, <2>5 DEF Ancestors
<1>3. Merge(c, f) = MergeAt(c, f, idx)
  BY <1>1 DEF Merge
<1>4. head.ok /\ Merge(c, f).chain = InsertAll(head.chain, Tail(f))
  BY <1>3 DEF MergeAt
<1>5. Head(f) \in Blocks /\ Head(f) = f[1]
  BY HeadTailProperties
<1>6. BlockAtHeight(c, idx) = CommonAncestor(c, f).block
  BY <1>2, RowOnPath
<1> DEFINE b == Head(f)
<1>7. \E p \in cut : p.block.index = b.index - 1 /\ Hash(p.block) = b.parent
  BY <1>4 DEF Insert, Acceptable, HasCorrectParent
<1>8. idx <= b.index - 1
  BY <1>2, <1>7 DEF Ancestors, DeleteBlocksSince
<1>9. Shape(cut, idx) /\ Path(cut) = SubSeq(Path(c), 1, idx)
  <2> HIDE DEF idx
  <2> QED
    BY <1>2, CutPath
<1> HIDE DEF cut, idx
<1>10. /\ b.index \in 1 .. idx + 1
       /\ b.round > BlockAtHeight(cut, b.index - 1).round
  BY <1>2, <1>4, <1>5, <1>9, InsertPath
<1>11. b.index = idx + 1 /\ b.index - 1 = idx /\ idx \in Nat /\ idx + 1 \in Nat
  BY <1>2, <1>8, <1>10
<1>12. Shape(head.chain, idx + 1) /\ Path(head.chain) = Append(Path(cut), b)
  BY <1>4, <1>5, <1>9, <1>11, InsertOnTip
<1>13. BlockAtHeight(cut, idx) = BlockAtHeight(c, idx)
  <2>1. Path(c) \in Seq(Blocks) /\ Len(Path(c)) = n
    BY PathOK
  <2>2. \A k \in 1 .. idx : SubSeq(Path(c), 1, idx)[k] = Path(c)[k]
    BY <1>2, <2>1, PrefixOK
  <2>3. idx # 0 => idx \in 1 .. idx
    BY <1>11
  <2> QED
    BY <1>9, <2>2, <2>3 DEF BlockAtHeight
<1>14. /\ f[1].parent = Hash(BlockAtHeight(c, idx))
       /\ f[1].round > BlockAtHeight(c, idx).round
  BY <1>2, <1>5, <1>6, <1>10, <1>11, <1>13
<1> HIDE DEF head
<1> QED
  BY <1>2, <1>4, <1>5, <1>9, <1>11, <1>12, <1>14

\* If the subchain climbs by one index per block, the first blocks of it
\* replace what stood above the parent of the first.
LEMMA MergePath ==
    ASSUME NEW c, NEW n \in Nat, Shape(c, n), NEW f \in Seq(Blocks), f # << >>,
           Climbs(f), Merge(c, f).ok
    PROVE  \E k \in 0 .. n :
              /\ f[1].parent = Hash(BlockAtHeight(c, k))
              /\ f[1].round > BlockAtHeight(c, k).round
              /\ \E j \in 1 .. Len(f) :
                    Path(Merge(c, f).chain) = SubSeq(Path(c), 1, k) \o SubSeq(f, 1, j)
<1>1. PICK k \in 0 .. n : \E d :
         /\ f[1].parent = Hash(BlockAtHeight(c, k))
         /\ f[1].round > BlockAtHeight(c, k).round
         /\ f[1].index = k + 1
         /\ Shape(d, k + 1)
         /\ Path(d) = Append(SubSeq(Path(c), 1, k), f[1])
         /\ Merge(c, f).chain = InsertAll(d, Tail(f))
  BY MergeHead
<1>2. PICK d : /\ Shape(d, k + 1)
               /\ Path(d) = Append(SubSeq(Path(c), 1, k), f[1])
               /\ Merge(c, f).chain = InsertAll(d, Tail(f))
  BY <1>1
<1> DEFINE h == k + 1
           t == Tail(f)
           p == SubSeq(Path(c), 1, k)
<1>3. /\ t \in Seq(Blocks) /\ Len(t) = Len(f) - 1
      /\ \A m \in 1 .. Len(t) : t[m] = f[m + 1]
  BY HeadTailProperties
<1>4. \A m \in 1 .. Len(t) : t[m].index = h + m
  <2> SUFFICES ASSUME NEW m \in 1 .. Len(t) PROVE t[m].index = h + m
    OBVIOUS
  <2>1. m + 1 \in 1 .. Len(f) /\ m + 1 \in DOMAIN f /\ t[m] = f[m + 1]
    BY <1>3
  <2>2. f[m + 1].index = f[1].index + (m + 1) - 1
    BY <2>1 DEF Climbs
  <2>3. f[1].index = h /\ h + (m + 1) - 1 = h + m
    BY <1>1
  <2> QED
    BY <2>1, <2>2, <2>3
<1>5. p \in Seq(Blocks) /\ f[1] \in Blocks
  <2>1. Path(c) \in Seq(Blocks) /\ Len(Path(c)) = n
    BY PathOK
  <2> QED
    BY <2>1, PrefixOK
<1>6. h \in Nat /\ Shape(d, h)
  BY <1>2
<1> HIDE DEF h, t, p
<1>7. PICK j \in 0 .. Len(t) : Path(InsertAll(d, t)) = Path(d) \o SubSeq(t, 1, j)
  BY <1>3, <1>4, <1>6, InsertAllPath
<1>8. j + 1 \in 1 .. Len(f) /\ <<f[1]>> \o SubSeq(t, 1, j) = SubSeq(f, 1, j + 1)
  BY ForkHead DEF t
<1>9. Append(p, f[1]) \o SubSeq(t, 1, j) = p \o SubSeq(f, 1, j + 1)
  <2> DEFINE y == <<f[1]>>
             s == SubSeq(t, 1, j)
  <2>1. Append(p, f[1]) = p \o y /\ y \in Seq(Blocks)
    BY <1>5, AppendIsConcat
  <2>2. s \in Seq(Blocks)
    BY <1>3, PrefixOK
  <2>3. y \o s = SubSeq(f, 1, j + 1)
    BY <1>8
  <2> HIDE DEF y, s
  <2>4. (p \o y) \o s = p \o (y \o s)
    BY <1>5, <2>1, <2>2, ThreeParts
  <2> QED
    BY <2>1, <2>3, <2>4 DEF s
<1>10. Path(Merge(c, f).chain) = p \o SubSeq(f, 1, j + 1)
  BY <1>2, <1>7, <1>9 DEF t, p
<1> QED
  BY <1>1, <1>8, <1>10 DEF p

-----------------------------------------------------------------------------
(* A merge of blocks that do not climb *)

\* The path p is the path old up to some height, and above it, where at least
\* one block stands, come only blocks of f.
Mixed(p, old, f) ==
    \E k \in 0 .. Len(old) :
        /\ k < Len(p)
        /\ \A i \in 1 .. k : p[i] = old[i]
        /\ \A i \in k + 1 .. Len(p) : \E m \in DOMAIN f : p[i] = f[m]

LEMMA AppendMixed ==
    ASSUME NEW old \in Seq(Blocks), NEW f \in Seq(Blocks), NEW p \in Seq(Blocks),
           NEW h \in 0 .. Len(p), Mixed(p, old, f) \/ (p = old /\ h <= Len(old)),
           NEW b \in Blocks, \E m \in DOMAIN f : b = f[m]
    PROVE  Mixed(Append(SubSeq(p, 1, h), b), old, f)
<1> DEFINE s == SubSeq(p, 1, h)
           q == Append(s, b)
<1>1. s \in Seq(Blocks) /\ Len(s) = h /\ \A i \in 1 .. h : s[i] = p[i]
  BY PrefixOK
<1> HIDE DEF s
<1>2. /\ Len(q) = h + 1
      /\ \A i \in 1 .. h : q[i] = p[i]
      /\ q[h + 1] = b
  BY <1>1, AppendProperties
<1>3. h \in Nat /\ Len(old) \in Nat /\ Len(p) \in Nat
  OBVIOUS
<1> HIDE DEF q
<1>4. PICK k \in 0 .. Len(old) :
         /\ k <= Len(p)
         /\ \A i \in 1 .. k : p[i] = old[i]
         /\ \A i \in k + 1 .. h : \E m \in DOMAIN f : p[i] = f[m]
  <2>1. CASE Mixed(p, old, f)
    <3>1. PICK k \in 0 .. Len(old) :
             /\ k < Len(p)
             /\ \A i \in 1 .. k : p[i] = old[i]
             /\ \A i \in k + 1 .. Len(p) : \E m \in DOMAIN f : p[i] = f[m]
      BY <2>1 DEF Mixed
    <3>2. k <= Len(p) /\ \A i \in k + 1 .. h : i \in k + 1 .. Len(p)
      BY <1>3, <3>1
    <3> QED
      BY <3>1, <3>2
  <2>2. CASE p = old /\ h <= Len(old)
    <3>1. /\ h \in 0 .. Len(old) /\ h <= Len(p)
          /\ \A i \in 1 .. h : p[i] = old[i]
          /\ \A i \in h + 1 .. h : FALSE
      BY <1>3, <2>2
    <3> QED
      BY <3>1
  <2> QED
    BY <2>1, <2>2
<1> DEFINE j == IF k <= h THEN k ELSE h
<1>5. /\ j \in 0 .. Len(old) /\ j < Len(q)
      /\ \A i \in 1 .. j : i \in 1 .. h /\ i \in 1 .. k
  BY <1>2, <1>3
<1>6. \A i \in j + 1 .. Len(q) : i = h + 1 \/ (i \in k + 1 .. h /\ i \in 1 .. h)
  BY <1>2, <1>3
<1>7. \A i \in 1 .. j : q[i] = old[i]
  BY <1>2, <1>4, <1>5
<1>8. \A i \in j + 1 .. Len(q) : \E m \in DOMAIN f : q[i] = f[m]
  <2> SUFFICES ASSUME NEW i \in j + 1 .. Len(q) PROVE \E m \in DOMAIN f : q[i] = f[m]
    OBVIOUS
  <2>1. CASE i = h + 1
    BY <1>2, <2>1
  <2>2. CASE i \in k + 1 .. h /\ i \in 1 .. h
    BY <1>2, <1>4, <2>2
  <2> QED
    BY <1>6, <2>1, <2>2
<1> HIDE DEF j
<1>9. Mixed(q, old, f)
  BY <1>5, <1>7, <1>8 DEF Mixed
<1> QED
  BY <1>9 DEF q, s

LEMMA InsertMixed ==
    ASSUME NEW d, NEW n \in Nat, Shape(d, n), NEW old \in Seq(Blocks), NEW f \in Seq(Blocks),
           Mixed(Path(d), old, f), NEW m \in DOMAIN f
    PROVE  \E h \in Nat : /\ Shape(Insert(d, f[m]).chain, h)
                          /\ Mixed(Path(Insert(d, f[m]).chain), old, f)
<1> DEFINE b == f[m]
           e == Insert(d, b).chain
<1>1. b \in Blocks /\ \E k \in DOMAIN f : b = f[k]
  OBVIOUS
<1>2. Path(d) \in Seq(Blocks) /\ Len(Path(d)) = n
  BY PathOK
<1> HIDE DEF b
<1>3. CASE Insert(d, b).ok
  <2>1. /\ b.index \in 1 .. n + 1
        /\ Shape(e, b.index)
        /\ Path(e) = Append(SubSeq(Path(d), 1, b.index - 1), b)
    BY <1>1, <1>3, InsertPath
  <2>2. b.index \in Nat /\ b.index - 1 \in 0 .. Len(Path(d))
    BY <1>2, <2>1
  <2> DEFINE p == Path(d)
             h == b.index - 1
  <2>3. p \in Seq(Blocks) /\ h \in 0 .. Len(p) /\ Mixed(p, old, f)
    BY <1>2, <2>2
  <2> HIDE DEF p, h
  <2>4. Mixed(Append(SubSeq(p, 1, h), b), old, f)
    BY <1>1, <2>3, AppendMixed
  <2>5. Mixed(Path(e), old, f)
    BY <2>1, <2>4 DEF p, h
  <2> QED
    BY <2>1, <2>2, <2>5 DEF b
<1>4. CASE ~Insert(d, b).ok
  <2>1. Shape(e, n) /\ {r.block : r \in e} = {r.block : r \in d}
    BY <1>1, <1>4, InsertRefused
  <2>2. \A r \in e : \E q \in d : q.block = r.block
    BY <2>1
  <2> HIDE DEF e
  <2>3. Path(e) = Path(d)
    BY <2>1, <2>2, SameHeightPath
  <2>4. Shape(e, n) /\ Mixed(Path(e), old, f)
    BY <2>1, <2>3
  <2> QED
    BY <2>4 DEF b, e
<1> QED
  BY <1>3, <1>4

\* The loop of merge over the blocks after the first.
LEMMA InsertAllMixed ==
    ASSUME NEW d, NEW n \in Nat, Shape(d, n), NEW old \in Seq(Blocks), NEW f \in Seq(Blocks),
           f # << >>, Mixed(Path(d), old, f)
    PROVE  Mixed(Path(InsertAll(d, Tail(f))), old, f)
<1> DEFINE t == Tail(f)
           loop == InsertLoop(d, t)
           Good(k) == \E h \in Nat : Shape(loop[k].chain, h) /\ Mixed(Path(loop[k].chain), old, f)
           Bad == {k \in 0 .. Len(t) : ~Good(k)}
<1>1. /\ t \in Seq(Blocks) /\ Len(t) \in Nat
      /\ \A k \in 1 .. Len(t) : k + 1 \in DOMAIN f /\ t[k] = f[k + 1]
  BY HeadTailProperties
<1> HIDE DEF t
<1>2. \A k \in 0 .. Len(t) :
         loop[k] = IF k = 0 THEN [ok |-> TRUE, chain |-> d]
                   ELSE IF loop[k - 1].ok THEN Insert(loop[k - 1].chain, t[k])
                   ELSE loop[k - 1]
  <2>1. Iterates(loop, d, t, Len(t))
    BY <1>1, InsertLoopDef
  <2> HIDE DEF loop
  <2> QED
    BY <2>1 DEF Iterates
<1> HIDE DEF loop
<1>3. SUFFICES ASSUME Bad # {} PROVE FALSE
  <2>1. Len(t) \in 0 .. Len(t)
    BY <1>1
  <2> QED
    BY <2>1 DEF InsertAll, loop, t
<1>4. PICK k \in Bad : \A j \in Bad : k <= j
  <2>1. Bad \in SUBSET Nat
    BY <1>1
  <2> HIDE DEF Bad
  <2> QED
    BY <1>3, <2>1, LeastNat
<1>5. CASE k = 0
  <2>1. loop[0].chain = d
    BY <1>1, <1>2
  <2>2. Good(0)
    BY <2>1
  <2> QED
    BY <1>5, <2>2
<1>6. CASE k # 0
  <2>1. k - 1 \in 0 .. Len(t) /\ k - 1 \notin Bad /\ k \in 1 .. Len(t)
    <3>1. k \in 0 .. Len(t)
      OBVIOUS
    <3>2. k - 1 < k
      BY <3>1
    <3> HIDE DEF Bad
    <3>3. k - 1 \notin Bad
      BY <1>1, <1>4, <3>1, <3>2
    <3> QED
      BY <1>1, <1>6, <3>1, <3>3
  <2>2. Good(k - 1)
    BY <2>1
  <2> DEFINE g == loop[k - 1].chain
  <2>3. PICK h \in Nat : Shape(g, h) /\ Mixed(Path(g), old, f)
    BY <2>2
  <2>4. CASE ~loop[k - 1].ok
    <3>1. loop[k] = loop[k - 1]
      BY <1>2, <1>6, <2>4
    <3>2. Good(k)
      BY <2>3, <3>1
    <3> QED
      BY <3>2
  <2>5. CASE loop[k - 1].ok
    <3>1. loop[k] = Insert(g, f[k + 1]) /\ k + 1 \in DOMAIN f
      BY <1>1, <1>2, <1>6, <2>1, <2>5
    <3> DEFINE m == k + 1
    <3>2. m \in DOMAIN f
      BY <3>1
    <3> HIDE DEF g, m
    <3>3. \E i \in Nat : Shape(Insert(g, f[m]).chain, i) /\ Mixed(Path(Insert(g, f[m]).chain), old, f)
      BY <2>3, <3>2, InsertMixed
    <3>4. Good(k)
      BY <3>1, <3>3 DEF m
    <3> QED
      BY <3>4
  <2> QED
    BY <2>4, <2>5
<1> QED
  BY <1>5, <1>6

\* Whatever the blocks a merge is given, it leaves a path with some of them
\* above some height.
LEMMA MergeMixed ==
    ASSUME NEW c, NEW n \in Nat, Shape(c, n), NEW f \in Seq(Blocks), f # << >>, Merge(c, f).ok
    PROVE  Mixed(Path(Merge(c, f).chain), Path(c), f)
<1>1. PICK k \in 0 .. n : \E d :
         /\ Shape(d, k + 1)
         /\ Path(d) = Append(SubSeq(Path(c), 1, k), f[1])
         /\ Merge(c, f).chain = InsertAll(d, Tail(f))
  BY MergeHead
<1>2. PICK d : /\ Shape(d, k + 1)
               /\ Path(d) = Append(SubSeq(Path(c), 1, k), f[1])
               /\ Merge(c, f).chain = InsertAll(d, Tail(f))
  BY <1>1
<1> DEFINE old == Path(c)
           h == k + 1
           b == f[1]
<1>3. old \in Seq(Blocks) /\ Len(old) = n
  BY PathOK
<1>4. b \in Blocks /\ 1 \in DOMAIN f /\ \E m \in DOMAIN f : b = f[m]
  OBVIOUS
<1>5. h \in Nat /\ Shape(d, h) /\ k \in 0 .. Len(old) /\ k <= Len(old)
  BY <1>2, <1>3
<1> HIDE DEF old, h, b
<1>6. Mixed(Append(SubSeq(old, 1, k), b), old, f)
  BY <1>3, <1>4, <1>5, AppendMixed
<1>7. Mixed(Path(d), old, f)
  BY <1>2, <1>6 DEF old, b
<1>8. Mixed(Path(InsertAll(d, Tail(f))), old, f)
  BY <1>3, <1>5, <1>7, InsertAllMixed
<1> QED
  BY <1>2, <1>8 DEF old

\* The blocks a merge leaves in the table come from the table or from the peer.
LEMMA MergeBlocks ==
    ASSUME NEW c, NEW n \in Nat, Shape(c, n), NEW f \in Seq(Blocks), f # << >>,
           Merge(c, f).ok, NEW h \in Nat, Shape(Merge(c, f).chain, h),
           NEW r \in Merge(c, f).chain
    PROVE  \/ r.block = GenesisBlock
           \/ \E q \in c : q.block = r.block
           \/ \E k \in DOMAIN f : r.block = f[k]
<1> DEFINE e   == Merge(c, f).chain
           p   == Path(e)
           old == Path(c)
           i   == r.block.index
<1>1. Mixed(p, old, f)
  BY MergeMixed
<1>2. /\ old \in Seq(Blocks) /\ Len(old) = n
      /\ \A k \in 1 .. n : old[k] = RowAt(c, k).block
  BY PathOK
<1>3. Len(p) = h /\ i \in 0 .. h /\ r.block = IF i = 0 THEN GenesisBlock ELSE p[i]
  <2>1. r \in e /\ Shape(e, h)
    OBVIOUS
  <2> HIDE DEF e
  <2> QED
    BY <2>1, PathOK, RowOnPath DEF BlockAtHeight
<1> HIDE DEF e, p, old, i
<1>4. PICK k \in 0 .. Len(old) :
         /\ k < Len(p)
         /\ \A j \in 1 .. k : p[j] = old[j]
         /\ \A j \in k + 1 .. Len(p) : \E m \in DOMAIN f : p[j] = f[m]
  BY <1>1 DEF Mixed
<1>5. CASE i = 0
  BY <1>3, <1>5
<1>6. CASE i \in 1 .. k
  <2>1. i \in 1 .. n /\ i \in 0 .. n /\ i # 0
    BY <1>2, <1>6
  <2>2. r.block = RowAt(c, i).block
    BY <1>2, <1>3, <1>4, <1>6, <2>1
  <2>3. RowAt(c, i) \in c
    BY <2>1, RowAtOK
  <2> QED
    BY <2>2, <2>3
<1>7. CASE i \in k + 1 .. Len(p)
  <2>1. i # 0
    BY <1>7
  <2> QED
    BY <1>3, <1>4, <1>7, <2>1
<1> QED
  BY <1>3, <1>4, <1>5, <1>6, <1>7

\* A valid first block on top of the genesis block is always merged: insert
\* finds no other block at its index, because merge has cut the chain before.
LEMMA MergeAtGenesis ==
    ASSUME NEW c, NEW n \in Nat, Sound(c, n), NEW f \in Seq(Blocks), f # << >>,
           f[1].index = 1, f[1].parent = GenesisHash, f[1].round > 0,
           ValidateBlock(f[1]) > 0
    PROVE  Merge(c, f).ok
<1> DEFINE b   == f[1]
           cut == DeleteBlocksSince(c, 1)
           d   == Counted(cut, b)
<1>1. b \in Blocks /\ Head(f) = b
  BY HeadTailProperties
<1>2. Shape(c, n) /\ GenesisRow \in c
  BY DEF Sound
<1>3. GenesisRow.block.index = 0 /\ GenesisRow.block = GenesisBlock /\ GenesisBlock.round = 0
  BY DEF GenesisRow, Row, GenesisBlock
<1>4. GenesisRow \in Ancestors(c, f)
  BY <1>1, <1>2, <1>3 DEF Ancestors, Hash
<1>5. CommonAncestor(c, f).block.index = 0
  <2>1. \A q \in Ancestors(c, f) : q.block.index \in 0 .. n
    BY <1>2 DEF Ancestors, Shape
  <2>2. \A q \in Ancestors(c, f) : GenesisRow.block.index <= q.block.index
    BY <1>3, <2>1
  <2>3. /\ CommonAncestor(c, f) \in Ancestors(c, f)
        /\ \A q \in Ancestors(c, f) : CommonAncestor(c, f).block.index <= q.block.index
    BY <1>4, <2>2 DEF CommonAncestor
  <2> QED
    BY <1>3, <1>4, <2>1, <2>3
<1>6. Merge(c, f).ok <=> Insert(cut, b).ok
  <2>1. Merge(c, f) = MergeAt(c, f, 0)
    BY <1>4, <1>5 DEF Merge
  <2> QED
    BY <1>1, <2>1 DEF MergeAt
<1>7. Shape(cut, 0) /\ cut \subseteq c
  <2>1. 0 \in 0 .. n
    BY <1>2
  <2> DEFINE i == 0
  <2>2. Shape(DeleteBlocksSince(c, i + 1), i)
    <3> HIDE DEF i
    <3> QED
      BY <1>2, <2>1, CutPath DEF i
  <2> QED
    BY <2>2 DEF DeleteBlocksSince
<1>8. GenesisRow \in cut
  BY <1>2, <1>3 DEF DeleteBlocksSince
<1> HIDE DEF cut
<1>9. ASSUME NEW r \in cut PROVE r.block.index = 0
  <2>1. r.block.index \in 0 .. 0
    BY <1>7 DEF Shape
  <2> QED
    BY <2>1
<1>10. Acceptable(cut, b)
  <2>1. ~BlockInBlockchain(cut, b)
    <3> DEFINE x == [proof |-> Proof(b), tx |-> b.tx]
    <3>1. << >> \in Seq({x}) /\ Len(<< >>) = 0
      OBVIOUS
    <3>2. Append(<< >>, x) # << >>
      BY <3>1, AppendProperties
    <3>3. Hash(b) = Append(<< >>, x)
      BY DEF Hash, GenesisHash
    <3> QED
      BY <1>9, <3>2, <3>3 DEF BlockInBlockchain, Hash, GenesisHash
  <2>2. NumberOfBlocks(cut) = 1
    BY <1>7, ShapeCount
  <2>3. HasCorrectParent(cut, b)
    BY <1>3, <1>8 DEF HasCorrectParent, Hash
  <2> QED
    BY <2>1, <2>2, <2>3 DEF Acceptable
<1>11. Shape(d, 0)
  BY <1>1, <1>7, CountShape, ValidateType DEF Counted
<1> HIDE DEF d
<1>12. Preferred(d, b)
  <2>1. NumberOfBlocks(d) = 1
    BY <1>11, ShapeCount
  <2>2. 0 \in 0 .. 0
    OBVIOUS
  <2>3. RowAt(d, 0) \in d /\ RowAt(d, 0).block.index = 0
    BY <1>11, <2>2, RowAtOK
  <2>4. RowAt(d, 0).block = GenesisBlock
    BY <1>11, <2>3, RowOnPath DEF BlockAtHeight
  <2>5. b.index - 1 = 0
    OBVIOUS
  <2> QED
    BY <1>3, <2>1, <2>4, <2>5 DEF Preferred
<1>13. Insert(cut, b).ok
  BY <1>10, <1>12 DEF Insert, d
<1> QED
  BY <1>6, <1>13

-----------------------------------------------------------------------------
(* The steps of the fork choice that insert and merge are *)

\* Block b may stand on the block at height k of the path p.
FollowsOn(p, b, k) ==
    LET below == IF k = 0 THEN GenesisBlock ELSE p[k]
    IN  b.parent = Hash(below) /\ b.round > below.round

\* The path q is the first k blocks of the path p and one block on top of them.
Topped(p, q, k) ==
    /\ q \in Seq(Blocks)
    /\ Len(q) = k + 1
    /\ \A i \in 1 .. k : q[i] = p[i]
    /\ FollowsOn(p, q[k + 1], k)

LEMMA FollowsHeight ==
    ASSUME NEW c, NEW b, NEW k
    PROVE  FollowsOn(Path(c), b, k) <=> /\ b.parent = Hash(BlockAtHeight(c, k))
                                        /\ b.round > BlockAtHeight(c, k).round
BY DEF FollowsOn, BlockAtHeight

\* A prefix of a path with one block on top.
LEMMA ToppedPrefix ==
    ASSUME NEW p \in Seq(Blocks), NEW k \in 0 .. Len(p), NEW b \in Blocks, FollowsOn(p, b, k)
    PROVE  /\ Topped(p, Append(SubSeq(p, 1, k), b), k)
           /\ Append(SubSeq(p, 1, k), b)[k + 1] = b
<1> DEFINE s == SubSeq(p, 1, k)
           q == Append(s, b)
<1>1. s \in Seq(Blocks) /\ Len(s) = k /\ \A i \in 1 .. k : s[i] = p[i]
  BY PrefixOK
<1>2. k \in Nat
  OBVIOUS
<1> HIDE DEF s
<1>3. q \in Seq(Blocks) /\ Len(q) = k + 1 /\ q[k + 1] = b /\ \A i \in 1 .. k : q[i] = s[i]
  BY <1>1, <1>2, AppendProperties
<1> HIDE DEF q
<1>4. Topped(p, q, k) /\ q[k + 1] = b
  BY <1>1, <1>3 DEF Topped
<1> QED
  BY <1>4 DEF q, s

\* insert leaves the path, or puts one block on its end, or a better block in
\* the place of one.
LEMMA InsertChoice ==
    ASSUME NEW c, NEW n \in Nat, Shape(c, n), NEW b \in Blocks,
           NEW p, p = Path(c), NEW q, q = Path(Insert(c, b).chain)
    PROVE  \/ q = p
           \/ Topped(p, q, Len(p))
           \/ \E k \in 1 .. Len(p) : Topped(p, q, k - 1) /\ ProofHash(q[k]) < ProofHash(p[k])
<1>1. p \in Seq(Blocks) /\ Len(p) = n
  BY PathOK
<1>2. CASE Insert(c, b).ok
  <2> DEFINE k == b.index
  <2>1. /\ k \in 1 .. n + 1
        /\ q = Append(SubSeq(p, 1, k - 1), b)
        /\ FollowsOn(p, b, k - 1)
        /\ k <= n => ProofHash(b) < ProofHash(p[k])
    BY <1>2, InsertPath, FollowsHeight
  <2>2. k - 1 \in 0 .. Len(p) /\ k - 1 + 1 = k
    BY <1>1, <2>1
  <2> HIDE DEF k
  <2> DEFINE j == k - 1
  <2>3. j \in 0 .. Len(p) /\ FollowsOn(p, b, j) /\ q = Append(SubSeq(p, 1, j), b)
    BY <2>1, <2>2
  <2> HIDE DEF j
  <2>4. Topped(p, q, j) /\ q[j + 1] = b
    BY <1>1, <2>3, ToppedPrefix
  <2>5. CASE k = n + 1
    <3>1. j = Len(p)
      BY <1>1, <2>1, <2>5 DEF j
    <3> QED
      BY <2>4, <3>1
  <2>6. CASE k # n + 1
    <3>1. k \in 1 .. Len(p) /\ k <= n
      BY <1>1, <2>1, <2>6
    <3>2. Topped(p, q, k - 1) /\ q[k] = b
      BY <2>2, <2>4 DEF j
    <3> QED
      BY <2>1, <3>1, <3>2
  <2> QED
    BY <2>5, <2>6
<1>3. CASE ~Insert(c, b).ok
  <2>1. Shape(Insert(c, b).chain, n)
        /\ {r.block : r \in Insert(c, b).chain} = {r.block : r \in c}
    BY <1>3, InsertRefused
  <2>2. \A r \in Insert(c, b).chain : \E d \in c : d.block = r.block
    BY <2>1
  <2>3. Path(Insert(c, b).chain) = Path(c)
    BY <2>1, <2>2, SameHeightPath
  <2> QED
    BY <2>3
<1> QED
  BY <1>2, <1>3

\* merge that succeeds takes over the blocks of the subchain, if they are one.
LEMMA MergeChoice ==
    ASSUME NEW c, NEW n \in Nat, Shape(c, n), NEW f \in Seq(Blocks), f # << >>,
           Merge(c, f).ok, Climbs(f)
    PROVE  \E k \in 0 .. Len(Path(c)) :
              /\ FollowsOn(Path(c), f[1], k)
              /\ \E j \in 1 .. Len(f) :
                    Path(Merge(c, f).chain) = SubSeq(Path(c), 1, k) \o SubSeq(f, 1, j)
<1>1. Len(Path(c)) = n
  BY PathOK
<1>2. PICK k \in 0 .. n :
          /\ f[1].parent = Hash(BlockAtHeight(c, k))
          /\ f[1].round > BlockAtHeight(c, k).round
          /\ \E j \in 1 .. Len(f) :
                Path(Merge(c, f).chain) = SubSeq(Path(c), 1, k) \o SubSeq(f, 1, j)
  BY MergePath
<1>3. FollowsOn(Path(c), f[1], k)
  BY <1>2, FollowsHeight
<1> QED
  BY <1>1, <1>2, <1>3

\* merge that fails leaves the path.
LEMMA MergeRefusedPath ==
    ASSUME NEW c, NEW n \in Nat, Sound(c, n), NEW f \in Seq(Blocks), f # << >>,
           ~Merge(c, f).ok
    PROVE  Path(Merge(c, f).chain) = Path(c)
<1> DEFINE d == Merge(c, f).chain
<1>1. Shape(c, n)
  BY DEF Sound
<1>2. Sound(d, n)
  BY MergeSound
<1>3. Shape(d, n)
  BY <1>2 DEF Sound
<1>4. \A r \in d : \E q \in c : q.block = r.block
  BY <1>1, MergeRefusedBlocks
<1> HIDE DEF d
<1> QED
  BY <1>1, <1>3, <1>4, SameHeightPath DEF d

\* A round change leaves the path.
LEMMA ConfirmPath ==
    ASSUME NEW c, NEW n \in Nat, Shape(c, n), NEW new \in SUBSET c
    PROVE  Path(Confirm(c, new)) = Path(c)
<1> DEFINE next == Confirm(c, new)
<1>1. Shape(next, n)
  BY ConfirmShape
<1>2. \A r \in next : \E q \in c : q.block = r.block
  BY ConfirmBlocks DEF Shape
<1> HIDE DEF next
<1> QED
  BY <1>1, <1>2, SameHeightPath DEF next
=============================================================================
