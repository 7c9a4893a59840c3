---------------------------- MODULE MCBlockChain ----------------------------
(***************************************************************************)
(* Small instances of BlockChain: every block that the winners of a fixed  *)
(* lottery can build on each other's blocks.                               *)
(***************************************************************************)
EXTENDS BlockChain, FiniteSetsExt, SequencesExt

CONSTANTS Alice, Bob, Carol, NoOne, EmptyTx,
          Payload,       \* the transaction hash of every block but genesis
          Lottery,       \* <<owner, round>> of the won sortitions, in the
                         \* order of the proof hashes they give
          Confirmation,  \* the confirmation threshold, for every delta_r
          Fork           \* the fork threshold, for every delta_r

SixWins == << <<Bob, 1>>, <<Carol, 3>>, <<Alice, 1>>, <<Bob, 2>>, <<Carol, 2>>, <<Alice, 4>> >>
FourWins == << <<Carol, 3>>, <<Bob, 1>>, <<Alice, 1>>, <<Bob, 2>> >>

Wins == ToSet(Lottery)

MCProofHash(b) == CHOOSE k \in 1 .. 9 :
    IF <<b.owner, b.round>> \in Wins THEN Lottery[k] = <<b.owner, b.round>> ELSE k = 9

MCWinning(b) == IF <<b.owner, b.round>> \in Wins THEN 1 ELSE 0

Child(p, w) ==
    [parent |-> Hash(p), owner |-> w[1], round |-> w[2], index |-> p.index + 1,
     ticket |-> 0, tx |-> Payload]

\* A node that has not seen the block of its parent's owner in this round may
\* build on an older block; it may also build on a block of the same round.
Builders(p) == {w \in Wins : w[2] >= p.round /\ w # <<p.owner, p.round>>}

Level1 == {Child(GenesisBlock, w) : w \in Wins}
Level2 == UNION {{Child(p, w) : w \in Builders(p)} : p \in Level1}
Level3 == UNION {{Child(p, w) : w \in Builders(p)} : p \in Level2}

\* A block whose owner has lost the sortition, and one that claims an index
\* its parent does not have.
Lost == Child(GenesisBlock, <<Carol, 1>>)
Misplaced == [Child(GenesisBlock, <<Bob, 2>>) EXCEPT !.index = 2]

AllBlocks == Level1 \cup Level2 \cup Level3 \cup {Lost, Misplaced}

\* Subchains, and what a peer sends whose chain grows or changes between two
\* requests: a block twice, or two siblings, on top of their parent.
AllForks ==
    LET steps(p) == {b \in AllBlocks : b.parent = Hash(p) /\ b.index = p.index + 1}
        first    == Child(GenesisBlock, Lottery[1])
    IN  {<<b>> : b \in AllBlocks}
        \cup UNION {{<<p, b>> : b \in steps(p)} : p \in AllBlocks}
        \cup UNION {{<<p, q, b>> : b \in steps(q)} : <<p, q>> \in
                     UNION {{<<p, q>> : q \in steps(p)} : p \in Level1}}
        \cup {<<q, b>> : q, b \in steps(first)}
        \cup {<<first, q, b>> : q, b \in steps(first)}

\* TLC evaluates a definition once, but its replacement of a constant each time.
MCBlocks == AllBlocks
MCForks == AllForks

MCConfirmation(delta_r) == Confirmation
MCFork(delta_r) == Fork
=============================================================================
