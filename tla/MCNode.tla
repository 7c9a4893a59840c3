------------------------------- MODULE MCNode -------------------------------
(***************************************************************************)
(* Small networks: the sortitions are won by a fixed lottery, one ticket   *)
(* per owner and round.                                                    *)
(***************************************************************************)
EXTENDS Node, SequencesExt

CONSTANTS Alice, Bob, Carol, NoOne, EmptyTx,
          Lottery,       \* <<owner, round>> of the won sortitions, in the
                         \* order of the proof hashes they give
          Depth,         \* the longest chain the lottery allows
          Confirmation,  \* the confirmation threshold, for every delta_r
          Fork           \* the fork threshold, for every delta_r

Pair == {Alice, Bob}
Trio == {Alice, Bob, Carol}

\* Alice may have forgotten Bob.
AliceForgets == {<<Alice, Bob>>}

\* Two nodes win in the same rounds, the later the better.
Duel == << <<Bob, 2>>, <<Alice, 2>>, <<Alice, 1>>, <<Bob, 1>> >>
\* The same one round later.
LateDuel == << <<Bob, 3>>, <<Alice, 3>>, <<Alice, 2>>, <<Bob, 2>> >>
\* One node builds three blocks, another has built one of its own.
LongLead == << <<Bob, 1>>, <<Bob, 2>>, <<Bob, 3>>, <<Alice, 1>> >>
\* The same, and a third wins as well.
LongLeadOfThree == << <<Bob, 1>>, <<Bob, 2>>, <<Bob, 3>>, <<Carol, 1>>, <<Alice, 1>> >>
\* All nodes win in every round, as with total_stake = tau = 1, which makes both
\* thresholds 1.
Everyone == << <<Alice, 1>>, <<Bob, 1>>, <<Carol, 1>>,
               <<Carol, 2>>, <<Bob, 2>>, <<Alice, 2>> >>

Wins == ToSet(Lottery)

MCProofHash(b) == CHOOSE k \in 1 .. 9 :
    IF <<b.owner, b.round>> \in Wins THEN Lottery[k] = <<b.owner, b.round>> ELSE k = 9

MCWinning(b) == IF <<b.owner, b.round>> \in Wins THEN 1 ELSE 0

\* The index of a block on a chain is at most its round, so nothing is built on
\* other blocks.
AllBlocks ==
    LET child(p, w, tx) == [parent |-> Hash(p), owner |-> w[1], round |-> w[2],
                            index |-> p.index + 1, ticket |-> 0, tx |-> tx]
        level[k \in 0 .. Depth] ==
            IF k = 0 THEN {GenesisBlock}
            ELSE UNION {{child(p, w, tx) : w \in Wins, tx \in {Transactions, NoTx}} :
                           p \in {q \in level[k - 1] : q.index <= q.round}}
    IN  UNION {level[k] : k \in 1 .. Depth}

\* TLC evaluates a definition once, but its replacement of a constant each time.
MCBlocks == AllBlocks

MCConfirmation(delta_r) == Confirmation
MCFork(delta_r) == Fork
=============================================================================
