------------------------------ MODULE Sortition ------------------------------
(***************************************************************************)
(* The sortition and the two thresholds (cpos/core/sortition.py), each a   *)
(* loop that looks for the first value a binomial distribution accepts;    *)
(* one step of this module is one pass of a loop.                          *)
(*                                                                         *)
(* The code computes with floats, the module with integers: n draws, each  *)
(* won with the chance tau / total_stake, have total_stake^n outcomes of   *)
(* equal weight, and a chance is the number of them it stands for.         *)
(***************************************************************************)
EXTENDS Integers, FiniteSets, FiniteSetsExt, Functions

CONSTANTS
    Calls,   \* the calls made: records of the arguments and of the function
    Grid     \* the hashes are 0 .. Grid - 1, where the code has 2^256 of them

Sortitions == [fn : {"run_sortition"}, total_stake : Nat, tau : Nat, stake : Nat, hash : Nat]
Thresholds == [fn : {"confirmation_threshold", "fork_threshold"},
               total_stake : Nat, tau : Nat, delta_r : Nat]

ASSUME GridAssumption == Grid \in Nat

ASSUME CallsAssumption ==
    \A c \in Calls :
        /\ c \in Sortitions \cup Thresholds
        /\ 0 < c.tau /\ c.tau <= c.total_stake
        /\ c \in Thresholds => c.delta_r > 0
        /\ c \in Sortitions => c.hash < Grid

VARIABLES
    call,
    guess,   \* the loop variable: i, s or a
    done     \* the loop has ended, and returns guess

vars == <<call, guess, done>>

-----------------------------------------------------------------------------
\* b ** e, with 0 ** 0 = 1
Power(b, e) ==
    LET power[i \in Nat] == IF i = 0 THEN 1 ELSE b * power[i - 1]
    IN  power[e]

\* n*(n-1)*...*(n-p+1) / p*(p-1)*...*1
Binomial(n, p) ==
    LET falling[i \in Nat] ==
          IF i = 0 THEN 1 ELSE (falling[i - 1] * (n - i + 1)) \div i
    IN  falling[p]

\* cumulative_binom_dist(n, k, tau / w), times w^n
CumulativeBinomDist(w, tau, n, k) ==
    SumFunction([i \in 0 .. k |-> Power(tau, i) * Power(w - tau, n - i) * Binomial(n, i)])

Draws(c) == c.total_stake * c.delta_r

\* chance = 1 - cumulative_binom_dist(total_stake*delta_r, k, p)
Chance(c, k) ==
    Power(c.total_stake, Draws(c)) - CumulativeBinomDist(c.total_stake, c.tau, Draws(c), k)

-----------------------------------------------------------------------------
Init ==
    /\ call \in Calls
    /\ guess = IF call.fn = "run_sortition" THEN 0
               ELSE IF call.fn = "confirmation_threshold" THEN 1
               ELSE call.tau
    /\ done = FALSE

\* Faulty variant: q is compared with the chance of fewer tickets.
QAboveFewer(c, i) ==
    c.hash * Power(c.total_stake, c.stake)
      > CumulativeBinomDist(c.total_stake, c.tau, c.stake, i - 1) * Grid

\* q > cumulative_binom_dist(stake, i, success_probability)
QAbove(c, i) ==
    c.hash * Power(c.total_stake, c.stake)
      > CumulativeBinomDist(c.total_stake, c.tau, c.stake, i) * Grid

\* Faulty variant: i stays as it is.
RunSortitionForever ==
    /\ call.fn = "run_sortition"
    /\ ~done
    /\ done' = ~QAbove(call, guess)
    /\ UNCHANGED <<call, guess>>

RunSortition ==
    /\ call.fn = "run_sortition"
    /\ ~done
    /\ IF QAbove(call, guess)
         THEN guess' = guess + 1 /\ UNCHANGED done
         ELSE done' = TRUE /\ UNCHANGED guess
    /\ UNCHANGED call

\* chance <= 1e-6
Negligible(c, chance) == chance <= Power(c.total_stake, Draws(c)) \div 1000000

\* Faulty variant: 2 * s * delta_r successes are not counted as a fork.
ConfirmationThresholdInclusive ==
    /\ call.fn = "confirmation_threshold"
    /\ ~done
    /\ LET k == Min({2 * call.delta_r * guess, Draws(call)})
       IN  IF Negligible(call, Chance(call, k))
             THEN done' = TRUE /\ UNCHANGED guess
             ELSE guess' = guess + 1 /\ UNCHANGED done
    /\ UNCHANGED call

ConfirmationThreshold ==
    /\ call.fn = "confirmation_threshold"
    /\ ~done
    /\ LET k == Min({2 * call.delta_r * guess - 1, Draws(call)})
       IN  IF Negligible(call, Chance(call, k))
             THEN done' = TRUE /\ UNCHANGED guess
             ELSE guess' = guess + 1 /\ UNCHANGED done
    /\ UNCHANGED call

\* chance >= 0.95
Likely(c, chance) ==
    Power(c.total_stake, Draws(c)) - chance <= Power(c.total_stake, Draws(c)) \div 20

\* Faulty variant: a threshold of zero is never accepted.
ForkThresholdPositive ==
    /\ call.fn = "fork_threshold"
    /\ ~done
    /\ LET k == Min({guess * call.delta_r - 1, Draws(call)})
       IN  IF guess > 0 /\ Likely(call, Chance(call, k))
             THEN done' = TRUE /\ UNCHANGED guess
             ELSE guess' = guess - 1 /\ UNCHANGED done
    /\ UNCHANGED call

\* Faulty variant: a is raised.
ForkThresholdUpwards ==
    /\ call.fn = "fork_threshold"
    /\ ~done
    /\ LET k == Min({guess * call.delta_r - 1, Draws(call)})
       IN  IF Likely(call, Chance(call, k))
             THEN done' = TRUE /\ UNCHANGED guess
             ELSE guess' = guess + 1 /\ UNCHANGED done
    /\ UNCHANGED call

\* Faulty variant: one success fewer is counted as enough.
ForkThresholdLenient ==
    /\ call.fn = "fork_threshold"
    /\ ~done
    /\ LET k == Min({guess * call.delta_r - 2, Draws(call)})
       IN  IF Likely(call, Chance(call, k))
             THEN done' = TRUE /\ UNCHANGED guess
             ELSE guess' = guess - 1 /\ UNCHANGED done
    /\ UNCHANGED call

ForkThreshold ==
    /\ call.fn = "fork_threshold"
    /\ ~done
    /\ LET k == Min({guess * call.delta_r - 1, Draws(call)})
       IN  IF Likely(call, Chance(call, k))
             THEN done' = TRUE /\ UNCHANGED guess
             ELSE guess' = guess - 1 /\ UNCHANGED done
    /\ UNCHANGED call

Next == RunSortition \/ ConfirmationThreshold \/ ForkThreshold

Spec == Init /\ [][Next]_vars /\ WF_vars(Next)

-----------------------------------------------------------------------------
(* Properties: what the loops look for, from the outcomes of the draws     *)
(* counted draw by draw, without binomial coefficients.                    *)

\* The outcomes of n draws with exactly k successes.
Outcomes(w, tau, n) ==
    LET after[d \in Nat] ==
          IF d = 0 THEN [k \in 0 .. n |-> IF k = 0 THEN 1 ELSE 0]
          ELSE LET before == after[d - 1]
               IN  [k \in 0 .. n |-> before[k] * (w - tau)
                                       + (IF k = 0 THEN 0 ELSE before[k - 1] * tau)]
    IN  after[n]

\* The outcomes in which the call's draws have at least m successes.
AtLeast(c, m) ==
    SumFunctionOnSet(Outcomes(c.total_stake, c.tau, Draws(c)), {k \in 0 .. Draws(c) : k >= m})

\* The outcomes in which at most i of the tickets bought are won.
AtMost(c, i) ==
    SumFunctionOnSet(Outcomes(c.total_stake, c.tau, c.stake), 0 .. i)

Returned(fn) == done /\ call.fn = fn

TypeOK ==
    /\ call \in Calls
    /\ guess \in Nat
    /\ done \in BOOLEAN

\* The confirmation threshold is the least average s such that both branches of
\* a fork reach s, which takes 2 * s successes a round in all, with a chance of
\* at most one in a million: no smaller value is safe, and a larger one would
\* delay the confirmation (sortition.py:54-68).  It is positive, which
\* ThresholdsAssumption of BlockChain takes for granted.
ConfirmationIsLeast ==
    Returned("confirmation_threshold") =>
        LET safe(s) == Negligible(call, AtLeast(call, 2 * s * call.delta_r))
        IN  /\ guess > 0
            /\ safe(guess)
            /\ \A s \in 1 .. guess - 1 : ~safe(s)

\* The fork threshold is the greatest average that an unforked chain reaches
\* with a chance of 95%, and never negative: an honest network suspects a fork
\* in at most one round out of twenty (sortition.py:70-86).
ForkIsGreatest ==
    Returned("fork_threshold") =>
        LET usual(a) == Likely(call, AtLeast(call, a * call.delta_r))
        IN  /\ guess \in 0 .. call.tau
            /\ usual(guess)
            /\ \A a \in guess + 1 .. call.tau : ~usual(a)

\* A node wins as many tickets as its hash beats of the chances of winning at
\* most i, hence i tickets with the binomial chance of i (sortition.py:37-52;
\* sortition.py:34: "It is, at most, the number of stakes invested").
TicketsAreQuantile ==
    Returned("run_sortition") =>
        /\ guess <= call.stake
        /\ guess = Cardinality({i \in 0 .. call.stake :
                      call.hash * Power(call.total_stake, call.stake) > AtMost(call, i) * Grid})

\* The passes that a loop still makes at most.  Both branches of a fork cannot
\* have won more than half of all the tickets.
PassesLeft ==
    IF done THEN 0
    ELSE CASE call.fn = "run_sortition"          -> 1 + call.stake - guess
           [] call.fn = "confirmation_threshold" -> 2 + call.total_stake \div 2 - guess
           [] call.fn = "fork_threshold"         -> 1 + guess

\* Every pass of a "while True" brings the loop closer to its end, which it
\* reaches after total_stake / 2 + 1, tau + 1 or stake + 1 passes at the latest
\* (sortition.py:47, 59, 73): no call holds up the thread of the node for longer.
EveryPassIsCloser == [][PassesLeft' \in Nat /\ PassesLeft' < PassesLeft]_vars

\* Every loop ends: the thread of the node, which runs them in every round and
\* for every block, is never held up by a "while True" (sortition.py:59, 73).
Terminates == <>done

-----------------------------------------------------------------------------
\* sortition.py:31, of success_probability: "Float representing the chance of
\* having at least one selected ticket in the sortition".  So no ticket is won
\* just for the lowest hashes, which make up 1 - success_probability.
AtLeastOneWithSuccessProbability ==
    Returned("run_sortition") =>
        (guess = 0 <=> call.hash * call.total_stake <= (call.total_stake - call.tau) * Grid)
=============================================================================
