----------------------------- MODULE PrizeCurve -----------------------------
(***************************************************************************)
(* The prize amounts settle_internal of the escrow contract accepts        *)
(* (contracts/src/lib.rs): the fee caps, the fixed curves for one, two and *)
(* three or more winners with their variant for a tie on first place, and  *)
(* the basis-point distribution rounded down to whole cents.               *)
(***************************************************************************)
EXTENDS Integers, Sequences, Functions

CONSTANT StroopsPerCent     \* 100_000 in the contract

ASSUME StroopsPerCentAssumption == StroopsPerCent \in Nat \ {0}

MaxPlatformFee(total) == (total * 500) \div 10000
MaxAffiliateCut(platformFee) == (platformFee * 2000) \div 10000

\* The standard curve over a pool for n winners: everything, 70/30, or
\* 60/30/rest and nothing beyond third place.
ExpectedPayouts(pool, n) ==
    CASE n = 1 -> <<pool>>
      [] n = 2 -> LET p1 == (pool * 70) \div 100 IN <<p1, pool - p1>>
      [] n > 2 -> LET p1 == (pool * 60) \div 100
                      p2 == (pool * 30) \div 100
                  IN  [i \in 1..n |-> CASE i = 1 -> p1
                                        [] i = 2 -> p2
                                        [] i = 3 -> pool - p1 - p2
                                        [] OTHER -> 0]

\* The same curve when the first two winners tie.
TiedFirstPayouts(pool, n) ==
    IF n = 2
    THEN LET half == pool \div 2 IN <<half, pool - half>>
    ELSE LET e == ExpectedPayouts(pool, n)
             half == (e[1] + e[2]) \div 2
         IN  [e EXCEPT ![1] = half, ![2] = e[1] + e[2] - half]

\* The amount vectors settle accepts for n winners.  The code compares
\* amount by amount; an accepted vector is one of these two, because a
\* tied-first vector counts only if both of its first amounts match, and
\* the curves agree from third place on.
AcceptedPayouts(pool, n) ==
    {ExpectedPayouts(pool, n)} \cup
        (IF n >= 2 THEN {TiedFirstPayouts(pool, n)} ELSE {})

ValidDistribution(bps) ==
    /\ bps # <<>>
    /\ \A i \in DOMAIN bps : bps[i] \in 0..10000
    /\ SumFunction(bps) = 10000

\* Shares are rounded down to whole cents; the last winner takes the rest.
DistributionPayouts(pool, bps) ==
    LET Share(i) == (((pool \div StroopsPerCent) * bps[i]) \div 10000) * StroopsPerCent
        n == Len(bps)
    IN  [i \in 1..n |->
            IF i < n THEN Share(i)
            ELSE pool - SumFunction([j \in 1..(n - 1) |-> Share(j)])]
=============================================================================
