---------------------------- MODULE SeasonProofs ----------------------------
(***************************************************************************)
(* Proofs about what a season leaves behind: the prize plan of a finished  *)
(* league, for any pool, distribution type and ranking with ties, and the  *)
(* table of a head-to-head league, for any membership, season length,      *)
(* points and failures of the settlement job.                              *)
(***************************************************************************)
EXTENDS PrizePlan, GameweekSettlement, SumTheorems

-----------------------------------------------------------------------------
(* Splits and payouts.                                                     *)

\* Weights that calculatePrizeDistribution works with: they add up to the
\* whole, or there is nothing to share.
Weights(s) == SumFunction(s) = 10000 \/ \A i \in DOMAIN s : s[i] = 0

\* The whole prize pool, in basis points.
Whole == 10000

\* What validateSplits and the contract accept as a distribution ...
LEMMA DistributionParts ==
  ASSUME NEW s, ValidDistribution(s)
  PROVE  SumFunction(s) = 10000 /\ s # <<>>
BY DEF ValidDistribution

\* ... and what makes one.
LEMMA DistributionMade ==
  ASSUME NEW s, s # <<>>, \A i \in DOMAIN s : s[i] \in 0..Whole, SumFunction(s) = Whole
  PROVE  ValidDistribution(s)
BY DEF ValidDistribution, Whole

\* Scaling the first tiers back to 10000 gives weights (getSplitsBps).
LEMMA FirstTiersWeights ==
  ASSUME NEW tiers \in Seq(Nat), NEW n \in 1..Len(tiers)
  PROVE  FirstTiers(tiers, n) \in [1..n -> Nat] /\ Weights(FirstTiers(tiers, n))
<1>. DEFINE kept == SubSeq(tiers, 1, n)
            weight == SumFunction(kept)
            share == [j \in 1..(n - 1) |-> (kept[j] * 10000) \div weight]
            t == FirstTiers(tiers, n)
<1>0. n \in Nat \ {0} /\ kept \in Seq(Nat) /\ DOMAIN kept = 1..n /\ \A i \in 1..n : kept[i] \in Nat
  <2>1. n \in Nat \ {0}
    OBVIOUS
  <2>2. Len(tiers) \in Nat /\ n <= Len(tiers) /\ \A i \in 1..n : i \in 1..Len(tiers)
    OBVIOUS
  <2>3. kept \in Seq(Nat) /\ Len(kept) = n
    BY <2>1, <2>2
  <2>. HIDE DEF kept
  <2>4. DOMAIN kept = 1..n /\ \A i \in 1..n : kept[i] \in Nat
    BY <2>1, <2>3
  <2>. QED  BY <2>1, <2>3, <2>4
<1>1. SumFunctionOnSet(kept, 1..n) = weight /\ weight \in Nat
  <2>. HIDE DEF kept
  <2>1. IsFiniteSet(1..n)
    BY <1>0, IntervalSplit
  <2>. QED  BY <1>0, <2>1, SumNat DEF SumFunction
<1>2. t = IF weight = 0 /\ n > 1 THEN [i \in 1..n |-> 0]
          ELSE [i \in 1..n |-> IF i < n THEN (kept[i] * 10000) \div weight ELSE 10000 - SumFunction(share)]
  BY DEF FirstTiers
<1>. HIDE DEF kept, weight, t
<1>3. CASE weight = 0 /\ n > 1
  BY <1>2, <1>3 DEF Weights, t
<1>4. CASE weight = 0 /\ ~(n > 1)
  <2>1. n = 1 /\ DOMAIN share = 1..0 /\ 1..0 = {}
    BY <1>0, <1>4
  <2>2. SumFunction(share) = 0
    <3>. HIDE DEF share
    <3>. QED  BY <2>1, SumEmpty DEF SumFunction
  <2>3. t = [i \in 1..1 |-> IF i < 1 THEN (kept[i] * 10000) \div weight ELSE 10000]
    <3>. HIDE DEF share
    <3>. QED  BY <1>2, <1>4, <2>1, <2>2
  <2>4. DOMAIN t = 1..1 /\ t[1] = 10000 /\ t \in [1..1 -> Nat]
    BY <2>3
  <2>5. SumFunction(t) = 10000
    <3>1. /\ SumFunctionOnSet(t, 1..(0 + 1)) = t[0 + 1] + SumFunctionOnSet(t, 1..0)
      <4>1. 0 \in Nat /\ \A i \in 1..(0 + 1) : t[i] \in Int
        BY <2>4
      <4>. QED  BY <4>1, SumLast
    <3>. QED  BY <2>1, <2>4, <3>1, SumEmpty DEF SumFunction
  <2>. QED  BY <2>1, <2>4, <2>5 DEF Weights, t
<1>5. CASE weight # 0
  <2>0. PICK c \in Nat : c = 10000
    OBVIOUS
  <2>1. DOMAIN t = 1..n /\ t[n] = c - SumFunction(share)
    BY <1>0, <1>2, <1>5, <2>0
  <2>2. \A i \in 1..(n - 1) : t[i] = (kept[i] * c) \div weight /\ share[i] = (kept[i] * c) \div weight
    BY <1>0, <1>2, <1>5, <2>0
  <2>3. DOMAIN share = 1..(n - 1)
    OBVIOUS
  <2>. HIDE DEF share
  <2>4. SumFunction(t) = c /\ \A i \in 1..n : t[i] \in Nat
    <3>1. SumFunctionOnSet(kept, 1..n) # 0
      BY <1>1, <1>5
    <3>2. \A j \in 1..(n - 1) : /\ share[j] = (kept[j] * c) \div SumFunctionOnSet(kept, 1..n)
                                /\ t[j] = share[j]
      BY <1>1, <2>2, Zenon
    <3>3. SharesOut(t, n, kept, c, share)
      BY <1>0, <2>1, <2>3, <3>1, <3>2, Zenon DEF SharesOut
    <3>. QED  BY <1>0, <3>3, RoundedShares
  <2>5. t \in [1..n -> Nat]
    <3>1. t = [i \in 1..n |-> t[i]]
      BY <1>2, <1>5
    <3>. QED  BY <2>4, <3>1
  <2>. QED  BY <2>0, <2>4, <2>5 DEF Weights, t
<1>. QED  BY <1>1, <1>3, <1>4, <1>5 DEF t

\* The amounts of the fixed splits.
LEMMA SumOfTuple ==
  /\ \A a \in Int : SumFunction(<<a>>) = a
  /\ \A a, b \in Int : SumFunction(<<a, b>>) = a + b
  /\ \A a, b, c \in Int : SumFunction(<<a, b, c>>) = a + b + c
  /\ \A a, b, c, d, e \in Int : SumFunction(<<a, b, c, d, e>>) = a + b + c + d + e
<1>0. SumFunction(<<>>) = 0
  <2>1. DOMAIN <<>> = {}
    OBVIOUS
  <2>. QED  BY <2>1, SumEmpty DEF SumFunction
<1>1. ASSUME NEW a \in Int
     PROVE  SumFunction(<<a>>) = a
  <2>1. <<a>> = Append(<<>>, a) /\ <<>> \in Seq(Int)
    OBVIOUS
  <2>2. SumFunction(Append(<<>>, a)) = SumFunction(<<>>) + a
    BY <2>1, SumAppend
  <2>. QED  BY <1>0, <2>1, <2>2
<1>2. ASSUME NEW a \in Int, NEW b \in Int
     PROVE  SumFunction(<<a, b>>) = a + b
  <2>1. <<a, b>> = Append(<<a>>, b) /\ <<a>> \in Seq(Int)
    OBVIOUS
  <2>2. SumFunction(Append(<<a>>, b)) = SumFunction(<<a>>) + b
    BY <2>1, SumAppend
  <2>. QED  BY <1>1, <2>1, <2>2
<1>3. ASSUME NEW a \in Int, NEW b \in Int, NEW c \in Int
     PROVE  SumFunction(<<a, b, c>>) = a + b + c
  <2>1. <<a, b, c>> = Append(<<a, b>>, c) /\ <<a, b>> \in Seq(Int)
    OBVIOUS
  <2>2. SumFunction(Append(<<a, b>>, c)) = SumFunction(<<a, b>>) + c
    BY <2>1, SumAppend
  <2>. QED  BY <1>2, <2>1, <2>2
<1>4. ASSUME NEW a \in Int, NEW b \in Int, NEW c \in Int, NEW d \in Int
     PROVE  SumFunction(<<a, b, c, d>>) = a + b + c + d
  <2>1. <<a, b, c, d>> = Append(<<a, b, c>>, d) /\ <<a, b, c>> \in Seq(Int)
    OBVIOUS
  <2>2. SumFunction(Append(<<a, b, c>>, d)) = SumFunction(<<a, b, c>>) + d
    BY <2>1, SumAppend
  <2>. QED  BY <1>3, <2>1, <2>2
<1>5. ASSUME NEW a \in Int, NEW b \in Int, NEW c \in Int, NEW d \in Int, NEW e \in Int
     PROVE  SumFunction(<<a, b, c, d, e>>) = a + b + c + d + e
  <2>1. <<a, b, c, d, e>> = Append(<<a, b, c, d>>, e) /\ <<a, b, c, d>> \in Seq(Int)
    OBVIOUS
  <2>2. SumFunction(Append(<<a, b, c, d>>, e)) = SumFunction(<<a, b, c, d>>) + e
    BY <2>1, SumAppend
  <2>3. SumFunction(<<a, b, c, d>>) = a + b + c + d
    BY <1>4
  <2>. QED  BY <2>1, <2>2, <2>3
<1>. QED  BY <1>1, <1>2, <1>3, <1>5

\* What every league of the model has.
LEMMA LeagueShape ==
  ASSUME league \in PlanLeagues
  PROVE  /\ league.count \in Nat \ {0}
         /\ league.entryFee \in Nat
         /\ league.tied \subseteq 2..league.count
         /\ league.preset = "custom" => league.splits \in CustomSplits
<1>1. PICK n \in 1..MaxPaidMembers :
        \/ league \in [count : {n}, entryFee : EntryFees, preset : Presets \ {"custom"},
                       splits : {<<>>}, tied : SUBSET (2..n)]
        \/ league \in [count : {n}, entryFee : EntryFees, preset : {"custom"},
                       splits : CustomSplits, tied : SUBSET (2..n)]
  BY DEF PlanLeagues
<1>2. n \in Nat \ {0}
  BY PlanAssumption
<1>3. CASE league \in [count : {n}, entryFee : EntryFees, preset : Presets \ {"custom"},
                       splits : {<<>>}, tied : SUBSET (2..n)]
  <2>1. league.count = n /\ league.entryFee \in EntryFees /\ league.preset # "custom"
        /\ league.tied \in SUBSET (2..n)
    BY <1>3
  <2>. QED  BY <1>2, <2>1, PlanAssumption
<1>4. CASE league \in [count : {n}, entryFee : EntryFees, preset : {"custom"},
                       splits : CustomSplits, tied : SUBSET (2..n)]
  <2>1. league.count = n /\ league.entryFee \in EntryFees /\ league.splits \in CustomSplits
        /\ league.tied \in SUBSET (2..n)
    BY <1>4
  <2>. QED  BY <1>2, <2>1, PlanAssumption
<1>. QED  BY <1>1, <1>3, <1>4

\* Every preset gives weights for no more ranks than there are members.
LEMMA SplitsAreWeights ==
  ASSUME league \in PlanLeagues
  PROVE  \E n \in 1..league.count : SplitsBps \in [1..n -> Nat] /\ Weights(SplitsBps)
<1>. DEFINE Base(b) == b \in Seq(Nat) /\ Len(b) # 0 /\ SumFunction(b) = 10000
            N == league.count
            all == <<10000>>
<1>0. N \in Nat \ {0}
  BY LeagueShape
<1>1. Base(all) /\ Base(TWO_PLAYER_SPLITS_BPS) /\ Base(STANDARD_SPLITS_BPS)
      /\ Base(TOP_FIVE_SPLITS_BPS)
  <2>1. Base(all)
    <3>1. SumFunction(all) = 10000
      BY SumOfTuple
    <3>. QED  BY <3>1
  <2>2. Base(TWO_PLAYER_SPLITS_BPS)
    <3>1. SumFunction(<<7000, 3000>>) = 7000 + 3000
      BY SumOfTuple
    <3>. QED  BY <3>1 DEF TWO_PLAYER_SPLITS_BPS
  <2>3. Base(STANDARD_SPLITS_BPS)
    <3>1. SumFunction(<<6000, 3000, 1000>>) = 6000 + 3000 + 1000
      BY SumOfTuple
    <3>. QED  BY <3>1 DEF STANDARD_SPLITS_BPS
  <2>4. Base(TOP_FIVE_SPLITS_BPS)
    <3>1. SumFunction(<<4500, 2500, 1500, 1000, 500>>) = 4500 + 2500 + 1500 + 1000 + 500
      BY SumOfTuple
    <3>. QED  BY <3>1 DEF TOP_FIVE_SPLITS_BPS
  <2>. QED  BY <2>1, <2>2, <2>3, <2>4
<1>2. ASSUME league.preset = "custom" PROVE Base(league.splits)
  <2>1. league.splits \in Seq(Nat) /\ ValidDistribution(league.splits)
    BY <1>2, LeagueShape, PlanAssumption
  <2>2. SumFunction(league.splits) = 10000 /\ league.splits # <<>>
    BY <2>1, DistributionParts
  <2>3. Len(league.splits) # 0
    BY <2>1, <2>2
  <2>. QED  BY <2>1, <2>2, <2>3
<1>. HIDE DEF Base
<1>3. PICK b : Base(b) /\ SplitsBps = IF N < Len(b) THEN FirstTiers(b, N) ELSE b
  <2>1. CASE league.preset = "custom"
    BY <1>2, <2>1 DEF SplitsBps
  <2>2. CASE league.preset = "winner-takes-all"
    <3>1. SplitsBps = IF N < Len(all) THEN FirstTiers(all, N) ELSE all
      BY <2>2 DEF SplitsBps
    <3>. HIDE DEF all
    <3>. QED  BY <1>1, <3>1
  <2>3. CASE league.preset = "top-five"
    BY <1>1, <2>3 DEF SplitsBps
  <2>4. CASE league.preset \notin {"custom", "winner-takes-all", "top-five"}
    <3>1. CASE N = 1
      <4>1. SplitsBps = IF N < Len(all) THEN FirstTiers(all, N) ELSE all
        BY <2>4, <3>1 DEF SplitsBps
      <4>. HIDE DEF all
      <4>. QED  BY <1>1, <4>1
    <3>2. CASE N = 2
      BY <1>1, <2>4, <3>2 DEF SplitsBps
    <3>3. CASE N # 1 /\ N # 2
      BY <1>1, <2>4, <3>3 DEF SplitsBps
    <3>. QED  BY <3>1, <3>2, <3>3
  <2>. QED  BY <2>1, <2>2, <2>3, <2>4
<1>4. b \in Seq(Nat) /\ Len(b) \in Nat \ {0} /\ SumFunction(b) = 10000
  BY <1>3 DEF Base
<1>5. CASE N < Len(b)
  <2>1. N \in 1..Len(b) /\ N \in 1..N
    BY <1>0, <1>4, <1>5
  <2>2. FirstTiers(b, N) \in [1..N -> Nat] /\ Weights(FirstTiers(b, N))
    BY <1>4, <2>1, FirstTiersWeights
  <2>. QED  BY <1>3, <1>5, <2>1, <2>2
<1>6. CASE ~(N < Len(b))
  <2>1. Len(b) \in 1..N /\ b \in [1..Len(b) -> Nat]
    BY <1>0, <1>4, <1>6
  <2>2. SplitsBps = b
    BY <1>3, <1>6
  <2>3. Weights(b)
    BY <1>4 DEF Weights
  <2>. QED  BY <2>1, <2>2, <2>3
<1>. QED  BY <1>5, <1>6

\* The payouts share out the whole pool, or there are none.
LEMMA PayoutsShareOut ==
  ASSUME NEW n \in Nat \ {0}, NEW pool \in Nat, NEW splits \in [1..n -> Nat], Weights(splits)
  PROVE  /\ Payouts(pool, splits) \in [1..n -> Nat]
         /\ SumFunction(Payouts(pool, splits)) = pool \/ \A i \in 1..n : Payouts(pool, splits)[i] = 0
<1>. DEFINE p == Payouts(pool, splits)
            share == [j \in 1..(n - 1) |-> (pool * splits[j]) \div 10000]
<1>0. Len(splits) = n /\ DOMAIN splits = 1..n /\ n \in Nat
  BY RankSequence
<1>1. IsFiniteSet(1..n) /\ SumFunction(splits) = SumFunctionOnSet(splits, 1..n)
  BY <1>0, IntervalSplit DEF SumFunction
<1>2. p = IF SumFunction(splits) = 0 THEN splits
          ELSE [i \in 1..n |-> IF i < n THEN (pool * splits[i]) \div 10000 ELSE pool - SumFunction(share)]
  BY <1>0 DEF Payouts
<1>. HIDE DEF p
<1>3. CASE SumFunction(splits) = 0
  BY <1>0, <1>2, <1>3 DEF Weights, p
<1>4. CASE SumFunction(splits) # 0
  <2>0. SumFunctionOnSet(splits, 1..n) = 10000
    BY <1>0, <1>1, <1>4, SumZero DEF Weights
  <2>1. DOMAIN p = 1..n /\ p[n] = pool - SumFunction(share)
    BY <1>0, <1>2, <1>4
  <2>2. DOMAIN share = 1..(n - 1)
    OBVIOUS
  <2>3. ASSUME NEW j \in 1..(n - 1)
        PROVE  share[j] = (splits[j] * pool) \div SumFunctionOnSet(splits, 1..n) /\ p[j] = share[j]
    <3>1. j \in 1..n /\ j < n /\ splits[j] \in Nat
      BY <1>0
    <3>2. pool * splits[j] = splits[j] * pool
      BY <3>1
    <3>3. share[j] = (pool * splits[j]) \div 10000
      OBVIOUS
    <3>4. p[j] = (pool * splits[j]) \div 10000
      BY <1>2, <1>4, <3>1
    <3>. HIDE DEF share
    <3>. QED  BY <2>0, <3>2, <3>3, <3>4
  <2>. HIDE DEF share
  <2>4. SharesOut(p, n, splits, pool, share)
    <3>1. SumFunctionOnSet(splits, 1..n) # 0 /\ \A i \in 1..n : splits[i] \in Nat
      BY <1>0, <2>0
    <3>. QED  BY <2>1, <2>2, <2>3, <3>1, Zenon DEF SharesOut
  <2>5. SumFunction(p) = pool /\ \A i \in 1..n : p[i] \in Nat
    BY <2>4, RoundedShares
  <2>6. p \in [1..n -> Nat]
    <3>1. p = [i \in 1..n |-> p[i]]
      BY <1>2, <1>4
    <3>. QED  BY <2>5, <3>1
  <2>. QED  BY <2>5, <2>6 DEF p
<1>. QED  BY <1>3, <1>4

-----------------------------------------------------------------------------
(* Ties.                                                                   *)

\* f is the first rank with the points of rank i.
IsFirst(f, i) == f \in 1..i /\ f \notin league.tied /\ \A k \in (f + 1)..i : k \in league.tied

\* Every rank has one first rank of its group.
LEMMA FirstExists ==
  ASSUME league \in PlanLeagues, NEW i \in Nat \ {0}
  PROVE  IsFirst(FirstOfGroup(i), i)
<1>. DEFINE G == {n \in Nat : n = 0 \/ \E f \in 1..n : IsFirst(f, n)}
<1>0. league.tied \subseteq 2..league.count /\ league.count \in Nat
  BY LeagueShape
<1>1. 0 \in G
  OBVIOUS
<1>2. ASSUME NEW n \in G PROVE n + 1 \in G
  <2>0. n \in Nat /\ n + 1 \in Nat /\ n + 1 \in 1..(n + 1)
    BY <1>2
  <2>1. CASE n + 1 \notin league.tied
    <3>1. IsFirst(n + 1, n + 1)
      BY <2>0, <2>1 DEF IsFirst
    <3>. QED  BY <2>0, <3>1
  <2>2. CASE n + 1 \in league.tied
    <3>1. n # 0
      BY <1>0, <2>2
    <3>2. PICK f \in 1..n : IsFirst(f, n)
      BY <1>2, <3>1
    <3>3. f \in 1..(n + 1)
      BY <2>0
    <3>4. \A k \in (f + 1)..(n + 1) : k = n + 1 \/ k \in (f + 1)..n
      BY <2>0
    <3>5. IsFirst(f, n + 1)
      BY <2>2, <3>2, <3>3, <3>4 DEF IsFirst
    <3>. QED  BY <2>0, <3>3, <3>5
  <2>. QED  BY <2>1, <2>2
<1>3. i \in G
  <2>1. G \in SUBSET Nat
    OBVIOUS
  <2>2. G = Nat
    <3>. HIDE DEF G
    <3>. QED  BY <1>1, <1>2, <2>1, NatSetInduction
  <2>. QED  BY <2>2
<1>4. \E f \in 1..i : f \notin league.tied /\ \A k \in (f + 1)..i : k \in league.tied
  BY <1>3 DEF IsFirst
<1>. QED  BY <1>4 DEF FirstOfGroup, IsFirst

\* The first rank of a group is determined.
LEMMA FirstUnique ==
  ASSUME NEW i \in Nat, NEW f, NEW g, IsFirst(f, i), IsFirst(g, i)
  PROVE  f = g
<1>1. f \in 1..i /\ g \in 1..i
  BY DEF IsFirst
<1>2. ASSUME f < g PROVE FALSE
  <2>1. g \in (f + 1)..i
    BY <1>1, <1>2
  <2>. QED  BY <2>1 DEF IsFirst
<1>3. ASSUME g < f PROVE FALSE
  <2>1. f \in (g + 1)..i
    BY <1>1, <1>3
  <2>. QED  BY <2>1 DEF IsFirst
<1>. QED  BY <1>1, <1>2, <1>3

\* A set of ranks with a least one and no gap is an interval.
LEMMA NoGap ==
  ASSUME NEW n \in Nat, NEW S \in SUBSET (1..n), NEW f \in S,
         \A k \in S : f <= k /\ \A j \in f..k : j \in S
  PROVE  \E l \in f..n : S = f..l
<1>. DEFINE G == {m \in Nat : f <= m => \E l \in f..m : S \cap (1..m) = f..l}
<1>0. f \in Nat \ {0} /\ f <= n
  OBVIOUS
<1>1. 0 \in G
  BY <1>0
<1>2. ASSUME NEW m \in G PROVE m + 1 \in G
  <2>0. m \in Nat /\ m + 1 \in Nat
    BY <1>2
  <2>. SUFFICES ASSUME f <= m + 1 PROVE \E l \in f..(m + 1) : S \cap (1..(m + 1)) = f..l
    BY <2>0
  <2>1. CASE m + 1 \in S
    <3>1. m + 1 \in f..(m + 1)
      BY <1>0, <2>0
    <3>2. \A j \in S \cap (1..(m + 1)) : j \in f..(m + 1)
      BY <1>0, <2>0
    <3>3. \A j \in f..(m + 1) : j \in S \cap (1..(m + 1))
      BY <1>0, <2>0, <2>1
    <3>4. S \cap (1..(m + 1)) = f..(m + 1)
      BY <3>2, <3>3
    <3>. QED  BY <3>1, <3>4
  <2>2. CASE m + 1 \notin S
    <3>1. f <= m
      BY <1>0, <2>0, <2>2
    <3>2. PICK l \in f..m : S \cap (1..m) = f..l
      BY <1>2, <3>1
    <3>3. S \cap (1..(m + 1)) = S \cap (1..m)
      BY <2>0, <2>2
    <3>4. l \in f..(m + 1)
      BY <1>0, <2>0
    <3>. QED  BY <3>2, <3>3, <3>4
  <2>. QED  BY <2>1, <2>2
<1>3. n \in G
  <2>1. G \in SUBSET Nat
    OBVIOUS
  <2>2. G = Nat
    <3>. HIDE DEF G
    <3>. QED  BY <1>1, <1>2, <2>1, NatSetInduction
  <2>. QED  BY <2>2
<1>4. S \cap (1..n) = S
  OBVIOUS
<1>. QED  BY <1>0, <1>3, <1>4

\* Each of the ranks f..l gets an equal part of an amount, and the first ones
\* a cent more.
SharedEvenly(s, f, l, amount) ==
    \A i \in f..l : s[i] = (amount \div ((l - f) + 1))
                            + (IF i - f < amount % ((l - f) + 1) THEN 1 ELSE 0)

\* Parts and odd cents add up to the amount.
LEMMA EvenShares ==
  ASSUME NEW f \in Nat, NEW l \in Nat, f <= l, NEW amount \in Nat, NEW s,
         SharedEvenly(s, f, l, amount)
  PROVE  SumFunctionOnSet(s, f..l) = amount
<1>1. PICK z \in Nat \ {0} : z = (l - f) + 1
  OBVIOUS
<1>2. PICK q \in Nat, r \in Nat : q = amount \div z /\ r = amount % z
  <2>1. amount \div z \in Nat /\ amount % z \in Nat
    BY DivNat
  <2>. QED  BY <2>1
<1>3. amount = q * z + r /\ r < z
  <2>1. amount = z * (amount \div z) + (amount % z) /\ amount % z < z
    BY Z3
  <2>2. z * q = q * z
    OBVIOUS
  <2>. QED  BY <1>2, <2>1, <2>2
<1>4. \A i \in f..l : s[i] = q + (IF i - f < r THEN 1 ELSE 0)
  BY <1>1, <1>2 DEF SharedEvenly
<1>. DEFINE A == f..((f + r) - 1)
            B == (f + r)..l
<1>5. f..l = A \cup B /\ A \cap B = {}
  BY <1>1, <1>3
<1>6. IsFiniteSet(A) /\ Cardinality(A) = r
  <2>1. f \in Int /\ (f + r) - 1 \in Int
    OBVIOUS
  <2>2. IsFiniteSet(A) /\ Cardinality(A) = IF f > (f + r) - 1 THEN 0 ELSE ((f + r) - 1) - f + 1
    BY <2>1, FS_Interval
  <2>. HIDE DEF A
  <2>. QED  BY <2>2
<1>7. IsFiniteSet(B) /\ Cardinality(B) = z - r
  <2>1. f + r \in Int /\ l \in Int
    OBVIOUS
  <2>2. IsFiniteSet(B) /\ Cardinality(B) = IF f + r > l THEN 0 ELSE l - (f + r) + 1
    BY <2>1, FS_Interval
  <2>. HIDE DEF B
  <2>. QED  BY <1>1, <1>3, <2>2
<1>8. \A i \in A : s[i] = q + 1
  BY <1>1, <1>3, <1>4
<1>9. \A i \in B : s[i] = q
  BY <1>1, <1>3, <1>4
<1>. HIDE DEF A, B
<1>10. SumFunctionOnSet(s, A) = (q + 1) * r
  <2>1. q + 1 \in Nat
    OBVIOUS
  <2>. QED  BY <1>6, <1>8, <2>1, SumConstant
<1>11. SumFunctionOnSet(s, B) = q * (z - r)
  BY <1>7, <1>9, SumConstant
<1>12. SumFunctionOnSet(s, A \cup B) = SumFunctionOnSet(s, A) + SumFunctionOnSet(s, B)
  <2>1. \A i \in A \cup B : s[i] \in Int
    BY <1>8, <1>9
  <2>. QED  BY <1>5, <1>6, <1>7, <2>1, SumUnion
<1>13. (q + 1) * r + q * (z - r) = q * z + r
  <2>1. (q + 1) * r = q * r + r
    OBVIOUS
  <2>2. q * (z - r) = q * z - q * r
    OBVIOUS
  <2>3. q * z \in Int /\ q * r \in Int
    OBVIOUS
  <2>. QED  BY <2>1, <2>2, <2>3
<1>. QED  BY <1>3, <1>5, <1>10, <1>11, <1>12, <1>13

\* A group of tied ranks is an interval that starts at its first rank.
LEMMA GroupInterval ==
  ASSUME league \in PlanLeagues, NEW i \in 1..league.count
  PROVE  /\ FirstOfGroup(i) \in 1..i
         /\ \E l \in FirstOfGroup(i)..league.count : Group(i) = FirstOfGroup(i)..l
<1>. DEFINE f == FirstOfGroup(i)
            S == Group(i)
            n == league.count
<1>0. n \in Nat /\ \A k \in 1..n : k \in Nat \ {0}
  BY LeagueShape
<1>1. \A k \in 1..n : IsFirst(FirstOfGroup(k), k)
  BY <1>0, FirstExists
<1>2. S = {k \in 1..n : FirstOfGroup(k) = f}
  BY DEF Group
<1>3. f \in 1..i /\ f \in 1..n /\ f \notin league.tied /\ i \in Nat
  BY <1>0, <1>1 DEF IsFirst
<1>. HIDE DEF f, S
<1>4. f \in S
  <2>1. IsFirst(f, f)
    <3>1. f \in 1..f /\ (f + 1)..f = {}
      BY <1>3
    <3>. QED  BY <1>3, <3>1 DEF IsFirst
  <2>2. FirstOfGroup(f) = f
    <3>1. IsFirst(FirstOfGroup(f), f) /\ f \in Nat
      BY <1>0, <1>1, <1>3
    <3>. QED  BY <2>1, <3>1, FirstUnique
  <2>. QED  BY <1>2, <1>3, <2>2
<1>5. ASSUME NEW k \in S PROVE f <= k /\ \A j \in f..k : j \in S
  <2>1. k \in 1..n /\ IsFirst(f, k) /\ k \in Nat
    BY <1>0, <1>1, <1>2, <1>5
  <2>2. f \in 1..k /\ f <= k
    BY <1>0, <2>1 DEF IsFirst
  <2>3. ASSUME NEW j \in f..k PROVE j \in S
    <3>1. j \in 1..n /\ j \in Nat /\ f \in 1..j /\ \A m \in (f + 1)..j : m \in (f + 1)..k
      BY <1>0, <1>3, <2>1, <2>2
    <3>2. IsFirst(f, j)
      BY <2>1, <3>1 DEF IsFirst
    <3>3. FirstOfGroup(j) = f
      BY <1>1, <3>1, <3>2, FirstUnique
    <3>. QED  BY <1>2, <3>1, <3>3
  <2>. QED  BY <2>2, <2>3
<1>6. \E l \in f..n : S = f..l
  <2>1. S \in SUBSET (1..n)
    BY <1>2
  <2>. QED  BY <1>0, <1>4, <1>5, <2>1, NoGap
<1>. QED  BY <1>3, <1>6 DEF f, S

\* Tied ranks share what their ranks win, so that all prizes add up to all
\* payouts (prepareSettlement).
LEMMA PrizesKeepPayouts ==
  ASSUME league \in PlanLeagues, NEW n \in 1..league.count, NEW payouts \in [1..n -> Nat]
  PROVE  /\ Prizes(payouts) \in [1..league.count -> Nat]
         /\ SumFunction(Prizes(payouts)) = SumFunction(payouts)
<1>. DEFINE N == league.count
            R == 1..N
            prizes == Prizes(payouts)
            Pooled(i) == SumFunctionOnSet(payouts, Group(i) \cap DOMAIN payouts)
            key == [i \in R |-> FirstOfGroup(i)]
            P(c) == {i \in R : key[i] = c}
            Q(c) == {i \in 1..n : key[i] = c}
            part == [c \in R |-> SumFunctionOnSet(payouts, Q(c))]
<1>0. N \in Nat \ {0} /\ n \in Nat /\ n <= N /\ DOMAIN payouts = 1..n /\ \A i \in 1..n : i \in R
  BY LeagueShape
<1>1. IsFiniteSet(R) /\ IsFiniteSet(1..n)
  BY <1>0, IntervalSplit
<1>2. \A i \in R : key[i] \in R
  <2>1. \A i \in R : FirstOfGroup(i) \in 1..i
    BY GroupInterval
  <2>. QED  BY <1>0, <2>1
<1>3. \A i \in 1..n : payouts[i] \in Nat
  OBVIOUS
<1>4. ASSUME NEW i \in R PROVE Pooled(i) \in Nat
  <2>1. IsFiniteSet(Group(i) \cap DOMAIN payouts)
    BY <1>0, <1>1, FS_Subset
  <2>2. \A k \in Group(i) \cap DOMAIN payouts : payouts[k] \in Nat
    BY <1>0, <1>3
  <2>. QED  BY <2>1, <2>2, SumNat
<1>5. ASSUME NEW i \in R
      PROVE  /\ Group(i) # {} /\ IsFiniteSet(Group(i)) /\ Cardinality(Group(i)) \in Nat \ {0}
             /\ prizes[i] \in Nat
  <2>1. PICK l \in FirstOfGroup(i)..N : Group(i) = FirstOfGroup(i)..l
    BY GroupInterval
  <2>2. FirstOfGroup(i) \in 1..i
    BY GroupInterval
  <2>3. Group(i) # {} /\ Group(i) \subseteq R
    BY <1>0, <2>1, <2>2
  <2>4. IsFiniteSet(Group(i)) /\ Cardinality(Group(i)) \in Nat \ {0}
    BY <1>1, <2>3, FS_Subset, FS_CardinalityType, FS_EmptySet
  <2>5. Pooled(i) \div Cardinality(Group(i)) \in Nat
    BY <1>4, <2>4, DivNat
  <2>6. prizes[i] = (Pooled(i) \div Cardinality(Group(i)))
                     + (IF i - FirstOfGroup(i) < Pooled(i) % Cardinality(Group(i)) THEN 1 ELSE 0)
    BY DEF Prizes
  <2>. HIDE DEF Pooled, prizes
  <2>. QED  BY <2>3, <2>4, <2>5, <2>6
<1>6. DOMAIN prizes = R /\ prizes \in [R -> Nat]
  BY <1>5 DEF Prizes
<1>7. ASSUME NEW c \in R PROVE part[c] = SumFunctionOnSet(prizes, P(c))
  <2>0. part[c] = SumFunctionOnSet(payouts, Q(c))
    OBVIOUS
  <2>1. CASE P(c) = {}
    <3>1. Q(c) = {}
      BY <1>0, <2>1
    <3>. QED  BY <2>0, <2>1, <3>1, SumEmpty
  <2>2. CASE P(c) # {}
    <3>1. PICK i \in R : FirstOfGroup(i) = c
      BY <2>2
    <3>2. P(c) = Group(i)
      BY <3>1 DEF Group
    <3>3. Q(c) = Group(i) \cap DOMAIN payouts
      BY <1>0, <3>1 DEF Group
    <3>4. PICK l \in c..N : Group(i) = c..l
      BY <3>1, GroupInterval
    <3>5. c \in Nat /\ l \in Nat /\ c <= l
      BY <1>0, <3>4
    <3>6. Cardinality(Group(i)) = (l - c) + 1
      <4>1. c \in Int /\ l \in Int
        BY <3>5
      <4>2. Cardinality(c..l) = IF c > l THEN 0 ELSE l - c + 1
        BY <4>1, FS_Interval
      <4>. QED  BY <3>4, <3>5, <4>2
    <3>7. SharedEvenly(prizes, c, l, Pooled(i))
      <4>. SUFFICES ASSUME NEW k \in c..l
                    PROVE  prizes[k] = (Pooled(i) \div ((l - c) + 1))
                             + (IF k - c < Pooled(i) % ((l - c) + 1) THEN 1 ELSE 0)
        BY DEF SharedEvenly
      <4>1. k \in Group(i) /\ k \in R
        BY <1>0, <3>4
      <4>2. FirstOfGroup(k) = c /\ Group(k) = Group(i)
        BY <3>1, <4>1 DEF Group
      <4>3. prizes[k] = (Pooled(k) \div Cardinality(Group(k)))
                     + (IF k - FirstOfGroup(k) < Pooled(k) % Cardinality(Group(k)) THEN 1 ELSE 0)
        BY <4>1 DEF Prizes
      <4>. HIDE DEF prizes
      <4>. QED  BY <3>6, <4>2, <4>3
    <3>8. SumFunctionOnSet(prizes, c..l) = Pooled(i)
      <4>1. Pooled(i) \in Nat
        BY <1>4
      <4>. HIDE DEF prizes, Pooled
      <4>. QED  BY <3>5, <3>7, <4>1, EvenShares
    <3>. QED  BY <2>0, <3>2, <3>3, <3>4, <3>8
  <2>. QED  BY <2>1, <2>2
<1>8. SumFunctionOnSet(prizes, R) = SumFunctionOnSet(part, R)
  <2>1. \A i \in R : prizes[i] \in Int
    BY <1>6
  <2>2. \A c \in R : part[c] = SumFunctionOnSet(prizes, {x \in R : key[x] = c})
    BY <1>7
  <2>. HIDE DEF prizes, part, key, R
  <2>3. PartSums(prizes, R, key, R, part)
    BY <1>1, <1>2, <2>1, <2>2 DEF PartSums
  <2>. QED  BY <2>3, SumPartition
<1>9. SumFunctionOnSet(payouts, 1..n) = SumFunctionOnSet(part, R)
  <2>1. \A i \in 1..n : payouts[i] \in Int /\ key[i] \in R
    BY <1>0, <1>2
  <2>2. \A c \in R : part[c] = SumFunctionOnSet(payouts, {x \in 1..n : key[x] = c})
    OBVIOUS
  <2>. HIDE DEF part, key, R
  <2>3. PartSums(payouts, 1..n, key, R, part)
    BY <1>1, <2>1, <2>2 DEF PartSums
  <2>. QED  BY <2>3, SumPartition
<1>. QED  BY <1>0, <1>6, <1>8, <1>9 DEF SumFunction

-----------------------------------------------------------------------------
(* The winners of a plan.                                                  *)

\* The recursion of Winners.
WinnersStep(prizes, g, i) ==
    IF i = 0 THEN <<>>
    ELSE IF prizes[i] > 0 THEN Append(g[i - 1], prizes[i]) ELSE g[i - 1]

IsWinners(prizes, n, g) == g = [i \in 0..n |-> WinnersStep(prizes, g, i)]

\* The recursion has a solution, one rank at a time.
LEMMA WinnersDefined ==
  ASSUME NEW prizes \in Seq(Int)
  PROVE  \E g : IsWinners(prizes, Len(prizes), g) /\ Winners(prizes) = g[Len(prizes)]
<1>. DEFINE n == Len(prizes)
            G == {k \in Nat : \E g : IsWinners(prizes, k, g)}
<1>0. n \in Nat
  OBVIOUS
<1>1. 0 \in G
  <2>. DEFINE g == [i \in 0..0 |-> <<>>]
  <2>1. g = [i \in 0..0 |-> WinnersStep(prizes, g, i)]
    BY DEF WinnersStep
  <2>. QED  BY <2>1 DEF IsWinners
<1>2. ASSUME NEW k \in G PROVE k + 1 \in G
  <2>0. k \in Nat /\ k + 1 \in Nat
    BY <1>2
  <2>1. PICK g : IsWinners(prizes, k, g)
    BY <1>2
  <2>. DEFINE h == [i \in 0..(k + 1) |-> WinnersStep(prizes, g, i)]
  <2>2. ASSUME NEW i \in 0..k PROVE h[i] = g[i]
    <3>1. i \in 0..(k + 1)
      BY <2>0
    <3>2. g[i] = WinnersStep(prizes, g, i)
      BY <2>1 DEF IsWinners
    <3>. QED  BY <3>1, <3>2
  <2>3. ASSUME NEW i \in 0..(k + 1) PROVE WinnersStep(prizes, g, i) = WinnersStep(prizes, h, i)
    <3>1. CASE i = 0
      BY <3>1 DEF WinnersStep
    <3>2. CASE i # 0
      <4>1. i - 1 \in 0..k
        BY <2>0, <3>2
      <4>2. h[i - 1] = g[i - 1]
        BY <2>2, <4>1
      <4>. HIDE DEF h
      <4>. QED  BY <3>2, <4>2 DEF WinnersStep
    <3>. QED  BY <3>1, <3>2
  <2>4. IsWinners(prizes, k + 1, h)
    BY <2>3, Zenon DEF IsWinners
  <2>. QED  BY <2>0, <2>4
<1>3. n \in G
  <2>1. G \in SUBSET Nat
    OBVIOUS
  <2>2. G = Nat
    <3>. HIDE DEF G
    <3>. QED  BY <1>1, <1>2, <2>1, NatSetInduction
  <2>. QED  BY <1>0, <2>2
<1>. DEFINE w == CHOOSE g : IsWinners(prizes, n, g)
<1>4. IsWinners(prizes, n, w)
  BY <1>3
<1>5. Winners(prizes) = w[n]
  BY DEF Winners, IsWinners, WinnersStep
<1>. QED  BY <1>4, <1>5

\* The winners' prizes are positive and add up to all prizes.
LEMMA WinnersSum ==
  ASSUME NEW prizes \in Seq(Nat)
  PROVE  /\ Winners(prizes) \in Seq(Nat \ {0})
         /\ SumFunction(Winners(prizes)) = SumFunction(prizes)
<1>. DEFINE n == Len(prizes)
<1>0. n \in Nat /\ DOMAIN prizes = 1..n /\ \A i \in 1..n : prizes[i] \in Nat
  OBVIOUS
<1>1. PICK g : IsWinners(prizes, n, g) /\ Winners(prizes) = g[n]
  <2>1. prizes \in Seq(Int)
    OBVIOUS
  <2>. QED  BY <2>1, WinnersDefined
<1>. DEFINE Right(k) == /\ g[k] \in Seq(Nat \ {0})
                        /\ SumFunction(g[k]) = SumFunctionOnSet(prizes, 1..k)
            G == {k \in Nat : k <= n => Right(k)}
<1>2. 0 \in G
  <2>1. 0 \in 0..n
    BY <1>0
  <2>2. g[0] = <<>>
    BY <1>1, <2>1 DEF IsWinners, WinnersStep
  <2>3. 1..0 = {} /\ DOMAIN <<>> = {}
    OBVIOUS
  <2>4. SumFunction(<<>>) = 0 /\ SumFunctionOnSet(prizes, 1..0) = 0
    BY <2>3, SumEmpty DEF SumFunction
  <2>5. Right(0)
    BY <2>2, <2>4
  <2>. HIDE DEF Right
  <2>. QED  BY <2>5
<1>3. ASSUME NEW k \in G PROVE k + 1 \in G
  <2>. SUFFICES ASSUME k + 1 <= n PROVE Right(k + 1)
    BY <1>3
  <2>0. k \in Nat /\ k + 1 \in 1..n /\ k + 1 \in 0..n /\ (k + 1) - 1 = k /\ Right(k)
    BY <1>0, <1>3
  <2>1. prizes[k + 1] \in Nat
    BY <1>0, <2>0
  <2>2. g[k + 1] = IF prizes[k + 1] > 0 THEN Append(g[k], prizes[k + 1]) ELSE g[k]
    <3>1. g[k + 1] = WinnersStep(prizes, g, k + 1)
      BY <1>1, <2>0 DEF IsWinners
    <3>. QED  BY <2>0, <3>1 DEF WinnersStep
  <2>3. SumFunctionOnSet(prizes, 1..(k + 1)) = prizes[k + 1] + SumFunctionOnSet(prizes, 1..k)
    <3>1. \A i \in 1..(k + 1) : prizes[i] \in Int
      BY <1>0, <2>0
    <3>. QED  BY <2>0, <3>1, SumLast
  <2>4. SumFunctionOnSet(prizes, 1..k) \in Int
    <3>1. IsFiniteSet(1..k) /\ \A i \in 1..k : prizes[i] \in Int
      BY <1>0, <2>0, FS_Interval
    <3>. QED  BY <3>1, SumInt
  <2>5. CASE prizes[k + 1] > 0
    <3>1. g[k + 1] = Append(g[k], prizes[k + 1])
      BY <2>2, <2>5
    <3>2. g[k] \in Seq(Nat \ {0}) /\ g[k] \in Seq(Int) /\ prizes[k + 1] \in Nat \ {0}
      BY <2>0, <2>1, <2>5
    <3>3. SumFunction(g[k + 1]) = SumFunction(g[k]) + prizes[k + 1]
      BY <2>1, <3>1, <3>2, SumAppend
    <3>4. g[k + 1] \in Seq(Nat \ {0})
      BY <3>1, <3>2
    <3>. QED  BY <2>0, <2>1, <2>3, <2>4, <3>3, <3>4
  <2>6. CASE ~(prizes[k + 1] > 0)
    <3>1. g[k + 1] = g[k] /\ prizes[k + 1] = 0
      BY <2>1, <2>2, <2>6
    <3>. QED  BY <2>0, <2>3, <2>4, <3>1
  <2>. QED  BY <2>5, <2>6
<1>4. Right(n)
  <2>1. G \in SUBSET Nat
    OBVIOUS
  <2>2. G = Nat
    <3>. HIDE DEF G
    <3>. QED  BY <1>2, <1>3, <2>1, NatSetInduction
  <2>3. n \in G
    BY <1>0, <2>2
  <2>. HIDE DEF Right
  <2>. QED  BY <1>0, <2>3
<1>. QED  BY <1>0, <1>1, <1>4 DEF SumFunction

-----------------------------------------------------------------------------
(* The weights for the contract.                                           *)

\* Weights that pass the checks of encodeSorobanPayoutAmounts are a valid
\* distribution.
LEMMA EncodedIsValid ==
  ASSUME NEW winners \in Seq(Nat \ {0}), winners # <<>>, NEW pool \in Nat \ {0},
         Encodable(winners, pool)
  PROVE  /\ ValidDistribution(EncodeSorobanPayoutAmounts(winners, pool))
         /\ EncodeSorobanPayoutAmounts(winners, pool) \in [1..Len(winners) -> Nat]
<1>0. PICK n \in Nat \ {0} : n = Len(winners)
  OBVIOUS
<1>. DEFINE bps == EncodeSorobanPayoutAmounts(winners, pool)
            share == [j \in 1..(n - 1) |-> BasisPoints(winners[j], pool)]
<1>1. n \in 1..n /\ \A j \in 1..(n - 1) : j \in 1..n /\ j < n /\ winners[j] \in Nat
  BY <1>0
<1>2. bps = [i \in 1..n |-> IF i < n THEN BasisPoints(winners[i], pool) ELSE 10000 - SumFunction(share)]
  BY <1>0 DEF EncodeSorobanPayoutAmounts
<1>3. bps[n] >= 0
  BY <1>0 DEF Encodable
<1>. HIDE DEF bps
<1>4. \A j \in 1..(n - 1) : share[j] \in Nat /\ bps[j] = share[j]
  <2>1. ASSUME NEW w \in Nat PROVE BasisPoints(w, pool) \in Nat
    <3>1. w * 10000 + pool - 1 \in Nat
      BY <2>1
    <3>. QED  BY <3>1, DivNat DEF BasisPoints
  <2>2. \A j \in 1..(n - 1) : share[j] = BasisPoints(winners[j], pool)
    OBVIOUS
  <2>3. \A j \in 1..(n - 1) : bps[j] = BasisPoints(winners[j], pool)
    BY <1>1, <1>2
  <2>. HIDE DEF share
  <2>. QED  BY <1>1, <2>1, <2>2, <2>3
<1>5. DOMAIN share = 1..(n - 1) /\ DOMAIN bps = 1..n /\ bps[n] = 10000 - SumFunction(share)
  BY <1>1, <1>2
<1>. HIDE DEF share
<1>6. IsFiniteSet(1..(n - 1)) /\ SumFunction(share) \in Nat
  <2>1. n - 1 \in Nat
    BY <1>0
  <2>2. IsFiniteSet(1..(n - 1))
    BY <2>1, IntervalSplit
  <2>. QED  BY <1>4, <1>5, <2>2, SumNat DEF SumFunction
<1>7. \A i \in 1..n : bps[i] \in Nat
  <2>1. \A i \in 1..n : i = n \/ i \in 1..(n - 1)
    BY <1>0
  <2>2. bps[n] \in Nat
    BY <1>3, <1>5, <1>6
  <2>. QED  BY <1>4, <2>1, <2>2
<1>8. SumFunction(bps) = 10000
  <2>1. \A i \in 1..n : bps[i] \in Int
    BY <1>7
  <2>2. SumFunction(bps) = bps[n] + SumFunctionOnSet(bps, 1..(n - 1))
    BY <1>0, <1>5, <2>1, SumRest
  <2>3. SumFunctionOnSet(bps, 1..(n - 1)) = SumFunctionOnSet(share, 1..(n - 1))
    BY <1>4, <1>6, SumCongruence, SMTT(30)
  <2>4. SumFunctionOnSet(bps, 1..(n - 1)) = SumFunction(share)
    BY <1>5, <2>3 DEF SumFunction
  <2>. QED  BY <1>5, <1>6, <2>2, <2>4
<1>9. \A i \in 1..n : bps[i] <= 10000
  <2>1. IsFiniteSet(1..n) /\ SumFunctionOnSet(bps, 1..n) = 10000
    BY <1>0, <1>5, <1>8, IntervalSplit DEF SumFunction
  <2>2. \A i \in 1..n : bps[i] <= SumFunctionOnSet(bps, 1..n)
    <3>. SUFFICES ASSUME NEW i \in 1..n PROVE bps[i] <= SumFunctionOnSet(bps, 1..n)
      OBVIOUS
    <3>. QED  BY <1>7, <2>1, SumBounds
  <2>. QED  BY <2>1, <2>2
<1>10. bps \in [1..n -> Nat] /\ bps # <<>>
  <2>1. bps = [i \in 1..n |-> bps[i]]
    BY <1>2
  <2>2. bps # <<>>
    BY <1>5
  <2>. QED  BY <1>7, <2>1, <2>2
<1>11. Whole \in Nat /\ Whole = 10000
  BY DEF Whole
<1>12. ValidDistribution(bps)
  <2>1. ASSUME NEW x \in Nat, x <= Whole PROVE x \in 0..Whole
    BY <2>1
  <2>2. \A i \in 1..n : bps[i] \in Nat /\ bps[i] <= Whole
    BY <1>7, <1>9, <1>11
  <2>3. \A i \in 1..n : bps[i] \in 0..Whole
    BY <2>1, <2>2, Zenon
  <2>4. \A i \in DOMAIN bps : bps[i] \in 0..Whole
    <3>1. DOMAIN bps = 1..n
      BY <1>5
    <3>. QED  BY <2>3, <3>1, Zenon
  <2>5. SumFunction(bps) = Whole /\ bps # <<>>
    BY <1>8, <1>10, <1>11
  <2>. QED  BY <2>4, <2>5, DistributionMade, Zenon
<1>. QED  BY <1>0, <1>10, <1>12 DEF bps

\* The contract turns them back into the prizes: stroops and cents round
\* alike, and both sides give the rest to the last winner.
LEMMA EncodedPaysPrizes ==
  ASSUME NEW winners \in Seq(Nat \ {0}), winners # <<>>, NEW pool \in Nat \ {0},
         SumFunction(winners) = pool, Encodable(winners, pool)
  PROVE  DistributionPayouts(ToStroops(pool), EncodeSorobanPayoutAmounts(winners, pool))
           = [i \in DOMAIN winners |-> ToStroops(winners[i])]
<1>a. PICK n \in Nat \ {0}, spc \in Nat \ {0} : n = Len(winners) /\ spc = StroopsPerCent
  BY StroopsPerCentAssumption
<1>. DEFINE bps == EncodeSorobanPayoutAmounts(winners, pool)
            Share(i) == (((ToStroops(pool) \div spc) * bps[i]) \div 10000) * spc
            share == [j \in 1..(n - 1) |-> Share(j)]
<1>0. n \in 1..n /\ DOMAIN winners = 1..n /\ n - 1 \in Nat
      /\ \A i \in 1..n : winners[i] \in Nat
  BY <1>a
<1>1. bps \in [1..n -> Nat] /\ Len(bps) = n
  <2>1. bps \in [1..n -> Nat]
    BY <1>a, EncodedIsValid
  <2>. HIDE DEF bps
  <2>. QED  BY <2>1, RankSequence
<1>2. ToStroops(pool) = pool * spc
  BY <1>a DEF ToStroops
<1>3. ToStroops(pool) \div spc = pool
  <2>1. ASSUME NEW a \in Nat, NEW b \in Nat \ {0} PROVE (a * b) \div b = a
    BY Z3
  <2>. QED  BY <1>2, <2>1
<1>4. \A i \in 1..(n - 1) : (pool * bps[i]) \div 10000 = winners[i]
  BY <1>a DEF Encodable
<1>. HIDE DEF bps
<1>5. ASSUME NEW i \in 1..(n - 1) PROVE Share(i) = winners[i] * spc
  BY <1>3, <1>4
<1>6. DistributionPayouts(ToStroops(pool), bps)
        = [i \in 1..n |-> IF i < n THEN Share(i) ELSE ToStroops(pool) - SumFunction(share)]
  BY <1>1, <1>a DEF DistributionPayouts
<1>. HIDE DEF Share
<1>7. SumFunction(share) = SumFunctionOnSet(winners, 1..(n - 1)) * spc
  <2>1. IsFiniteSet(1..(n - 1))
    BY <1>0, IntervalSplit
  <2>2. \A j \in 1..(n - 1) : winners[j] \in Int /\ share[j] = winners[j] * spc
    BY <1>0, <1>5
  <2>3. DOMAIN share = 1..(n - 1) /\ spc \in Int
    BY <1>2
  <2>. HIDE DEF share
  <2>4. SumFunctionOnSet(share, 1..(n - 1)) = SumFunctionOnSet(winners, 1..(n - 1)) * spc
    <3>. DEFINE S == 1..(n - 1)
    <3>1. IsFiniteSet(S) /\ ScaledBy(share, winners, S, spc)
      BY <2>1, <2>2 DEF ScaledBy
    <3>. HIDE DEF S
    <3>2. SumFunctionOnSet(share, S) = SumFunctionOnSet(winners, S) * spc
      BY <2>3, <3>1, SumScale
    <3>. QED  BY <3>2 DEF S
  <2>. QED  BY <2>3, <2>4 DEF SumFunction
<1>8. ToStroops(pool) - SumFunction(share) = winners[n] * spc
  <2>. DEFINE rest == SumFunctionOnSet(winners, 1..(n - 1))
  <2>1. pool = winners[n] + rest /\ rest \in Int /\ winners[n] \in Int
    <3>1. \A i \in 1..n : winners[i] \in Int
      BY <1>0
    <3>. QED  BY <1>0, <3>1, SumRest
  <2>. HIDE DEF rest
  <2>2. (winners[n] + rest) * spc = winners[n] * spc + rest * spc
    BY <1>2, <2>1
  <2>3. winners[n] * spc \in Int /\ rest * spc \in Int
    BY <1>2, <2>1
  <2>4. SumFunction(share) = rest * spc
    BY <1>7 DEF rest
  <2>. HIDE DEF share
  <2>. QED  BY <1>2, <2>1, <2>2, <2>3, <2>4, SMTT(30)
<1>9. \A i \in 1..n : (IF i < n THEN Share(i) ELSE ToStroops(pool) - SumFunction(share)) = winners[i] * spc
  <2>1. \A i \in 1..n : i < n => i \in 1..(n - 1)
    BY <1>0
  <2>2. \A i \in 1..n : ~(i < n) => i = n
    BY <1>0
  <2>. HIDE DEF share
  <2>. QED  BY <1>5, <1>8, <2>1, <2>2
<1>. HIDE DEF share
<1>10. DistributionPayouts(ToStroops(pool), bps) = [i \in 1..n |-> winners[i] * spc]
  BY <1>6, <1>9
<1>. QED  BY <1>0, <1>10, <1>a DEF ToStroops, bps

-----------------------------------------------------------------------------
(* The theorems.                                                           *)

\* What prepareSettlement shares out, and among whom.
Pool == Gross - PlatformFee
AllPrizes == Prizes(Payouts(Pool, SplitsBps))

\* The fee leaves a pool, and where there are winners their prizes are all of
\* it.
LEMMA PreparedPrizes ==
  ASSUME league \in PlanLeagues
  PROVE  /\ Gross \in Nat /\ PlatformFee \in Nat /\ Pool \in Nat
         /\ Winners(AllPrizes) \in Seq(Nat \ {0})
         /\ SumFunction(Winners(AllPrizes)) = SumFunction(AllPrizes)
         /\ Winners(AllPrizes) # <<>> => SumFunction(AllPrizes) = Pool
<1>1. Gross \in Nat
  BY LeagueShape DEF Gross
<1>2. PlatformFee \in Nat /\ PlatformFee <= Gross
  BY <1>1 DEF PlatformFee
<1>3. Pool \in Nat
  BY <1>1, <1>2 DEF Pool
<1>4. PICK n \in 1..league.count : SplitsBps \in [1..n -> Nat] /\ Weights(SplitsBps)
  BY SplitsAreWeights
<1>5. n \in Nat \ {0} /\ league.count \in Nat
  BY LeagueShape
<1>. DEFINE payouts == Payouts(Pool, SplitsBps)
<1>6. /\ payouts \in [1..n -> Nat]
      /\ SumFunction(payouts) = Pool \/ \A i \in 1..n : payouts[i] = 0
  BY <1>3, <1>4, <1>5, PayoutsShareOut
<1>7. AllPrizes \in [1..league.count -> Nat] /\ SumFunction(AllPrizes) = SumFunction(payouts)
  BY <1>6, PrizesKeepPayouts DEF AllPrizes
<1>. HIDE DEF payouts
<1>8. AllPrizes \in Seq(Nat)
  BY <1>5, <1>7, RankSequence
<1>9. /\ Winners(AllPrizes) \in Seq(Nat \ {0})
      /\ SumFunction(Winners(AllPrizes)) = SumFunction(AllPrizes)
  BY <1>8, WinnersSum
<1>10. ASSUME Winners(AllPrizes) # <<>>, \A i \in 1..n : payouts[i] = 0 PROVE FALSE
  <2>. DEFINE w == Winners(AllPrizes)
              m == Len(w)
  <2>1. DOMAIN payouts = 1..n /\ IsFiniteSet(1..n)
    BY <1>5, <1>6, IntervalSplit
  <2>2. SumFunction(payouts) = 0
    BY <1>10, <2>1, SumZero DEF SumFunction
  <2>. HIDE DEF w
  <2>3. w \in Seq(Nat \ {0}) /\ w # <<>> /\ SumFunction(w) = 0
    BY <1>7, <1>9, <1>10, <2>2 DEF w
  <2>4. m \in Nat \ {0} /\ DOMAIN w = 1..m /\ 1 \in 1..m /\ \A i \in 1..m : w[i] \in Nat /\ w[i] # 0
    BY <2>3
  <2>. HIDE DEF m
  <2>5. IsFiniteSet(1..m)
    BY <2>4, IntervalSplit
  <2>6. w[1] <= SumFunctionOnSet(w, 1..m)
    BY <2>4, <2>5, SumBounds
  <2>. QED  BY <2>3, <2>4, <2>6 DEF SumFunction
<1>. QED  BY <1>1, <1>2, <1>3, <1>6, <1>7, <1>9, <1>10

\* The plan is made of the league's own fees, and the league does not change.
PlanInv ==
    /\ league \in PlanLeagues
    /\ PlanConserves
    /\ EncodedPlanMatchesContract

\* PlanInv holds initially and every step keeps it.
THEOREM PlanInvariant == PlanSpec => []PlanInv
<1>1. PlanInit => PlanInv
  BY DEF PlanInit, PlanInv, PlanConserves, EncodedPlanMatchesContract, NoPlan
<1>2. ASSUME PlanInv, [PlanNext]_planVars PROVE PlanInv'
  <2>0. league \in PlanLeagues
    BY <1>2 DEF PlanInv
  <2>1. ASSUME UNCHANGED <<league, plan>> PROVE PlanInv'
    BY <1>2, <2>1 DEF PlanInv, PlanConserves, EncodedPlanMatchesContract, Gross
  <2>2. CASE PrepareSettlement
    <3>. DEFINE winners == Winners(AllPrizes)
                encodes == league.preset # "standard" /\ winners # <<>>
    <3>1. UNCHANGED league
      BY <2>2 DEF PrepareSettlement
    <3>2. \/ UNCHANGED plan
          \/ /\ ~(encodes /\ ~Encodable(winners, Pool))
             /\ plan' = [platformFee |-> PlatformFee, prizePool |-> Pool,
                         prizes |-> AllPrizes, winners |-> winners,
                         distributionBps |->
                             IF encodes THEN EncodeSorobanPayoutAmounts(winners, Pool)
                             ELSE <<>>]
      BY <2>2 DEF PrepareSettlement, Pool, AllPrizes
    <3>3. CASE UNCHANGED plan
      BY <2>1, <3>1, <3>3
    <3>4. CASE ~ UNCHANGED plan
      <4>1. /\ plan'.platformFee = PlatformFee /\ plan'.prizePool = Pool
            /\ plan'.prizes = AllPrizes /\ plan'.winners = winners
            /\ plan'.distributionBps = IF encodes THEN EncodeSorobanPayoutAmounts(winners, Pool)
                                       ELSE <<>>
            /\ encodes => Encodable(winners, Pool)
        BY <3>2, <3>4
      <4>2. /\ Gross \in Nat /\ PlatformFee \in Nat /\ Pool \in Nat
            /\ winners \in Seq(Nat \ {0})
            /\ SumFunction(winners) = SumFunction(AllPrizes)
            /\ winners # <<>> => SumFunction(AllPrizes) = Pool
        BY <2>0, PreparedPrizes
      <4>3. Gross' = Gross
        BY <3>1 DEF Gross
      <4>. HIDE DEF winners
      <4>4. PlanConserves'
        <5>1. Pool = Gross - PlatformFee
          BY DEF Pool
        <5>. QED  BY <4>1, <4>2, <4>3, <5>1 DEF PlanConserves
      <4>5. EncodedPlanMatchesContract'
        <5>. SUFFICES ASSUME plan'.distributionBps # <<>>
                      PROVE  /\ ValidDistribution(plan'.distributionBps)
                             /\ DistributionPayouts(ToStroops(plan'.prizePool), plan'.distributionBps)
                                  = [i \in DOMAIN plan'.winners |-> ToStroops(plan'.winners[i])]
          BY DEF EncodedPlanMatchesContract
        <5>1. encodes /\ Encodable(winners, Pool) /\ winners # <<>>
              /\ plan'.distributionBps = EncodeSorobanPayoutAmounts(winners, Pool)
          BY <4>1
        <5>2. Pool \in Nat \ {0} /\ SumFunction(winners) = Pool
          <6>1. SumFunction(winners) = Pool
            BY <4>2, <5>1
          <6>2. PICK m \in Nat \ {0} : m = Len(winners)
            BY <4>2, <5>1
          <6>3. DOMAIN winners = 1..m /\ 1 \in 1..m /\ \A i \in 1..m : winners[i] \in Nat /\ winners[i] # 0
            BY <4>2, <6>2
          <6>4. IsFiniteSet(1..m)
            BY IntervalSplit
          <6>5. winners[1] <= SumFunctionOnSet(winners, 1..m)
            BY <6>3, <6>4, SumBounds
          <6>. QED  BY <4>2, <6>1, <6>3, <6>5 DEF SumFunction
        <5>3. ValidDistribution(EncodeSorobanPayoutAmounts(winners, Pool))
          BY <4>2, <5>1, <5>2, EncodedIsValid
        <5>4. DistributionPayouts(ToStroops(Pool), EncodeSorobanPayoutAmounts(winners, Pool))
                = [i \in DOMAIN winners |-> ToStroops(winners[i])]
          BY <4>2, <5>1, <5>2, EncodedPaysPrizes
        <5>. QED  BY <4>1, <5>1, <5>3, <5>4
      <4>. QED  BY <2>0, <3>1, <4>4, <4>5 DEF PlanInv
    <3>. QED  BY <3>3, <3>4
  <2>3. CASE SettleLeague
    BY <2>1, <2>3 DEF SettleLeague
  <2>4. CASE UNCHANGED planVars
    BY <2>1, <2>4 DEF planVars
  <2>. QED  BY <1>2, <2>2, <2>3, <2>4 DEF PlanNext
<1>. QED  BY <1>1, <1>2, PTL DEF PlanSpec

\* No cent is lost between the entry fees and the prizes.
THEOREM PlanConservesHolds == PlanSpec => []PlanConserves
<1>1. PlanInv => PlanConserves
  BY DEF PlanInv
<1>. QED  BY <1>1, PlanInvariant, PTL

\* The contract pays exactly the prizes the weights were made from.
THEOREM EncodedPlanMatchesContractHolds == PlanSpec => []EncodedPlanMatchesContract
<1>1. PlanInv => EncodedPlanMatchesContract
  BY DEF PlanInv
<1>. QED  BY <1>1, PlanInvariant, PTL

-----------------------------------------------------------------------------
(* Fixture rows.                                                           *)

Columns == {"kind", "gw", "home", "away", "round", "slot", "homeScore", "awayScore",
            "finished", "winner"}
IsRow(f) == f = [c \in Columns |-> f[c]]

\* A league or playoff match: the home side is a member, and only in the
\* regular season may the Average team be away.
IsMatch(f) ==
    /\ f.kind \in {"league", "playoff"}
    /\ f.home \in Active
    /\ f.away \in Active \/ (f.away = NoMember /\ f.kind = "league")
    /\ f.homeScore \in Int /\ f.awayScore \in Int

\* What a new row holds.
LEMMA UnplayedRow ==
  ASSUME NEW kind, NEW g, NEW home, NEW away, NEW round, NEW slot,
         NEW f, f = Unplayed(kind, g, home, away, round, slot)
  PROVE  /\ IsRow(f) /\ f.kind = kind /\ f.gw = g /\ f.home = home /\ f.away = away
         /\ f.finished = FALSE /\ f.homeScore = NoScore /\ f.awayScore = NoScore
BY DEF Unplayed, IsRow, Columns

\* What settling changes in a row.
LEMMA ScoredRow ==
  ASSUME NEW f, IsRow(f), NEW rows, NEW g, NEW r, r = Scored(f, rows, g)
  PROVE  /\ IsRow(r) /\ r.kind = f.kind /\ r.gw = f.gw /\ r.home = f.home /\ r.away = f.away
         /\ r.finished = TRUE
         /\ r.homeScore = ScoreOf(rows, g, f.home)
         /\ r.awayScore = IF f.away = NoMember THEN AverageScore(rows, g)
                          ELSE ScoreOf(rows, g, f.away)
BY DEF Scored, IsRow, Columns

\* The image of a finite set is finite.
LEMMA ImageFinite ==
  ASSUME NEW S, IsFiniteSet(S), NEW h
  PROVE  IsFiniteSet({h[x] : x \in S})
<1>. DEFINE T == {h[x] : x \in S}
            k == [x \in S |-> h[x]]
<1>1. k \in Surjection(S, T)
  BY DEF Surjection
<1>. HIDE DEF T, k
<1>2. IsFiniteSet(T)
  BY <1>1, FS_Surjection
<1>. QED  BY <1>2 DEF T

\* The members are finitely many, as many as the roster is long.
LEMMA ActiveFinite ==
  ASSUME NEW l \in SeasonLeagues, roster = l.members
  PROVE  /\ IsFiniteSet(Active) /\ Cardinality(Active) = Len(roster) /\ Len(roster) \in Nat
         /\ roster \in [1..Len(roster) -> Active] /\ NoMember \notin Active
<1>1. roster \in Seq(ToSet(roster)) /\ IsInjective(roster) /\ NoMember \notin Active
  BY SettlementAssumption DEF Active
<1>2. Len(roster) \in Nat /\ roster \in [1..Len(roster) -> Active] /\ DOMAIN roster = 1..Len(roster)
  BY <1>1 DEF Active
<1>3. IsFiniteSet(1..Len(roster)) /\ Cardinality(1..Len(roster)) = Len(roster)
  <2>1. 1 \in Int /\ Len(roster) \in Int
    BY <1>2
  <2>2. Cardinality(1..Len(roster)) = IF 1 > Len(roster) THEN 0 ELSE Len(roster) - 1 + 1
    BY <2>1, FS_Interval
  <2>. QED  BY <1>2, <2>1, <2>2, FS_Interval
<1>4. Active = {roster[i] : i \in 1..Len(roster)}
  BY <1>2 DEF Active, ToSet
<1>5. roster \in Surjection(1..Len(roster), Active)
  BY <1>2, <1>4 DEF Surjection
<1>6. roster \in Injection(1..Len(roster), Active)
  BY <1>1, <1>2 DEF Injection, IsInjective
<1>7. IsFiniteSet(Active) /\ Cardinality(Active) = Cardinality(1..Len(roster))
  BY <1>3, <1>5, <1>6, FS_Surjection
<1>. QED  BY <1>1, <1>2, <1>3, <1>7

-----------------------------------------------------------------------------
(* The circle method.                                                      *)

\* Rotating keeps every team once.
LEMMA RotatedInjection ==
  ASSUME NEW n \in Nat, n >= 2, NEW T, NEW t \in Injection(1..n, T)
  PROVE  Rotated(t) \in Injection(1..n, T)
<1>. DEFINE u == Rotated(t)
<1>0. t \in [1..n -> T] /\ \A i, j \in 1..n : t[i] = t[j] => i = j
  BY DEF Injection, IsInjective
<1>1. t \in Seq(T) /\ Len(t) = n
  BY <1>0, RankSequence
<1>2. SubSeq(t, 2, n - 1) \in Seq(T) /\ Len(SubSeq(t, 2, n - 1)) = n - 2
      /\ \A i \in 1..(n - 2) : SubSeq(t, 2, n - 1)[i] = t[i + 1]
  BY <1>1
<1>3. u \in Seq(T) /\ Len(u) = n
  <2>1. t[1] \in T /\ t[n] \in T
    BY <1>0
  <2>2. <<t[1], t[n]>> \in Seq(T) /\ Len(<<t[1], t[n]>>) = 2
    BY <2>1
  <2>. QED  BY <1>1, <1>2, <2>2 DEF Rotated
<1>4. u[1] = t[1] /\ u[2] = t[n] /\ \A i \in 3..n : u[i] = t[i - 1]
  <2>1. <<t[1], t[n]>> \in Seq(T) /\ Len(<<t[1], t[n]>>) = 2
    BY <1>0
  <2>2. \A i \in 3..n : i - 2 \in 1..(n - 2) /\ (i - 2) + 1 = i - 1
    OBVIOUS
  <2>3. \A i \in 3..n : u[i] = SubSeq(t, 2, n - 1)[i - 2]
    BY <1>1, <1>2, <2>1 DEF Rotated
  <2>4. u[1] = t[1] /\ u[2] = t[n]
    BY <1>1, <1>2, <2>1 DEF Rotated
  <2>. QED  BY <1>2, <2>2, <2>3, <2>4
<1>5. u \in [1..n -> T]
  BY <1>3
<1>. DEFINE back == [i \in 1..n |-> IF i = 1 THEN 1 ELSE IF i = 2 THEN n ELSE i - 1]
<1>6. \A i \in 1..n : u[i] = t[back[i]] /\ back[i] \in 1..n
  <2>1. \A i \in 1..n : i = 1 \/ i = 2 \/ i \in 3..n
    OBVIOUS
  <2>2. 1 \in 1..n /\ n \in 1..n /\ \A i \in 3..n : i - 1 \in 1..n /\ i # 1 /\ i # 2
    OBVIOUS
  <2>. HIDE DEF u
  <2>. QED  BY <1>4, <2>1, <2>2
<1>7. \A i, j \in 1..n : back[i] = back[j] => i = j
  OBVIOUS
<1>8. \A i, j \in 1..n : u[i] = u[j] => i = j
  <2>. HIDE DEF u, back
  <2>. QED  BY <1>0, <1>6, <1>7
<1>. HIDE DEF u
<1>9. u \in Injection(1..n, T)
  BY <1>5, <1>8 DEF Injection, IsInjective
<1>. QED  BY <1>9 DEF u

\* The rotations of a list of teams, as far as round k.
RotationStep(teams, g, r) == IF r = 0 THEN teams ELSE Rotated(g[r - 1])
IsRotation(teams, k, g) == g = [r \in 0 .. k |-> RotationStep(teams, g, r)]

\* The recursion has a solution.
LEMMA RotationExists ==
  ASSUME NEW teams, NEW k \in Nat
  PROVE  \E g : IsRotation(teams, k, g)
<1>. DEFINE G == {n \in Nat : \E g : IsRotation(teams, n, g)}
<1>1. 0 \in G
  <2>. DEFINE g == [r \in 0..0 |-> teams]
  <2>1. g = [r \in 0..0 |-> RotationStep(teams, g, r)]
    BY DEF RotationStep
  <2>. QED  BY <2>1 DEF IsRotation
<1>2. ASSUME NEW n \in G PROVE n + 1 \in G
  <2>0. n \in Nat /\ n + 1 \in Nat
    BY <1>2
  <2>1. PICK g : IsRotation(teams, n, g)
    BY <1>2
  <2>. DEFINE h == [r \in 0..(n + 1) |-> RotationStep(teams, g, r)]
  <2>2. ASSUME NEW r \in 0..n PROVE h[r] = g[r]
    <3>1. r \in 0..(n + 1)
      BY <2>0
    <3>2. g[r] = RotationStep(teams, g, r)
      BY <2>1 DEF IsRotation
    <3>. QED  BY <3>1, <3>2
  <2>3. ASSUME NEW r \in 0..(n + 1) PROVE RotationStep(teams, g, r) = RotationStep(teams, h, r)
    <3>1. CASE r = 0
      BY <3>1 DEF RotationStep
    <3>2. CASE r # 0
      <4>1. r - 1 \in 0..n
        BY <2>0, <3>2
      <4>2. h[r - 1] = g[r - 1]
        BY <2>2, <4>1
      <4>. HIDE DEF h
      <4>. QED  BY <3>2, <4>2 DEF RotationStep
    <3>. QED  BY <3>1, <3>2
  <2>4. IsRotation(teams, n + 1, h)
    BY <2>3, Zenon DEF IsRotation
  <2>. QED  BY <2>0, <2>4
<1>3. k \in G
  <2>1. G \in SUBSET Nat
    OBVIOUS
  <2>2. G = Nat
    <3>. HIDE DEF G
    <3>. QED  BY <1>1, <1>2, <2>1, NatSetInduction
  <2>. QED  BY <2>2
<1>. QED  BY <1>3

\* In every round every team has one place.
LEMMA RotationInjection ==
  ASSUME NEW n \in Nat, n >= 2, NEW T, NEW teams \in Injection(1..n, T),
         NEW k \in Nat, NEW g, IsRotation(teams, k, g)
  PROVE  \A r \in 0..k : g[r] \in Injection(1..n, T)
<1>. DEFINE G == {r \in Nat : r <= k => g[r] \in Injection(1..n, T)}
<1>1. 0 \in G
  <2>1. 0 \in 0..k
    OBVIOUS
  <2>2. g[0] = RotationStep(teams, g, 0)
    BY <2>1 DEF IsRotation
  <2>. QED  BY <2>2 DEF RotationStep
<1>2. ASSUME NEW r \in G PROVE r + 1 \in G
  <2>0. r \in Nat /\ r + 1 \in Nat /\ (r + 1) - 1 = r /\ r + 1 # 0
    BY <1>2
  <2>. SUFFICES ASSUME r + 1 <= k PROVE g[r + 1] \in Injection(1..n, T)
    BY <2>0
  <2>1. r + 1 \in 0..k /\ g[r] \in Injection(1..n, T)
    BY <1>2, <2>0
  <2>2. g[r + 1] = RotationStep(teams, g, r + 1)
    BY <2>1 DEF IsRotation
  <2>3. g[r + 1] = Rotated(g[r])
    BY <2>0, <2>2 DEF RotationStep
  <2>. QED  BY <2>1, <2>3, RotatedInjection
<1>3. G = Nat
  <2>1. G \in SUBSET Nat
    OBVIOUS
  <2>. HIDE DEF G
  <2>. QED  BY <1>1, <1>2, <2>1, NatSetInduction
<1>. QED  BY <1>3

\* The parts of GenerateRoundRobinSchedule.
Teams(ids) == IF Len(ids) % 2 = 1 THEN Append(ids, NoMember) ELSE ids
Rotation(teams) == CHOOSE g : IsRotation(teams, Len(teams) - 2, g)
Pairing(g, n, a, b) ==
    IF \/ a = NoMember
       \/ b # NoMember /\ (((g - 1) % (n - 1)) % 2 = 1) # (((g - 1) \div (n - 1)) % 2 = 1)
    THEN Unplayed("league", g, b, a, 0, 0)
    ELSE Unplayed("league", g, a, b, 0, 0)
MatchOf(teams, g, i) ==
    Pairing(g, Len(teams), Rotation(teams)[(g - 1) % (Len(teams) - 1)][i],
            Rotation(teams)[(g - 1) % (Len(teams) - 1)][Len(teams) + 1 - i])

\* The schedule in those terms.
LEMMA ScheduleParts ==
  ASSUME NEW ids
  PROVE  GenerateRoundRobinSchedule(ids) =
           IF Len(ids) < 2 THEN {}
           ELSE {MatchOf(Teams(ids), g, i) : g \in Gameweeks, i \in 1 .. Len(Teams(ids)) \div 2}
BY DEF GenerateRoundRobinSchedule, Teams, Rotation, Pairing, MatchOf, IsRotation, RotationStep

\* Teams are an even number of distinct sides.
LEMMA TeamsInjection ==
  ASSUME NEW l \in SeasonLeagues, roster = l.members, Len(roster) >= 2
  PROVE  \E n \in Nat : /\ n >= 2 /\ n % 2 = 0 /\ Len(Teams(roster)) = n
                        /\ Teams(roster) \in Injection(1..n, Active \cup {NoMember})
<1>. DEFINE T == Active \cup {NoMember}
<1>0. PICK k \in Nat : k = Len(roster) /\ k >= 2
  BY ActiveFinite
<1>1. roster \in [1..k -> Active] /\ NoMember \notin Active /\ \A i, j \in 1..k : roster[i] = roster[j] => i = j
  <2>1. roster \in [1..k -> Active] /\ NoMember \notin Active
    BY <1>0, ActiveFinite
  <2>2. IsInjective(roster)
    BY SettlementAssumption
  <2>. QED  BY <2>1, <2>2 DEF IsInjective
<1>2. roster \in Seq(Active) /\ roster \in Seq(T)
  BY <1>1, RankSequence
<1>3. CASE k % 2 = 1
  <2>. DEFINE t == Append(roster, NoMember)
  <2>1. Teams(roster) = t
    BY <1>0, <1>3 DEF Teams
  <2>2. t \in Seq(T) /\ Len(t) = k + 1 /\ t[k + 1] = NoMember /\ \A i \in 1..k : t[i] = roster[i]
    BY <1>0, <1>2
  <2>3. (k + 1) % 2 = 0 /\ k + 1 >= 2 /\ k + 1 \in Nat
    <3>1. ASSUME NEW x \in Nat, x % 2 = 1 PROVE (x + 1) % 2 = 0
      BY <3>1, Z3
    <3>2. (k + 1) % 2 = 0
      BY <1>3, <3>1, Zenon
    <3>3. k + 1 >= 2 /\ k + 1 \in Nat
      BY <1>0
    <3>. QED  BY <3>2, <3>3
  <2>. HIDE DEF t, T
  <2>4. t \in [1..(k + 1) -> T]
    BY <2>2, <2>3
  <2>5. \A i \in 1..(k + 1) : i = k + 1 \/ i \in 1..k
    OBVIOUS
  <2>6. \A i, j \in 1..(k + 1) : t[i] = t[j] => i = j
    <3>1. \A i \in 1..k : t[i] \in Active
      BY <1>1, <2>2
    <3>. QED  BY <1>1, <2>2, <2>5, <3>1
  <2>7. t \in Injection(1..(k + 1), T)
    BY <2>4, <2>6 DEF Injection, IsInjective
  <2>. QED  BY <2>1, <2>2, <2>3, <2>7 DEF T
<1>4. CASE k % 2 # 1
  <2>1. Teams(roster) = roster
    BY <1>0, <1>4 DEF Teams
  <2>2. k % 2 = 0
    <3>1. ASSUME NEW x \in Nat, x % 2 # 1 PROVE x % 2 = 0
      BY <3>1, Z3
    <3>. QED  BY <1>0, <1>4, <3>1
  <2>3. roster \in Injection(1..k, T)
    <3>1. roster \in [1..k -> T] /\ DOMAIN roster = 1..k
      BY <1>1
    <3>. QED  BY <1>1, <3>1 DEF Injection, IsInjective
  <2>. QED  BY <1>0, <2>1, <2>2, <2>3
<1>. QED  BY <1>3, <1>4

\* The schedule of a league is made of unplayed matches.
LEMMA ScheduleMatches ==
  ASSUME NEW l \in SeasonLeagues, roster = l.members
  PROVE  /\ IsFiniteSet(GenerateRoundRobinSchedule(roster))
         /\ \A f \in GenerateRoundRobinSchedule(roster) :
                IsRow(f) /\ IsMatch(f) /\ f.finished = FALSE
<1>. DEFINE F == GenerateRoundRobinSchedule(roster)
            T == Active \cup {NoMember}
            teams == Teams(roster)
<1>1. CASE Len(roster) < 2
  <2>1. F = {}
    BY <1>1, ScheduleParts
  <2>. QED  BY <2>1, FS_EmptySet
<1>2. CASE ~(Len(roster) < 2)
  <2>0. Len(roster) \in Nat /\ Len(roster) >= 2 /\ NoMember \notin Active
    BY <1>2, ActiveFinite
  <2>1. PICK n \in Nat : /\ n >= 2 /\ n % 2 = 0 /\ Len(teams) = n
                         /\ teams \in Injection(1..n, T)
    BY <2>0, TeamsInjection
  <2>. DEFINE I == 1 .. n \div 2
              rot == Rotation(teams)
  <2>2. F = {MatchOf(teams, g, i) : g \in Gameweeks, i \in I}
    BY <1>2, <2>1, ScheduleParts
  <2>3. \A r \in 0..(n - 2) : rot[r] \in Injection(1..n, T)
    <3>1. n - 2 \in Nat
      BY <2>1
    <3>2. \E g : IsRotation(teams, n - 2, g)
      BY <3>1, RotationExists
    <3>3. IsRotation(teams, n - 2, rot)
      BY <2>1, <3>2 DEF Rotation
    <3>. HIDE DEF rot, teams, T
    <3>. QED  BY <2>1, <3>1, <3>3, RotationInjection
  <2>. HIDE DEF teams
  <2>4. ASSUME NEW g \in Gameweeks, NEW i \in I
        PROVE  IsRow(MatchOf(teams, g, i)) /\ IsMatch(MatchOf(teams, g, i))
               /\ MatchOf(teams, g, i).finished = FALSE
    <3>0. g \in Nat \ {0} /\ EndGameweek \in Nat
      BY SettlementAssumption DEF Gameweeks
    <3>1. (g - 1) % (n - 1) \in 0..(n - 2)
      <4>1. ASSUME NEW x \in Nat, NEW y \in Nat \ {0} PROVE x % y \in 0..(y - 1)
        BY Z3
      <4>2. g - 1 \in Nat /\ n - 1 \in Nat \ {0} /\ (n - 1) - 1 = n - 2
        BY <2>1, <3>0
      <4>. QED  BY <4>1, <4>2
    <3>2. i \in 1..n /\ n + 1 - i \in 1..n /\ i # n + 1 - i
      <4>1. 2 * (n \div 2) <= n
        BY <2>1
      <4>. QED  BY <2>1, <4>1
    <3>. DEFINE p == rot[(g - 1) % (n - 1)]
                a == p[i]
                b == p[n + 1 - i]
    <3>3. p \in Injection(1..n, T)
      BY <2>3, <3>1
    <3>4. a \in T /\ b \in T /\ a # b
      <4>. HIDE DEF p, T
      <4>. QED  BY <3>2, <3>3 DEF Injection, IsInjective
    <3>5. MatchOf(teams, g, i) = Pairing(g, n, a, b)
      BY <2>1 DEF MatchOf
    <3>. HIDE DEF a, b
    <3>6. \/ Pairing(g, n, a, b) = Unplayed("league", g, b, a, 0, 0) /\ b # NoMember
          \/ Pairing(g, n, a, b) = Unplayed("league", g, a, b, 0, 0) /\ a # NoMember
      BY <3>4 DEF Pairing
    <3>7. ASSUME NEW x \in Active, NEW y \in T, NEW f, f = Unplayed("league", g, x, y, 0, 0)
          PROVE  IsRow(f) /\ IsMatch(f) /\ f.finished = FALSE
      <4>1. /\ IsRow(f) /\ f.kind = "league" /\ f.home = x /\ f.away = y
            /\ f.finished = FALSE /\ f.homeScore = NoScore /\ f.awayScore = NoScore
        BY <3>7 DEF Unplayed, IsRow, Columns
      <4>. QED  BY <4>1 DEF IsMatch, NoScore
    <3>. QED  BY <3>4, <3>5, <3>6, <3>7
  <2>5. IsFiniteSet(F)
    <3>. DEFINE S == Gameweeks \X I
                h == [x \in S |-> MatchOf(teams, x[1], x[2])]
    <3>1. IsFiniteSet(Gameweeks) /\ IsFiniteSet(I)
      <4>1. EndGameweek \in Nat /\ n \div 2 \in Nat
        BY <2>1, DivNat, SettlementAssumption
      <4>. QED  BY <4>1, IntervalSplit DEF Gameweeks
    <3>2. IsFiniteSet(S)
      BY <3>1, FS_Product
    <3>3. F = {h[x] : x \in S}
      <4>1. \A f \in F : \E x \in S : f = h[x]
        <5>. SUFFICES ASSUME NEW g \in Gameweeks, NEW i \in I PROVE \E x \in S : MatchOf(teams, g, i) = h[x]
          BY <2>2
        <5>1. <<g, i>> \in S /\ h[<<g, i>>] = MatchOf(teams, g, i)
          OBVIOUS
        <5>. QED  BY <5>1
      <4>2. \A x \in S : h[x] \in F
        BY <2>2
      <4>. HIDE DEF F, h, S
      <4>. QED  BY <4>1, <4>2
    <3>. HIDE DEF S, h
    <3>. QED  BY <3>2, <3>3, ImageFinite
  <2>6. ASSUME NEW f \in F PROVE IsRow(f) /\ IsMatch(f) /\ f.finished = FALSE
    <3>1. PICK g \in Gameweeks, i \in I : f = MatchOf(teams, g, i)
      BY <2>2
    <3>. QED  BY <2>4, <3>1, Zenon
  <2>. QED  BY <2>5, <2>6
<1>. QED  BY <1>1, <1>2

-----------------------------------------------------------------------------
(* The table as a sum over results.                                        *)

\* What member m scored, conceded and earned in the fixtures F, per fixture, and
\* the fixtures that ended with p points for it.
Scores(F, m) == [f \in Played(F, m) |-> SideOf(f, m)[1]]
Concedes(F, m) == [f \in Played(F, m) |-> SideOf(f, m)[2]]
Earns(F, m) == [f \in Played(F, m) |-> Outcome(SideOf(f, m)[1], SideOf(f, m)[2])]
Ends(F, m, p) == {f \in Played(F, m) : Outcome(SideOf(f, m)[1], SideOf(f, m)[2]) = p}

\* A row of the table in those terms.
LEMMA TallyParts ==
  ASSUME NEW F, NEW m
  PROVE  Tally(F, m) = [pts |-> SumFunctionOnSet(Earns(F, m), Played(F, m)),
                        won |-> Cardinality(Ends(F, m, 3)),
                        drawn |-> Cardinality(Ends(F, m, 1)),
                        lost |-> Cardinality(Ends(F, m, 0)),
                        pf  |-> SumFunctionOnSet(Scores(F, m), Played(F, m)),
                        pa  |-> SumFunctionOnSet(Concedes(F, m), Played(F, m))]
<1>. DEFINE own == Played(F, m)
            Points(f) == Outcome(SideOf(f, m)[1], SideOf(f, m)[2])
            Pf(f) == SideOf(f, m)[1]
            Pa(f) == SideOf(f, m)[2]
<1>1. MapThenSumSet(Points, own) = SumFunctionOnSet([f \in own |-> Points(f)], own)
  <2>. HIDE DEF own
  <2>. QED  BY Zenon DEF MapThenSumSet, MapThenFoldSet, SumFunctionOnSet, FoldFunctionOnSet
<1>2. MapThenSumSet(Pf, own) = SumFunctionOnSet([f \in own |-> Pf(f)], own)
  <2>. HIDE DEF own
  <2>. QED  BY Zenon DEF MapThenSumSet, MapThenFoldSet, SumFunctionOnSet, FoldFunctionOnSet
<1>3. MapThenSumSet(Pa, own) = SumFunctionOnSet([f \in own |-> Pa(f)], own)
  <2>. HIDE DEF own
  <2>. QED  BY Zenon DEF MapThenSumSet, MapThenFoldSet, SumFunctionOnSet, FoldFunctionOnSet
<1>. QED  BY <1>1, <1>2, <1>3, Zenon DEF Tally, Earns, Ends, Scores, Concedes

\* Addends a and b that agree with the addends u of a union.
AddendsOf(u, a, A, b, B) ==
    /\ IsFiniteSet(A) /\ IsFiniteSet(B) /\ A \cap B = {}
    /\ \A x \in A \cup B : u[x] \in Int
    /\ \A x \in A : a[x] = u[x]
    /\ \A x \in B : b[x] = u[x]

\* The sum over a union, from its parts.
LEMMA SumSplit ==
  ASSUME NEW u, NEW a, NEW A, NEW b, NEW B, AddendsOf(u, a, A, b, B)
  PROVE  /\ SumFunctionOnSet(u, A \cup B) = SumFunctionOnSet(a, A) + SumFunctionOnSet(b, B)
         /\ SumFunctionOnSet(a, A) \in Int /\ SumFunctionOnSet(b, B) \in Int
<1>. USE DEF AddendsOf
<1>1. SumFunctionOnSet(u, A \cup B) = SumFunctionOnSet(u, A) + SumFunctionOnSet(u, B)
  BY SumUnion
<1>2. SumFunctionOnSet(a, A) = SumFunctionOnSet(u, A)
  BY SumCongruence
<1>3. SumFunctionOnSet(b, B) = SumFunctionOnSet(u, B)
  BY SumCongruence
<1>4. SumFunctionOnSet(u, A) \in Int /\ SumFunctionOnSet(u, B) \in Int
  BY SumInt
<1>. QED  BY <1>1, <1>2, <1>3, <1>4

\* The fixtures have scores.
HaveScores(F) == IsFiniteSet(F) /\ \A f \in F : f.homeScore \in Int /\ f.awayScore \in Int

\* Settling fixtures that are not yet in the table adds their tally.
LEMMA TallyUnion ==
  ASSUME NEW R, NEW D, HaveScores(R), HaveScores(D), R \cap D = {}, NEW m
  PROVE  Tally(R \cup D, m) = Sum(Tally(R, m), Tally(D, m))
<1>. DEFINE U == R \cup D
            A == Played(R, m)
            B == Played(D, m)
<1>1. Played(U, m) = A \cup B /\ A \cap B = {} /\ A \subseteq R /\ B \subseteq D
  BY DEF Played
<1>2. IsFiniteSet(A) /\ IsFiniteSet(B)
  BY <1>1, FS_Subset DEF HaveScores
<1>3. \A f \in A \cup B : /\ SideOf(f, m)[1] \in Int /\ SideOf(f, m)[2] \in Int
                          /\ Outcome(SideOf(f, m)[1], SideOf(f, m)[2]) \in Int
  <2>1. \A f \in A \cup B : SideOf(f, m)[1] \in Int /\ SideOf(f, m)[2] \in Int
    BY <1>1 DEF SideOf, HaveScores
  <2>2. \A f : Outcome(SideOf(f, m)[1], SideOf(f, m)[2]) \in Int
    BY DEF Outcome
  <2>. QED  BY <2>1, <2>2
<1>. HIDE DEF A, B
<1>4. /\ SumFunctionOnSet(Scores(U, m), Played(U, m)) = SumFunctionOnSet(Scores(R, m), A) + SumFunctionOnSet(Scores(D, m), B)
      /\ SumFunctionOnSet(Scores(R, m), A) \in Int /\ SumFunctionOnSet(Scores(D, m), B) \in Int
  <2>1. /\ \A f \in A \cup B : Scores(U, m)[f] \in Int
        /\ \A f \in A : Scores(R, m)[f] = Scores(U, m)[f]
        /\ \A f \in B : Scores(D, m)[f] = Scores(U, m)[f]
    BY <1>1, <1>3 DEF Scores, A, B
  <2>2. AddendsOf(Scores(U, m), Scores(R, m), A, Scores(D, m), B)
    BY <1>1, <1>2, <2>1 DEF AddendsOf
  <2>3. /\ SumFunctionOnSet(Scores(U, m), A \cup B) =
             SumFunctionOnSet(Scores(R, m), A) + SumFunctionOnSet(Scores(D, m), B)
        /\ SumFunctionOnSet(Scores(R, m), A) \in Int /\ SumFunctionOnSet(Scores(D, m), B) \in Int
    BY <2>2, SumSplit, Zenon
  <2>. QED  BY <1>1, <2>3
<1>5. /\ SumFunctionOnSet(Concedes(U, m), Played(U, m)) = SumFunctionOnSet(Concedes(R, m), A) + SumFunctionOnSet(Concedes(D, m), B)
      /\ SumFunctionOnSet(Concedes(R, m), A) \in Int /\ SumFunctionOnSet(Concedes(D, m), B) \in Int
  <2>1. /\ \A f \in A \cup B : Concedes(U, m)[f] \in Int
        /\ \A f \in A : Concedes(R, m)[f] = Concedes(U, m)[f]
        /\ \A f \in B : Concedes(D, m)[f] = Concedes(U, m)[f]
    BY <1>1, <1>3 DEF Concedes, A, B
  <2>2. AddendsOf(Concedes(U, m), Concedes(R, m), A, Concedes(D, m), B)
    BY <1>1, <1>2, <2>1 DEF AddendsOf
  <2>3. /\ SumFunctionOnSet(Concedes(U, m), A \cup B) =
             SumFunctionOnSet(Concedes(R, m), A) + SumFunctionOnSet(Concedes(D, m), B)
        /\ SumFunctionOnSet(Concedes(R, m), A) \in Int /\ SumFunctionOnSet(Concedes(D, m), B) \in Int
    BY <2>2, SumSplit, Zenon
  <2>. QED  BY <1>1, <2>3
<1>6. /\ SumFunctionOnSet(Earns(U, m), Played(U, m)) = SumFunctionOnSet(Earns(R, m), A) + SumFunctionOnSet(Earns(D, m), B)
      /\ SumFunctionOnSet(Earns(R, m), A) \in Int /\ SumFunctionOnSet(Earns(D, m), B) \in Int
  <2>1. /\ \A f \in A \cup B : Earns(U, m)[f] \in Int
        /\ \A f \in A : Earns(R, m)[f] = Earns(U, m)[f]
        /\ \A f \in B : Earns(D, m)[f] = Earns(U, m)[f]
    BY <1>1, <1>3 DEF Earns, A, B
  <2>2. AddendsOf(Earns(U, m), Earns(R, m), A, Earns(D, m), B)
    BY <1>1, <1>2, <2>1 DEF AddendsOf
  <2>3. /\ SumFunctionOnSet(Earns(U, m), A \cup B) =
             SumFunctionOnSet(Earns(R, m), A) + SumFunctionOnSet(Earns(D, m), B)
        /\ SumFunctionOnSet(Earns(R, m), A) \in Int /\ SumFunctionOnSet(Earns(D, m), B) \in Int
    BY <2>2, SumSplit, Zenon
  <2>. QED  BY <1>1, <2>3
<1>7. ASSUME NEW p
      PROVE  Cardinality(Ends(U, m, p)) = Cardinality(Ends(R, m, p)) + Cardinality(Ends(D, m, p))
  <2>1. PICK V, W : V = Ends(R, m, p) /\ W = Ends(D, m, p)
    OBVIOUS
  <2>2. Ends(U, m, p) = V \cup W /\ V \cap W = {} /\ V \subseteq A /\ W \subseteq B
    BY <1>1, <2>1 DEF Ends, A, B
  <2>3. IsFiniteSet(V) /\ IsFiniteSet(W)
    BY <1>2, <2>2, FS_Subset
  <2>4. /\ Cardinality(V \cup W) = Cardinality(V) + Cardinality(W) - Cardinality(V \cap W)
        /\ Cardinality(V) \in Nat /\ Cardinality(W) \in Nat
    BY <2>3, FS_Union, FS_CardinalityType
  <2>5. Cardinality(V \cap W) = 0
    BY <2>2, FS_EmptySet
  <2>6. Cardinality(V \cup W) = Cardinality(V) + Cardinality(W) - 0
    BY <2>4, <2>5, Zenon
  <2>7. Cardinality(V \cup W) = Cardinality(V) + Cardinality(W)
    BY <2>4, <2>6
  <2>. QED  BY <2>1, <2>2, <2>7, Zenon
<1>8. /\ Tally(U, m).pts = Tally(R, m).pts + Tally(D, m).pts
      /\ Tally(U, m).won = Tally(R, m).won + Tally(D, m).won
      /\ Tally(U, m).drawn = Tally(R, m).drawn + Tally(D, m).drawn
      /\ Tally(U, m).lost = Tally(R, m).lost + Tally(D, m).lost
      /\ Tally(U, m).pf = Tally(R, m).pf + Tally(D, m).pf
      /\ Tally(U, m).pa = Tally(R, m).pa + Tally(D, m).pa
  <2>1. ASSUME NEW F
        PROVE  /\ Tally(F, m).pts = SumFunctionOnSet(Earns(F, m), Played(F, m))
               /\ Tally(F, m).won = Cardinality(Ends(F, m, 3))
               /\ Tally(F, m).drawn = Cardinality(Ends(F, m, 1))
               /\ Tally(F, m).lost = Cardinality(Ends(F, m, 0))
               /\ Tally(F, m).pf = SumFunctionOnSet(Scores(F, m), Played(F, m))
               /\ Tally(F, m).pa = SumFunctionOnSet(Concedes(F, m), Played(F, m))
    BY TallyParts
  <2>. QED  BY <1>4, <1>5, <1>6, <1>7, <2>1, Zenon DEF A, B
<1>9. Tally(U, m) = [pts |-> Tally(R, m).pts + Tally(D, m).pts,
                     won |-> Tally(R, m).won + Tally(D, m).won,
                     drawn |-> Tally(R, m).drawn + Tally(D, m).drawn,
                     lost |-> Tally(R, m).lost + Tally(D, m).lost,
                     pf |-> Tally(R, m).pf + Tally(D, m).pf,
                     pa |-> Tally(R, m).pa + Tally(D, m).pa]
  <2>1. Tally(U, m) = [pts |-> Tally(U, m).pts, won |-> Tally(U, m).won,
                       drawn |-> Tally(U, m).drawn, lost |-> Tally(U, m).lost,
                       pf |-> Tally(U, m).pf, pa |-> Tally(U, m).pa]
    BY DEF Tally
  <2>. QED  BY <1>8, <2>1, Zenon
<1>10. DOMAIN Tally(R, m) = {"pts", "won", "drawn", "lost", "pf", "pa"}
  BY DEF Tally
<1>11. Sum(Tally(R, m), Tally(D, m)) =
         [pts |-> Tally(R, m).pts + Tally(D, m).pts, won |-> Tally(R, m).won + Tally(D, m).won,
          drawn |-> Tally(R, m).drawn + Tally(D, m).drawn,
          lost |-> Tally(R, m).lost + Tally(D, m).lost,
          pf |-> Tally(R, m).pf + Tally(D, m).pf, pa |-> Tally(R, m).pa + Tally(D, m).pa]
  BY <1>10 DEF Sum
<1>. QED  BY <1>9, <1>11, Zenon

\* Before the first result the table is empty.
LEMMA TallyEmpty ==
  ASSUME NEW m
  PROVE  Tally({}, m) = [pts |-> 0, won |-> 0, drawn |-> 0, lost |-> 0, pf |-> 0, pa |-> 0]
<1>1. Played({}, m) = {} /\ \A p : Ends({}, m, p) = {}
  BY DEF Played, Ends
<1>. QED  BY <1>1, TallyParts, SumEmpty, FS_EmptySet

-----------------------------------------------------------------------------
(* Scores and standings.                                                   *)

\* Rows of points: in each gameweek, an integer for the members that have one.
IsPoints(row) == \A m \in DOMAIN row : row[m] \in Int
IsScores(rows) ==
    rows = [g \in Gameweeks |-> rows[g]] /\ \A g \in Gameweeks : IsPoints(rows[g])

\* A member's points are an integer.
LEMMA ScoreOfInt ==
  ASSUME NEW rows, IsScores(rows), NEW g \in Gameweeks, NEW m
  PROVE  ScoreOf(rows, g, m) \in Int
BY DEF IsScores, IsPoints, ScoreOf

\* The rows of one gameweek are written.
LEMMA ScoresWritten ==
  ASSUME NEW rows, IsScores(rows), NEW g \in Gameweeks, NEW row, IsPoints(row)
  PROVE  IsScores([rows EXCEPT ![g] = row])
BY DEF IsScores

\* So are the points of the Average team.
LEMMA AverageScoreInt ==
  ASSUME NEW rows, IsScores(rows), NEW g \in Gameweeks, IsFiniteSet(Active), Active # {}
  PROVE  AverageScore(rows, g) \in Int
<1>. DEFINE h == [m \in Active |-> ScoreOf(rows, g, m)]
<1>1. MapThenSumSet(LAMBDA m : ScoreOf(rows, g, m), Active) = SumFunctionOnSet(h, Active)
  BY ZenonT(60) DEF MapThenSumSet, MapThenFoldSet, SumFunctionOnSet, FoldFunctionOnSet
<1>2. \A m \in Active : h[m] \in Int
  BY ScoreOfInt
<1>. HIDE DEF h
<1>3. SumFunctionOnSet(h, Active) \in Int
  BY <1>2, SumInt
<1>4. Cardinality(Active) \in Nat /\ Cardinality(Active) # 0
  BY FS_CardinalityType, FS_EmptySet
<1>5. AverageScore(rows, g) =
        (2 * SumFunctionOnSet(h, Active) + Cardinality(Active)) \div (2 * Cardinality(Active))
  BY <1>1, Zenon DEF AverageScore
<1>6. ASSUME NEW x \in Int, NEW n \in Nat, n # 0 PROVE (2 * x + n) \div (2 * n) \in Int
  <2>1. ASSUME NEW y \in Int, NEW d \in Nat \ {0} PROVE y \div d \in Int
    BY Z3
  <2>2. 2 * x + n \in Int /\ 2 * n \in Nat \ {0}
    BY <1>6
  <2>. QED  BY <2>1, <2>2, Zenon
<1>. QED  BY <1>3, <1>4, <1>5, <1>6, Zenon

\* A settled match has integer scores.
LEMMA ScoredMatch ==
  ASSUME NEW rows, IsScores(rows), NEW g \in Gameweeks, IsFiniteSet(Active),
         NEW f, IsRow(f), IsMatch(f), NEW r, r = Scored(f, rows, g)
  PROVE  /\ IsRow(r) /\ IsMatch(r) /\ r.gw = f.gw /\ r.home = f.home /\ r.finished = TRUE
<1>1. /\ IsRow(r) /\ r.kind = f.kind /\ r.gw = f.gw /\ r.home = f.home /\ r.away = f.away
      /\ r.finished = TRUE
      /\ r.homeScore = ScoreOf(rows, g, f.home)
      /\ r.awayScore = IF f.away = NoMember THEN AverageScore(rows, g)
                       ELSE ScoreOf(rows, g, f.away)
  BY DEF Scored, IsRow, Columns
<1>2. f.home \in Active /\ (f.away \in Active \/ f.away = NoMember)
  BY DEF IsMatch
<1>3. r.homeScore \in Int /\ r.awayScore \in Int
  BY <1>1, <1>2, ScoreOfInt, AverageScoreInt
<1>. QED  BY <1>1, <1>3 DEF IsMatch

\* Every member has a place in the standings.
LEMMA StandingsPlace ==
  ASSUME IsFiniteSet(Active), NEW s \in SetToSeqs(Active)
  PROVE  /\ DOMAIN s = 1..Cardinality(Active)
         /\ \A m \in Active : \E i \in DOMAIN s : s[i] = m
<1>1. Cardinality(Active) \in Nat
  BY FS_CardinalityType
<1>2. PICK n \in Nat : n = Cardinality(Active)
  BY <1>1
<1>3. s \in [1..n -> Active] /\ \A i, j \in 1..n : i # j => s[i] # s[j]
  BY <1>2 DEF SetToSeqs
<1>4. IsFiniteSet(1..n) /\ Cardinality(1..n) = n
  <2>1. 1 \in Int /\ n \in Int
    OBVIOUS
  <2>2. Cardinality(1..n) = IF 1 > n THEN 0 ELSE n - 1 + 1
    BY <2>1, FS_Interval
  <2>. QED  BY <2>1, <2>2, FS_Interval
<1>5. s \in Injection(1..n, Active)
  BY <1>3 DEF Injection, IsInjective
<1>6. s \in Surjection(1..n, Active)
  BY <1>2, <1>4, <1>5, FS_Injection
<1>7. \A m \in Active : \E i \in 1..n : s[i] = m
  BY <1>6 DEF Surjection
<1>. QED  BY <1>2, <1>3, <1>7

\* The ranks of members who stand as in s.
RanksOf(s) == [m \in Active |-> CHOOSE i \in DOMAIN s : s[i] = m]

\* The ranks follow the table t.
RanksFollow(t, r) ==
    \A m, n \in Active : r[m] < r[n] => ~ Lexicographic(Metrics(t, n), Metrics(t, m))

\* sortH2HStandings orders them so.
LEMMA StandingsOrder ==
  ASSUME IsFiniteSet(Active), NEW t, NEW s \in H2HStandings(t), NEW r, r = RanksOf(s)
  PROVE  RanksFollow(t, r)
<1>1. s \in SetToSeqs(Active)
  BY DEF H2HStandings
<1>2. \A i, j \in DOMAIN s : i < j => ~ Lexicographic(Metrics(t, s[j]), Metrics(t, s[i]))
  BY DEF H2HStandings
<1>3. \A m \in Active : r[m] \in DOMAIN s /\ s[r[m]] = m
  <2>. SUFFICES ASSUME NEW m \in Active PROVE r[m] \in DOMAIN s /\ s[r[m]] = m
    OBVIOUS
  <2>1. \E i \in DOMAIN s : s[i] = m
    BY <1>1, StandingsPlace
  <2>2. r[m] = CHOOSE i \in DOMAIN s : s[i] = m
    BY DEF RanksOf
  <2>. QED  BY <2>1, <2>2
<1>. QED  BY <1>2, <1>3 DEF RanksFollow

-----------------------------------------------------------------------------
(* The inductive invariant.                                                *)

Matches == {f \in fixtures : ~ IsCup(f)}
Results == {f \in fixtures : f.finished /\ ~ IsCup(f)}

\* The league is one of the explored ones.
LeagueInv == \E l \in SeasonLeagues : roster = l.members /\ custom = l.custom

\* FPL's points and both kinds of score rows are integers.
PointsKnown(v) == \A m \in Active : v[m] \in Int /\ CustomPoints[v[m]] \in Int
ScoresInv ==
    /\ DOMAIN gwPoints = Gameweeks /\ gwPoints = [g \in Gameweeks |-> gwPoints[g]]
    /\ \A g \in Ready : PointsKnown(gwPoints[g])
    /\ IsScores(squadScores) /\ IsScores(leagueScores)

\* A running job works on a gameweek whose points are known.
Steps == {"idle", "list", "score", "settleLeagues", "completeLeagues", "seed", "settle",
          "advance", "cup", "cupAdvance", "complete", "finish"}
JobInv ==
    /\ job \in [pc : Steps, todo : Seq(Ready), listed : BOOLEAN, failed : BOOLEAN]
    /\ job.pc # "idle" => job.todo # <<>>
    /\ settledAt \subseteq Ready

\* A gameweek's match that was played is not waiting to be played again: no
\* two of its rows, one finished and one not, have the same home side.
FixturesInv ==
    /\ \A f \in fixtures : IsRow(f) /\ f.finished \in BOOLEAN
    /\ IsFiniteSet(Matches)
    /\ \A f \in Matches : IsMatch(f)
    /\ \A f, h \in Matches : f.finished /\ ~ h.finished => f.gw # h.gw \/ f.home # h.home

\* TableCountsResults, in parts.
TableInv ==
    /\ \A m \in Active : table[m] = Tally(Results, m)
    /\ Results # {} => RanksFollow(table, ranks)

SettlementInv == LeagueInv /\ ScoresInv /\ JobInv /\ FixturesInv /\ TableInv

-----------------------------------------------------------------------------
(* What the transactions do to the fixtures.                               *)

\* New matches of gameweek g.
NewMatches(new, g) ==
    /\ IsFiniteSet(new)
    /\ \A p \in new : IsRow(p) /\ IsMatch(p) /\ p.finished = FALSE /\ p.gw = g

\* Replacing a gameweek's unplayed matches keeps every result.
LEMMA ReplaceKeepsResults ==
  ASSUME FixturesInv, roster' = roster, NEW g, NEW new, NewMatches(new, g), ReplaceFixtures(g, new)
  PROVE  FixturesInv' /\ Results' = Results
<1>. DEFINE kept == {f \in fixtures : f.gw # g \/ f.finished \/ IsCup(f)}
            clash == \/ \E f \in kept, p \in new : f.gw = g /\ ~ IsCup(f) /\ f.home = p.home
                     \/ \E p, q \in new : p # q /\ p.home = q.home
<1>0. \A f : IsMatch(f) => ~ IsCup(f)
  BY DEF IsMatch, IsCup
<1>1. Active' = Active /\ \A f : IsMatch(f)' <=> IsMatch(f)
  BY DEF Active, IsMatch
<1>2. fixtures' = IF clash THEN fixtures ELSE kept \cup new
  BY Zenon DEF ReplaceFixtures
<1>3. CASE clash
  <2>1. fixtures' = fixtures
    BY <1>2, <1>3
  <2>. QED  BY <1>1, <2>1 DEF FixturesInv, Matches, Results
<1>4. CASE ~ clash
  <2>1. fixtures' = kept \cup new
    BY <1>2, <1>4
  <2>2. \A p \in new : ~ IsCup(p) /\ p.finished = FALSE /\ p.gw = g /\ IsRow(p) /\ IsMatch(p)
    BY <1>0 DEF NewMatches
  <2>3. \A f \in kept, p \in new : f.gw = g /\ ~ IsCup(f) => f.home # p.home
    BY <1>4
  <2>4. kept \subseteq fixtures /\ \A f \in fixtures : f.finished => f \in kept
    OBVIOUS
  <2>. HIDE DEF kept, clash
  <2>5. Results' = Results
    BY <2>1, <2>2, <2>4 DEF Results
  <2>6. (\A f \in fixtures : IsRow(f) /\ f.finished \in BOOLEAN)'
    BY <2>1, <2>2, <2>4 DEF FixturesInv
  <2>7. Matches' \subseteq Matches \cup new
    BY <2>1, <2>4 DEF Matches
  <2>8. IsFiniteSet(Matches)'
    <3>1. IsFiniteSet(Matches \cup new)
      BY FS_Union DEF FixturesInv, NewMatches
    <3>. QED  BY <2>7, <3>1, FS_Subset
  <2>9. (\A f \in Matches : IsMatch(f))'
    BY <1>1, <2>2, <2>7 DEF FixturesInv
  <2>10. ASSUME NEW f \in Matches', NEW h \in Matches', f.finished, ~ h.finished
         PROVE  f.gw # h.gw \/ f.home # h.home
    <3>1. f \in kept /\ f \in Matches
      BY <2>1, <2>2, <2>4, <2>10 DEF Matches
    <3>2. h \in Matches \/ h \in new
      BY <2>7
    <3>3. CASE h \in Matches
      BY <2>10, <3>1, <3>3 DEF FixturesInv
    <3>4. CASE h \in new
      BY <2>2, <2>3, <3>1, <3>4 DEF Matches
    <3>. QED  BY <3>2, <3>3, <3>4
  <2>. QED  BY <2>5, <2>6, <2>8, <2>9, <2>10 DEF FixturesInv
<1>. QED  BY <1>3, <1>4

\* Cup rows are not matches of the table.
LEMMA CupKeepsResults ==
  ASSUME FixturesInv, roster' = roster,
         NEW old, \A f \in old : IsCup(f),
         NEW new, \A f \in new : IsCup(f) /\ IsRow(f) /\ f.finished \in BOOLEAN,
         fixtures' = (fixtures \ old) \cup new
  PROVE  FixturesInv' /\ Results' = Results /\ Matches' = Matches
<1>1. Active' = Active /\ \A f : IsMatch(f)' <=> IsMatch(f)
  BY DEF Active, IsMatch
<1>2. Matches' = Matches /\ Results' = Results
  BY DEF Matches, Results
<1>3. (\A f \in fixtures : IsRow(f) /\ f.finished \in BOOLEAN)'
  BY DEF FixturesInv
<1>. QED  BY <1>1, <1>2, <1>3 DEF FixturesInv

\* Settling moves the due matches to the results, each of them once.
LEMMA SettleAddsResults ==
  ASSUME LeagueInv, FixturesInv, TableInv, IsScores(squadScores), IsScores(leagueScores),
         roster' = roster, NEW g \in Gameweeks, NEW u \in BOOLEAN, SettleH2HGameweek(g, u)
  PROVE  FixturesInv' /\ TableInv'
<1>. DEFINE rows == Rows(u)
            due == {f \in fixtures : f.gw = g /\ ~ f.finished /\ ~ IsCup(f)}
            done == {Scored(f, rows, g) : f \in due}
<1>1. /\ Active' = Active /\ \A f : IsMatch(f)' <=> IsMatch(f)
      /\ \A F, m : Tally(F, m)' = Tally(F, m)
      /\ IsFiniteSet(Active)
  <2>1. IsFiniteSet(Active)
    BY ActiveFinite DEF LeagueInv
  <2>2. \A F, m : Tally(F, m)' = Tally(F, m)
    OBVIOUS
  <2>. QED  BY <2>1, <2>2 DEF Active, IsMatch
<1>2. CASE due = {}
  <2>1. fixtures' = fixtures /\ table' = table /\ ranks' = ranks
    BY <1>2, Zenon DEF SettleH2HGameweek, leagueTable
  <2>. QED  BY <1>1, <2>1 DEF FixturesInv, TableInv, Matches, Results, RanksFollow, Metrics
<1>3. CASE due # {}
  <2>1. /\ fixtures' = (fixtures \ due) \cup done
        /\ table' = [m \in Active |-> Sum(table[m], Tally(done, m))]
        /\ \E s \in H2HStandings(table') :
               ranks' = [m \in Active |-> CHOOSE i \in DOMAIN s : s[i] = m]
    BY <1>3, Zenon DEF SettleH2HGameweek
  <2>2. IsScores(rows)
    BY DEF Rows
  <2>3. \A f \in due : f \in Matches /\ f.gw = g /\ ~ f.finished /\ IsRow(f) /\ IsMatch(f)
    BY DEF FixturesInv, Matches
  <2>4. due \subseteq Matches /\ due \subseteq fixtures
        /\ \A f \in Matches : f.gw = g => f \in due \/ f.finished
    BY <2>3 DEF Matches
  <2>. HIDE DEF due, rows
  <2>5. ASSUME NEW r \in done
        PROVE  /\ IsRow(r) /\ IsMatch(r) /\ r.gw = g /\ r.finished = TRUE /\ ~ IsCup(r)
               /\ \E f \in due : r.home = f.home
    <3>1. PICK f \in due : r = Scored(f, rows, g)
      OBVIOUS
    <3>2. IsRow(r) /\ IsMatch(r) /\ r.gw = f.gw /\ r.home = f.home /\ r.finished = TRUE
      <4>. HIDE DEF done
      <4>1. IsRow(f) /\ IsMatch(f) /\ IsFiniteSet(Active)
        BY <1>1, <2>3
      <4>2. PICK q : q = rows
        OBVIOUS
      <4>3. IsScores(q) /\ r = Scored(f, q, g)
        BY <2>2, <3>1, <4>2
      <4>4. IsMatch(r)
        BY <4>1, <4>3, ScoredMatch
      <4>5. IsRow(r)
        BY <4>1, <4>3, ScoredMatch
      <4>6. r.gw = f.gw /\ r.home = f.home /\ r.finished = TRUE
        BY <4>1, <4>3 DEF Scored, IsRow, Columns
      <4>. QED  BY <4>4, <4>5, <4>6
    <3>. QED  BY <2>3, <3>2 DEF IsMatch, IsCup
  <2>6. IsFiniteSet(due) /\ IsFiniteSet(done)
    <3>1. IsFiniteSet(due)
      BY <2>4, FS_Subset DEF FixturesInv
    <3>. DEFINE k == [f \in due |-> Scored(f, rows, g)]
    <3>2. done = {k[f] : f \in due}
      OBVIOUS
    <3>. HIDE DEF k, done
    <3>. QED  BY <3>1, <3>2, ImageFinite
  <2>. HIDE DEF done
  <2>7. Results \subseteq Matches /\ Results \cap due = {} /\ Results \subseteq fixtures
        /\ \A f \in Results : f.finished
    BY <2>3 DEF Results, Matches
  <2>8. Results \cap done = {}
    <3>. SUFFICES ASSUME NEW r \in Results, r \in done PROVE FALSE
      OBVIOUS
    <3>1. PICK f \in due : r.home = f.home
      BY <2>5
    <3>. QED  BY <2>3, <2>5, <2>7, <3>1 DEF FixturesInv
  <2>9. Results' = Results \cup done
    <3>1. Results' = {f \in (fixtures \ due) \cup done : f.finished /\ ~ IsCup(f)}
      BY <2>1 DEF Results
    <3>2. \A f \in done : f.finished /\ ~ IsCup(f)
      BY <2>5
    <3>. QED  BY <2>7, <3>1, <3>2 DEF Results
  <2>10. Matches' \subseteq (Matches \ due) \cup done
    BY <2>1 DEF Matches
  <2>11. (\A f \in fixtures : IsRow(f) /\ f.finished \in BOOLEAN)'
    BY <2>1, <2>5 DEF FixturesInv
  <2>12. IsFiniteSet(Matches)'
    <3>1. IsFiniteSet(Matches \cup done)
      BY <2>6, FS_Union DEF FixturesInv
    <3>. QED  BY <2>10, <3>1, FS_Subset
  <2>13. (\A f \in Matches : IsMatch(f))'
    BY <1>1, <2>5, <2>10 DEF FixturesInv
  <2>14. ASSUME NEW f \in Matches', NEW h \in Matches', f.finished, ~ h.finished
         PROVE  f.gw # h.gw \/ f.home # h.home
    <3>1. h \in Matches /\ h \notin due /\ h.gw # g
      BY <2>4, <2>5, <2>10, <2>14
    <3>2. CASE f \in Matches
      BY <2>14, <3>1, <3>2 DEF FixturesInv
    <3>3. CASE f \in done
      BY <2>5, <3>1, <3>3
    <3>. QED  BY <2>10, <3>2, <3>3
  <2>15. FixturesInv'
    BY <2>11, <2>12, <2>13, <2>14 DEF FixturesInv
  <2>16. HaveScores(Results) /\ HaveScores(done)
    <3>1. IsFiniteSet(Results)
      BY <2>7, FS_Subset DEF FixturesInv
    <3>. QED  BY <2>5, <2>6, <2>7, <3>1 DEF HaveScores, FixturesInv, IsMatch
  <2>17. ASSUME NEW m \in Active PROVE table'[m] = Tally(Results', m)
    <3>1. table'[m] = Sum(table[m], Tally(done, m))
      BY <2>1
    <3>2. table[m] = Tally(Results, m)
      BY DEF TableInv
    <3>3. Tally(Results \cup done, m) = Sum(Tally(Results, m), Tally(done, m))
      BY <2>8, <2>16, TallyUnion
    <3>. QED  BY <2>9, <3>1, <3>2, <3>3
  <2>18. RanksFollow(table', ranks')
    <3>1. PICK s \in H2HStandings(table') : ranks' = RanksOf(s)
      BY <2>1 DEF RanksOf
    <3>. QED  BY <1>1, <3>1, StandingsOrder
  <2>19. TableInv'
    BY <1>1, <2>17, <2>18 DEF TableInv, RanksFollow
  <2>. QED  BY <2>15, <2>19
<1>. QED  BY <1>2, <1>3

-----------------------------------------------------------------------------
(* Playoffs.                                                               *)

\* A bracket pairs members.
LEMMA PairingsAreMatches ==
  ASSUME NEW ids \in Seq(Active), NEW g, NEW round
  PROVE  NewMatches(SeedPlayoffPairings(ids, g, round), g)
<1>. DEFINE new == SeedPlayoffPairings(ids, g, round)
<1>0. PICK n \in Nat : n = Len(ids)
  OBVIOUS
<1>. DEFINE I == 1 .. n \div 2
<1>1. new = {Unplayed("playoff", g, ids[i], ids[n + 1 - i], round, i - 1) : i \in I}
  BY <1>0 DEF SeedPlayoffPairings
<1>2. n \div 2 \in Nat /\ 2 * (n \div 2) <= n
  <2>1. ASSUME NEW x \in Nat PROVE x \div 2 \in Nat /\ 2 * (x \div 2) <= x
    BY Z3
  <2>. QED  BY <2>1, Zenon
<1>3. \A i \in I : i \in 1..n /\ n + 1 - i \in 1..n
  BY <1>2
<1>4. \A i \in I : ids[i] \in Active /\ ids[n + 1 - i] \in Active
  <2>1. \A i \in 1..n : ids[i] \in Active
    BY <1>0
  <2>. QED  BY <1>3, <2>1
<1>5. IsFiniteSet(I)
  BY <1>2, IntervalSplit
<1>6. IsFiniteSet(new)
  <2>. DEFINE k == [i \in I |-> Unplayed("playoff", g, ids[i], ids[n + 1 - i], round, i - 1)]
  <2>1. new = {k[i] : i \in I}
    BY <1>1
  <2>. HIDE DEF k, new, I
  <2>. QED  BY <1>5, <2>1, ImageFinite
<1>7. ASSUME NEW p \in new PROVE IsRow(p) /\ IsMatch(p) /\ p.finished = FALSE /\ p.gw = g
  <2>1. PICK i \in I : p = Unplayed("playoff", g, ids[i], ids[n + 1 - i], round, i - 1)
    BY <1>1
  <2>2. /\ IsRow(p) /\ p.kind = "playoff" /\ p.gw = g /\ p.home = ids[i] /\ p.away = ids[n + 1 - i]
        /\ p.finished = FALSE /\ p.homeScore = NoScore /\ p.awayScore = NoScore
    BY <2>1 DEF Unplayed, IsRow, Columns
  <2>3. NoScore \in Int
    BY DEF NoScore
  <2>. QED  BY <1>4, <2>2, <2>3 DEF IsMatch
<1>. HIDE DEF new
<1>8. NewMatches(new, g)
  BY <1>6, <1>7 DEF NewMatches
<1>. QED  BY <1>8 DEF new

\* The bracket is no larger than the membership.
LEMMA BracketFits ==
  ASSUME NEW n \in Nat, ComputeBracketSize(n) # 0
  PROVE  ComputeBracketSize(n) \in 1..n
<1>. DEFINE S == {size \in {2, 4, 8} : size <= n}
<1>1. n >= 2 /\ ComputeBracketSize(n) = Max(S)
  BY DEF ComputeBracketSize
<1>2. \E x \in S : \A y \in S : x >= y
  <2>1. CASE n >= 8
    <3>1. 8 \in S /\ \A y \in S : 8 >= y
      BY <2>1
    <3>. QED  BY <3>1
  <2>2. CASE n >= 4 /\ n < 8
    <3>1. 4 \in S /\ \A y \in S : 4 >= y
      BY <2>2
    <3>. QED  BY <3>1
  <2>3. CASE n < 4
    <3>1. 2 \in S /\ \A y \in S : 2 >= y
      BY <1>1, <2>3
    <3>. QED  BY <3>1
  <2>. QED  BY <2>1, <2>2, <2>3
<1>3. Max(S) \in S
  <2>. HIDE DEF S
  <2>. QED  BY <1>2 DEF Max
<1>. QED  BY <1>1, <1>3

\* Seeding the playoffs keeps every result.
LEMMA SeedKeepsResults ==
  ASSUME LeagueInv, FixturesInv, roster' = roster, NEW g, NEW h, PlayoffAction(h) = "generate",
         GeneratePlayoffBracket(g)
  PROVE  FixturesInv' /\ Results' = Results
<1>0. PICK n \in Nat : n = Len(roster) /\ n = Cardinality(Active)
  BY ActiveFinite DEF LeagueInv
<1>1. PICK size : size = ComputeBracketSize(n) /\ size # 0
  <2>1. ComputeBracketSize(n) # 0
    BY <1>0 DEF PlayoffAction
  <2>. QED  BY <2>1
<1>2. size \in 1..n
  BY <1>1, BracketFits
<1>3. PICK s \in H2HStandings(table) :
          ReplaceFixtures(g, SeedPlayoffPairings(SubSeq(s, 1, size), g, 1))
  BY <1>0, <1>1, Zenon DEF GeneratePlayoffBracket
<1>4. s \in [1..n -> Active]
  BY <1>0 DEF H2HStandings, SetToSeqs
<1>5. SubSeq(s, 1, size) \in Seq(Active)
  <2>1. s \in Seq(Active) /\ Len(s) = n
    BY <1>4, RankSequence
  <2>. QED  BY <1>2, <2>1
<1>6. NewMatches(SeedPlayoffPairings(SubSeq(s, 1, size), g, 1), g)
  BY <1>5, PairingsAreMatches
<1>. QED  BY <1>3, <1>6, ReplaceKeepsResults

\* A playoff match is won by one of its sides.
LEMMA PlayoffWinnerActive ==
  ASSUME NEW f, IsMatch(f), f.kind = "playoff"
  PROVE  ResolvePlayoffWinner(f) \in Active
<1>1. ResolvePlayoffWinner(f) = f.home \/ ResolvePlayoffWinner(f) = f.away
  BY Zenon DEF ResolvePlayoffWinner
<1>2. f.home \in Active /\ f.away \in Active
  BY DEF IsMatch
<1>. QED  BY <1>1, <1>2

\* Pairing the winners of a round keeps every result.
LEMMA AdvanceKeepsResults ==
  ASSUME LeagueInv, FixturesInv, roster' = roster, NEW g, AdvancePlayoffRound(g)
  PROVE  FixturesInv' /\ Results' = Results
<1>. DEFINE round == {f \in fixtures : f.gw = g /\ f.kind = "playoff"}
            Won(slots) == [i \in DOMAIN slots |-> ResolvePlayoffWinner(slots[i])]
<1>1. CASE fixtures' = fixtures
  <2>1. \A f \in {} : IsCup(f) /\ IsRow(f) /\ f.finished \in BOOLEAN
    OBVIOUS
  <2>2. fixtures' = (fixtures \ {}) \cup {}
    BY <1>1
  <2>. QED  BY <2>1, <2>2, CupKeepsResults
<1>2. CASE \E slots \in BySlot(round) :
               ReplaceFixtures(g + 1, SeedPlayoffPairings(Won(slots), g + 1,
                                                          slots[1].round + 1))
  <2>1. PICK slots \in BySlot(round) :
            ReplaceFixtures(g + 1, SeedPlayoffPairings(Won(slots), g + 1,
                                                       slots[1].round + 1))
    BY <1>2
  <2>2. \A f \in round : f \in Matches /\ IsMatch(f) /\ f.kind = "playoff"
    BY DEF Matches, IsCup, FixturesInv
  <2>3. IsFiniteSet(round)
    <3>1. round \subseteq Matches
      BY <2>2
    <3>. QED  BY <3>1, FS_Subset DEF FixturesInv
  <2>. HIDE DEF round
  <2>4. PICK c \in Nat : c = Cardinality(round)
    BY <2>3, FS_CardinalityType
  <2>5. slots \in [1..c -> round]
    BY <2>4 DEF BySlot, Sorted, SetToSeqs
  <2>6. Won(slots) \in [1..c -> Active]
    BY <2>2, <2>5, PlayoffWinnerActive
  <2>. HIDE DEF Won
  <2>7. Won(slots) \in Seq(Active)
    BY <2>6, RankSequence
  <2>8. NewMatches(SeedPlayoffPairings(Won(slots), g + 1, slots[1].round + 1), g + 1)
    BY <2>7, PairingsAreMatches
  <2>. QED  BY <2>1, <2>8, ReplaceKeepsResults
<1>. QED  BY <1>1, <1>2, Zenon DEF AdvancePlayoffRound

-----------------------------------------------------------------------------
(* What a step leaves alone.                                               *)

\* The league keeps its members.
LEMMA LeagueKept ==
  ASSUME LeagueInv, roster' = roster, custom' = custom
  PROVE  LeagueInv' /\ Active' = Active
BY DEF LeagueInv, Active

\* Fixtures and table stay.
LEMMA TableKept ==
  ASSUME FixturesInv, TableInv, roster' = roster, UNCHANGED leagueTable
  PROVE  FixturesInv' /\ TableInv'
<1>1. Active' = Active /\ fixtures' = fixtures /\ table' = table /\ ranks' = ranks
      /\ \A f : IsMatch(f)' <=> IsMatch(f)
  BY DEF Active, leagueTable, IsMatch
<1>. QED  BY <1>1 DEF FixturesInv, TableInv, Matches, Results, RanksFollow

\* The results stay, and so does the table.
LEMMA ResultsKept ==
  ASSUME TableInv, Results' = Results, roster' = roster, table' = table, ranks' = ranks
  PROVE  TableInv'
BY DEF TableInv, Active, RanksFollow

\* Points and scores stay.
LEMMA ScoresKept ==
  ASSUME ScoresInv, roster' = roster, gwPoints' = gwPoints, UNCHANGED scores
  PROVE  ScoresInv' /\ Ready' = Ready
<1>1. Active' = Active /\ squadScores' = squadScores /\ leagueScores' = leagueScores
  BY DEF Active, scores
<1>2. Ready' = Ready
  BY DEF Ready
<1>. QED  BY <1>1, <1>2 DEF ScoresInv, PointsKnown, IsScores

\* The job works on a gameweek whose points are known.
LEMMA CurrentReady ==
  ASSUME JobInv, job.pc # "idle"
  PROVE  Current \in Ready /\ Current \in Gameweeks
<1>1. job.todo \in Seq(Ready) /\ job.todo # <<>>
  BY DEF JobInv
<1>2. Current \in Ready
  BY <1>1 DEF Current
<1>. QED  BY <1>2 DEF Ready

\* The job goes on to its next step with the same gameweeks.
LEMMA JobGoesOn ==
  ASSUME JobInv, Ready' = Ready, settledAt' = settledAt, job.pc # "idle", NEW pc \in Steps,
         NEW l \in BOOLEAN, NEW b \in BOOLEAN,
         job' = [job EXCEPT !.pc = pc, !.listed = l, !.failed = b]
  PROVE  JobInv'
<1>1. job' \in [pc : Steps, todo : Seq(Ready), listed : BOOLEAN, failed : BOOLEAN]
      /\ job'.todo = job.todo
  BY DEF JobInv
<1>2. job'.todo # <<>>
  BY <1>1 DEF JobInv
<1>. QED  BY <1>1, <1>2 DEF JobInv

\* The same for a step that only moves on.
LEMMA JobMoves ==
  ASSUME JobInv, Ready' = Ready, settledAt' = settledAt, job.pc # "idle", NEW pc \in Steps, GoTo(pc)
  PROVE  JobInv'
<1>1. job' = [job EXCEPT !.pc = pc, !.listed = job.listed, !.failed = job.failed]
      /\ job.listed \in BOOLEAN /\ job.failed \in BOOLEAN
  BY DEF GoTo, JobInv
<1>. QED  BY <1>1, JobGoesOn

\* The job ends.
LEMMA JobStops ==
  ASSUME job' = IdleJob, settledAt' \subseteq Ready'
  PROVE  JobInv'
<1>1. job' = [pc |-> "idle", todo |-> <<>>, listed |-> FALSE, failed |-> FALSE]
  BY DEF IdleJob
<1>2. <<>> \in Seq(Ready') /\ "idle" \in Steps
  BY DEF Steps
<1>. QED  BY <1>1, <1>2 DEF JobInv

-----------------------------------------------------------------------------
(* The steps.                                                              *)

\* Initially the schedule is unplayed and the table empty.
LEMMA InitInv ==
  ASSUME SettlementInit
  PROVE  SettlementInv
<1>1. LeagueInv
  BY DEF SettlementInit, LeagueInv
<1>2. PICK l \in SeasonLeagues : roster = l.members
  BY <1>1 DEF LeagueInv
<1>3. ScoresInv
  <2>1. gwPoints = [g \in Gameweeks |-> <<>>] /\ squadScores = NoRows /\ leagueScores = NoRows
    BY DEF SettlementInit
  <2>2. Ready = {}
    BY <2>1 DEF Ready
  <2>3. IsScores(NoRows)
    BY DEF IsScores, IsPoints, NoRows
  <2>. QED  BY <2>1, <2>2, <2>3 DEF ScoresInv
<1>4. JobInv
  <2>1. job = [pc |-> "idle", todo |-> <<>>, listed |-> FALSE, failed |-> FALSE] /\ settledAt = {}
    BY DEF SettlementInit, IdleJob
  <2>2. <<>> \in Seq(Ready) /\ "idle" \in Steps
    BY DEF Steps
  <2>. QED  BY <2>1, <2>2 DEF JobInv
<1>5. /\ fixtures = GenerateRoundRobinSchedule(roster)
      /\ table = [m \in Active |-> [pts |-> 0, won |-> 0, drawn |-> 0, lost |-> 0,
                                     pf |-> 0, pa |-> 0]]
  BY DEF SettlementInit
<1>6. IsFiniteSet(fixtures) /\ \A f \in fixtures : IsRow(f) /\ IsMatch(f) /\ f.finished = FALSE
  BY <1>2, <1>5, ScheduleMatches
<1>7. Matches \subseteq fixtures /\ Results = {}
  BY <1>6 DEF Matches, Results
<1>8. FixturesInv
  <2>1. IsFiniteSet(Matches)
    BY <1>6, <1>7, FS_Subset
  <2>. QED  BY <1>6, <1>7, <2>1 DEF FixturesInv
<1>9. TableInv
  BY <1>5, <1>7, TallyEmpty DEF TableInv
<1>. QED  BY <1>1, <1>3, <1>4, <1>8, <1>9 DEF SettlementInv

\* FPL's points arrive.
LEMMA FinishesInv ==
  ASSUME SettlementInv, NEW g \in Gameweeks, GameweekFinishes(g)
  PROVE  SettlementInv'
<1>. USE DEF SettlementInv
<1>1. /\ roster' = roster /\ custom' = custom /\ UNCHANGED leagueTable /\ UNCHANGED scores
      /\ settledAt' = settledAt /\ job' = job /\ g \notin Ready
  BY DEF GameweekFinishes
<1>2. PICK v \in PointVectors[g] : gwPoints' = [gwPoints EXCEPT ![g] = v]
  BY DEF GameweekFinishes
<1>3. LeagueInv' /\ Active' = Active /\ FixturesInv' /\ TableInv'
  BY <1>1, LeagueKept, TableKept
<1>4. PointsKnown(v)
  BY SettlementAssumption DEF LeagueInv, PointsKnown, Active, Gameweeks
<1>5. /\ DOMAIN gwPoints' = Gameweeks /\ gwPoints' = [x \in Gameweeks |-> gwPoints'[x]]
      /\ gwPoints'[g] = v /\ \A x \in Gameweeks \ {g} : gwPoints'[x] = gwPoints[x]
  BY <1>2 DEF ScoresInv
<1>6. Ready \subseteq Ready' /\ Ready' \subseteq Ready \cup {g}
  BY <1>1, <1>5 DEF Ready
<1>7. ScoresInv'
  <2>1. \A x \in Ready' : PointsKnown(gwPoints'[x])
    BY <1>4, <1>5, <1>6 DEF ScoresInv, Ready
  <2>2. \A w : PointsKnown(w)' <=> PointsKnown(w)
    BY <1>3 DEF PointsKnown
  <2>3. IsScores(squadScores)' /\ IsScores(leagueScores)'
    BY <1>1, <1>3 DEF ScoresInv, IsScores, scores
  <2>4. (\A x \in Ready : PointsKnown(gwPoints[x]))'
    BY <1>3, <2>1 DEF PointsKnown
  <2>. QED  BY <1>5, <2>3, <2>4 DEF ScoresInv
<1>8. JobInv'
  <2>1. job.todo \in Seq(Ready')
    BY <1>6 DEF JobInv
  <2>. QED  BY <1>1, <1>6, <2>1 DEF JobInv
<1>. QED  BY <1>3, <1>7, <1>8

\* A new row of a cup.
LEMMA CupRow ==
  ASSUME NEW g, NEW home, NEW away, NEW round, NEW slot,
         NEW f, f = Unplayed("cup", g, home, away, round, slot)
  PROVE  IsCup(f) /\ IsRow(f) /\ f.finished \in BOOLEAN
BY DEF Unplayed, IsRow, Columns, IsCup

\* Rows that only a cup has, in place of none.
LEMMA CupGrows ==
  ASSUME FixturesInv, roster' = roster, NEW new,
         \A f \in new : IsCup(f) /\ IsRow(f) /\ f.finished \in BOOLEAN,
         fixtures' = fixtures \cup new
  PROVE  FixturesInv' /\ Results' = Results /\ Matches' = Matches
<1>1. fixtures' = (fixtures \ {}) \cup new /\ \A f \in {} : IsCup(f)
  OBVIOUS
<1>. QED  BY <1>1, CupKeepsResults

\* The commissioner starts a cup.
LEMMA CreateCupInv ==
  ASSUME SettlementInv, NEW g, CreateKnockoutCup(g)
  PROVE  SettlementInv' /\ Matches' = Matches
<1>. USE DEF SettlementInv
<1>1. /\ roster' = roster /\ custom' = custom /\ table' = table /\ ranks' = ranks
      /\ gwPoints' = gwPoints /\ UNCHANGED scores /\ settledAt' = settledAt /\ job' = job
  BY Zenon DEF CreateKnockoutCup
<1>2. PICK seeds : fixtures' = fixtures \cup GenerateKnockoutFirstRound(seeds, g)
  BY Zenon DEF CreateKnockoutCup
<1>3. \A f \in GenerateKnockoutFirstRound(seeds, g) : IsCup(f) /\ IsRow(f) /\ f.finished \in BOOLEAN
  <2>1. \A f \in GenerateKnockoutFirstRound(seeds, g) :
            \E home, away, round, slot : f = Unplayed("cup", g, home, away, round, slot)
    BY Zenon DEF GenerateKnockoutFirstRound
  <2>. QED  BY <2>1, CupRow
<1>4. FixturesInv' /\ Results' = Results /\ Matches' = Matches
  BY <1>1, <1>2, <1>3, CupGrows
<1>5. TableInv'
  BY <1>1, <1>4, ResultsKept
<1>6. LeagueInv' /\ ScoresInv' /\ Ready' = Ready
  BY <1>1, LeagueKept, ScoresKept
<1>7. JobInv'
  BY <1>1, <1>6 DEF JobInv
<1>. QED  BY <1>4, <1>5, <1>6, <1>7

\* The job takes up the finished gameweeks.
LEMMA StartsInv ==
  ASSUME SettlementInv, JobStarts
  PROVE  SettlementInv'
<1>. USE DEF SettlementInv
<1>1. /\ roster' = roster /\ custom' = custom /\ UNCHANGED leagueTable /\ gwPoints' = gwPoints
      /\ UNCHANGED scores /\ settledAt' = settledAt /\ Ready # settledAt
  BY DEF JobStarts
<1>2. LeagueInv' /\ FixturesInv' /\ TableInv' /\ ScoresInv' /\ Ready' = Ready
  BY <1>1, LeagueKept, TableKept, ScoresKept
<1>. DEFINE S == Ready \ settledAt
<1>3. IsFiniteSet(S) /\ S # {} /\ S \subseteq Ready
  <2>1. IsFiniteSet(Gameweeks)
    BY SettlementAssumption, IntervalSplit DEF Gameweeks
  <2>2. S \subseteq Gameweeks
    BY DEF Ready
  <2>. QED  BY <1>1, <2>1, <2>2, FS_Subset DEF JobInv
<1>4. PICK n \in Nat : n = Cardinality(S) /\ n # 0
  <2>. HIDE DEF S
  <2>. QED  BY <1>3, FS_CardinalityType, FS_EmptySet
<1>5. PICK ids \in SetToSeqs(S) : job' = [IdleJob EXCEPT !.pc = "list", !.todo = ids]
  BY Zenon DEF JobStarts, Sorted
<1>6. ids \in [1..n -> S]
  BY <1>4, <1>5 DEF SetToSeqs
<1>7. ids \in Seq(S) /\ Len(ids) = n
  BY <1>6, RankSequence
<1>8. ids \in Seq(Ready) /\ ids # <<>>
  BY <1>3, <1>4, <1>7
<1>9. job' = [pc |-> "list", todo |-> ids, listed |-> FALSE, failed |-> FALSE]
  BY <1>5 DEF IdleJob
<1>10. JobInv'
  BY <1>1, <1>2, <1>8, <1>9 DEF JobInv, Steps
<1>. QED  BY <1>2, <1>10

\* The league's own scores are written.
LEMMA ListLeaguesInv ==
  ASSUME SettlementInv, ListLeagues
  PROVE  SettlementInv'
<1>. USE DEF SettlementInv
<1>1. /\ roster' = roster /\ custom' = custom /\ UNCHANGED leagueTable /\ gwPoints' = gwPoints
      /\ squadScores' = squadScores /\ settledAt' = settledAt /\ job.pc = "list"
      /\ job' = [job EXCEPT !.pc = "score", !.listed = seasonStatus = "ACTIVE"]
  BY DEF ListLeagues, At
<1>2. LeagueInv' /\ Active' = Active /\ FixturesInv' /\ TableInv' /\ Ready' = Ready
  <2>1. Ready' = Ready
    BY <1>1 DEF Ready
  <2>. QED  BY <1>1, <2>1, LeagueKept, TableKept
<1>3. Current \in Ready /\ Current \in Gameweeks
  BY <1>1, CurrentReady
<1>4. PICK g \in Ready : g = Current /\ g \in Gameweeks
  BY <1>3
<1>5. IsScores(leagueScores')
  <2>1. \/ leagueScores' = leagueScores
        \/ leagueScores' = [leagueScores EXCEPT ![g] = [m \in Active |-> CustomPoints[gwPoints[g][m]]]]
    BY <1>4 DEF ListLeagues
  <2>2. IsPoints([m \in Active |-> CustomPoints[gwPoints[g][m]]])
    BY <1>4 DEF ScoresInv, PointsKnown, IsPoints
  <2>. QED  BY <1>4, <2>1, <2>2, ScoresWritten DEF ScoresInv
<1>6. ScoresInv'
  <2>1. IsScores(squadScores)' /\ IsScores(leagueScores)'
    BY <1>1, <1>2, <1>5 DEF ScoresInv, IsScores
  <2>2. (\A x \in Ready : PointsKnown(gwPoints[x]))'
    BY <1>1, <1>2 DEF ScoresInv, PointsKnown
  <2>. QED  BY <1>1, <2>1, <2>2 DEF ScoresInv
<1>7. JobInv'
  <2>1. job' = [job EXCEPT !.pc = "score", !.listed = (seasonStatus = "ACTIVE"), !.failed = job.failed]
        /\ job.failed \in BOOLEAN /\ (seasonStatus = "ACTIVE") \in BOOLEAN
    BY <1>1 DEF JobInv
  <2>2. "score" \in Steps
    BY DEF Steps
  <2>. QED  BY <1>1, <1>2, <2>1, <2>2, JobGoesOn
<1>. QED  BY <1>2, <1>6, <1>7

\* Squads are scored.
LEMMA SquadsScored ==
  ASSUME SettlementInv, roster' = roster, gwPoints' = gwPoints, leagueScores' = leagueScores,
         NEW g \in Gameweeks, NEW row, IsPoints(row), squadScores' = [squadScores EXCEPT ![g] = row]
  PROVE  ScoresInv' /\ Ready' = Ready
<1>. USE DEF SettlementInv
<1>1. Active' = Active /\ Ready' = Ready
  BY DEF Active, Ready
<1>2. IsScores(squadScores)' /\ IsScores(leagueScores)'
  <2>1. IsScores(squadScores')
    BY ScoresWritten DEF ScoresInv
  <2>. QED  BY <2>1 DEF ScoresInv, IsScores
<1>3. (\A x \in Ready : PointsKnown(gwPoints[x]))'
  BY <1>1 DEF ScoresInv, PointsKnown
<1>. QED  BY <1>1, <1>2, <1>3 DEF ScoresInv

\* All of them ...
LEMMA ScoreSquadsInv ==
  ASSUME SettlementInv, ScoreSquads
  PROVE  SettlementInv'
<1>. USE DEF SettlementInv
<1>1. /\ roster' = roster /\ custom' = custom /\ UNCHANGED leagueTable /\ gwPoints' = gwPoints
      /\ leagueScores' = leagueScores /\ settledAt' = settledAt /\ job.pc = "score"
      /\ GoTo("settleLeagues")
      /\ squadScores' = [squadScores EXCEPT ![Current] = [m \in Active |-> gwPoints[Current][m]]]
  BY DEF ScoreSquads, At
<1>2. Current \in Ready /\ Current \in Gameweeks
  BY <1>1, CurrentReady
<1>3. IsPoints([m \in Active |-> gwPoints[Current][m]])
  BY <1>2 DEF ScoresInv, PointsKnown, IsPoints
<1>4. ScoresInv' /\ Ready' = Ready
  BY <1>1, <1>2, <1>3, SquadsScored
<1>5. LeagueInv' /\ FixturesInv' /\ TableInv'
  BY <1>1, LeagueKept, TableKept
<1>6. JobInv'
  BY <1>1, <1>4, JobMoves DEF Steps
<1>. QED  BY <1>4, <1>5, <1>6

\* The squads scored so far are members' squads.
LEMMA RosterPrefix ==
  ASSUME LeagueInv, NEW k \in 0 .. Len(roster), NEW m \in ToSet(SubSeq(roster, 1, k))
  PROVE  m \in ToSet(roster)
<1>1. PICK l \in SeasonLeagues : roster = l.members
  BY DEF LeagueInv
<1>2. roster \in Seq(ToSet(roster))
  BY <1>1, SettlementAssumption
<1>3. PICK n \in Nat : n = Len(roster) /\ k \in 0 .. n /\ DOMAIN roster = 1 .. n
  BY <1>2
<1>4. PICK i \in DOMAIN SubSeq(roster, 1, k) : m = SubSeq(roster, 1, k)[i]
  BY DEF ToSet
<1>5. i \in 1 .. n /\ SubSeq(roster, 1, k)[i] = roster[i]
  BY <1>2, <1>3, <1>4
<1>. QED  BY <1>3, <1>4, <1>5 DEF ToSet

\* ... or some, before the subscriber throws.
LEMMA ScoreSquadsFailsInv ==
  ASSUME SettlementInv, ScoreSquadsFails
  PROVE  SettlementInv'
<1>. USE DEF SettlementInv
<1>1. /\ roster' = roster /\ custom' = custom /\ UNCHANGED leagueTable /\ gwPoints' = gwPoints
      /\ leagueScores' = leagueScores /\ settledAt' = settledAt /\ job.pc = "score"
      /\ job' = [job EXCEPT !.pc = "settleLeagues", !.failed = TRUE]
  BY DEF ScoreSquadsFails, At
<1>2. PICK g \in Ready : g = Current /\ g \in Gameweeks
  BY <1>1, CurrentReady
<1>k. PICK k \in 0 .. Len(roster) :
        squadScores' = [squadScores EXCEPT ![g] =
            [m \in DOMAIN squadScores[g] \cup ToSet(SubSeq(roster, 1, k)) |->
                IF m \in ToSet(SubSeq(roster, 1, k)) THEN gwPoints[g][m] ELSE squadScores[g][m]]]
  BY <1>2 DEF ScoreSquadsFails
<1>d. PICK done : done = ToSet(SubSeq(roster, 1, k))
  OBVIOUS
<1>3. squadScores' = [squadScores EXCEPT ![g] =
            [m \in DOMAIN squadScores[g] \cup done |->
                IF m \in done THEN gwPoints[g][m] ELSE squadScores[g][m]]]
  BY <1>k, <1>d
<1>4. IsPoints([m \in DOMAIN squadScores[g] \cup done |->
                  IF m \in done THEN gwPoints[g][m] ELSE squadScores[g][m]])
  <2>1. \A m \in done : m \in Active
    BY <1>d, RosterPrefix DEF Active, LeagueInv
  <2>2. \A m \in done : gwPoints[g][m] \in Int
    BY <1>2, <2>1 DEF ScoresInv, PointsKnown
  <2>3. \A m \in DOMAIN squadScores[g] : squadScores[g][m] \in Int
    BY <1>2 DEF ScoresInv, IsScores, IsPoints
  <2>. QED  BY <2>2, <2>3 DEF IsPoints
<1>5. ScoresInv' /\ Ready' = Ready
  BY <1>1, <1>2, <1>3, <1>4, SquadsScored
<1>6. LeagueInv' /\ FixturesInv' /\ TableInv'
  BY <1>1, LeagueKept, TableKept
<1>7. JobInv'
  <2>1. job' = [job EXCEPT !.pc = "settleLeagues", !.listed = job.listed, !.failed = TRUE]
        /\ job.listed \in BOOLEAN
    BY <1>1 DEF JobInv
  <2>2. "settleLeagues" \in Steps
    BY DEF Steps
  <2>. QED  BY <1>1, <1>5, <2>1, <2>2, JobGoesOn
<1>. QED  BY <1>5, <1>6, <1>7

\* A step of the running job that only writes fixtures, table or ranks.
LEMMA FixtureStep ==
  ASSUME SettlementInv, roster' = roster, custom' = custom, gwPoints' = gwPoints,
         UNCHANGED scores, settledAt' = settledAt, job.pc # "idle", NEW pc \in Steps, GoTo(pc),
         FixturesInv', TableInv'
  PROVE  SettlementInv'
<1>. USE DEF SettlementInv
<1>1. LeagueInv' /\ ScoresInv' /\ Ready' = Ready
  BY LeagueKept, ScoresKept
<1>2. JobInv'
  BY <1>1, JobMoves
<1>. QED  BY <1>1, <1>2

\* After the subscribers the job goes on or ends.
LEMMA HandlersDone ==
  ASSUME JobInv, Ready' = Ready, settledAt' = settledAt, job.pc # "idle", job' = AfterHandlers
  PROVE  JobInv'
<1>1. job' = IdleJob \/ GoTo("seed") \/ GoTo("finish")
  BY DEF AfterHandlers, GoTo
<1>2. "seed" \in Steps /\ "finish" \in Steps
  BY DEF Steps
<1>3. settledAt' \subseteq Ready'
  BY DEF JobInv
<1>. QED  BY <1>1, <1>2, <1>3, JobMoves, JobStops

\* The subscriber settles the gameweek with the global scores.
LEMMA HandlerSettlesInv ==
  ASSUME SettlementInv, HandlerSettles
  PROVE  SettlementInv'
<1>. USE DEF SettlementInv
<1>1. /\ roster' = roster /\ custom' = custom /\ gwPoints' = gwPoints /\ UNCHANGED scores
      /\ settledAt' = settledAt /\ job.pc = "settleLeagues"
      /\ GoTo("completeLeagues") \/ job' = AfterHandlers
  BY DEF HandlerSettles, At
<1>2. Current \in Gameweeks
  BY <1>1, CurrentReady
<1>3. SettleH2HGameweek(Current, FALSE) \/ UNCHANGED leagueTable
  BY DEF HandlerSettles
<1>4. FixturesInv' /\ TableInv'
  BY <1>1, <1>2, <1>3, SettleAddsResults, TableKept DEF ScoresInv
<1>5. LeagueInv' /\ ScoresInv' /\ Ready' = Ready
  BY <1>1, LeagueKept, ScoresKept
<1>6. JobInv'
  <2>1. CASE GoTo("completeLeagues")
    BY <1>1, <1>5, <2>1, JobMoves DEF Steps
  <2>2. CASE job' = AfterHandlers
    BY <1>1, <1>5, <2>2, HandlersDone
  <2>. QED  BY <1>1, <2>1, <2>2
<1>. QED  BY <1>4, <1>5, <1>6

\* The job settles what is left with the league's own scores.
LEMMA SettleFixturesInv ==
  ASSUME SettlementInv, SettleFixtures
  PROVE  SettlementInv'
<1>. USE DEF SettlementInv
<1>1. /\ roster' = roster /\ custom' = custom /\ gwPoints' = gwPoints /\ UNCHANGED scores
      /\ settledAt' = settledAt /\ job.pc = "settle" /\ GoTo("advance")
      /\ SettleH2HGameweek(Current, custom)
  BY DEF SettleFixtures, At
<1>2. Current \in Gameweeks
  BY <1>1, CurrentReady
<1>3. custom \in BOOLEAN
  BY SettlementAssumption DEF LeagueInv
<1>4. FixturesInv' /\ TableInv'
  BY <1>1, <1>2, <1>3, SettleAddsResults DEF ScoresInv
<1>5. "advance" \in Steps
  BY DEF Steps
<1>. QED  BY <1>1, <1>4, <1>5, FixtureStep

\* The playoffs are seeded ...
LEMMA SeedPlayoffsInv ==
  ASSUME SettlementInv, SeedPlayoffs
  PROVE  SettlementInv'
<1>. USE DEF SettlementInv
<1>1. /\ roster' = roster /\ custom' = custom /\ gwPoints' = gwPoints /\ UNCHANGED scores
      /\ settledAt' = settledAt /\ job.pc = "seed" /\ GoTo("settle")
      /\ table' = table /\ ranks' = ranks
  BY DEF SeedPlayoffs, At
<1>2. CASE PlayoffAction(Current) = "generate"
  <2>1. GeneratePlayoffBracket(Current + 1)
    BY <1>2 DEF SeedPlayoffs
  <2>2. FixturesInv' /\ Results' = Results
    BY <1>1, <1>2, <2>1, SeedKeepsResults
  <2>3. TableInv'
    BY <1>1, <2>2, ResultsKept
  <2>. QED  BY <1>1, <2>2, <2>3, FixtureStep DEF Steps
<1>3. CASE PlayoffAction(Current) # "generate"
  <2>1. UNCHANGED leagueTable
    BY <1>1, <1>3 DEF SeedPlayoffs, leagueTable
  <2>2. FixturesInv' /\ TableInv'
    BY <1>1, <2>1, TableKept
  <2>. QED  BY <1>1, <2>2, FixtureStep DEF Steps
<1>. QED  BY <1>2, <1>3

\* ... and their rounds advanced.
LEMMA AdvancePlayoffsInv ==
  ASSUME SettlementInv, AdvancePlayoffs
  PROVE  SettlementInv'
<1>. USE DEF SettlementInv
<1>1. /\ roster' = roster /\ custom' = custom /\ gwPoints' = gwPoints /\ UNCHANGED scores
      /\ settledAt' = settledAt /\ job.pc = "advance" /\ GoTo("cup")
      /\ table' = table /\ ranks' = ranks
  BY DEF AdvancePlayoffs, At
<1>2. CASE PlayoffAction(Current) = "advance"
  <2>1. AdvancePlayoffRound(Current)
    BY <1>2 DEF AdvancePlayoffs
  <2>2. FixturesInv' /\ Results' = Results
    BY <1>1, <2>1, AdvanceKeepsResults
  <2>3. TableInv'
    BY <1>1, <2>2, ResultsKept
  <2>. QED  BY <1>1, <2>2, <2>3, FixtureStep DEF Steps
<1>3. CASE PlayoffAction(Current) # "advance"
  <2>1. UNCHANGED leagueTable
    BY <1>1, <1>3 DEF AdvancePlayoffs, leagueTable
  <2>2. FixturesInv' /\ TableInv'
    BY <1>1, <2>1, TableKept
  <2>. QED  BY <1>1, <2>2, FixtureStep DEF Steps
<1>. QED  BY <1>2, <1>3

\* The cup's matches are scored ...
LEMMA SettleCupInv ==
  ASSUME SettlementInv, SettleCup
  PROVE  SettlementInv' /\ Matches' = Matches
<1>. USE DEF SettlementInv
<1>. DEFINE due == {f \in fixtures : f.gw = Current /\ IsCup(f) /\ ~ f.finished}
            Score(m) == IF m = NoMember THEN NoScore ELSE ScoreOf(Rows(custom), Current, m)
            Done(f, w) == [f EXCEPT !.homeScore = Score(f.home), !.awayScore = Score(f.away),
                                    !.finished = TRUE, !.winner = w[f]]
<1>1. /\ roster' = roster /\ custom' = custom /\ gwPoints' = gwPoints /\ UNCHANGED scores
      /\ settledAt' = settledAt /\ job.pc = "cup" /\ table' = table /\ ranks' = ranks
      /\ GoTo("complete") \/ GoTo("cupAdvance")
  BY DEF SettleCup, At
<1>2. PICK w : fixtures' = (fixtures \ due) \cup {Done(f, w) : f \in due}
  BY ZenonT(60) DEF SettleCup
<1>3. ASSUME NEW f \in due PROVE IsCup(Done(f, w)) /\ IsRow(Done(f, w)) /\ Done(f, w).finished \in BOOLEAN
  <2>1. IsRow(f) /\ f.kind = "cup"
    BY DEF FixturesInv, IsCup
  <2>. HIDE DEF Score
  <2>. QED  BY <2>1 DEF IsRow, Columns, IsCup
<1>4. FixturesInv' /\ Results' = Results /\ Matches' = Matches
  <2>1. \A f \in due : IsCup(f)
    OBVIOUS
  <2>2. \A r \in {Done(f, w) : f \in due} : IsCup(r) /\ IsRow(r) /\ r.finished \in BOOLEAN
    BY <1>3
  <2>. HIDE DEF due, Done
  <2>. QED  BY <1>1, <1>2, <2>1, <2>2, CupKeepsResults
<1>5. TableInv'
  BY <1>1, <1>4, ResultsKept
<1>6. "complete" \in Steps /\ "cupAdvance" \in Steps
  BY DEF Steps
<1>. HIDE DEF SettlementInv
<1>. QED  BY <1>1, <1>4, <1>5, <1>6, FixtureStep

\* ... and its winners paired.
LEMMA AdvanceCupInv ==
  ASSUME SettlementInv, AdvanceCup
  PROVE  SettlementInv' /\ Matches' = Matches
<1>. USE DEF SettlementInv
<1>1. /\ roster' = roster /\ custom' = custom /\ gwPoints' = gwPoints /\ UNCHANGED scores
      /\ settledAt' = settledAt /\ job.pc = "cupAdvance" /\ table' = table /\ ranks' = ranks
      /\ GoTo("complete")
  BY DEF AdvanceCup, At
<1>2. \/ fixtures' = fixtures
      \/ \E winners, round : fixtures' = fixtures \cup NextRoundPairings(winners, Current + 1, round)
  BY Zenon DEF AdvanceCup
<1>3. CASE fixtures' = fixtures
  <2>1. UNCHANGED leagueTable
    BY <1>1, <1>3 DEF leagueTable
  <2>2. FixturesInv' /\ TableInv' /\ Matches' = Matches
    BY <1>1, <1>3, <2>1, TableKept DEF Matches
  <2>. QED  BY <1>1, <2>2, FixtureStep DEF Steps
<1>4. CASE \E winners, round :
              fixtures' = fixtures \cup NextRoundPairings(winners, Current + 1, round)
  <2>1. PICK winners, round :
            fixtures' = fixtures \cup NextRoundPairings(winners, Current + 1, round)
    BY <1>4
  <2>2. \A f \in NextRoundPairings(winners, Current + 1, round) :
            IsCup(f) /\ IsRow(f) /\ f.finished \in BOOLEAN
    <3>1. \A f \in NextRoundPairings(winners, Current + 1, round) :
              \E g, home, away, slot : f = Unplayed("cup", g, home, away, round, slot)
      BY Zenon DEF NextRoundPairings
    <3>. QED  BY <3>1, CupRow
  <2>3. FixturesInv' /\ Results' = Results /\ Matches' = Matches
    BY <1>1, <2>1, <2>2, CupGrows
  <2>4. TableInv'
    BY <1>1, <2>3, ResultsKept
  <2>. QED  BY <1>1, <2>3, <2>4, FixtureStep DEF Steps
<1>. QED  BY <1>2, <1>3, <1>4

\* The handler completes the league, and fails when a subscriber failed.
LEMMA HandlerCompletesInv ==
  ASSUME SettlementInv, HandlerCompletes
  PROVE  SettlementInv'
<1>. USE DEF SettlementInv
<1>1. /\ roster' = roster /\ custom' = custom /\ gwPoints' = gwPoints /\ UNCHANGED scores
      /\ settledAt' = settledAt /\ job.pc = "completeLeagues" /\ UNCHANGED leagueTable
      /\ job' = AfterHandlers
  BY DEF HandlerCompletes, At
<1>2. LeagueInv' /\ FixturesInv' /\ TableInv' /\ ScoresInv' /\ Ready' = Ready
  BY <1>1, LeagueKept, TableKept, ScoresKept
<1>3. JobInv'
  BY <1>1, <1>2, HandlersDone
<1>. QED  BY <1>2, <1>3

\* The job completes the league.
LEMMA CompleteLeagueInv ==
  ASSUME SettlementInv, CompleteLeague
  PROVE  SettlementInv'
<1>. USE DEF SettlementInv
<1>1. /\ roster' = roster /\ custom' = custom /\ gwPoints' = gwPoints /\ UNCHANGED scores
      /\ settledAt' = settledAt /\ job.pc = "complete" /\ UNCHANGED leagueTable /\ GoTo("finish")
  BY DEF CompleteLeague, At
<1>2. FixturesInv' /\ TableInv'
  BY <1>1, TableKept
<1>. QED  BY <1>1, <1>2, FixtureStep DEF Steps

\* The gameweek is settled and the next one taken up.
LEMMA FinishGameweekInv ==
  ASSUME SettlementInv, FinishGameweek
  PROVE  SettlementInv'
<1>. USE DEF SettlementInv
<1>1. /\ roster' = roster /\ custom' = custom /\ gwPoints' = gwPoints /\ UNCHANGED scores
      /\ settledAt' = settledAt \cup {Current} /\ job.pc = "finish" /\ UNCHANGED leagueTable
      /\ job' = IF Len(job.todo) = 1 THEN IdleJob
                ELSE [IdleJob EXCEPT !.pc = "list", !.todo = Tail(job.todo)]
  BY DEF FinishGameweek, At
<1>2. LeagueInv' /\ FixturesInv' /\ TableInv' /\ ScoresInv' /\ Ready' = Ready
  BY <1>1, LeagueKept, TableKept, ScoresKept
<1>3. settledAt' \subseteq Ready'
  <2>1. Current \in Ready
    BY <1>1, CurrentReady
  <2>. QED  BY <1>1, <1>2, <2>1 DEF JobInv
<1>4. CASE Len(job.todo) = 1
  BY <1>1, <1>2, <1>3, <1>4, JobStops
<1>5. CASE Len(job.todo) # 1
  <2>1. job.todo \in Seq(Ready) /\ job.todo # <<>>
    BY <1>1 DEF JobInv
  <2>2. Tail(job.todo) \in Seq(Ready) /\ Tail(job.todo) # <<>>
    <3>1. ASSUME NEW S, NEW t \in Seq(S), t # <<>>, Len(t) # 1
          PROVE  Tail(t) \in Seq(S) /\ Tail(t) # <<>>
      <4>1. Len(t) \in Nat /\ Len(t) # 0
        BY <3>1
      <4>2. Tail(t) \in Seq(S) /\ Len(Tail(t)) = Len(t) - 1
        BY <3>1
      <4>3. ASSUME NEW n \in Nat, n # 0, n # 1 PROVE n - 1 # 0
        BY <4>3
      <4>4. Len(Tail(t)) # 0
        BY <3>1, <4>1, <4>2, <4>3, Zenon
      <4>5. Len(<<>>) = 0
        OBVIOUS
      <4>. QED  BY <4>2, <4>4, <4>5, Zenon
    <3>. QED  BY <1>5, <2>1, <3>1, Zenon
  <2>3. job' = [pc |-> "list", todo |-> Tail(job.todo), listed |-> FALSE, failed |-> FALSE]
    BY <1>1, <1>5 DEF IdleJob
  <2>4. JobInv'
    BY <1>2, <1>3, <2>2, <2>3 DEF JobInv, Steps
  <2>. QED  BY <1>2, <2>4
<1>. QED  BY <1>4, <1>5

\* The job fails between two transactions.
LEMMA JobFailsInv ==
  ASSUME SettlementInv, JobFails
  PROVE  SettlementInv'
<1>. USE DEF SettlementInv
<1>1. /\ roster' = roster /\ custom' = custom /\ gwPoints' = gwPoints /\ UNCHANGED scores
      /\ settledAt' = settledAt /\ UNCHANGED leagueTable /\ job' = IdleJob
  BY DEF JobFails
<1>2. LeagueInv' /\ FixturesInv' /\ TableInv' /\ ScoresInv' /\ Ready' = Ready
  BY <1>1, LeagueKept, TableKept, ScoresKept
<1>3. settledAt' \subseteq Ready'
  BY <1>1, <1>2 DEF JobInv
<1>4. JobInv'
  BY <1>1, <1>3, JobStops
<1>. QED  BY <1>2, <1>4

-----------------------------------------------------------------------------
(* The theorems.                                                           *)

\* Every step keeps the invariant: one case per action of the job and of its
\* surroundings.
LEMMA NextInv ==
  ASSUME SettlementInv, [SettlementNext]_settlementVars
  PROVE  SettlementInv'
<1>1. ASSUME NEW g \in Gameweeks, GameweekFinishes(g) PROVE SettlementInv'
  BY <1>1, FinishesInv
<1>2. ASSUME NEW g \in CupGameweeks, CreateKnockoutCup(g) PROVE SettlementInv'
  BY <1>2, CreateCupInv
<1>3. CASE JobStep
  BY <1>3, StartsInv, ListLeaguesInv, ScoreSquadsInv, HandlerSettlesInv, HandlerCompletesInv,
     SeedPlayoffsInv, SettleFixturesInv, AdvancePlayoffsInv, SettleCupInv, AdvanceCupInv,
     CompleteLeagueInv, FinishGameweekInv DEF JobStep
<1>4. CASE ScoreSquadsFails
  BY <1>4, ScoreSquadsFailsInv
<1>5. CASE JobFails
  BY <1>5, JobFailsInv
<1>6. CASE UNCHANGED settlementVars \/ CommitSettlement
  <2>1. /\ roster' = roster /\ custom' = custom /\ UNCHANGED leagueTable /\ gwPoints' = gwPoints
        /\ UNCHANGED scores /\ settledAt' = settledAt /\ job' = job
    BY <1>6 DEF settlementVars, leagueTable, scores, CommitSettlement
  <2>2. LeagueInv' /\ FixturesInv' /\ TableInv' /\ ScoresInv' /\ Ready' = Ready
    BY <2>1, LeagueKept, TableKept, ScoresKept DEF SettlementInv
  <2>3. JobInv'
    BY <2>1, <2>2 DEF JobInv, SettlementInv
  <2>. QED  BY <2>2, <2>3 DEF SettlementInv
<1>. QED  BY <1>1, <1>2, <1>3, <1>4, <1>5, <1>6 DEF SettlementNext

\* The settlement job keeps its fixtures, scores, table and work list in step,
\* through every failure and restart.
THEOREM SettlementInvariant == SettlementSpec => []SettlementInv
<1>1. SettlementInit => SettlementInv
  BY InitInv
<1>2. SettlementInv /\ [SettlementNext]_settlementVars => SettlementInv'
  BY NextInv
<1>. QED  BY <1>1, <1>2, PTL DEF SettlementSpec

\* However often the job stops and is run again, every row of the table is the
\* sum of the results and the ranks follow it ("a retried job does not double
\* count"), for every membership, season length and sequence of faults.
THEOREM TableCountsResultsHolds == SettlementSpec => []TableCountsResults
<1>1. SettlementInv => TableCountsResults
  BY DEF SettlementInv, TableInv, TableCountsResults, Results, RanksFollow
<1>. QED  BY <1>1, SettlementInvariant, PTL

-----------------------------------------------------------------------------
(* A season that plays out.                                                *)

WeekOf(F, g) == {f \in F : f.gw = g}
PlayoffOf(F, g) == {f \in F : f.gw = g /\ f.kind = "playoff"}
SidesOf(F) == (UNION {{f.home, f.away} : f \in F}) \ {NoMember}

\* Nobody is in two of the matches.
Apart(F) == \A f, h \in F : f # h => {f.home, f.away} \cap {h.home, h.away} = {}

PlayedIn(F, g) == \A f \in F : f.gw = g => f.finished

\* The winners of the gameweek's playoff round meet in the next gameweek.
AdvancedIn(F, g) ==
    PlayoffOf(F, g) # {} =>
        /\ Cardinality(SidesOf(PlayoffOf(F, g + 1))) = Cardinality(PlayoffOf(F, g))
        /\ \A f \in PlayoffOf(F, g) :
             \E w \in {f.home, f.away} \cap SidesOf(PlayoffOf(F, g + 1)) :
                f.homeScore # f.awayScore => SideOf(f, w)[1] > SideOf(f, w)[2]

\* A gameweek with n playoff matches is a round of a bracket of the size: the
\* final is in the last gameweek, the round before it has two matches, the
\* round before that four.
PlayoffStart(size) == EndGameweek - BracketRounds(size) + 1
RoundSize(k) == IF k = 0 THEN 1 ELSE IF k = 1 THEN 2 ELSE 4
IsRound(size, g, n) ==
    /\ size # 0 /\ g >= PlayoffStart(size)
    /\ EndGameweek - g \in 0..2 /\ n = RoundSize(EndGameweek - g)

\* The matches of a season: one per member and gameweek, and playoff rounds
\* that end with the final.
Shape(size, F) ==
    /\ \A f \in F : f.gw \in Gameweeks /\ f.home # f.away
    /\ \A g \in Gameweeks : Apart(WeekOf(F, g))
    /\ \A g \in Gameweeks : PlayoffOf(F, g) # {} => IsRound(size, g, Cardinality(PlayoffOf(F, g)))

\* The gameweeks S are settled in order, played, and their rounds advanced.
Earlier(g) == 1..(g - 1)
SeasonSoFar(size, F, S) ==
    /\ Shape(size, F)
    /\ \A f \in F : f.finished => Earlier(f.gw) \subseteq S
    /\ \A g \in S : /\ Earlier(g) \subseteq S /\ PlayedIn(F, g)
                    /\ g # EndGameweek => AdvancedIn(F, g)

\* A league that the job ends has its last gameweek played; a payout may end
\* it earlier.
StatusInv(F, S, status, paid) ==
    /\ status \in {"ACTIVE", "COMPLETED"}
    /\ status = "ACTIVE" => ~ paid /\ EndGameweek \notin S
    /\ status = "COMPLETED" /\ ~ paid =>
        Earlier(EndGameweek) \subseteq S /\ PlayedIn(F, EndGameweek)

\* What the steps of the job for gameweek g have done, unless the payout came
\* before the job listed the league: then they leave its fixtures alone.
Looping == {"seed", "settle", "advance", "cup", "cupAdvance", "complete"}
Settling == {"completeLeagues", "advance", "cup", "cupAdvance", "complete", "finish"}
Advanced == {"cup", "cupAdvance", "complete", "finish"}
WorkInv(F, S, pc, g, listed, paid, status) ==
    /\ pc \in Looping => listed
    /\ listed \/ ~ paid =>
        /\ pc \notin {"idle", "list"} => Earlier(g) \subseteq S /\ (g # EndGameweek => listed)
        /\ pc \in Settling => PlayedIn(F, g)
        /\ pc \in Advanced /\ g # EndGameweek => AdvancedIn(F, g)
        /\ pc = "finish" /\ g = EndGameweek => status = "COMPLETED"

\* The job has every unsettled gameweek once before it.
TodoInv == job.pc # "idle" => IsInjective(job.todo) /\ ToSet(job.todo) \cap settledAt = {}

\* Gameweeks are settled without the league only after a payout.
PayoutInv == skipped \subseteq settledAt /\ (~ paidOut => skipped = {})

Bracket == ComputeBracketSize(Len(roster))
Kept == settledAt \ skipped
InOrderInv ==
    /\ SeasonSoFar(Bracket, Matches, Kept)
    /\ StatusInv(Matches, Kept, seasonStatus, paidOut)
    /\ WorkInv(Matches, Kept, job.pc, Current, job.listed, paidOut, seasonStatus)
SeasonInv == SettlementInv /\ TodoInv /\ PayoutInv /\ (inOrder => InOrderInv)

\* A sequence without repetitions has as many members as places.
LEMMA DistinctMembers ==
  ASSUME NEW n \in Nat, NEW T, NEW ids \in Injection(1..n, T)
  PROVE  IsFiniteSet(ToSet(ids)) /\ Cardinality(ToSet(ids)) = n
<1>1. DOMAIN ids = 1..n /\ ids = [i \in 1..n |-> ids[i]]
  BY DEF Injection
<1>2. ids \in Bijection(1..n, ToSet(ids))
  <2>1. ids \in [1..n -> ToSet(ids)]
    BY <1>1 DEF ToSet
  <2>2. \A p \in ToSet(ids) : \E i \in 1..n : ids[i] = p
    BY <1>1 DEF ToSet
  <2>. QED  BY <2>1, <2>2 DEF Bijection, Injection, Surjection
<1>3. ExistsBijection(1..n, ToSet(ids))
  BY <1>2 DEF ExistsBijection
<1>4. IsFiniteSet(1..n)
  BY IntervalSplit
<1>. QED  BY <1>3, <1>4, FS_CountingElements, FS_Bijection

\* An enumeration of a finite set has every element in one place.
LEMMA Enumeration ==
  ASSUME NEW S, IsFiniteSet(S), NEW n \in Nat, n = Cardinality(S), NEW s \in SetToSeqs(S)
  PROVE  s \in Injection(1..n, S) /\ \A x \in S : \E i \in 1..n : s[i] = x
<1>1. s \in [1..n -> S] /\ \A i, j \in 1..n : i # j => s[i] # s[j]
  BY DEF SetToSeqs
<1>2. IsFiniteSet(1..n) /\ Cardinality(1..n) = n
  <2>1. 1 \in Int /\ n \in Int
    OBVIOUS
  <2>2. Cardinality(1..n) = IF 1 > n THEN 0 ELSE n - 1 + 1
    BY <2>1, FS_Interval
  <2>. QED  BY <2>1, <2>2, FS_Interval
<1>3. s \in Injection(1..n, S)
  BY <1>1 DEF Injection, IsInjective
<1>4. s \in Surjection(1..n, S)
  BY <1>2, <1>3, FS_Injection
<1>. QED  BY <1>3, <1>4 DEF Surjection

\* Who is in a match.
LEMMA SidesMember ==
  ASSUME NEW F, NEW m
  PROVE  m \in SidesOf(F) <=> m # NoMember /\ \E p \in F : m = p.home \/ m = p.away
<1>1. ASSUME m \in SidesOf(F) PROVE m # NoMember /\ \E p \in F : m = p.home \/ m = p.away
  <2>1. m # NoMember /\ \E X \in {{f.home, f.away} : f \in F} : m \in X
    BY <1>1 DEF SidesOf
  <2>2. PICK X \in {{f.home, f.away} : f \in F} : m \in X
    BY <2>1
  <2>3. PICK p \in F : X = {p.home, p.away}
    OBVIOUS
  <2>. QED  BY <2>1, <2>2, <2>3
<1>2. ASSUME m # NoMember, NEW p \in F, m = p.home \/ m = p.away PROVE m \in SidesOf(F)
  <2>1. {p.home, p.away} \in {{f.home, f.away} : f \in F} /\ m \in {p.home, p.away}
    BY <1>2
  <2>. QED  BY <1>2, <2>1 DEF SidesOf
<1>. QED  BY <1>1, <1>2

\* The matches of gameweek g pair the h home and h away sides ids.
IsPairing(new, ids, g, h) ==
    /\ Apart(new) /\ \A p, q \in new : p # q => p.home # q.home
    /\ SidesOf(new) = ToSet(ids)
    /\ Cardinality(new) = h
    /\ \A p \in new : p.kind = "playoff" /\ p.gw = g /\ p.home # p.away

\* A bracket of 2 * h seeds is h matches, each seed in one of them.
LEMMA PairingsShape ==
  ASSUME NEW h \in Nat, NEW ids \in Injection(1..(2 * h), Active), NoMember \notin Active,
         NEW g, NEW round, NEW new, new = SeedPlayoffPairings(ids, g, round)
  PROVE  IsPairing(new, ids, g, h)
<1>. DEFINE n == 2 * h
            Pair(i) == Unplayed("playoff", g, ids[i], ids[n + 1 - i], round, i - 1)
<1>0. /\ n \in Nat /\ ids \in [1..n -> Active] /\ DOMAIN ids = 1..n /\ Len(ids) = n
      /\ \A i, j \in 1..n : ids[i] = ids[j] => i = j
  <2>1. n \in Nat /\ ids \in [1..n -> Active]
    BY DEF Injection
  <2>2. Len(ids) = n /\ DOMAIN ids = 1..n
    BY <2>1, RankSequence
  <2>. QED  BY <2>1, <2>2 DEF Injection, IsInjective
<1>1. new = {Pair(i) : i \in 1..h}
  <2>1. n \div 2 = h
    <3>1. ASSUME NEW k \in Nat PROVE (2 * k) \div 2 = k
      BY Z3
    <3>. QED  BY <3>1
  <2>. QED  BY <1>0, <2>1 DEF SeedPlayoffPairings
<1>2. \A i \in 1..h : i \in 1..n /\ n + 1 - i \in 1..n /\ n + 1 - i \notin 1..h
  OBVIOUS
<1>3. \A i \in 1..h : /\ Pair(i).home = ids[i] /\ Pair(i).away = ids[n + 1 - i]
                      /\ Pair(i).kind = "playoff" /\ Pair(i).gw = g
  BY DEF Unplayed
<1>. HIDE DEF Pair
<1>4. ASSUME NEW i \in 1..h, NEW j \in 1..h, i # j
      PROVE  /\ ids[i] # ids[j] /\ ids[i] # ids[n + 1 - j]
             /\ ids[n + 1 - i] # ids[j] /\ ids[n + 1 - i] # ids[n + 1 - j]
  <2>1. i # n + 1 - j /\ n + 1 - i # j /\ n + 1 - i # n + 1 - j
    BY <1>2, <1>4
  <2>. HIDE DEF n
  <2>. QED  BY <1>0, <1>2, <1>4, <2>1
<1>5. Apart(new) /\ \A p, q \in new : p # q => p.home # q.home
  <2>1. ASSUME NEW p \in new, NEW q \in new, p # q
        PROVE  {p.home, p.away} \cap {q.home, q.away} = {} /\ p.home # q.home
    <3>1. PICK i \in 1..h : p = Pair(i)
      BY <1>1
    <3>2. PICK j \in 1..h : q = Pair(j)
      BY <1>1
    <3>3. i # j
      BY <2>1, <3>1, <3>2
    <3>. QED  BY <1>3, <1>4, <3>1, <3>2, <3>3
  <2>. QED  BY <2>1 DEF Apart
<1>6. SidesOf(new) = ToSet(ids)
  <2>1. ASSUME NEW p \in new PROVE {p.home, p.away} \subseteq ToSet(ids)
    BY <1>0, <1>1, <1>2, <1>3 DEF ToSet
  <2>2. NoMember \notin ToSet(ids)
    BY <1>0 DEF ToSet
  <2>3. ASSUME NEW m \in ToSet(ids) PROVE \E p \in new : m \in {p.home, p.away}
    <3>1. PICK i \in 1..n : m = ids[i]
      BY <1>0 DEF ToSet
    <3>2. CASE i \in 1..h
      BY <1>1, <1>3, <3>1, <3>2
    <3>3. CASE i \notin 1..h
      <4>1. n + 1 - i \in 1..h /\ n + 1 - (n + 1 - i) = i
        BY <3>3
      <4>2. Pair(n + 1 - i) \in new /\ Pair(n + 1 - i).away = ids[i]
        BY <1>1, <1>3, <4>1
      <4>. QED  BY <3>1, <4>2
    <3>. QED  BY <3>2, <3>3
  <2>4. ASSUME NEW m \in SidesOf(new) PROVE m \in ToSet(ids)
    <3>1. PICK p \in new : m = p.home \/ m = p.away
      BY SidesMember
    <3>. QED  BY <2>1, <3>1
  <2>5. ASSUME NEW m \in ToSet(ids) PROVE m \in SidesOf(new)
    <3>1. PICK p \in new : m = p.home \/ m = p.away
      BY <2>3
    <3>. QED  BY <2>2, <3>1, SidesMember
  <2>. QED  BY <2>4, <2>5
<1>7. Cardinality(new) = h
  <2>. DEFINE b == [i \in 1..h |-> Pair(i)]
  <2>1. b \in Injection(1..h, new)
    <3>1. b \in [1..h -> new]
      BY <1>1
    <3>2. ASSUME NEW i \in 1..h, NEW j \in 1..h, b[i] = b[j] PROVE i = j
      BY <1>3, <1>4, <3>2
    <3>. QED  BY <3>1, <3>2 DEF Injection, IsInjective
  <2>2. ToSet(b) = new
    BY <1>1 DEF ToSet
  <2>. HIDE DEF b
  <2>. QED  BY <2>1, <2>2, DistinctMembers
<1>8. \A p \in new : p.kind = "playoff" /\ p.gw = g /\ p.home # p.away
  <2>1. \A i \in 1..h : i # n + 1 - i
    OBVIOUS
  <2>2. \A i \in 1..h : ids[i] # ids[n + 1 - i]
    <3>. HIDE DEF n
    <3>. QED  BY <1>0, <1>2, <2>1
  <2>. HIDE DEF n
  <2>. QED  BY <1>1, <1>3, <2>2
<1>. QED  BY <1>5, <1>6, <1>7, <1>8 DEF IsPairing

\* The rotations of a league's teams keep every team once.
LEMMA TeamRotations ==
  ASSUME NEW l \in SeasonLeagues, roster = l.members, Len(roster) >= 2
  PROVE  \E n \in Nat : /\ n >= 2 /\ n % 2 = 0 /\ Len(Teams(roster)) = n
                        /\ \A r \in 0..(n - 2) :
                             Rotation(Teams(roster))[r] \in Injection(1..n, Active \cup {NoMember})
<1>. DEFINE T == Active \cup {NoMember}
            teams == Teams(roster)
            rot == Rotation(teams)
<1>1. PICK n \in Nat : n >= 2 /\ n % 2 = 0 /\ Len(teams) = n /\ teams \in Injection(1..n, T)
  BY TeamsInjection
<1>2. n - 2 \in Nat
  BY <1>1
<1>3. \E g : IsRotation(teams, n - 2, g)
  BY <1>2, RotationExists
<1>4. IsRotation(teams, n - 2, rot)
  BY <1>1, <1>3 DEF Rotation
<1>5. \A r \in 0..(n - 2) : rot[r] \in Injection(1..n, T)
  <2>. HIDE DEF rot, teams, T
  <2>. QED  BY <1>1, <1>2, <1>4, RotationInjection
<1>. QED  BY <1>1, <1>5

\* The circle method gives every team one match in a gameweek.
LEMMA ScheduleApart ==
  ASSUME NEW l \in SeasonLeagues, roster = l.members,
         NEW F, F = GenerateRoundRobinSchedule(roster)
  PROVE  /\ \A f \in F : f.gw \in Gameweeks /\ f.kind = "league" /\ f.home # f.away
         /\ \A g \in Gameweeks : Apart(WeekOf(F, g))
<1>1. CASE Len(roster) < 2
  <2>1. F = {}
    BY <1>1, ScheduleParts
  <2>. QED  BY <2>1 DEF Apart, WeekOf
<1>2. CASE ~(Len(roster) < 2)
  <2>. DEFINE teams == Teams(roster)
              rot == Rotation(teams)
              T == Active \cup {NoMember}
  <2>0. Len(roster) \in Nat /\ Len(roster) >= 2
    BY <1>2, ActiveFinite
  <2>1. PICK n \in Nat : /\ n >= 2 /\ n % 2 = 0 /\ Len(teams) = n
                         /\ \A r \in 0..(n - 2) : rot[r] \in Injection(1..n, T)
    BY <2>0, TeamRotations
  <2>. DEFINE I == 1 .. n \div 2
              Row(g) == rot[(g - 1) % (n - 1)]
  <2>2. F = {MatchOf(teams, g, i) : g \in Gameweeks, i \in I}
    BY <1>2, <2>1, ScheduleParts
  <2>. HIDE DEF teams, rot, T
  <2>3. ASSUME NEW g \in Gameweeks PROVE Row(g) \in Injection(1..n, T)
    <3>1. g \in Nat \ {0}
      BY SettlementAssumption DEF Gameweeks
    <3>2. ASSUME NEW x \in Nat, NEW y \in Nat \ {0} PROVE x % y \in 0..(y - 1)
      BY Z3
    <3>3. g - 1 \in Nat /\ n - 1 \in Nat \ {0} /\ (n - 1) - 1 = n - 2
      BY <2>1, <3>1
    <3>4. (g - 1) % (n - 1) \in 0..(n - 2)
      BY <3>2, <3>3
    <3>. QED  BY <2>1, <3>4
  <2>4. \A i \in I : i \in 1..n /\ n + 1 - i \in 1..n
    <3>1. 2 * (n \div 2) <= n
      BY <2>1
    <3>. QED  BY <2>1, <3>1
  <2>5. \A i, j \in I : i # n + 1 - j
    <3>1. 2 * (n \div 2) <= n
      BY <2>1
    <3>. QED  BY <2>1, <3>1
  <2>6. ASSUME NEW g \in Gameweeks, NEW i \in I, NEW f, f = MatchOf(teams, g, i)
        PROVE  /\ f.gw = g /\ f.kind = "league"
               /\ \/ f.home = Row(g)[i] /\ f.away = Row(g)[n + 1 - i]
                  \/ f.away = Row(g)[i] /\ f.home = Row(g)[n + 1 - i]
    <3>1. f = Pairing(g, n, Row(g)[i], Row(g)[n + 1 - i])
      BY <2>1, <2>6 DEF MatchOf, rot
    <3>2. ASSUME NEW a, NEW b, f = Pairing(g, n, a, b)
          PROVE  /\ f.gw = g /\ f.kind = "league"
                 /\ (f.home = a /\ f.away = b) \/ (f.away = a /\ f.home = b)
      <4>1. f = Unplayed("league", g, b, a, 0, 0) \/ f = Unplayed("league", g, a, b, 0, 0)
        BY <3>2, Zenon DEF Pairing
      <4>. QED  BY <4>1 DEF Unplayed
    <3>. HIDE DEF Row
    <3>. QED  BY <3>1, <3>2
  <2>7. ASSUME NEW g \in Gameweeks, NEW i \in 1..n, NEW j \in 1..n, i # j
        PROVE  Row(g)[i] # Row(g)[j]
    <3>1. Row(g) \in Injection(1..n, T)
      BY <2>3
    <3>. HIDE DEF Row
    <3>. QED  BY <2>7, <3>1 DEF Injection, IsInjective
  <2>. HIDE DEF Row
  <2>8. ASSUME NEW g \in Gameweeks, NEW i \in I PROVE Row(g)[i] # Row(g)[n + 1 - i]
    BY <2>4, <2>5, <2>7
  <2>9. ASSUME NEW g \in Gameweeks, NEW i \in I, NEW j \in I, i # j
        PROVE  /\ Row(g)[i] # Row(g)[j] /\ Row(g)[i] # Row(g)[n + 1 - j]
               /\ Row(g)[n + 1 - i] # Row(g)[j] /\ Row(g)[n + 1 - i] # Row(g)[n + 1 - j]
    <3>1. /\ i \in 1..n /\ j \in 1..n /\ n + 1 - i \in 1..n /\ n + 1 - j \in 1..n
      BY <2>4
    <3>2. i # n + 1 - j /\ n + 1 - i # j
      BY <2>5, <3>1
    <3>3. n + 1 - i # n + 1 - j
      BY <2>9, <3>1
    <3>4. Row(g)[i] # Row(g)[j] /\ Row(g)[i] # Row(g)[n + 1 - j]
      BY <2>7, <2>9, <3>1, <3>2
    <3>5. Row(g)[n + 1 - i] # Row(g)[j] /\ Row(g)[n + 1 - i] # Row(g)[n + 1 - j]
      BY <2>7, <3>1, <3>2, <3>3
    <3>. QED  BY <3>4, <3>5
  <2>. HIDE DEF I
  <2>10. ASSUME NEW f \in F PROVE f.gw \in Gameweeks /\ f.kind = "league" /\ f.home # f.away
    <3>1. PICK g \in Gameweeks, i \in I : f = MatchOf(teams, g, i)
      BY <2>2
    <3>2. f.gw = g /\ f.kind = "league"
      BY <2>6, <3>1
    <3>3. \/ f.home = Row(g)[i] /\ f.away = Row(g)[n + 1 - i]
          \/ f.away = Row(g)[i] /\ f.home = Row(g)[n + 1 - i]
      BY <2>6, <3>1
    <3>. QED  BY <2>8, <3>2, <3>3
  <2>11. ASSUME NEW f \in F, NEW h \in F, f.gw = h.gw, f # h
         PROVE  {f.home, f.away} \cap {h.home, h.away} = {}
    <3>1. PICK g \in Gameweeks, i \in I : f = MatchOf(teams, g, i)
      BY <2>2
    <3>2. PICK g2 \in Gameweeks, j \in I : h = MatchOf(teams, g2, j)
      BY <2>2
    <3>3. g2 = g
      BY <2>6, <2>11, <3>1, <3>2
    <3>4. i # j
      BY <2>11, <3>1, <3>2, <3>3
    <3>5. \/ f.home = Row(g)[i] /\ f.away = Row(g)[n + 1 - i]
          \/ f.away = Row(g)[i] /\ f.home = Row(g)[n + 1 - i]
      BY <2>6, <3>1
    <3>6. \/ h.home = Row(g)[j] /\ h.away = Row(g)[n + 1 - j]
          \/ h.away = Row(g)[j] /\ h.home = Row(g)[n + 1 - j]
      BY <2>6, <3>2, <3>3
    <3>. QED  BY <2>9, <3>4, <3>5, <3>6
  <2>. QED  BY <2>10, <2>11 DEF Apart, WeekOf
<1>. QED  BY <1>1, <1>2

\* The brackets and the number of their rounds.
LEMMA BracketSizes ==
  ASSUME NEW n \in Nat, NEW size, size = ComputeBracketSize(n), size # 0
  PROVE  /\ size \in 1..n
         /\ \/ size = 2 /\ BracketRounds(size) = 1
            \/ size = 4 /\ BracketRounds(size) = 2
            \/ size = 8 /\ BracketRounds(size) = 3
<1>1. size \in 1..n
  BY BracketFits
<1>2. size \in {2, 4, 8}
  <2>. DEFINE S == {m \in {2, 4, 8} : m <= n}
  <2>1. n >= 2 /\ size = Max(S)
    BY DEF ComputeBracketSize
  <2>2. \E x \in S : \A y \in S : x >= y
    <3>1. CASE n >= 8
      <4>1. 8 \in S /\ \A y \in S : 8 >= y
        BY <3>1
      <4>. QED  BY <4>1
    <3>2. CASE n >= 4 /\ n < 8
      <4>1. 4 \in S /\ \A y \in S : 4 >= y
        BY <3>2
      <4>. QED  BY <4>1
    <3>3. CASE n < 4
      <4>1. 2 \in S /\ \A y \in S : 2 >= y
        BY <2>1, <3>3
      <4>. QED  BY <4>1
    <3>. QED  BY <3>1, <3>2, <3>3
  <2>3. Max(S) \in S
    <3>. HIDE DEF S
    <3>. QED  BY <2>2 DEF Max
  <2>. QED  BY <2>1, <2>3
<1>3. 2 ^ 1 = 2 /\ 2 ^ 2 = 4 /\ 2 ^ 3 = 8
  OBVIOUS
<1>4. 2 ^ 4 = 16 /\ 2 ^ 5 = 32 /\ 2 ^ 6 = 64
  OBVIOUS
<1>5. ASSUME NEW r \in 1..6
      PROVE  /\ 2 ^ r = 2 => r = 1
             /\ 2 ^ r = 4 => r = 2
             /\ 2 ^ r = 8 => r = 3
  <2>1. r = 1 \/ r = 2 \/ r = 3 \/ r = 4 \/ r = 5 \/ r = 6
    OBVIOUS
  <2>2. CASE r = 1
    BY <1>3, <2>2
  <2>3. CASE r = 2
    BY <1>3, <2>3
  <2>4. CASE r = 3
    BY <1>3, <2>4
  <2>5. CASE r = 4
    BY <1>4, <2>5
  <2>6. CASE r = 5
    BY <1>4, <2>6
  <2>7. CASE r = 6
    BY <1>4, <2>7
  <2>. QED  BY <2>1, <2>2, <2>3, <2>4, <2>5, <2>6, <2>7
<1>6. CASE size = 2
  <2>1. \E r \in 1..6 : 2 ^ r = size
    BY <1>3, <1>6
  <2>. QED  BY <1>1, <1>5, <1>6, <2>1 DEF BracketRounds
<1>7. CASE size = 4
  <2>1. \E r \in 1..6 : 2 ^ r = size
    BY <1>3, <1>7
  <2>. QED  BY <1>1, <1>5, <1>7, <2>1 DEF BracketRounds
<1>8. CASE size = 8
  <2>1. \E r \in 1..6 : 2 ^ r = size
    BY <1>3, <1>8
  <2>. QED  BY <1>1, <1>5, <1>8, <2>1 DEF BracketRounds
<1>. QED  BY <1>2, <1>6, <1>7, <1>8

-----------------------------------------------------------------------------
(* What settling and drawing a gameweek do to the season.                  *)

\* The matches with those of gameweek g drawn anew.
Redrawn(F, g, new) == {f \in F : f.gw # g} \cup new

\* A new playoff round leaves the other gameweeks alone.
LEMMA RedrawnWeeks ==
  ASSUME NEW F, NEW g, NEW new, \A p \in new : p.kind = "playoff" /\ p.gw = g,
         NEW G, G = Redrawn(F, g, new)
  PROVE  /\ \A h : h # g => /\ WeekOf(G, h) = WeekOf(F, h) /\ PlayoffOf(G, h) = PlayoffOf(F, h)
                            /\ PlayedIn(G, h) <=> PlayedIn(F, h)
         /\ WeekOf(G, g) = new /\ PlayoffOf(G, g) = new
<1>1. ASSUME NEW h, h # g PROVE WeekOf(G, h) = WeekOf(F, h)
  BY <1>1 DEF Redrawn, WeekOf
<1>2. ASSUME NEW h, h # g PROVE PlayoffOf(G, h) = PlayoffOf(F, h)
  BY <1>2 DEF Redrawn, PlayoffOf
<1>3. ASSUME NEW h, h # g PROVE PlayedIn(G, h) <=> PlayedIn(F, h)
  BY <1>3 DEF Redrawn, PlayedIn
<1>4. WeekOf(G, g) = new /\ PlayoffOf(G, g) = new
  BY DEF Redrawn, WeekOf, PlayoffOf
<1>. QED  BY <1>1, <1>2, <1>3, <1>4

\* A new playoff round after the settled gameweeks.
LEMMA RedrawnSeason ==
  ASSUME NEW size, NEW F, NEW S \in SUBSET Gameweeks, SeasonSoFar(size, F, S),
         NEW c \in Gameweeks, c \notin S, c + 1 \in Gameweeks,
         NEW new, Apart(new),
         \A p \in new : /\ p.kind = "playoff" /\ p.gw = c + 1 /\ p.home # p.away
                        /\ p.finished = FALSE,
         IsRound(size, c + 1, Cardinality(new)),
         NEW G, G = Redrawn(F, c + 1, new)
  PROVE  SeasonSoFar(size, G, S)
<1>0. PICK g : g = c + 1 /\ g \in Gameweeks
  OBVIOUS
<1>1. c \in Earlier(g) /\ c # g
  BY <1>0, SettlementAssumption DEF Earlier, Gameweeks
<1>2. \A p \in new : p.kind = "playoff" /\ p.gw = g
  BY <1>0
<1>3. G = Redrawn(F, g, new)
  BY <1>0
<1>4. ASSUME NEW h, h # g
      PROVE  /\ WeekOf(G, h) = WeekOf(F, h) /\ PlayoffOf(G, h) = PlayoffOf(F, h)
             /\ PlayedIn(G, h) <=> PlayedIn(F, h)
  BY <1>2, <1>3, <1>4, RedrawnWeeks
<1>5. WeekOf(G, g) = new /\ PlayoffOf(G, g) = new
  BY <1>2, <1>3, RedrawnWeeks
<1>6. \A f \in G : f \in F \/ f \in new
  BY <1>3 DEF Redrawn
<1>7. Shape(size, G)
  <2>1. \A f \in G : f.gw \in Gameweeks /\ f.home # f.away
    BY <1>0, <1>6 DEF SeasonSoFar, Shape
  <2>2. ASSUME NEW h \in Gameweeks PROVE Apart(WeekOf(G, h))
    BY <1>4, <1>5 DEF SeasonSoFar, Shape
  <2>3. ASSUME NEW h \in Gameweeks, PlayoffOf(G, h) # {}
        PROVE  IsRound(size, h, Cardinality(PlayoffOf(G, h)))
    <3>1. CASE h = g
      BY <1>0, <1>5, <3>1
    <3>2. CASE h # g
      <4>1. PlayoffOf(G, h) = PlayoffOf(F, h)
        BY <1>4, <3>2
      <4>. QED  BY <2>3, <4>1 DEF SeasonSoFar, Shape
    <3>. QED  BY <3>1, <3>2
  <2>. QED  BY <2>1, <2>2, <2>3 DEF Shape
<1>8. ASSUME NEW f \in G, f.finished PROVE Earlier(f.gw) \subseteq S
  BY <1>6, <1>8 DEF SeasonSoFar
<1>9. ASSUME NEW h \in S
      PROVE  Earlier(h) \subseteq S /\ PlayedIn(G, h) /\ (h # EndGameweek => AdvancedIn(G, h))
  <2>1. Earlier(h) \subseteq S /\ PlayedIn(F, h) /\ (h # EndGameweek => AdvancedIn(F, h))
    BY DEF SeasonSoFar
  <2>2. h # g
    BY <1>1, <2>1
  <2>3. h + 1 # g
    BY <1>0, SettlementAssumption DEF Gameweeks
  <2>4. PlayedIn(G, h) /\ PlayoffOf(G, h) = PlayoffOf(F, h)
    BY <1>4, <2>1, <2>2
  <2>5. PlayoffOf(G, h + 1) = PlayoffOf(F, h + 1)
    BY <1>4, <2>3
  <2>. QED  BY <2>1, <2>4, <2>5 DEF AdvancedIn
<1>. QED  BY <1>7, <1>8, <1>9 DEF SeasonSoFar

\* The row r is the match f after gameweek g was settled.
SettledRow(f, r, g) ==
    /\ r.kind = f.kind /\ r.gw = f.gw /\ r.home = f.home /\ r.away = f.away
    /\ f.gw # g => r = f
    /\ f.gw = g => r.finished

\* settleH2HGameweek finishes the gameweek's matches and changes no other.
LEMMA SettleRewrites ==
  ASSUME FixturesInv, NEW g, NEW u, SettleH2HGameweek(g, u)
  PROVE  \E k : Matches' = {k[f] : f \in Matches} /\ \A f \in Matches : SettledRow(f, k[f], g)
<1>. DEFINE due == {f \in fixtures : f.gw = g /\ ~ f.finished /\ ~ IsCup(f)}
            done == {Scored(f, Rows(u), g) : f \in due}
            k == [f \in Matches |-> IF f \in due THEN Scored(f, Rows(u), g) ELSE f]
<1>1. due \subseteq Matches /\ \A f \in Matches : f.gw = g => f \in due \/ f.finished
  BY DEF Matches
<1>2. \A f \in Matches : IsRow(f)
  BY DEF FixturesInv, Matches
<1>3. \A f \in due : k[f] = Scored(f, Rows(u), g)
  BY <1>1
<1>4. \A f \in Matches \ due : k[f] = f
  OBVIOUS
<1>5. ASSUME NEW f \in due
      PROVE  SettledRow(f, k[f], g) /\ ~ IsCup(k[f])
  <2>1. PICK q : q = Rows(u)
    OBVIOUS
  <2>2. k[f] = Scored(f, q, g) /\ IsRow(f) /\ f.gw = g /\ ~ IsCup(f)
    BY <1>1, <1>2, <1>3, <2>1
  <2>. HIDE DEF k, due
  <2>3. PICK r : r = k[f]
    OBVIOUS
  <2>4. /\ r.kind = f.kind /\ r.gw = f.gw /\ r.home = f.home /\ r.away = f.away
        /\ r.finished = TRUE
    BY <2>2, <2>3 DEF Scored, IsRow, Columns
  <2>. QED  BY <2>2, <2>3, <2>4 DEF SettledRow, IsCup
<1>6. ASSUME NEW f \in Matches \ due PROVE SettledRow(f, k[f], g)
  <2>1. k[f] = f /\ (f.gw = g => f.finished)
    BY <1>1, <1>4
  <2>. HIDE DEF k, due
  <2>. QED  BY <2>1 DEF SettledRow
<1>7. \A f \in Matches : SettledRow(f, k[f], g)
  BY <1>5, <1>6
<1>8. Matches' = (Matches \ due) \cup done
  <2>1. CASE due = {}
    <3>1. fixtures' = fixtures
      BY <2>1, Zenon DEF SettleH2HGameweek, leagueTable
    <3>. QED  BY <2>1, <3>1 DEF Matches
  <2>2. CASE due # {}
    <3>1. fixtures' = (fixtures \ due) \cup done
      BY <2>2, Zenon DEF SettleH2HGameweek
    <3>2. ASSUME NEW r \in done PROVE ~ IsCup(r)
      <4>1. PICK f \in due : r = Scored(f, Rows(u), g)
        OBVIOUS
      <4>2. r = k[f]
        BY <1>3, <4>1
      <4>. HIDE DEF k, due, done
      <4>. QED  BY <1>5, <4>2
    <3>3. Matches' = {f \in fixtures' : ~ IsCup(f)}
      BY DEF Matches
    <3>. HIDE DEF done, due
    <3>. QED  BY <3>1, <3>2, <3>3 DEF Matches
  <2>. QED  BY <2>1, <2>2
<1>9. Matches' = {k[f] : f \in Matches}
  <2>1. done = {k[f] : f \in due}
    BY <1>3
  <2>2. Matches = (Matches \ due) \cup due
    BY <1>1
  <2>. HIDE DEF k, due, done
  <2>. QED  BY <1>4, <1>8, <2>1, <2>2
<1>. QED  BY <1>7, <1>9

\* Settling a gameweek leaves the others alone, and keeps its sides.
LEMMA SettledWeeks ==
  ASSUME NEW F, NEW g, NEW k, \A f \in F : SettledRow(f, k[f], g), NEW G, G = {k[f] : f \in F}
  PROVE  /\ \A h : h # g => /\ WeekOf(G, h) = WeekOf(F, h) /\ PlayoffOf(G, h) = PlayoffOf(F, h)
                            /\ PlayedIn(G, h) <=> PlayedIn(F, h)
         /\ PlayedIn(G, g)
         /\ \A h : SidesOf(PlayoffOf(G, h)) = SidesOf(PlayoffOf(F, h))
<1>0. /\ \A f \in F : k[f] \in G
      /\ \A r \in G : \E f \in F : r = k[f]
  OBVIOUS
<1>1. ASSUME NEW f \in F
      PROVE  /\ k[f].kind = f.kind /\ k[f].gw = f.gw /\ k[f].home = f.home /\ k[f].away = f.away
             /\ f.gw # g => k[f] = f
             /\ f.gw = g => k[f].finished
  BY DEF SettledRow
<1>2. ASSUME NEW h, h # g, NEW r, r.gw = h PROVE r \in G <=> r \in F
  BY <1>0, <1>1, <1>2
<1>3. ASSUME NEW h, h # g PROVE WeekOf(G, h) = WeekOf(F, h)
  BY <1>2, <1>3 DEF WeekOf
<1>4. ASSUME NEW h, h # g PROVE PlayoffOf(G, h) = PlayoffOf(F, h)
  BY <1>2, <1>4 DEF PlayoffOf
<1>5. ASSUME NEW h, h # g PROVE PlayedIn(G, h) <=> PlayedIn(F, h)
  BY <1>2, <1>5 DEF PlayedIn
<1>6. PlayedIn(G, g)
  BY <1>0, <1>1 DEF PlayedIn
<1>7. ASSUME NEW h PROVE SidesOf(PlayoffOf(G, h)) = SidesOf(PlayoffOf(F, h))
  <2>2. ASSUME NEW m, NEW p \in PlayoffOf(G, h), m \in {p.home, p.away}
        PROVE  \E f \in PlayoffOf(F, h) : m \in {f.home, f.away}
    <3>1. PICK f \in F : p = k[f] /\ p.gw = h /\ p.kind = "playoff"
      BY <1>0 DEF PlayoffOf
    <3>2. f \in PlayoffOf(F, h) /\ m \in {f.home, f.away}
      BY <1>1, <2>2, <3>1 DEF PlayoffOf
    <3>. QED  BY <3>2
  <2>3. ASSUME NEW m, NEW f \in PlayoffOf(F, h), m \in {f.home, f.away}
        PROVE  \E p \in PlayoffOf(G, h) : m \in {p.home, p.away}
    <3>1. f \in F /\ f.gw = h /\ f.kind = "playoff"
      BY DEF PlayoffOf
    <3>2. k[f] \in PlayoffOf(G, h) /\ m \in {k[f].home, k[f].away}
      BY <1>0, <1>1, <2>3, <3>1 DEF PlayoffOf
    <3>. QED  BY <3>2
  <2>4. ASSUME NEW m PROVE m \in SidesOf(PlayoffOf(G, h)) <=> m \in SidesOf(PlayoffOf(F, h))
    <3>1. m \in SidesOf(PlayoffOf(G, h))
            <=> m # NoMember /\ \E p \in PlayoffOf(G, h) : m = p.home \/ m = p.away
      BY SidesMember
    <3>2. m \in SidesOf(PlayoffOf(F, h))
            <=> m # NoMember /\ \E p \in PlayoffOf(F, h) : m = p.home \/ m = p.away
      BY SidesMember
    <3>. QED  BY <2>2, <2>3, <3>1, <3>2
  <2>. QED  BY <2>4
<1>. QED  BY <1>3, <1>4, <1>5, <1>6, <1>7

\* Settling the first unsettled gameweek.
LEMMA SettledSeason ==
  ASSUME NEW size, NEW F, IsFiniteSet(F), NEW S \in SUBSET Gameweeks, SeasonSoFar(size, F, S),
         NEW g \in Gameweeks, g \notin S, Earlier(g) \subseteq S,
         NEW k, \A f \in F : SettledRow(f, k[f], g), NEW G, G = {k[f] : f \in F}
  PROVE  SeasonSoFar(size, G, S)
<1>0. /\ \A f \in F : k[f] \in G
      /\ \A r \in G : \E f \in F : r = k[f]
  OBVIOUS
<1>1. ASSUME NEW f \in F
      PROVE  /\ k[f].kind = f.kind /\ k[f].gw = f.gw /\ k[f].home = f.home /\ k[f].away = f.away
             /\ f.gw # g => k[f] = f
  BY DEF SettledRow
<1>2. ASSUME NEW h, h # g
      PROVE  /\ WeekOf(G, h) = WeekOf(F, h) /\ PlayoffOf(G, h) = PlayoffOf(F, h)
             /\ PlayedIn(G, h) <=> PlayedIn(F, h)
  BY <1>2, SettledWeeks
<1>3. \A h : SidesOf(PlayoffOf(G, h)) = SidesOf(PlayoffOf(F, h))
  BY SettledWeeks
<1>4. ASSUME NEW e \in F, NEW f \in F, e.gw = f.gw, e # f
      PROVE  {e.home, e.away} \cap {f.home, f.away} = {}
  <2>1. e.gw \in Gameweeks /\ Apart(WeekOf(F, e.gw))
    BY DEF SeasonSoFar, Shape
  <2>2. e \in WeekOf(F, e.gw) /\ f \in WeekOf(F, e.gw)
    BY <1>4 DEF WeekOf
  <2>. QED  BY <1>4, <2>1, <2>2 DEF Apart
<1>5. Shape(size, G)
  <2>1. ASSUME NEW r \in G PROVE r.gw \in Gameweeks /\ r.home # r.away
    <3>1. PICK f \in F : r = k[f]
      BY <1>0
    <3>. QED  BY <1>1, <3>1 DEF SeasonSoFar, Shape
  <2>2. ASSUME NEW h \in Gameweeks PROVE Apart(WeekOf(G, h))
    <3>. SUFFICES ASSUME NEW r \in G, NEW q \in G, r.gw = h, q.gw = h, r # q
                  PROVE  {r.home, r.away} \cap {q.home, q.away} = {}
      BY DEF Apart, WeekOf
    <3>1. PICK e \in F : r = k[e]
      BY <1>0
    <3>2. PICK f \in F : q = k[f]
      BY <1>0
    <3>3. e # f
      BY <3>1, <3>2
    <3>4. e.gw = f.gw
      BY <1>1, <3>1, <3>2
    <3>5. {e.home, e.away} \cap {f.home, f.away} = {}
      BY <1>4, <3>3, <3>4
    <3>6. r.home = e.home /\ r.away = e.away /\ q.home = f.home /\ q.away = f.away
      BY <1>1, <3>1, <3>2
    <3>. QED  BY <3>5, <3>6
  <2>3. ASSUME NEW h \in Gameweeks, PlayoffOf(G, h) # {}
        PROVE  IsRound(size, h, Cardinality(PlayoffOf(G, h)))
    <3>. DEFINE A == PlayoffOf(F, h)
                B == PlayoffOf(G, h)
                b == [f \in A |-> k[f]]
    <3>1. A \subseteq F /\ \A f \in F : f \in A <=> f.gw = h /\ f.kind = "playoff"
      BY DEF PlayoffOf
    <3>2. B \subseteq G /\ \A r \in G : r \in B <=> r.gw = h /\ r.kind = "playoff"
      BY DEF PlayoffOf
    <3>. HIDE DEF A, B
    <3>3. \A f \in A : k[f] \in B
      BY <1>0, <1>1, <3>1, <3>2
    <3>4. \A r \in B : \E f \in A : r = k[f]
      BY <1>0, <1>1, <3>1, <3>2
    <3>5. ASSUME NEW e \in A, NEW f \in A, k[e] = k[f] PROVE e = f
      <4>1. e.home = f.home /\ e.gw = f.gw /\ e \in F /\ f \in F
        BY <1>1, <3>1, <3>5
      <4>. QED  BY <1>4, <4>1
    <3>6. b \in Bijection(A, B)
      <4>1. b \in [A -> B]
        BY <3>3
      <4>2. b \in Injection(A, B)
        BY <3>5, <4>1 DEF Injection, IsInjective
      <4>3. b \in Surjection(A, B)
        BY <3>4, <4>1 DEF Surjection
      <4>. QED  BY <4>2, <4>3 DEF Bijection
    <3>7. IsFiniteSet(A)
      BY <3>1, FS_Subset
    <3>8. Cardinality(B) = Cardinality(A)
      <4>1. ExistsBijection(A, B)
        BY <3>6 DEF ExistsBijection
      <4>. QED  BY <3>7, <4>1, FS_Bijection
    <3>9. A # {}
      BY <2>3, <3>4 DEF B
    <3>. QED  BY <3>8, <3>9 DEF A, B, SeasonSoFar, Shape
  <2>. QED  BY <2>1, <2>2, <2>3 DEF Shape
<1>6. ASSUME NEW r \in G, r.finished PROVE Earlier(r.gw) \subseteq S
  <2>1. PICK f \in F : r = k[f]
    BY <1>0
  <2>2. CASE f.gw = g
    BY <1>1, <2>1, <2>2
  <2>3. CASE f.gw # g
    <3>1. r = f
      BY <1>1, <2>1, <2>3
    <3>. QED  BY <1>6, <3>1 DEF SeasonSoFar
  <2>. QED  BY <2>2, <2>3
<1>7. ASSUME NEW h \in S
      PROVE  Earlier(h) \subseteq S /\ PlayedIn(G, h) /\ (h # EndGameweek => AdvancedIn(G, h))
  <2>1. Earlier(h) \subseteq S /\ PlayedIn(F, h) /\ (h # EndGameweek => AdvancedIn(F, h)) /\ h # g
    BY DEF SeasonSoFar
  <2>2. PlayedIn(G, h) /\ PlayoffOf(G, h) = PlayoffOf(F, h)
    BY <1>2, <2>1
  <2>3. SidesOf(PlayoffOf(G, h + 1)) = SidesOf(PlayoffOf(F, h + 1))
    BY <1>3
  <2>. QED  BY <2>1, <2>2, <2>3 DEF AdvancedIn
<1>. QED  BY <1>5, <1>6, <1>7 DEF SeasonSoFar

\* Replacing a gameweek in which nothing is played draws it anew.
LEMMA ReplaceRedraws ==
  ASSUME FixturesInv, NEW g, NEW new, NewMatches(new, g),
         \A p, q \in new : p # q => p.home # q.home,
         \A f \in Matches : f.gw = g => ~ f.finished,
         ReplaceFixtures(g, new)
  PROVE  Matches' = Redrawn(Matches, g, new)
<1>. DEFINE kept == {f \in fixtures : f.gw # g \/ f.finished \/ IsCup(f)}
            clash == \/ \E f \in kept, p \in new : f.gw = g /\ ~ IsCup(f) /\ f.home = p.home
                     \/ \E p, q \in new : p # q /\ p.home = q.home
<1>1. fixtures' = IF clash THEN fixtures ELSE kept \cup new
  BY Zenon DEF ReplaceFixtures
<1>2. \A f \in kept : f.gw = g => IsCup(f)
  BY DEF Matches
<1>3. ~ clash
  BY <1>2
<1>4. \A p \in new : ~ IsCup(p)
  BY DEF NewMatches, IsMatch, IsCup
<1>5. \A f \in fixtures : ~ IsCup(f) => (f \in kept <=> f.gw # g)
  BY <1>2
<1>6. fixtures' = kept \cup new
  BY <1>1, <1>3
<1>7. kept \subseteq fixtures
  OBVIOUS
<1>8. Matches' = {f \in fixtures' : ~ IsCup(f)}
  BY DEF Matches
<1>. HIDE DEF kept, clash
<1>. QED  BY <1>4, <1>5, <1>6, <1>7, <1>8 DEF Matches, Redrawn

\* A playoff round for gameweek g as it is drawn.
IsDraw(new, g) ==
    /\ Apart(new) /\ IsRound(Bracket, g, Cardinality(new))
    /\ \A p \in new : /\ p.kind = "playoff" /\ p.gw = g /\ p.home # p.away
                      /\ p.finished = FALSE

\* The bracket's first round.
LEMMA SeedDraws ==
  ASSUME LeagueInv, FixturesInv, NEW c \in Gameweeks, PlayoffAction(c) = "generate",
         \A f \in Matches : f.gw = c + 1 => ~ f.finished, GeneratePlayoffBracket(c + 1)
  PROVE  /\ c + 1 \in Gameweeks
         /\ \E new : IsDraw(new, c + 1) /\ Matches' = Redrawn(Matches, c + 1, new)
<1>0. PICK n \in Nat : n = Len(roster) /\ n = Cardinality(Active)
  BY ActiveFinite DEF LeagueInv
<1>1. IsFiniteSet(Active) /\ NoMember \notin Active
  BY ActiveFinite DEF LeagueInv
<1>2. PICK size : size = ComputeBracketSize(n) /\ size = Bracket
  BY <1>0 DEF Bracket
<1>3. size # 0 /\ c = PlayoffStart(size) - 1
  BY <1>0, <1>2 DEF PlayoffAction, PlayoffStart
<1>4. /\ size \in 1..n
      /\ \/ size = 2 /\ BracketRounds(size) = 1
         \/ size = 4 /\ BracketRounds(size) = 2
         \/ size = 8 /\ BracketRounds(size) = 3
  BY <1>2, <1>3, BracketSizes
<1>5. PICK h \in Nat : size = 2 * h /\ h = RoundSize(BracketRounds(size) - 1)
  <2>1. CASE size = 2 /\ BracketRounds(size) = 1
    <3>1. size = 2 * 1 /\ 1 = RoundSize(BracketRounds(size) - 1)
      BY <2>1 DEF RoundSize
    <3>. QED  BY <3>1
  <2>2. CASE size = 4 /\ BracketRounds(size) = 2
    <3>1. size = 2 * 2 /\ 2 = RoundSize(BracketRounds(size) - 1)
      BY <2>2 DEF RoundSize
    <3>. QED  BY <3>1
  <2>3. CASE size = 8 /\ BracketRounds(size) = 3
    <3>1. size = 2 * 4 /\ 4 = RoundSize(BracketRounds(size) - 1)
      BY <2>3 DEF RoundSize
    <3>. QED  BY <3>1
  <2>. QED  BY <1>4, <2>1, <2>2, <2>3
<1>6. PICK g : g = c + 1
  OBVIOUS
<1>7. g \in Gameweeks /\ IsRound(size, g, h)
  <2>0. EndGameweek \in Nat /\ c \in 1..EndGameweek
    BY SettlementAssumption DEF Gameweeks
  <2>1. PICK b \in 1..3 : b = BracketRounds(size)
    BY <1>4
  <2>2. g = EndGameweek - b + 1 /\ g = PlayoffStart(size)
    BY <1>3, <1>6, <2>0, <2>1 DEF PlayoffStart
  <2>3. EndGameweek - g = b - 1
    BY <2>0, <2>1, <2>2
  <2>4. g \in Gameweeks
    BY <1>6, <2>0, <2>1, <2>2 DEF Gameweeks
  <2>5. g >= PlayoffStart(size)
    BY <2>0, <2>1, <2>2
  <2>6. EndGameweek - g \in 0..2
    BY <2>1, <2>3
  <2>7. h = RoundSize(EndGameweek - g)
    BY <1>5, <2>1, <2>3
  <2>. QED  BY <1>3, <2>4, <2>5, <2>6, <2>7 DEF IsRound
<1>8. PICK s \in H2HStandings(table) :
          ReplaceFixtures(g, SeedPlayoffPairings(SubSeq(s, 1, size), g, 1))
  BY <1>0, <1>2, <1>6, Zenon DEF GeneratePlayoffBracket
<1>9. PICK ids : ids = SubSeq(s, 1, size)
  OBVIOUS
<1>10. ids \in Injection(1..(2 * h), Active) /\ ids \in Seq(Active)
  <2>1. s \in SetToSeqs(Active)
    BY DEF H2HStandings
  <2>2. s \in Injection(1..n, Active)
    BY <1>0, <1>1, <2>1, Enumeration
  <2>3. s \in [1..n -> Active] /\ \A i, j \in 1..n : s[i] = s[j] => i = j
    BY <2>2 DEF Injection, IsInjective
  <2>4. s \in Seq(Active) /\ Len(s) = n
    BY <2>3, RankSequence
  <2>5. ids \in Seq(Active) /\ Len(ids) = size /\ \A i \in 1..size : ids[i] = s[i]
    BY <1>4, <1>9, <2>4
  <2>6. 1..size \subseteq 1..n /\ size \in Nat
    BY <1>4
  <2>7. ids \in [1..size -> Active]
    BY <2>5, <2>6
  <2>8. \A i, j \in 1..size : ids[i] = ids[j] => i = j
    BY <2>3, <2>5, <2>6
  <2>9. ids \in Injection(1..size, Active)
    BY <2>7, <2>8 DEF Injection, IsInjective
  <2>. QED  BY <1>5, <2>5, <2>9
<1>11. PICK new : new = SeedPlayoffPairings(ids, g, 1)
  OBVIOUS
<1>12. NewMatches(new, g)
  BY <1>10, <1>11, PairingsAreMatches
<1>13. IsPairing(new, ids, g, h)
  BY <1>1, <1>10, <1>11, PairingsShape
<1>14. /\ Apart(new) /\ \A p, q \in new : p # q => p.home # q.home
       /\ Cardinality(new) = h
  BY <1>13 DEF IsPairing
<1>15. \A p \in new : p.kind = "playoff" /\ p.gw = g /\ p.home # p.away
  BY <1>13 DEF IsPairing
<1>16. Matches' = Redrawn(Matches, g, new)
  <2>1. ReplaceFixtures(g, new)
    BY <1>8, <1>9, <1>11
  <2>2. \A f \in Matches : f.gw = g => ~ f.finished
    BY <1>6
  <2>. QED  BY <1>12, <1>14, <2>1, <2>2, ReplaceRedraws
<1>17. IsDraw(new, g)
  BY <1>2, <1>7, <1>12, <1>14, <1>15 DEF IsDraw, NewMatches
<1>. QED  BY <1>6, <1>7, <1>16, <1>17

\* resolvePlayoffWinner takes a side, and the one with more points.
LEMMA WinnerScoredMore ==
  ASSUME NEW f, IsMatch(f), f.home # f.away, NEW w, w = ResolvePlayoffWinner(f)
  PROVE  /\ w \in {f.home, f.away}
         /\ f.homeScore # f.awayScore => SideOf(f, w)[1] > SideOf(f, w)[2]
<1>1. w \in {f.home, f.away}
  BY Zenon DEF ResolvePlayoffWinner
<1>2. ASSUME f.homeScore # f.awayScore
      PROVE  w = IF f.homeScore > f.awayScore THEN f.home ELSE f.away
  BY <1>2, Zenon DEF ResolvePlayoffWinner
<1>3. ASSUME f.homeScore # f.awayScore PROVE SideOf(f, w)[1] > SideOf(f, w)[2]
  <2>1. f.homeScore \in Int /\ f.awayScore \in Int
    BY DEF IsMatch
  <2>. QED  BY <1>2, <1>3, <2>1 DEF SideOf
<1>. QED  BY <1>1, <1>3

\* advancePlayoffRound does nothing without a playoff round and after the final.
LEMMA AdvanceStops ==
  ASSUME NEW g, AdvancePlayoffRound(g), NEW n \in {0, 1}, Cardinality(PlayoffOf(Matches, g)) = n
  PROVE  fixtures' = fixtures
<1>. DEFINE round == {f \in fixtures : f.gw = g /\ f.kind = "playoff"}
<1>1. round = PlayoffOf(Matches, g)
  BY DEF PlayoffOf, Matches, IsCup
<1>2. ~ (Cardinality(round) > 1)
  <2>1. Cardinality(round) = n
    BY <1>1
  <2>. HIDE DEF round
  <2>. QED  BY <2>1
<1>. QED  BY <1>2, Zenon DEF AdvancePlayoffRound

\* The winners of a round of several matches are drawn against one another.
LEMMA AdvanceDraws ==
  ASSUME LeagueInv, FixturesInv, Shape(Bracket, Matches), NEW c \in Gameweeks,
         c # EndGameweek, PlayoffOf(Matches, c) # {}, PlayedIn(Matches, c),
         \A f \in Matches : f.gw = c + 1 => ~ f.finished, AdvancePlayoffRound(c)
  PROVE  /\ c + 1 \in Gameweeks
         /\ \E new : /\ IsDraw(new, c + 1) /\ Matches' = Redrawn(Matches, c + 1, new)
                     /\ AdvancedIn(Redrawn(Matches, c + 1, new), c)
<1>. DEFINE Won(slots) == [i \in DOMAIN slots |-> ResolvePlayoffWinner(slots[i])]
<1>0. PICK round : round = PlayoffOf(Matches, c)
  OBVIOUS
<1>1. round = {f \in fixtures : f.gw = c /\ f.kind = "playoff"}
  BY <1>0 DEF PlayoffOf, Matches, IsCup
<1>2. \A f \in round : f \in Matches /\ IsMatch(f) /\ f.kind = "playoff" /\ f.gw = c /\ f.home # f.away
                       /\ f.finished
  BY <1>0 DEF PlayoffOf, FixturesInv, Shape, PlayedIn
<1>3. IsFiniteSet(round)
  <2>1. round \subseteq Matches
    BY <1>2
  <2>. QED  BY <2>1, FS_Subset DEF FixturesInv
<1>4. PICK n \in Nat : n = Cardinality(round)
  BY <1>3, FS_CardinalityType
<1>5. IsRound(Bracket, c, n)
  BY <1>0, <1>4 DEF Shape
<1>6. PICK g : g = c + 1
  OBVIOUS
<1>7. PICK h \in Nat : n = 2 * h /\ n > 1 /\ IsRound(Bracket, g, h) /\ g \in Gameweeks
  <2>0. EndGameweek \in Nat /\ c \in 1..EndGameweek
    BY SettlementAssumption DEF Gameweeks
  <2>1. g \in Gameweeks
    BY <1>6, <2>0 DEF Gameweeks
  <2>2. PICK k \in {1, 2} : EndGameweek - c = k /\ n = RoundSize(k)
    BY <1>5, <2>0 DEF IsRound
  <2>3. EndGameweek - g = k - 1
    BY <1>6, <2>0, <2>2
  <2>4. PICK z : z = PlayoffStart(Bracket)
    OBVIOUS
  <2>5. z \in Int
    <3>1. PICK m \in Nat : m = Len(roster)
      BY ActiveFinite DEF LeagueInv
    <3>2. BracketRounds(Bracket) \in 1..3
      BY <1>5, <3>1, BracketSizes DEF IsRound, Bracket
    <3>. QED  BY <2>0, <2>4, <3>2 DEF PlayoffStart
  <2>6. Bracket # 0 /\ c >= z
    BY <1>5, <2>4 DEF IsRound
  <2>7. g >= z
    BY <1>6, <2>0, <2>5, <2>6
  <2>8. CASE k = 1
    <3>1. n = 2 * 1 /\ n > 1 /\ 1 = RoundSize(EndGameweek - g) /\ EndGameweek - g \in 0..2
      BY <2>2, <2>3, <2>8 DEF RoundSize
    <3>. QED  BY <2>1, <2>4, <2>6, <2>7, <3>1 DEF IsRound
  <2>9. CASE k = 2
    <3>1. n = 2 * 2 /\ n > 1 /\ 2 = RoundSize(EndGameweek - g) /\ EndGameweek - g \in 0..2
      BY <2>2, <2>3, <2>9 DEF RoundSize
    <3>. QED  BY <2>1, <2>4, <2>6, <2>7, <3>1 DEF IsRound
  <2>. QED  BY <2>8, <2>9
<1>8. PICK slots \in BySlot(round) :
          ReplaceFixtures(g, SeedPlayoffPairings(Won(slots), g, slots[1].round + 1))
  <2>1. Cardinality(round) > 1 /\ \A f \in round : f.finished
    BY <1>2, <1>4, <1>7
  <2>. QED  BY <1>1, <1>6, <2>1, Zenon DEF AdvancePlayoffRound
<1>9. slots \in Injection(1..n, round)
  <2>1. slots \in SetToSeqs(round)
    BY DEF BySlot, Sorted
  <2>. QED  BY <1>3, <1>4, <2>1, Enumeration
<1>10. \A f \in round : \E i \in 1..n : slots[i] = f
  <2>1. slots \in SetToSeqs(round)
    BY DEF BySlot, Sorted
  <2>. QED  BY <1>3, <1>4, <2>1, Enumeration
<1>11. PICK won : won = Won(slots)
  OBVIOUS
<1>12. /\ slots \in [1..n -> round] /\ DOMAIN slots = 1..n
       /\ \A i, j \in 1..n : slots[i] = slots[j] => i = j
  BY <1>9 DEF Injection, IsInjective
<1>13. won = [i \in 1..n |-> ResolvePlayoffWinner(slots[i])]
  BY <1>11, <1>12
<1>14. ASSUME NEW f \in round
       PROVE  /\ ResolvePlayoffWinner(f) \in {f.home, f.away} /\ ResolvePlayoffWinner(f) \in Active
              /\ f.homeScore # f.awayScore =>
                    SideOf(f, ResolvePlayoffWinner(f))[1] > SideOf(f, ResolvePlayoffWinner(f))[2]
  BY <1>2, WinnerScoredMore, PlayoffWinnerActive
<1>15. won \in Injection(1..n, Active)
  <2>1. won \in [1..n -> Active]
    BY <1>12, <1>13, <1>14
  <2>2. ASSUME NEW i \in 1..n, NEW j \in 1..n, won[i] = won[j] PROVE i = j
    <3>1. slots[i] \in round /\ slots[j] \in round
      BY <1>12
    <3>2. PICK e : e = slots[i] /\ e \in round
      BY <3>1
    <3>3. PICK f : f = slots[j] /\ f \in round
      BY <3>1
    <3>4. won[i] \in {e.home, e.away} /\ won[i] \in {f.home, f.away}
      BY <1>13, <1>14, <2>2, <3>2, <3>3
    <3>5. e \in WeekOf(Matches, c) /\ f \in WeekOf(Matches, c)
      BY <1>2, <3>2, <3>3 DEF WeekOf
    <3>6. e = f
      BY <3>4, <3>5 DEF Shape, Apart
    <3>. QED  BY <1>12, <3>2, <3>3, <3>6
  <2>. QED  BY <2>1, <2>2 DEF Injection, IsInjective
<1>16. won \in Seq(Active)
  BY <1>15, RankSequence DEF Injection
<1>17. PICK new : new = SeedPlayoffPairings(won, g, slots[1].round + 1)
  OBVIOUS
<1>18. NewMatches(new, g)
  BY <1>16, <1>17, PairingsAreMatches
<1>19. won \in Injection(1..(2 * h), Active) /\ NoMember \notin Active
  <2>1. NoMember \notin Active
    BY ActiveFinite DEF LeagueInv
  <2>. QED  BY <1>7, <1>15, <2>1
<1>20. IsPairing(new, won, g, h)
  BY <1>17, <1>19, PairingsShape
<1>21. /\ Apart(new) /\ \A p, q \in new : p # q => p.home # q.home
       /\ Cardinality(new) = h
  BY <1>20 DEF IsPairing
<1>22. \A p \in new : p.kind = "playoff" /\ p.gw = g /\ p.home # p.away
  BY <1>20 DEF IsPairing
<1>23. SidesOf(new) = ToSet(won)
  BY <1>20 DEF IsPairing
<1>24. Matches' = Redrawn(Matches, g, new)
  <2>1. ReplaceFixtures(g, new)
    BY <1>8, <1>11, <1>17
  <2>2. \A f \in Matches : f.gw = g => ~ f.finished
    BY <1>6
  <2>. QED  BY <1>18, <1>21, <2>1, <2>2, ReplaceRedraws
<1>25. IsDraw(new, g)
  BY <1>7, <1>18, <1>21, <1>22 DEF IsDraw, NewMatches
<1>26. PICK G : G = Redrawn(Matches, g, new)
  OBVIOUS
<1>27. PlayoffOf(G, c) = round /\ PlayoffOf(G, c + 1) = new
  <2>1. c # g
    BY <1>6, SettlementAssumption DEF Gameweeks
  <2>2. PlayoffOf(G, c) = PlayoffOf(Matches, c)
    BY <1>22, <1>26, <2>1, RedrawnWeeks
  <2>3. PlayoffOf(G, g) = new
    BY <1>22, <1>26, RedrawnWeeks
  <2>. QED  BY <1>0, <1>6, <2>2, <2>3
<1>28. AdvancedIn(G, c)
  <2>1. Cardinality(SidesOf(new)) = Cardinality(round)
    BY <1>4, <1>15, <1>23, DistinctMembers
  <2>2. ASSUME NEW f \in round
        PROVE  \E w \in {f.home, f.away} \cap SidesOf(new) :
                 f.homeScore # f.awayScore => SideOf(f, w)[1] > SideOf(f, w)[2]
    <3>1. PICK i \in 1..n : slots[i] = f
      BY <1>10
    <3>2. PICK w : w = ResolvePlayoffWinner(f)
      OBVIOUS
    <3>3. w = won[i] /\ won[i] \in ToSet(won)
      <4>1. DOMAIN won = 1..n
        BY <1>13
      <4>. QED  BY <1>13, <3>1, <3>2, <4>1 DEF ToSet
    <3>4. w \in {f.home, f.away} \cap SidesOf(new)
      BY <1>14, <1>23, <3>2, <3>3
    <3>5. f.homeScore # f.awayScore => SideOf(f, w)[1] > SideOf(f, w)[2]
      BY <1>14, <3>2
    <3>. QED  BY <3>4, <3>5
  <2>. QED  BY <1>27, <2>1, <2>2 DEF AdvancedIn
<1>. QED  BY <1>6, <1>7, <1>24, <1>25, <1>26, <1>28

-----------------------------------------------------------------------------
(* The steps keep the season in order.                                     *)

\* The job's gameweek is the first of those that are left.
LEMMA CurrentLeft ==
  ASSUME SeasonInv, job.pc # "idle"
  PROVE  /\ Current \in Gameweeks /\ Current \notin settledAt /\ Current \notin Kept
         /\ settledAt \in SUBSET Gameweeks /\ Kept \in SUBSET Gameweeks
<1>1. job.todo \in Seq(Ready) /\ job.todo # <<>>
  BY DEF SeasonInv, SettlementInv, JobInv
<1>2. Current \in Gameweeks
  BY CurrentReady DEF SeasonInv, SettlementInv
<1>3. Current \in ToSet(job.todo)
  BY <1>1 DEF Current, ToSet
<1>4. settledAt \in SUBSET Gameweeks
  BY DEF SeasonInv, SettlementInv, JobInv, Ready
<1>5. Current \notin settledAt
  BY <1>3 DEF SeasonInv, TodoInv
<1>. QED  BY <1>2, <1>4, <1>5 DEF Kept

\* The part of SeasonInv that these lemmas are about.
OrderInv == TodoInv /\ (inOrder => InOrderInv)

\* Nothing but the job's step changes.
LEMMA OrderKept ==
  ASSUME SeasonInv, roster' = roster, Matches' = Matches, settledAt' = settledAt,
         seasonStatus' = seasonStatus, inOrder' = inOrder, paidOut' = paidOut, skipped' = skipped,
         job'.todo = job.todo, job'.listed = job.listed,
         job'.pc = "idle" \/ job.pc # "idle",
         job'.pc \notin {"idle", "list"} => job.pc \notin {"idle", "list"},
         job'.pc \in Looping => job.pc \in Looping,
         job'.pc \in Settling => job.pc \in Settling,
         job'.pc \in Advanced => job.pc \in Advanced,
         job'.pc = "finish" => job.pc = "finish"
  PROVE  OrderInv'
<1>1. TodoInv'
  BY DEF TodoInv, SeasonInv
<1>2. Bracket' = Bracket /\ Current' = Current /\ Kept' = Kept
  BY DEF Bracket, Current, Kept
<1>3. ASSUME inOrder' PROVE InOrderInv'
  <2>1. InOrderInv
    BY <1>3 DEF SeasonInv
  <2>2. WorkInv(Matches, Kept, job'.pc, Current, job.listed, paidOut, seasonStatus)
    BY <2>1 DEF InOrderInv, WorkInv
  <2>. QED  BY <1>2, <2>1, <2>2 DEF InOrderInv
<1>. QED  BY <1>1, <1>3 DEF OrderInv

\* The job ends.
LEMMA OrderWhenIdle ==
  ASSUME SeasonInv, roster' = roster, Matches' = Matches, settledAt' = settledAt,
         inOrder' = inOrder, paidOut' = paidOut, skipped' = skipped, job' = IdleJob,
         inOrder => StatusInv(Matches, Kept, seasonStatus', paidOut)
  PROVE  OrderInv'
<1>1. job'.pc = "idle"
  BY DEF IdleJob
<1>2. TodoInv'
  BY <1>1 DEF TodoInv
<1>3. Bracket' = Bracket /\ Kept' = Kept
  BY DEF Bracket, Kept
<1>4. ASSUME inOrder' PROVE InOrderInv'
  <2>1. InOrderInv /\ StatusInv(Matches, Kept, seasonStatus', paidOut)
    BY <1>4 DEF SeasonInv
  <2>2. WorkInv(Matches', Kept', job'.pc, Current', job'.listed, paidOut', seasonStatus')
    BY <1>1 DEF WorkInv, Looping, Settling, Advanced
  <2>. QED  BY <1>3, <2>1, <2>2 DEF InOrderInv
<1>. QED  BY <1>2, <1>4 DEF OrderInv

\* At first nothing is played and nothing settled.
LEMMA InitOrder ==
  ASSUME SettlementInit
  PROVE  OrderInv /\ PayoutInv
<1>1. PICK l \in SeasonLeagues : roster = l.members
  BY DEF SettlementInit
<1>2. /\ fixtures = GenerateRoundRobinSchedule(roster) /\ settledAt = {} /\ job = IdleJob
      /\ seasonStatus = "ACTIVE" /\ paidOut = FALSE /\ skipped = {} /\ Kept = {}
  BY DEF SettlementInit, Kept
<1>3. job.pc = "idle"
  BY <1>2 DEF IdleJob
<1>4. \A f \in fixtures : f.gw \in Gameweeks /\ f.kind = "league" /\ f.home # f.away
  BY <1>1, <1>2, ScheduleApart
<1>5. \A g \in Gameweeks : Apart(WeekOf(fixtures, g))
  BY <1>1, <1>2, ScheduleApart
<1>6. \A f \in fixtures : f.finished = FALSE
  BY <1>1, <1>2, ScheduleMatches
<1>7. Matches = fixtures
  BY <1>4 DEF Matches, IsCup
<1>8. \A g : PlayoffOf(Matches, g) = {}
  BY <1>4, <1>7 DEF PlayoffOf
<1>9. Shape(Bracket, Matches)
  BY <1>4, <1>5, <1>7, <1>8 DEF Shape
<1>10. SeasonSoFar(Bracket, Matches, Kept)
  BY <1>2, <1>6, <1>7, <1>9 DEF SeasonSoFar
<1>11. StatusInv(Matches, Kept, seasonStatus, paidOut)
  BY <1>2 DEF StatusInv
<1>12. WorkInv(Matches, Kept, job.pc, Current, job.listed, paidOut, seasonStatus)
  BY <1>3 DEF WorkInv, Looping, Settling, Advanced
<1>13. PayoutInv
  BY <1>2 DEF PayoutInv
<1>. QED  BY <1>3, <1>10, <1>11, <1>12, <1>13 DEF OrderInv, TodoInv, InOrderInv

\* FPL's points arrive.
LEMMA FinishesOrder ==
  ASSUME SeasonInv, NEW g, GameweekFinishes(g)
  PROVE  OrderInv'
<1>1. /\ roster' = roster /\ UNCHANGED leagueTable /\ settledAt' = settledAt
      /\ seasonStatus' = seasonStatus /\ inOrder' = inOrder /\ job' = job
      /\ paidOut' = paidOut /\ skipped' = skipped
  BY DEF GameweekFinishes
<1>2. Matches' = Matches
  BY <1>1 DEF Matches, leagueTable
<1>3. job'.pc = job.pc /\ job'.todo = job.todo /\ job'.listed = job.listed
  BY <1>1
<1>. QED  BY <1>1, <1>2, <1>3, OrderKept

\* A cup starts.
LEMMA CreateCupOrder ==
  ASSUME SeasonInv, NEW g, CreateKnockoutCup(g)
  PROVE  OrderInv'
<1>1. /\ roster' = roster /\ settledAt' = settledAt
      /\ seasonStatus' = seasonStatus /\ inOrder' = inOrder /\ job' = job
      /\ paidOut' = paidOut /\ skipped' = skipped
  BY Zenon DEF CreateKnockoutCup
<1>2. Matches' = Matches
  BY CreateCupInv DEF SeasonInv
<1>3. job'.pc = job.pc /\ job'.todo = job.todo /\ job'.listed = job.listed
  BY <1>1
<1>. QED  BY <1>1, <1>2, <1>3, OrderKept

\* The job takes up every finished, unsettled gameweek.
LEMMA StartsOrder ==
  ASSUME SeasonInv, JobStarts
  PROVE  OrderInv'
<1>. DEFINE S == Ready \ settledAt
<1>1. /\ roster' = roster /\ UNCHANGED leagueTable /\ settledAt' = settledAt
      /\ seasonStatus' = seasonStatus /\ inOrder' = inOrder
      /\ paidOut' = paidOut /\ skipped' = skipped
  BY DEF JobStarts
<1>2. Matches' = Matches /\ Bracket' = Bracket /\ Kept' = Kept
  BY <1>1 DEF Matches, leagueTable, Bracket, Kept
<1>3. PICK ids \in SetToSeqs(S) : job' = [IdleJob EXCEPT !.pc = "list", !.todo = ids]
  BY Zenon DEF JobStarts, Sorted
<1>4. job'.pc = "list" /\ job'.todo = ids
  BY <1>3 DEF IdleJob
<1>5. IsInjective(ids) /\ ToSet(ids) \cap settledAt = {}
  <2>1. PICK D : ids \in [D -> S] /\ \A i, j \in D : i # j => ids[i] # ids[j]
    BY <1>3 DEF SetToSeqs
  <2>2. DOMAIN ids = D /\ \A i \in D : ids[i] \notin settledAt
    BY <2>1
  <2>. QED  BY <2>1, <2>2 DEF IsInjective, ToSet
<1>6. TodoInv'
  BY <1>1, <1>4, <1>5 DEF TodoInv
<1>7. ASSUME inOrder' PROVE InOrderInv'
  <2>1. InOrderInv
    BY <1>1, <1>7 DEF SeasonInv
  <2>2. WorkInv(Matches', Kept', job'.pc, Current', job'.listed, paidOut', seasonStatus')
    BY <1>4 DEF WorkInv, Looping, Settling, Advanced
  <2>. QED  BY <1>1, <1>2, <2>1, <2>2 DEF InOrderInv
<1>. QED  BY <1>6, <1>7 DEF OrderInv

\* It takes up a gameweek: in order, or the history variable says so.
LEMMA ListLeaguesOrder ==
  ASSUME SeasonInv, ListLeagues
  PROVE  OrderInv'
<1>1. /\ roster' = roster /\ UNCHANGED leagueTable /\ settledAt' = settledAt
      /\ seasonStatus' = seasonStatus /\ job.pc = "list"
      /\ job' = [job EXCEPT !.pc = "score", !.listed = seasonStatus = "ACTIVE"]
      /\ inOrder' = (inOrder /\ \A g \in 1 .. Current - 1 : g \in settledAt)
      /\ paidOut' = paidOut /\ skipped' = skipped
  BY DEF ListLeagues, At
<1>2. Matches' = Matches /\ Bracket' = Bracket /\ Kept' = Kept
  BY <1>1 DEF Matches, leagueTable, Bracket, Kept
<1>3. job'.pc = "score" /\ job'.todo = job.todo /\ job'.listed = (seasonStatus = "ACTIVE")
  BY <1>1 DEF SeasonInv, SettlementInv, JobInv
<1>4. Current' = Current
  BY <1>3 DEF Current
<1>5. TodoInv'
  BY <1>1, <1>3 DEF SeasonInv, TodoInv
<1>6. PICK c \in Gameweeks : c = Current /\ c \notin Kept
  BY <1>1, CurrentLeft
<1>7. ASSUME inOrder' PROVE InOrderInv'
  <2>1. InOrderInv /\ Earlier(c) \subseteq settledAt
    BY <1>1, <1>6, <1>7 DEF SeasonInv, Earlier
  <2>2. StatusInv(Matches, Kept, seasonStatus, paidOut)
    BY <2>1 DEF InOrderInv
  <2>3. ASSUME seasonStatus = "ACTIVE" \/ ~ paidOut
        PROVE  Earlier(c) \subseteq Kept /\ (c # EndGameweek => seasonStatus = "ACTIVE")
    <3>1. ~ paidOut
      BY <2>2, <2>3 DEF StatusInv
    <3>2. Kept = settledAt
      BY <3>1 DEF SeasonInv, PayoutInv, Kept
    <3>3. ASSUME c # EndGameweek PROVE seasonStatus = "ACTIVE"
      <4>1. seasonStatus = "ACTIVE" \/ seasonStatus = "COMPLETED"
        BY <2>2 DEF StatusInv
      <4>2. CASE seasonStatus = "COMPLETED"
        <5>1. Earlier(EndGameweek) \subseteq Kept
          BY <2>2, <3>1, <4>2 DEF StatusInv
        <5>2. c \in Earlier(EndGameweek)
          BY <3>3, SettlementAssumption DEF Gameweeks, Earlier
        <5>. QED  BY <1>6, <5>1, <5>2
      <4>. QED  BY <4>1, <4>2
    <3>. QED  BY <2>1, <3>2, <3>3
  <2>4. WorkInv(Matches, Kept, "score", c, seasonStatus = "ACTIVE", paidOut, seasonStatus)
    BY <2>3 DEF WorkInv, Looping, Settling, Advanced
  <2>. QED  BY <1>1, <1>2, <1>3, <1>4, <1>6, <2>1, <2>4 DEF InOrderInv
<1>. QED  BY <1>5, <1>7 DEF OrderInv

\* Squads are scored.
LEMMA ScoreSquadsOrder ==
  ASSUME SeasonInv, ScoreSquads \/ ScoreSquadsFails
  PROVE  OrderInv'
<1>1. /\ roster' = roster /\ UNCHANGED leagueTable /\ settledAt' = settledAt
      /\ seasonStatus' = seasonStatus /\ inOrder' = inOrder /\ job.pc = "score"
      /\ paidOut' = paidOut /\ skipped' = skipped
      /\ \/ job' = [job EXCEPT !.pc = "settleLeagues"]
         \/ job' = [job EXCEPT !.pc = "settleLeagues", !.failed = TRUE]
  BY DEF ScoreSquads, ScoreSquadsFails, At, GoTo
<1>2. Matches' = Matches
  BY <1>1 DEF Matches, leagueTable
<1>3. job'.pc = "settleLeagues" /\ job'.todo = job.todo /\ job'.listed = job.listed
  BY <1>1 DEF SeasonInv, SettlementInv, JobInv
<1>. QED  BY <1>1, <1>2, <1>3, OrderKept DEF Looping, Settling, Advanced

\* The step of the job with the gameweek c: its matches change, the season
\* goes on, and the work of the step is done.
LEMMA OrderMoves ==
  ASSUME SeasonInv, roster' = roster, settledAt' = settledAt, seasonStatus' = seasonStatus,
         inOrder' = inOrder, paidOut' = paidOut, skipped' = skipped,
         job.pc \notin {"idle", "list"}, NEW pc, job' = [job EXCEPT !.pc = pc],
         inOrder => /\ SeasonSoFar(Bracket, Matches', Kept)
                    /\ StatusInv(Matches', Kept, seasonStatus, paidOut)
                    /\ WorkInv(Matches', Kept, pc, Current, job.listed, paidOut, seasonStatus)
  PROVE  OrderInv'
<1>1. job'.pc = pc /\ job'.todo = job.todo /\ job'.listed = job.listed
  BY DEF SeasonInv, SettlementInv, JobInv
<1>2. TodoInv'
  BY <1>1 DEF SeasonInv, TodoInv
<1>3. Bracket' = Bracket /\ Current' = Current /\ Kept' = Kept
  BY <1>1 DEF Bracket, Current, Kept
<1>4. ASSUME inOrder' PROVE InOrderInv'
  BY <1>1, <1>3, <1>4 DEF InOrderInv
<1>. QED  BY <1>2, <1>4 DEF OrderInv

\* settleH2HGameweek for the job's gameweek.
LEMMA SettleKeepsSeason ==
  ASSUME SettlementInv, NEW S \in SUBSET Gameweeks, SeasonSoFar(Bracket, Matches, S),
         StatusInv(Matches, S, seasonStatus, paidOut),
         NEW c \in Gameweeks, c \notin S, Earlier(c) \subseteq S, NEW u, SettleH2HGameweek(c, u)
  PROVE  /\ SeasonSoFar(Bracket, Matches', S) /\ StatusInv(Matches', S, seasonStatus, paidOut)
         /\ PlayedIn(Matches', c)
<1>1. PICK k : Matches' = {k[f] : f \in Matches} /\ \A f \in Matches : SettledRow(f, k[f], c)
  BY SettleRewrites DEF SettlementInv
<1>2. PICK F : F = Matches
  OBVIOUS
<1>3. PICK G : G = {k[f] : f \in F}
  OBVIOUS
<1>4. \A f \in F : SettledRow(f, k[f], c)
  BY <1>1, <1>2
<1>5. IsFiniteSet(F) /\ SeasonSoFar(Bracket, F, S)
  BY <1>2 DEF SettlementInv, FixturesInv
<1>6. SeasonSoFar(Bracket, G, S)
  BY <1>3, <1>4, <1>5, SettledSeason
<1>7. PlayedIn(G, c) /\ (EndGameweek # c => (PlayedIn(G, EndGameweek) <=> PlayedIn(F, EndGameweek)))
  BY <1>3, <1>4, SettledWeeks, SMTT(30)
<1>8. StatusInv(G, S, seasonStatus, paidOut)
  BY <1>2, <1>7 DEF StatusInv
<1>. QED  BY <1>1, <1>2, <1>3, <1>6, <1>7, <1>8

\* The subscriber plays the gameweek's matches.
LEMMA HandlerSettlesOrder ==
  ASSUME SeasonInv, HandlerSettles
  PROVE  OrderInv'
<1>1. /\ roster' = roster /\ settledAt' = settledAt /\ seasonStatus' = seasonStatus
      /\ inOrder' = inOrder /\ job.pc = "settleLeagues"
      /\ paidOut' = paidOut /\ skipped' = skipped
      /\ IF seasonStatus = "ACTIVE"
         THEN SettleH2HGameweek(Current, FALSE) /\ job' = [job EXCEPT !.pc = "completeLeagues"]
         ELSE UNCHANGED leagueTable /\ job' = AfterHandlers
  BY DEF HandlerSettles, At, GoTo
<1>2. PICK c \in Gameweeks : c = Current /\ c \notin Kept /\ Kept \in SUBSET Gameweeks
  BY <1>1, CurrentLeft
<1>3. ASSUME inOrder
      PROVE  /\ SeasonSoFar(Bracket, Matches, Kept)
             /\ StatusInv(Matches, Kept, seasonStatus, paidOut)
             /\ job.listed \/ ~ paidOut =>
                  Earlier(c) \subseteq Kept /\ (c # EndGameweek => job.listed)
  <2>1. InOrderInv
    BY <1>3 DEF SeasonInv
  <2>2. WorkInv(Matches, Kept, "settleLeagues", c, job.listed, paidOut, seasonStatus)
    BY <1>1, <1>2, <2>1 DEF InOrderInv
  <2>. QED  BY <2>1, <2>2 DEF InOrderInv, WorkInv
<1>4. CASE seasonStatus = "ACTIVE"
  <2>1. SettleH2HGameweek(c, FALSE) /\ job' = [job EXCEPT !.pc = "completeLeagues"]
    BY <1>1, <1>2, <1>4
  <2>2. ASSUME inOrder
        PROVE  /\ SeasonSoFar(Bracket, Matches', Kept)
               /\ StatusInv(Matches', Kept, seasonStatus, paidOut)
               /\ WorkInv(Matches', Kept, "completeLeagues", Current, job.listed, paidOut,
                          seasonStatus)
    <3>1. Earlier(c) \subseteq Kept /\ (c # EndGameweek => job.listed)
      BY <1>3, <1>4, <2>2 DEF StatusInv
    <3>2. /\ SeasonSoFar(Bracket, Matches', Kept) /\ PlayedIn(Matches', c)
          /\ StatusInv(Matches', Kept, seasonStatus, paidOut)
      BY <1>2, <1>3, <2>1, <2>2, <3>1, SettleKeepsSeason DEF SeasonInv
    <3>3. WorkInv(Matches', Kept, "completeLeagues", c, job.listed, paidOut, seasonStatus)
      BY <3>1, <3>2 DEF WorkInv, Looping, Advanced
    <3>. QED  BY <1>2, <3>2, <3>3
  <2>3. job.pc \notin {"idle", "list"}
    BY <1>1
  <2>. QED  BY <1>1, <2>1, <2>2, <2>3, OrderMoves
<1>5. CASE seasonStatus # "ACTIVE"
  <2>1. Matches' = Matches /\ job' = AfterHandlers
    BY <1>1, <1>5 DEF leagueTable, Matches
  <2>2. CASE job.failed
    <3>1. job' = IdleJob
      BY <2>1, <2>2 DEF AfterHandlers
    <3>. QED  BY <1>1, <1>3, <2>1, <3>1, OrderWhenIdle
  <2>3. CASE ~ job.failed
    <3>1. PICK pc : pc = IF job.listed THEN "seed" ELSE "finish"
      OBVIOUS
    <3>2. job' = [job EXCEPT !.pc = pc]
      BY <2>1, <2>3, <3>1 DEF AfterHandlers
    <3>3. ASSUME inOrder
          PROVE  WorkInv(Matches, Kept, pc, c, job.listed, paidOut, seasonStatus)
      <4>1. seasonStatus = "COMPLETED"
        BY <1>3, <1>5, <3>3 DEF StatusInv
      <4>2. CASE job.listed
        BY <1>3, <3>1, <3>3, <4>2 DEF WorkInv, Settling, Advanced
      <4>3. CASE ~ job.listed /\ paidOut
        BY <3>1, <4>3 DEF WorkInv, Looping
      <4>4. CASE ~ job.listed /\ ~ paidOut
        <5>1. Earlier(c) \subseteq Kept /\ c = EndGameweek
          BY <1>3, <3>3, <4>4
        <5>2. PlayedIn(Matches, c)
          BY <1>3, <3>3, <4>1, <4>4, <5>1 DEF StatusInv
        <5>. QED  BY <3>1, <4>1, <4>4, <5>1, <5>2 DEF WorkInv, Looping
      <4>. QED  BY <4>2, <4>3, <4>4
    <3>4. job.pc \notin {"idle", "list"}
      BY <1>1
    <3>. QED  BY <1>1, <1>2, <1>3, <2>1, <3>2, <3>3, <3>4, OrderMoves
  <2>. QED  BY <2>2, <2>3
<1>. QED  BY <1>4, <1>5

\* The league ends with its last gameweek.
LEMMA Completes ==
  ASSUME NEW F, NEW S, NEW c, StatusInv(F, S, seasonStatus, paidOut),
         Earlier(c) \subseteq S, PlayedIn(F, c), CompleteIfLast(c)
  PROVE  StatusInv(F, S, seasonStatus', paidOut)
BY DEF StatusInv, CompleteIfLast

\* The handler completes the league.
LEMMA HandlerCompletesOrder ==
  ASSUME SeasonInv, HandlerCompletes
  PROVE  OrderInv'
<1>1. /\ roster' = roster /\ UNCHANGED leagueTable /\ settledAt' = settledAt
      /\ inOrder' = inOrder /\ job.pc = "completeLeagues" /\ CompleteIfLast(Current)
      /\ paidOut' = paidOut /\ skipped' = skipped /\ job' = AfterHandlers
  BY DEF HandlerCompletes, At
<1>2. Matches' = Matches /\ Bracket' = Bracket /\ Kept' = Kept
  BY <1>1 DEF Matches, leagueTable, Bracket, Kept
<1>3. ASSUME inOrder
      PROVE  /\ SeasonSoFar(Bracket, Matches, Kept)
             /\ StatusInv(Matches, Kept, seasonStatus', paidOut)
             /\ job.listed \/ ~ paidOut =>
                  /\ Earlier(Current) \subseteq Kept /\ PlayedIn(Matches, Current)
                  /\ Current # EndGameweek => job.listed
  <2>1. /\ SeasonSoFar(Bracket, Matches, Kept) /\ StatusInv(Matches, Kept, seasonStatus, paidOut)
        /\ WorkInv(Matches, Kept, "completeLeagues", Current, job.listed, paidOut, seasonStatus)
    BY <1>1, <1>3 DEF SeasonInv, InOrderInv
  <2>2. job.listed \/ ~ paidOut =>
          /\ Earlier(Current) \subseteq Kept /\ PlayedIn(Matches, Current)
          /\ Current # EndGameweek => job.listed
    BY <2>1 DEF WorkInv, Settling
  <2>3. StatusInv(Matches, Kept, seasonStatus', paidOut)
    <3>1. CASE paidOut
      <4>1. seasonStatus' = seasonStatus
        BY <1>1, <2>1, <3>1 DEF StatusInv, CompleteIfLast
      <4>. QED  BY <2>1, <4>1
    <3>2. CASE ~ paidOut
      BY <1>1, <2>1, <2>2, <3>2, Completes
    <3>. QED  BY <3>1, <3>2
  <2>. QED  BY <2>1, <2>2, <2>3
<1>4. CASE job.failed
  <2>1. job' = IdleJob
    BY <1>1, <1>4 DEF AfterHandlers
  <2>. QED  BY <1>1, <1>2, <1>3, <2>1, OrderWhenIdle
<1>5. CASE ~ job.failed
  <2>1. PICK pc : pc = IF job.listed THEN "seed" ELSE "finish"
    OBVIOUS
  <2>2. job' = [job EXCEPT !.pc = pc]
    BY <1>1, <1>5, <2>1 DEF AfterHandlers
  <2>3. job'.pc = pc /\ job'.todo = job.todo /\ job'.listed = job.listed
    BY <2>2 DEF SeasonInv, SettlementInv, JobInv
  <2>4. TodoInv'
    BY <1>1, <2>3 DEF SeasonInv, TodoInv
  <2>5. Current' = Current
    BY <2>3 DEF Current
  <2>6. ASSUME inOrder' PROVE InOrderInv'
    <3>1. inOrder
      BY <1>1, <2>6
    <3>2. WorkInv(Matches, Kept, pc, Current, job.listed, paidOut, seasonStatus')
      <4>1. Current = EndGameweek => seasonStatus' = "COMPLETED"
        BY <1>1 DEF CompleteIfLast
      <4>. QED  BY <1>3, <2>1, <3>1, <4>1 DEF WorkInv, Looping, Settling, Advanced
    <3>. QED  BY <1>1, <1>2, <1>3, <2>3, <2>5, <3>1, <3>2 DEF InOrderInv
  <2>. QED  BY <2>4, <2>6 DEF OrderInv
<1>. QED  BY <1>4, <1>5

\* A draw for the gameweek after c, which is not settled yet.
LEMMA DrawKeepsSeason ==
  ASSUME NEW S \in SUBSET Gameweeks, SeasonSoFar(Bracket, Matches, S),
         StatusInv(Matches, S, seasonStatus, paidOut),
         NEW c \in Gameweeks, c \notin S, c + 1 \in Gameweeks,
         NEW new, IsDraw(new, c + 1), NEW G, G = Redrawn(Matches, c + 1, new)
  PROVE  /\ SeasonSoFar(Bracket, G, S) /\ StatusInv(G, S, seasonStatus, paidOut)
         /\ PlayedIn(G, c) <=> PlayedIn(Matches, c)
<1>1. c + 1 # c /\ c # EndGameweek
  BY SettlementAssumption DEF Gameweeks
<1>2. SeasonSoFar(Bracket, G, S)
  <2>1. PICK size : size = Bracket
    OBVIOUS
  <2>2. PICK F : F = Matches
    OBVIOUS
  <2>3. Apart(new) /\ IsRound(size, c + 1, Cardinality(new))
    BY <2>1 DEF IsDraw
  <2>4. \A p \in new : /\ p.kind = "playoff" /\ p.gw = c + 1 /\ p.home # p.away
                       /\ p.finished = FALSE
    BY DEF IsDraw
  <2>5. SeasonSoFar(size, F, S) /\ G = Redrawn(F, c + 1, new)
    BY <2>1, <2>2
  <2>6. SeasonSoFar(size, G, S)
    BY <2>3, <2>4, <2>5, RedrawnSeason
  <2>. QED  BY <2>1, <2>6
<1>3. PlayedIn(G, c) <=> PlayedIn(Matches, c)
  <2>1. \A p \in new : p.kind = "playoff" /\ p.gw = c + 1
    BY DEF IsDraw
  <2>. QED  BY <1>1, <2>1, RedrawnWeeks
<1>4. ~ (seasonStatus = "COMPLETED" /\ ~ paidOut)
  <2>1. c \in Earlier(EndGameweek)
    BY <1>1, SettlementAssumption DEF Gameweeks, Earlier
  <2>. QED  BY <2>1 DEF StatusInv
<1>5. StatusInv(G, S, seasonStatus, paidOut)
  BY <1>4 DEF StatusInv
<1>. QED  BY <1>2, <1>3, <1>5

\* Nothing of a gameweek is played before the one before it is settled.
LEMMA NextUnplayed ==
  ASSUME NEW size, NEW F, NEW S, SeasonSoFar(size, F, S), NEW c \in Gameweeks, c \notin S
  PROVE  \A f \in F : f.gw = c + 1 => ~ f.finished
<1>. SUFFICES ASSUME NEW f \in F, f.gw = c + 1, f.finished PROVE FALSE
  OBVIOUS
<1>1. Earlier(c + 1) \subseteq S
  BY DEF SeasonSoFar
<1>2. c \in Earlier(c + 1)
  BY SettlementAssumption DEF Earlier, Gameweeks
<1>. QED  BY <1>1, <1>2

\* The playoffs are drawn.
LEMMA SeedPlayoffsOrder ==
  ASSUME SeasonInv, SeedPlayoffs
  PROVE  OrderInv'
<1>1. /\ roster' = roster /\ settledAt' = settledAt /\ seasonStatus' = seasonStatus
      /\ inOrder' = inOrder /\ job.pc = "seed"
      /\ paidOut' = paidOut /\ skipped' = skipped
      /\ job' = [job EXCEPT !.pc = "settle"]
      /\ IF PlayoffAction(Current) = "generate" THEN GeneratePlayoffBracket(Current + 1)
                                                ELSE UNCHANGED fixtures
  BY DEF SeedPlayoffs, At, GoTo
<1>2. PICK c \in Gameweeks : c = Current /\ c \notin Kept /\ Kept \in SUBSET Gameweeks
  BY <1>1, CurrentLeft
<1>3. ASSUME inOrder
      PROVE  /\ SeasonSoFar(Bracket, Matches', Kept)
             /\ StatusInv(Matches', Kept, seasonStatus, paidOut)
             /\ WorkInv(Matches', Kept, "settle", Current, job.listed, paidOut, seasonStatus)
  <2>1. /\ SeasonSoFar(Bracket, Matches, Kept) /\ StatusInv(Matches, Kept, seasonStatus, paidOut)
        /\ WorkInv(Matches, Kept, "seed", c, job.listed, paidOut, seasonStatus)
    BY <1>1, <1>2, <1>3 DEF SeasonInv, InOrderInv
  <2>2. Earlier(c) \subseteq Kept /\ job.listed
    BY <2>1 DEF WorkInv, Looping
  <2>3. SeasonSoFar(Bracket, Matches', Kept) /\ StatusInv(Matches', Kept, seasonStatus, paidOut)
    <3>1. CASE PlayoffAction(c) = "generate"
      <4>1. \A f \in Matches : f.gw = c + 1 => ~ f.finished
        BY <1>2, <2>1, NextUnplayed
      <4>2. GeneratePlayoffBracket(c + 1)
        BY <1>1, <1>2, <3>1
      <4>3. /\ c + 1 \in Gameweeks
            /\ \E new : IsDraw(new, c + 1) /\ Matches' = Redrawn(Matches, c + 1, new)
        BY <3>1, <4>1, <4>2, SeedDraws DEF SeasonInv, SettlementInv
      <4>. QED  BY <1>2, <2>1, <4>3, DrawKeepsSeason
    <3>2. CASE PlayoffAction(c) # "generate"
      <4>1. Matches' = Matches
        BY <1>1, <1>2, <3>2 DEF Matches
      <4>. QED  BY <2>1, <4>1
    <3>. QED  BY <3>1, <3>2
  <2>4. WorkInv(Matches', Kept, "settle", c, job.listed, paidOut, seasonStatus)
    BY <2>2 DEF WorkInv, Settling, Advanced
  <2>. QED  BY <1>2, <2>3, <2>4
<1>4. job.pc \notin {"idle", "list"}
  BY <1>1
<1>. QED  BY <1>1, <1>3, <1>4, OrderMoves

\* The job plays what the subscriber left: nothing, or the whole gameweek of a
\* league that was paid out after it was listed.
LEMMA SettleFixturesOrder ==
  ASSUME SeasonInv, SettleFixtures
  PROVE  OrderInv'
<1>1. /\ roster' = roster /\ settledAt' = settledAt /\ seasonStatus' = seasonStatus
      /\ inOrder' = inOrder /\ job.pc = "settle"
      /\ paidOut' = paidOut /\ skipped' = skipped
      /\ job' = [job EXCEPT !.pc = "advance"] /\ SettleH2HGameweek(Current, custom)
  BY DEF SettleFixtures, At, GoTo
<1>2. PICK c \in Gameweeks : c = Current /\ c \notin Kept /\ Kept \in SUBSET Gameweeks
  BY <1>1, CurrentLeft
<1>3. ASSUME inOrder
      PROVE  /\ SeasonSoFar(Bracket, Matches', Kept)
             /\ StatusInv(Matches', Kept, seasonStatus, paidOut)
             /\ WorkInv(Matches', Kept, "advance", Current, job.listed, paidOut, seasonStatus)
  <2>1. /\ SeasonSoFar(Bracket, Matches, Kept) /\ StatusInv(Matches, Kept, seasonStatus, paidOut)
        /\ WorkInv(Matches, Kept, "settle", c, job.listed, paidOut, seasonStatus)
    BY <1>1, <1>2, <1>3 DEF SeasonInv, InOrderInv
  <2>2. Earlier(c) \subseteq Kept /\ job.listed
    BY <2>1 DEF WorkInv, Looping
  <2>3. SettleH2HGameweek(c, custom)
    BY <1>1, <1>2
  <2>4. /\ SeasonSoFar(Bracket, Matches', Kept) /\ PlayedIn(Matches', c)
        /\ StatusInv(Matches', Kept, seasonStatus, paidOut)
    BY <1>2, <2>1, <2>2, <2>3, SettleKeepsSeason DEF SeasonInv
  <2>5. WorkInv(Matches', Kept, "advance", c, job.listed, paidOut, seasonStatus)
    BY <2>2, <2>4 DEF WorkInv, Advanced
  <2>. QED  BY <1>2, <2>4, <2>5
<1>4. job.pc \notin {"idle", "list"}
  BY <1>1
<1>. QED  BY <1>1, <1>3, <1>4, OrderMoves

\* The next round is drawn.
LEMMA AdvancePlayoffsOrder ==
  ASSUME SeasonInv, AdvancePlayoffs
  PROVE  OrderInv'
<1>1. /\ roster' = roster /\ settledAt' = settledAt /\ seasonStatus' = seasonStatus
      /\ inOrder' = inOrder /\ job.pc = "advance"
      /\ paidOut' = paidOut /\ skipped' = skipped
      /\ job' = [job EXCEPT !.pc = "cup"]
      /\ IF PlayoffAction(Current) = "advance" THEN AdvancePlayoffRound(Current)
                                               ELSE UNCHANGED fixtures
  BY DEF AdvancePlayoffs, At, GoTo
<1>2. PICK c \in Gameweeks : c = Current /\ c \notin Kept /\ Kept \in SUBSET Gameweeks
  BY <1>1, CurrentLeft
<1>3. ASSUME inOrder
      PROVE  /\ SeasonSoFar(Bracket, Matches', Kept)
             /\ StatusInv(Matches', Kept, seasonStatus, paidOut)
             /\ WorkInv(Matches', Kept, "cup", Current, job.listed, paidOut, seasonStatus)
  <2>1. /\ SeasonSoFar(Bracket, Matches, Kept) /\ StatusInv(Matches, Kept, seasonStatus, paidOut)
        /\ WorkInv(Matches, Kept, "advance", c, job.listed, paidOut, seasonStatus)
    BY <1>1, <1>2, <1>3 DEF SeasonInv, InOrderInv
  <2>2. Earlier(c) \subseteq Kept /\ job.listed /\ PlayedIn(Matches, c)
    BY <2>1 DEF WorkInv, Looping, Settling
  <2>3. Shape(Bracket, Matches)
    BY <2>1 DEF SeasonSoFar
  <2>4. /\ SeasonSoFar(Bracket, Matches', Kept) /\ StatusInv(Matches', Kept, seasonStatus, paidOut)
        /\ PlayedIn(Matches', c) /\ (c # EndGameweek => AdvancedIn(Matches', c))
    <3>1. CASE c # EndGameweek /\ PlayoffOf(Matches, c) # {}
      <4>1. PlayoffAction(c) = "advance"
        <5>1. \E n : IsRound(Bracket, c, n)
          BY <2>3, <3>1 DEF Shape
        <5>2. Bracket # 0 /\ c >= PlayoffStart(Bracket)
          BY <5>1 DEF IsRound
        <5>3. PlayoffStart(Bracket) \in Int
          <6>1. PICK m \in Nat : m = Len(roster)
            BY ActiveFinite DEF SeasonInv, SettlementInv, LeagueInv
          <6>2. BracketRounds(Bracket) \in 1..3
            BY <5>2, <6>1, BracketSizes DEF Bracket
          <6>. QED  BY <6>2, SettlementAssumption DEF PlayoffStart
        <5>4. c # PlayoffStart(Bracket) - 1
          BY <5>2, <5>3, SettlementAssumption DEF Gameweeks
        <5>. QED  BY <5>2, <5>4 DEF PlayoffAction, Bracket, PlayoffStart
      <4>2. AdvancePlayoffRound(c)
        BY <1>1, <1>2, <4>1
      <4>3. \A f \in Matches : f.gw = c + 1 => ~ f.finished
        BY <1>2, <2>1, NextUnplayed
      <4>4. /\ c + 1 \in Gameweeks
            /\ \E new : /\ IsDraw(new, c + 1) /\ Matches' = Redrawn(Matches, c + 1, new)
                        /\ AdvancedIn(Redrawn(Matches, c + 1, new), c)
        BY <2>2, <2>3, <3>1, <4>2, <4>3, AdvanceDraws DEF SeasonInv, SettlementInv
      <4>. QED  BY <1>2, <2>1, <2>2, <4>4, DrawKeepsSeason
    <3>2. CASE c = EndGameweek \/ PlayoffOf(Matches, c) = {}
      <4>1. Cardinality(PlayoffOf(Matches, c)) \in {0, 1}
        <5>1. CASE PlayoffOf(Matches, c) = {}
          BY <5>1, FS_EmptySet
        <5>2. CASE PlayoffOf(Matches, c) # {} /\ c = EndGameweek
          <6>1. IsRound(Bracket, c, Cardinality(PlayoffOf(Matches, c)))
            BY <2>3, <5>2 DEF Shape
          <6>2. EndGameweek - c = 0
            BY <5>2, SettlementAssumption
          <6>. QED  BY <6>1, <6>2 DEF IsRound, RoundSize
        <5>. QED  BY <3>2, <5>1, <5>2
      <4>2. fixtures' = fixtures
        BY <1>1, <1>2, <4>1, AdvanceStops
      <4>3. Matches' = Matches
        BY <4>2 DEF Matches
      <4>. QED  BY <2>1, <2>2, <3>2, <4>3 DEF AdvancedIn
    <3>. QED  BY <3>1, <3>2
  <2>5. WorkInv(Matches', Kept, "cup", c, job.listed, paidOut, seasonStatus)
    BY <2>2, <2>4 DEF WorkInv
  <2>. QED  BY <1>2, <2>4, <2>5
<1>4. job.pc \notin {"idle", "list"}
  BY <1>1
<1>. QED  BY <1>1, <1>3, <1>4, OrderMoves

\* The cup's steps leave the season alone ...
LEMMA CupOrder ==
  ASSUME SeasonInv, SettleCup \/ AdvanceCup
  PROVE  OrderInv'
<1>1. /\ roster' = roster /\ settledAt' = settledAt /\ seasonStatus' = seasonStatus
      /\ inOrder' = inOrder /\ job.pc \in {"cup", "cupAdvance"}
      /\ paidOut' = paidOut /\ skipped' = skipped
      /\ \/ job' = [job EXCEPT !.pc = "complete"]
         \/ job' = [job EXCEPT !.pc = "cupAdvance"]
  BY DEF SettleCup, AdvanceCup, At, GoTo
<1>2. Matches' = Matches
  BY SettleCupInv, AdvanceCupInv DEF SeasonInv
<1>3. job'.pc \in {"complete", "cupAdvance"} /\ job'.todo = job.todo /\ job'.listed = job.listed
  BY <1>1 DEF SeasonInv, SettlementInv, JobInv
<1>. QED  BY <1>1, <1>2, <1>3, OrderKept DEF Looping, Settling, Advanced

\* ... and then the league may end.
LEMMA CompleteLeagueOrder ==
  ASSUME SeasonInv, CompleteLeague
  PROVE  OrderInv'
<1>1. /\ roster' = roster /\ UNCHANGED leagueTable /\ settledAt' = settledAt
      /\ inOrder' = inOrder /\ job.pc = "complete" /\ CompleteIfLast(Current)
      /\ paidOut' = paidOut /\ skipped' = skipped
      /\ job' = [job EXCEPT !.pc = "finish"]
  BY DEF CompleteLeague, At, GoTo
<1>2. Matches' = Matches /\ Bracket' = Bracket /\ Kept' = Kept
  BY <1>1 DEF Matches, leagueTable, Bracket, Kept
<1>3. job'.pc = "finish" /\ job'.todo = job.todo /\ job'.listed = job.listed
  BY <1>1 DEF SeasonInv, SettlementInv, JobInv
<1>4. TodoInv' /\ Current' = Current
  BY <1>1, <1>3 DEF SeasonInv, TodoInv, Current
<1>5. ASSUME inOrder' PROVE InOrderInv'
  <2>1. /\ SeasonSoFar(Bracket, Matches, Kept) /\ StatusInv(Matches, Kept, seasonStatus, paidOut)
        /\ WorkInv(Matches, Kept, "complete", Current, job.listed, paidOut, seasonStatus)
    BY <1>1, <1>5 DEF SeasonInv, InOrderInv
  <2>2. Earlier(Current) \subseteq Kept /\ PlayedIn(Matches, Current)
    BY <2>1 DEF WorkInv, Looping, Settling
  <2>3. StatusInv(Matches, Kept, seasonStatus', paidOut)
    BY <1>1, <2>1, <2>2, Completes
  <2>4. WorkInv(Matches, Kept, "finish", Current, job.listed, paidOut, seasonStatus')
    <3>1. Current = EndGameweek => seasonStatus' = "COMPLETED"
      BY <1>1 DEF CompleteIfLast
    <3>. QED  BY <2>1, <3>1 DEF WorkInv, Looping, Settling, Advanced
  <2>. QED  BY <1>1, <1>2, <1>3, <1>4, <2>1, <2>3, <2>4 DEF InOrderInv
<1>. QED  BY <1>4, <1>5 DEF OrderInv

\* The gameweek is settled: played, and its winners drawn.
LEMMA FinishGameweekOrder ==
  ASSUME SeasonInv, FinishGameweek
  PROVE  OrderInv'
<1>1. /\ roster' = roster /\ UNCHANGED leagueTable /\ settledAt' = settledAt \cup {Current}
      /\ seasonStatus' = seasonStatus /\ inOrder' = inOrder /\ job.pc = "finish"
      /\ paidOut' = paidOut
      /\ skipped' = IF paidOut /\ ~ job.listed THEN skipped \cup {Current} ELSE skipped
      /\ job' = IF Len(job.todo) = 1 THEN IdleJob
                ELSE [IdleJob EXCEPT !.pc = "list", !.todo = Tail(job.todo)]
  BY DEF FinishGameweek, At
<1>2. Matches' = Matches /\ Bracket' = Bracket
  BY <1>1 DEF Matches, leagueTable, Bracket
<1>3. \/ job'.pc = "idle"
      \/ job'.pc = "list" /\ job'.todo = Tail(job.todo) /\ Len(job.todo) # 1
  BY <1>1 DEF IdleJob
<1>4. TodoInv'
  <2>. SUFFICES ASSUME job'.pc # "idle"
                PROVE  IsInjective(job'.todo) /\ ToSet(job'.todo) \cap settledAt' = {}
    BY DEF TodoInv
  <2>1. job'.todo = Tail(job.todo)
    BY <1>3
  <2>2. job.todo \in Seq(Ready) /\ job.todo # <<>>
    BY <1>1 DEF SeasonInv, SettlementInv, JobInv
  <2>3. IsInjective(job.todo) /\ ToSet(job.todo) \cap settledAt = {}
    BY <1>1 DEF SeasonInv, TodoInv
  <2>4. ASSUME NEW R, NEW t \in Seq(R), t # <<>>, IsInjective(t), NEW D, ToSet(t) \cap D = {}
        PROVE  IsInjective(Tail(t)) /\ ToSet(Tail(t)) \cap (D \cup {Head(t)}) = {}
    <3>1. PICK n \in Nat : n = Len(t) /\ n # 0
      BY <2>4
    <3>2. /\ DOMAIN t = 1..n /\ Head(t) = t[1] /\ DOMAIN Tail(t) = 1..(n - 1)
          /\ \A i \in 1..(n - 1) : Tail(t)[i] = t[i + 1]
      BY <2>4, <3>1
    <3>3. \A i \in 1..(n - 1) : i + 1 \in 1..n /\ i + 1 # 1 /\ 1 \in 1..n
      BY <3>1
    <3>4. \A i, j \in 1..n : t[i] = t[j] => i = j
      BY <2>4, <3>2 DEF IsInjective
    <3>5. \A i \in 1..n : t[i] \notin D
      BY <2>4, <3>2 DEF ToSet
    <3>6. ASSUME NEW i \in 1..(n - 1) PROVE Tail(t)[i] # Head(t) /\ Tail(t)[i] \notin D
      <4>1. Tail(t)[i] = t[i + 1] /\ i + 1 \in 1..n /\ i + 1 # 1 /\ 1 \in 1..n
        BY <3>2, <3>3
      <4>. QED  BY <3>2, <3>4, <3>5, <4>1
    <3>7. ASSUME NEW i \in 1..(n - 1), NEW j \in 1..(n - 1), Tail(t)[i] = Tail(t)[j] PROVE i = j
      <4>1. t[i + 1] = t[j + 1] /\ i + 1 \in 1..n /\ j + 1 \in 1..n
        BY <3>2, <3>3, <3>7
      <4>2. i + 1 = j + 1
        BY <3>4, <4>1
      <4>. QED  BY <4>2
    <3>8. IsInjective(Tail(t))
      BY <3>2, <3>7 DEF IsInjective
    <3>9. ToSet(Tail(t)) \cap (D \cup {Head(t)}) = {}
      BY <3>2, <3>6 DEF ToSet
    <3>. QED  BY <3>8, <3>9
  <2>5. IsInjective(Tail(job.todo)) /\ ToSet(Tail(job.todo)) \cap (settledAt \cup {Head(job.todo)}) = {}
    BY <2>2, <2>3, <2>4
  <2>. QED  BY <1>1, <2>1, <2>5 DEF Current
<1>5. Current \notin settledAt /\ Current \notin Kept /\ Current \notin skipped
  BY <1>1, CurrentLeft DEF SeasonInv, PayoutInv
<1>6. ASSUME inOrder' PROVE InOrderInv'
  <2>1. /\ SeasonSoFar(Bracket, Matches, Kept) /\ StatusInv(Matches, Kept, seasonStatus, paidOut)
        /\ WorkInv(Matches, Kept, "finish", Current, job.listed, paidOut, seasonStatus)
    BY <1>1, <1>6 DEF SeasonInv, InOrderInv
  <2>2. WorkInv(Matches', Kept', job'.pc, Current', job'.listed, paidOut', seasonStatus')
    BY <1>3 DEF WorkInv, Looping, Settling, Advanced
  <2>3. CASE paidOut /\ ~ job.listed
    <3>1. Kept' = Kept
      BY <1>1, <1>5, <2>3 DEF Kept
    <3>. QED  BY <1>1, <1>2, <2>1, <2>2, <3>1 DEF InOrderInv
  <2>4. CASE job.listed \/ ~ paidOut
    <3>1. Kept' = Kept \cup {Current}
      BY <1>1, <1>5, <2>4 DEF Kept
    <3>2. /\ Earlier(Current) \subseteq Kept /\ PlayedIn(Matches, Current)
          /\ Current # EndGameweek => AdvancedIn(Matches, Current)
          /\ Current = EndGameweek => seasonStatus = "COMPLETED"
      BY <2>1, <2>4 DEF WorkInv, Settling, Advanced
    <3>3. SeasonSoFar(Bracket, Matches, Kept \cup {Current})
      <4>1. \A f \in Matches : f.finished => Earlier(f.gw) \subseteq Kept \cup {Current}
        BY <2>1 DEF SeasonSoFar
      <4>2. ASSUME NEW g \in Kept \cup {Current}
            PROVE  /\ Earlier(g) \subseteq Kept \cup {Current} /\ PlayedIn(Matches, g)
                   /\ g # EndGameweek => AdvancedIn(Matches, g)
        BY <2>1, <3>2 DEF SeasonSoFar
      <4>3. Shape(Bracket, Matches)
        BY <2>1 DEF SeasonSoFar
      <4>. QED  BY <4>1, <4>2, <4>3 DEF SeasonSoFar
    <3>4. StatusInv(Matches, Kept \cup {Current}, seasonStatus, paidOut)
      BY <2>1, <3>2 DEF StatusInv
    <3>. QED  BY <1>1, <1>2, <2>2, <3>1, <3>3, <3>4 DEF InOrderInv
  <2>. QED  BY <2>3, <2>4
<1>. QED  BY <1>4, <1>6 DEF OrderInv

\* The job fails between two transactions.
LEMMA JobFailsOrder ==
  ASSUME SeasonInv, JobFails
  PROVE  OrderInv'
<1>1. /\ roster' = roster /\ UNCHANGED leagueTable /\ settledAt' = settledAt
      /\ seasonStatus' = seasonStatus /\ inOrder' = inOrder /\ job' = IdleJob
      /\ paidOut' = paidOut /\ skipped' = skipped
  BY DEF JobFails
<1>2. Matches' = Matches
  BY <1>1 DEF Matches, leagueTable
<1>3. inOrder => StatusInv(Matches, Kept, seasonStatus', paidOut)
  BY <1>1 DEF SeasonInv, InOrderInv
<1>. QED  BY <1>1, <1>2, <1>3, OrderWhenIdle

\* The payout ends the league wherever the job is.
LEMMA CommitSettlementOrder ==
  ASSUME SeasonInv, CommitSettlement
  PROVE  OrderInv'
<1>1. /\ roster' = roster /\ UNCHANGED leagueTable /\ settledAt' = settledAt
      /\ inOrder' = inOrder /\ job' = job /\ skipped' = skipped /\ paidOut' = TRUE
      /\ seasonStatus # "COMPLETED" /\ seasonStatus' = "COMPLETED"
  BY DEF CommitSettlement
<1>2. Matches' = Matches /\ Bracket' = Bracket /\ Kept' = Kept /\ Current' = Current
  BY <1>1 DEF Matches, leagueTable, Bracket, Kept, Current
<1>3. TodoInv'
  BY <1>1 DEF SeasonInv, TodoInv
<1>4. ASSUME inOrder' PROVE InOrderInv'
  <2>1. /\ SeasonSoFar(Bracket, Matches, Kept) /\ StatusInv(Matches, Kept, seasonStatus, paidOut)
        /\ WorkInv(Matches, Kept, job.pc, Current, job.listed, paidOut, seasonStatus)
    BY <1>1, <1>4 DEF SeasonInv, InOrderInv
  <2>2. StatusInv(Matches, Kept, "COMPLETED", TRUE)
    BY DEF StatusInv
  <2>3. WorkInv(Matches, Kept, job.pc, Current, job.listed, TRUE, "COMPLETED")
    BY <2>1 DEF WorkInv
  <2>. QED  BY <1>1, <1>2, <2>1, <2>2, <2>3 DEF InOrderInv
<1>. QED  BY <1>3, <1>4 DEF OrderInv

\* Every step keeps the season in order: one case per action.
LEMMA NextOrder ==
  ASSUME SeasonInv, [SettlementNext]_settlementVars
  PROVE  OrderInv'
<1>1. ASSUME NEW g \in Gameweeks, GameweekFinishes(g) PROVE OrderInv'
  BY <1>1, FinishesOrder
<1>2. ASSUME NEW g \in CupGameweeks, CreateKnockoutCup(g) PROVE OrderInv'
  BY <1>2, CreateCupOrder
<1>3. CASE JobStep
  BY <1>3, StartsOrder, ListLeaguesOrder, ScoreSquadsOrder, HandlerSettlesOrder,
     HandlerCompletesOrder, SeedPlayoffsOrder, SettleFixturesOrder, AdvancePlayoffsOrder,
     CupOrder, CompleteLeagueOrder, FinishGameweekOrder DEF JobStep
<1>4. CASE ScoreSquadsFails
  BY <1>4, ScoreSquadsOrder
<1>5. CASE JobFails
  BY <1>5, JobFailsOrder
<1>6. CASE UNCHANGED settlementVars
  <2>1. /\ roster' = roster /\ fixtures' = fixtures /\ settledAt' = settledAt
        /\ seasonStatus' = seasonStatus /\ inOrder' = inOrder /\ job' = job
        /\ paidOut' = paidOut /\ skipped' = skipped
    BY <1>6 DEF settlementVars
  <2>2. Matches' = Matches
    BY <2>1 DEF Matches
  <2>3. job'.pc = job.pc /\ job'.todo = job.todo /\ job'.listed = job.listed
    BY <2>1
  <2>. QED  BY <2>1, <2>2, <2>3, OrderKept
<1>7. CASE CommitSettlement
  BY <1>7, CommitSettlementOrder
<1>. QED  BY <1>1, <1>2, <1>3, <1>4, <1>5, <1>6, <1>7 DEF SettlementNext

\* Only the payout sets paidOut, and only the end of a gameweek adds to skipped.
LEMMA NextPayout ==
  ASSUME PayoutInv, [SettlementNext]_settlementVars
  PROVE  PayoutInv'
<1>. USE DEF PayoutInv
<1>1. ASSUME UNCHANGED <<settledAt, paidOut, skipped>> PROVE PayoutInv'
  BY <1>1
<1>2. ASSUME NEW g \in Gameweeks, GameweekFinishes(g) PROVE PayoutInv'
  BY <1>1, <1>2 DEF GameweekFinishes
<1>3. ASSUME NEW g \in CupGameweeks, CreateKnockoutCup(g) PROVE PayoutInv'
  BY <1>1, <1>3, Zenon DEF CreateKnockoutCup
<1>4. CASE JobStarts \/ ListLeagues \/ ScoreSquads \/ ScoreSquadsFails \/ JobFails
  BY <1>1, <1>4, Zenon DEF JobStarts, ListLeagues, ScoreSquads, ScoreSquadsFails, JobFails
<1>5. CASE HandlerSettles \/ HandlerCompletes \/ CompleteLeague
  BY <1>1, <1>5, Zenon DEF HandlerSettles, HandlerCompletes, CompleteLeague
<1>6. CASE SeedPlayoffs \/ SettleFixtures \/ AdvancePlayoffs \/ SettleCup \/ AdvanceCup
  BY <1>1, <1>6, Zenon DEF SeedPlayoffs, SettleFixtures, AdvancePlayoffs, SettleCup, AdvanceCup
<1>7. CASE FinishGameweek
  BY <1>7 DEF FinishGameweek
<1>8. CASE CommitSettlement
  BY <1>8 DEF CommitSettlement
<1>9. CASE UNCHANGED settlementVars
  BY <1>1, <1>9 DEF settlementVars
<1>. QED  BY <1>2, <1>3, <1>4, <1>5, <1>6, <1>7, <1>8, <1>9 DEF SettlementNext, JobStep

\* While gameweeks are taken up in order, the fixtures are a season so far:
\* every gameweek settled with the league is played and its winners drawn,
\* whenever the job failed and was run again and whenever the payout completed
\* the league.
THEOREM SeasonInvariant == SettlementSpec => []SeasonInv
<1>1. SettlementInit => SeasonInv
  BY InitInv, InitOrder DEF SeasonInv, OrderInv
<1>2. SeasonInv /\ [SettlementNext]_settlementVars => SeasonInv'
  BY NextInv, NextOrder, NextPayout DEF SeasonInv, OrderInv
<1>. QED  BY <1>1, <1>2, PTL DEF SettlementSpec

\* A season whose gameweeks are taken up in order plays out: nobody has two
\* matches in one gameweek, the winners of a settled playoff round and nobody
\* else meet in the next gameweek, and once the last gameweek is settled every
\* match is played (settleH2HGameweek, generatePlayoffBracket,
\* advancePlayoffRound and the job's order of calls), for every membership,
\* season length, sequence of faults and moment of the payout; the gameweeks
\* the job settles without a league that was paid out before are left out.
THEOREM SeasonPlaysOutHolds == SettlementSpec => []SeasonPlaysOut
<1>1. SeasonInv => SeasonPlaysOut
  <2>. SUFFICES ASSUME SeasonInv, inOrder
                PROVE  /\ \A f, h \in Matches :
                            f.gw = h.gw /\ f # h => {f.home, f.away} \cap {h.home, h.away} = {}
                       /\ \A g \in settledAt \ (skipped \cup {EndGameweek}) : AdvancedIn(Matches, g)
                       /\ EndGameweek \in settledAt \ skipped =>
                            seasonStatus = "COMPLETED" /\ \A f \in Matches : f.finished
    BY DEF SeasonPlaysOut, AdvancedIn, PlayoffOf, SidesOf, Matches
  <2>1. /\ SeasonSoFar(Bracket, Matches, Kept) /\ Shape(Bracket, Matches)
        /\ StatusInv(Matches, Kept, seasonStatus, paidOut)
    BY DEF SeasonInv, InOrderInv, SeasonSoFar
  <2>2. ASSUME NEW f \in Matches, NEW h \in Matches, f.gw = h.gw, f # h
        PROVE  {f.home, f.away} \cap {h.home, h.away} = {}
    <3>1. f.gw \in Gameweeks /\ Apart(WeekOf(Matches, f.gw))
      BY <2>1 DEF Shape
    <3>2. f \in WeekOf(Matches, f.gw) /\ h \in WeekOf(Matches, f.gw)
      BY <2>2 DEF WeekOf
    <3>. QED  BY <2>2, <3>1, <3>2 DEF Apart
  <2>3. \A g \in settledAt \ (skipped \cup {EndGameweek}) : AdvancedIn(Matches, g)
    BY <2>1 DEF SeasonSoFar, Kept
  <2>4. ASSUME EndGameweek \in Kept
        PROVE  seasonStatus = "COMPLETED" /\ \A f \in Matches : f.finished
    <3>1. seasonStatus = "COMPLETED"
      BY <2>1, <2>4 DEF StatusInv
    <3>2. ASSUME NEW f \in Matches PROVE f.finished
      <4>1. f.gw \in Gameweeks
        BY <2>1 DEF Shape
      <4>2. f.gw \in Earlier(EndGameweek) \/ f.gw = EndGameweek
        BY <4>1, SettlementAssumption DEF Gameweeks, Earlier
      <4>3. f.gw \in Kept
        BY <2>1, <2>4, <4>2 DEF SeasonSoFar
      <4>. QED  BY <2>1, <4>3 DEF SeasonSoFar, PlayedIn
    <3>. QED  BY <3>1, <3>2
  <2>. QED  BY <2>2, <2>3, <2>4 DEF Kept
<1>. QED  BY <1>1, SeasonInvariant, PTL
=============================================================================
