---------------------------- MODULE SwissProofs ----------------------------
(***************************************************************************)
(* Every round of a Swiss tournament is fair, for any fields of any sizes  *)
(* and any number of rounds.                                               *)
(*                                                                         *)
(* solveBacktrackPairings and greedyPairingFallback are recursive          *)
(* functions over lists of players: their tables exist because a step only *)
(* looks at lists two places shorter, and what they answer is shown by     *)
(* induction on the length of the list.  The solver's null is complete:    *)
(* the first player meets somebody in every pairing, and each choice fails *)
(* because the two have met or because the others cannot be paired.        *)
(***************************************************************************)
EXTENDS SwissTournament, SumTheorems

-----------------------------------------------------------------------------
(* Players in an order, and what is left when some of them are paired.     *)

\* t lists the members of T, each once.
Lineup(t, T) == t \in Seq(T) /\ IsInjective(t) /\ ToSet(t) = T

\* The members of a list of players are the values at its places.
LEMMA LineupPlaces ==
  ASSUME NEW t, NEW T, Lineup(t, T)
  PROVE  /\ Len(t) \in Nat /\ DOMAIN t = 1..Len(t)
         /\ \A i \in 1..Len(t) : t[i] \in T
         /\ \A p \in T : \E i \in 1..Len(t) : t[i] = p
         /\ \A i, j \in 1..Len(t) : t[i] = t[j] => i = j
BY DEF Lineup, ToSet, IsInjective

\* RemoveAt drops one place and keeps the order of the others.
LEMMA RemoveAtPlaces ==
  ASSUME NEW T, NEW s \in Seq(T), NEW i \in 1..Len(s)
  PROVE  /\ RemoveAt(s, i) \in Seq(T) /\ Len(RemoveAt(s, i)) = Len(s) - 1
         /\ \A j \in 1..(Len(s) - 1) :
               RemoveAt(s, i)[j] = IF j < i THEN s[j] ELSE s[j + 1]
<1>. DEFINE a == SubSeq(s, 1, i - 1)
            b == SubSeq(s, i + 1, Len(s))
<1>0. Len(s) \in Nat /\ i \in Nat /\ DOMAIN s = 1..Len(s)
  OBVIOUS
<1>1. a \in Seq(T) /\ Len(a) = i - 1 /\ \A j \in 1..(i - 1) : a[j] = s[j]
  <2>1. \A j \in 1..(i - 1) : j \in 1..Len(s)
    BY <1>0
  <2>. QED  BY <1>0, <2>1
<1>2. b \in Seq(T) /\ Len(b) = Len(s) - i /\ \A j \in 1..(Len(s) - i) : b[j] = s[i + j]
  <2>1. \A j \in (i + 1)..Len(s) : j \in 1..Len(s)
    BY <1>0
  <2>2. i + 1 \in Nat /\ Len(s) + 1 - (i + 1) = Len(s) - i /\ Len(s) - i \in Nat
    <3>1. ASSUME NEW m \in Nat, NEW k \in 1..m
          PROVE  k + 1 \in Nat /\ m + 1 - (k + 1) = m - k /\ m - k \in Nat
      OBVIOUS
    <3>. QED  BY <1>0, <3>1
  <2>3. b \in Seq(T)
    BY <1>0, <2>1, <2>2
  <2>4. Len(b) = Len(s) - i
    <3>1. CASE i + 1 <= Len(s)
      <4>1. Len(b) = Len(s) - (i + 1) + 1
        BY <1>0, <2>1, <2>2, <3>1
      <4>2. ASSUME NEW m \in Nat, NEW k \in Nat PROVE m - (k + 1) + 1 = m - k
        OBVIOUS
      <4>. HIDE DEF b
      <4>. QED  BY <1>0, <4>1, <4>2
    <3>2. CASE i = Len(s)
      <4>1. Len(b) = 0
        BY <1>0, <2>1, <2>2, <3>2
      <4>. HIDE DEF b
      <4>. QED  BY <1>0, <3>2, <4>1
    <3>3. i + 1 <= Len(s) \/ i = Len(s)
      <4>1. ASSUME NEW m \in Nat, NEW k \in 1..m PROVE k + 1 <= m \/ k = m
        OBVIOUS
      <4>. QED  BY <1>0, <4>1
    <3>. QED  BY <3>1, <3>2, <3>3
  <2>5. ASSUME NEW j \in 1..(Len(s) - i) PROVE b[j] = s[i + j]
    <3>1. (i + 1) + j - 1 = i + j /\ j \in 1..(Len(s) + 1 - (i + 1))
      BY <1>0
    <3>. QED  BY <1>0, <2>1, <2>2, <3>1
  <2>. QED  BY <2>3, <2>4, <2>5
<1>3. RemoveAt(s, i) = a \o b
  BY DEF RemoveAt
<1>. HIDE DEF a, b
<1>4. Len(a \o b) = Len(s) - 1 /\ a \o b \in Seq(T)
  <2>1. ASSUME NEW m \in Nat, NEW k \in Nat PROVE (k - 1) + (m - k) = m - 1
    OBVIOUS
  <2>2. a \o b \in Seq(T) /\ Len(a \o b) = Len(a) + Len(b)
    <3>1. a \in Seq(T) /\ b \in Seq(T)
      BY <1>1, <1>2
    <3>. QED  BY <3>1
  <2>. QED  BY <1>0, <1>1, <1>2, <2>1, <2>2
<1>5. ASSUME NEW j \in 1..(Len(s) - 1) PROVE (a \o b)[j] = IF j < i THEN s[j] ELSE s[j + 1]
  <2>1. CASE j < i
    BY <1>0, <1>1, <1>2, <2>1
  <2>2. CASE ~(j < i)
    <3>1. j - (i - 1) \in 1..(Len(s) - i) /\ i + (j - (i - 1)) = j + 1
      BY <1>0, <2>2
    <3>2. (a \o b)[j] = b[j - (i - 1)]
      BY <1>0, <1>1, <1>2, <2>2
    <3>. QED  BY <1>2, <2>2, <3>1, <3>2
  <2>. QED  BY <2>1, <2>2
<1>. QED  BY <1>3, <1>4, <1>5

\* Dropping a place drops that player.
LEMMA RemoveAtLineup ==
  ASSUME NEW T, NEW s, Lineup(s, T), NEW i \in 1..Len(s)
  PROVE  Lineup(RemoveAt(s, i), T \ {s[i]}) /\ Len(RemoveAt(s, i)) = Len(s) - 1
<1>. DEFINE r == RemoveAt(s, i)
            n == Len(s)
<1>0. /\ s \in Seq(T) /\ n \in Nat /\ i \in Nat
      /\ \A j \in 1..n : s[j] \in T
      /\ \A p \in T : \E j \in 1..n : s[j] = p
      /\ \A j, k \in 1..n : s[j] = s[k] => j = k
  BY LineupPlaces DEF Lineup
<1>1. r \in Seq(T) /\ Len(r) = n - 1 /\ DOMAIN r = 1..(n - 1)
      /\ \A j \in 1..(n - 1) : r[j] = IF j < i THEN s[j] ELSE s[j + 1]
  <2>1. r \in Seq(T) /\ Len(r) = n - 1
        /\ \A j \in 1..(n - 1) : r[j] = IF j < i THEN s[j] ELSE s[j + 1]
    BY <1>0, RemoveAtPlaces, ZenonT(60)
  <2>. HIDE DEF r, n
  <2>. QED  BY <2>1
<1>i. i \in 1..n
  OBVIOUS
<1>. HIDE DEF r, n
<1>2. \A j, k \in 1..(n - 1) : r[j] = r[k] => j = k
  <2>1. SUFFICES ASSUME NEW j \in 1..(n - 1), NEW k \in 1..(n - 1), r[j] = r[k] PROVE j = k
    OBVIOUS
  <2>. DEFINE u == IF j < i THEN j ELSE j + 1
              v == IF k < i THEN k ELSE k + 1
  <2>2. r[j] = s[u] /\ r[k] = s[v]
    BY <1>1
  <2>4. u \in 1..n /\ v \in 1..n
    <3>1. n \in Nat /\ i \in 1..n
      BY <1>0, <1>i
    <3>. QED  BY <3>1
  <2>3. u = v
    <3>. HIDE DEF u, v
    <3>. QED  BY <1>0, <2>1, <2>2, <2>4
  <2>. QED  BY <1>0, <2>3
<1>3. \A j \in 1..(n - 1) : r[j] \in T \ {s[i]}
  <2>1. SUFFICES ASSUME NEW j \in 1..(n - 1) PROVE r[j] \in T \ {s[i]}
    OBVIOUS
  <2>. DEFINE u == IF j < i THEN j ELSE j + 1
  <2>2. r[j] = s[u] /\ u \in 1..n /\ u # i
    BY <1>0, <1>i, <1>1
  <2>. HIDE DEF u
  <2>3. s[u] \in T /\ s[u] # s[i]
    BY <1>0, <1>i, <2>2
  <2>. QED  BY <2>2, <2>3
<1>4. \A p \in T \ {s[i]} : \E j \in 1..(n - 1) : r[j] = p
  <2>1. SUFFICES ASSUME NEW p \in T \ {s[i]} PROVE \E j \in 1..(n - 1) : r[j] = p
    OBVIOUS
  <2>2. PICK u \in 1..n : s[u] = p
    BY <1>0
  <2>3. u # i
    BY <2>2
  <2>4. CASE u < i
    <3>1. u \in 1..(n - 1) /\ r[u] = s[u]
      BY <1>0, <1>i, <1>1, <2>4
    <3>. QED  BY <2>2, <3>1
  <2>5. CASE i < u
    <3>1. u - 1 \in 1..(n - 1) /\ ~(u - 1 < i) /\ (u - 1) + 1 = u
      BY <1>0, <2>5
    <3>2. r[u - 1] = s[u]
      BY <1>1, <3>1
    <3>. QED  BY <2>2, <3>1, <3>2
  <2>. QED  BY <1>0, <2>3, <2>4, <2>5
<1>5. r \in Seq(T \ {s[i]})
  <2>1. r \in [1..(n - 1) -> T \ {s[i]}]
    BY <1>1, <1>3
  <2>2. n - 1 \in Nat
    BY <1>0
  <2>. QED  BY <2>1, <2>2, RankSequence
<1>6. ToSet(r) = T \ {s[i]}
  BY <1>1, <1>3, <1>4, ZenonT(60) DEF ToSet
<1>. QED  BY <1>1, <1>2, <1>5, <1>6 DEF Lineup, IsInjective, r, n

\* The players left are those of the list without the pair.
LEMMA RemainingLineup ==
  ASSUME NEW T, NEW s, Lineup(s, T), NEW i \in 2..Len(s)
  PROVE  /\ Lineup(Remaining(s, i), T \ {s[1], s[i]})
         /\ Len(Remaining(s, i)) = Len(s) - 2
         /\ s[1] \in T /\ s[i] \in T /\ s[1] # s[i]
<1>. DEFINE r == RemoveAt(s, i)
            n == Len(s)
<1>0. /\ n \in Nat /\ i \in 1..n /\ 1 \in 1..n /\ 1 # i /\ s \in Seq(T)
      /\ \A j \in 1..n : s[j] \in T
      /\ \A j, k \in 1..n : s[j] = s[k] => j = k
  BY LineupPlaces DEF Lineup
<1>1. Lineup(r, T \ {s[i]}) /\ Len(r) = n - 1
  BY <1>0, RemoveAtLineup
<1>2. r[1] = s[1] /\ 1 \in 1..Len(r)
  <2>1. 1 \in 1..(n - 1) /\ 1 < i
    BY <1>0
  <2>. QED  BY <1>0, <1>1, <2>1, RemoveAtPlaces
<1>3. Lineup(RemoveAt(r, 1), (T \ {s[i]}) \ {s[1]}) /\ Len(RemoveAt(r, 1)) = n - 2
  <2>. HIDE DEF r
  <2>1. (n - 1) - 1 = n - 2
    BY <1>0
  <2>. QED  BY <1>1, <1>2, <2>1, RemoveAtLineup
<1>4. Tail(r) = RemoveAt(r, 1)
  <2>. HIDE DEF r
  <2>1. r \in Seq(T \ {s[i]}) /\ Len(r) \in Nat /\ DOMAIN r = 1..Len(r)
    BY <1>1, LineupPlaces DEF Lineup
  <2>2. /\ RemoveAt(r, 1) \in Seq(T \ {s[i]}) /\ Len(RemoveAt(r, 1)) = Len(r) - 1
        /\ \A j \in 1..(Len(r) - 1) : RemoveAt(r, 1)[j] = r[j + 1]
    <3>1. /\ RemoveAt(r, 1) \in Seq(T \ {s[i]}) /\ Len(RemoveAt(r, 1)) = Len(r) - 1
          /\ \A j \in 1..(Len(r) - 1) :
                RemoveAt(r, 1)[j] = IF j < 1 THEN r[j] ELSE r[j + 1]
      BY <1>2, <2>1, RemoveAtPlaces
    <3>2. \A j \in 1..(Len(r) - 1) : ~(j < 1)
      BY <2>1
    <3>. QED  BY <3>1, <3>2
  <2>3. r # <<>>
    BY <1>2, <2>1
  <2>4. /\ Tail(r) \in Seq(T \ {s[i]}) /\ Len(Tail(r)) = Len(r) - 1
        /\ \A j \in 1..(Len(r) - 1) : Tail(r)[j] = r[j + 1]
    BY <2>1, <2>3
  <2>. QED  BY <2>1, <2>2, <2>4
<1>5. (T \ {s[i]}) \ {s[1]} = T \ {s[1], s[i]}
  OBVIOUS
<1>. QED  BY <1>0, <1>3, <1>4, <1>5 DEF Remaining

-----------------------------------------------------------------------------
(* The recursions behind the pairings.                                     *)

\* A set of naturals has a least member.
LEMMA LeastPlace ==
  ASSUME NEW S \in SUBSET Nat, S # {}
  PROVE  Min(S) \in S /\ \A y \in S : Min(S) <= y
<1>. DEFINE R == OpToRel(<, Nat)
<1>1. PICK x \in S : \A y \in S : <<y, x>> \notin R
  BY NatLessThanWellFounded, WFMin
<1>2. \A y \in S : x <= y
  <2>1. ASSUME NEW y \in S PROVE x <= y
    <3>1. x \in Nat /\ y \in Nat /\ ~(y < x)
      BY <1>1 DEF OpToRel
    <3>. QED  BY <3>1
  <2>. QED  BY <2>1
<1>. QED  BY <1>2, Zenon DEF Min

\* The bounded sequences over S are those with at most n places.
LEMMA BoundedSeqPlaces ==
  ASSUME NEW S, NEW n \in Nat
  PROVE  \A t : t \in BoundedSeq(S, n) <=> t \in Seq(S) /\ Len(t) <= n
<1>1. ASSUME NEW t \in BoundedSeq(S, n) PROVE t \in Seq(S) /\ Len(t) <= n
  <2>1. PICK m \in 0..n : t \in [1..m -> S]
    BY <1>1 DEF BoundedSeq, SeqOf
  <2>2. m \in Nat /\ m <= n
    BY <2>1
  <2>. QED  BY <2>1, <2>2, RankSequence
<1>2. ASSUME NEW t \in Seq(S), Len(t) <= n PROVE t \in BoundedSeq(S, n)
  <2>1. Len(t) \in 0..n /\ t \in [1..Len(t) -> S]
    BY <1>2
  <2>. QED  BY <2>1 DEF BoundedSeq, SeqOf
<1>. QED  BY <1>1, <1>2

\* Taking a pair out of a sequence leaves two places fewer.
LEMMA RemainingPlaces ==
  ASSUME NEW S, NEW t \in Seq(S), NEW i \in 2..Len(t)
  PROVE  Remaining(t, i) \in Seq(S) /\ Len(Remaining(t, i)) = Len(t) - 2
<1>. DEFINE r == RemoveAt(t, i)
<1>0. Len(t) \in Nat
  OBVIOUS
<1>1. i \in 1..Len(t) /\ Len(t) - 1 \in Nat /\ Len(t) - 1 # 0 /\ (Len(t) - 1) - 1 = Len(t) - 2
  <2>1. ASSUME NEW m \in Nat, i \in 2..m
        PROVE  i \in 1..m /\ m - 1 \in Nat /\ m - 1 # 0 /\ (m - 1) - 1 = m - 2
    BY <2>1
  <2>. QED  BY <1>0, <2>1
<1>2. r \in Seq(S) /\ Len(r) = Len(t) - 1
  BY <1>1, RemoveAtPlaces
<1>. HIDE DEF r
<1>3. r # <<>>
  BY <1>1, <1>2
<1>4. Tail(r) \in Seq(S) /\ Len(Tail(r)) = Len(r) - 1
  BY <1>2, <1>3
<1>. QED  BY <1>1, <1>2, <1>4 DEF Remaining, r

\* The opponents that solveBacktrackPairings may give to the first player.
Candidates(g, t) == {i \in 2..Len(t) : Meetings(t[1], t[i]) = 0 /\ g[Remaining(t, i)] # NoPairing}

SolveStep(g, t) ==
    IF t = <<>> THEN <<>>
    ELSE IF Candidates(g, t) = {} THEN NoPairing
    ELSE <<<<t[1], t[Min(Candidates(g, t))]>>>> \o g[Remaining(t, Min(Candidates(g, t)))]

\* Place i is the one the first player met least, and the first such.
IsBest(t, i) ==
    \A j \in 2..Len(t) : \/ Meetings(t[1], t[i]) < Meetings(t[1], t[j])
                         \/ Meetings(t[1], t[i]) = Meetings(t[1], t[j]) /\ i <= j
BestOpponent(t) == CHOOSE i \in 2..Len(t) : IsBest(t, i)

GreedyStep(g, t) ==
    IF Len(t) < 2 THEN <<>>
    ELSE <<<<t[1], t[BestOpponent(t)]>>>> \o g[Remaining(t, BestOpponent(t))]

\* Both recursions, told apart by a flag.
PairStep(greedy, g, t) == IF greedy THEN GreedyStep(g, t) ELSE SolveStep(g, t)

\* g holds the pairings of the sequences of D.
IsPairTable(greedy, D, g) == g = [t \in D |-> PairStep(greedy, g, t)]
PairTable(greedy, D) == CHOOSE g : IsPairTable(greedy, D, g)

\* The results of the two recursions are entries of their tables.
LEMMA PairTableEntries ==
  ASSUME NEW s
  PROVE  /\ SolveBacktrackPairings(s) = PairTable(FALSE, BoundedSeq(ToSet(s), Len(s)))[s]
         /\ GreedyPairingFallback(s) = PairTable(TRUE, BoundedSeq(ToSet(s), Len(s)))[s]
<1>1. SolveBacktrackPairings(s) = PairTable(FALSE, BoundedSeq(ToSet(s), Len(s)))[s]
  BY Zenon DEF SolveBacktrackPairings, PairTable, IsPairTable, PairStep, SolveStep, Candidates
<1>2. GreedyPairingFallback(s) = PairTable(TRUE, BoundedSeq(ToSet(s), Len(s)))[s]
  BY Zenon DEF GreedyPairingFallback, PairTable, IsPairTable, PairStep, GreedyStep,
               BestOpponent, IsBest
<1>. QED  BY <1>1, <1>2

\* Meetings are counted among the members of S.
Counted(S) == \A p, q \in S : Meetings(p, q) \in Nat

\* A player with somebody left to meet has a best opponent.
LEMMA BestExists ==
  ASSUME NEW S, Counted(S), NEW t \in Seq(S), 2 <= Len(t)
  PROVE  BestOpponent(t) \in 2..Len(t)
<1>. DEFINE I == 2..Len(t)
            M == {Meetings(t[1], t[i]) : i \in I}
<1>1. \A i \in I : Meetings(t[1], t[i]) \in Nat
  <2>1. \A i \in I : t[1] \in S /\ t[i] \in S
    OBVIOUS
  <2>. QED  BY <2>1 DEF Counted
<1>2. M \in SUBSET Nat /\ M # {}
  <2>1. 2 \in I
    OBVIOUS
  <2>. QED  BY <1>1, <2>1
<1>. DEFINE low == Min(M)
            B == {i \in I : Meetings(t[1], t[i]) = low}
<1>3. low \in M /\ \A y \in M : low <= y
  <2>. HIDE DEF M
  <2>. QED  BY <1>2, LeastPlace
<1>4. B \in SUBSET Nat /\ B # {}
  <2>1. PICK i \in I : low = Meetings(t[1], t[i])
    BY <1>3
  <2>2. I \subseteq Nat
    OBVIOUS
  <2>. QED  BY <2>1, <2>2
<1>. DEFINE b == Min(B)
<1>5. b \in B /\ \A y \in B : b <= y
  <2>. HIDE DEF B
  <2>. QED  BY <1>4, LeastPlace
<1>6. b \in I /\ Meetings(t[1], t[b]) = low
  BY <1>5
<1>7. ASSUME NEW j \in I
      PROVE  \/ Meetings(t[1], t[b]) < Meetings(t[1], t[j])
             \/ Meetings(t[1], t[b]) = Meetings(t[1], t[j]) /\ b <= j
  <2>1. Meetings(t[1], t[j]) \in Nat /\ Meetings(t[1], t[b]) \in Nat
    BY <1>1, <1>6
  <2>2. low <= Meetings(t[1], t[j])
    BY <1>3
  <2>3. Meetings(t[1], t[j]) = low => b <= j
    BY <1>5
  <2>. HIDE DEF b, low
  <2>. QED  BY <1>6, <2>1, <2>2, <2>3
<1>8. IsBest(t, b)
  BY <1>7, Zenon DEF IsBest
<1>. HIDE DEF b
<1>. QED  BY <1>6, <1>8, Zenon DEF BestOpponent

\* A step of a recursion looks only at sequences that are two places shorter.
LEMMA PairStepLocal ==
  ASSUME NEW S, Counted(S), NEW t \in Seq(S), NEW g, NEW h,
         \A i \in 2..Len(t) : g[Remaining(t, i)] = h[Remaining(t, i)],
         NEW greedy
  PROVE  PairStep(greedy, g, t) = PairStep(greedy, h, t)
<1>0. Len(t) \in Nat
  OBVIOUS
<1>1. SolveStep(g, t) = SolveStep(h, t)
  <2>1. Candidates(g, t) = Candidates(h, t)
    BY DEF Candidates
  <2>2. CASE Candidates(h, t) = {}
    BY <2>1, <2>2 DEF SolveStep
  <2>3. CASE Candidates(h, t) # {}
    <3>1. Candidates(h, t) \in SUBSET Nat
      <4>1. Candidates(h, t) \subseteq 2..Len(t)
        BY DEF Candidates
      <4>2. 2..Len(t) \subseteq Nat
        BY <1>0
      <4>. QED  BY <4>1, <4>2
    <3>2. Min(Candidates(h, t)) \in 2..Len(t)
      <4>1. Min(Candidates(h, t)) \in Candidates(h, t)
        BY <2>3, <3>1, LeastPlace
      <4>. QED  BY <4>1 DEF Candidates
    <3>. QED  BY <2>1, <2>3, <3>2 DEF SolveStep
  <2>. QED  BY <2>2, <2>3
<1>2. GreedyStep(g, t) = GreedyStep(h, t)
  <2>1. CASE Len(t) < 2
    BY <2>1 DEF GreedyStep
  <2>2. CASE ~(Len(t) < 2)
    <3>1. BestOpponent(t) \in 2..Len(t)
      BY <1>0, <2>2, BestExists
    <3>. QED  BY <2>2, <3>1 DEF GreedyStep
  <2>. QED  BY <2>1, <2>2
<1>. QED  BY <1>1, <1>2 DEF PairStep

\* Every list of players has its entry, which satisfies the recursion.
LEMMA PairTableSteps ==
  ASSUME NEW S, Counted(S), NEW n \in Nat, NEW greedy
  PROVE  \A t \in BoundedSeq(S, n) :
            PairTable(greedy, BoundedSeq(S, n))[t]
              = PairStep(greedy, PairTable(greedy, BoundedSeq(S, n)), t)
<1>. DEFINE D == BoundedSeq(S, n)
            Upto(k, g) == \A t \in D : Len(t) <= k => g[t] = PairStep(greedy, g, t)
            G == {k \in Nat : \E g : Upto(k, g)}
<1>0. \A t \in D : t \in Seq(S) /\ Len(t) <= n /\ Len(t) \in Nat
  BY BoundedSeqPlaces
<1>1. ASSUME NEW t \in D, NEW i \in 2..Len(t)
      PROVE  Remaining(t, i) \in D /\ Len(Remaining(t, i)) = Len(t) - 2
  <2>1. t \in Seq(S) /\ Len(t) <= n /\ Len(t) \in Nat
    BY <1>0
  <2>2. Remaining(t, i) \in Seq(S) /\ Len(Remaining(t, i)) = Len(t) - 2
    BY <2>1, RemainingPlaces
  <2>. QED  BY <2>1, <2>2, BoundedSeqPlaces
<1>. HIDE DEF D
<1>2. 0 \in G
  <2>. DEFINE e == [t \in D |-> PairStep(greedy, [u \in {} |-> 0], t)]
  <2>1. ASSUME NEW t \in D, Len(t) <= 0 PROVE e[t] = PairStep(greedy, e, t)
    <3>1. t \in Seq(S) /\ \A i \in 2..Len(t) : FALSE
      BY <1>0, <2>1
    <3>. DEFINE z == [u \in {} |-> 0]
    <3>2. e[t] = PairStep(greedy, z, t)
      OBVIOUS
    <3>. HIDE DEF e, z
    <3>. QED  BY <3>1, <3>2, PairStepLocal
  <2>2. Upto(0, e)
    BY <2>1
  <2>. HIDE DEF e, Upto
  <2>. QED  BY <2>2
<1>3. ASSUME NEW k \in G PROVE k + 1 \in G
  <2>1. PICK g : Upto(k, g)
    BY <1>3
  <2>2. k \in Nat /\ k + 1 \in Nat
    BY <1>3
  <2>. DEFINE h == [t \in D |-> PairStep(greedy, g, t)]
  <2>3. ASSUME NEW t \in D, Len(t) <= k PROVE h[t] = g[t]
    BY <2>1, <2>3
  <2>4. ASSUME NEW t \in D, Len(t) <= k + 1 PROVE h[t] = PairStep(greedy, h, t)
    <3>1. t \in Seq(S)
      BY <1>0
    <3>2. \A i \in 2..Len(t) : g[Remaining(t, i)] = h[Remaining(t, i)]
      <4>1. SUFFICES ASSUME NEW i \in 2..Len(t) PROVE g[Remaining(t, i)] = h[Remaining(t, i)]
        OBVIOUS
      <4>2. Remaining(t, i) \in D /\ Len(Remaining(t, i)) = Len(t) - 2 /\ Len(t) \in Nat
        BY <1>0, <1>1
      <4>3. Len(Remaining(t, i)) <= k
        BY <2>2, <2>4, <4>2
      <4>. HIDE DEF h
      <4>. QED  BY <2>3, <4>2, <4>3
    <3>3. h[t] = PairStep(greedy, g, t)
      OBVIOUS
    <3>. HIDE DEF h
    <3>. QED  BY <3>1, <3>2, <3>3, PairStepLocal
  <2>5. Upto(k + 1, h)
    BY <2>4
  <2>. HIDE DEF h, Upto
  <2>. QED  BY <2>2, <2>5
<1>4. G = Nat
  <2>1. G \in SUBSET Nat
    OBVIOUS
  <2>. HIDE DEF G
  <2>. QED  BY <1>2, <1>3, <2>1, NatSetInduction
<1>5. PICK g : Upto(n, g)
  BY <1>4
<1>. DEFINE h == [t \in D |-> PairStep(greedy, g, t)]
<1>6. \A t \in D : h[t] = g[t]
  BY <1>0, <1>5
<1>7. \A t \in D : PairStep(greedy, g, t) = PairStep(greedy, h, t)
  <2>1. SUFFICES ASSUME NEW t \in D PROVE PairStep(greedy, g, t) = PairStep(greedy, h, t)
    OBVIOUS
  <2>2. \A i \in 2..Len(t) : g[Remaining(t, i)] = h[Remaining(t, i)]
    <3>. HIDE DEF h
    <3>. QED  BY <1>1, <1>6
  <2>3. t \in Seq(S)
    BY <1>0
  <2>. HIDE DEF h
  <2>. QED  BY <2>2, <2>3, PairStepLocal
<1>8. IsPairTable(greedy, D, h)
  BY <1>7, Zenon DEF IsPairTable
<1>9. IsPairTable(greedy, D, PairTable(greedy, D))
  <2>. HIDE DEF h
  <2>. QED  BY <1>8, Zenon DEF PairTable
<1>. DEFINE T == PairTable(greedy, D)
<1>10. T = [t \in D |-> PairStep(greedy, T, t)]
  BY <1>9 DEF IsPairTable
<1>11. \A t \in D : T[t] = PairStep(greedy, T, t)
  <2>. HIDE DEF T
  <2>. QED  BY <1>10
<1>. QED  BY <1>11 DEF D

-----------------------------------------------------------------------------
(* Pairings of a set of players.                                           *)

Sides(m) == {m[1], m[2]}

\* M is a list of pairs in which every member of T is once.
PairsUp(M, T) ==
    /\ M \in Seq(T \X T)
    /\ \A i \in DOMAIN M : M[i][1] # M[i][2]
    /\ \A p \in T : \E i \in DOMAIN M : p \in Sides(M[i])
    /\ \A i, j \in DOMAIN M : i # j => Sides(M[i]) \cap Sides(M[j]) = {}

\* No pair of the list has met.
NoRepeat(M) == \A i \in DOMAIN M : Meetings(M[i][1], M[i][2]) = 0

Repeated(P) == \E e \in P : \E p, q \in e : p # q /\ Meetings(p, q) > 0

\* Every way of pairing T repeats a match.
Unpairable(T) == \A P \in PairingsOf(T) : Repeated(P)

\* The empty list pairs up nobody.
LEMMA NobodyPaired == PairsUp(<<>>, {}) /\ NoRepeat(<<>>)
BY DEF PairsUp, NoRepeat

\* A list with one element in front.
LEMMA Prepended ==
  ASSUME NEW X, NEW a \in X, NEW M \in Seq(X)
  PROVE  /\ <<a>> \o M \in Seq(X) /\ Len(<<a>> \o M) = Len(M) + 1
         /\ (<<a>> \o M)[1] = a
         /\ \A i \in 1..Len(M) : (<<a>> \o M)[i + 1] = M[i]
         /\ \A i \in 1..(Len(M) + 1) : (i = 1 \/ (i - 1 \in 1..Len(M) /\ (<<a>> \o M)[i] = M[i - 1]))
<1>1. <<a>> \in Seq(X) /\ Len(<<a>>) = 1 /\ <<a>>[1] = a
  OBVIOUS
<1>. DEFINE one == <<a>>
<1>2. one \in Seq(X) /\ Len(one) = 1 /\ one[1] = a
  BY <1>1
<1>. HIDE DEF one
<1>3. Len(M) \in Nat
  OBVIOUS
<1>c. /\ one \o M \in Seq(X) /\ Len(one \o M) = Len(one) + Len(M)
      /\ \A i \in 1..(Len(one) + Len(M)) :
            (one \o M)[i] = IF i <= Len(one) THEN one[i] ELSE M[i - Len(one)]
  <2>1. one \in Seq(X)
    BY <1>2
  <2>. QED  BY <2>1
<1>4. one \o M \in Seq(X) /\ Len(one \o M) = Len(M) + 1
  <2>1. ASSUME NEW k \in Nat PROVE 1 + k = k + 1
    OBVIOUS
  <2>. QED  BY <1>2, <1>3, <1>c, <2>1
<1>d. \A i \in 1..(1 + Len(M)) : (one \o M)[i] = IF i <= 1 THEN one[i] ELSE M[i - 1]
  BY <1>2, <1>c
<1>5. (one \o M)[1] = a
  <2>1. 1 \in 1..(1 + Len(M)) /\ 1 <= 1
    BY <1>3
  <2>. QED  BY <1>2, <1>d, <2>1
<1>7. ASSUME NEW i \in 1..(Len(M) + 1), i # 1
      PROVE  i - 1 \in 1..Len(M) /\ (one \o M)[i] = M[i - 1]
  <2>1. i - 1 \in 1..Len(M) /\ i \in 1..(1 + Len(M)) /\ ~(i <= 1)
    BY <1>3, <1>7
  <2>. QED  BY <1>d, <2>1
<1>6. ASSUME NEW i \in 1..Len(M) PROVE (one \o M)[i + 1] = M[i]
  <2>1. i + 1 \in 1..(Len(M) + 1) /\ (i + 1) - 1 = i /\ i + 1 # 1
    BY <1>3
  <2>2. (one \o M)[i + 1] = M[(i + 1) - 1]
    BY <1>7, <2>1
  <2>. QED  BY <2>1, <2>2
<1>8. \A i \in 1..(Len(M) + 1) : (i = 1 \/ (i - 1 \in 1..Len(M) /\ (one \o M)[i] = M[i - 1]))
  BY <1>7, Zenon
<1>9. \A i \in 1..Len(M) : (one \o M)[i + 1] = M[i]
  BY <1>6, Zenon
<1>. QED  BY <1>4, <1>5, <1>8, <1>9 DEF one

\* A pair in front of a pairing of the others.
LEMMA PairPrepended ==
  ASSUME NEW T, NEW a \in T, NEW b \in T, a # b, NEW M, PairsUp(M, T \ {a, b})
  PROVE  /\ PairsUp(<<<<a, b>>>> \o M, T)
         /\ Meetings(a, b) = 0 /\ NoRepeat(M) => NoRepeat(<<<<a, b>>>> \o M)
<1>. DEFINE U == T \ {a, b}
            N == <<<<a, b>>>> \o M
            n == Len(M)
<1>0. M \in Seq(T \X T) /\ <<a, b>> \in T \X T /\ n \in Nat /\ DOMAIN M = 1..n
  BY DEF PairsUp
<1>1. /\ \A i \in 1..n : M[i][1] \in U /\ M[i][2] \in U /\ M[i][1] # M[i][2]
      /\ \A p \in U : \E i \in 1..n : p \in Sides(M[i])
      /\ \A i, j \in 1..n : i # j => Sides(M[i]) \cap Sides(M[j]) = {}
  <2>1. M \in Seq(U \X U)
    BY DEF PairsUp
  <2>2. \A i \in 1..n : M[i] \in U \X U
    <3>. HIDE DEF U
    <3>. QED  BY <2>1
  <2>3. \A i \in 1..n : M[i][1] \in U /\ M[i][2] \in U
    <3>. HIDE DEF U
    <3>. QED  BY <2>2
  <2>. QED  BY <1>0, <2>3, Zenon DEF PairsUp
<1>2. /\ N \in Seq(T \X T) /\ Len(N) = n + 1 /\ N[1] = <<a, b>>
      /\ \A i \in 1..n : N[i + 1] = M[i]
      /\ \A i \in 1..(n + 1) : (i = 1 \/ (i - 1 \in 1..n /\ N[i] = M[i - 1]))
  <2>. DEFINE X == T \X T
              c == <<a, b>>
  <2>1. c \in X /\ M \in Seq(X)
    BY <1>0
  <2>. HIDE DEF X, c
  <2>2. /\ <<c>> \o M \in Seq(X) /\ Len(<<c>> \o M) = Len(M) + 1
        /\ (<<c>> \o M)[1] = c
        /\ \A i \in 1..Len(M) : (<<c>> \o M)[i + 1] = M[i]
        /\ \A i \in 1..(Len(M) + 1) : (i = 1 \/ (i - 1 \in 1..Len(M) /\ (<<c>> \o M)[i] = M[i - 1]))
    BY <2>1, Prepended
  <2>. QED  BY <2>2, Zenon DEF X, c
<1>. HIDE DEF N, n
<1>3. DOMAIN N = 1..(n + 1)
  BY <1>2
<1>4. ASSUME NEW i \in 1..(n + 1) PROVE N[i][1] # N[i][2]
  BY <1>1, <1>2
<1>5. ASSUME NEW p \in T PROVE \E i \in 1..(n + 1) : p \in Sides(N[i])
  <2>1. CASE p \in {a, b}
    <3>1. 1 \in 1..(n + 1) /\ p \in Sides(N[1])
      BY <1>0, <1>2, <2>1 DEF Sides
    <3>. QED  BY <3>1
  <2>2. CASE p \notin {a, b}
    <3>1. PICK i \in 1..n : p \in Sides(M[i])
      BY <1>1, <2>2
    <3>2. i + 1 \in 1..(n + 1) /\ N[i + 1] = M[i]
      BY <1>0, <1>2
    <3>. QED  BY <3>1, <3>2
  <2>. QED  BY <2>1, <2>2
<1>6. Sides(N[1]) = {a, b} /\ \A i \in 1..n : Sides(M[i]) \cap {a, b} = {}
  BY <1>1, <1>2 DEF Sides
<1>7. ASSUME NEW i \in 1..(n + 1), NEW j \in 1..(n + 1), i # j
      PROVE  Sides(N[i]) \cap Sides(N[j]) = {}
  <2>1. CASE i = 1
    <3>1. j - 1 \in 1..n /\ N[j] = M[j - 1]
      BY <1>2, <1>7, <2>1
    <3>. QED  BY <1>6, <2>1, <3>1
  <2>2. CASE j = 1
    <3>1. i - 1 \in 1..n /\ N[i] = M[i - 1]
      BY <1>2, <1>7, <2>2
    <3>. QED  BY <1>6, <2>2, <3>1
  <2>3. CASE i # 1 /\ j # 1
    <3>1. i - 1 \in 1..n /\ N[i] = M[i - 1] /\ j - 1 \in 1..n /\ N[j] = M[j - 1]
      BY <1>2, <2>3
    <3>2. i - 1 # j - 1
      BY <1>0, <1>7
    <3>. QED  BY <1>1, <3>1, <3>2
  <2>. QED  BY <2>1, <2>2, <2>3
<1>8. PairsUp(N, T)
  BY <1>2, <1>3, <1>4, <1>5, <1>7 DEF PairsUp
<1>9. ASSUME Meetings(a, b) = 0, NoRepeat(M), NEW i \in 1..(n + 1)
      PROVE  Meetings(N[i][1], N[i][2]) = 0
  <2>1. CASE i = 1
    BY <1>2, <1>9, <2>1
  <2>2. CASE i # 1
    <3>1. i - 1 \in 1..n /\ N[i] = M[i - 1]
      BY <1>2, <2>2
    <3>. QED  BY <1>0, <1>9, <3>1 DEF NoRepeat, n
  <2>. QED  BY <2>1, <2>2
<1>. QED  BY <1>3, <1>8, <1>9 DEF NoRepeat, N

\* A pairing is not null.
LEMMA PairingIsNotNull ==
  ASSUME NEW f \in Fields, NEW T \in SUBSET ToSet(f), NEW M, PairsUp(M, T)
  PROVE  M # NoPairing
<1>1. M \in Seq(T \X T)
  BY DEF PairsUp
<1>2. ASSUME NEW i \in 1..Len(M) PROVE M[i] \in Seq(ToSet(f))
  <2>1. M[i] \in T \X T
    BY <1>1
  <2>2. PICK a \in ToSet(f), b \in ToSet(f) : M[i] = <<a, b>>
    BY <2>1
  <2>. QED  BY <2>2
<1>3. M \in Seq(Seq(ToSet(f)))
  <2>1. M \in [1..Len(M) -> Seq(ToSet(f))] /\ Len(M) \in Nat
    BY <1>1, <1>2
  <2>. QED  BY <2>1, RankSequence
<1>. QED  BY <1>3, SwissAssumption

\* A set of two members that holds a is a pair of a and another one.
LEMMA TwoMembers ==
  ASSUME NEW e, IsFiniteSet(e), Cardinality(e) = 2, NEW a \in e
  PROVE  \E b \in e : b # a /\ e = {a, b}
<1>1. IsFiniteSet(e \ {a}) /\ Cardinality(e \ {a}) = 1
  BY FS_RemoveElement
<1>2. PICK b : e \ {a} = {b}
  BY <1>1, FS_Singleton
<1>. QED  BY <1>2

\* Taking a pair out of a pairing leaves a pairing of the others.
LEMMA PairingWithout ==
  ASSUME NEW T, NEW P \in PairingsOf(T), NEW e \in P
  PROVE  P \ {e} \in PairingsOf(T \ e)
<1>1. /\ \A d \in P : d \subseteq T /\ Cardinality(d) = 2
      /\ UNION P = T
      /\ \A c, d \in P : c = d \/ c \cap d = {}
  BY DEF PairingsOf
<1>2. \A d \in P \ {e} : d \subseteq T \ e /\ Cardinality(d) = 2
  BY <1>1
<1>3. UNION (P \ {e}) = T \ e
  BY <1>1, <1>2
<1>. QED  BY <1>1, <1>2, <1>3 DEF PairingsOf

\* The first player meets somebody in every pairing: if it met that one
\* before, or the others cannot be paired without repeats, so does the whole.
LEMMA EveryOpponentFails ==
  ASSUME NEW T, IsFiniteSet(T), Counted(T), NEW t, Lineup(t, T), t # <<>>,
         \A i \in 2..Len(t) : Meetings(t[1], t[i]) # 0 \/ Unpairable(T \ {t[1], t[i]})
  PROVE  Unpairable(T)
<1>. SUFFICES ASSUME NEW P \in PairingsOf(T) PROVE Repeated(P)
  BY DEF Unpairable
<1>0. /\ Len(t) \in Nat /\ 1 \in 1..Len(t) /\ t[1] \in T
      /\ \A p \in T : \E i \in 1..Len(t) : t[i] = p
  <2>1. /\ Len(t) \in Nat /\ t \in Seq(T)
        /\ \A i \in 1..Len(t) : t[i] \in T
        /\ \A p \in T : \E i \in 1..Len(t) : t[i] = p
    BY LineupPlaces DEF Lineup
  <2>2. Len(t) # 0
    BY <2>1
  <2>. QED  BY <2>1, <2>2
<1>1. /\ \A d \in P : d \subseteq T /\ Cardinality(d) = 2
      /\ UNION P = T
  BY DEF PairingsOf
<1>2. PICK e \in P : t[1] \in e
  BY <1>0, <1>1
<1>3. IsFiniteSet(e) /\ Cardinality(e) = 2
  BY <1>1, <1>2, FS_Subset
<1>4. PICK b \in e : b # t[1] /\ e = {t[1], b}
  BY <1>2, <1>3, TwoMembers
<1>5. b \in T
  BY <1>1, <1>2, <1>4
<1>6. PICK i \in 1..Len(t) : t[i] = b
  BY <1>0, <1>5
<1>7. i \in 2..Len(t)
  <2>1. i # 1
    BY <1>4, <1>6
  <2>. QED  BY <1>0, <1>6, <2>1
<1>8. CASE Meetings(t[1], t[i]) # 0
  <2>1. Meetings(t[1], b) \in Nat
    BY <1>0, <1>5 DEF Counted
  <2>2. Meetings(t[1], b) > 0
    BY <1>6, <1>8, <2>1
  <2>. QED  BY <1>2, <1>4, <2>2 DEF Repeated
<1>9. CASE Unpairable(T \ {t[1], t[i]})
  <2>1. P \ {e} \in PairingsOf(T \ {t[1], t[i]})
    BY <1>2, <1>4, <1>6, PairingWithout
  <2>2. Repeated(P \ {e})
    BY <1>9, <2>1 DEF Unpairable
  <2>. QED  BY <2>2 DEF Repeated
<1>. QED  BY <1>7, <1>8, <1>9

\* A list of no players is empty.
LEMMA EmptyLineup ==
  ASSUME NEW T, NEW t, Lineup(t, T), Len(t) = 0
  PROVE  t = <<>> /\ T = {}
<1>1. t \in Seq(T) /\ \A p \in T : \E i \in 1..Len(t) : t[i] = p
  BY LineupPlaces DEF Lineup
<1>2. t = <<>>
  BY <1>1
<1>3. T = {}
  BY <1>1
<1>. QED  BY <1>2, <1>3

\* What solveBacktrackPairings answers: null if every pairing of the players
\* repeats a match, or else a pairing that repeats none.
Solved(r, T) ==
    \/ r = NoPairing /\ Unpairable(T)
    \/ r # NoPairing /\ PairsUp(r, T) /\ NoRepeat(r)

\* One step of the solver, when the answers for shorter lists are right.
LEMMA SolveStepSound ==
  ASSUME NEW f \in Fields, NEW T \in SUBSET ToSet(f), IsFiniteSet(T), Counted(T),
         NEW t, Lineup(t, T), NEW g,
         \A i \in 2..Len(t) : Solved(g[Remaining(t, i)], T \ {t[1], t[i]})
  PROVE  Solved(SolveStep(g, t), T)
<1>1. CASE t = <<>>
  <2>1. Len(t) = 0
    BY <1>1
  <2>2. T = {}
    BY <2>1, EmptyLineup
  <2>3. SolveStep(g, t) = <<>>
    BY <1>1 DEF SolveStep
  <2>4. PairsUp(<<>>, T) /\ NoRepeat(<<>>)
    BY <2>2, NobodyPaired
  <2>5. <<>> # NoPairing
    BY <2>4, PairingIsNotNull
  <2>. QED  BY <2>3, <2>4, <2>5 DEF Solved
<1>2. CASE t # <<>> /\ Candidates(g, t) = {}
  <2>1. SolveStep(g, t) = NoPairing
    BY <1>2 DEF SolveStep
  <2>2. \A i \in 2..Len(t) : Meetings(t[1], t[i]) # 0 \/ Unpairable(T \ {t[1], t[i]})
    <3>1. ASSUME NEW i \in 2..Len(t), Meetings(t[1], t[i]) = 0
          PROVE  Unpairable(T \ {t[1], t[i]})
      <4>1. g[Remaining(t, i)] = NoPairing
        BY <1>2, <3>1 DEF Candidates
      <4>2. Solved(g[Remaining(t, i)], T \ {t[1], t[i]})
        BY <3>1
      <4>. QED  BY <4>1, <4>2 DEF Solved
    <3>. QED  BY <3>1
  <2>3. Unpairable(T)
    BY <1>2, <2>2, EveryOpponentFails
  <2>. QED  BY <2>1, <2>3 DEF Solved
<1>3. CASE t # <<>> /\ Candidates(g, t) # {}
  <2>. DEFINE i == Min(Candidates(g, t))
  <2>0. Len(t) \in Nat
    BY LineupPlaces
  <2>1. Candidates(g, t) \in SUBSET Nat
    <3>1. Candidates(g, t) \subseteq 2..Len(t)
      BY DEF Candidates
    <3>2. 2..Len(t) \subseteq Nat
      BY <2>0
    <3>. QED  BY <3>1, <3>2
  <2>2. i \in Candidates(g, t)
    BY <1>3, <2>1, LeastPlace
  <2>3. SolveStep(g, t) = <<<<t[1], t[i]>>>> \o g[Remaining(t, i)]
    BY <1>3 DEF SolveStep
  <2>. HIDE DEF i
  <2>4. i \in 2..Len(t) /\ Meetings(t[1], t[i]) = 0 /\ g[Remaining(t, i)] # NoPairing
    BY <2>2 DEF Candidates
  <2>5. PairsUp(g[Remaining(t, i)], T \ {t[1], t[i]}) /\ NoRepeat(g[Remaining(t, i)])
    <3>1. Solved(g[Remaining(t, i)], T \ {t[1], t[i]})
      BY <2>4
    <3>. QED  BY <2>4, <3>1 DEF Solved
  <2>6. t[1] \in T /\ t[i] \in T /\ t[1] # t[i]
    BY <2>4, RemainingLineup
  <2>7. PairsUp(SolveStep(g, t), T) /\ NoRepeat(SolveStep(g, t))
    BY <2>3, <2>4, <2>5, <2>6, PairPrepended
  <2>8. SolveStep(g, t) # NoPairing
    BY <2>7, PairingIsNotNull
  <2>. QED  BY <2>7, <2>8 DEF Solved
<1>. QED  BY <1>1, <1>2, <1>3

\* solveBacktrackPairings finds a pairing without repeats if there is one.
LEMMA SolverSound ==
  ASSUME NEW f \in Fields, NEW S \in SUBSET ToSet(f), IsFiniteSet(S), Counted(S),
         NEW s, Lineup(s, S)
  PROVE  Solved(SolveBacktrackPairings(s), S)
<1>. DEFINE n == Len(s)
            D == BoundedSeq(S, n)
            tab == PairTable(FALSE, D)
            Right(k) == \A T \in SUBSET S : \A t \in D :
                           Lineup(t, T) /\ Len(t) <= k => Solved(tab[t], T)
            G == {k \in Nat : Right(k)}
<1>0. s \in Seq(S) /\ ToSet(s) = S /\ n \in Nat
  BY LineupPlaces DEF Lineup
<1>1. SolveBacktrackPairings(s) = tab[s]
  BY <1>0, PairTableEntries
<1>2. \A t \in D : tab[t] = SolveStep(tab, t)
  <2>1. \A t \in D : tab[t] = PairStep(FALSE, tab, t)
    BY <1>0, PairTableSteps
  <2>2. ASSUME NEW t \in D PROVE tab[t] = SolveStep(tab, t)
    <3>1. tab[t] = PairStep(FALSE, tab, t)
      BY <2>1
    <3>. HIDE DEF tab
    <3>. QED  BY <3>1 DEF PairStep
  <2>. QED  BY <2>2
<1>3. \A t : t \in D <=> t \in Seq(S) /\ Len(t) <= n
  BY <1>0, BoundedSeqPlaces
<1>. HIDE DEF tab, D, n
<1>4. ASSUME NEW T \in SUBSET S, NEW t \in D, Lineup(t, T), NEW i \in 2..Len(t)
      PROVE  /\ Remaining(t, i) \in D /\ T \ {t[1], t[i]} \in SUBSET S
             /\ Lineup(Remaining(t, i), T \ {t[1], t[i]})
             /\ Len(Remaining(t, i)) = Len(t) - 2
  <2>1. /\ Lineup(Remaining(t, i), T \ {t[1], t[i]})
        /\ Len(Remaining(t, i)) = Len(t) - 2
    BY <1>4, RemainingLineup
  <2>2. t \in Seq(S) /\ Len(t) <= n /\ Len(t) \in Nat
    BY <1>3
  <2>3. Remaining(t, i) \in Seq(S)
    BY <2>2, RemainingPlaces
  <2>4. Len(t) - 2 <= n
    BY <1>0, <2>2
  <2>. QED  BY <1>3, <2>1, <2>3, <2>4
<1>5. ASSUME NEW k \in Int, NEW T \in SUBSET S, NEW t \in D, Lineup(t, T), Len(t) <= k + 1, Right(k)
      PROVE  Solved(tab[t], T)
  <2>1. Len(t) \in Nat
    BY <1>3
  <2>2. \A i \in 2..Len(t) : Solved(tab[Remaining(t, i)], T \ {t[1], t[i]})
    <3>1. SUFFICES ASSUME NEW i \in 2..Len(t)
                   PROVE  Solved(tab[Remaining(t, i)], T \ {t[1], t[i]})
      OBVIOUS
    <3>2. /\ Remaining(t, i) \in D /\ T \ {t[1], t[i]} \in SUBSET S
          /\ Lineup(Remaining(t, i), T \ {t[1], t[i]})
          /\ Len(Remaining(t, i)) = Len(t) - 2
      BY <1>4, <1>5
    <3>3. Len(Remaining(t, i)) <= k
      BY <1>5, <2>1, <3>2
    <3>. QED  BY <1>5, <3>2, <3>3
  <2>3. IsFiniteSet(T) /\ Counted(T) /\ T \in SUBSET ToSet(f)
    BY FS_Subset DEF Counted
  <2>4. Solved(SolveStep(tab, t), T)
    BY <1>5, <2>2, <2>3, SolveStepSound
  <2>. QED  BY <1>2, <2>4
<1>6. Right(-1)
  <2>1. \A t \in D : ~(Len(t) <= -1)
    BY <1>3
  <2>. QED  BY <2>1
<1>7. 0 \in G
  <2>1. ASSUME NEW T \in SUBSET S, NEW t \in D, Lineup(t, T), Len(t) <= 0 PROVE Solved(tab[t], T)
    <3>1. -1 \in Int /\ -1 + 1 = 0
      OBVIOUS
    <3>. HIDE DEF Right
    <3>. QED  BY <1>5, <1>6, <2>1, <3>1
  <2>. QED  BY <2>1
<1>8. ASSUME NEW k \in G PROVE k + 1 \in G
  <2>1. k \in Nat /\ k + 1 \in Nat /\ k \in Int /\ Right(k)
    BY <1>8
  <2>2. ASSUME NEW T \in SUBSET S, NEW t \in D, Lineup(t, T), Len(t) <= k + 1
        PROVE  Solved(tab[t], T)
    <3>. HIDE DEF Right
    <3>. QED  BY <1>5, <2>1, <2>2
  <2>3. Right(k + 1)
    BY <2>2
  <2>. HIDE DEF Right
  <2>. QED  BY <2>1, <2>3
<1>9. G = Nat
  <2>1. G \in SUBSET Nat
    OBVIOUS
  <2>. HIDE DEF G
  <2>. QED  BY <1>7, <1>8, <2>1, NatSetInduction
<1>10. Right(n)
  BY <1>0, <1>9
<1>11. s \in D /\ Len(s) <= n /\ S \in SUBSET S
  BY <1>0, <1>3 DEF n
<1>12. Solved(tab[s], S)
  BY <1>10, <1>11
<1>. QED  BY <1>1, <1>12

\* greedyPairingFallback pairs up an even number of players.
LEMMA GreedySound ==
  ASSUME NEW S, Counted(S), NEW s, Lineup(s, S), NEW h \in Nat, Len(s) = 2 * h
  PROVE  PairsUp(GreedyPairingFallback(s), S)
<1>. DEFINE n == Len(s)
            D == BoundedSeq(S, n)
            tab == PairTable(TRUE, D)
            Right(k) == \A T \in SUBSET S : \A t \in D :
                           Lineup(t, T) /\ Len(t) = 2 * k => PairsUp(tab[t], T)
            G == {k \in Nat : Right(k)}
<1>0. s \in Seq(S) /\ ToSet(s) = S /\ n \in Nat
  BY LineupPlaces DEF Lineup
<1>1. GreedyPairingFallback(s) = tab[s]
  BY <1>0, PairTableEntries
<1>2. \A t \in D : tab[t] = GreedyStep(tab, t)
  <2>1. \A t \in D : tab[t] = PairStep(TRUE, tab, t)
    BY <1>0, PairTableSteps
  <2>2. ASSUME NEW t \in D PROVE tab[t] = GreedyStep(tab, t)
    <3>1. tab[t] = PairStep(TRUE, tab, t)
      BY <2>1
    <3>. HIDE DEF tab
    <3>. QED  BY <3>1 DEF PairStep
  <2>. QED  BY <2>2
<1>3. \A t : t \in D <=> t \in Seq(S) /\ Len(t) <= n
  BY <1>0, BoundedSeqPlaces
<1>. HIDE DEF tab, D, n
<1>4. 0 \in G
  <2>1. ASSUME NEW T \in SUBSET S, NEW t \in D, Lineup(t, T), Len(t) = 2 * 0
        PROVE  PairsUp(tab[t], T)
    <3>1. Len(t) = 0 /\ Len(t) < 2
      BY <2>1
    <3>2. T = {}
      BY <2>1, <3>1, EmptyLineup
    <3>3. tab[t] = <<>>
      BY <1>2, <3>1 DEF GreedyStep
    <3>. QED  BY <3>2, <3>3, NobodyPaired
  <2>. QED  BY <2>1
<1>5. ASSUME NEW k \in G PROVE k + 1 \in G
  <2>1. k \in Nat /\ k + 1 \in Nat /\ Right(k)
    BY <1>5
  <2>2. ASSUME NEW T \in SUBSET S, NEW t \in D, Lineup(t, T), Len(t) = 2 * (k + 1)
        PROVE  PairsUp(tab[t], T)
    <3>. DEFINE i == BestOpponent(t)
    <3>1. Len(t) - 2 = 2 * k /\ 2 <= Len(t) /\ ~(Len(t) < 2)
      BY <2>1, <2>2
    <3>2. t \in Seq(S) /\ Len(t) <= n
      BY <1>3
    <3>3. i \in 2..Len(t)
      BY <3>1, <3>2, BestExists
    <3>4. tab[t] = <<<<t[1], t[i]>>>> \o tab[Remaining(t, i)]
      BY <1>2, <3>1 DEF GreedyStep
    <3>. HIDE DEF i
    <3>5. /\ Lineup(Remaining(t, i), T \ {t[1], t[i]})
          /\ Len(Remaining(t, i)) = 2 * k
          /\ t[1] \in T /\ t[i] \in T /\ t[1] # t[i]
      BY <2>2, <3>1, <3>3, RemainingLineup
    <3>6. Remaining(t, i) \in D
      <4>1. Remaining(t, i) \in Seq(S)
        BY <3>2, <3>3, RemainingPlaces
      <4>2. Len(Remaining(t, i)) <= n
        BY <1>0, <2>1, <2>2, <3>2, <3>5
      <4>. QED  BY <1>3, <4>1, <4>2
    <3>7. PairsUp(tab[Remaining(t, i)], T \ {t[1], t[i]})
      BY <2>1, <3>5, <3>6
    <3>. QED  BY <3>4, <3>5, <3>7, PairPrepended
  <2>3. Right(k + 1)
    BY <2>2
  <2>. HIDE DEF Right
  <2>. QED  BY <2>1, <2>3
<1>6. G = Nat
  <2>1. G \in SUBSET Nat
    OBVIOUS
  <2>. HIDE DEF G
  <2>. QED  BY <1>4, <1>5, <2>1, NatSetInduction
<1>7. Right(h)
  BY <1>6
<1>8. s \in D /\ S \in SUBSET S
  <2>1. Len(s) <= n
    BY <1>0 DEF n
  <2>. QED  BY <1>0, <1>3, <2>1
<1>9. PairsUp(tab[s], S)
  BY <1>7, <1>8
<1>. QED  BY <1>1, <1>9

\* The first round pairs up the two halves of the seeds.
LEMMA HalvesPaired ==
  ASSUME NEW S, NEW s, Lineup(s, S), NEW h \in Nat, Len(s) = 2 * h
  PROVE  PairsUp(TopHalfAgainstBottomHalf(s), S)
<1>. DEFINE M == TopHalfAgainstBottomHalf(s)
<1>0. /\ \A i \in 1..(2 * h) : s[i] \in S
      /\ \A p \in S : \E i \in 1..(2 * h) : s[i] = p
      /\ \A i, j \in 1..(2 * h) : s[i] = s[j] => i = j
  BY LineupPlaces
<1>1. Len(s) \div 2 = h
  <2>1. ASSUME NEW k \in Nat PROVE (2 * k) \div 2 = k
    BY Z3
  <2>. QED  BY <2>1
<1>2. M = [i \in 1..h |-> <<s[i], s[i + h]>>]
  BY <1>1 DEF TopHalfAgainstBottomHalf
<1>3. \A i \in 1..h : i \in 1..(2 * h) /\ i + h \in 1..(2 * h) /\ i + h \notin 1..h
  OBVIOUS
<1>4. \A i \in 1..h : M[i] = <<s[i], s[i + h]>> /\ M[i][1] = s[i] /\ M[i][2] = s[i + h]
  BY <1>2
<1>5. M \in Seq(S \X S) /\ DOMAIN M = 1..h
  <2>1. M \in [1..h -> S \X S]
    BY <1>0, <1>2, <1>3
  <2>. HIDE DEF M
  <2>. QED  BY <2>1, RankSequence
<1>. HIDE DEF M
<1>6. ASSUME NEW i \in 1..h PROVE M[i][1] # M[i][2]
  <2>1. i # i + h
    BY <1>3
  <2>. QED  BY <1>0, <1>3, <1>4, <2>1
<1>7. ASSUME NEW p \in S PROVE \E i \in 1..h : p \in Sides(M[i])
  <2>1. PICK i \in 1..(2 * h) : s[i] = p
    BY <1>0
  <2>2. CASE i \in 1..h
    BY <1>4, <2>1, <2>2 DEF Sides
  <2>3. CASE i \notin 1..h
    <3>1. i - h \in 1..h /\ (i - h) + h = i
      BY <2>3
    <3>. QED  BY <1>4, <2>1, <3>1 DEF Sides
  <2>. QED  BY <2>2, <2>3
<1>8. ASSUME NEW i \in 1..h, NEW j \in 1..h, i # j PROVE Sides(M[i]) \cap Sides(M[j]) = {}
  <2>1. i # j + h /\ i + h # j /\ i + h # j + h
    BY <1>3, <1>8
  <2>2. s[i] # s[j] /\ s[i] # s[j + h] /\ s[i + h] # s[j] /\ s[i + h] # s[j + h]
    BY <1>0, <1>3, <1>8, <2>1
  <2>. QED  BY <1>4, <2>2 DEF Sides
<1>. QED  BY <1>5, <1>6, <1>7, <1>8 DEF PairsUp, M

-----------------------------------------------------------------------------
(* Rounds.                                                                 *)

\* Two players have met each other equally often.
MeetingsMutual == \A p, q \in Entrants : Meetings(p, q) = Meetings(q, p)

\* Nobody rests a second time while somebody has not rested.
ByesShared == \A p, q \in Entrants : byes[p] > 1 => byes[q] > 0

\* The inductive invariant.  Nobody has met before the first round, which is
\* why the two halves of the seeds never repeat a match.
SwissInv ==
    /\ SwissTypeOK
    /\ matchups \in Seq(Seq(Entrants))
    /\ MeetingsMutual
    /\ round = 0 => \A p, q \in Entrants : Meetings(p, q) = 0
    /\ stage = "ROUND_ACTIVE" => round # 0
    /\ ByesShared
    /\ RoundsAreFair

\* A field lists its players, of whom there are finitely many.
LEMMA FieldLineup ==
  ASSUME field \in Fields
  PROVE  /\ Lineup(field, Entrants) /\ IsFiniteSet(Entrants)
         /\ Cardinality(Entrants) = Len(field)
<1>1. field \in Seq(Entrants) /\ IsInjective(field)
  BY SwissAssumption DEF Entrants
<1>2. Lineup(field, Entrants)
  BY <1>1 DEF Lineup, Entrants
<1>3. /\ Len(field) \in Nat /\ field \in [1..Len(field) -> Entrants]
      /\ \A p \in Entrants : \E i \in 1..Len(field) : field[i] = p
      /\ \A i, j \in 1..Len(field) : field[i] = field[j] => i = j
  BY <1>1, <1>2, LineupPlaces
<1>4. field \in Bijection(1..Len(field), Entrants)
  BY <1>3 DEF Bijection, Injection, Surjection, IsInjective
<1>5. ExistsBijection(1..Len(field), Entrants)
  BY <1>4 DEF ExistsBijection
<1>6. Cardinality(Entrants) = Len(field)
  BY <1>3, <1>5, FS_CountingElements
<1>7. IsFiniteSet(Entrants)
  <2>1. IsFiniteSet(1..Len(field))
    BY <1>3, IntervalSplit
  <2>. QED  BY <1>5, <2>1, FS_Bijection
<1>. QED  BY <1>2, <1>6, <1>7

\* Every standing lists all players.
LEMMA StandingLineup ==
  ASSUME field \in Fields, NEW s \in Standings
  PROVE  Lineup(s, Entrants)
<1>0. /\ Lineup(field, Entrants) /\ IsFiniteSet(Entrants)
      /\ Cardinality(Entrants) = Len(field) /\ Len(field) \in Nat
  BY FieldLineup, LineupPlaces
<1>1. CASE round = 0
  BY <1>0, <1>1 DEF Standings
<1>2. CASE round # 0
  <2>. DEFINE n == Cardinality(Entrants)
  <2>1. s \in [1..n -> Entrants] /\ \A i, j \in 1..n : i # j => s[i] # s[j]
    BY <1>2 DEF Standings, SetToSeqs
  <2>2. n \in Nat
    BY <1>0
  <2>. HIDE DEF n
  <2>3. s \in Injection(1..n, Entrants)
    BY <2>1 DEF Injection, IsInjective
  <2>4. IsFiniteSet(1..n) /\ Cardinality(1..n) = n
    <3>1. 1 \in Int /\ n \in Int
      BY <2>2
    <3>2. IsFiniteSet(1..n) /\ Cardinality(1..n) = IF 1 > n THEN 0 ELSE n - 1 + 1
      BY <3>1, FS_Interval
    <3>. QED  BY <2>2, <3>2
  <2>5. Cardinality(1..n) = Cardinality(Entrants)
    BY <2>4 DEF n
  <2>6. s \in Surjection(1..n, Entrants)
    BY <1>0, <2>3, <2>5, FS_Injection
  <2>7. s \in Seq(Entrants) /\ DOMAIN s = 1..n
    BY <2>1, <2>2, RankSequence
  <2>8. ToSet(s) = Entrants
    BY <2>1, <2>6, <2>7 DEF ToSet, Surjection
  <2>. QED  BY <2>3, <2>7, <2>8 DEF Lineup, Injection
<1>. QED  BY <1>1, <1>2

\* A pairing without repeats, or one of players that cannot be paired otherwise.
FairPairs(M, T) == PairsUp(M, T) /\ (NoRepeat(M) \/ Unpairable(T))

\* computePairings pairs up an even number of players, without repeats if
\* that is possible.
LEMMA PairingsFair ==
  ASSUME SwissInv, NEW S \in SUBSET Entrants, NEW s, Lineup(s, S),
         NEW h \in Nat, Len(s) = 2 * h
  PROVE  FairPairs(Pairings(s), S)
<1>0. field \in Fields /\ IsFiniteSet(S) /\ S \in SUBSET ToSet(field)
  <2>1. field \in Fields
    BY DEF SwissInv, SwissTypeOK
  <2>. QED  BY <2>1, FieldLineup, FS_Subset DEF Entrants
<1>1. Counted(S)
  BY DEF SwissInv, SwissTypeOK, Counted, Meetings
<1>2. CASE round = 0
  <2>. DEFINE M == TopHalfAgainstBottomHalf(s)
  <2>1. PairsUp(M, S)
    BY HalvesPaired
  <2>2. \A p, q \in Entrants : Meetings(p, q) = 0
    BY <1>2 DEF SwissInv
  <2>. HIDE DEF M
  <2>3. \A i \in DOMAIN M : M[i][1] \in Entrants /\ M[i][2] \in Entrants
    <3>1. M \in Seq(S \X S)
      BY <2>1 DEF PairsUp
    <3>2. \A i \in DOMAIN M : M[i] \in S \X S
      BY <3>1
    <3>. QED  BY <3>2
  <2>4. NoRepeat(M)
    BY <2>2, <2>3 DEF NoRepeat
  <2>. QED  BY <1>2, <2>1, <2>4 DEF FairPairs, Pairings, M
<1>3. CASE round # 0
  <2>1. Solved(SolveBacktrackPairings(s), S)
    BY <1>0, <1>1, SolverSound
  <2>2. PairsUp(GreedyPairingFallback(s), S)
    BY <1>1, GreedySound
  <2>. QED  BY <1>3, <2>1, <2>2 DEF FairPairs, Solved, Pairings, PairByScoreBrackets
<1>. QED  BY <1>2, <1>3

\* A pair is a sequence of its two sides.
LEMMA PairAsSequence ==
  ASSUME NEW T, NEW m \in T \X T
  PROVE  m \in Seq(T) /\ Len(m) = 2 /\ ToSet(m) = Sides(m) /\ Sides(m) \subseteq T
<1>1. PICK a \in T, b \in T : m = <<a, b>>
  OBVIOUS
<1>2. m \in Seq(T) /\ Len(m) = 2 /\ DOMAIN m = 1..2 /\ m[1] = a /\ m[2] = b
  BY <1>1
<1>3. ToSet(m) = {a, b}
  <2>1. 1..2 = {1, 2}
    OBVIOUS
  <2>. QED  BY <1>2, <2>1 DEF ToSet
<1>. QED  BY <1>2, <1>3 DEF Sides

\* The places of a player in a round.
PlacesOf(p, R) == {i \in DOMAIN R : p \in ToSet(R[i])}

\* In a pairing every player has one place.
LEMMA PairedOnce ==
  ASSUME NEW M, NEW T, PairsUp(M, T), NEW p \in T
  PROVE  \E i \in DOMAIN M : PlacesOf(p, M) = {i}
<1>1. M \in Seq(T \X T)
  BY DEF PairsUp
<1>2. \A i \in DOMAIN M : ToSet(M[i]) = Sides(M[i])
  <2>1. \A i \in DOMAIN M : M[i] \in T \X T
    BY <1>1
  <2>. QED  BY <2>1, PairAsSequence
<1>3. PICK i \in DOMAIN M : p \in Sides(M[i])
  BY DEF PairsUp
<1>4. \A j \in DOMAIN M : p \in Sides(M[j]) => j = i
  BY <1>3 DEF PairsUp
<1>5. PlacesOf(p, M) = {i}
  BY <1>2, <1>3, <1>4 DEF PlacesOf
<1>. QED  BY <1>5

\* The matches of a fair pairing hold the players, and repeat one only if
\* every pairing of them does.
LEMMA MatchesFair ==
  ASSUME MeetingsMutual, NEW T \in SUBSET Entrants, NEW M, FairPairs(M, T)
  PROVE  /\ UNION {ToSet(m) : m \in ToSet(M)} = T
         /\ Repeated({ToSet(m) : m \in ToSet(M)}) => Unpairable(T)
<1>0. M \in Seq(T \X T) /\ PairsUp(M, T)
  BY DEF FairPairs, PairsUp
<1>1. \A i \in DOMAIN M : ToSet(M[i]) = Sides(M[i]) /\ Sides(M[i]) \subseteq T
  <2>1. \A i \in DOMAIN M : M[i] \in T \X T
    BY <1>0
  <2>. QED  BY <2>1, PairAsSequence
<1>2. ToSet(M) = {M[i] : i \in DOMAIN M}
  BY DEF ToSet
<1>3. UNION {ToSet(m) : m \in ToSet(M)} = T
  <2>1. \A p \in T : \E i \in DOMAIN M : p \in ToSet(M[i])
    BY <1>0, <1>1 DEF PairsUp
  <2>. QED  BY <1>1, <1>2, <2>1
<1>4. ASSUME NoRepeat(M) PROVE ~Repeated({ToSet(m) : m \in ToSet(M)})
  <2>1. SUFFICES ASSUME NEW i \in DOMAIN M, NEW p \in ToSet(M[i]), NEW q \in ToSet(M[i]), p # q
                 PROVE  ~(Meetings(p, q) > 0)
    BY <1>2 DEF Repeated
  <2>2. Meetings(M[i][1], M[i][2]) = 0 /\ Meetings(M[i][2], M[i][1]) = 0
    <3>1. M[i][1] \in Entrants /\ M[i][2] \in Entrants
      BY <1>1 DEF Sides
    <3>. QED  BY <1>4, <3>1 DEF NoRepeat, MeetingsMutual
  <2>3. (p = M[i][1] /\ q = M[i][2]) \/ (p = M[i][2] /\ q = M[i][1])
    BY <1>1, <2>1 DEF Sides
  <2>. QED  BY <2>2, <2>3
<1>. QED  BY <1>3, <1>4 DEF FairPairs

\* The matches of the round R.
MatchesIn(R) == {m \in ToSet(R) : Len(m) = 2}

\* R is a round everybody is in once, whose matches are fair.
FairRound(R) ==
    /\ R \in Seq(Seq(Entrants))
    /\ \A i \in DOMAIN R : Len(R[i]) \in 1..2 /\ ToSet(R[i]) \subseteq Entrants
    /\ \A p \in Entrants : Cardinality(PlacesOf(p, R)) = 1
    /\ Repeated({ToSet(m) : m \in MatchesIn(R)})
         => Unpairable(UNION {ToSet(m) : m \in MatchesIn(R)})

\* The pairs of a pairing are sequences of two players.
LEMMA PairsAsSequences ==
  ASSUME NEW X, NEW T \in SUBSET X, NEW M, PairsUp(M, T)
  PROVE  /\ M \in Seq(Seq(X)) /\ Len(M) \in Nat /\ DOMAIN M = 1..Len(M)
         /\ \A i \in 1..Len(M) : M[i] \in Seq(X) /\ Len(M[i]) = 2 /\ ToSet(M[i]) \subseteq T
<1>1. M \in Seq(T \X T) /\ Len(M) \in Nat /\ DOMAIN M = 1..Len(M)
  BY DEF PairsUp
<1>2. ASSUME NEW i \in 1..Len(M)
      PROVE  M[i] \in Seq(X) /\ Len(M[i]) = 2 /\ ToSet(M[i]) \subseteq T
  <2>1. M[i] \in T \X T
    BY <1>1
  <2>2. M[i] \in Seq(T) /\ Len(M[i]) = 2 /\ ToSet(M[i]) \subseteq T
    BY <2>1, PairAsSequence
  <2>. QED  BY <2>2
<1>3. M \in Seq(Seq(X))
  <2>1. M \in [1..Len(M) -> Seq(X)]
    BY <1>1, <1>2
  <2>. QED  BY <1>1, <2>1, RankSequence
<1>. QED  BY <1>1, <1>2, <1>3

\* With an even number of players the round is a pairing of all.
LEMMA EvenRoundFair ==
  ASSUME MeetingsMutual, NEW M, FairPairs(M, Entrants)
  PROVE  FairRound(M)
<1>1. PairsUp(M, Entrants)
  BY DEF FairPairs
<1>2. /\ M \in Seq(Seq(Entrants)) /\ DOMAIN M = 1..Len(M)
      /\ \A i \in 1..Len(M) : Len(M[i]) = 2 /\ ToSet(M[i]) \subseteq Entrants
  <2>1. Entrants \in SUBSET Entrants
    OBVIOUS
  <2>2. M \in Seq(Seq(Entrants)) /\ DOMAIN M = 1..Len(M)
    BY <1>1, <2>1, PairsAsSequences
  <2>3. \A i \in 1..Len(M) : M[i] \in Seq(Entrants) /\ Len(M[i]) = 2 /\ ToSet(M[i]) \subseteq Entrants
    BY <1>1, <2>1, PairsAsSequences
  <2>. QED  BY <2>2, <2>3
<1>3. MatchesIn(M) = ToSet(M)
  BY <1>2 DEF MatchesIn, ToSet
<1>4. ASSUME NEW p \in Entrants PROVE Cardinality(PlacesOf(p, M)) = 1
  <2>1. PICK i \in DOMAIN M : PlacesOf(p, M) = {i}
    BY <1>1, PairedOnce
  <2>. QED  BY <2>1, FS_Singleton
<1>5. /\ UNION {ToSet(m) : m \in ToSet(M)} = Entrants
      /\ Repeated({ToSet(m) : m \in ToSet(M)}) => Unpairable(Entrants)
  BY MatchesFair
<1>6. \A i \in DOMAIN M : Len(M[i]) \in 1..2 /\ ToSet(M[i]) \subseteq Entrants
  BY <1>2
<1>. QED  BY <1>2, <1>3, <1>4, <1>5, <1>6 DEF FairRound

\* With an odd number one player rests and the others are paired.
LEMMA OddRoundFair ==
  ASSUME MeetingsMutual, NEW r \in Entrants, NEW M, FairPairs(M, Entrants \ {r})
  PROVE  FairRound(<<<<r>>>> \o M)
<1>. DEFINE T == Entrants \ {r}
            n == Len(M)
            bye == <<r>>
            R == <<bye>> \o M
<1>1. PairsUp(M, T) /\ T \in SUBSET Entrants
  BY DEF FairPairs
<1>2. /\ M \in Seq(Seq(Entrants)) /\ n \in Nat /\ DOMAIN M = 1..n
      /\ \A i \in 1..n : Len(M[i]) = 2 /\ ToSet(M[i]) \subseteq T
  <2>. HIDE DEF T
  <2>1. M \in Seq(Seq(Entrants)) /\ Len(M) \in Nat /\ DOMAIN M = 1..Len(M)
    BY <1>1, PairsAsSequences
  <2>2. \A i \in 1..Len(M) : M[i] \in Seq(Entrants) /\ Len(M[i]) = 2 /\ ToSet(M[i]) \subseteq T
    BY <1>1, PairsAsSequences
  <2>. QED  BY <2>1, <2>2
<1>3. bye \in Seq(Entrants) /\ Len(bye) = 1 /\ ToSet(bye) = {r}
  <2>1. bye \in Seq(Entrants) /\ Len(bye) = 1 /\ DOMAIN bye = 1..1 /\ bye[1] = r
    OBVIOUS
  <2>2. 1..1 = {1}
    OBVIOUS
  <2>. HIDE DEF bye
  <2>. QED  BY <2>1, <2>2 DEF ToSet
<1>. HIDE DEF bye
<1>4. /\ R \in Seq(Seq(Entrants)) /\ Len(R) = n + 1 /\ R[1] = bye
      /\ \A i \in 1..n : R[i + 1] = M[i]
      /\ \A i \in 1..(n + 1) : (i = 1 \/ (i - 1 \in 1..n /\ R[i] = M[i - 1]))
  BY <1>2, <1>3, Prepended
<1>. HIDE DEF R, n, T
<1>5. DOMAIN R = 1..(n + 1) /\ 1 \in 1..(n + 1)
  BY <1>2, <1>4
<1>6. \A i \in DOMAIN R : Len(R[i]) \in 1..2 /\ ToSet(R[i]) \subseteq Entrants
  <2>1. SUFFICES ASSUME NEW i \in 1..(n + 1)
                 PROVE  Len(R[i]) \in 1..2 /\ ToSet(R[i]) \subseteq Entrants
    BY <1>5
  <2>2. CASE i = 1
    BY <1>3, <1>4, <2>2
  <2>3. CASE i # 1
    <3>1. i - 1 \in 1..n /\ R[i] = M[i - 1]
      BY <1>4, <2>3
    <3>. QED  BY <1>1, <1>2, <3>1
  <2>. QED  BY <2>2, <2>3
<1>7. MatchesIn(R) = ToSet(M)
  <2>1. ASSUME NEW m \in ToSet(M) PROVE m \in MatchesIn(R)
    <3>1. PICK i \in 1..n : m = M[i]
      BY <1>2 DEF ToSet
    <3>2. i + 1 \in DOMAIN R /\ R[i + 1] = m /\ Len(m) = 2
      BY <1>2, <1>4, <1>5, <3>1
    <3>. QED  BY <3>2 DEF MatchesIn, ToSet
  <2>2. ASSUME NEW m \in MatchesIn(R) PROVE m \in ToSet(M)
    <3>1. PICK i \in 1..(n + 1) : m = R[i] /\ Len(m) = 2
      BY <1>5 DEF MatchesIn, ToSet
    <3>2. i # 1
      <4>1. Len(R[1]) # 2
        <5>1. R[1] = bye /\ Len(bye) = 1
          BY <1>3, <1>4
        <5>. QED  BY <5>1
      <4>. QED  BY <3>1, <4>1
    <3>3. i - 1 \in DOMAIN M /\ m = M[i - 1]
      BY <1>2, <1>4, <3>1, <3>2
    <3>. QED  BY <3>3 DEF ToSet
  <2>. QED  BY <2>1, <2>2
<1>8. ASSUME NEW p \in Entrants PROVE Cardinality(PlacesOf(p, R)) = 1
  <2>1. CASE p = r
    <3>1. ASSUME NEW i \in 1..(n + 1), p \in ToSet(R[i]) PROVE i = 1
      <4>1. SUFFICES ASSUME i # 1 PROVE FALSE
        OBVIOUS
      <4>2. i - 1 \in 1..n /\ R[i] = M[i - 1]
        BY <1>4, <4>1
      <4>3. p \in T
        BY <1>2, <3>1, <4>2
      <4>. QED  BY <2>1, <4>3 DEF T
    <3>2. p \in ToSet(R[1])
      BY <1>3, <1>4, <2>1
    <3>3. PlacesOf(p, R) = {1}
      BY <1>5, <3>1, <3>2 DEF PlacesOf
    <3>. QED  BY <3>3, FS_Singleton
  <2>2. CASE p # r
    <3>1. p \in T
      BY <2>2 DEF T
    <3>2. PICK k \in DOMAIN M : PlacesOf(p, M) = {k}
      BY <1>1, <3>1, PairedOnce
    <3>3. k \in 1..n /\ k + 1 \in 1..(n + 1) /\ R[k + 1] = M[k] /\ p \in ToSet(M[k])
      BY <1>2, <1>4, <3>2 DEF PlacesOf
    <3>4. ASSUME NEW i \in 1..(n + 1), p \in ToSet(R[i]) PROVE i = k + 1
      <4>1. i # 1
        BY <1>3, <1>4, <2>2, <3>4
      <4>2. i - 1 \in 1..n /\ R[i] = M[i - 1]
        BY <1>4, <4>1
      <4>3. i - 1 \in PlacesOf(p, M)
        BY <1>2, <3>4, <4>2 DEF PlacesOf
      <4>4. i - 1 = k
        BY <3>2, <4>3
      <4>. QED  BY <1>2, <4>4
    <3>5. PlacesOf(p, R) = {k + 1}
      BY <1>5, <3>3, <3>4 DEF PlacesOf
    <3>. QED  BY <3>5, FS_Singleton
  <2>. QED  BY <2>1, <2>2
<1>9. /\ UNION {ToSet(m) : m \in ToSet(M)} = T
      /\ Repeated({ToSet(m) : m \in ToSet(M)}) => Unpairable(T)
  <2>1. FairPairs(M, T)
    BY DEF T
  <2>. QED  BY <1>1, <2>1, MatchesFair
<1>10. FairRound(R)
  BY <1>4, <1>6, <1>7, <1>8, <1>9 DEF FairRound
<1>. QED  BY <1>10 DEF R, bye

\* An even natural is twice a natural, and so is one less than an odd one.
LEMMA Halves ==
  ASSUME NEW n \in Nat
  PROVE  /\ n % 2 = 0 => \E h \in Nat : n = 2 * h
         /\ n % 2 # 0 => n # 0 /\ \E h \in Nat : n - 1 = 2 * h
<1>1. ASSUME NEW m \in Nat
      PROVE  /\ m \div 2 \in Nat /\ m % 2 \in {0, 1} /\ m = 2 * (m \div 2) + (m % 2)
  BY Z3
<1>. DEFINE d == n \div 2
            e == n % 2
<1>2. d \in Nat /\ e \in {0, 1} /\ n = 2 * d + e
  BY <1>1
<1>. HIDE DEF d, e
<1>3. e = 0 => n = 2 * d
  BY <1>2
<1>4. e # 0 => n # 0 /\ n - 1 = 2 * d
  BY <1>2
<1>. QED  BY <1>2, <1>3, <1>4 DEF e

\* A set of places up to n has a greatest member.
LEMMA GreatestPlace ==
  ASSUME NEW n \in Nat, NEW W \in SUBSET (1..n), W # {}
  PROVE  \E x \in W : \A y \in W : y <= x
<1>. DEFINE B == {n - x : x \in W}
<1>1. B \in SUBSET Nat /\ B # {}
  <2>1. \A x \in W : n - x \in Nat
    <3>1. \A x \in 1..n : n - x \in Nat
      OBVIOUS
    <3>. QED  BY <3>1
  <2>. QED  BY <2>1
<1>2. Min(B) \in B /\ \A y \in B : Min(B) <= y
  <2>. HIDE DEF B
  <2>. QED  BY <1>1, LeastPlace
<1>3. PICK x \in W : Min(B) = n - x
  BY <1>2
<1>4. ASSUME NEW y \in W PROVE y <= x
  <2>1. n - y \in B
    OBVIOUS
  <2>2. n - x <= n - y
    BY <1>2, <1>3, <2>1
  <2>3. x \in Nat /\ y \in Nat
    OBVIOUS
  <2>. HIDE DEF B
  <2>. QED  BY <2>2, <2>3
<1>. QED  BY <1>4

-----------------------------------------------------------------------------
(* The inductive invariant of the tournament.                              *)

\* SwissInv holds initially.
LEMMA SwissInitially == SwissInit => SwissInv
<1>. SUFFICES ASSUME SwissInit PROVE SwissInv
  OBVIOUS
<1>1. SwissTypeOK /\ matchups \in Seq(Seq(Entrants))
  BY SwissAssumption DEF SwissInit, SwissTypeOK
<1>2. \A p, q \in Entrants : Meetings(p, q) = 0 /\ byes[p] = 0
  BY DEF SwissInit, Meetings
<1>3. MeetingsMutual
  BY <1>2 DEF MeetingsMutual
<1>4. ByesShared
  BY <1>2 DEF ByesShared
<1>5. stage # "ROUND_ACTIVE"
  BY DEF SwissInit
<1>. QED  BY <1>1, <1>2, <1>3, <1>4, <1>5 DEF SwissInv, RoundsAreFair

\* The players of the round after the bye, and who rests.
Resting(s) == s[ByePlace(s)]

\* The place of the bye is a place of the standing, and the player there has
\* not rested unless everybody has.
LEMMA ByeIsDue ==
  ASSUME SwissInv, NEW s, Lineup(s, Entrants), Len(s) # 0
  PROVE  /\ ByePlace(s) \in 1..Len(s) /\ Resting(s) \in Entrants
         /\ byes[Resting(s)] = 0 \/ \A q \in Entrants : byes[q] > 0
<1>. DEFINE W == {i \in DOMAIN s : byes[s[i]] = 0}
<1>0. /\ Len(s) \in Nat /\ DOMAIN s = 1..Len(s)
      /\ \A i \in 1..Len(s) : s[i] \in Entrants
      /\ \A p \in Entrants : \E i \in 1..Len(s) : s[i] = p
  BY LineupPlaces
<1>1. byes \in [Entrants -> Nat]
  BY DEF SwissInv, SwissTypeOK
<1>2. CASE W = {}
  <2>1. ByePlace(s) = Len(s)
    BY <1>2 DEF ByePlace
  <2>2. Len(s) \in 1..Len(s)
    BY <1>0
  <2>3. \A q \in Entrants : byes[q] > 0
    <3>1. SUFFICES ASSUME NEW q \in Entrants PROVE byes[q] > 0
      OBVIOUS
    <3>2. PICK i \in 1..Len(s) : s[i] = q
      BY <1>0
    <3>3. byes[q] # 0 /\ byes[q] \in Nat
      BY <1>0, <1>1, <1>2, <3>2
    <3>. QED  BY <3>3
  <2>. QED  BY <1>0, <2>1, <2>2, <2>3 DEF Resting
<1>3. CASE W # {}
  <2>1. ByePlace(s) = Max(W)
    BY <1>3 DEF ByePlace
  <2>2. Max(W) \in W
    <3>1. W \in SUBSET (1..Len(s))
      BY <1>0
    <3>. HIDE DEF W
    <3>2. PICK x \in W : \A y \in W : y <= x
      BY <1>0, <1>3, <3>1, GreatestPlace
    <3>3. \A y \in W : x >= y
      BY <1>0, <3>1, <3>2
    <3>. QED  BY <3>3, Zenon DEF Max
  <2>3. ByePlace(s) \in 1..Len(s) /\ byes[s[ByePlace(s)]] = 0
    BY <1>0, <2>1, <2>2
  <2>. QED  BY <1>0, <2>3 DEF Resting
<1>. QED  BY <1>2, <1>3

\* generateNextRound preserves SwissInv.
LEMMA GeneratePreserves ==
  ASSUME SwissInv, GenerateNextRound
  PROVE  SwissInv'
<1>0. /\ field \in Fields /\ field' = field /\ met' = met /\ Entrants' = Entrants
      /\ round \in 0..TotalRounds /\ round < TotalRounds /\ round' = round + 1
      /\ stage' = "ROUND_ACTIVE"
      /\ byes \in [Entrants -> Nat] /\ matchPoints \in [Entrants -> Nat]
      /\ met \in [Entrants \X Entrants -> Nat]
      /\ TotalRounds \in Nat
  BY SwissAssumption DEF SwissInv, SwissTypeOK, GenerateNextRound, Entrants
<1>1. MeetingsMutual /\ ByesShared
  BY DEF SwissInv
<1>2. PICK s \in Standings :
          IF Len(s) % 2 = 0
          THEN matchups' = Pairings(s) /\ UNCHANGED <<byes, matchPoints>>
          ELSE /\ matchups' = <<<<Resting(s)>>>> \o Pairings(RemoveAt(s, ByePlace(s)))
               /\ byes' = [byes EXCEPT ![Resting(s)] = @ + 1]
               /\ matchPoints' = [matchPoints EXCEPT ![Resting(s)] = @ + 3]
  BY DEF GenerateNextRound, Resting
<1>3. Lineup(s, Entrants) /\ Len(s) \in Nat
  BY <1>0, StandingLineup, LineupPlaces
<1>4. FairRound(matchups') /\ byes' \in [Entrants -> Nat] /\ matchPoints' \in [Entrants -> Nat]
      /\ \A p, q \in Entrants : byes'[p] > 1 => byes'[q] > 0
  <2>1. CASE Len(s) % 2 = 0
    <3>1. PICK h \in Nat : Len(s) = 2 * h
      BY <1>3, <2>1, Halves
    <3>2. FairPairs(Pairings(s), Entrants)
      BY <1>3, <3>1, PairingsFair
    <3>3. FairRound(Pairings(s))
      BY <1>1, <3>2, EvenRoundFair
    <3>4. matchups' = Pairings(s) /\ byes' = byes /\ matchPoints' = matchPoints
      BY <1>2, <2>1
    <3>. QED  BY <1>0, <1>1, <3>3, <3>4 DEF ByesShared
  <2>2. CASE Len(s) % 2 # 0
    <3>. DEFINE k == ByePlace(s)
                r == Resting(s)
                t == RemoveAt(s, k)
    <3>1. PICK h \in Nat : Len(s) - 1 = 2 * h
      BY <1>3, <2>2, Halves
    <3>2. k \in 1..Len(s) /\ r \in Entrants /\ r = s[k]
          /\ (byes[r] = 0 \/ \A q \in Entrants : byes[q] > 0)
      <4>1. Len(s) # 0
        BY <1>3, <2>2, Halves
      <4>. QED  BY <1>3, <4>1, ByeIsDue DEF Resting
    <3>3. /\ matchups' = <<<<r>>>> \o Pairings(t)
          /\ byes' = [byes EXCEPT ![r] = @ + 1]
          /\ matchPoints' = [matchPoints EXCEPT ![r] = @ + 3]
      BY <1>2, <2>2
    <3>. HIDE DEF k, r
    <3>4. Lineup(t, Entrants \ {r}) /\ Len(t) = 2 * h
      BY <1>3, <3>1, <3>2, RemoveAtLineup
    <3>. HIDE DEF t
    <3>5. FairPairs(Pairings(t), Entrants \ {r})
      <4>1. Entrants \ {r} \in SUBSET Entrants
        OBVIOUS
      <4>. QED  BY <3>4, <4>1, PairingsFair
    <3>6. FairRound(matchups')
      BY <1>1, <3>2, <3>3, <3>5, OddRoundFair
    <3>7. byes' \in [Entrants -> Nat] /\ matchPoints' \in [Entrants -> Nat]
      <4>1. r \in Entrants /\ byes[r] + 1 \in Nat /\ matchPoints[r] + 3 \in Nat
        BY <1>0, <3>2
      <4>2. byes' \in [Entrants -> Nat]
        BY <1>0, <3>3, <4>1
      <4>3. matchPoints' \in [Entrants -> Nat]
        BY <1>0, <3>3, <4>1
      <4>. QED  BY <4>2, <4>3
    <3>8. ASSUME NEW p \in Entrants, NEW q \in Entrants, byes'[p] > 1 PROVE byes'[q] > 0
      <4>1. \A x \in Entrants : byes[x] \in Nat /\ byes'[x] = IF x = r THEN byes[x] + 1 ELSE byes[x]
        BY <1>0, <3>3
      <4>2. CASE p = r
        <5>1. byes[r] # 0
          BY <3>8, <4>1, <4>2
        <5>2. byes[q] > 0
          BY <3>2, <5>1
        <5>. QED  BY <4>1, <5>2
      <4>3. CASE p # r
        <5>1. byes[p] > 1
          BY <3>8, <4>1, <4>3
        <5>2. byes[q] > 0
          BY <1>1, <5>1 DEF ByesShared
        <5>. QED  BY <4>1, <5>2
      <4>. QED  BY <4>2, <4>3
    <3>. QED  BY <3>6, <3>7, <3>8
  <2>. QED  BY <2>1, <2>2
<1>5. SwissTypeOK'
  <2>1. round' \in 0..TotalRounds
    BY <1>0
  <2>2. \A i \in DOMAIN matchups' : Len(matchups'[i]) \in 1..2 /\ ToSet(matchups'[i]) \subseteq Entrants
    BY <1>4 DEF FairRound
  <2>. QED  BY <1>0, <1>4, <2>1, <2>2 DEF SwissTypeOK
<1>6. matchups' \in Seq(Seq(Entrants'))
  BY <1>0, <1>4 DEF FairRound
<1>7. MeetingsMutual'
  BY <1>0, <1>1 DEF MeetingsMutual, Meetings
<1>8. ByesShared'
  BY <1>0, <1>4 DEF ByesShared
<1>9. round' # 0
  BY <1>0
<1>10. RoundsAreFair'
  <2>1. /\ \A p \in Entrants : Cardinality({i \in DOMAIN matchups' : p \in ToSet(matchups'[i])}) = 1
        /\ Repeated({ToSet(m) : m \in {x \in ToSet(matchups') : Len(x) = 2}})
             => \A P \in PairingsOf(UNION {ToSet(m) : m \in {x \in ToSet(matchups') : Len(x) = 2}}) :
                   Repeated(P)
    BY <1>4 DEF FairRound, PlacesOf, MatchesIn, Unpairable
  <2>2. \A P : Repeated(P) <=> \E e \in P : \E p, q \in e : p # q /\ met'[<<p, q>>] > 0
    BY <1>0 DEF Repeated, Meetings
  <2>. QED  BY <1>0, <1>4, <2>1, <2>2, Zenon DEF RoundsAreFair, Meetings
<1>. QED  BY <1>5, <1>6, <1>7, <1>8, <1>9, <1>10 DEF SwissInv

\* submitRoundResults preserves SwissInv.
LEMMA SubmitPreserves ==
  ASSUME SwissInv, SubmitRoundResults
  PROVE  SwissInv'
<1>. DEFINE matches == {m \in ToSet(matchups) : Len(m) = 2}
            MatchOf(p) == {m \in matches : p \in ToSet(m)}
            Between(pair) == {m \in matches : ToSet(m) = {pair[1], pair[2]}}
<1>0. /\ field' = field /\ Entrants' = Entrants /\ round' = round /\ byes' = byes
      /\ matchups' = matchups /\ round # 0
      /\ stage' \in {"ROUND_COMPLETED", "TOURNAMENT_COMPLETED"}
      /\ SwissTypeOK /\ MeetingsMutual /\ ByesShared
      /\ matchups \in Seq(Seq(Entrants))
  BY DEF SwissInv, SubmitRoundResults, Entrants
<1>1. IsFiniteSet(matches)
  <2>1. IsFiniteSet(DOMAIN matchups)
    <3>1. DOMAIN matchups = 1..Len(matchups) /\ Len(matchups) \in Nat
      BY <1>0
    <3>. QED  BY <3>1, IntervalSplit
  <2>. DEFINE D == DOMAIN matchups
              R == {matchups[i] : i \in D}
              img == [i \in D |-> matchups[i]]
  <2>2. img \in Surjection(D, R)
    BY DEF Surjection
  <2>3. IsFiniteSet(R)
    <3>. HIDE DEF img, R, D
    <3>1. IsFiniteSet(D)
      BY <2>1 DEF D
    <3>. QED  BY <2>2, <3>1, FS_Surjection
  <2>4. matches \in SUBSET R
    BY DEF ToSet
  <2>. HIDE DEF R, matches
  <2>. QED  BY <2>3, <2>4, FS_Subset
<1>2. \A pair : Cardinality(Between(pair)) \in Nat
  <2>1. SUFFICES ASSUME NEW pair PROVE Cardinality(Between(pair)) \in Nat
    OBVIOUS
  <2>2. Between(pair) \in SUBSET matches
    OBVIOUS
  <2>. HIDE DEF Between, matches
  <2>. QED  BY <1>1, <2>2, FS_Subset, FS_CardinalityType
<1>3. met' = [pair \in Entrants \X Entrants |-> met[pair] + Cardinality(Between(pair))]
  BY DEF SubmitRoundResults
<1>4. met' \in [Entrants \X Entrants -> Nat]
  <2>1. met \in [Entrants \X Entrants -> Nat]
    BY <1>0 DEF SwissTypeOK
  <2>. HIDE DEF Between
  <2>. QED  BY <1>2, <1>3, <2>1
<1>5. MeetingsMutual'
  <2>1. SUFFICES ASSUME NEW p \in Entrants, NEW q \in Entrants PROVE met'[<<p, q>>] = met'[<<q, p>>]
    BY <1>0 DEF MeetingsMutual, Meetings
  <2>2. met[<<p, q>>] = met[<<q, p>>]
    BY <1>0 DEF MeetingsMutual, Meetings
  <2>3. Between(<<p, q>>) = Between(<<q, p>>)
    <3>1. {<<p, q>>[1], <<p, q>>[2]} = {<<q, p>>[1], <<q, p>>[2]}
      OBVIOUS
    <3>. QED  BY <3>1, Zenon
  <2>4. <<p, q>> \in Entrants \X Entrants /\ <<q, p>> \in Entrants \X Entrants
    OBVIOUS
  <2>. HIDE DEF Between
  <2>. QED  BY <1>3, <2>2, <2>3, <2>4
<1>6. matchPoints' \in [Entrants -> Nat]
  <2>1. PICK result \in [matches -> {"home", "away", "draw"}] :
          matchPoints' = [p \in Entrants |-> matchPoints[p] + MapThenSumSet(
              LAMBDA m : PointsFor(IF m[1] = p THEN "home" ELSE "away", result[m]), MatchOf(p))]
    BY Zenon DEF SubmitRoundResults
  <2>2. matchPoints \in [Entrants -> Nat]
    BY <1>0 DEF SwissTypeOK
  <2>. DEFINE Points(p, m) == PointsFor(IF m[1] = p THEN "home" ELSE "away", result[m])
              total(p) == MapThenSumSet(LAMBDA m : Points(p, m), MatchOf(p))
  <2>3. ASSUME NEW p \in Entrants PROVE total(p) \in Nat
    <3>. DEFINE T == MatchOf(p)
                w == [m \in T |-> Points(p, m)]
    <3>1. total(p) = SumFunctionOnSet(w, T)
      <4>. HIDE DEF MatchOf, Points
      <4>. QED  BY ZenonT(60) DEF MapThenSumSet, MapThenFoldSet, SumFunctionOnSet, FoldFunctionOnSet
    <3>2. IsFiniteSet(T)
      <4>1. T \in SUBSET matches
        OBVIOUS
      <4>. HIDE DEF T, matches
      <4>. QED  BY <1>1, <4>1, FS_Subset
    <3>3. \A m \in T : w[m] \in Nat
      BY DEF PointsFor
    <3>4. SumFunctionOnSet(w, T) \in Nat
      <4>. HIDE DEF w, T
      <4>. QED  BY <3>2, <3>3, SumNat
    <3>. QED  BY <3>1, <3>4
  <2>4. matchPoints' = [p \in Entrants |-> matchPoints[p] + total(p)]
    BY <2>1
  <2>. HIDE DEF total
  <2>. QED  BY <2>2, <2>3, <2>4
<1>7. SwissTypeOK'
  <2>1. /\ field \in Fields /\ round \in 0..TotalRounds /\ byes \in [Entrants -> Nat]
        /\ \A i \in DOMAIN matchups :
              Len(matchups[i]) \in 1..2 /\ ToSet(matchups[i]) \subseteq Entrants
    BY <1>0 DEF SwissTypeOK
  <2>. QED  BY <1>0, <1>4, <1>6, <2>1 DEF SwissTypeOK
<1>8. ByesShared'
  BY <1>0 DEF ByesShared
<1>9. RoundsAreFair' /\ stage' # "ROUND_ACTIVE" /\ round' # 0 /\ matchups' \in Seq(Seq(Entrants'))
  BY <1>0 DEF RoundsAreFair
<1>. QED  BY <1>5, <1>7, <1>8, <1>9 DEF SwissInv

\* A step that changes nothing preserves SwissInv.
LEMMA SwissStutters ==
  ASSUME SwissInv, UNCHANGED swissVars
  PROVE  SwissInv'
BY ZenonT(60) DEF SwissInv, swissVars, SwissTypeOK, Entrants, Meetings, MeetingsMutual, ByesShared,
       RoundsAreFair

\* SwissInv holds in every reachable state of a tournament.
THEOREM SwissInvariant == SwissSpec => []SwissInv
<1>1. SwissInv /\ [SwissNext]_swissVars => SwissInv'
  BY GeneratePreserves, SubmitPreserves, SwissStutters DEF SwissNext
<1>. QED  BY <1>1, SwissInitially, PTL DEF SwissSpec

\* generateNextRound makes fair rounds, for any field and number of rounds:
\* everybody is in the round once, nobody rests twice while somebody has not
\* rested, and a match is repeated only if every pairing repeats one.
THEOREM RoundsAreFairHolds == SwissSpec => []RoundsAreFair
<1>1. SwissInv => RoundsAreFair
  BY DEF SwissInv
<1>. QED  BY <1>1, SwissInvariant, PTL
=============================================================================
