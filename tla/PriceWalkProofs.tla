-------------------------- MODULE PriceWalkProofs ---------------------------
(***************************************************************************)
(* What is proved of the prices, for any number of hubs and rounds and any *)
(* submissions:                                                            *)
(*                                                                         *)
(*   MedianHeldByMajority       a minority cannot push the median out of   *)
(*                              the range of the others                    *)
(*   HonestProposalsAreSigned   hubs with the same submissions and the     *)
(*                              same reference co-sign one another         *)
(*                                                                         *)
(* The median is a matter of ranks: however many values are trimmed at     *)
(* both ends, its middles have the middle ranks of all of them, and ranks  *)
(* are compared by counting.  A follower leaves out the proposer's value,  *)
(* which moves every rank by at most one: the median with it lies between  *)
(* the middles without it, or the other way round.                         *)
(***************************************************************************)
EXTENDS PriceWalk, FiniteSetTheorems, NaturalsInduction, WellFoundedInduction, TLAPS

----------------------------------------------------------------------------
(***************************************************************************)
(* Ranks.  D is the set of senders with a usable value, v their values.    *)
(***************************************************************************)

\* x is the k-th smallest of the values.
Ranked(D, v, k, x) ==
    /\ \E h \in D : v[h] = x
    /\ Cardinality({h \in D : v[h] < x}) < k
    /\ Cardinality({h \in D : v[h] <= x}) >= k

\* Finitely many, all usable.
Values(D, v) == IsFiniteSet(D) /\ \A h \in D : v[h] \in 1..(PriceMax - 1)

\* Some numbers have a least one.
LEMMA LeastNumber ==
    ASSUME NEW I \in SUBSET Nat, I # {}
    PROVE  \E x \in I : \A y \in I : x <= y
  <1>1. PICK x \in I : \A y \in I : ~(<<y, x>> \in OpToRel(<, Nat))
    BY NatLessThanWellFounded, WFMin
  <1>2. ASSUME NEW y \in I, y < x PROVE FALSE
    BY <1>1, <1>2 DEF OpToRel
  <1> QED
    BY <1>2

\* The counts of senders by value.
LEMMA Counted ==
    ASSUME NEW D, IsFiniteSet(D), NEW v, NEW x
    PROVE  /\ IsFiniteSet({h \in D : v[h] < x}) /\ IsFiniteSet({h \in D : v[h] <= x})
           /\ Cardinality({h \in D : v[h] < x}) \in Nat
           /\ Cardinality({h \in D : v[h] <= x}) \in Nat
           /\ Cardinality(D) \in Nat
  BY FS_Subset, FS_CardinalityType

\* A larger set has as many members, at least.
LEMMA CountGrows ==
    ASSUME NEW A, NEW B, IsFiniteSet(B), A \subseteq B
    PROVE  IsFiniteSet(A) /\ Cardinality(A) \in Nat /\ Cardinality(B) \in Nat
           /\ Cardinality(A) <= Cardinality(B)
  BY FS_Subset, FS_CardinalityType

\* Every rank up to their number is taken.
LEMMA RankExists ==
    ASSUME NEW D, NEW v, Values(D, v), NEW k \in 1..Cardinality(D)
    PROVE  \E x \in 1..(PriceMax - 1) : Ranked(D, v, k, x)
  <1> DEFINE N(x) == Cardinality({h \in D : v[h] <= x})
             I == {x \in 1..(PriceMax - 1) : N(x) >= k}
  <1>1. IsFiniteSet(D) /\ (\A h \in D : v[h] \in 1..(PriceMax - 1)) /\ Cardinality(D) \in Nat
    BY FS_CardinalityType DEF Values
  <1>2. PICK h0 \in D : TRUE
    BY <1>1, FS_EmptySet
  <1>3. PriceMax - 1 \in I
    <2>1. PriceMax - 1 \in 1..(PriceMax - 1)
      BY <1>1, <1>2, PercentAssumption
    <2>2. {h \in D : v[h] <= PriceMax - 1} = D
      BY <1>1
    <2> QED
      BY <1>1, <2>1, <2>2
  <1>4. PICK x \in I : \A y \in I : x <= y
    <2> HIDE DEF I
    <2>1. I \in SUBSET Nat
      BY DEF I
    <2> QED
      BY <1>3, <2>1, LeastNumber
  <1>5. x \in 1..(PriceMax - 1) /\ N(x) >= k /\ N(x) \in Nat
    <2>1. x \in 1..(PriceMax - 1) /\ N(x) >= k
      BY <1>4
    <2>2. N(x) \in Nat
      BY <1>1, Counted
    <2> QED
      BY <2>1, <2>2
  <1>6. Cardinality({h \in D : v[h] < x}) < k
    <2>1. CASE x = 1
      <3>1. {h \in D : v[h] < x} = {}
        BY <1>1, <2>1
      <3> QED
        BY <3>1, FS_EmptySet
    <2>2. CASE x # 1
      <3>1. x - 1 \in 1..(PriceMax - 1) /\ x - 1 \notin I
        BY <1>4, <1>5, <2>2, PercentAssumption
      <3>2. N(x - 1) < k
        <4>1. N(x - 1) \in Nat
          BY <1>1, Counted
        <4> QED
          BY <3>1, <4>1
      <3>3. {h \in D : v[h] < x} = {h \in D : v[h] <= x - 1}
        BY <1>1, <1>5, PercentAssumption
      <3> QED
        BY <3>2, <3>3
    <2> QED
      BY <2>1, <2>2
  <1>7. \E h \in D : v[h] = x
    <2>1. SUFFICES ASSUME \A h \in D : v[h] # x PROVE FALSE
      OBVIOUS
    <2>2. {h \in D : v[h] < x} = {h \in D : v[h] <= x}
      BY <1>1, <1>5, <2>1, PercentAssumption
    <2> QED
      BY <1>5, <1>6, <2>2
  <1> QED
    BY <1>5, <1>6, <1>7 DEF Ranked

\* With fewer senders the value of a rank is no smaller, and a higher rank has no
\* smaller one.
LEMMA RankOfFewer ==
    ASSUME NEW D, NEW v, Values(D, v), NEW E \in SUBSET D,
           NEW i \in Nat, NEW x \in Int, Ranked(D, v, i, x),
           NEW j \in Nat, NEW y \in Int, Ranked(E, v, j, y), i <= j
    PROVE  x <= y
  <1> SUFFICES ASSUME y < x PROVE FALSE
    OBVIOUS
  <1>1. {h \in E : v[h] <= y} \subseteq {h \in D : v[h] < x}
    BY DEF Values
  <1>2. IsFiniteSet({h \in D : v[h] < x})
    BY Counted DEF Values
  <1>3. Cardinality({h \in E : v[h] <= y}) <= Cardinality({h \in D : v[h] < x})
        /\ Cardinality({h \in E : v[h] <= y}) \in Nat /\ Cardinality({h \in D : v[h] < x}) \in Nat
    BY <1>1, <1>2, CountGrows
  <1> QED
    BY <1>3 DEF Ranked

\* Without one of the senders the value of a rank is no larger than the next one was.
LEMMA RankOfOneLess ==
    ASSUME NEW D, NEW v, Values(D, v), NEW p \in D,
           NEW i \in Nat, NEW x \in Int, Ranked(D, v, i, x),
           NEW j \in Nat, NEW y \in Int, Ranked(D \ {p}, v, j, y), j < i
    PROVE  y <= x
  <1> SUFFICES ASSUME x < y PROVE FALSE
    OBVIOUS
  <1> DEFINE U == {h \in D : v[h] <= x}
  <1>1. IsFiniteSet(U) /\ Cardinality(U) \in Nat /\ IsFiniteSet(D \ {p})
    BY Counted, FS_Subset DEF Values
  <1>2. Cardinality(U \ {p}) >= Cardinality(U) - 1
    BY <1>1, FS_RemoveElement
  <1>3. U \ {p} \subseteq {h \in D \ {p} : v[h] < y}
    BY DEF Values
  <1>4. IsFiniteSet({h \in D \ {p} : v[h] < y})
    BY <1>1, Counted
  <1>5. Cardinality(U \ {p}) <= Cardinality({h \in D \ {p} : v[h] < y})
        /\ Cardinality(U \ {p}) \in Nat /\ Cardinality({h \in D \ {p} : v[h] < y}) \in Nat
    BY <1>3, <1>4, CountGrows
  <1> QED
    BY <1>1, <1>2, <1>5 DEF Ranked

\* A submitted set is sorted: the k-th value is the one of rank k.
LEMMA SortedIsRanked ==
    ASSUME NEW subs, NEW pair, NEW D, D = collectPairValues(subs, pair), NEW v, Values(D, v),
           \A h \in D : v[h] = subs[h][pair], NEW k \in 1..Cardinality(D)
    PROVE  /\ Ranked(D, v, k, SortedValue(subs, pair, k))
           /\ SortedValue(subs, pair, k) \in 1..(PriceMax - 1)
  <1> DEFINE Is(x) == /\ Cardinality({h \in D : subs[h][pair] < x}) < k
                      /\ Cardinality({h \in D : subs[h][pair] <= x}) >= k
             V == {subs[h][pair] : h \in D}
  <1>1. \A x : /\ {h \in D : subs[h][pair] < x} = {h \in D : v[h] < x}
               /\ {h \in D : subs[h][pair] <= x} = {h \in D : v[h] <= x}
    OBVIOUS
  <1>2. PICK x \in 1..(PriceMax - 1) : Ranked(D, v, k, x)
    BY RankExists
  <1>3. x \in V /\ Is(x)
    BY <1>1, <1>2 DEF Ranked
  <1>4. SortedValue(subs, pair, k) = CHOOSE y \in V : Is(y)
    BY DEF SortedValue
  <1>5. SortedValue(subs, pair, k) \in V /\ Is(SortedValue(subs, pair, k))
    <2> HIDE DEF V, Is
    <2> QED
      BY <1>3, <1>4
  <1> QED
    BY <1>1, <1>5 DEF Ranked, Values

\* However many values are cut at both ends, the middles are those of all.
LEMMA MiddlesAreRanked ==
    ASSUME NEW subs, NEW pair, NEW D, D = collectPairValues(subs, pair), NEW v, Values(D, v),
           \A h \in D : v[h] = subs[h][pair], D # {}
    PROVE  \E a, b \in 1..(PriceMax - 1) :
              /\ Middles(subs, pair) = <<a, b>> /\ a <= b
              /\ Ranked(D, v, (Cardinality(D) + 1) \div 2, a)
              /\ Ranked(D, v, Cardinality(D) \div 2 + 1, b)
  <1> DEFINE n == Cardinality(D)
             cut == trimPairValues(n)
             left == n - 2 * cut
             i == (n + 1) \div 2
             j == n \div 2 + 1
  <1>1. n \in Nat /\ n >= 1
    BY FS_CardinalityType, FS_EmptySet DEF Values
  <1>2. cut \in Nat /\ cut + (left + 1) \div 2 = i /\ cut + left \div 2 + 1 = j
    <2> HIDE DEF n
    <2> QED
      BY <1>1 DEF trimPairValues
  <1>3. i \in 1..n /\ j \in 1..n /\ i <= j
    <2> HIDE DEF n
    <2> QED
      BY <1>1
  <1>4. Middles(subs, pair) = <<SortedValue(subs, pair, i), SortedValue(subs, pair, j)>>
    BY <1>2 DEF Middles
  <1>5. /\ Ranked(D, v, i, SortedValue(subs, pair, i))
        /\ Ranked(D, v, j, SortedValue(subs, pair, j))
        /\ SortedValue(subs, pair, i) \in 1..(PriceMax - 1)
        /\ SortedValue(subs, pair, j) \in 1..(PriceMax - 1)
    BY <1>3, SortedIsRanked
  <1>6. SortedValue(subs, pair, i) <= SortedValue(subs, pair, j)
    <2>1. i \in Nat /\ j \in Nat
      BY <1>3
    <2> HIDE DEF i, j
    <2> QED
      BY <1>3, <1>5, <2>1, RankOfFewer
  <1> QED
    BY <1>4, <1>5, <1>6

\* The mean of two numbers, rounded, is between them.
LEMMA MeanBetween ==
    ASSUME NEW a \in Int, NEW b \in Int, a <= b
    PROVE  medianOf(<<a, b>>) \in Int /\ a <= medianOf(<<a, b>>) /\ medianOf(<<a, b>>) <= b
           /\ (a = b => medianOf(<<a, b>>) = a)
  BY DEF medianOf

----------------------------------------------------------------------------
(***************************************************************************)
(* A minority of submitters.                                               *)
(***************************************************************************)

\* A set of more members than another has one the other has not.
LEMMA OneMore ==
    ASSUME NEW A, NEW B, IsFiniteSet(B), IsFiniteSet(A), Cardinality(A) > Cardinality(B)
    PROVE  \E h \in A : h \notin B
  <1> SUFFICES ASSUME A \subseteq B PROVE FALSE
    OBVIOUS
  <1> QED
    BY CountGrows

\* Both sides of the median of a set there is a value that is not the minority's.
LEMMA MinorityOfSet ==
    ASSUME NEW subs, NEW pair, NEW D, D = collectPairValues(subs, pair), IsFiniteSet(D),
           NEW few \in SUBSET D, 2 * Cardinality(few) < Cardinality(D)
    PROVE  \E g, h \in D \ few : /\ subs[g][pair] <= medianOf(Middles(subs, pair))
                                 /\ medianOf(Middles(subs, pair)) <= subs[h][pair]
  <1>1. PICK v : v = [h \in D |-> subs[h][pair]]
    OBVIOUS
  <1>2. Values(D, v) /\ \A h \in D : v[h] = subs[h][pair]
    BY <1>1 DEF Values, collectPairValues
  <1>3. IsFiniteSet(few) /\ Cardinality(few) \in Nat /\ Cardinality(D) \in Nat /\ D # {}
    BY FS_Subset, FS_CardinalityType, FS_EmptySet
  <1>4. PICK a \in 1..(PriceMax - 1), b \in 1..(PriceMax - 1) :
              /\ Middles(subs, pair) = <<a, b>> /\ a <= b
              /\ Ranked(D, v, (Cardinality(D) + 1) \div 2, a)
              /\ Ranked(D, v, Cardinality(D) \div 2 + 1, b)
    BY <1>2, <1>3, MiddlesAreRanked
  <1>5. a <= medianOf(<<a, b>>) /\ medianOf(<<a, b>>) <= b /\ medianOf(<<a, b>>) \in Int
        /\ a \in Int /\ b \in Int
    BY <1>4, MeanBetween
  <1>6. PICK g \in D : v[g] <= a /\ g \notin few
    <2> DEFINE U == {h \in D : v[h] <= a}
    <2>1. IsFiniteSet(U) /\ Cardinality(U) \in Nat
      BY FS_Subset, FS_CardinalityType, U \in SUBSET D
    <2>2. Cardinality(U) >= (Cardinality(D) + 1) \div 2
      BY <1>4 DEF Ranked
    <2>3. Cardinality(U) > Cardinality(few)
      <3> HIDE DEF U
      <3> QED
        BY <1>3, <2>1, <2>2
    <2> QED
      BY <1>3, <2>1, <2>3, OneMore
  <1>7. PICK h \in D : b <= v[h] /\ h \notin few
    <2> DEFINE L == {x \in D : v[x] < b}
    <2>1. IsFiniteSet(L) /\ Cardinality(L) \in Nat /\ IsFiniteSet(D \ L) /\ Cardinality(D \ L) \in Nat
      BY Counted, FS_Subset, FS_CardinalityType
    <2>2. Cardinality(D \ L) = Cardinality(D) - Cardinality(L)
      <3>1. Cardinality(D \ L) = Cardinality(D) - Cardinality(D \cap L)
        BY FS_Difference
      <3>2. D \cap L = L
        OBVIOUS
      <3> QED
        BY <3>1, <3>2
    <2>3. Cardinality(L) < Cardinality(D) \div 2 + 1
      BY <1>4 DEF Ranked
    <2>4. Cardinality(D \ L) > Cardinality(few)
      <3> HIDE DEF L
      <3> QED
        BY <1>3, <2>1, <2>2, <2>3
    <2>5. PICK h \in D \ L : h \notin few
      BY <1>3, <2>1, <2>4, OneMore
    <2> QED
      BY <1>2, <1>5, <2>5 DEF Values
  <1>8. v[g] \in Int /\ v[h] \in Int /\ v[g] = subs[g][pair] /\ v[h] = subs[h][pair]
    BY <1>2 DEF Values
  <1>9. v[g] <= medianOf(<<a, b>>) /\ medianOf(<<a, b>>) <= v[h]
    BY <1>5, <1>6, <1>7, <1>8
  <1> QED
    BY <1>4, <1>6, <1>7, <1>8, <1>9

----------------------------------------------------------------------------
(***************************************************************************)
(* What a walk keeps: the submissions, and references in range.            *)
(***************************************************************************)

\* Prices a round may clamp to.
IsReference(last) ==
    \A pair \in DOMAIN last : pair \in DOMAIN MaxChange /\ last[pair] \in 1..(PriceMax - 1)

\* The submissions of finitely many hubs.
IsSubmitted(subs) ==
    /\ IsFiniteSet(DOMAIN subs)
    /\ \A h \in DOMAIN subs : \A pair \in DOMAIN subs[h] :
          pair \in DOMAIN MaxChange /\ subs[h][pair] \in Int

WalkInv ==
    /\ IsSubmitted(quotes)
    /\ \A h \in Quoting : IsReference(ref[h])
    /\ IsReference(published)
    /\ DOMAIN ref = Quoting

\* The senders of a set of submissions and what they sent.
LEMMA SendersFinite ==
    ASSUME NEW subs, IsSubmitted(subs), NEW pair
    PROVE  IsFiniteSet(collectPairValues(subs, pair))
  <1>1. collectPairValues(subs, pair) \subseteq DOMAIN subs
    BY DEF collectPairValues
  <1> QED
    BY <1>1, FS_Subset DEF IsSubmitted

\* The clamp keeps a price in range, and within the pair's percentage of the reference.
LEMMA ClampInRange ==
    ASSUME NEW last, IsReference(last), NEW pair, NEW x \in 1..(PriceMax - 1)
    PROVE  clampToLastFinalized(pair, x, last) \in 1..(PriceMax - 1)
  <1>1. CASE pair \in DOMAIN last
    <2>1. PICK l \in 1..(PriceMax - 1) : l = last[pair]
      BY <1>1 DEF IsReference
    <2>2. MaxChange[pair] \in Nat
      BY <1>1, PercentAssumption DEF IsReference
    <2>3. PICK c \in Nat : c = MaxChange[pair]
      BY <2>2
    <2>4. l * c \in Nat
      BY <2>1, PercentAssumption
    <2>5. PICK d \in Nat : d = MaxDelta(l, c)
      <3>1. \A m \in Nat : (m + 50) \div 100 \in Nat
        OBVIOUS
      <3> QED
        BY <2>4, <3>1 DEF MaxDelta
    <2>6. Bounded(x, l, c) \in 1..(PriceMax - 1)
      BY <2>1, <2>5, PercentAssumption DEF Bounded
    <2> QED
      BY <1>1, <2>1, <2>3, <2>6 DEF clampToLastFinalized
  <1>2. CASE pair \notin DOMAIN last
    BY <1>2 DEF clampToLastFinalized
  <1> QED
    BY <1>1, <1>2

\* What a set of submissions publishes is in range before the clamp.
LEMMA MedianInRange ==
    ASSUME NEW subs, IsSubmitted(subs), NEW pair \in PricedPairs(subs)
    PROVE  medianOf(Middles(subs, pair)) \in 1..(PriceMax - 1)
  <1>1. PICK D : D = collectPairValues(subs, pair)
    OBVIOUS
  <1>2. PICK v : v = [h \in D |-> subs[h][pair]]
    OBVIOUS
  <1>3. Values(D, v) /\ (\A h \in D : v[h] = subs[h][pair]) /\ D # {}
    BY <1>1, <1>2, SendersFinite DEF Values, collectPairValues, PricedPairs
  <1>4. PICK a \in 1..(PriceMax - 1), b \in 1..(PriceMax - 1) :
              Middles(subs, pair) = <<a, b>> /\ a <= b
    BY <1>1, <1>3, MiddlesAreRanked
  <1>5. medianOf(<<a, b>>) \in Int /\ a <= medianOf(<<a, b>>) /\ medianOf(<<a, b>>) <= b
    BY <1>4, MeanBetween, PercentAssumption
  <1>6. medianOf(<<a, b>>) \in 1..(PriceMax - 1)
    BY <1>5, PercentAssumption
  <1> QED
    BY <1>4, <1>6

\* And after the clamp.
LEMMA AggregateInRange ==
    ASSUME NEW subs, IsSubmitted(subs), NEW last, IsReference(last), NEW pair \in PricedPairs(subs)
    PROVE  aggregate(subs, pair, last) \in 1..(PriceMax - 1) /\ pair \in DOMAIN MaxChange
  <1>1. pair \in DOMAIN MaxChange
    BY DEF PricedPairs, IsSubmitted
  <1> QED
    BY <1>1, MedianInRange, ClampInRange DEF aggregate

\* A reference stays one when a round is noted.
LEMMA NotedIsReference ==
    ASSUME NEW subs, IsSubmitted(subs), NEW last, IsReference(last), NEW old, IsReference(old)
    PROVE  IsReference(noteFinalized(old, aggregateAll(subs, last)))
  <1>1. PICK prices : prices = aggregateAll(subs, last)
    OBVIOUS
  <1>2. \A p \in prices : p.price \in 1..(PriceMax - 1) /\ p.coinPair \in DOMAIN MaxChange
    BY <1>1, AggregateInRange DEF aggregateAll
  <1>3. ASSUME NEW pair \in DOMAIN old \cup PairsOf(prices)
        PROVE  pair \in DOMAIN MaxChange /\ noteFinalized(old, prices)[pair] \in 1..(PriceMax - 1)
    <2>1. CASE pair \in PairsOf(prices)
      <3>1. (CHOOSE p \in prices : p.coinPair = pair) \in prices
            /\ (CHOOSE p \in prices : p.coinPair = pair).coinPair = pair
        BY <2>1 DEF PairsOf
      <3>2. noteFinalized(old, prices)[pair] = (CHOOSE p \in prices : p.coinPair = pair).price
        BY <2>1 DEF noteFinalized
      <3> QED
        BY <1>2, <3>1, <3>2
    <2>2. CASE pair \notin PairsOf(prices)
      BY <1>3, <2>2 DEF noteFinalized, IsReference
    <2> QED
      BY <2>1, <2>2
  <1>4. DOMAIN noteFinalized(old, prices) = DOMAIN old \cup PairsOf(prices)
    BY DEF noteFinalized
  <1> QED
    BY <1>1, <1>3, <1>4 DEF IsReference

\* A walk starts so.
LEMMA InitWalkInv == WInit => WalkInv
  <1> SUFFICES ASSUME WInit PROVE WalkInv
    OBVIOUS
  <1>1. PICK w \in Walks : /\ quotes = w.quotes
                           /\ ref = [h \in DOMAIN w.quotes |-> w.last]
                           /\ published = w.last
    BY DEF WInit
  <1>2. IsSubmitted(w.quotes) /\ IsReference(w.last)
    BY WalksAssumption DEF IsSubmitted, IsReference
  <1> QED
    BY <1>1, <1>2 DEF WalkInv, Quoting

\* Rounds and seedings keep it.
LEMMA StepWalkInv == WalkInv /\ [WSteps]_wvars => WalkInv'
  <1> SUFFICES ASSUME WalkInv, [WSteps]_wvars PROVE WalkInv'
    OBVIOUS
  <1>1. ASSUME NEW h \in Quoting, noteIngestedPriceRow(h) PROVE WalkInv'
    <2>1. UNCHANGED <<quotes, published>> /\ ref' = [ref EXCEPT ![h] = published]
      BY <1>1 DEF noteIngestedPriceRow
    <2>2. \A i \in Quoting : ref'[i] = ref[i] \/ ref'[i] = published
      BY <2>1 DEF WalkInv
    <2> QED
      BY <2>1, <2>2 DEF WalkInv, Quoting
  <1>2. ASSUME NEW p \in Quoting, roundFinalizes(p) PROVE WalkInv'
    <2>1. PICK prices, stored :
              /\ prices = aggregateAll(quotes, ref[p])
              /\ published' = noteFinalized(published, prices)
              /\ ref' = [h \in Quoting |->
                            IF h \in stored THEN noteFinalized(ref[h], prices) ELSE ref[h]]
              /\ UNCHANGED quotes
      BY <1>2 DEF roundFinalizes
    <2>2. \A old : IsReference(old) => IsReference(noteFinalized(old, prices))
      BY <2>1, NotedIsReference DEF WalkInv
    <2>3. \A h \in Quoting : IsReference(ref'[h])
      BY <2>1, <2>2 DEF WalkInv
    <2>4. IsReference(published')
      BY <2>1, <2>2 DEF WalkInv
    <2>5. Quoting' = Quoting /\ DOMAIN ref' = Quoting
      BY <2>1 DEF Quoting
    <2> QED
      BY <2>1, <2>3, <2>4, <2>5 DEF WalkInv
  <1>3. CASE UNCHANGED wvars
    BY <1>3 DEF wvars, WalkInv, Quoting
  <1> QED
    BY <1>1, <1>2, <1>3 DEF WSteps

\* A minority of submitters never moves the median out of the range of the others
\* (MinorityBounded), for any number of hubs, any submissions and any trimming.
THEOREM MedianHeldByMajority == WSpec => []MinorityBounded
  <1>1. WalkInv => MinorityBounded
    <2> SUFFICES ASSUME WalkInv, NEW few \in SUBSET Quoting,
                        2 * Cardinality(few) < Cardinality(Quoting),
                        NEW pair, \A h \in Quoting : h \in collectPairValues(quotes, pair)
                 PROVE  \E a, b \in {quotes[h][pair] : h \in Quoting \ few} :
                            /\ a <= medianOf(Middles(quotes, pair))
                            /\ medianOf(Middles(quotes, pair)) <= b
      BY DEF MinorityBounded
    <2>1. collectPairValues(quotes, pair) = Quoting
      BY DEF collectPairValues, Quoting
    <2>2. IsFiniteSet(Quoting)
      BY DEF WalkInv, IsSubmitted, Quoting
    <2>3. \E g, h \in Quoting \ few : /\ quotes[g][pair] <= medianOf(Middles(quotes, pair))
                                      /\ medianOf(Middles(quotes, pair)) <= quotes[h][pair]
      BY <2>1, <2>2, MinorityOfSet
    <2> QED
      BY <2>3
  <1> QED
    BY <1>1, InitWalkInv, StepWalkInv, PTL DEF WSpec

----------------------------------------------------------------------------
(***************************************************************************)
(* The co-sign gate of a hub with the proposer's submissions and reference.*)
(***************************************************************************)

\* A percentage of more is more.
LEMMA MorePercent ==
    ASSUME NEW c \in Nat, NEW x \in Nat, NEW y \in Nat, x <= y
    PROVE  c * x <= c * y /\ c * x \in Nat /\ c * y \in Nat
  <1>1. c * (y - x) \in Nat
    OBVIOUS
  <1>2. c * y = c * x + c * (y - x)
    OBVIOUS
  <1> QED
    BY <1>1, <1>2

\* Moving a price towards a smaller one that is in its band leaves it in the band.
LEMMA BandBelow ==
    ASSUME NEW x \in Nat, NEW m \in Nat, NEW a \in Nat, a <= x, x <= m,
           100 * (m - a) <= Band * m
    PROVE  100 * (x - a) <= Band * x
  <1>1. Band * x \in Nat /\ Band * m \in Nat /\ Band * (m - x) \in Nat /\ Band \in Nat
    BY PercentAssumption
  <1>2. Band * m = Band * x + Band * (m - x)
    BY PercentAssumption
  <1>3. CASE Band <= 100
    <2>1. (m - x) * Band <= (m - x) * 100
      BY <1>1, <1>3, MorePercent, m - x \in Nat
    <2>2. Band * (m - x) <= 100 * (m - x)
      BY <2>1, PercentAssumption
    <2> QED
      BY <1>1, <1>2, <2>2
  <1>4. CASE Band > 100
    <2>1. x * 100 <= x * Band
      BY <1>1, <1>4, MorePercent
    <2>2. 100 * x <= Band * x
      BY <2>1, PercentAssumption
    <2> QED
      BY <1>1, <2>2
  <1> QED
    BY <1>1, <1>3, <1>4

\* So does moving it up towards a larger one.
LEMMA BandAbove ==
    ASSUME NEW x \in Nat, NEW m \in Nat, NEW b \in Nat, m <= x, x <= b,
           100 * (b - m) <= Band * m
    PROVE  100 * (b - x) <= Band * x
  <1>1. Band * m <= Band * x /\ Band * m \in Nat /\ Band * x \in Nat
    BY MorePercent, PercentAssumption
  <1> QED
    BY <1>1

\* x cut to the interval from lo to hi.
Kept(x, lo, hi) == IF x > hi THEN hi ELSE IF x < lo THEN lo ELSE x

\* The interval the clamp keeps a price in; without a reference it is everything.
LEMMA ClampInterval ==
    ASSUME NEW last, IsReference(last), NEW pair
    PROVE  \E lo, hi \in Int : lo <= hi /\ \A x \in 1..(PriceMax - 1) :
              clampToLastFinalized(pair, x, last)
                = Kept(x, lo, hi)
  <1>1. CASE pair \in DOMAIN last
    <2>1. PICK l \in 1..(PriceMax - 1) : l = last[pair]
      BY <1>1 DEF IsReference
    <2>2. MaxChange[pair] \in Nat
      BY <1>1, PercentAssumption DEF IsReference
    <2>3. PICK c \in Nat : c = MaxChange[pair]
      BY <2>2
    <2>4. l * c \in Nat
      BY <2>1, PercentAssumption
    <2>5. PICK d \in Nat : d = MaxDelta(l, c)
      <3>1. \A m \in Nat : (m + 50) \div 100 \in Nat
        OBVIOUS
      <3> QED
        BY <2>4, <3>1 DEF MaxDelta
    <2>6. PICK lo \in Int, hi \in Int : lo = l - d /\ hi = l + d /\ lo <= hi
      BY <2>1, <2>5
    <2>7. \A x : clampToLastFinalized(pair, x, last)
                   = Kept(x, lo, hi)
      BY <1>1, <2>1, <2>3, <2>5, <2>6 DEF Kept, clampToLastFinalized, Bounded
    <2> QED
      BY <2>6, <2>7
  <1>2. CASE pair \notin DOMAIN last
    <2>1. \A x \in 1..(PriceMax - 1) : x <= PriceMax /\ x >= 0
      BY PercentAssumption
    <2>2. 0 \in Int /\ PriceMax \in Int /\ 0 <= PriceMax
      BY PercentAssumption
    <2>3. \A x \in 1..(PriceMax - 1) : clampToLastFinalized(pair, x, last)
                   = Kept(x, 0, PriceMax)
      BY <1>2, <2>1, PercentAssumption DEF Kept, clampToLastFinalized
    <2> QED
      BY <2>2, <2>3
  <1> QED
    BY <1>1, <1>2

\* Of two prices around another, one in whose band it is, one of the clamped ones is
\* in the band of the clamped one.
LEMMA ClampedAround ==
    ASSUME NEW last, IsReference(last), NEW pair,
           NEW a \in 1..(PriceMax - 1), NEW x \in 1..(PriceMax - 1), NEW b \in 1..(PriceMax - 1),
           a <= x, x <= b,
           100 * (x - a) <= Band * x \/ 100 * (b - x) <= Band * x
    PROVE  LET C(y) == clampToLastFinalized(pair, y, last)
           IN  ~exceedsBand(C(a), C(x), Band) \/ ~exceedsBand(C(b), C(x), Band)
  <1> DEFINE C(y) == clampToLastFinalized(pair, y, last)
  <1>1. PICK lo \in Int, hi \in Int : lo <= hi /\ \A y \in 1..(PriceMax - 1) :
              C(y) = Kept(y, lo, hi)
    BY ClampInterval
  <1>2. C(a) \in 1..(PriceMax - 1) /\ C(x) \in 1..(PriceMax - 1) /\ C(b) \in 1..(PriceMax - 1)
    BY ClampInRange
  <1>3. PICK A \in Nat, X \in Nat, B \in Nat : A = C(a) /\ X = C(x) /\ B = C(b)
    BY <1>2, PercentAssumption
  <1>4. /\ A = IF a > hi THEN hi ELSE IF a < lo THEN lo ELSE a
        /\ X = IF x > hi THEN hi ELSE IF x < lo THEN lo ELSE x
        /\ B = IF b > hi THEN hi ELSE IF b < lo THEN lo ELSE b
    BY <1>1, <1>3 DEF Kept
  <1> HIDE DEF C
  <1>5. Band * X \in Nat /\ Band * x \in Nat
    BY PercentAssumption
  <1>6. CASE x > hi
    <2>1. B = X
      BY <1>1, <1>4, <1>6, PercentAssumption
    <2> QED
      BY <1>3, <1>5, <2>1 DEF exceedsBand, Distance, C
  <1>7. CASE x < lo
    <2>1. A = X
      BY <1>1, <1>4, <1>7, PercentAssumption
    <2> QED
      BY <1>3, <1>5, <2>1 DEF exceedsBand, Distance, C
  <1>8. CASE ~(x > hi) /\ ~(x < lo)
    <2>1. X = x
      BY <1>4, <1>8
    <2>2. A <= x /\ a <= A /\ x <= B /\ B <= b
      BY <1>1, <1>4, <1>8, PercentAssumption
    <2>3. 100 * (x - A) <= Band * x \/ 100 * (B - x) <= Band * x
      BY <1>5, <2>2, PercentAssumption
    <2>4. 100 * Distance(A, X) <= Band * X \/ 100 * Distance(B, X) <= Band * X
      BY <2>1, <2>2, <2>3, PercentAssumption DEF Distance
    <2>5. 100 * Distance(A, X) \in Int /\ 100 * Distance(B, X) \in Int
      BY DEF Distance
    <2> QED
      BY <1>3, <1>5, <2>4, <2>5 DEF exceedsBand, C
  <1> QED
    BY <1>6, <1>7, <1>8, PercentAssumption DEF C

\* A price in the band of another is in it when both are clamped.
LEMMA ClampedNear ==
    ASSUME NEW last, IsReference(last), NEW pair,
           NEW r \in 1..(PriceMax - 1), NEW x \in 1..(PriceMax - 1), ~exceedsBand(r, x, Band)
    PROVE  ~exceedsBand(clampToLastFinalized(pair, r, last), clampToLastFinalized(pair, x, last), Band)
  <1> DEFINE C(y) == clampToLastFinalized(pair, y, last)
  <1>1. PICK lo \in Int, hi \in Int : lo <= hi /\ \A y \in 1..(PriceMax - 1) :
              C(y) = Kept(y, lo, hi)
    BY ClampInterval
  <1>2. C(r) \in 1..(PriceMax - 1) /\ C(x) \in 1..(PriceMax - 1)
    BY ClampInRange
  <1>3. PICK R \in Nat, X \in Nat : R = C(r) /\ X = C(x)
    BY <1>2, PercentAssumption
  <1>4. /\ R = IF r > hi THEN hi ELSE IF r < lo THEN lo ELSE r
        /\ X = IF x > hi THEN hi ELSE IF x < lo THEN lo ELSE x
    BY <1>1, <1>3 DEF Kept
  <1>5. Band * X \in Nat /\ Band * x \in Nat /\ r \in Nat /\ x \in Nat
    BY PercentAssumption
  <1>6. 100 * Distance(r, x) <= Band * x
    BY <1>5 DEF exceedsBand, Distance
  <1>7. 100 * Distance(R, X) <= Band * X
    <2>1. CASE r <= x
      <3>1. R <= X
        BY <1>1, <1>4, <1>5, <2>1
      <3>2. 100 * (x - r) <= Band * x
        BY <1>5, <1>6, <2>1 DEF Distance
      <3>3. CASE R = X
        BY <1>5, <3>3 DEF Distance
      <3>4. CASE R < X
        \* Then X <= x, and r <= R.
        <4>1. X <= x /\ r <= R
          BY <1>1, <1>4, <1>5, <2>1, <3>4
        <4>2. 100 * (X - r) <= Band * X
          BY <1>5, <3>2, <3>4, <4>1, BandBelow
        <4> QED
          BY <1>5, <3>4, <4>1, <4>2 DEF Distance
      <3> QED
        BY <3>1, <3>3, <3>4
    <2>2. CASE x < r
      <3>1. X <= R
        BY <1>1, <1>4, <1>5, <2>2
      <3>2. 100 * (r - x) <= Band * x
        BY <1>5, <1>6, <2>2 DEF Distance
      <3>3. CASE R = X
        BY <1>5, <3>3 DEF Distance
      <3>4. CASE X < R
        <4>1. x <= X /\ R <= r
          BY <1>1, <1>4, <1>5, <2>2, <3>4
        <4>2. 100 * (r - X) <= Band * X
          BY <1>5, <3>2, <3>4, <4>1, BandAbove
        <4> QED
          BY <1>5, <3>4, <4>1, <4>2 DEF Distance
      <3> QED
        BY <3>1, <3>3, <3>4
    <2> QED
      BY <1>5, <2>1, <2>2
  <1>8. 100 * Distance(R, X) \in Int
    BY DEF Distance
  <1> QED
    BY <1>3, <1>5, <1>7, <1>8 DEF exceedsBand, C

\* The pair's own percentage keeps a price within the global one.
LEMMA HistoryHolds ==
    ASSUME NEW last, IsReference(last), NEW pair \in DOMAIN last, NEW x \in 1..(PriceMax - 1)
    PROVE  ~historicalRejected(pair, clampToLastFinalized(pair, x, last), last)
  <1>1. PICK l \in 1..(PriceMax - 1) : l = last[pair]
    BY DEF IsReference
  <1>2. PICK c \in Nat : c = MaxChange[pair] /\ c <= GlobalMaxChange
    BY PercentAssumption DEF IsReference
  <1>3. l * c <= l * GlobalMaxChange /\ l * c \in Nat /\ l * GlobalMaxChange \in Nat
    BY <1>1, <1>2, MorePercent, PercentAssumption
  <1>4. PICK d \in Nat, g \in Nat : d = MaxDelta(l, c) /\ g = MaxDelta(l, GlobalMaxChange) /\ d <= g
    <2>1. \A m \in Nat, n \in Nat : m <= n => /\ (m + 50) \div 100 \in Nat
                                              /\ (n + 50) \div 100 \in Nat
                                              /\ (m + 50) \div 100 <= (n + 50) \div 100
      OBVIOUS
    <2> QED
      BY <1>3, <2>1 DEF MaxDelta
  <1>5. PICK y : y = clampToLastFinalized(pair, x, last)
    OBVIOUS
  <1>6. y = IF x > l + d THEN l + d ELSE IF x < l - d THEN l - d ELSE x
    BY <1>1, <1>2, <1>4, <1>5 DEF clampToLastFinalized, Bounded
  <1>7. y \in Int /\ ~(y > l + g) /\ ~(y < l - g)
    BY <1>1, <1>4, <1>6, PercentAssumption
  <1>8. y = Bounded(y, l, GlobalMaxChange)
    BY <1>4, <1>7 DEF Bounded
  <1> QED
    BY <1>1, <1>5, <1>8 DEF historicalRejected

\* Two middles that are not rejected are in the band of what they publish.
LEMMA SplitHolds ==
    ASSUME NEW a \in 1..(PriceMax - 1), NEW b \in 1..(PriceMax - 1), a <= b,
           ~evenSplitRejected(<<a, b>>)
    PROVE  \E m \in 1..(PriceMax - 1) :
              /\ m = medianOf(<<a, b>>) /\ a <= m /\ m <= b
              /\ 100 * (m - a) <= Band * m /\ 100 * (b - m) <= Band * m
  <1>1. PICK m : m = medianOf(<<a, b>>)
    OBVIOUS
  <1>2. m \in Int /\ a <= m /\ m <= b
    BY <1>1, MeanBetween, PercentAssumption
  <1>3. m \in 1..(PriceMax - 1) /\ Band * m \in Nat
    BY <1>2, PercentAssumption
  <1>4. ~exceedsBand(a, m, Band) /\ ~exceedsBand(b, m, Band)
    <2>1. 1 \in 1..2 /\ 2 \in 1..2 /\ <<a, b>>[1] = a /\ <<a, b>>[2] = b
      OBVIOUS
    <2> QED
      BY <1>1, <2>1 DEF evenSplitRejected
  <1>5. Distance(a, m) = m - a /\ Distance(b, m) = b - m
    BY <1>2, <1>3, PercentAssumption DEF Distance
  <1>6. 100 * (m - a) <= Band * m /\ 100 * (b - m) <= Band * m
    BY <1>2, <1>3, <1>4, <1>5, PercentAssumption DEF exceedsBand
  <1> QED
    BY <1>1, <1>2, <1>3, <1>6

\* A price between two middles is in the band of one of them.
LEMMA InSplit ==
    ASSUME NEW a \in 1..(PriceMax - 1), NEW b \in 1..(PriceMax - 1), NEW x \in 1..(PriceMax - 1),
           a <= x, x <= b, ~evenSplitRejected(<<a, b>>)
    PROVE  100 * (x - a) <= Band * x \/ 100 * (b - x) <= Band * x
  <1>0. a <= b /\ a \in Nat /\ b \in Nat /\ x \in Nat
    BY PercentAssumption
  <1>1. PICK m \in 1..(PriceMax - 1) :
              /\ a <= m /\ m <= b
              /\ 100 * (m - a) <= Band * m /\ 100 * (b - m) <= Band * m
    BY <1>0, SplitHolds
  <1>2. m \in Nat
    BY PercentAssumption
  <1>3. CASE x <= m
    BY <1>0, <1>1, <1>2, <1>3, BandBelow
  <1>4. CASE m <= x
    BY <1>0, <1>1, <1>2, <1>4, BandAbove
  <1> QED
    BY <1>0, <1>2, <1>3, <1>4

\* The senders without the proposer.
LEMMA OtherSenders ==
    ASSUME NEW subs, NEW p, NEW pair
    PROVE  /\ collectPairValues(Without(subs, p), pair) = collectPairValues(subs, pair) \ {p}
           /\ \A h \in collectPairValues(Without(subs, p), pair) : Without(subs, p)[h] = subs[h]
  BY DEF collectPairValues, Without

\* The gate of a hub that has the same submissions and the same reference takes the
\* price of a pair it can price without the proposer.
LEMMA NearOwnAggregate ==
    ASSUME NEW subs, IsSubmitted(subs), NEW last, IsReference(last), NEW p \in DOMAIN subs,
           NEW pair \in PricedPairs(subs), pair \in PricedPairs(Without(subs, p))
    PROVE  ~localDeviationRejected(aggregate(subs, pair, last), References(subs, p, pair, last))
  <1> DEFINE C(y) == clampToLastFinalized(pair, y, last)
  <1>1. PICK others : others = Without(subs, p)
    OBVIOUS
  <1>2. PICK D, E : D = collectPairValues(subs, pair) /\ E = collectPairValues(others, pair)
    OBVIOUS
  <1>3. PICK v : v = [h \in D |-> subs[h][pair]]
    OBVIOUS
  <1>4. /\ Values(D, v) /\ (\A h \in D : v[h] = subs[h][pair]) /\ D # {}
        /\ IsFiniteSet(D) /\ Cardinality(D) \in Nat
    BY <1>2, <1>3, SendersFinite, FS_CardinalityType DEF Values, collectPairValues, PricedPairs
  <1>5. /\ E = D \ {p} /\ Values(E, v) /\ (\A h \in E : v[h] = others[h][pair]) /\ E # {}
        /\ IsFiniteSet(E) /\ Cardinality(E) \in Nat
    <2>1. E = D \ {p} /\ \A h \in E : others[h] = subs[h]
      BY <1>1, <1>2, OtherSenders
    <2>2. E # {}
      BY <1>1, <1>2 DEF PricedPairs
    <2>3. IsFiniteSet(E)
      BY <1>4, <2>1, FS_Subset
    <2> QED
      BY <1>4, <2>1, <2>2, <2>3, FS_CardinalityType DEF Values
  <1>6. PICK a \in 1..(PriceMax - 1), b \in 1..(PriceMax - 1) :
              /\ Middles(subs, pair) = <<a, b>> /\ a <= b
              /\ Ranked(D, v, (Cardinality(D) + 1) \div 2, a)
              /\ Ranked(D, v, Cardinality(D) \div 2 + 1, b)
    BY <1>2, <1>4, MiddlesAreRanked
  <1>7. PICK e \in 1..(PriceMax - 1), f \in 1..(PriceMax - 1) :
              /\ Middles(others, pair) = <<e, f>> /\ e <= f
              /\ Ranked(E, v, (Cardinality(E) + 1) \div 2, e)
              /\ Ranked(E, v, Cardinality(E) \div 2 + 1, f)
    BY <1>2, <1>5, MiddlesAreRanked
  <1>8. ~evenSplitRejected(<<a, b>>) /\ ~evenSplitRejected(<<e, f>>)
    BY <1>1, <1>6, <1>7 DEF PricedPairs
  <1>9. PICK x \in 1..(PriceMax - 1) :
              /\ x = medianOf(<<a, b>>) /\ a <= x /\ x <= b
              /\ 100 * (x - a) <= Band * x /\ 100 * (b - x) <= Band * x
    BY <1>6, <1>8, SplitHolds
  <1>10. aggregate(subs, pair, last) = C(x)
    BY <1>6, <1>9 DEF aggregate
  <1>11. References(subs, p, pair, last)
           = IF pair \in DOMAIN subs[p] /\ Cardinality(E) % 2 = 0
             THEN {C(e), C(f)} ELSE {C(medianOf(<<e, f>>))}
    <2>1. evenSetMiddles(others, pair, last) = {C(e), C(f)}
      <3>1. \A m : {clampToLastFinalized(pair, m[i], last) : i \in 1..2} = {C(m[1]), C(m[2])}
        OBVIOUS
      <3> QED
        BY <1>7, <3>1 DEF evenSetMiddles
    <2>2. aggregate(others, pair, last) = C(medianOf(<<e, f>>))
      BY <1>7 DEF aggregate
    <2>3. EvenSet(others, pair) <=> Cardinality(E) % 2 = 0
      BY <1>2 DEF EvenSet
    <2> HIDE DEF C
    <2> QED
      BY <1>1, <2>1, <2>2, <2>3 DEF References
  <1> SUFFICES \E r \in References(subs, p, pair, last) : ~exceedsBand(r, C(x), Band)
    BY <1>10 DEF localDeviationRejected
  <1>12. CASE p \notin D
    <2>1. E = D
      BY <1>5, <1>12
    <2>2. e = a /\ f = b
      <3> PICK n \in Nat, i \in Nat, j \in Nat :
             n = Cardinality(D) /\ i = (n + 1) \div 2 /\ j = n \div 2 + 1
        BY <1>4
      <3>1. a <= e /\ e <= a /\ b <= f /\ f <= b
        BY <1>4, <1>6, <1>7, <2>1, RankOfFewer, PercentAssumption
      <3> QED
        BY <3>1, PercentAssumption
    <2>3. ~exceedsBand(C(x), C(x), Band)
      <3>1. C(x) \in 1..(PriceMax - 1)
        BY ClampInRange
      <3>2. PICK X \in Nat : X = C(x)
        BY <3>1, PercentAssumption
      <3>3. Band * X \in Nat
        BY PercentAssumption
      <3> QED
        BY <3>2, <3>3 DEF exceedsBand, Distance
    <2>4. ~exceedsBand(C(a), C(x), Band) \/ ~exceedsBand(C(b), C(x), Band)
      BY <1>9, ClampedAround
    <2> HIDE DEF C
    <2> QED
      BY <1>9, <1>11, <2>2, <2>3, <2>4
  <1>13. CASE p \in D /\ Cardinality(D) % 2 = 1
    \* The median of the odd set lies between the middles of the even one.
    <2>1. PICK k \in Nat : Cardinality(D) = 2 * k + 1
      BY <1>4, <1>13
    <2>2. Cardinality(E) = 2 * k
      BY <1>4, <1>5, <1>13, <2>1, FS_RemoveElement
    <2>3. Ranked(D, v, k + 1, a) /\ Ranked(D, v, k + 1, b) /\ Ranked(E, v, k, e) /\ Ranked(E, v, k + 1, f)
      <3>1. (2 * k + 1 + 1) \div 2 = k + 1 /\ (2 * k + 1) \div 2 + 1 = k + 1
            /\ (2 * k + 1) \div 2 = k /\ (2 * k) \div 2 + 1 = k + 1
        OBVIOUS
      <3> QED
        BY <1>6, <1>7, <2>1, <2>2, <3>1
    <2>4. e <= a /\ a <= f /\ b <= a
      <3>1. b <= a
        BY <1>4, <2>3, RankOfFewer, PercentAssumption
      <3>2. a <= f
        BY <1>4, <1>5, <2>3, RankOfFewer, PercentAssumption
      <3>3. e <= a
        BY <1>4, <1>5, <1>13, <2>3, RankOfOneLess, PercentAssumption
      <3> QED
        BY <3>1, <3>2, <3>3
    <2>5. x = a
      BY <1>6, <1>9, <2>4, PercentAssumption
    <2>6. 100 * (x - e) <= Band * x \/ 100 * (f - x) <= Band * x
      BY <1>8, <2>4, <2>5, InSplit
    <2>7. ~exceedsBand(C(e), C(x), Band) \/ ~exceedsBand(C(f), C(x), Band)
      BY <2>4, <2>5, <2>6, ClampedAround
    <2>8. References(subs, p, pair, last) = {C(e), C(f)}
      <3>1. pair \in DOMAIN subs[p]
        BY <1>2, <1>13 DEF collectPairValues
      <3>2. Cardinality(E) % 2 = 0
        BY <2>2
      <3> HIDE DEF C
      <3> QED
        BY <1>11, <3>1, <3>2
    <2> HIDE DEF C
    <2> QED
      BY <2>7, <2>8
  <1>14. CASE p \in D /\ Cardinality(D) % 2 # 1
    \* The median of the odd set lies between the middles of the even one.
    <2>1. PICK k \in Nat : Cardinality(D) = 2 * k /\ k >= 1
      <3>1. Cardinality(D) # 0
        BY <1>4, FS_EmptySet
      <3> QED
        BY <1>4, <1>14, <3>1
    <2>2. Cardinality(E) = 2 * k - 1
      BY <1>4, <1>5, <1>14, <2>1, FS_RemoveElement
    <2>3. Ranked(D, v, k, a) /\ Ranked(D, v, k + 1, b) /\ Ranked(E, v, k, e) /\ Ranked(E, v, k, f)
      <3>1. (2 * k + 1) \div 2 = k /\ (2 * k) \div 2 + 1 = k + 1
            /\ (2 * k - 1 + 1) \div 2 = k /\ (2 * k - 1) \div 2 + 1 = k
        BY <2>1
      <3> QED
        BY <1>6, <1>7, <2>1, <2>2, <3>1
    <2>4. a <= e /\ e <= b /\ f <= e
      <3>1. f <= e
        <4>1. E \in SUBSET E /\ e \in Int /\ f \in Int
          BY PercentAssumption
        <4> QED
          BY <1>5, <2>3, <4>1, RankOfFewer
      <3>2. a <= e
        BY <1>4, <1>5, <2>3, RankOfFewer, PercentAssumption
      <3>3. e <= b
        BY <1>4, <1>5, <1>14, <2>3, RankOfOneLess, PercentAssumption
      <3> QED
        BY <3>1, <3>2, <3>3
    <2>5. medianOf(<<e, f>>) = e
      <3>1. e = f /\ e \in Int
        BY <1>7, <2>4, PercentAssumption
      <3> QED
        BY <3>1, MeanBetween
    <2>6. ~exceedsBand(e, x, Band)
      <3>1. Band * x \in Nat /\ x \in Nat /\ e \in Nat /\ a \in Nat /\ b \in Nat
        BY PercentAssumption
      <3> QED
        BY <1>9, <2>4, <3>1 DEF exceedsBand, Distance
    <2>7. ~exceedsBand(C(e), C(x), Band)
      BY <2>6, ClampedNear
    <2>8. References(subs, p, pair, last) = {C(e)}
      <3>1. Cardinality(E) % 2 # 0
        BY <2>1, <2>2
      <3> HIDE DEF C
      <3> QED
        BY <1>11, <2>5, <3>1
    <2> HIDE DEF C
    <2> QED
      BY <2>7, <2>8
  <1> QED
    BY <1>12, <1>13, <1>14

\* Hubs with the same submissions and the same reference co-sign each other's proposals
\* (HonestProposalPasses), whoever proposes, however the submissions are spread and
\* wherever the clamp bites (cosign_gate.js).
THEOREM HonestProposalsAreSigned == WSpec => []HonestProposalPasses
  <1>1. ASSUME WalkInv, NEW p \in Quoting,
               aggregateAll(quotes, ref[p]) # {},
               PairsOf(aggregateAll(quotes, ref[p])) \subseteq DOMAIN ref[p]
        PROVE  ~coSignGateRejects(aggregateAll(quotes, ref[p]), quotes, p, ref[p])
    <2>1. PICK last : last = ref[p] /\ IsReference(last)
      BY <1>1 DEF WalkInv
    <2>2. PICK prices : prices = aggregateAll(quotes, last)
      OBVIOUS
    <2>3. IsSubmitted(quotes) /\ p \in DOMAIN quotes
      BY <1>1 DEF WalkInv, Quoting
    <2>4. PairsOf(prices) = PricedPairs(quotes)
      <3> DEFINE Record(pair) == [coinPair |-> pair, price |-> aggregate(quotes, pair, last)]
      <3>1. \A pair : Record(pair).coinPair = pair
        OBVIOUS
      <3>2. prices = {Record(pair) : pair \in PricedPairs(quotes)}
        BY <2>2 DEF aggregateAll
      <3> HIDE DEF Record
      <3> QED
        BY <3>1, <3>2 DEF PairsOf
    <2>5. ~coverageRejects(prices, quotes, p)
      BY <1>1, <2>1, <2>2, <2>4 DEF coverageRejects
    <2>6. ASSUME NEW x \in prices PROVE ~priceRejected(x, quotes, p, last)
      <3>1. PICK pair \in PricedPairs(quotes) :
                x = [coinPair |-> pair, price |-> aggregate(quotes, pair, last)]
        BY <2>2 DEF aggregateAll
      <3>2. x.price \in 1..(PriceMax - 1)
        BY <2>1, <2>3, <3>1, AggregateInRange
      <3>3. pair \in DOMAIN last
        BY <1>1, <2>1, <2>2, <2>4
      <3>4. CASE pair \in PricedPairs(Without(quotes, p))
        <4>1. ~localDeviationRejected(x.price, References(quotes, p, pair, last))
          BY <2>1, <2>3, <3>1, <3>4, NearOwnAggregate
        <4> QED
          BY <3>1, <3>2, <3>4, <4>1 DEF priceRejected
      <3>5. CASE pair \notin PricedPairs(Without(quotes, p))
        <4>1. PICK m \in 1..(PriceMax - 1) : m = medianOf(Middles(quotes, pair))
          BY <2>3, <3>1, MedianInRange
        <4>2. ~historicalRejected(pair, x.price, last)
          BY <2>1, <3>1, <3>3, <4>1, HistoryHolds DEF aggregate
        <4> QED
          BY <3>1, <3>2, <3>5, <4>2 DEF priceRejected
      <3> QED
        BY <3>4, <3>5
    <2> QED
      BY <2>1, <2>2, <2>5, <2>6 DEF coSignGateRejects
  <1>2. WalkInv => HonestProposalPasses
    BY <1>1 DEF HonestProposalPasses
  <1> QED
    BY <1>2, InitWalkInv, StepWalkInv, PTL DEF WSpec
=============================================================================
