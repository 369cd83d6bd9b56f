--------------------------- MODULE PriceAggregate ---------------------------
(***************************************************************************)
(* What a set of price submissions publishes, and what a co-signer and the *)
(* slash detector make of it.                                              *)
(*                                                                         *)
(* A price is a whole number of the last published digit (1e-8), the grid  *)
(* every producer submits on and every aggregate is rounded to.  The       *)
(* submissions of a round map each sender to the prices it sent, a partial *)
(* function of the pair; a reference maps the pairs with a finalized price *)
(* to that price.                                                          *)
(***************************************************************************)
EXTENDS Integers, FiniteSets

CONSTANTS
    PriceMax,           \* the exclusive ceiling of a price
    MaxChange,          \* per pair, the percentage a round may move the price by
    GlobalMaxChange,    \* the largest of them, ORACLE_MAX_CHANGE_PER_ROUND
    Band                \* ORACLE_DEVIATION_THRESHOLD, a percentage

\* Percentages are whole, and no pair's is larger than the global one (constants.js).
ASSUME PercentAssumption ==
    /\ PriceMax \in Nat /\ Band \in Nat /\ GlobalMaxChange \in Nat
    /\ \A pair \in DOMAIN MaxChange : MaxChange[pair] \in 0..GlobalMaxChange

----------------------------------------------------------------------------
(***************************************************************************)
(* The median.                                                             *)
(***************************************************************************)

\* The senders with a usable value for the pair.
collectPairValues(subs, pair) ==
    {h \in DOMAIN subs : pair \in DOMAIN subs[h] /\ subs[h][pair] \in 1..(PriceMax - 1)}

\* The k-th smallest of those values.
SortedValue(subs, pair, k) ==
    LET senders == collectPairValues(subs, pair)
        values == {subs[h][pair] : h \in senders}
    IN  CHOOSE v \in values :
            /\ Cardinality({h \in senders : subs[h][pair] < v}) < k
            /\ Cardinality({h \in senders : subs[h][pair] <= v}) >= k

\* How many of n values are cut from each end: 15% of them, rounded up, when
\* that leaves any.
trimPairValues(n) ==
    LET cut == (15 * n + 99) \div 100 IN IF n > 2 * cut THEN cut ELSE 0

\* Mutant: the values are cut at the low end only.
MutTrimmedLow(subs, pair) ==
    LET n == Cardinality(collectPairValues(subs, pair))
        cut == trimPairValues(n)
        left == n - cut
    IN  <<SortedValue(subs, pair, cut + (left + 1) \div 2),
          SortedValue(subs, pair, cut + left \div 2 + 1)>>

\* The two middle values of what is left; of an odd number, the middle twice.
Middles(subs, pair) ==
    LET n == Cardinality(collectPairValues(subs, pair))
        cut == trimPairValues(n)
        left == n - 2 * cut
    IN  <<SortedValue(subs, pair, cut + (left + 1) \div 2),
          SortedValue(subs, pair, cut + left \div 2 + 1)>>

EvenSet(subs, pair) == Cardinality(collectPairValues(subs, pair)) % 2 = 0

\* The mean of the middles m, rounded half up to the last digit.
medianOf(m) == (m[1] + m[2] + 1) \div 2

Distance(a, b) == IF a < b THEN b - a ELSE a - b

\* |value - reference| / reference > percent, strictly.
exceedsBand(value, reference, percent) == 100 * Distance(value, reference) > percent * reference

\* Either middle lies outside the band of the price they would publish; the
\* middles of an odd set are that price.
evenSplitRejected(m) == \E i \in 1..2 : exceedsBand(m[i], medianOf(m), Band)

----------------------------------------------------------------------------
(***************************************************************************)
(* The clamp to the last finalized price.                                  *)
(***************************************************************************)

\* percent of the reference, rounded half up to the last digit.
MaxDelta(last, percent) == (last * percent + 50) \div 100

Bounded(price, last, percent) ==
    LET delta == MaxDelta(last, percent)
    IN  IF price > last + delta THEN last + delta
        ELSE IF price < last - delta THEN last - delta
        ELSE price

clampToLastFinalized(pair, price, ref) ==
    IF pair \in DOMAIN ref THEN Bounded(price, ref[pair], MaxChange[pair]) ELSE price

\* The pairs a set of submissions prices at all.
PricedPairs(subs) ==
    {pair \in UNION {DOMAIN subs[h] : h \in DOMAIN subs} :
        /\ collectPairValues(subs, pair) # {}
        /\ LET m == Middles(subs, pair) IN medianOf(m) > 0 /\ ~evenSplitRejected(m)}

aggregate(subs, pair, ref) ==
    LET m == Middles(subs, pair) IN clampToLastFinalized(pair, medianOf(m), ref)

aggregateAll(subs, ref) ==
    {[coinPair |-> pair, price |-> aggregate(subs, pair, ref)] : pair \in PricedPairs(subs)}

\* The pairs of a price list.
PairsOf(prices) == {p.coinPair : p \in prices}

----------------------------------------------------------------------------
(***************************************************************************)
(* The co-sign gate: what makes a follower withhold its signature.  Pairs  *)
(* outside the whitelist are left out; unverified pairs are not allowed.   *)
(***************************************************************************)

Without(subs, proposer) == [h \in DOMAIN subs \ {proposer} |-> subs[h]]

evenSetMiddles(subs, pair, ref) ==
    LET m == Middles(subs, pair) IN {clampToLastFinalized(pair, m[i], ref) : i \in 1..2}

\* Mutant: the follower compares with the mean of an even set in every case.
MutMeanOnly(subs, proposer, pair, ref) == {aggregate(Without(subs, proposer), pair, ref)}

\* The prices a follower measures a proposal against: its own aggregate without
\* the proposer's submission, or, when dropping that made the set even, its two
\* middles.
References(subs, proposer, pair, ref) ==
    LET others == Without(subs, proposer)
    IN  IF /\ proposer \in DOMAIN subs
           /\ pair \in DOMAIN subs[proposer]
           /\ EvenSet(others, pair)
        THEN evenSetMiddles(others, pair, ref)
        ELSE {aggregate(others, pair, ref)}

\* Mutant: the band is that of the clamp.
MutClampBand(price, refs) == \A r \in refs : exceedsBand(r, price, GlobalMaxChange)

localDeviationRejected(price, refs) == \A r \in refs : exceedsBand(r, price, Band)

historicalRejected(pair, price, ref) ==
    \/ pair \notin DOMAIN ref
    \/ price # Bounded(price, ref[pair], GlobalMaxChange)

priceRejected(p, subs, proposer, ref) ==
    \/ p.price \notin 1..(PriceMax - 1)
    \/ IF p.coinPair \in PricedPairs(Without(subs, proposer))
       THEN localDeviationRejected(p.price, References(subs, proposer, p.coinPair, ref))
       ELSE historicalRejected(p.coinPair, p.price, ref)

\* A pair the follower prices with and without the proposer is missing.
coverageRejects(prices, subs, proposer) ==
    \/ prices = {}
    \/ ~(PricedPairs(Without(subs, proposer)) \cap PricedPairs(subs) \subseteq PairsOf(prices))

coSignGateRejects(prices, subs, proposer, ref) ==
    \/ \E p \in prices : priceRejected(p, subs, proposer, ref)
    \/ coverageRejects(prices, subs, proposer)

----------------------------------------------------------------------------
(***************************************************************************)
(* The slash detector, after the round.                                    *)
(***************************************************************************)

\* Mutant: the median is taken to have stayed where it was published.
MutNeverLimited(pair, price, ref) == FALSE

\* The published price sits on or beyond a bound of the clamp.
clampLimited(pair, price, ref) ==
    /\ pair \in DOMAIN ref
    /\ LET delta == MaxDelta(ref[pair], MaxChange[pair])
       IN  price >= ref[pair] + delta \/ price <= ref[pair] - delta

deviatingPairsFor(sent, prices, ref) ==
    {p \in prices :
        /\ p.coinPair \in DOMAIN sent
        /\ sent[p.coinPair] # 0
        /\ exceedsBand(sent[p.coinPair], p.price,
                       IF clampLimited(p.coinPair, p.price, ref)
                       THEN Band + MaxChange[p.coinPair] ELSE Band)}
=============================================================================
