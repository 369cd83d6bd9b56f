------------------------------ MODULE PriceWalk ------------------------------
(***************************************************************************)
(* Oracle rounds one after another while the hubs keep submitting the same *)
(* quotes: how the clamp lets the published price walk to a new level, and *)
(* what a hub that missed a round does to the walk.                        *)
(*                                                                         *)
(* A round is one step here (its messages are OracleRounds): a proposer    *)
(* aggregates, every other hub passes the proposal through its co-sign     *)
(* gate, and with a quorum of signatures some of the hubs store it.  A hub *)
(* that did not keeps an older reference until the round is pushed to it   *)
(* from the chain it was published on.  Hubs are numbered 1..n.            *)
(***************************************************************************)
EXTENDS PriceAggregate, HubQuorum

CONSTANT Walks      \* the starts: [quotes, last], by hub and pair, and by pair

\* Finitely many hubs submit whole prices, in range or not, of pairs with a clamp;
\* what was finalized is in range.
ASSUME WalksAssumption ==
    \A w \in Walks :
        /\ IsFiniteSet(DOMAIN w.quotes)
        /\ \A h \in DOMAIN w.quotes : \A pair \in DOMAIN w.quotes[h] :
              pair \in DOMAIN MaxChange /\ w.quotes[h][pair] \in Int
        /\ \A pair \in DOMAIN w.last :
              pair \in DOMAIN MaxChange /\ w.last[pair] \in 1..(PriceMax - 1)

VARIABLES
    quotes,         \* by hub, the prices it submits in every round
    ref,            \* by hub, _lastFinalizedPrices
    published,      \* the prices of the newest finalized round
    accused         \* the hubs some slash detector recorded price_deviation for

wvars == <<quotes, ref, published, accused>>

Quoting == DOMAIN quotes

WInit ==
    \E w \in Walks :
        /\ quotes = w.quotes
        /\ ref = [h \in DOMAIN w.quotes |-> w.last]
        /\ published = w.last
        /\ accused = {}

-----------------------------------------------------------------------------

\* noteFinalizedPrice for every price of a round: the other pairs keep theirs.  The
\* rounds come in order here; the code ignores one older than what it knows.
noteFinalized(last, prices) ==
    [pair \in DOMAIN last \cup PairsOf(prices) |->
        IF pair \in PairsOf(prices) THEN (CHOOSE p \in prices : p.coinPair = pair).price
        ELSE last[pair]]

\* The hubs that sign proposer p's prices.
CoSigners(p, prices) ==
    {p} \cup {h \in Quoting \ {p} : ~coSignGateRejects(prices, quotes, p, ref[h])}

\* A round finalizes and reaches some of those who signed it.  Their slash
\* detectors compare every submission with it (checkDeviations), each against
\* the reference its hub clamped with.
roundFinalizes(p) ==
    \E prices \in {aggregateAll(quotes, ref[p])} :
    \E signers \in {CoSigners(p, prices)} :
        /\ prices # {}
        /\ Cardinality(signers) >= bftQuorum(Cardinality(Quoting))
        /\ published' = noteFinalized(published, prices)
        /\ \E stored \in (SUBSET signers) \ {{}} :
              /\ ref' = [h \in Quoting |->
                            IF h \in stored THEN noteFinalized(ref[h], prices) ELSE ref[h]]
              /\ accused' = accused \cup
                    {h \in Quoting :
                        \E s \in stored : deviatingPairsFor(quotes[h], prices, ref[s]) # {}}
        /\ UNCHANGED quotes

\* Mutant: a pushed row only fills a pair the cache does not know.
MutKnownPairsKept(h) ==
    /\ ref[h] # published
    /\ ref' = [ref EXCEPT ![h] = [pair \in DOMAIN published |->
                    IF pair \in DOMAIN ref[h] THEN ref[h][pair] ELSE published[pair]]]
    /\ UNCHANGED <<quotes, published, accused>>

\* The newest round is pushed to a hub whose cache is behind: its rows are written
\* and folded into the cache (noteAggregatorRow), or, where the fold threw, read back
\* from the hub's own price_snapshots by the next seed (refreshLastFinalizedForRound,
\* the timer, the start).  A seed finds nothing else: what a hub stored or was pushed
\* is in its cache.
noteIngestedPriceRow(h) ==
    /\ ref[h] # published
    /\ ref' = [ref EXCEPT ![h] = published]
    /\ UNCHANGED <<quotes, published, accused>>

\* Rounds run on a timer, and what is published is pushed to every hub.
WSteps == \E h \in Quoting : noteIngestedPriceRow(h) \/ roundFinalizes(h)

WSpec == WInit /\ [][WSteps]_wvars /\ WF_wvars(WSteps)

-----------------------------------------------------------------------------

\* Every hub submits the same price for the pair.
Unanimous(pair) ==
    /\ \A h \in Quoting : pair \in DOMAIN quotes[h]
    /\ \A h, i \in Quoting : quotes[h][pair] = quotes[i][pair]

\* Two hubs with the same submissions and the same reference never disagree:
\* what any of them would propose passes the co-sign gate of the others, which
\* leave the proposer's submission out (cosign_gate.js).  It takes a history:
\* without one a pair the others cannot price alone is unverifiable.
HonestProposalPasses ==
    \A p \in Quoting :
        LET prices == aggregateAll(quotes, ref[p])
        IN  prices # {} /\ PairsOf(prices) \subseteq DOMAIN ref[p]
            => ~coSignGateRejects(prices, quotes, p, ref[p])

\* A minority of submitters cannot push the median out of the range of the
\* others, wherever trimming cuts (aggregate.js).
MinorityBounded ==
    \A few \in SUBSET Quoting :
        2 * Cardinality(few) < Cardinality(Quoting) =>
            \A pair \in UNION {DOMAIN quotes[h] : h \in Quoting} :
                (\A h \in Quoting : h \in collectPairValues(quotes, pair)) =>
                    LET median == medianOf(Middles(quotes, pair))
                        rest == {quotes[h][pair] : h \in Quoting \ few}
                    IN  \E a, b \in rest : a <= median /\ median <= b

\* A sustained move arrives: while every hub submits the same price, rounds and
\* caches that catch up bring the published price to it, whoever misses a round.
MoveArrives ==
    (\A pair \in DOMAIN published : Unanimous(pair))
        => <>(\A pair \in DOMAIN published : published[pair] = quotes[1][pair])

\* A price every hub agrees on is never published further away than before by
\* more than the co-sign band: a proposer with a stale reference finds no quorum
\* of equally stale co-signers (quorums intersect).
NoBackstep ==
    [][\A pair \in DOMAIN published :
          Unanimous(pair) =>
              LET goal == quotes[1][pair]
                  old == published[pair]
                  new == published'[pair]
              IN  Distance(new, goal) > Distance(old, goal) => ~exceedsBand(new, old, Band)]_wvars

\* No hub is recorded for a move that all of them submit and that the clamp and
\* the widened band together reach, whoever proposes and however stale the
\* reference of the hub that compares (deviations.js: the clamp alone "put every
\* honest submitter outside a 5% band").
WithinReach(price, last, change) ==
    /\ 10000 * price <= (100 + change) * (100 + change + Band) * last
    /\ 10000 * price >= (100 - change) * (100 - change - Band) * last

ReachableMoveSpared ==
    [][(\A pair \in DOMAIN published :
            Unanimous(pair) /\ WithinReach(quotes[1][pair], published[pair], MaxChange[pair]))
        => accused' = accused]_wvars
=============================================================================
