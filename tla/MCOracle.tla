------------------------------ MODULE MCOracle ------------------------------
(***************************************************************************)
(* Model checking the oracle: OracleRounds on single rounds of one to      *)
(* three hubs, PriceWalk on successions of rounds, and the aggregation     *)
(* behind both on many sets of submissions.  A behaviour is about one of   *)
(* them; the variables of the other are empty and stand still.             *)
(***************************************************************************)
EXTENDS OracleRounds, PriceWalk

-----------------------------------------------------------------------------
\* Rounds.

MCRoundLeader == 1
MCStoreAttempts == 3
MCAbandonRearms == 1
MCRoundSnapshot ==
    [validators |-> <<[pubkey |-> 1, source |-> 1, weight |-> 2],
                      [pubkey |-> 2, source |-> 2, weight |-> 1],
                      [pubkey |-> 3, source |-> 3, weight |-> 1]>>,
     truncated |-> FALSE]

Mishaps(store, skip, loss, tip) == [store |-> store, skip |-> skip, loss |-> loss, tip |-> tip]

\* A round of n hubs in which all goes well.
Calm(n) ==
    [tally |-> "signed", admission |-> FALSE, views |-> [h \in 1..n |-> 1..n], quoted |-> 1..n,
     minimum |-> IF n = 1 THEN 1 ELSE 2, heights |-> [h \in 1..n |-> 1], lenient |-> TRUE, dispersed |-> FALSE, lostAnchor |-> {},
     slow |-> {}, hasty |-> {}, stops |-> {}, budget |-> Mishaps(0, 0, 0, 0)]

MCRoundPlans ==
    \* The leader may be shut down at any point; the fallback must salvage the round.
    {[Calm(3) EXCEPT !.stops = {1}],
     [Calm(3) EXCEPT !.tally = "weighted", !.admission = TRUE]}
    \* Two hubs whose timers race the messages: both may propose, with different heights.
    \cup {[Calm(2) EXCEPT !.hasty = {1, 2}, !.admission = a, !.heights = <<1, 2>>] :
             a \in BOOLEAN}
    \cup {[Calm(2) EXCEPT !.hasty = {1, 2}, !.slow = {2}, !.views = <<{1, 2}, {2}>>],
          [Calm(2) EXCEPT !.hasty = {2}, !.slow = {1}, !.views = <<{2}, {2}>>, !.quoted = {2},
                          !.minimum = 1, !.heights = <<1, 2>>]}
    \* A leader that is slow to read its snapshot, the fallback's round open on it
    \* meanwhile, and three price writes that fail.
    \cup {[Calm(2) EXCEPT !.tally = "voted", !.hasty = {2}, !.slow = {1}, !.views = <<{2}, {2}>>,
                          !.quoted = {2}, !.minimum = 1, !.budget = Mishaps(3, 0, 0, 0)]}
    \* Writes that fail, messages that are lost, hubs that stop.
    \cup {[Calm(2) EXCEPT !.budget = Mishaps(3, 0, 0, 0)],
          [Calm(2) EXCEPT !.hasty = {2}, !.tally = "voted", !.budget = Mishaps(1, 0, 1, 0)],
          [Calm(2) EXCEPT !.stops = {2}, !.budget = Mishaps(0, 1, 1, 0)],
          [Calm(2) EXCEPT !.admission = TRUE, !.budget = Mishaps(0, 0, 0, 1)]}
    \* Rounds without a price, without a chain tip, of a single hub.
    \cup {[Calm(2) EXCEPT !.dispersed = TRUE], Calm(1), [Calm(1) EXCEPT !.dispersed = TRUE],
          [Calm(1) EXCEPT !.stops = {1}, !.admission = TRUE, !.budget = Mishaps(0, 0, 0, 1)],
          [Calm(1) EXCEPT !.budget = Mishaps(1, 0, 0, 0)], [Calm(1) EXCEPT !.minimum = 2],
          [Calm(2) EXCEPT !.lenient = FALSE, !.views = <<{1, 2}, {2}>>, !.quoted = {}, !.minimum = 1],
          [Calm(2) EXCEPT !.lostAnchor = {1, 2}, !.budget = Mishaps(0, 1, 0, 0)]}

\* The same where stake is weighed; the third validator is down after its
\* submission.
MCSlowLeader ==
    {[Calm(2) EXCEPT !.tally = "weighted", !.hasty = {1, 2}, !.slow = {1}, !.views = <<{2, 3}, {2, 3}>>,
                     !.quoted = {2, 3}, !.budget = Mishaps(3, 0, 0, 0)]}

-----------------------------------------------------------------------------
\* Prices, in units of the last digit.

MCPriceMax == 1000
MCBand == 5
MCGlobalMaxChange == 25
MCMaxChange == [pair \in {"coin", "token"} |-> IF pair = "coin" THEN 25 ELSE 10]

Only(pair, price) == [p \in {pair} |-> price]

\* A move of the price all hubs agree on, up, down, and within one round's reach.
MCMoves ==
    {[quotes |-> [h \in 1..3 |-> Only(pair, price)], last |-> Only(pair, 100)] :
        pair \in {"coin", "token"}, price \in {70, 128, 170}}

\* Up to five hubs whose submissions agree, disagree a little, or not at all.
MCSpreads ==
    {[quotes |-> [h \in DOMAIN s |-> Only("coin", s[h])], last |-> Only("coin", last)] :
        s \in {t \in UNION {[1..n -> {2, 95, 100, 105, 111}] : n \in 1..5} :
                   \A i \in 2..Len(t) : t[i - 1] <= t[i]},
        last \in {3, 100}}

MCWalks == MCMoves

-----------------------------------------------------------------------------

NoRound == setting = [hasty |-> {None}] /\ hub = <<>> /\ inbox = <<>> /\ mishaps = Mishaps(0, 0, 0, 0)
NoWalk == quotes = <<>> /\ ref = <<>> /\ published = <<>> /\ accused = {}

\* Submissions that are only aggregated and judged.
Spread ==
    \E s \in MCSpreads :
        /\ quotes = s.quotes
        /\ ref = [h \in DOMAIN s.quotes |-> s.last]
        /\ published = s.last
        /\ accused = {}

Walking == Quoting # {} /\ \E w \in Walks : quotes = w.quotes

MCInit == (OInit /\ NoWalk) \/ (NoRound /\ (WInit \/ Spread))

MCWSteps == Walking /\ WSteps
MCNext == (ONext /\ UNCHANGED wvars) \/ (MCWSteps /\ UNCHANGED ovars)

\* Timers fire and handlers end.
MCSpec ==
    /\ MCInit
    /\ [][MCNext]_<<ovars, wvars>>
    /\ WF_<<ovars, wvars>>((OSteps /\ UNCHANGED wvars) \/ (MCWSteps /\ UNCHANGED ovars))

\* MoveArrives of PriceWalk, for the submissions that walk.
Moves == Walking => MoveArrives
=============================================================================
