----------------------------- MODULE HubQuorum -----------------------------
(***************************************************************************)
(* The two quorum rules every PBFT engine of the hub tallies with.         *)
(*                                                                         *)
(* - bftQuorum counts distinct signing keys (lib/bft_quorum.js);           *)
(* - meetsStakeThreshold adds up the stake behind the signing keys, once   *)
(*   per staking source (consensus/stake_weighted_quorum.js).              *)
(*                                                                         *)
(* A snapshot is what the indexer returns for one block: a list of         *)
(* validators [pubkey, source, weight], and whether the list was cut at    *)
(* the query limit.  Several keys may carry the same source; the source's  *)
(* weight then stands once.  Blank is a missing or malformed field.        *)
(***************************************************************************)
EXTENDS Integers, Sequences, FiniteSets, FiniteSetsExt

CONSTANT Blank      \* a source or weight the indexer left out or garbled

Larger(a, b) == IF a < b THEN b ELSE a

----------------------------------------------------------------------------
(***************************************************************************)
(* Counting keys.                                                          *)
(***************************************************************************)

\* Mutant: the bare 2f+1 rule, without its simple-majority floor.
MutBareByzantineQuorum(n) == 2 * ((n - 1) \div 3) + 1

\* max(2f+1, ceil((n+1)/2)) with f = floor((n-1)/3).
bftQuorum(n) == Larger(2 * ((n - 1) \div 3) + 1, (n + 2) \div 2)

bftQuorumOrSingle(n, single) == IF n <= 1 THEN single ELSE bftQuorum(n)

\* CapabilitySnapshot.getQuorum over the listed validators: 0 stands for "no
\* consensus needed" and only a one-member or empty snapshot yields it.
getQuorum(snapshot) == bftQuorumOrSingle(Len(snapshot.validators), 0)

----------------------------------------------------------------------------
(***************************************************************************)
(* Weighing stake.                                                         *)
(***************************************************************************)

Entries(snapshot) == {snapshot.validators[i] : i \in DOMAIN snapshot.validators}

Sources(snapshot) == {v.source : v \in Entries(snapshot)}

\* weightBySource: the first entry of a source gives its weight.
WeightOf(snapshot, source) ==
    LET vs == snapshot.validators
        first == CHOOSE i \in DOMAIN vs :
                    /\ vs[i].source = source
                    /\ \A j \in 1..(i - 1) : vs[j].source # source
    IN  vs[first].weight

\* pubkeyToSource: the last entry of a key gives its source.
SourceOf(snapshot, pubkey) ==
    LET vs == snapshot.validators
        last == CHOOSE i \in DOMAIN vs :
                    /\ vs[i].pubkey = pubkey
                    /\ \A j \in (i + 1)..Len(vs) : vs[j].pubkey # pubkey
    IN  vs[last].source

Pubkeys(snapshot) == {v.pubkey : v \in Entries(snapshot)}

StakeOf(snapshot, sources) ==
    MapThenSumSet(LAMBDA src : WeightOf(snapshot, src), sources)

\* indexStakeSources and sumStakeWeights: the snapshots that can be tallied at
\* all.  Every other one fails closed.
Tallyable(snapshot) ==
    /\ ~snapshot.truncated
    /\ \A v \in Entries(snapshot) : v.source # Blank
    /\ \A src \in Sources(snapshot) :
          WeightOf(snapshot, src) # Blank /\ WeightOf(snapshot, src) >= 0
    /\ StakeOf(snapshot, Sources(snapshot)) > 0

\* sumSignerStake: keys outside the snapshot weigh nothing, a source counts once.
SignerStake(snapshot, signers) ==
    StakeOf(snapshot, {SourceOf(snapshot, pk) : pk \in signers \cap Pubkeys(snapshot)})

\* Mutant: two thirds of the stake are enough.
MutTwoThirds(snapshot, signers) ==
    /\ Tallyable(snapshot)
    /\ 3 * SignerStake(snapshot, signers) >= 2 * StakeOf(snapshot, Sources(snapshot))

\* More than two thirds of the stake, strictly.
meetsStakeThreshold(snapshot, signers) ==
    /\ Tallyable(snapshot)
    /\ 3 * SignerStake(snapshot, signers) > 2 * StakeOf(snapshot, Sources(snapshot))
=============================================================================
