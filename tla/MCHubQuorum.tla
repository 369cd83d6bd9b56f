---------------------------- MODULE MCHubQuorum ----------------------------
(***************************************************************************)
(* Every validator snapshot of up to MaxValidators entries, built entry by *)
(* entry the way the indexer's answer lists it, with malformed entries,    *)
(* shared sources and repeated keys; the properties quantify over all the  *)
(* sets of signing keys a round may have collected.                        *)
(***************************************************************************)
EXTENDS HubQuorum, TLC

CONSTANTS PubkeyPool, SourcePool, Weights, MaxValidators

MCWeights == {-1, 0, 1, 2}

ASSUME BlankIsNoWeight == Blank \notin Weights

ASSUME WeightsAreNumbers == Weights \subseteq Int

VARIABLE snapshot

ListedValidator == [pubkey : PubkeyPool, source : SourcePool \cup {Blank}, weight : Weights \cup {Blank}]

QuorumInit == snapshot \in [validators : {<<>>}, truncated : BOOLEAN]

\* Keys and sources are numbered in the order they first appear: the numbers
\* mean nothing else.
InOrder(used, n) == n \in used \/ n = Cardinality(used) + 1

AddValidator ==
    LET listed == {snapshot.validators[i] : i \in DOMAIN snapshot.validators}
    IN  /\ Len(snapshot.validators) < MaxValidators
        /\ \E v \in ListedValidator :
              /\ InOrder({e.pubkey : e \in listed}, v.pubkey)
              /\ v.source # Blank => InOrder({e.source : e \in listed} \ {Blank}, v.source)
              /\ snapshot' = [snapshot EXCEPT !.validators = Append(@, v)]

\* The keys that may have signed: listed ones and 0, a stranger.
SignerSets == SUBSET (Pubkeys(snapshot) \cup {0})

SourcesOf(signers) == {SourceOf(snapshot, pk) : pk \in signers \cap Pubkeys(snapshot)}

\* Two sets of keys that both reach the stake threshold have more than a third
\* of the stake in common, whatever keys a source holds: the overlap that makes
\* two stake-weighted certificates contradict only if a third of the stake
\* signed both (consensus/stake_weighted_quorum.js).
StakeQuorumsOverlapByAThird ==
    \A A, B \in SignerSets :
        meetsStakeThreshold(snapshot, A) /\ meetsStakeThreshold(snapshot, B)
        => 3 * StakeOf(snapshot, SourcesOf(A) \cap SourcesOf(B))
             > StakeOf(snapshot, Sources(snapshot))

\* Two sets of member keys that both reach the counted quorum of a snapshot
\* share a key (lib/bft_quorum.js), for every snapshot of two or more keys.
CountQuorumsIntersect ==
    LET n == Cardinality(Pubkeys(snapshot))
    IN  n > 1 => \A A, B \in SUBSET Pubkeys(snapshot) :
            Cardinality(A) >= bftQuorum(n) /\ Cardinality(B) >= bftQuorum(n)
            => A \cap B # {}

=============================================================================
