---------------------------- MODULE MCConfigPbft ----------------------------
(***************************************************************************)
(* Instances of ConfigPbft.  Three hubs; the snapshot of height 1 holds    *)
(* all three, that of height 2 only hubA.  MCWeighted weighs votes by the  *)
(* stake, where hubA has twice that of the others: {hubB, hubC} is then no *)
(* stake quorum though it is a counted one.  In MCDriftSnapshot a member   *)
(* leaves between the two heights instead, and the rest is a quorum.       *)
(***************************************************************************)
EXTENDS ConfigPbft

CONSTANTS hubA, hubB, hubC,    \* hubs
          x, y, z     \* configs

MCHubs == {hubA, hubB, hubC}
MCHubsOrder == <<hubA, hubB, hubC>>

MCValidator(k, w) == [pubkey |-> k, source |-> k, weight |-> w]

MCHubsSnapshot ==
    [ht \in 1..2 |->
        [validators |-> IF ht = 1
                        THEN <<MCValidator(hubA, 2), MCValidator(hubB, 1), MCValidator(hubC, 1)>>
                        ELSE <<MCValidator(hubA, 2)>>,
         truncated |-> FALSE]]

\* The indexer gives no weight for hubC: only hubA and hubB together decide.
MCUnweightedSnapshot ==
    [ht \in 1..2 |->
        [validators |-> <<MCValidator(hubA, 1), MCValidator(hubB, 1), MCValidator(hubC, Blank)>>,
         truncated |-> FALSE]]

\* hubB leaves the federation between the two heights: the first slot is hubB's at
\* height 1 and hubC's at height 2.
MCDriftSnapshot ==
    [ht \in 1..2 |->
        [validators |-> IF ht = 1
                        THEN <<MCValidator(hubA, 3), MCValidator(hubB, 3), MCValidator(hubC, 1)>>
                        ELSE <<MCValidator(hubA, 3), MCValidator(hubC, 1)>>,
         truncated |-> FALSE]]

MCPair == {hubA, hubB}
MCPairOrder == <<hubA, hubB>>

MCPairSnapshot ==
    [ht \in 1..2 |->
        [validators |-> IF ht = 1 THEN <<MCValidator(hubA, 1), MCValidator(hubB, 1)>>
                                  ELSE <<MCValidator(hubA, 1)>>,
         truncated |-> FALSE]]

MCConfigs == {x, y, z}
MCAnotherEach == [h \in MCHubs |-> IF h = hubA THEN {x} ELSE IF h = hubB THEN {y} ELSE {z}]
MCOneEach == [h \in MCPair |-> IF h = hubA THEN {x} ELSE {y}]

MCWeighted == [ht \in 1..2 |-> TRUE]

\* Fault budgets: n faults of one kind, or one fault of each of several kinds.
Only(kind, n) == [k \in FaultKinds |-> IF k = kind THEN n ELSE 0]
OneOfEach(kinds) == [k \in FaultKinds |-> IF k \in kinds THEN 1 ELSE 0]

MCNoFault == {OneOfEach({})}
MCOneTimeout == {OneOfEach({"timeout"})}
MCOneFault == {OneOfEach({k}) : k \in FaultKinds \ {"crash"}}
MCCrashOrTimeouts == {OneOfEach({"crash"}), Only("timeout", 2)}
=============================================================================
