-------------------------- MODULE MCCrossChainPbft --------------------------
(***************************************************************************)
(* Instances of CrossChainPbft with three hubs.  The quorum rules it rests *)
(* on are checked by the same run: a behaviour either builds a snapshot    *)
(* (MCHubQuorum) or runs the rounds of one scenario, the other part keeping*)
(* its initial state.                                                      *)
(***************************************************************************)
EXTENDS CrossChainPbft, MCHubQuorum

VARIABLE subject

CONSTANTS hubA, hubB, hubC

MCKeyOrder == <<hubA, hubB, hubC>>

Stakers(ws) ==
    [validators |-> [i \in DOMAIN ws |-> [pubkey |-> MCKeyOrder[i], source |-> i, weight |-> ws[i]]],
     truncated |-> FALSE]

\* hubA's key is listed twice, by two stakers, and hubC's not at all.
Twice == [validators |-> [i \in 1..3 |-> [pubkey |-> <<hubB, hubA, hubA>>[i], source |-> i, weight |-> 1]],
          truncated |-> FALSE]

\* Block 1 counts keys; block 2 weighs stake, most of it hubC's; at block 3 hubA
\* is the only validator, and at block 4 hubC is none.
MCSnapshot == 1 :> Stakers(<<1, 1, 1>>) @@ 2 :> Stakers(<<1, 1, 4>>)
              @@ 3 :> Stakers(<<1>>) @@ 4 :> Twice
MCWeighted == 1 :> FALSE @@ 2 :> TRUE @@ 3 :> FALSE @@ 4 :> FALSE

PerHub(a, b, c) == hubA :> a @@ hubB :> b @@ hubC :> c

Built(t, b) == {[stamp |-> t, block |-> b]}

Plan(rows, opens, views, faults, restamp) ==
    [rows |-> rows, opens |-> opens, views |-> views, faults |-> faults, restamp |-> restamp]

\* hubA polls at a tip the others have not reached.
TipsApart == PerHub(Built(0, 2), Built(0, 1), Built(0, 1))
\* hubB polls a second later.
ClocksApart == PerHub(Built(0, 1), Built(1, 1), Built(0, 1))
\* hubA's snapshot lists it alone.
AloneAtA == PerHub(Built(0, 3), Built(0, 1), Built(0, 1))
\* hubC runs the rail and is not in the snapshot.
OutsiderC == PerHub(Built(0, 4), Built(0, 4), Built(0, 4))

MCScenarios ==
    { Plan(TipsApart, PerHub(1, 1, 1), 0, 0, "none"),
      Plan(TipsApart, PerHub(1, 0, 2), 1, 1, "now"),
      Plan(ClocksApart, PerHub(1, 1, 0), 1, 1, "now"),
      Plan(ClocksApart, PerHub(2, 2, 0), 0, 1, "none"),
      Plan(ClocksApart, PerHub(1, 1, 0), 2, 0, "none"),
      Plan(TipsApart, PerHub(0, 1, 1), 1, 0, "later"),
      Plan(AloneAtA, PerHub(2, 1, 0), 1, 1, "none"),
      Plan(OutsiderC, PerHub(1, 1, 1), 0, 0, "none"),
      Plan(OutsiderC, PerHub(1, 1, 0), 1, 0, "none") }

QuorumOrRounds ==
    /\ QuorumInit /\ XInit
    /\ \/ subject = "quorum" /\ scenario = CHOOSE s \in Scenarios : TRUE
       \/ subject = "rounds" /\ ~snapshot.truncated

EitherNext ==
    \/ subject = "quorum" /\ AddValidator /\ UNCHANGED <<xvars, subject>>
    \/ subject = "rounds" /\ XNext /\ UNCHANGED <<snapshot, subject>>

QuorumAndRounds == QuorumOrRounds /\ [][EitherNext]_<<xvars, snapshot, subject>>

\* Two hubs, two timeouts each, no fault and no restamp.
MCTimeouts == { Plan(ClocksApart, PerHub(1, 1, 0), 2, 0, "none") }
=============================================================================
