----------------------------- MODULE MCRestarts -----------------------------
(***************************************************************************)
(* What hubs decide and spend across restarts and faults, in one run: a    *)
(* behaviour is about one of the two instances of ConfigPbft that          *)
(* MCConfigRecovery describes, or about the attestation relay's log.       *)
(***************************************************************************)
EXTENDS MCConfigRecovery, AttestRelay

VARIABLE relaying   \* is the behaviour about the relay

RestartsInit ==
    /\ EitherInit /\ AInit
    /\ relaying \in BOOLEAN
    /\ IF relaying THEN ~three /\ budget = CHOOSE b \in Budgets : TRUE
                   ELSE relayBudget = CHOOSE p \in RelayPlans : TRUE

Relay(step) == relaying /\ step /\ UNCHANGED <<vars, tvars, three, relaying>>

RelayNext ==
    \/ \E k \in LegKeys :
          \/ Relay(maybeRelay(k)) \/ Relay(validateProposedMatch(k)) \/ Relay(RoundAbandoned(k))
          \/ \E rank \in Ranks : Relay(onRoundFinalized(k, rank))
          \/ Relay(NodeTakes(k)) \/ Relay(noteLegSent(k)) \/ Relay(noteLegAmbiguous(k))
          \/ Relay(noteLegSendFailed(k)) \/ Relay(sweepLeg(k)) \/ Relay(LegLands(k))
    \/ \E home, origin \in BOOLEAN : Relay(poll(home, origin))
    \/ Relay(sweepFinalized) \/ Relay(evictExpired) \/ Relay(start)
    \/ Relay(OriginAdvances) \/ Relay(OriginReorgs)

RestartsNext ==
    \/ ~relaying /\ EitherNext /\ UNCHANGED <<avars, relaying>>
    \/ RelayNext

RestartsSpec == RestartsInit /\ [][RestartsNext]_<<vars, tvars, three, avars, relaying>>

RelayInit == RestartsInit /\ relaying = TRUE

RelaySpec ==
    /\ RelayInit
    /\ [][RelayNext]_<<vars, tvars, three, avars, relaying>>

-----------------------------------------------------------------------------
(***************************************************************************)
(* The relay's instance: request 1 expires within the run and may be       *)
(* forgotten, request 2 does not.                                          *)
(***************************************************************************)

MCLegKeys == {<<"request", 1>>, <<"request", 2>>, <<"response", 1>>}
MCDeadline == <<1, 3>>

RelayPlan(legs, ranks, crashes, disk, refusals, reorgs) ==
    [legs |-> legs, ranks |-> ranks, crashes |-> crashes, disk |-> disk,
     refusals |-> refusals, reorgs |-> reorgs]

AnyRank == {-2, -1, 0, 1}

MCRelayPlans ==
    { RelayPlan({<<"request", 1>>, <<"request", 2>>}, {0}, 1, 0, 0, 0),
      RelayPlan({<<"request", 1>>, <<"response", 1>>}, {0}, 0, 0, 0, 1),
      RelayPlan({<<"request", 1>>}, AnyRank, 1, 1, 1, 1),
      RelayPlan({<<"request", 1>>}, AnyRank, 2, 0, 0, 0) }

\* One leg, one crash, no other fault.
MCRetried == { RelayPlan({<<"request", 1>>}, {0, 1}, 1, 0, 0, 0) }
=============================================================================
