----------------------------- MODULE MCProgress -----------------------------
(***************************************************************************)
(* What must happen in the end: instances of ConfigPbft, RelayLedger,      *)
(* RetractionConsensus and ReorgHandler under the fairness their timers    *)
(* and awaits give them.  A behaviour is about one of the four, its part;  *)
(* the others keep an initial state.                                       *)
(***************************************************************************)
EXTENDS MCConfigPbft, RelayLedger, RetractionConsensus, ReorgHandler, TLC

CONSTANT Parts      \* the parts a behaviour may be about

VARIABLE part

allvars == <<part, vars, lvars, rvars, gvars>>

-----------------------------------------------------------------------------

\* The other parts start where one of their behaviours starts.
ProgressInit ==
    /\ part \in Parts
    /\ Init /\ LInit /\ RInit /\ GInit
    /\ part # "ledger" => rail = CHOOSE r \in Rails : TRUE
    /\ part # "retraction" => plan = CHOOSE p \in PushPlans : TRUE
    /\ part # "reorg" => reorgPlan = CHOOSE p \in ReorgPlans : TRUE

Config(A) == part = "config" /\ A /\ UNCHANGED <<part, lvars, rvars, gvars>>
Ledger(A) == part = "ledger" /\ A /\ UNCHANGED <<part, rail, vars, rvars, gvars>>
Retraction(A) == part = "retraction" /\ A /\ UNCHANGED <<part, vars, lvars, gvars>>
Reorg(A) == part = "reorg" /\ A /\ UNCHANGED <<part, vars, lvars, rvars>>

ConfigNext ==
    \E h \in Hubs :
        \/ Config(propose(h))
        \/ \E m \in net[h] : Config(handleMessage(h, m))
        \/ \E m \in locking[h] : Config(openFollowerRound(h, m) \/ declinePrePrepare(h, m))
        \/ \E a \in inflight[h] : Config(applyConfig(h, a) \/ persistAppliedRound(h, a))

LedgerNext ==
    \/ Ledger(ChainReorgs) \/ Ledger(ChainMinesAgain) \/ Ledger(CallExpires)
    \/ Ledger(admitTransferLeg) \/ Ledger(maybeDispatch) \/ Ledger(maybeFinalizeTransfer)
    \/ Ledger(RoundAbandoned) \/ Ledger(writeFinalizedTransfer)
    \/ Ledger(persistSnapshot) \/ Ledger(sendRow) \/ Ledger(DatabaseWrites)
    \/ Ledger(WriteFails) \/ Ledger(writeFinalizedTransferFenced) \/ Ledger(mirrorRow)
    \/ Ledger(recordRetraction) \/ Ledger(FindRows) \/ Ledger(DatabaseRetracts)
    \/ Ledger(retractTransfersForReorg) \/ Ledger(Crash)

RetractionNext ==
    \E h \in Deleters :
        \/ Retraction(submitLocal(h)) \/ Retraction(deferSigningRound(h))
        \/ Retraction(retryDeferred(h)) \/ Retraction(submitQuorumRetraction(h))
        \/ Retraction(signingTimeout(h)) \/ Retraction(handleSignReq(h))
        \/ Retraction(handleSign(h)) \/ Retraction(handleFinalized(h))
        \/ Retraction(verifyFinalized(h)) \/ Retraction(finalize(h))
        \/ Retraction(finalizeFails(h)) \/ Retraction(pruneIntents(h))
        \/ Retraction(restartRail(h))

ReorgNext ==
    \E h \in Watchers :
        \/ Reorg(NodeResyncs(h)) \/ Reorg(reportReorg(h)) \/ Reorg(startReportedReorgRound(h))
        \/ Reorg(handleAlert(h)) \/ Reorg(alertVerified(h)) \/ Reorg(alertLocked(h))
        \/ Reorg(handleReorgPrepare(h)) \/ Reorg(openReorgFollowerRound(h)) \/ Reorg(handleReorgCommit(h))
        \/ Reorg(executeRollback(h)) \/ Reorg(setReorgAttestation(h)) \/ Reorg(emitDisputedPriceRows(h))
        \/ Reorg(rollbackFails(h)) \/ Reorg(probeFails(h))

\* The timer of a round fires, in plans whose hubs lose patience.
ReorgTimers == \E h \in Watchers : Reorg(reorgTimeout(h))

\* The steps that do not wait for a client, a fault or the chain: handlers, the
\* ends of awaits and timers.  Signatures may be asked for and sent or not.
Scheduled ==
    \/ \E h \in Hubs :
          \/ \E m \in net[h] : Config(handleMessage(h, m))
          \/ \E m \in locking[h] : Config(openFollowerRound(h, m)
                                           \/ (declinePrePrepare(h, m) /\ UNCHANGED budget))
          \/ \E a \in inflight[h] : Config(applyConfig(h, a) \/ persistAppliedRound(h, a))
    \/ Ledger(Steps)
    \/ \E h \in Deleters :
          Retraction(\/ submitQuorumRetraction(h) \/ verifyFinalized(h) \/ finalize(h)
                     \/ retryDeferred(h) \/ signingTimeout(h))
    \/ \E h \in Watchers : Reorg(Progress(h))

ProgressNext == ConfigNext \/ LedgerNext \/ RetractionNext \/ ReorgNext \/ ReorgTimers

ProgressSpec == ProgressInit /\ [][ProgressNext]_allvars /\ WF_allvars(Scheduled)
-----------------------------------------------------------------------------
(***************************************************************************)
(* The instances.                                                          *)
(***************************************************************************)

PerHub(a, b, c) == hubA :> a @@ hubB :> b @@ hubC :> c

\* Round 1 counts keys; round 2 weighs stake, most of it hubC's; hubA is the
\* only validator of round 3, and with hubB of round 4.  hubB also builds round 3
\* and hubC round 4, whose validators they are not.
Weighing(ws) ==
    [validators |-> [i \in DOMAIN ws |-> MCValidator(MCHubsOrder[i], ws[i])], truncated |-> FALSE]
MCIdSnapshot == <<Weighing(<<1, 1, 1>>), Weighing(<<1, 1, 3>>), Weighing(<<1>>), Weighing(<<1, 1>>)>>
MCIdWeighted == <<FALSE, TRUE, FALSE, FALSE>>
MCBuilds == PerHub({1}, {1, 3}, {2, 4})

Pushes(a, b, c, faults) == [pushes |-> PerHub(a, b, c), faults |-> faults]
MCPushPlans == {Pushes(1, 1, 0, 1), Pushes(1, 0, 1, 1), Pushes(2, 0, 0, 1)}

MCStampMembers == <<{hubA, hubB, hubC}, {hubA, hubB}, {hubC}>>

ReorgOf(tips, reports, follow, faults, patience) ==
    [tip |-> tips, reports |-> reports, follow |-> follow, faults |-> faults, patience |-> patience]

MCReorgPlans ==
    { ReorgOf(PerHub(1, 1, 1), PerHub(1, 1, 0), {hubA, hubB}, 1, "short"),
      ReorgOf(PerHub(1, 1, 1), PerHub(2, 0, 0), {hubA, hubB}, 0, "short"),
      ReorgOf(PerHub(1, 2, 1), PerHub(1, 1, 0), {hubA, hubB}, 0, "short"),
      ReorgOf(PerHub(1, 2, 3), PerHub(1, 0, 1), {hubA, hubC}, 1, "short") }

\* No fault, no timer, and every node comes to show the reorg hubA reports.
MCUndisturbed == { ReorgOf(PerHub(1, 1, 1), PerHub(1, 0, 0), {hubA, hubB, hubC}, 0, "long") }

-----------------------------------------------------------------------------

\* LegRelayed of RelayLedger: a deferred write, an abandoned round or a crash
\* leaves no guard and no retired round behind that would keep the poll from
\* proposing the leg again.
LegRelayed == part = "ledger" => RelayedEventually
=============================================================================
