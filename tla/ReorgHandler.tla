---------------------------- MODULE ReorgHandler ----------------------------
(***************************************************************************)
(* The federation's agreement to roll back after a reorg                   *)
(* (anchor/reorg_handler.js and anchor/reorg_handler/).  A hub reports a   *)
(* reorg its own node shows: REORG_ALERT, then PREPARE and COMMIT votes of *)
(* hubs that confirmed it on their own nodes, then the rollback.           *)
(*                                                                         *)
(* The module follows one reorg id past the snapshot-lock gate: a round is *)
(* bound to the BTC height its opener stamped, which names the members and *)
(* the quorum and is part of the digest.  A handler first probes its own   *)
(* indexer and looks up the snapshot; both are awaits, in the opposite     *)
(* order for an ALERT and for a PREPARE.                                   *)
(***************************************************************************)
EXTENDS HubQuorum

CONSTANTS
    Watchers,       \* the hubs
    Stamps,         \* BTC heights a round may be stamped with
    StampMembers,   \* Stamps -> the validators of the snapshot at that height
    NoReorgRound,
    \* bounds of the model
    ReorgPlans      \* what may happen in a behaviour, which picks one: the tip
                    \* each hub sees, how often each hub reports the reorg, the
                    \* hubs whose nodes show it sooner or later, whether timers
                    \* fire ("short" patience), the number of faults

\* A tip is a height with a snapshot; a node, a report and a fault are counted.
ASSUME ReorgPlansAssumption ==
    ReorgPlans \subseteq [tip : [Watchers -> Stamps], reports : [Watchers -> Nat],
                          follow : SUBSET Watchers, faults : Nat, patience : {"short", "long"}]

VARIABLES
    reorgPlan,      \* the reports and faults still to come
    resynced,       \* hubs whose own node shows the reorg
    reorgRound,     \* pendingReorgs.get(reorgId)
    processed,      \* hubs with the id in this.processed
    probes,         \* handlers suspended at an await
    reorgNet,       \* gossip not yet delivered to each hub
    rollbacks       \* history: the rollbacks executed

gvars == <<reorgPlan, resynced, reorgRound, processed, probes, reorgNet, rollbacks>>

-----------------------------------------------------------------------------

snapshotQuorum(b) == bftQuorumOrSingle(Cardinality(StampMembers[b]), 0)

ReorgFault == reorgPlan.faults > 0 /\ reorgPlan' = [reorgPlan EXCEPT !.faults = @ - 1]

ReorgMessage(type, h, b) == [type |-> type, from |-> h, stamp |-> b]

\* A hub whose node never shows the reorg abstains whatever it is sent.
Alarm(net, h, msgs) ==
    [k \in Watchers |-> IF k \in reorgPlan.follow \ {h} THEN net[k] \cup msgs ELSE net[k]]

Delivered(h, m) == [reorgNet EXCEPT ![h] = @ \ {m}]

NoPending(h) == reorgRound[h] = NoReorgRound

\* lockReorgFederationSnapshot: this hub is a member at the stamped height.
\* A stamp beyond the tolerance of its own tip is a lookup that fails.
Locks(h, b) == h \in StampMembers[b]

NewReorgRound(b, prepares) ==
    [stamp |-> b, prepares |-> prepares, commits |-> {}, commitSent |-> FALSE, final |-> FALSE]

-----------------------------------------------------------------------------
(***************************************************************************)
(* The tally.                                                              *)
(***************************************************************************)

PrepareMet(r) == ~r.final /\ ~r.commitSent /\ Cardinality(r.prepares) >= snapshotQuorum(r.stamp)

CommitMet(r) == ~r.final /\ Cardinality(r.commits) >= snapshotQuorum(r.stamp)

\* executeRollback at one of its awaits, with the votes it rests on; a lone reporter
\* runs it without a round.
Rollback(at, proof, lone) == [kind |-> at, proof |-> proof, lone |-> lone]

\* checkCommitQuorum: the round is final, and executeRollback starts.
TallyCommits(h, r, net, ts) ==
    /\ reorgRound' = [reorgRound EXCEPT ![h] = IF CommitMet(r) THEN [r EXCEPT !.final = TRUE] ELSE r]
    /\ reorgNet' = net
    /\ probes' = [probes EXCEPT ![h] = IF CommitMet(r)
                                       THEN ts \cup {Rollback("delete", r.commits, FALSE)}
                                       ELSE ts]

\* checkPrepareQuorum: this hub's COMMIT, once.
TallyPrepares(h, r, net, ts) ==
    IF PrepareMet(r)
    THEN TallyCommits(h, [r EXCEPT !.commitSent = TRUE, !.commits = @ \cup {h}],
                      Alarm(net, h, {ReorgMessage("COMMIT", h, r.stamp)}), ts)
    ELSE reorgRound' = [reorgRound EXCEPT ![h] = r] /\ reorgNet' = net /\ probes' = [probes EXCEPT ![h] = ts]

\* initiateReorgConsensus: a round with this hub's own PREPARE; nothing when the
\* id has a round by now.
initiateReorgConsensus(h, b, net, ts) ==
    IF NoPending(h)
    THEN TallyPrepares(h, NewReorgRound(b, {h}), Alarm(net, h, {ReorgMessage("PREPARE", h, b)}), ts)
    ELSE reorgNet' = net /\ probes' = [probes EXCEPT ![h] = ts] /\ UNCHANGED reorgRound

-----------------------------------------------------------------------------
(***************************************************************************)
(* Reporting.                                                              *)
(***************************************************************************)

NodeResyncs(h) ==
    /\ h \in reorgPlan.follow \ resynced
    /\ resynced' = resynced \cup {h}
    /\ UNCHANGED <<reorgPlan, reorgRound, processed, probes, reorgNet, rollbacks>>

\* reportReorg, up to its awaits.  The rate limit is noted after them.
reportReorg(h) ==
    /\ reorgPlan.reports[h] > 0
    /\ reorgPlan' = [reorgPlan EXCEPT !.reports[h] = @ - 1]
    /\ h \in resynced /\ h \notin processed
    /\ probes' = [probes EXCEPT ![h] = @ \cup {[kind |-> "report"]}]
    /\ UNCHANGED <<resynced, reorgRound, processed, reorgNet, rollbacks>>

\* Past its awaits: a lone member rolls back at once, otherwise the ALERT goes
\* out and a round starts.
startReportedReorgRound(h) ==
    \E t \in probes[h] :
        LET b == reorgPlan.tip[h]
            ts == probes[h] \ {t}
        IN  /\ t.kind = "report"
            /\ IF ~Locks(h, b)
               THEN probes' = [probes EXCEPT ![h] = ts] /\ UNCHANGED <<reorgRound, reorgNet>>
               ELSE IF snapshotQuorum(b) = 0
               THEN /\ probes' = [probes EXCEPT ![h] = ts \cup {Rollback("delete", {h}, TRUE)}]
                    /\ UNCHANGED <<reorgRound, reorgNet>>
               ELSE initiateReorgConsensus(h, b, Alarm(reorgNet, h, {ReorgMessage("ALERT", h, b)}), ts)
            /\ UNCHANGED <<reorgPlan, resynced, processed, rollbacks>>

-----------------------------------------------------------------------------
(***************************************************************************)
(* Hearing of it.                                                          *)
(***************************************************************************)

\* handleAlert up to the probe of its own node.
handleAlert(h) ==
    \E m \in reorgNet[h] :
        /\ m.type = "ALERT"
        /\ reorgNet' = Delivered(h, m)
        /\ probes' = IF h \notin processed /\ NoPending(h)
                     THEN [probes EXCEPT ![h] = @ \cup {[kind |-> "alert", msg |-> m]}]
                     ELSE probes
        /\ UNCHANGED <<reorgPlan, resynced, reorgRound, processed, rollbacks>>

\* Mutant: a hub takes the reporter's word.
MutTrustReporter(h) == TRUE

\* verifyReorgAgainstOwnNode: this hub's own node shows the reorg.
OwnNodeConfirms(h) == h \in resynced

\* The probe answered: go on to the snapshot, or abstain.
alertVerified(h) ==
    \E t \in probes[h] :
        /\ t.kind = "alert"
        /\ probes' = [probes EXCEPT ![h] =
                        (@ \ {t}) \cup IF OwnNodeConfirms(h) /\ h \notin processed /\ NoPending(h)
                                       THEN {[kind |-> "alertLock", msg |-> t.msg]} ELSE {}]
        /\ UNCHANGED <<reorgPlan, resynced, reorgRound, processed, reorgNet, rollbacks>>

\* The snapshot answered: this hub joins with a PREPARE of its own.
alertLocked(h) ==
    \E t \in probes[h] :
        /\ t.kind = "alertLock"
        /\ LET ts == probes[h] \ {t}
           IN  IF Locks(h, t.msg.stamp) /\ t.msg.from \in StampMembers[t.msg.stamp]
               THEN initiateReorgConsensus(h, t.msg.stamp, reorgNet, ts)
               ELSE probes' = [probes EXCEPT ![h] = ts] /\ UNCHANGED <<reorgRound, reorgNet>>
        /\ UNCHANGED <<reorgPlan, resynced, processed, rollbacks>>

\* The PREPARE m counts if it is for the stamp of the round r.
CountPrepare(h, m, r, ts, net) ==
    IF m.stamp = r.stamp /\ m.from \in StampMembers[r.stamp]
    THEN TallyPrepares(h, [r EXCEPT !.prepares = @ \cup {m.from}], net, ts)
    ELSE /\ reorgRound' = [reorgRound EXCEPT ![h] = r]
         /\ reorgNet' = net
         /\ probes' = [probes EXCEPT ![h] = ts]

\* handlePrepare: counted in the round at hand; else openRoundFromPrepare looks
\* up the snapshot and then probes the own node, up to which it is one await.
handleReorgPrepare(h) ==
    \E m \in reorgNet[h] :
        /\ m.type = "PREPARE"
        /\ IF ~NoPending(h) THEN CountPrepare(h, m, reorgRound[h], probes[h], Delivered(h, m))
           ELSE /\ reorgNet' = Delivered(h, m)
                /\ probes' = IF h \in processed THEN probes
                             ELSE [probes EXCEPT ![h] = @ \cup {[kind |-> "prepare", msg |-> m]}]
                /\ UNCHANGED reorgRound
        /\ UNCHANGED <<reorgPlan, resynced, processed, rollbacks>>

\* The rest: openFollowerRound, which holds no vote of this hub, unless a round
\* opened meanwhile; then the PREPARE is counted.
openReorgFollowerRound(h) ==
    \E t \in probes[h] :
        /\ t.kind = "prepare"
        /\ LET b == t.msg.stamp
               ts == probes[h] \ {t}
           IN  IF Locks(h, b) /\ t.msg.from \in StampMembers[b] /\ OwnNodeConfirms(h)
               THEN CountPrepare(h, t.msg, IF NoPending(h) THEN NewReorgRound(b, {}) ELSE reorgRound[h],
                                 ts, reorgNet)
               ELSE probes' = [probes EXCEPT ![h] = ts] /\ UNCHANGED <<reorgRound, reorgNet>>
        /\ UNCHANGED <<reorgPlan, resynced, processed, rollbacks>>

\* handleCommit: a COMMIT with no round to count it in is gone.
handleReorgCommit(h) ==
    \E m \in reorgNet[h] :
        /\ m.type = "COMMIT"
        /\ IF ~NoPending(h) /\ m.stamp = reorgRound[h].stamp /\ m.from \in StampMembers[m.stamp]
           THEN TallyCommits(h, [reorgRound[h] EXCEPT !.commits = @ \cup {m.from}], Delivered(h, m), probes[h])
           ELSE reorgNet' = Delivered(h, m) /\ UNCHANGED <<reorgRound, probes>>
        /\ UNCHANGED <<reorgPlan, resynced, processed, rollbacks>>

-----------------------------------------------------------------------------
(***************************************************************************)
(* Rolling back, and giving up.                                            *)
(***************************************************************************)

\* executeRollback, its first statement: the attestations are gone.
executeRollback(h) ==
    \E t \in probes[h] :
        /\ t.kind = "delete"
        /\ rollbacks' = rollbacks \cup {[hub |-> h, proof |-> t.proof]}
        /\ probes' = [probes EXCEPT ![h] = (@ \ {t}) \cup {Rollback("attest", t.proof, t.lone)}]
        /\ UNCHANGED <<reorgPlan, resynced, reorgRound, processed, reorgNet>>

\* The price rows are disputed and the reorg attestation is written: the id is
\* processed, while the disputed rows are read again for the mirrors.
setReorgAttestation(h) ==
    \E t \in probes[h] :
        /\ t.kind = "attest"
        /\ processed' = processed \cup {h}
        /\ probes' = [probes EXCEPT ![h] = (@ \ {t}) \cup {Rollback("emit", t.proof, t.lone)}]
        /\ UNCHANGED <<reorgPlan, resynced, reorgRound, reorgNet, rollbacks>>

\* Mutant: the round, whose timer is cleared, is left after its rollback.
MutKeepFinal(h, t) == reorgRound

\* The round goes with the end of its rollback, whichever it is.
Forgotten(h, t) == IF t.lone THEN reorgRound ELSE [reorgRound EXCEPT ![h] = NoReorgRound]

\* The mirrors are told (or the rows cannot be read, which is no error).
emitDisputedPriceRows(h) ==
    \E t \in probes[h] :
        /\ t.kind = "emit"
        /\ reorgRound' = Forgotten(h, t)
        /\ probes' = [probes EXCEPT ![h] = @ \ {t}]
        /\ UNCHANGED <<reorgPlan, resynced, processed, reorgNet, rollbacks>>

\* One of the statements fails, the first or one after it: the round goes, the id
\* is not processed.
rollbackFails(h) ==
    \E t \in probes[h] :
        /\ t.kind \in {"delete", "attest"}
        /\ ReorgFault
        /\ reorgRound' = Forgotten(h, t)
        /\ probes' = [probes EXCEPT ![h] = @ \ {t}]
        /\ UNCHANGED <<resynced, processed, reorgNet, rollbacks>>

\* armLeaderTimeout, the timer of openFollowerRound.
reorgTimeout(h) ==
    /\ ~NoPending(h) /\ ~reorgRound[h].final
    /\ reorgPlan.patience = "short"
    /\ reorgRound' = [reorgRound EXCEPT ![h] = NoReorgRound]
    /\ UNCHANGED <<reorgPlan, resynced, processed, probes, reorgNet, rollbacks>>

\* A probe or a lookup fails: the hub abstains.
probeFails(h) ==
    \E t \in probes[h] :
        /\ t.kind \in {"report", "alert", "alertLock", "prepare"}
        /\ ReorgFault
        /\ probes' = [probes EXCEPT ![h] = @ \ {t}]
        /\ UNCHANGED <<resynced, reorgRound, processed, reorgNet, rollbacks>>

-----------------------------------------------------------------------------

GInit ==
    /\ reorgPlan \in ReorgPlans
    /\ resynced = {} /\ processed = {} /\ rollbacks = {}
    /\ reorgRound = [h \in Watchers |-> NoReorgRound]
    /\ probes = [h \in Watchers |-> {}]
    /\ reorgNet = [h \in Watchers |-> {}]

Progress(h) ==
    \/ NodeResyncs(h) \/ reportReorg(h) \/ startReportedReorgRound(h)
    \/ handleAlert(h) \/ alertVerified(h) \/ alertLocked(h)
    \/ handleReorgPrepare(h) \/ openReorgFollowerRound(h) \/ handleReorgCommit(h)
    \/ executeRollback(h) \/ setReorgAttestation(h) \/ emitDisputedPriceRows(h) \/ reorgTimeout(h)

GNext == \E h \in Watchers : Progress(h) \/ rollbackFails(h) \/ probeFails(h)

GSpec == GInit /\ [][GNext]_gvars

-----------------------------------------------------------------------------
(***************************************************************************)
(* Properties.                                                             *)
(***************************************************************************)

\* A hub rolls back only when a quorum of the members at the stamped height each
\* saw the reorg on its own node ("2f+1 INDEPENDENT observations", header).
RollbackOnObservations ==
    \A r \in rollbacks :
        /\ r.proof \subseteq resynced
        /\ \E b \in Stamps : r.proof \subseteq StampMembers[b] /\ Cardinality(r.proof) >= snapshotQuorum(b)

\* A round never stays: it ends in a rollback or its timer takes it, and its
\* slot of maxPendingReorgs is free again.
RoundsEnd == []<>(\A h \in Watchers : NoPending(h))

\* "a real reorg only needs the honest majority's nodes to have re-synced": if the
\* nodes have followed by the time any hub looks, and a hub reports, every hub rolls
\* back.
RealReorgConfirmed ==
    LET involved == \E h \in Watchers : ~NoPending(h) \/ probes[h] # {}
    IN  [](involved => reorgPlan.follow \subseteq resynced)
        => (involved ~> \A h \in reorgPlan.follow : \E r \in rollbacks : r.hub = h)
=============================================================================
