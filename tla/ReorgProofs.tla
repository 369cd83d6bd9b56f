----------------------------- MODULE ReorgProofs -----------------------------
(***************************************************************************)
(* What is proved of the rails that act on a reorg:                        *)
(*                                                                         *)
(*   RailKeepsPromise              RetractionConsensus implements          *)
(*                                 DeletionPromise                         *)
(*   RollbacksRestOnObservations   ReorgHandler rolls back on a quorum of  *)
(*                                 observations                            *)
(*   NoRowOutlivesItsRetraction    RelayLedger retracts a row for good     *)
(***************************************************************************)
EXTENDS RetractionConsensus, ReorgHandler, RelayLedger, FiniteSetTheorems, TLAPS

-----------------------------------------------------------------------------
(***************************************************************************)
(* RetractionConsensus implements DeletionPromise, for every federation,   *)
(* every assignment of tips to hubs and every number of faults.            *)
(*                                                                         *)
(* What a hub streams is decided by what it collected, and what it         *)
(* collected came from hubs whose intent may be gone by then: intents      *)
(* expire and hubs restart.  The invariant therefore speaks of `pushed`,   *)
(* which never shrinks, and follows the keys of a signature from the       *)
(* intent through messages, open rounds and suspended handlers.            *)
(***************************************************************************)

\* The keys of a signature set belong to hubs whose indexer asked.
Asked(by) == by \subseteq pushed

\* A set of signatures finalize may be called with at h.
Proof(h, id, by) ==
    /\ id \in RoundIds /\ by \ {h} \subseteq IdKeys(id)
    /\ MeetsIdQuorum(id, by) \/ (LoneValidator(id) /\ by = {h})

IntentsInv == pushed \subseteq Deleters /\ intents \subseteq pushed /\ deferrals \subseteq pushed

SignaturesInv == \A m \in cosigned : m.by \in pushed /\ m.id \in RoundIds

MessagesInv ==
    /\ rnet = [h \in Deleters |-> rnet[h]]
    /\ \A h \in Deleters : \A m \in rnet[h] : m.id \in RoundIds /\ Asked(m.by)

RoundsInv ==
    /\ signing = [h \in Deleters |-> signing[h]]
    /\ \A h \in Deleters : \A id \in DOMAIN signing[h] :
          /\ id \in RoundIds /\ h \in pushed
          /\ Asked(signing[h][id]) /\ signing[h][id] \ {h} \subseteq IdKeys(id)

TaskOK(h, t) ==
    /\ t.kind = "submit" => h \in pushed
    /\ t.kind = "verify" => t.id \in RoundIds /\ Asked(t.by)
    /\ t.kind = "persist" => Asked(t.by) /\ Proof(h, t.id, t.by)

TasksInv ==
    /\ rtasks = [h \in Deleters |-> rtasks[h]]
    /\ \A h \in Deleters : \A t \in rtasks[h] : TaskOK(h, t)

PromiseInv == IntentsInv /\ SignaturesInv /\ MessagesInv /\ RoundsInv /\ TasksInv

-----------------------------------------------------------------------------

\* The initial states satisfy the invariant.
LEMMA InitPromiseInv == RInit => PromiseInv
  BY DEF RInit, PromiseInv, IntentsInv, SignaturesInv, MessagesInv, RoundsInv, TasksInv

\* What a suspended handler rests on stays true as more hubs are pushed to.
LEMMA TaskStaysOK ==
    ASSUME NEW h, NEW t, TaskOK(h, t), pushed \subseteq pushed'
    PROVE  TaskOK(h, t)'
  BY DEF TaskOK, Asked, Proof

\* The handlers of one hub may be replaced by any that are in order.
LEMMA TasksReplaced ==
    ASSUME TasksInv, pushed \subseteq pushed', NEW h \in Deleters, NEW ts,
           rtasks' = [rtasks EXCEPT ![h] = ts], \A t \in ts : TaskOK(h, t)'
    PROVE  TasksInv'
<1>1. \A k \in Deleters : \A t \in rtasks[k] : TaskOK(k, t)'
  BY TaskStaysOK DEF TasksInv
<1>2. rtasks' = [k \in Deleters |-> rtasks'[k]] /\ rtasks'[h] = ts
      /\ \A k \in Deleters \ {h} : rtasks'[k] = rtasks[k]
  BY DEF TasksInv
<1>3. QED
  BY <1>1, <1>2 DEF TasksInv

\* A handler at the await of finalize with a proof is in order.
LEMMA PersistOK ==
    ASSUME NEW h, NEW id, NEW by, NEW from, by \subseteq pushed', Proof(h, id, by)
    PROVE  TaskOK(h, Persist(id, by, from))'
<1>1. /\ Persist(id, by, from).kind = "persist"
      /\ Persist(id, by, from).id = id /\ Persist(id, by, from).by = by
  BY DEF Persist
<1>2. Persist(id, by, from)' = Persist(id, by, from) /\ Proof(h, id, by)'
  BY DEF Persist, Proof
<1>3. QED
  BY <1>1, <1>2 DEF TaskOK, Asked

\* checkQuorum keeps the rounds, messages and handlers in order when the
\* signatures it is given are those of members whose indexer asked.
LEMMA CheckQuorumKeeps ==
    ASSUME MessagesInv, RoundsInv, TasksInv, UNCHANGED pushed,
           NEW h \in Deleters, h \in pushed, NEW id \in RoundIds,
           NEW by, Asked(by), by \ {h} \subseteq IdKeys(id),
           NEW ts, \A t \in ts : TaskOK(h, t),
           CheckQuorum(h, id, by, ts)
    PROVE  MessagesInv' /\ RoundsInv' /\ TasksInv'
<1>1. MessagesInv'
  BY DEF CheckQuorum, MessagesInv, Announce, Asked
<1>2. RoundsInv'
  <2>1. CASE MeetsIdQuorum(id, by)
    BY <2>1 DEF CheckQuorum, RoundsInv, OpenIds, Asked
  <2>2. CASE ~MeetsIdQuorum(id, by)
    BY <2>2 DEF CheckQuorum, RoundsInv, OpenIds, Asked
  <2>3. QED
    BY <2>1, <2>2
<1>3. TasksInv'
  <2>1. TaskOK(h, Persist(id, by, h)) \/ ~MeetsIdQuorum(id, by)
    BY DEF TaskOK, Persist, Proof
  <2>2. QED
    BY <2>1 DEF CheckQuorum, TasksInv, TaskOK, Asked, Proof
<1>4. QED
  BY <1>1, <1>2, <1>3

\* Every step keeps the invariant.
LEMMA StepPromiseInv == PromiseInv /\ [RNext]_rvars => PromiseInv'
<1> SUFFICES ASSUME PromiseInv, [RNext]_rvars PROVE PromiseInv'
  OBVIOUS
<1> USE DEF PromiseInv
<1>1. ASSUME NEW h \in Deleters, submitLocal(h) PROVE PromiseInv'
  <2>1. IntentsInv' /\ SignaturesInv' /\ MessagesInv' /\ RoundsInv'
    BY <1>1 DEF submitLocal, IntentsInv, SignaturesInv, MessagesInv, RoundsInv, Asked
  <2>2. TasksInv'
    <3>1. h \in pushed' /\ pushed \subseteq pushed'
      BY <1>1 DEF submitLocal
    <3>2. TaskOK(h, Submitting(FALSE))'
      BY <3>1 DEF TaskOK, Submitting
    <3>3. \A t \in rtasks[h] \cup {Submitting(FALSE)} : TaskOK(h, t)'
      BY <3>1, <3>2, TaskStaysOK DEF TasksInv
    <3>4. QED
      BY <1>1, <3>1, <3>3, TasksReplaced DEF submitLocal
  <2>3. QED
    BY <2>1, <2>2
<1>2. ASSUME NEW h \in Deleters, deferSigningRound(h) PROVE PromiseInv'
  <2>1. h \in pushed
    BY <1>2 DEF deferSigningRound, TasksInv, TaskOK
  <2>2. IntentsInv' /\ SignaturesInv' /\ MessagesInv' /\ RoundsInv'
    BY <1>2, <2>1 DEF deferSigningRound, IntentsInv, SignaturesInv, MessagesInv, RoundsInv, Asked
  <2>3. TasksInv'
    BY <1>2 DEF deferSigningRound, TasksInv, TaskOK, Asked, Proof
  <2>4. QED
    BY <2>2, <2>3
<1>3. ASSUME NEW h \in Deleters, retryDeferred(h) PROVE PromiseInv'
  <2>1. IntentsInv' /\ SignaturesInv' /\ MessagesInv' /\ RoundsInv'
    BY <1>3 DEF retryDeferred, IntentsInv, SignaturesInv, MessagesInv, RoundsInv, Asked
  <2>2. TasksInv'
    <3>1. h \in pushed' /\ pushed \subseteq pushed'
      BY <1>3 DEF retryDeferred, IntentsInv
    <3>2. TaskOK(h, Submitting(TRUE))'
      BY <3>1 DEF TaskOK, Submitting
    <3>3. \A t \in rtasks[h] \cup {Submitting(TRUE)} : TaskOK(h, t)'
      BY <3>1, <3>2, TaskStaysOK DEF TasksInv
    <3>4. QED
      BY <1>3, <3>1, <3>3, TasksReplaced DEF retryDeferred
  <2>3. QED
    BY <2>1, <2>2
<1>4. ASSUME NEW h \in Deleters, submitQuorumRetraction(h) PROVE PromiseInv'
  <2>1. PICK t \in rtasks[h], id \in Builds[h] :
          /\ t.kind = "submit"
          /\ IF id \in OpenIds(h) \cup doneIds[h]
             THEN /\ rtasks' = [rtasks EXCEPT ![h] = rtasks[h] \ {t}]
                  /\ UNCHANGED <<signing, doneIds, rnet>>
             ELSE IF LoneValidator(id)
             THEN /\ rtasks' = [rtasks EXCEPT ![h] = (rtasks[h] \ {t}) \cup {Persist(id, {h}, h)}]
                  /\ UNCHANGED <<signing, rnet>>
             ELSE CheckQuorum(h, id, {h}, rtasks[h] \ {t})
    BY <1>4 DEF submitQuorumRetraction
  <2>2. h \in pushed /\ UNCHANGED <<cosigned, pushed, intents>> /\ deferrals' = deferrals \ {h}
    BY <1>4, <2>1 DEF submitQuorumRetraction, TasksInv, TaskOK
  <2>3. id \in RoundIds /\ {h} \ {h} \subseteq IdKeys(id) /\ Asked({h})
        /\ \A u \in rtasks[h] \ {t} : TaskOK(h, u)
    BY <2>1, <2>2, BuildsAssumption DEF TasksInv, Asked
  <2>4. IntentsInv' /\ SignaturesInv'
    BY <2>2 DEF IntentsInv, SignaturesInv
  <2>5. MessagesInv' /\ RoundsInv' /\ TasksInv'
    <3>1. CASE id \in OpenIds(h) \cup doneIds[h]
      BY <2>1, <2>2, <3>1 DEF MessagesInv, RoundsInv, TasksInv, TaskOK, Asked, Proof
    <3>2. CASE id \notin OpenIds(h) \cup doneIds[h] /\ LoneValidator(id)
      <4>1. Proof(h, id, {h}) /\ {h} \subseteq pushed'
        BY <2>2, <2>3, <3>2 DEF Proof
      <4>2. \A u \in (rtasks[h] \ {t}) \cup {Persist(id, {h}, h)} : TaskOK(h, u)'
        BY <2>2, <2>3, <4>1, PersistOK, TaskStaysOK
      <4>3. TasksInv'
        BY <2>1, <2>2, <3>2, <4>2, TasksReplaced
      <4>4. MessagesInv' /\ RoundsInv'
        BY <2>1, <2>2, <3>2 DEF MessagesInv, RoundsInv, Asked
      <4>5. QED
        BY <4>3, <4>4
    <3>3. CASE id \notin OpenIds(h) \cup doneIds[h] /\ ~LoneValidator(id)
      BY <2>1, <2>2, <2>3, <3>3, CheckQuorumKeeps
    <3>4. QED
      BY <3>1, <3>2, <3>3
  <2>6. QED
    BY <2>4, <2>5
<1>5. ASSUME NEW h \in Deleters, signingTimeout(h) PROVE PromiseInv'
  <2>1. RoundsInv'
    BY <1>5 DEF signingTimeout, RoundsInv, OpenIds, Asked
  <2>2. QED
    BY <1>5, <2>1 DEF signingTimeout, IntentsInv, SignaturesInv, MessagesInv, TasksInv, TaskOK,
                      Asked, Proof
<1>6. ASSUME NEW h \in Deleters, handleSignReq(h) PROVE PromiseInv'
  <2>1. SignaturesInv'
    BY <1>6 DEF handleSignReq, CoSigns, OpenIds, SignaturesInv, IntentsInv, RoundsInv
  <2>2. QED
    BY <1>6, <2>1 DEF handleSignReq, IntentsInv, MessagesInv, RoundsInv, TasksInv, TaskOK, Asked,
                      Proof
<1>7. ASSUME NEW h \in Deleters, handleSign(h) PROVE PromiseInv'
  <2>1. PICK m \in cosigned :
          /\ m.id \in OpenIds(h) /\ m.by \in IdKeys(m.id)
          /\ CheckQuorum(h, m.id, signing[h][m.id] \cup {m.by}, rtasks[h])
    BY <1>7 DEF handleSign
  <2>2. UNCHANGED <<pushed, intents, deferrals, cosigned>>
    BY <1>7 DEF handleSign
  <2>3. /\ m.id \in RoundIds /\ h \in pushed
        /\ Asked(signing[h][m.id] \cup {m.by}) /\ (signing[h][m.id] \cup {m.by}) \ {h} \subseteq IdKeys(m.id)
    BY <2>1 DEF SignaturesInv, RoundsInv, OpenIds, Asked
  <2>4. \A t \in rtasks[h] : TaskOK(h, t)
    BY DEF TasksInv
  <2>5. MessagesInv' /\ RoundsInv' /\ TasksInv'
    BY <2>1, <2>2, <2>3, <2>4, CheckQuorumKeeps
  <2>6. QED
    BY <2>2, <2>5 DEF IntentsInv, SignaturesInv
<1>8. ASSUME NEW h \in Deleters, handleFinalized(h) PROVE PromiseInv'
  <2>1. MessagesInv'
    BY <1>8 DEF handleFinalized, MessagesInv, Asked
  <2>2. TasksInv'
    <3>1. PICK m \in rnet[h] :
            rtasks' = IF m.id \in doneIds[h] THEN rtasks
                      ELSE [rtasks EXCEPT ![h] = @ \cup {[kind |-> "verify", id |-> m.id, by |-> m.by,
                                                         from |-> m.from]}]
      BY <1>8 DEF handleFinalized
    <3> DEFINE v == [kind |-> "verify", id |-> m.id, by |-> m.by, from |-> m.from]
    <3>2. m.id \in RoundIds /\ m.by \subseteq pushed' /\ pushed \subseteq pushed'
      BY <1>8 DEF handleFinalized, MessagesInv, Asked
    <3>3. TaskOK(h, v)'
      BY <3>2 DEF TaskOK, Asked
    <3>4. \A t \in rtasks[h] \cup {v} : TaskOK(h, t)'
      BY <3>2, <3>3, TaskStaysOK DEF TasksInv
    <3>5. CASE m.id \in doneIds[h]
      BY <3>1, <3>2, <3>5, TaskStaysOK DEF TasksInv
    <3>6. CASE m.id \notin doneIds[h]
      BY <3>1, <3>2, <3>4, <3>6, TasksReplaced
    <3>7. QED
      BY <3>5, <3>6
  <2>3. QED
    BY <1>8, <2>1, <2>2 DEF handleFinalized, IntentsInv, SignaturesInv, RoundsInv, Asked
<1>9. ASSUME NEW h \in Deleters, verifyFinalized(h) PROVE PromiseInv'
  <2>1. TasksInv'
    <3>1. PICK t \in rtasks[h] :
            /\ t.kind = "verify"
            /\ IF MeetsIdQuorum(t.id, t.by \cap IdKeys(t.id))
               THEN rtasks' = [rtasks EXCEPT ![h] =
                                 (@ \ {t}) \cup {Persist(t.id, t.by \cap IdKeys(t.id), t.from)}]
               ELSE rtasks' = [rtasks EXCEPT ![h] = @ \ {t}]
      BY <1>9 DEF verifyFinalized
    <3> DEFINE by == t.by \cap IdKeys(t.id)
    <3>2. t.id \in RoundIds /\ by \subseteq pushed' /\ pushed \subseteq pushed'
      BY <1>9, <3>1 DEF verifyFinalized, TasksInv, TaskOK, Asked
    <3>3. \A u \in rtasks[h] : TaskOK(h, u)'
      BY <3>2, TaskStaysOK DEF TasksInv
    <3>4. CASE MeetsIdQuorum(t.id, by)
      <4>1. TaskOK(h, Persist(t.id, by, t.from))'
        BY <3>2, <3>4, PersistOK DEF Proof
      <4> HIDE DEF by
      <4>2. rtasks' = [rtasks EXCEPT ![h] = (rtasks[h] \ {t}) \cup {Persist(t.id, by, t.from)}]
        BY <3>1, <3>4 DEF by
      <4>3. QED
        BY <3>2, <3>3, <4>1, <4>2, TasksReplaced
    <3>5. CASE ~MeetsIdQuorum(t.id, by)
      BY <3>1, <3>2, <3>3, <3>5, TasksReplaced
    <3>6. QED
      BY <3>4, <3>5
  <2>2. QED
    BY <1>9, <2>1 DEF verifyFinalized, IntentsInv, SignaturesInv, MessagesInv, RoundsInv, Asked
<1>10. ASSUME NEW h \in Deleters, finalize(h) \/ finalizeFails(h) PROVE PromiseInv'
  <2>1. TasksInv'
    BY <1>10 DEF finalize, finalizeFails, TasksInv, TaskOK, Asked, Proof
  <2>2. QED
    BY <1>10, <2>1 DEF finalize, finalizeFails, IntentsInv, SignaturesInv, MessagesInv, RoundsInv,
                       Asked
<1>11. ASSUME NEW h \in Deleters, pruneIntents(h) \/ restartRail(h) PROVE PromiseInv'
  <2>1. RoundsInv' /\ TasksInv'
    BY <1>11 DEF pruneIntents, restartRail, RoundsInv, TasksInv, TaskOK, Asked, Proof
  <2>2. QED
    BY <1>11, <2>1 DEF pruneIntents, restartRail, IntentsInv, SignaturesInv, MessagesInv, Asked
<1>12. CASE UNCHANGED rvars
  BY <1>12 DEF rvars, IntentsInv, SignaturesInv, MessagesInv, RoundsInv, TasksInv, TaskOK, Asked,
               Proof
<1>13. QED
  BY <1>1, <1>2, <1>3, <1>4, <1>5, <1>6, <1>7, <1>8, <1>9, <1>10, <1>11, <1>12 DEF RNext

-----------------------------------------------------------------------------

\* A step of the rail is a step of the promise, or changes nothing the promise
\* speaks of: only a push, a timeout and the end of finalize do.
LEMMA StepSimulates == PromiseInv /\ [RNext]_rvars => [P!PromiseNext]_<<pushed, Streamed>>
<1> SUFFICES ASSUME PromiseInv, [RNext]_rvars PROVE [P!PromiseNext]_<<pushed, Streamed>>
  OBVIOUS
<1>1. ASSUME NEW h \in Deleters, submitLocal(h) PROVE P!PromiseNext
  BY <1>1 DEF submitLocal, P!PromiseNext, P!Ask, Streamed
<1>2. ASSUME NEW h \in Deleters, signingTimeout(h) PROVE P!PromiseNext
  <2>1. h \in pushed
    BY <1>2 DEF signingTimeout, OpenIds, PromiseInv, RoundsInv
  <2>2. PICK id : deletions' = deletions \cup {Deletion(h, id, {}, h)}
    BY <1>2 DEF signingTimeout, broadcastUnsigned
  <2>3. Streamed' = Streamed \cup {[hub |-> h, by |-> {}]}
    <3>1. Deletion(h, id, {}, h).hub = h /\ Deletion(h, id, {}, h).by = {}
      BY DEF Deletion
    <3>2. QED
      BY <2>2, <3>1 DEF Streamed
  <2>4. QED
    BY <1>2, <2>1, <2>3 DEF signingTimeout, P!PromiseNext, P!StreamUnsigned
<1>3. ASSUME NEW h \in Deleters, finalize(h) PROVE P!PromiseNext
  <2>1. PICK t \in rtasks[h] : t.kind = "persist"
                               /\ deletions' = deletions \cup {Deletion(h, t.id, t.by, t.from)}
    BY <1>3 DEF finalize
  <2>2. t.by \subseteq pushed /\ t.by \in SUBSET Deleters /\ Certified(h, t.by)
    BY <2>1 DEF PromiseInv, TasksInv, TaskOK, Asked, Proof, IntentsInv, Certified
  <2>3. Streamed' = Streamed \cup {[hub |-> h, by |-> t.by]}
    <3>1. Deletion(h, t.id, t.by, t.from).hub = h /\ Deletion(h, t.id, t.by, t.from).by = t.by
      BY DEF Deletion
    <3>2. QED
      BY <2>1, <3>1 DEF Streamed
  <2>4. QED
    BY <1>3, <2>2, <2>3 DEF finalize, P!PromiseNext, P!StreamSigned
<1>4. CASE UNCHANGED <<pushed, deletions>>
  BY <1>4 DEF Streamed
<1>5. QED
  BY <1>1, <1>2, <1>3, <1>4 DEF RNext, rvars, deferSigningRound, retryDeferred,
     submitQuorumRetraction, handleSignReq, handleSign, handleFinalized, verifyFinalized,
     finalizeFails, pruneIntents, restartRail

\* The rail implements the promise: an unsigned deletion goes out only at a hub
\* whose own indexer pushed the retraction, a signed one only with the signatures
\* of a quorum of such hubs (handleSignReq, checkQuorum, handleFinalized), whether
\* or not the hub that collected them is itself a validator of the snapshot.
THEOREM RailKeepsPromise == RSpec => KeepsPromise
<1>1. RInit => P!PromiseInit
  BY DEF RInit, P!PromiseInit, Streamed
<1>2. QED
  BY <1>1, InitPromiseInv, StepPromiseInv, StepSimulates, PTL DEF RSpec, KeepsPromise, P!Promise

-----------------------------------------------------------------------------
(***************************************************************************)
(* A rollback rests on a quorum of observations, for every federation,     *)
(* every set of snapshots and every number of reports, faults and timers.  *)
(*                                                                         *)
(* The quorum is counted in COMMITs, and no COMMIT says what its sender    *)
(* saw.  The invariant follows the observation from the probe of a node to *)
(* the round it lets the hub hold, from the round to the votes the hub     *)
(* sends, from the votes to the tallies of other hubs and from a tally to  *)
(* the rollback that is suspended at its statements.                       *)
(***************************************************************************)

PlanInv == /\ reorgPlan = [f \in DOMAIN reorgPlan |-> reorgPlan[f]]
           /\ "tip" \in DOMAIN reorgPlan /\ \A h \in Watchers : reorgPlan.tip[h] \in Stamps

\* What a vote or an alert tells of its sender.
VoteOK(m) == m.stamp \in Stamps /\ m.from \in resynced

VotesInv ==
    /\ reorgNet = [h \in Watchers |-> reorgNet[h]]
    /\ \A h \in Watchers : \A m \in reorgNet[h] : VoteOK(m)

\* A round is held by a member that saw the reorg, and tallies such members.
RoundOK(h, r) ==
    /\ r.stamp \in Stamps /\ h \in resynced /\ h \in StampMembers[r.stamp]
    /\ r.commits \subseteq resynced \cap StampMembers[r.stamp]

RoundShape(r) ==
    r \in [stamp : {r.stamp}, prepares : {r.prepares}, commits : {r.commits},
           commitSent : {r.commitSent}, final : {r.final}]

TalliesInv ==
    /\ reorgRound = [h \in Watchers |-> reorgRound[h]]
    /\ \A h \in Watchers : NoPending(h) \/ (RoundOK(h, reorgRound[h]) /\ RoundShape(reorgRound[h]))

\* The votes a rollback rests on.
Observed(by) ==
    /\ by \subseteq resynced
    /\ \E b \in Stamps : by \subseteq StampMembers[b] /\ Cardinality(by) >= snapshotQuorum(b)

ProbeOK(h, t) ==
    /\ t.kind \in {"report", "alertLock"} => h \in resynced
    /\ t.kind \in {"alert", "alertLock", "prepare"} => VoteOK(t.msg)
    /\ t.kind = "delete" => Observed(t.proof)

ProbesInv ==
    /\ probes = [h \in Watchers |-> probes[h]]
    /\ \A h \in Watchers : \A t \in probes[h] : ProbeOK(h, t)

ReorgInv == PlanInv /\ VotesInv /\ TalliesInv /\ ProbesInv /\ RollbackOnObservations

-----------------------------------------------------------------------------

\* The initial states satisfy the invariant.
LEMMA InitReorgInv == GInit => ReorgInv
<1> SUFFICES ASSUME GInit PROVE ReorgInv
  OBVIOUS
<1>1. PlanInv
  <2>1. reorgPlan \in [tip : [Watchers -> Stamps], reports : [Watchers -> Nat],
                       follow : SUBSET Watchers, faults : Nat, patience : {"short", "long"}]
    BY ReorgPlansAssumption DEF GInit
  <2>2. QED
    BY <2>1 DEF PlanInv
<1>2. QED
  BY <1>1 DEF GInit, ReorgInv, VotesInv, TalliesInv, ProbesInv, NoPending, RollbackOnObservations

\* Observations are never taken back, so what rests on them stays true.
LEMMA ObservationsStay ==
    ASSUME resynced \subseteq resynced'
    PROVE  /\ \A m : VoteOK(m) => VoteOK(m)'
           /\ \A h, r : RoundOK(h, r) => RoundOK(h, r)'
           /\ \A by : Observed(by) => Observed(by)'
           /\ \A h, t : ProbeOK(h, t) => ProbeOK(h, t)'
<1>1. \A m : VoteOK(m) => VoteOK(m)'
  BY DEF VoteOK
<1>2. \A by : Observed(by) => Observed(by)'
  BY DEF Observed, snapshotQuorum
<1>3. \A h, r : RoundOK(h, r) => RoundOK(h, r)'
  BY DEF RoundOK
<1>4. \A h, t : ProbeOK(h, t) => ProbeOK(h, t)'
  BY <1>1, <1>2 DEF ProbeOK
<1>5. QED
  BY <1>1, <1>2, <1>3, <1>4

\* An alarm of votes that are in order is in order at every hub.
LEMMA AlarmKeeps ==
    ASSUME NEW net, net = [h \in Watchers |-> net[h]],
           \A h \in Watchers : \A m \in net[h] : VoteOK(m),
           NEW h, NEW msgs, \A m \in msgs : VoteOK(m)
    PROVE  /\ Alarm(net, h, msgs) = [k \in Watchers |-> Alarm(net, h, msgs)[k]]
           /\ \A k \in Watchers : \A m \in Alarm(net, h, msgs)[k] : VoteOK(m)
  BY DEF Alarm

\* A hub's handlers may be replaced by any that are in order.
LEMMA ProbesReplaced ==
    ASSUME ProbesInv, resynced \subseteq resynced', NEW h \in Watchers,
           NEW ts, \A t \in ts : ProbeOK(h, t), probes' = [probes EXCEPT ![h] = ts]
    PROVE  ProbesInv'
<1>1. probes' = [k \in Watchers |-> probes'[k]]
      /\ probes'[h] = ts /\ \A k \in Watchers \ {h} : probes'[k] = probes[k]
  BY DEF ProbesInv
<1>2. \A k \in Watchers : \A t \in probes'[k] : ProbeOK(k, t)
  BY <1>1 DEF ProbesInv
<1>3. QED
  BY <1>1, <1>2, ObservationsStay DEF ProbesInv

\* A hub's round may be replaced by one that is in order, or by none.
LEMMA RoundReplaced ==
    ASSUME TalliesInv, resynced \subseteq resynced', NEW h \in Watchers,
           NEW r, r = NoReorgRound \/ (RoundOK(h, r) /\ RoundShape(r)),
           reorgRound' = [reorgRound EXCEPT ![h] = r]
    PROVE  TalliesInv'
<1>1. reorgRound' = [k \in Watchers |-> reorgRound'[k]]
      /\ reorgRound'[h] = r /\ \A k \in Watchers \ {h} : reorgRound'[k] = reorgRound[k]
  BY DEF TalliesInv
<1>2. \A k \in Watchers : \/ reorgRound'[k] = NoReorgRound
                          \/ RoundOK(k, reorgRound'[k]) /\ RoundShape(reorgRound'[k])
  BY <1>1 DEF TalliesInv, NoPending
<1>3. QED
  BY <1>1, <1>2, ObservationsStay DEF TalliesInv, NoPending, RoundShape

\* What may be handed on as the gossip in flight.
NetOK(net) ==
    /\ net = [h \in Watchers |-> net[h]]
    /\ \A h \in Watchers : \A m \in net[h] : VoteOK(m)

\* checkCommitQuorum keeps everything in order, if its arguments are.
LEMMA TallyCommitsKeeps ==
    ASSUME TalliesInv, ProbesInv, UNCHANGED resynced, NEW h \in Watchers,
           NEW r, RoundOK(h, r), RoundShape(r), NEW net, NetOK(net),
           NEW ts, \A t \in ts : ProbeOK(h, t), TallyCommits(h, r, net, ts)
    PROVE  VotesInv' /\ TalliesInv' /\ ProbesInv'
<1>0. resynced \subseteq resynced'
  OBVIOUS
<1>1. VotesInv'
  BY <1>0, ObservationsStay DEF TallyCommits, VotesInv, NetOK
<1>2. TalliesInv'
  <2>1. PICK q : q = IF CommitMet(r) THEN [r EXCEPT !.final = TRUE] ELSE r
    OBVIOUS
  <2>2. RoundOK(h, q) /\ RoundShape(q)
    BY <2>1 DEF RoundOK, RoundShape
  <2>3. reorgRound' = [reorgRound EXCEPT ![h] = q]
    BY <2>1 DEF TallyCommits
  <2>4. QED
    BY <1>0, <2>2, <2>3, RoundReplaced
<1>3. ProbesInv'
  <2>1. PICK us : us = IF CommitMet(r) THEN ts \cup {Rollback("delete", r.commits, FALSE)} ELSE ts
    OBVIOUS
  <2>2. ASSUME CommitMet(r) PROVE ProbeOK(h, Rollback("delete", r.commits, FALSE))
    BY <2>2 DEF CommitMet, RoundOK, Observed, ProbeOK, Rollback
  <2>3. \A t \in us : ProbeOK(h, t)
    BY <2>1, <2>2
  <2>4. probes' = [probes EXCEPT ![h] = us]
    BY <2>1 DEF TallyCommits
  <2>5. QED
    BY <1>0, <2>3, <2>4, ProbesReplaced
<1>4. QED
  BY <1>1, <1>2, <1>3

\* checkPrepareQuorum does too: the hub whose COMMIT it adds holds the round.
LEMMA TallyPreparesKeeps ==
    ASSUME TalliesInv, ProbesInv, UNCHANGED resynced, NEW h \in Watchers,
           NEW r, RoundOK(h, r), RoundShape(r), NEW net, NetOK(net),
           NEW ts, \A t \in ts : ProbeOK(h, t), TallyPrepares(h, r, net, ts)
    PROVE  VotesInv' /\ TalliesInv' /\ ProbesInv'
<1>1. CASE PrepareMet(r)
  <2>1. PICK q : q = [r EXCEPT !.commitSent = TRUE, !.commits = @ \cup {h}]
    OBVIOUS
  <2>2. RoundOK(h, q) /\ RoundShape(q)
    BY <2>1 DEF RoundOK, RoundShape
  <2>3. PICK n : n = Alarm(net, h, {ReorgMessage("COMMIT", h, r.stamp)})
    OBVIOUS
  <2>4. VoteOK(ReorgMessage("COMMIT", h, r.stamp))
    BY DEF VoteOK, ReorgMessage, RoundOK
  <2>5. NetOK(n)
    BY <2>3, <2>4, AlarmKeeps DEF NetOK
  <2>6. TallyCommits(h, q, n, ts)
    BY <1>1, <2>1, <2>3 DEF TallyPrepares
  <2>7. QED
    BY <2>2, <2>5, <2>6, TallyCommitsKeeps
<1>2. CASE ~PrepareMet(r)
  <2>1. reorgRound' = [reorgRound EXCEPT ![h] = r] /\ reorgNet' = net /\ probes' = [probes EXCEPT ![h] = ts]
    BY <1>2 DEF TallyPrepares
  <2>2. TalliesInv' /\ ProbesInv'
    BY <2>1, RoundReplaced, ProbesReplaced
  <2>3. QED
    BY <2>1, <2>2, ObservationsStay DEF VotesInv, NetOK
<1>3. QED
  BY <1>1, <1>2

\* A round opens in order at a member that saw the reorg.
LEMMA InitiateKeeps ==
    ASSUME TalliesInv, ProbesInv, UNCHANGED resynced, NEW h \in Watchers, h \in resynced,
           NEW b \in Stamps, h \in StampMembers[b], NEW net, NetOK(net),
           NEW ts, \A t \in ts : ProbeOK(h, t), initiateReorgConsensus(h, b, net, ts)
    PROVE  VotesInv' /\ TalliesInv' /\ ProbesInv'
<1>1. CASE NoPending(h)
  <2>1. PICK r : r = NewReorgRound(b, {h})
    OBVIOUS
  <2>2. RoundOK(h, r) /\ RoundShape(r)
    BY <2>1 DEF RoundOK, RoundShape, NewReorgRound
  <2>3. PICK n : n = Alarm(net, h, {ReorgMessage("PREPARE", h, b)})
    OBVIOUS
  <2>4. VoteOK(ReorgMessage("PREPARE", h, b))
    BY DEF VoteOK, ReorgMessage
  <2>5. NetOK(n)
    BY <2>3, <2>4, AlarmKeeps DEF NetOK
  <2>6. TallyPrepares(h, r, n, ts)
    BY <1>1, <2>1, <2>3 DEF initiateReorgConsensus
  <2>7. QED
    BY <2>2, <2>5, <2>6, TallyPreparesKeeps
<1>2. CASE ~NoPending(h)
  <2>1. reorgNet' = net /\ probes' = [probes EXCEPT ![h] = ts] /\ UNCHANGED reorgRound
    BY <1>2 DEF initiateReorgConsensus
  <2>2. ProbesInv'
    BY <2>1, ProbesReplaced
  <2>3. TalliesInv'
    BY <2>1, ObservationsStay DEF TalliesInv, NoPending, RoundShape
  <2>4. QED
    BY <2>1, <2>2, <2>3, ObservationsStay DEF VotesInv, NetOK
<1>3. QED
  BY <1>1, <1>2

\* A PREPARE is counted in order in a round that is.
LEMMA CountPrepareKeeps ==
    ASSUME TalliesInv, ProbesInv, UNCHANGED resynced, NEW h \in Watchers, NEW m,
           NEW r, RoundOK(h, r), RoundShape(r), NEW net, NetOK(net),
           NEW ts, \A t \in ts : ProbeOK(h, t), CountPrepare(h, m, r, ts, net)
    PROVE  VotesInv' /\ TalliesInv' /\ ProbesInv'
<1>1. CASE m.stamp = r.stamp /\ m.from \in StampMembers[r.stamp]
  <2>1. PICK q : q = [r EXCEPT !.prepares = @ \cup {m.from}]
    OBVIOUS
  <2>2. RoundOK(h, q) /\ RoundShape(q)
    BY <2>1 DEF RoundOK, RoundShape
  <2>3. TallyPrepares(h, q, net, ts)
    BY <1>1, <2>1 DEF CountPrepare
  <2>4. QED
    BY <2>2, <2>3, TallyPreparesKeeps
<1>2. CASE ~(m.stamp = r.stamp /\ m.from \in StampMembers[r.stamp])
  <2>1. reorgRound' = [reorgRound EXCEPT ![h] = r] /\ reorgNet' = net /\ probes' = [probes EXCEPT ![h] = ts]
    BY <1>2 DEF CountPrepare
  <2>2. TalliesInv' /\ ProbesInv'
    BY <2>1, RoundReplaced, ProbesReplaced
  <2>3. QED
    BY <2>1, <2>2, ObservationsStay DEF VotesInv, NetOK
<1>3. QED
  BY <1>1, <1>2

\* Gossip stays in order when a message is taken out of it.
LEMMA DeliveredOK ==
    ASSUME VotesInv, NEW h \in Watchers, NEW m
    PROVE  NetOK(Delivered(h, m))
  BY DEF VotesInv, NetOK, Delivered

-----------------------------------------------------------------------------

\* A report or a fault leaves the tips of the plan alone.
LEMMA PlanStays ==
    ASSUME PlanInv,
           \/ UNCHANGED reorgPlan
           \/ ReorgFault
           \/ \E h \in Watchers : reorgPlan' = [reorgPlan EXCEPT !.reports[h] = @ - 1]
    PROVE  PlanInv'
  BY DEF PlanInv, ReorgFault

\* Rollbacks that were in order stay so.
LEMMA RollbacksStay ==
    ASSUME RollbackOnObservations, resynced \subseteq resynced', UNCHANGED rollbacks
    PROVE  RollbackOnObservations'
  BY DEF RollbackOnObservations, snapshotQuorum

\* Every step keeps the invariant.
LEMMA StepReorgInv == ReorgInv /\ [GNext]_gvars => ReorgInv'
<1> SUFFICES ASSUME ReorgInv, [GNext]_gvars PROVE ReorgInv'
  OBVIOUS
<1> USE DEF ReorgInv
<1>1. ASSUME NEW h \in Watchers, NodeResyncs(h) PROVE ReorgInv'
  <2>1. resynced \subseteq resynced'
        /\ UNCHANGED <<reorgPlan, reorgRound, processed, probes, reorgNet, rollbacks>>
    BY <1>1 DEF NodeResyncs
  <2>2. VotesInv' /\ TalliesInv' /\ ProbesInv'
    BY <2>1, ObservationsStay DEF VotesInv, TalliesInv, ProbesInv, NoPending, RoundShape
  <2>3. QED
    BY <2>1, <2>2, PlanStays, RollbacksStay
<1>2. ASSUME NEW h \in Watchers, reportReorg(h) PROVE ReorgInv'
  <2>1. /\ h \in resynced /\ UNCHANGED <<resynced, reorgRound, reorgNet, rollbacks>>
        /\ reorgPlan' = [reorgPlan EXCEPT !.reports[h] = @ - 1]
        /\ probes' = [probes EXCEPT ![h] = @ \cup {[kind |-> "report"]}]
    BY <1>2 DEF reportReorg
  <2>2. ProbeOK(h, [kind |-> "report"])
    BY <2>1 DEF ProbeOK
  <2>3. ProbesInv'
    <3>1. PICK ts : ts = probes[h] \cup {[kind |-> "report"]}
      OBVIOUS
    <3>2. \A t \in ts : ProbeOK(h, t)
      BY <2>2, <3>1 DEF ProbesInv
    <3>3. QED
      BY <2>1, <3>1, <3>2, ProbesReplaced
  <2>4. VotesInv' /\ TalliesInv'
    BY <2>1, ObservationsStay DEF VotesInv, TalliesInv, NoPending, RoundShape
  <2>5. QED
    BY <2>1, <2>3, <2>4, PlanStays, RollbacksStay
<1>3. ASSUME NEW h \in Watchers, startReportedReorgRound(h) PROVE ReorgInv'
  <2>1. PICK t \in probes[h] :
          /\ t.kind = "report"
          /\ IF ~Locks(h, reorgPlan.tip[h])
             THEN probes' = [probes EXCEPT ![h] = probes[h] \ {t}] /\ UNCHANGED <<reorgRound, reorgNet>>
             ELSE IF snapshotQuorum(reorgPlan.tip[h]) = 0
             THEN /\ probes' = [probes EXCEPT ![h] = (probes[h] \ {t})
                                                     \cup {Rollback("delete", {h}, TRUE)}]
                  /\ UNCHANGED <<reorgRound, reorgNet>>
             ELSE initiateReorgConsensus(h, reorgPlan.tip[h],
                     Alarm(reorgNet, h, {ReorgMessage("ALERT", h, reorgPlan.tip[h])}), probes[h] \ {t})
          /\ UNCHANGED <<reorgPlan, resynced, processed, rollbacks>>
    BY <1>3 DEF startReportedReorgRound
  <2>2. PICK b : b = reorgPlan.tip[h]
    OBVIOUS
  <2>3. PICK ts : ts = probes[h] \ {t}
    OBVIOUS
  <2>4. b \in Stamps /\ h \in resynced /\ \A u \in ts : ProbeOK(h, u)
    BY <2>1, <2>2, <2>3 DEF PlanInv, ProbesInv, ProbeOK
  <2>5. VotesInv' /\ TalliesInv' /\ ProbesInv'
    <3>1. ASSUME UNCHANGED <<reorgRound, reorgNet>> PROVE VotesInv' /\ TalliesInv'
      BY <2>1, <3>1, ObservationsStay DEF VotesInv, TalliesInv, NoPending, RoundShape
    <3>2. CASE ~Locks(h, b)
      BY <2>1, <2>2, <2>3, <2>4, <3>1, <3>2, ProbesReplaced
    <3>3. CASE Locks(h, b) /\ snapshotQuorum(b) = 0
      <4>1. PICK us : us = ts \cup {Rollback("delete", {h}, TRUE)}
        OBVIOUS
      <4>2. Observed({h})
        <5>1. Cardinality({h}) >= snapshotQuorum(b)
          BY <3>3, FS_Singleton
        <5>2. QED
          BY <2>4, <3>3, <5>1 DEF Observed, Locks
      <4>3. \A u \in us : ProbeOK(h, u)
        <5>1. ProbeOK(h, Rollback("delete", {h}, TRUE))
          BY <4>2 DEF ProbeOK, Rollback
        <5>2. QED
          BY <2>4, <4>1, <5>1
      <4>4. probes' = [probes EXCEPT ![h] = us] /\ UNCHANGED <<reorgRound, reorgNet>>
        BY <2>1, <2>2, <2>3, <3>3, <4>1
      <4>5. QED
        BY <2>1, <3>1, <4>3, <4>4, ProbesReplaced
    <3>4. CASE Locks(h, b) /\ snapshotQuorum(b) # 0
      <4>1. PICK n : n = Alarm(reorgNet, h, {ReorgMessage("ALERT", h, b)})
        OBVIOUS
      <4>2. VoteOK(ReorgMessage("ALERT", h, b))
        BY <2>4 DEF VoteOK, ReorgMessage
      <4>3. NetOK(n)
        <5>1. NetOK(reorgNet)
          BY DEF NetOK, VotesInv
        <5>2. \A m \in {ReorgMessage("ALERT", h, b)} : VoteOK(m)
          BY <4>2
        <5>3. QED
          BY <4>1, <5>1, <5>2, AlarmKeeps DEF NetOK
      <4>4. initiateReorgConsensus(h, b, n, ts)
        BY <2>1, <2>2, <2>3, <3>4, <4>1
      <4>5. h \in StampMembers[b] /\ UNCHANGED resynced
        BY <2>1, <3>4 DEF Locks
      <4>6. QED
        BY <2>4, <4>3, <4>4, <4>5, InitiateKeeps
    <3>5. QED
      BY <3>2, <3>3, <3>4
  <2>6. QED
    BY <2>1, <2>5, PlanStays, RollbacksStay
<1>4. ASSUME NEW h \in Watchers, handleAlert(h) PROVE ReorgInv'
  <2>1. PICK m \in reorgNet[h] :
          /\ reorgNet' = Delivered(h, m)
          /\ \/ UNCHANGED probes
             \/ probes' = [probes EXCEPT ![h] = @ \cup {[kind |-> "alert", msg |-> m]}]
    BY <1>4 DEF handleAlert
  <2>2. UNCHANGED <<reorgPlan, resynced, reorgRound, rollbacks>>
    BY <1>4 DEF handleAlert
  <2>3. VotesInv' /\ TalliesInv'
    BY <2>1, <2>2, DeliveredOK, ObservationsStay DEF NetOK, VotesInv, TalliesInv, NoPending, RoundShape
  <2>4. ProbesInv'
    <3>1. ProbeOK(h, [kind |-> "alert", msg |-> m])
      BY <2>1 DEF VotesInv, ProbeOK
    <3>2. PICK ts : ts = probes[h] \cup {[kind |-> "alert", msg |-> m]}
      OBVIOUS
    <3>3. \A t \in ts : ProbeOK(h, t)
      BY <3>1, <3>2 DEF ProbesInv
    <3>4. CASE UNCHANGED probes
      BY <2>2, <3>4, ObservationsStay DEF ProbesInv
    <3>5. CASE probes' = [probes EXCEPT ![h] = ts]
      BY <2>2, <3>3, <3>5, ProbesReplaced
    <3>6. QED
      BY <2>1, <3>2, <3>4, <3>5
  <2>5. QED
    BY <2>2, <2>3, <2>4, PlanStays, RollbacksStay
<1>5. ASSUME NEW h \in Watchers, alertVerified(h) PROVE ReorgInv'
  <2>1. PICK t \in probes[h] :
          /\ t.kind = "alert"
          /\ probes' = [probes EXCEPT ![h] =
                        (@ \ {t}) \cup IF OwnNodeConfirms(h) /\ h \notin processed /\ NoPending(h)
                                       THEN {[kind |-> "alertLock", msg |-> t.msg]} ELSE {}]
    BY <1>5 DEF alertVerified
  <2>2. UNCHANGED <<reorgPlan, resynced, reorgRound, reorgNet, rollbacks>>
    BY <1>5 DEF alertVerified
  <2>3. VotesInv' /\ TalliesInv'
    BY <2>2, ObservationsStay DEF VotesInv, TalliesInv, NoPending, RoundShape
  <2>4. ProbesInv'
    <3>1. PICK ts : ts = (probes[h] \ {t}) \cup IF OwnNodeConfirms(h) /\ h \notin processed /\ NoPending(h)
                                               THEN {[kind |-> "alertLock", msg |-> t.msg]} ELSE {}
      OBVIOUS
    <3>2. ASSUME OwnNodeConfirms(h) PROVE ProbeOK(h, [kind |-> "alertLock", msg |-> t.msg])
      BY <2>1, <3>2 DEF OwnNodeConfirms, ProbesInv, ProbeOK
    <3>3. \A u \in ts : ProbeOK(h, u)
      BY <3>1, <3>2 DEF ProbesInv
    <3>4. QED
      BY <2>1, <2>2, <3>1, <3>3, ProbesReplaced
  <2>5. QED
    BY <2>2, <2>3, <2>4, PlanStays, RollbacksStay
<1>6. ASSUME NEW h \in Watchers, alertLocked(h) PROVE ReorgInv'
  <2>1. PICK t \in probes[h] :
          /\ t.kind = "alertLock"
          /\ IF Locks(h, t.msg.stamp) /\ t.msg.from \in StampMembers[t.msg.stamp]
             THEN initiateReorgConsensus(h, t.msg.stamp, reorgNet, probes[h] \ {t})
             ELSE probes' = [probes EXCEPT ![h] = probes[h] \ {t}] /\ UNCHANGED <<reorgRound, reorgNet>>
    BY <1>6 DEF alertLocked
  <2>2. UNCHANGED <<reorgPlan, resynced, rollbacks>>
    BY <1>6 DEF alertLocked
  <2>3. t.msg.stamp \in Stamps /\ h \in resynced /\ \A u \in probes[h] \ {t} : ProbeOK(h, u)
    BY <2>1 DEF ProbesInv, ProbeOK, VoteOK
  <2>4. NetOK(reorgNet)
    BY DEF NetOK, VotesInv
  <2>5. VotesInv' /\ TalliesInv' /\ ProbesInv'
    <3>1. CASE Locks(h, t.msg.stamp) /\ t.msg.from \in StampMembers[t.msg.stamp]
      BY <2>1, <2>2, <2>3, <2>4, <3>1, InitiateKeeps DEF Locks
    <3>2. CASE ~(Locks(h, t.msg.stamp) /\ t.msg.from \in StampMembers[t.msg.stamp])
      <4>1. ProbesInv'
        BY <2>1, <2>2, <2>3, <3>2, ProbesReplaced
      <4>2. QED
        BY <2>1, <2>2, <3>2, <4>1, ObservationsStay DEF VotesInv, TalliesInv, NoPending, RoundShape
    <3>3. QED
      BY <3>1, <3>2
  <2>6. QED
    BY <2>2, <2>5, PlanStays, RollbacksStay
<1>7. ASSUME NEW h \in Watchers, handleReorgPrepare(h) PROVE ReorgInv'
  <2>1. PICK m \in reorgNet[h] :
          IF ~NoPending(h) THEN CountPrepare(h, m, reorgRound[h], probes[h], Delivered(h, m))
          ELSE /\ reorgNet' = Delivered(h, m)
               /\ \/ UNCHANGED probes
                  \/ probes' = [probes EXCEPT ![h] = @ \cup {[kind |-> "prepare", msg |-> m]}]
               /\ UNCHANGED reorgRound
    BY <1>7 DEF handleReorgPrepare
  <2>2. UNCHANGED <<reorgPlan, resynced, rollbacks>>
    BY <1>7 DEF handleReorgPrepare
  <2>3. \A t \in probes[h] : ProbeOK(h, t)
    BY DEF ProbesInv
  <2>4. VotesInv' /\ TalliesInv' /\ ProbesInv'
    <3>1. CASE ~NoPending(h)
      <4>1. RoundOK(h, reorgRound[h]) /\ RoundShape(reorgRound[h])
        BY <3>1 DEF TalliesInv
      <4>2. PICK n : n = Delivered(h, m)
        OBVIOUS
      <4>3. NetOK(n)
        BY <4>2, DeliveredOK
      <4>4. CountPrepare(h, m, reorgRound[h], probes[h], n)
        BY <2>1, <3>1, <4>2
      <4>5. QED
        BY <2>2, <2>3, <4>1, <4>3, <4>4, CountPrepareKeeps
    <3>2. CASE NoPending(h)
      <4>1. ProbeOK(h, [kind |-> "prepare", msg |-> m])
        BY <2>1 DEF VotesInv, ProbeOK
      <4>2. PICK ts : ts = probes[h] \cup {[kind |-> "prepare", msg |-> m]}
        OBVIOUS
      <4>3. \A t \in ts : ProbeOK(h, t)
        BY <2>3, <4>1, <4>2
      <4>4. ProbesInv'
        <5>1. CASE UNCHANGED probes
          BY <2>2, <5>1, ObservationsStay DEF ProbesInv
        <5>2. CASE probes' = [probes EXCEPT ![h] = ts]
          BY <2>2, <4>3, <5>2, ProbesReplaced
        <5>3. QED
          BY <2>1, <3>2, <4>2, <5>1, <5>2
      <4>5. QED
        BY <2>1, <2>2, <3>2, <4>4, DeliveredOK, ObservationsStay
           DEF NetOK, VotesInv, TalliesInv, NoPending, RoundShape
    <3>3. QED
      BY <3>1, <3>2
  <2>5. QED
    BY <2>2, <2>4, PlanStays, RollbacksStay
<1>8. ASSUME NEW h \in Watchers, openReorgFollowerRound(h) PROVE ReorgInv'
  <2>1. PICK t \in probes[h] :
          /\ t.kind = "prepare"
          /\ IF Locks(h, t.msg.stamp) /\ t.msg.from \in StampMembers[t.msg.stamp] /\ OwnNodeConfirms(h)
             THEN CountPrepare(h, t.msg, IF NoPending(h) THEN NewReorgRound(t.msg.stamp, {}) ELSE reorgRound[h],
                               probes[h] \ {t}, reorgNet)
             ELSE probes' = [probes EXCEPT ![h] = probes[h] \ {t}] /\ UNCHANGED <<reorgRound, reorgNet>>
    BY <1>8 DEF openReorgFollowerRound
  <2>2. UNCHANGED <<reorgPlan, resynced, rollbacks>>
    BY <1>8 DEF openReorgFollowerRound
  <2>3. t.msg.stamp \in Stamps /\ \A u \in probes[h] \ {t} : ProbeOK(h, u)
    BY <2>1 DEF ProbesInv, ProbeOK, VoteOK
  <2>4. NetOK(reorgNet)
    BY DEF NetOK, VotesInv
  <2>5. VotesInv' /\ TalliesInv' /\ ProbesInv'
    <3>1. CASE Locks(h, t.msg.stamp) /\ t.msg.from \in StampMembers[t.msg.stamp] /\ OwnNodeConfirms(h)
      <4>1. PICK r : r = IF NoPending(h) THEN NewReorgRound(t.msg.stamp, {}) ELSE reorgRound[h]
        OBVIOUS
      <4>2. RoundOK(h, r) /\ RoundShape(r)
        <5>1. CASE NoPending(h)
          BY <2>3, <3>1, <4>1, <5>1 DEF RoundOK, RoundShape, NewReorgRound, Locks, OwnNodeConfirms
        <5>2. CASE ~NoPending(h)
          BY <4>1, <5>2 DEF TalliesInv
        <5>3. QED
          BY <5>1, <5>2
      <4>3. CountPrepare(h, t.msg, r, probes[h] \ {t}, reorgNet)
        BY <2>1, <3>1, <4>1
      <4>4. QED
        BY <2>2, <2>3, <2>4, <4>2, <4>3, CountPrepareKeeps
    <3>2. CASE ~(Locks(h, t.msg.stamp) /\ t.msg.from \in StampMembers[t.msg.stamp] /\ OwnNodeConfirms(h))
      <4>1. ProbesInv'
        BY <2>1, <2>2, <2>3, <3>2, ProbesReplaced
      <4>2. QED
        BY <2>1, <2>2, <3>2, <4>1, ObservationsStay DEF VotesInv, TalliesInv, NoPending, RoundShape
    <3>3. QED
      BY <3>1, <3>2
  <2>6. QED
    BY <2>2, <2>5, PlanStays, RollbacksStay
<1>9. ASSUME NEW h \in Watchers, handleReorgCommit(h) PROVE ReorgInv'
  <2>1. PICK m \in reorgNet[h] :
          IF ~NoPending(h) /\ m.stamp = reorgRound[h].stamp /\ m.from \in StampMembers[m.stamp]
          THEN TallyCommits(h, [reorgRound[h] EXCEPT !.commits = @ \cup {m.from}], Delivered(h, m), probes[h])
          ELSE reorgNet' = Delivered(h, m) /\ UNCHANGED <<reorgRound, probes>>
    BY <1>9 DEF handleReorgCommit
  <2>2. UNCHANGED <<reorgPlan, resynced, rollbacks>>
    BY <1>9 DEF handleReorgCommit
  <2>3. VotesInv' /\ TalliesInv' /\ ProbesInv'
    <3>1. CASE ~NoPending(h) /\ m.stamp = reorgRound[h].stamp /\ m.from \in StampMembers[m.stamp]
      <4>1. PICK r : r = [reorgRound[h] EXCEPT !.commits = @ \cup {m.from}]
        OBVIOUS
      <4>2. RoundOK(h, reorgRound[h]) /\ RoundShape(reorgRound[h]) /\ m.from \in resynced
        BY <2>1, <3>1 DEF TalliesInv, VotesInv, VoteOK
      <4>3. RoundOK(h, r) /\ RoundShape(r)
        BY <3>1, <4>1, <4>2 DEF RoundOK, RoundShape
      <4>4. TallyCommits(h, r, Delivered(h, m), probes[h]) /\ \A t \in probes[h] : ProbeOK(h, t)
        BY <2>1, <3>1, <4>1 DEF ProbesInv
      <4>5. QED
        BY <2>2, <4>3, <4>4, TallyCommitsKeeps, DeliveredOK
    <3>2. CASE ~(~NoPending(h) /\ m.stamp = reorgRound[h].stamp /\ m.from \in StampMembers[m.stamp])
      BY <2>1, <2>2, <3>2, DeliveredOK, ObservationsStay
         DEF NetOK, VotesInv, TalliesInv, ProbesInv, NoPending, RoundShape
    <3>3. QED
      BY <3>1, <3>2
  <2>4. QED
    BY <2>2, <2>3, PlanStays, RollbacksStay
<1>10. ASSUME NEW h \in Watchers, executeRollback(h) PROVE ReorgInv'
  <2>1. PICK t \in probes[h] :
          /\ t.kind = "delete" /\ rollbacks' = rollbacks \cup {[hub |-> h, proof |-> t.proof]}
          /\ probes' = [probes EXCEPT ![h] = (probes[h] \ {t}) \cup {Rollback("attest", t.proof, t.lone)}]
    BY <1>10 DEF executeRollback
  <2>2. UNCHANGED <<reorgPlan, resynced, reorgRound, reorgNet>>
    BY <1>10 DEF executeRollback
  <2>3. /\ Observed(t.proof)
        /\ \A u \in (probes[h] \ {t}) \cup {Rollback("attest", t.proof, t.lone)} : ProbeOK(h, u)
    BY <2>1 DEF ProbesInv, ProbeOK, Rollback
  <2>4. RollbackOnObservations'
    BY <2>1, <2>2, <2>3 DEF RollbackOnObservations, Observed, snapshotQuorum
  <2>5. TalliesInv' /\ ProbesInv'
    BY <2>1, <2>2, <2>3, ProbesReplaced, ObservationsStay DEF TalliesInv, NoPending, RoundShape
  <2>6. QED
    BY <2>2, <2>4, <2>5, PlanStays, ObservationsStay DEF VotesInv
<1>11. ASSUME NEW h \in Watchers, setReorgAttestation(h) PROVE ReorgInv'
  <2>1. PICK t \in probes[h] :
          probes' = [probes EXCEPT ![h] = (probes[h] \ {t}) \cup {Rollback("emit", t.proof, t.lone)}]
    BY <1>11 DEF setReorgAttestation
  <2>2. UNCHANGED <<reorgPlan, resynced, reorgRound, reorgNet, rollbacks>>
    BY <1>11 DEF setReorgAttestation
  <2>3. \A u \in (probes[h] \ {t}) \cup {Rollback("emit", t.proof, t.lone)} : ProbeOK(h, u)
    BY DEF ProbesInv, ProbeOK, Rollback
  <2>4. TalliesInv' /\ ProbesInv'
    BY <2>1, <2>2, <2>3, ProbesReplaced, ObservationsStay DEF TalliesInv, NoPending, RoundShape
  <2>5. QED
    BY <2>2, <2>4, PlanStays, RollbacksStay, ObservationsStay DEF VotesInv
<1>12. ASSUME NEW h \in Watchers, rollbackFails(h) \/ probeFails(h) \/ emitDisputedPriceRows(h)
       PROVE  ReorgInv'
  <2>1. PICK t \in probes[h] : probes' = [probes EXCEPT ![h] = probes[h] \ {t}]
    BY <1>12 DEF rollbackFails, probeFails, emitDisputedPriceRows
  <2>2. /\ UNCHANGED <<resynced, reorgNet, rollbacks>>
        /\ ReorgFault \/ UNCHANGED reorgPlan
        /\ UNCHANGED reorgRound \/ reorgRound' = [reorgRound EXCEPT ![h] = NoReorgRound]
    BY <1>12 DEF rollbackFails, probeFails, emitDisputedPriceRows, Forgotten
  <2>3. ProbesInv'
    BY <2>1, <2>2, ProbesReplaced DEF ProbesInv
  <2>4. TalliesInv'
    BY <2>2, RoundReplaced, ObservationsStay DEF TalliesInv, NoPending, RoundShape
  <2>5. QED
    BY <2>2, <2>3, <2>4, PlanStays, RollbacksStay, ObservationsStay DEF VotesInv
<1>13. ASSUME NEW h \in Watchers, reorgTimeout(h) PROVE ReorgInv'
  <2>1. UNCHANGED <<reorgPlan, resynced, probes, reorgNet, rollbacks>>
        /\ reorgRound' = [reorgRound EXCEPT ![h] = NoReorgRound]
    BY <1>13 DEF reorgTimeout
  <2>2. TalliesInv'
    BY <2>1, RoundReplaced
  <2>3. QED
    BY <2>1, <2>2, PlanStays, RollbacksStay, ObservationsStay DEF VotesInv, ProbesInv
<1>14. CASE UNCHANGED gvars
  BY <1>14, PlanStays, RollbacksStay, ObservationsStay
     DEF gvars, VotesInv, TalliesInv, ProbesInv, NoPending, RoundShape
<1>15. QED
  BY <1>1, <1>2, <1>3, <1>4, <1>5, <1>6, <1>7, <1>8, <1>9, <1>10, <1>11, <1>12, <1>13, <1>14
     DEF GNext, Progress

\* "2f+1 INDEPENDENT observations" (header of reorg_handler.js), for every
\* federation: a hub rolls back only on the COMMITs of a quorum of the members of
\* one snapshot, each of which confirmed the reorg on its own node.
THEOREM RollbacksRestOnObservations == GSpec => []RollbackOnObservations
<1>1. ReorgInv => RollbackOnObservations
  BY DEF ReorgInv
<1>2. QED
  BY <1>1, InitReorgInv, StepReorgInv, PTL DEF GSpec

-----------------------------------------------------------------------------
(***************************************************************************)
(* On the bridge a row never survives its retraction, for any number of    *)
(* generations, reorg notices, failed writes and crashes.                  *)
(*                                                                         *)
(* A finalize write and a retraction overlap in any order of their awaits. *)
(* Order is told by the fence's sequence: the number a write started with  *)
(* and the number of the retraction's entry.  The invariant says that a    *)
(* retraction which has found its rows has no write before it left, and    *)
(* that every write to come starts after it.                               *)
(***************************************************************************)

\* The write or row x was under way when the retraction of e came, and is covered.
Late(x, e) == x.start < e.seq /\ Covers(e, x.gen)

IsWrite(w) ==
    /\ w = [gen |-> w.gen, start |-> w.start, step |-> w.step, wrote |-> w.wrote]
    /\ w.start \in Nat

IsRow(row) == row = [gen |-> row.gen, start |-> row.start, status |-> row.status]

IsRetraction(r) == r = [entry |-> r.entry, step |-> r.step]

Recorded(e) == e.seq \in Nat /\ e.seq <= fenceSeq

ShapesInv ==
    /\ fenceSeq \in Nat
    /\ \A w \in rowWrites : IsWrite(w)
    /\ ledgerRow = NoItem \/ IsRow(ledgerRow)
    /\ \A r \in retractions : IsRetraction(r) /\ Recorded(r.entry)
    /\ \A e \in answered : Recorded(e)

\* No covered write before it is left, and there is a row to mark.
Settling(r) == IsRow(ledgerRow) /\ \A w \in rowWrites : ~Late(w, r.entry)

SettledInv ==
    rail = "bridge" =>
        /\ \A r \in retractions : r.step = "update" => Settling(r)
        /\ \A e \in answered : \A w \in rowWrites : ~Late(w, e)

LedgerInv == ShapesInv /\ SettledInv /\ BridgeStaysRetracted

-----------------------------------------------------------------------------

\* The initial states satisfy the invariant.
LEMMA InitLedgerInv == LInit => LedgerInv
  BY DEF LInit, LedgerInv, ShapesInv, SettledInv, BridgeStaysRetracted, StaysRetracted

\* A write that goes on to its next await is as early as it was.
LEMMA StepWriteKeeps ==
    ASSUME ShapesInv, SettledInv, UNCHANGED <<rail, retractions, fenceSeq, answered>>,
           IsRow(ledgerRow) => IsRow(ledgerRow'), ledgerRow' = NoItem \/ IsRow(ledgerRow'),
           NEW w \in rowWrites, NEW next, IsWrite(next), next.gen = w.gen, next.start = w.start,
           StepWrite(w, next)
    PROVE  ShapesInv' /\ SettledInv'
<1>1. rowWrites' = (rowWrites \ {w}) \cup {next}
  BY DEF StepWrite
<1>2. ShapesInv'
  BY <1>1 DEF ShapesInv, IsWrite, IsRow, IsRetraction, Recorded
<1>3. \A e : ~Late(w, e) => ~Late(next, e)
  BY DEF Late, Covers
<1>4. \A e : (\A v \in rowWrites : ~Late(v, e)) => (\A v \in rowWrites' : ~Late(v, e))
  BY <1>1, <1>3
<1>5. SettledInv'
  <2> SUFFICES ASSUME rail = "bridge"
               PROVE  /\ \A r \in retractions : r.step = "update" => Settling(r)'
                      /\ \A e \in answered : \A v \in rowWrites' : ~Late(v, e)
    BY DEF SettledInv, Late, Covers
  <2>1. \A r \in retractions : r.step = "update" => Settling(r)'
    BY <1>4 DEF SettledInv, Settling, Late, Covers, IsRow
  <2>2. QED
    BY <1>4, <2>1 DEF SettledInv
<1>6. QED
  BY <1>2, <1>5

\* A step that takes writes away and leaves the rest to itself keeps everything.
LEMMA FewerWrites ==
    ASSUME LedgerInv, UNCHANGED <<rail, ledgerRow, fenceSeq>>, rowWrites' \subseteq rowWrites,
           retractions' \subseteq retractions, answered' \subseteq answered
    PROVE  LedgerInv'
<1>1. ShapesInv'
  BY DEF LedgerInv, ShapesInv, IsWrite, IsRow, IsRetraction, Recorded
<1>2. SettledInv'
  BY DEF LedgerInv, SettledInv, Settling, Late, Covers, IsRow
<1>3. BridgeStaysRetracted'
  BY DEF LedgerInv, BridgeStaysRetracted, StaysRetracted, LiveRow, Covers
<1>4. QED
  BY <1>1, <1>2, <1>3 DEF LedgerInv

\* Every step keeps the invariant.
LEMMA StepLedgerInv == LedgerInv /\ [LNext /\ UNCHANGED rail]_lvars => LedgerInv'
<1> SUFFICES ASSUME LedgerInv, [LNext /\ UNCHANGED rail]_lvars PROVE LedgerInv'
  OBVIOUS
<1>0. UNCHANGED rail
  BY DEF lvars
<1>1. CASE writeFinalizedTransfer
  <2>1. PICK v : v = [gen |-> roundGen, start |-> fenceSeq, step |-> "snapshot", wrote |-> FALSE]
    OBVIOUS
  <2>2. rowWrites' = rowWrites \cup {v} /\ UNCHANGED <<ledgerRow, retractions, fenceSeq, answered>>
    BY <1>1, <2>1 DEF writeFinalizedTransfer
  <2>3. IsWrite(v) /\ v.start = fenceSeq
    BY <2>1 DEF IsWrite, LedgerInv, ShapesInv
  <2>4. \A e : Recorded(e) => ~Late(v, e)
    BY <2>3 DEF Late, Recorded, LedgerInv, ShapesInv
  <2>5. ShapesInv'
    BY <2>2, <2>3 DEF LedgerInv, ShapesInv, IsWrite, IsRow, IsRetraction, Recorded
  <2>6. SettledInv'
    BY <1>0, <2>2, <2>4 DEF LedgerInv, ShapesInv, SettledInv, Settling, Late, Covers, IsRow
  <2>7. BridgeStaysRetracted'
    BY <1>0, <2>2 DEF LedgerInv, BridgeStaysRetracted, StaysRetracted, LiveRow, Covers
  <2>8. QED
    BY <2>5, <2>6, <2>7 DEF LedgerInv
<1>2. ASSUME NEW w \in rowWrites, NEW next, IsWrite(next), next.gen = w.gen, next.start = w.start,
             StepWrite(w, next), UNCHANGED <<ledgerRow, retractions, fenceSeq, answered>>
      PROVE  LedgerInv'
  <2>1. ShapesInv' /\ SettledInv'
    BY <1>0, <1>2, StepWriteKeeps DEF LedgerInv, ShapesInv, IsRow
  <2>2. BridgeStaysRetracted'
    BY <1>0, <1>2 DEF LedgerInv, BridgeStaysRetracted, StaysRetracted, LiveRow, Covers
  <2>3. QED
    BY <2>1, <2>2 DEF LedgerInv
<1>3. \A w \in rowWrites : IsWrite(w)
  BY DEF LedgerInv, ShapesInv
<1>4. CASE persistSnapshot
  <2>1. UNCHANGED <<ledgerRow, retractions, fenceSeq, answered>>
    BY <1>4 DEF persistSnapshot
  <2>2. PICK w \in rowWrites : EndWrite(w) \/ StepWrite(w, [w EXCEPT !.step = "chain"])
    BY <1>4 DEF persistSnapshot
  <2>3. CASE EndWrite(w)
    BY <1>0, <2>1, <2>3, FewerWrites DEF EndWrite
  <2>4. CASE StepWrite(w, [w EXCEPT !.step = "chain"])
    <3>1. PICK next : next = [w EXCEPT !.step = "chain"]
      OBVIOUS
    <3>2. IsWrite(next) /\ next.gen = w.gen /\ next.start = w.start
      BY <1>3, <3>1 DEF IsWrite
    <3>3. QED
      BY <1>2, <2>1, <2>4, <3>1, <3>2
  <2>5. QED
    BY <2>2, <2>3, <2>4
<1>5. CASE sendRow
  <2>1. UNCHANGED <<ledgerRow, retractions, fenceSeq, answered>>
    BY <1>5 DEF sendRow
  <2>2. PICK w \in rowWrites : EndWrite(w) \/ StepWrite(w, [w EXCEPT !.step = "insert"])
    BY <1>5 DEF sendRow
  <2>3. CASE EndWrite(w)
    BY <1>0, <2>1, <2>3, FewerWrites DEF EndWrite
  <2>4. CASE StepWrite(w, [w EXCEPT !.step = "insert"])
    <3>1. PICK next : next = [w EXCEPT !.step = "insert"]
      OBVIOUS
    <3>2. IsWrite(next) /\ next.gen = w.gen /\ next.start = w.start
      BY <1>3, <3>1 DEF IsWrite
    <3>3. QED
      BY <1>2, <2>1, <2>4, <3>1, <3>2
  <2>5. QED
    BY <2>2, <2>3, <2>4
<1>6. CASE writeFinalizedTransferFenced
  <2>1. UNCHANGED <<ledgerRow, retractions, fenceSeq, answered>>
    BY <1>6 DEF writeFinalizedTransferFenced
  <2>2. PICK w \in rowWrites : EndWrite(w) \/ StepWrite(w, [w EXCEPT !.step = "mirror"])
    BY <1>6 DEF writeFinalizedTransferFenced
  <2>3. CASE EndWrite(w)
    BY <1>0, <2>1, <2>3, FewerWrites DEF EndWrite
  <2>4. CASE StepWrite(w, [w EXCEPT !.step = "mirror"])
    <3>1. PICK next : next = [w EXCEPT !.step = "mirror"]
      OBVIOUS
    <3>2. IsWrite(next) /\ next.gen = w.gen /\ next.start = w.start
      BY <1>3, <3>1 DEF IsWrite
    <3>3. QED
      BY <1>2, <2>1, <2>4, <3>1, <3>2
  <2>5. QED
    BY <2>2, <2>3, <2>4
<1>7. CASE DatabaseWrites
  <2>1. UNCHANGED <<retractions, fenceSeq, answered>>
    BY <1>7 DEF DatabaseWrites
  <2>2. PICK w \in rowWrites, wrote \in BOOLEAN :
          /\ \/ rail # "bridge" /\ ledgerRow' = Stored(w)
             \/ rail = "bridge" /\ LiveRow /\ ledgerRow' = ledgerRow
             \/ rail = "bridge" /\ ~LiveRow /\ ledgerRow' = Stored(w)
          /\ StepWrite(w, [w EXCEPT !.step = "inserted", !.wrote = wrote])
    BY <1>7 DEF DatabaseWrites, insertBridgeTransfer, setCrossChainCallFinalized
  <2>3. PICK next : next = [w EXCEPT !.step = "inserted", !.wrote = wrote]
    OBVIOUS
  <2>4. IsWrite(next) /\ next.gen = w.gen /\ next.start = w.start
    <3>1. w = [gen |-> w.gen, start |-> w.start, step |-> w.step, wrote |-> w.wrote] /\ w.start \in Nat
      BY <1>3 DEF IsWrite
    <3>2. next = [gen |-> w.gen, start |-> w.start, step |-> "inserted", wrote |-> wrote]
      BY <2>3, <3>1
    <3>3. QED
      BY <3>1, <3>2 DEF IsWrite
  <2>5. IsRow(Stored(w)) /\ Stored(w).start = w.start /\ Stored(w).gen = w.gen
    BY DEF IsRow, Stored
  <2>6. ShapesInv' /\ SettledInv'
    BY <1>0, <2>1, <2>2, <2>3, <2>4, <2>5, StepWriteKeeps DEF LedgerInv, ShapesInv
  <2>7. BridgeStaysRetracted'
    <3>1. CASE rail = "bridge" /\ ledgerRow' = Stored(w)
      BY <1>0, <2>1, <2>5, <3>1
         DEF LedgerInv, SettledInv, BridgeStaysRetracted, StaysRetracted, Late, Covers
    <3>2. CASE rail = "bridge" /\ ledgerRow' = ledgerRow
      BY <1>0, <2>1, <3>2 DEF LedgerInv, BridgeStaysRetracted, StaysRetracted, LiveRow, Covers
    <3>3. CASE rail # "bridge"
      BY <1>0, <3>3 DEF BridgeStaysRetracted
    <3>4. QED
      BY <2>2, <3>1, <3>2, <3>3
  <2>8. QED
    BY <2>6, <2>7 DEF LedgerInv
<1>8. CASE WriteFails \/ mirrorRow
  BY <1>0, <1>8, FewerWrites DEF WriteFails, mirrorRow, EndWrite
<1>9. CASE recordRetraction
  <2>0. PICK n \in reorgNotices :
          retractions' = retractions \cup {[entry |-> [seq |-> fenceSeq + 1, gen |-> n.gen],
                                            step |-> "wait"]}
    BY <1>9 DEF recordRetraction
  <2>1. PICK entry, r : /\ entry.seq = fenceSeq + 1
                        /\ r = [entry |-> entry, step |-> "wait"]
                        /\ retractions' = retractions \cup {r}
    <3>1. [seq |-> fenceSeq + 1, gen |-> n.gen].seq = fenceSeq + 1
      OBVIOUS
    <3>2. QED
      BY <2>0, <3>1
  <2>2. fenceSeq' = fenceSeq + 1 /\ UNCHANGED <<ledgerRow, rowWrites, answered>>
    BY <1>9 DEF recordRetraction
  <2>3. ShapesInv'
    BY <2>1, <2>2 DEF LedgerInv, ShapesInv, IsWrite, IsRow, IsRetraction, Recorded
  <2>4. SettledInv'
    BY <1>0, <2>1, <2>2 DEF LedgerInv, SettledInv, Settling, Late, Covers, IsRow
  <2>5. BridgeStaysRetracted'
    BY <1>0, <2>2 DEF LedgerInv, BridgeStaysRetracted, StaysRetracted, LiveRow, Covers
  <2>6. QED
    BY <2>3, <2>4, <2>5 DEF LedgerInv
<1>10. CASE FindRows
  <2>1. PICK r \in retractions :
          /\ waitForCoveredWrites(r.entry)
          /\ IF LiveRow /\ Covers(r.entry, ledgerRow.gen)
             THEN /\ retractions' = (retractions \ {r}) \cup {[r EXCEPT !.step = "update"]}
                  /\ UNCHANGED answered
             ELSE /\ retractions' = retractions \ {r}
                  /\ answered' = answered \cup {r.entry}
    BY <1>10 DEF FindRows
  <2>2. UNCHANGED <<ledgerRow, rowWrites, fenceSeq>>
    BY <1>10 DEF FindRows
  <2>3. /\ IsRetraction(r) /\ Recorded(r.entry)
        /\ rail = "bridge" => \A w \in rowWrites : ~Late(w, r.entry)
    BY <2>1 DEF LedgerInv, ShapesInv, waitForCoveredWrites, Late
  <2>4. CASE LiveRow /\ Covers(r.entry, ledgerRow.gen)
    <3>1. PICK q : q = [r EXCEPT !.step = "update"]
      OBVIOUS
    <3>2. IsRetraction(q) /\ q.entry = r.entry
      BY <2>3, <3>1 DEF IsRetraction
    <3>3. IsRow(ledgerRow)
      BY <2>4 DEF LedgerInv, ShapesInv, LiveRow
    <3>4. retractions' = (retractions \ {r}) \cup {q} /\ UNCHANGED answered
      BY <2>1, <2>4, <3>1
    <3>5. ShapesInv'
      BY <2>2, <2>3, <3>2, <3>4 DEF LedgerInv, ShapesInv, IsWrite, IsRow, IsRetraction, Recorded
    <3>6. SettledInv'
      BY <1>0, <2>2, <2>3, <3>2, <3>3, <3>4 DEF LedgerInv, SettledInv, Settling, Late, Covers, IsRow
    <3>7. BridgeStaysRetracted'
      BY <1>0, <2>2, <3>4 DEF LedgerInv, BridgeStaysRetracted, StaysRetracted, LiveRow, Covers
    <3>8. QED
      BY <3>5, <3>6, <3>7 DEF LedgerInv
  <2>5. CASE ~(LiveRow /\ Covers(r.entry, ledgerRow.gen))
    <3>1. retractions' = retractions \ {r} /\ answered' = answered \cup {r.entry}
      BY <2>1, <2>5
    <3>2. ShapesInv'
      BY <2>2, <2>3, <3>1 DEF LedgerInv, ShapesInv, IsWrite, IsRow, IsRetraction, Recorded
    <3>3. SettledInv'
      BY <1>0, <2>2, <2>3, <3>1 DEF LedgerInv, SettledInv, Settling, Late, Covers, IsRow
    <3>4. BridgeStaysRetracted'
      BY <1>0, <2>2, <2>5, <3>1 DEF LedgerInv, BridgeStaysRetracted, StaysRetracted, LiveRow, Covers
    <3>5. QED
      BY <3>2, <3>3, <3>4 DEF LedgerInv
  <2>6. QED
    BY <2>4, <2>5
<1>11. CASE DatabaseRetracts
  <2>1. PICK r \in retractions :
          /\ r.step = "update"
          /\ ledgerRow' = IF Retracts(r) THEN [ledgerRow EXCEPT !.status = "retracted"] ELSE ledgerRow
          /\ retractions' = (retractions \ {r}) \cup {[r EXCEPT !.step = "release"]}
          /\ answered' = answered \cup {r.entry}
    BY <1>11 DEF DatabaseRetracts
  <2>2. UNCHANGED <<rowWrites, fenceSeq>>
    BY <1>11 DEF DatabaseRetracts
  <2>3. Recorded(r.entry) /\ IsRetraction(r)
    BY <2>1 DEF LedgerInv, ShapesInv
  <2>4. PICK q : /\ IsRetraction(q) /\ q.entry = r.entry /\ q.step = "release"
                 /\ r.step = "update"
                 /\ ledgerRow' = IF Retracts(r) THEN [ledgerRow EXCEPT !.status = "retracted"] ELSE ledgerRow
                 /\ retractions' = (retractions \ {r}) \cup {q}
                 /\ answered' = answered \cup {r.entry}
    <3>1. PICK q : q = [r EXCEPT !.step = "release"]
      OBVIOUS
    <3>2. IsRetraction(q) /\ q.entry = r.entry /\ q.step = "release"
      BY <2>3, <3>1 DEF IsRetraction
    <3>3. QED
      BY <2>1, <3>1, <3>2
  <2>5. /\ IsRow(ledgerRow) => IsRow(ledgerRow')
        /\ ledgerRow' = NoItem \/ IsRow(ledgerRow')
    <3>1. CASE Retracts(r)
      <4>1. IsRow(ledgerRow)
        BY <2>4, <3>1 DEF LedgerInv, ShapesInv, SettledInv, Settling, Retracts, LiveRow
      <4>2. QED
        BY <2>4, <3>1, <4>1 DEF IsRow
    <3>2. CASE ~Retracts(r)
      BY <2>4, <3>2 DEF LedgerInv, ShapesInv
    <3>3. QED
      BY <3>1, <3>2
  <2>6. ShapesInv'
    BY <2>4, <2>2, <2>3, <2>5 DEF LedgerInv, ShapesInv, IsWrite, IsRetraction, Recorded
  <2>7. CASE rail = "bridge"
    <3>1. Settling(r)
      BY <2>4, <2>7 DEF LedgerInv, SettledInv
    <3>2. ledgerRow'.status = "retracted"
      BY <2>4, <2>7, <3>1 DEF Retracts, Settling, IsRow
    <3>3. SettledInv'
      BY <1>0, <2>4, <2>2, <2>5, <3>1 DEF LedgerInv, SettledInv, Settling, Late, Covers
    <3>4. BridgeStaysRetracted'
      BY <3>2 DEF BridgeStaysRetracted, StaysRetracted, LiveRow
    <3>5. QED
      BY <2>6, <3>3, <3>4 DEF LedgerInv
  <2>8. CASE rail # "bridge"
    BY <1>0, <2>6, <2>8 DEF LedgerInv, SettledInv, BridgeStaysRetracted
  <2>9. QED
    BY <2>7, <2>8
<1>12. CASE Crash \/ retractTransfersForReorg
  BY <1>0, <1>12, FewerWrites DEF Crash, retractTransfersForReorg
<1>13. CASE UNCHANGED <<ledgerRow, rowWrites, retractions, fenceSeq, answered>>
  BY <1>0, <1>13, FewerWrites
<1>14. QED
  BY <1>1, <1>4, <1>5, <1>6, <1>7, <1>8, <1>9, <1>10, <1>11, <1>12, <1>13
     DEF LNext, Steps, lvars, admitTransferLeg, maybeDispatch, maybeFinalizeTransfer, RoundAbandoned,
         ChainReorgs, ChainMinesAgain, CallExpires

\* No finalize write resurrects a bridge row that a reorg removed, however its
\* awaits and those of retractTransfersForReorg interleave, fail or are cut by a
\* crash.
THEOREM NoRowOutlivesItsRetraction == LSpec => []BridgeStaysRetracted
<1>1. LedgerInv => BridgeStaysRetracted
  BY DEF LedgerInv
<1>2. QED
  BY <1>1, InitLedgerInv, StepLedgerInv, PTL DEF LSpec
=============================================================================
