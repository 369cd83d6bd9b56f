------------------------ MODULE RetractionConsensus ------------------------
(***************************************************************************)
(* The signing round of a retraction (consensus/retraction.js and          *)
(* consensus/retraction/): after a reorg every hub must tell the indexers  *)
(* that mirror it to delete the rows, and past the signing gate they only  *)
(* believe a deletion that a quorum of hubs signed.                        *)
(*                                                                         *)
(* The module follows one intent: one table, chain and index range, past   *)
(* the signing gate.  A round id stands for the canonical that is signed:  *)
(* it holds the snapshot block of the hub that opened it, so two hubs at   *)
(* one tip build the same id and two hubs at different tips do not.        *)
(***************************************************************************)
EXTENDS HubQuorum

CONSTANTS
    Deleters,       \* the hubs
    RoundIds,       \* canonicals
    IdSnapshot,     \* RoundIds -> the validator snapshot at its block
    IdWeighted,     \* RoundIds -> is the stake-weighted gate active there
    Builds,         \* Deleters -> the ids its view of the tip leads to
    \* bounds of the model
    PushPlans       \* what may happen in a behaviour, which picks one: how often
                    \* each hub's indexer pushes the reorg, and how many lookups
                    \* and writes fail, intents expire and hubs restart

VARIABLES
    plan,           \* the pushes and faults still to come
    pushed,         \* history: the hubs whose indexer pushed the reorg
    intents,        \* localIntents: hubs that hold the intent
    signing,        \* pending: id -> the keys whose signature came, per hub
    deferrals,      \* _retractionSubmitDeferrals: hubs waiting to try again
    doneIds,        \* this.finalized
    rtasks,         \* handlers suspended at an await
    cosigned,       \* XRETRACT_SIGN messages sent: [by, id]
    rnet,           \* XRETRACT_FINALIZED messages not yet delivered to each hub
    deletions,      \* history: deletions streamed to the mirrors
    missed          \* history: hubs whose stream failed or that restarted

rvars == <<plan, pushed, intents, signing, deferrals, doneIds, rtasks, cosigned, rnet,
           deletions, missed>>

-----------------------------------------------------------------------------

IdKeys(id) == Pubkeys(IdSnapshot[id])

\* bftQuorumOrSingle over the entries in a round a hub opened, over the keys in
\* one it is told of: the same number, as a key is listed once.
IdQuorum(id) == bftQuorumOrSingle(Cardinality(IdKeys(id)), 1)

IdQuorums ==
    [id \in RoundIds |-> {by \in SUBSET Deleters :
        IF IdWeighted[id] THEN meetsStakeThreshold(IdSnapshot[id], by)
                          ELSE Cardinality(by) >= IdQuorum(id)}]

MeetsIdQuorum(id, by) == by \in IdQuorums[id]

\* The snapshot of id has one validator, or none.
LoneValidator(id) == Len(IdSnapshot[id].validators) <= 1

\* What the signatures h streams come to.  They are those of validators of one
\* snapshot and a quorum there, but h counts its own signature in a round it
\* opens, and alone in a snapshot of one, without asking whether it is a member.
Certified(h, by) ==
    \E id \in RoundIds :
        /\ by \ {h} \subseteq IdKeys(id)
        /\ MeetsIdQuorum(id, by) \/ (LoneValidator(id) /\ by = {h})

\* A hub builds canonicals, of any snapshot: it need not be a validator of it.
ASSUME BuildsAssumption == \A h \in Deleters : Builds[h] \subseteq RoundIds

Announce(h, id, by) ==
    [k \in Deleters |-> IF k = h THEN rnet[k] ELSE rnet[k] \cup {[from |-> h, id |-> id, by |-> by]}]

OpenIds(h) == DOMAIN signing[h]

RetractFault == plan.faults > 0 /\ plan' = [plan EXCEPT !.faults = @ - 1]

\* finalize of id with the signatures by, which the hub `from` collected, at its
\* await: the validators are stored before the deletion is streamed.
Persist(id, by, from) == [kind |-> "persist", id |-> id, by |-> by, from |-> from]

\* checkQuorum, once the round of id at h holds the signatures by: it is closed,
\* FINALIZED goes out and finalize starts, up to its await.
CheckQuorum(h, id, by, ts) ==
    IF MeetsIdQuorum(id, by)
    THEN /\ signing' = [signing EXCEPT ![h] = [i \in OpenIds(h) \ {id} |-> @[i]]]
         /\ rnet' = Announce(h, id, by)
         /\ doneIds' = [doneIds EXCEPT ![h] = @ \cup {id}]
         /\ rtasks' = [rtasks EXCEPT ![h] = ts \cup {Persist(id, by, h)}]
    ELSE /\ signing' = [signing EXCEPT ![h] = [i \in OpenIds(h) \cup {id} |-> IF i = id THEN by ELSE @[i]]]
         /\ rtasks' = [rtasks EXCEPT ![h] = ts]
         /\ UNCHANGED <<doneIds, rnet>>

-----------------------------------------------------------------------------
(***************************************************************************)
(* Submitting.                                                             *)
(***************************************************************************)

Submitting(retry) == [kind |-> "submit", retry |-> retry]

\* The engines' retract paths call submitLocal each time the indexer pushes the
\* reorg: the intent is noted, then the tip and the validators are awaited.
submitLocal(h) ==
    /\ plan.pushes[h] > 0
    /\ plan' = [plan EXCEPT !.pushes[h] = @ - 1]
    /\ pushed' = pushed \cup {h}
    /\ intents' = intents \cup {h}
    /\ rtasks' = [rtasks EXCEPT ![h] = @ \cup {Submitting(FALSE)}]
    /\ UNCHANGED <<signing, deferrals, doneIds, cosigned, rnet, deletions, missed>>

\* No tip or no validators: deferSigningRound, with one deferral per intent.
deferSigningRound(h) ==
    \E t \in rtasks[h] :
        /\ t.kind = "submit"
        /\ RetractFault
        /\ deferrals' = deferrals \cup {h}
        /\ rtasks' = [rtasks EXCEPT ![h] = @ \ {t}]
        /\ UNCHANGED <<cosigned, pushed, intents, signing, doneIds, rnet, deletions, missed>>

\* The timer of scheduleDeferredRetry.
retryDeferred(h) ==
    /\ h \in deferrals
    /\ Submitting(TRUE) \notin rtasks[h]
    /\ rtasks' = [rtasks EXCEPT ![h] = @ \cup {Submitting(TRUE)}]
    /\ UNCHANGED <<cosigned, pushed, intents, signing, deferrals, doneIds, rnet, deletions, missed, plan>>

\* submitQuorumRetraction past its awaits: any deferral is cleared; a round that
\* is open or done already is left to itself; a lone validator finalizes at
\* once; otherwise a round opens with the hub's own signature.
submitQuorumRetraction(h) ==
    \E t \in rtasks[h], id \in Builds[h] :
        /\ t.kind = "submit"
        /\ deferrals' = deferrals \ {h}
        /\ LET ts == rtasks[h] \ {t}
           IN  IF id \in OpenIds(h) \cup doneIds[h]
               THEN /\ rtasks' = [rtasks EXCEPT ![h] = ts]
                    /\ UNCHANGED <<signing, doneIds, rnet>>
               ELSE IF LoneValidator(id)
               THEN /\ rtasks' = [rtasks EXCEPT ![h] = ts \cup {Persist(id, {h}, h)}]
                    /\ doneIds' = [doneIds EXCEPT ![h] = @ \cup {id}]
                    /\ UNCHANGED <<signing, rnet>>
               ELSE CheckQuorum(h, id, {h}, ts)
        /\ UNCHANGED <<cosigned, pushed, intents, deletions, missed, plan>>

Deletion(h, id, by, from) == [hub |-> h, id |-> id, by |-> by, from |-> from]

\* Mutant: a round that times out is only closed.
MutTimeoutSilently(h, id) == {}

broadcastUnsigned(h, id) == {Deletion(h, id, {}, h)}

\* roundTimeoutMs: the round closes and the deletion goes out unsigned.
signingTimeout(h) ==
    \E id \in OpenIds(h) :
        /\ signing' = [signing EXCEPT ![h] = [i \in OpenIds(h) \ {id} |-> @[i]]]
        /\ deletions' = deletions \cup broadcastUnsigned(h, id)
        /\ UNCHANGED <<cosigned, pushed, intents, deferrals, doneIds, rtasks, rnet, missed, plan>>

-----------------------------------------------------------------------------
(***************************************************************************)
(* Co-signing.                                                             *)
(***************************************************************************)

\* Mutant: a follower signs whatever a validator asks it to.
MutSignAnything(h, k, id) == h \in IdKeys(id) /\ k \in IdKeys(id)

\* Both hubs are validators of the snapshot, and this hub's own indexer pushed a
\* matching retraction.
CoSigns(h, k, id) == h \in IdKeys(id) /\ k \in IdKeys(id) /\ h \in intents

\* The round of k asks for signatures again and again while it is open, so that a
\* request can come at any moment of that time.  A tip too far from the asked
\* block, or none, refuses: the request is as good as lost.
handleSignReq(h) ==
    \E k \in Deleters \ {h} : \E id \in OpenIds(k) :
        /\ CoSigns(h, k, id)
        /\ cosigned' = cosigned \cup {[by |-> h, id |-> id]}
        /\ UNCHANGED <<pushed, intents, signing, deferrals, doneIds, rtasks, rnet, deletions,
                       missed, plan>>

\* A signature is asked for, and so sent, more than once.
handleSign(h) ==
    \E m \in cosigned :
        /\ m.by # h /\ m.id \in OpenIds(h)
        /\ m.by \in IdKeys(m.id)
        /\ CheckQuorum(h, m.id, signing[h][m.id] \cup {m.by}, rtasks[h])
        /\ UNCHANGED <<pushed, intents, deferrals, cosigned, deletions, missed, plan>>

\* handleFinalized up to the lookup of the snapshot.
handleFinalized(h) ==
    \E m \in rnet[h] :
        /\ rnet' = [rnet EXCEPT ![h] = @ \ {m}]
        /\ rtasks' = IF m.id \in doneIds[h] THEN rtasks
                     ELSE [rtasks EXCEPT ![h] = @ \cup {[kind |-> "verify", id |-> m.id, by |-> m.by,
                                                   from |-> m.from]}]
        /\ UNCHANGED <<cosigned, pushed, intents, signing, deferrals, doneIds, deletions, missed, plan>>

\* The rest: the quorum is verified again, and finalize starts.
verifyFinalized(h) ==
    \E t \in rtasks[h] :
        /\ t.kind = "verify"
        /\ LET by == t.by \cap IdKeys(t.id)
           IN  IF MeetsIdQuorum(t.id, by)
               THEN /\ doneIds' = [doneIds EXCEPT ![h] = @ \cup {t.id}]
                    /\ rtasks' = [rtasks EXCEPT ![h] = (@ \ {t}) \cup {Persist(t.id, by, t.from)}]
               ELSE rtasks' = [rtasks EXCEPT ![h] = @ \ {t}] /\ UNCHANGED doneIds
        /\ UNCHANGED <<cosigned, pushed, intents, signing, deferrals, rnet, deletions, missed, plan>>

-----------------------------------------------------------------------------
(***************************************************************************)
(* Finalizing.                                                             *)
(***************************************************************************)

\* The rows are stored, and the signed deletion goes out.
finalize(h) ==
    \E t \in rtasks[h] :
        /\ t.kind = "persist"
        /\ rtasks' = [rtasks EXCEPT ![h] = @ \ {t}]
        /\ deletions' = deletions \cup {Deletion(h, t.id, t.by, t.from)}
        /\ UNCHANGED <<cosigned, pushed, intents, signing, deferrals, doneIds, rnet, missed, plan>>

\* They are not, or there are none: forgetFinalized, and nothing is streamed.
finalizeFails(h) ==
    \E t \in rtasks[h] :
        /\ t.kind = "persist"
        /\ RetractFault
        /\ rtasks' = [rtasks EXCEPT ![h] = @ \ {t}]
        /\ doneIds' = [doneIds EXCEPT ![h] = @ \ {t.id}]
        /\ missed' = missed \cup {h}
        /\ UNCHANGED <<cosigned, pushed, intents, signing, deferrals, rnet, deletions>>

\* pruneIntents past intentTtlMs.
pruneIntents(h) ==
    /\ RetractFault
    /\ h \in intents
    /\ intents' = intents \ {h}
    /\ UNCHANGED <<cosigned, pushed, signing, deferrals, doneIds, rtasks, rnet, deletions, missed>>

\* stop, and a new process: the rail keeps everything in memory.
restartRail(h) ==
    /\ RetractFault
    /\ intents' = intents \ {h}
    /\ signing' = [signing EXCEPT ![h] = <<>>]
    /\ deferrals' = deferrals \ {h}
    /\ doneIds' = [doneIds EXCEPT ![h] = {}]
    /\ rtasks' = [rtasks EXCEPT ![h] = {}]
    /\ missed' = missed \cup {h}
    /\ UNCHANGED <<cosigned, pushed, rnet, deletions>>

-----------------------------------------------------------------------------

RInit ==
    /\ plan \in PushPlans /\ pushed = {}
    /\ intents = {} /\ deferrals = {}
    /\ signing = [h \in Deleters |-> <<>>]
    /\ doneIds = [h \in Deleters |-> {}]
    /\ rtasks = [h \in Deleters |-> {}]
    /\ rnet = [h \in Deleters |-> {}]
    /\ cosigned = {} /\ deletions = {} /\ missed = {}

RNext ==
    \E h \in Deleters :
        \/ submitLocal(h) \/ deferSigningRound(h) \/ retryDeferred(h)
        \/ submitQuorumRetraction(h) \/ signingTimeout(h)
        \/ handleSignReq(h) \/ handleSign(h) \/ handleFinalized(h) \/ verifyFinalized(h)
        \/ finalize(h) \/ finalizeFails(h) \/ pruneIntents(h) \/ restartRail(h)

RSpec == RInit /\ [][RNext]_rvars

-----------------------------------------------------------------------------
(***************************************************************************)
(* Properties.                                                             *)
(***************************************************************************)

\* The deletions as a mirror sees them.
Streamed == {[hub |-> d.hub, by |-> d.by] : d \in deletions}

\* The rail keeps the promise of DeletionPromise: an unsigned deletion follows
\* a push of the hub's own indexer (submitLocal), a signed one carries a quorum
\* of hubs that each saw such a push, whatever intents expired and hubs
\* restarted meanwhile (handleSignReq, handleFinalized).  The hub that collected
\* them may stand outside that quorum's snapshot with its own signature alone.
P == INSTANCE DeletionPromise WITH
        Members <- Deleters,
        Certifies <- Certified,
        asked <- pushed,
        streams <- Streamed

KeepsPromise == P!Promise

\* A hub whose indexer pushed a retraction streams a deletion for it in the end,
\* signed or not ("Never silently drop a retraction", openSigningRound), unless
\* storing the validators failed or the process restarted.
NeverDropped ==
    <>[](\A h \in pushed : h \in missed \/ \E d \in deletions : d.hub = h)
=============================================================================
