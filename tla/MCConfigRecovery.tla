-------------------------- MODULE MCConfigRecovery --------------------------
(***************************************************************************)
(* Two instances of ConfigPbft in one run.  A behaviour is either a pair   *)
(* of hubs deciding two slots, so that what one slot leaves behind meets   *)
(* the next, with a crash or with two timeouts of leaders; or the three    *)
(* hubs of MCConfigPbft deciding one slot with one fault of any other      *)
(* kind.  The hubs of the other instance stay in their initial state.      *)
(***************************************************************************)
EXTENDS MCConfigPbft

\* The instance meets what the proof of Agreement assumes.
ASSUME StableMembership == OneRotation /\ NoLoneStakeQuorum

VARIABLES tseq, tview, tlastApplied, tdbSeq, tpending, ttimers, tlocking, tinflight, tearlyVotes,
          tearlyOrder, tvcKeys, tvcHeight, tnet, tsent, tlog, tbudget, trestarted, twriteFailed

tvars == <<tseq, tview, tlastApplied, tdbSeq, tpending, ttimers, tlocking, tinflight, tearlyVotes,
           tearlyOrder, tvcKeys, tvcHeight, tnet, tsent, tlog, tbudget, trestarted, twriteFailed>>

VARIABLE three      \* is the behaviour about the three hubs

Trio == INSTANCE ConfigPbft WITH
    Hubs <- MCHubs, KeyOrder <- MCHubsOrder, LiveSet <- MCHubsOrder, Snapshot <- MCHubsSnapshot,
    Submits <- MCAnotherEach, Heights <- {1, 2}, MaxSeq <- 1, MaxDirect <- 1, Budgets <- MCOneFault,
    seq <- tseq, view <- tview, lastApplied <- tlastApplied, dbSeq <- tdbSeq, pending <- tpending,
    timers <- ttimers, locking <- tlocking, inflight <- tinflight, earlyVotes <- tearlyVotes,
    earlyOrder <- tearlyOrder, vcKeys <- tvcKeys, vcHeight <- tvcHeight, net <- tnet, sent <- tsent,
    log <- tlog, budget <- tbudget, restarted <- trestarted, writeFailed <- twriteFailed

EitherInit ==
    /\ Init /\ Trio!Init /\ three \in BOOLEAN
    /\ IF three THEN budget = CHOOSE b \in Budgets : TRUE
                ELSE tbudget = CHOOSE b \in MCOneFault : TRUE

EitherNext ==
    \/ ~three /\ Next /\ UNCHANGED <<tvars, three>>
    \/ three /\ Trio!Next /\ UNCHANGED <<vars, three>>

EitherSpec == EitherInit /\ [][EitherNext]_<<vars, tvars, three>>

\* AppliedOnce of ConfigPbft for the three hubs: a commit that comes back after
\* its slot was applied does not apply it again.
TrioAppliedOnce == Trio!AppliedOnce

\* ActsOnCertificates of ConfigPbft for the three hubs, early votes replayed
\* included.
TrioActsOnCertificates == Trio!ActsOnCertificates
=============================================================================
