---------------------------- MODULE OracleRounds ----------------------------
(***************************************************************************)
(* One oracle round: the hubs that submitted prices agree on the aggregate *)
(* to publish (oracle/consensus).  The leader, or a fallback after it,     *)
(* broadcasts PROPOSE; PREPARE and COMMIT follow; a hub with a commit      *)
(* quorum stores the round with the signatures it holds, and a watchdog    *)
(* records the round as skipped when none of that happens.                 *)
(*                                                                         *)
(* Every hub is a signing member, numbered in address order.  A price list *)
(* is named by the submissions it aggregates (PriceAggregate says what     *)
(* they come to), {} when no pair can be priced.  The digest votes are     *)
(* about is the price list; what a hub signs, the payload, adds the        *)
(* proposer's BTC height and the admission map.                            *)
(***************************************************************************)
EXTENDS HubQuorum

CONSTANTS
    RoundPlans,     \* the settings of a round, see below
    RoundLeader,    \* getLeader for the round
    RoundSnapshot,  \* the price snapshot of the hubs, with their stakes
    StoreAttempts,  \* attempts of one finalizeCommittedRound
    AbandonRearms,  \* ROUND_ABANDON_MAX_REARMS
    None            \* no round, no row, no admission map

VARIABLES
    setting,        \* the plan of this behaviour
    hub,            \* by hub, what it keeps about the round
    inbox,          \* by hub, the messages under way to it
    mishaps         \* the faults left: failed price and skip writes, lost messages, stale tips

ovars == <<setting, hub, inbox, mishaps>>

(***************************************************************************)
(* A plan: tally is how votes count ("weighted", "signed", "voted");       *)
(* admission whether the height is in the admission era; views the         *)
(* submissions each hub starts with and quoted all that were sent; minimum *)
(* the submissions a round needs (ORACLE_MIN_SUBMISSIONS); heights the BTC *)
(* height each hub captured; lenient whether a hub co-signs a price list   *)
(* over other submissions than its own; dispersed whether no pair can be   *)
(* priced; lostAnchor the hubs without a chain tip; slow the               *)
(* hubs that messages overtake while they read a snapshot; hasty the hubs  *)
(* whose timers may fire while messages are under way; stops the hubs that *)
(* may be shut down; budget the mishaps.                                   *)
(***************************************************************************)

ASSUME RoundPlansAssumption ==
    /\ StoreAttempts \in Nat
    /\ \A plan \in RoundPlans : /\ plan.budget \in [{"store", "skip", "loss", "tip"} -> Nat]
                               /\ IsFiniteSet(DOMAIN plan.views)

OHubs == DOMAIN hub

InitialHub(view) ==
    [seat |-> "waiting", view |-> view, draft |-> {}, ready |-> "no", fallback |-> "off", round |-> None,
     orphan |-> {}, stores |-> {}, early |-> {}, tasks |-> {}, finalized |-> FALSE,
     skipped |-> FALSE, watchdog |-> None, skips |-> {}, row |-> None, up |-> TRUE, signed |-> {}]

\* What price_snapshots holds for the round.
FinalizedRow(payload, proof) == [status |-> "finalized", payload |-> payload, proof |-> proof]
SkippedRow == [status |-> "skipped", payload |-> None, proof |-> {}]

OInit ==
    /\ setting \in RoundPlans
    /\ hub = [h \in DOMAIN setting.views |-> InitialHub(setting.views[h])]
    /\ inbox = [h \in DOMAIN setting.views |-> {}]
    /\ mishaps = setting.budget

Lowest(hubs) == CHOOSE h \in hubs : \A i \in hubs : h <= i

\* aggregateAll of the submissions.
PricesOf(view) == IF setting.dispersed THEN {} ELSE view

\* What a step makes of a hub: its new state, what it broadcasts, and the buffered
\* messages it handles again.
Result(c, sent, replayed) == [hub |-> c, sent |-> sent, replayed |-> replayed]
Becomes(c) == Result(c, {}, {})

\* A hub done with the round ignores every message about it.
Deaf(c) == ~c.up \/ (c.finalized /\ c.round = None /\ c.tasks = {} /\ c.seat # "locking")

\* Hub h takes a step with result r, on the messages taken from its inbox.
\* Messages that would be ignored are not kept.
Does(h, r, taken) ==
    /\ hub' = [hub EXCEPT ![h] = r.hub]
    /\ inbox' = [i \in OHubs |->
                    IF i # h THEN IF Deaf(hub[i]) THEN inbox[i] ELSE inbox[i] \cup r.sent
                    ELSE IF Deaf(r.hub) THEN {} ELSE (inbox[i] \ taken) \cup r.replayed]
    /\ UNCHANGED <<setting, mishaps>>

\* A mishap of kind k strikes hub h.
Fails(k, h, c) ==
    /\ mishaps[k] > 0
    /\ mishaps' = [mishaps EXCEPT ![k] = @ - 1]
    /\ hub' = [hub EXCEPT ![h] = c]
    /\ UNCHANGED <<setting, inbox>>

-----------------------------------------------------------------------------
(***************************************************************************)
(* Votes and quorums.                                                      *)
(***************************************************************************)

quorumMet(p, votes) ==
    IF setting.tally = "weighted" THEN meetsStakeThreshold(RoundSnapshot, p.sigs)
    ELSE Cardinality(IF setting.tally = "signed" THEN p.sigs ELSE votes)
            >= bftQuorum(Cardinality(OHubs))

\* A committed round goes to the store with the signatures held by then.
checkCommitQuorum(c) ==
    IF c.round = None \/ c.round.final \/ ~quorumMet(c.round, c.round.commits) THEN c
    ELSE [c EXCEPT !.round.final = TRUE, !.round.timer = "off",
                   !.stores = @ \cup {[payload |-> c.round.payload, proof |-> c.round.sigs,
                                       attempt |-> 1, gap |-> FALSE]}]

\* The commit vote of hub h, if its round has the prepares for one.
SendsCommit(c) == c.round # None /\ ~c.round.final /\ ~c.round.sent /\ quorumMet(c.round, c.round.prepares)

checkPrepareQuorum(h, c) ==
    IF ~SendsCommit(c) THEN c
    ELSE checkCommitQuorum([c EXCEPT !.round.sent = TRUE, !.round.commits = @ \cup {h},
                                     !.round.sigs = @ \cup {h}])

CommitOf(h, c) ==
    IF SendsCommit(c) THEN {[type |-> "COMMIT", from |-> h, payload |-> c.round.payload]} ELSE {}

\* Mutant: a signature that came with a vote for the same digest is kept.
MutSigUnchecked(p, m) == p.sigs \cup {m.from}

\* verifyAndStoreSig: the signature holds over the payload of this hub's round.
verifyAndStoreSig(p, m) == IF m.payload = p.payload THEN p.sigs \cup {m.from} ELSE p.sigs

\* checkPrepareQuorum after a vote, with what hub h has to send before.
Prepared(h, c, sent, replayed) ==
    Result(checkPrepareQuorum(h, c), sent \cup CommitOf(h, c), replayed)

\* Mutant: an open round has its own timer, so no watchdog is armed for it.
MutUnwatched(c) ==
    IF c.finalized \/ c.skipped \/ c.watchdog # None \/ c.round # None THEN c
    ELSE [c EXCEPT !.watchdog = 0]

\* armRoundWatchdog.
Watched(c) ==
    IF c.finalized \/ c.skipped \/ c.watchdog # None THEN c ELSE [c EXCEPT !.watchdog = 0]

\* clearRoundTracking.
Untracked(c) == [c EXCEPT !.ready = "no", !.fallback = "off", !.watchdog = None]

NewRound(payload, timer) ==
    [payload |-> payload, prepares |-> {}, commits |-> {}, sigs |-> {}, sent |-> FALSE,
     final |-> FALSE, timer |-> timer]

-----------------------------------------------------------------------------
(***************************************************************************)
(* Taking a seat (finalize_round.js, seats.js, propose.js).                *)
(***************************************************************************)

\* The payload hub h makes of a price list.
PayloadOf(h, prices) ==
    [prices |-> prices, height |-> setting.heights[h],
     admit |-> IF setting.admission THEN h ELSE None]

\* openLeaderRound, its timeout and the broadcast.  A round the hub has open is
\* overwritten; the timer of that one, a follower's or a retry, is still armed.
OpensLeaderRound(h, c) ==
    LET payload == PayloadOf(h, c.draft)
        opened == [c EXCEPT !.round = [NewRound(payload, "lead") EXCEPT
                                          !.prepares = {h}, !.sigs = {h}],
                            !.orphan = IF c.round = None THEN @ ELSE @ \cup ({c.round.timer} \ {"off"}),
                            !.early = {}, !.draft = {}, !.signed = @ \cup {payload}]
    IN  Prepared(h, opened, {[type |-> "PROPOSE", from |-> h, payload |-> payload]}, c.early)

\* proposeRound up to its first await: the prices are fixed here.
ProposesFrom(h, c) ==
    LET drafted == [c EXCEPT !.draft = PricesOf(c.view)]
    IN  IF drafted.draft = {} THEN Becomes([c EXCEPT !.skips = @ \cup {"plain"}])
        ELSE IF setting.admission THEN Becomes([drafted EXCEPT !.seat = "proposing"])
        ELSE OpensLeaderRound(h, drafted)

Alone == Cardinality(OHubs) = 1

\* A lone hub signs the prices it drafted and begins to store them.
SignsAlone(h, c) ==
    LET payload == PayloadOf(h, c.draft)
    IN  [c EXCEPT !.draft = {}, !.signed = @ \cup {payload},
                  !.stores = @ \cup {[payload |-> payload, proof |-> {h}, attempt |-> 1, gap |-> FALSE]}]

\* The only member of its snapshot stores the round itself; in the admission era
\* it reads its tips first.  No watchdog is armed.
finalizeSoloRound(h, c) ==
    LET drafted == [c EXCEPT !.draft = PricesOf(c.view)]
    IN  IF drafted.draft = {} THEN [c EXCEPT !.skips = @ \cup {"plain"}]
        ELSE IF setting.admission THEN [drafted EXCEPT !.seat = "proposing"]
        ELSE SignsAlone(h, drafted)

\* Another hub's seat: ready from now on, and first in line to step in or not.
AwaitsLeader(h, c) ==
    LET others == c.view \ {RoundLeader}
    IN  [c EXCEPT !.ready = IF @ = "no" THEN "set" ELSE @,
                  !.fallback = IF others = {} \/ Lowest(others) # h THEN @
                               ELSE IF RoundLeader \in c.view THEN "awaiting" ELSE "grace"]

\* finalizeOnSnapshot and takeSeat.
takeSeat(h, c) ==
    IF Alone THEN Becomes(finalizeSoloRound(h, c))
    ELSE IF h = RoundLeader THEN ProposesFrom(h, Watched(c))
    ELSE Becomes(AwaitsLeader(h, Watched(c)))

\* The finalization timer of the round: without a chain tip, or with fewer
\* submissions than the minimum, the round is only recorded; otherwise the
\* snapshot is read, at once or while others go on.
finalizeRound(h) ==
    LET c == [hub[h] EXCEPT !.seat = "done"]
        skip(why) == Becomes([c EXCEPT !.skips = @ \cup {why}])
    IN  /\ c.up /\ hub[h].seat = "waiting"
        /\ Does(h, IF h \in setting.lostAnchor THEN skip("anchor")
                   ELSE IF c.finalized THEN Becomes(c)
                   ELSE IF c.view = {} \/ Cardinality(c.view) < setting.minimum THEN skip("plain")
                   ELSE IF h \in setting.slow THEN Becomes([c EXCEPT !.seat = "locking"])
                   ELSE takeSeat(h, c), {})

finalizeOnSnapshot(h) ==
    /\ hub[h].up /\ hub[h].seat = "locking"
    /\ Does(h, takeSeat(h, [hub[h] EXCEPT !.seat = "done"]), {})

\* The admission tip is read; a round decided or opened meanwhile stands.
resolveRoundAdmitBlocks(h) ==
    LET c == [hub[h] EXCEPT !.seat = "done"]
    IN  /\ hub[h].up /\ hub[h].seat = "proposing"
        /\ Does(h, IF Alone THEN Becomes(SignsAlone(h, c))
                   ELSE IF c.finalized \/ c.round # None THEN Becomes([c EXCEPT !.draft = {}])
                   ELSE OpensLeaderRound(h, c), {})

\* No fresh tip to stamp the admission map from: nothing is proposed, or stored by a
\* lone hub.
noAdmissionTip(h) ==
    /\ hub[h].up /\ hub[h].seat = "proposing"
    /\ Fails("tip", h, [hub[h] EXCEPT !.seat = "done", !.draft = {}])

\* Another submission of the round arrives.
receiveSubmission(h, s) ==
    /\ hub[h].up /\ s \in setting.quoted \ hub[h].view
    /\ Does(h, Becomes([hub[h] EXCEPT !.view = @ \cup {s}]), {})

-----------------------------------------------------------------------------
(***************************************************************************)
(* PROPOSE at a follower (handle_propose.js, follower_round.js).           *)
(***************************************************************************)

\* Mutant: a leader that submitted is waited for, however long.
MutLeaderAwaited(h, from) ==
    LET view == hub[h].view IN RoundLeader \notin view /\ view # {} /\ from = Lowest(view)

\* The sender is whom this hub, on its own submissions and clock, would expect
\* to step in.
electedFallback(h, from) ==
    LET view == hub[h].view
        others == view \ {RoundLeader}
    IN  /\ others # {} /\ from = Lowest(others)
        /\ RoundLeader \in view => hub[h].ready = "elapsed"

coSigns(h, m) ==
    \/ m.payload.prices = hub[h].view
    \/ setting.lenient

\* openFollowerRound, for a hub that locked a snapshot and has no round.
Opened(c, t) ==
    IF c.round # None \/ ~t.locks THEN c
    ELSE Watched([c EXCEPT !.round = NewRound(t.msg.payload, "follow"), !.early = {}])

\* prepareOnPropose: only for the digest and the admission map of the open round.
\* A round that went away without a lock of its own ends the handler.
bindAndCoSign(h, c, t) ==
    LET proposed == t.msg.payload
        same == c.round # None /\ c.round.payload.prices = proposed.prices
                    /\ c.round.payload.admit = proposed.admit
        o == Opened(c, t)
        drained == IF o.round # c.round THEN c.early ELSE {}
        signs == /\ ~same /\ o.round # None
                 /\ o.round.payload.prices = proposed.prices
                 /\ o.round.payload.admit = proposed.admit
        voted == [o EXCEPT !.round.prepares = @ \cup {h, t.msg.from},
                           !.round.sigs = verifyAndStoreSig(o.round, t.msg) \cup {h},
                           !.signed = @ \cup {o.round.payload}]
        prepare == [type |-> "PREPARE", from |-> h, payload |-> o.round.payload]
    IN  IF signs THEN Prepared(h, voted, {prepare}, drained) ELSE Result(o, {}, drained)

\* With the snapshot at hand: judge the proposer and its prices, then, in the
\* admission era, check the admission map against this hub's own tip.
judgeProposer(h, c, t) ==
    IF ~(t.msg.from = RoundLeader \/ electedFallback(h, t.msg.from)) \/ ~coSigns(h, t.msg)
    THEN Becomes(c)
    ELSE IF setting.admission
    THEN Becomes([c EXCEPT !.tasks = @ \cup {[t EXCEPT !.stage = "admit"]}])
    ELSE bindAndCoSign(h, c, t)

\* The proposal reaches a hub that has not finalized the round; it reads its tip
\* and, with no round open, locks a snapshot, at once or while others go on.  A
\* proposal dropped for its height, its round time or for want of a snapshot is
\* one that was lost (MessageLost).
handlePropose(h, m) ==
    LET t == [msg |-> m, locks |-> hub[h].round = None, stage |-> "snapshot"]
    IN  IF hub[h].finalized THEN Becomes(hub[h])
        ELSE IF h \in setting.slow THEN Becomes([hub[h] EXCEPT !.tasks = @ \cup {t}])
        ELSE judgeProposer(h, hub[h], t)

lockProposeSnapshot(h, t) ==
    /\ hub[h].up /\ t.stage = "snapshot"
    /\ Does(h, judgeProposer(h, [hub[h] EXCEPT !.tasks = @ \ {t}], t), {})

checkProposedAdmit(h, t) ==
    /\ hub[h].up /\ t.stage = "admit"
    /\ Does(h, bindAndCoSign(h, [hub[h] EXCEPT !.tasks = @ \ {t}], t), {})

\* The proposed map is outside this hub's own window.
admissionRefused(h, t) ==
    /\ hub[h].up /\ t.stage = "admit"
    /\ Fails("tip", h, [hub[h] EXCEPT !.tasks = @ \ {t}])

-----------------------------------------------------------------------------
(***************************************************************************)
(* PREPARE and COMMIT (messages.js).                                       *)
(***************************************************************************)

\* A vote for a round this hub does not have: kept unless it is finalized.
Buffered(c, m) == IF c.finalized THEN c ELSE [c EXCEPT !.early = @ \cup {m}]

handlePrepare(h, m) ==
    LET c == hub[h]
        voted == [c EXCEPT !.round.prepares = @ \cup {m.from},
                           !.round.sigs = verifyAndStoreSig(c.round, m)]
    IN  IF c.round = None THEN Becomes(Buffered(c, m))
        ELSE IF c.round.payload.prices # m.payload.prices THEN Becomes(c)
        ELSE Prepared(h, voted, {}, {})

handleCommit(h, m) ==
    LET c == hub[h]
        voted == [c EXCEPT !.round.commits = @ \cup {m.from},
                           !.round.sigs = verifyAndStoreSig(c.round, m)]
    IN  IF c.round = None THEN Becomes(Buffered(c, m))
        ELSE IF c.round.payload.prices # m.payload.prices THEN Becomes(c)
        ELSE Becomes(checkCommitQuorum(voted))

handleMessage(h, m) ==
    /\ hub[h].up /\ m \in inbox[h]
    /\ Does(h, CASE m.type = "PROPOSE" -> handlePropose(h, m)
                 [] m.type = "PREPARE" -> handlePrepare(h, m)
                 [] m.type = "COMMIT" -> handleCommit(h, m), {m})

-----------------------------------------------------------------------------
(***************************************************************************)
(* Storing the round (commit.js, snapshot_store.js).                       *)
(***************************************************************************)

\* The round's rows and its proof are written, over a skip marker too; then
\* announceCommittedRound.
storeSnapshot(h, s) ==
    /\ ~s.gap
    /\ Does(h, Becomes([Untracked(hub[h]) EXCEPT
                           !.row = FinalizedRow(s.payload, s.proof),
                           !.stores = @ \ {s}, !.finalized = TRUE, !.skipped = FALSE,
                           !.round = None]), {})

\* Mutant: after the last attempt the round is left as it is.
MutGivesUp(c) == c

\* The last attempt failed: the round stays and a timer drives it again.
armFinalizeRetry(c) ==
    IF c.round = None THEN c ELSE [c EXCEPT !.round.final = FALSE, !.round.timer = "retry"]

\* A lone hub does not try again: the scheduler logs the error.
storeFails(h, s) ==
    LET c == [hub[h] EXCEPT !.stores = @ \ {s}]
    IN  /\ ~s.gap
        /\ Fails("store", h, IF Alone THEN c
                             ELSE IF s.attempt = StoreAttempts THEN armFinalizeRetry(c)
                             ELSE [c EXCEPT !.stores = @ \cup {[s EXCEPT !.gap = TRUE]}])

\* The pause between two attempts is over; a round that went away is dropped.
nextAttempt(h, s) ==
    LET c == [hub[h] EXCEPT !.stores = @ \ {s}]
    IN  /\ s.gap
        /\ Does(h, Becomes(IF c.round = None THEN c
                           ELSE [c EXCEPT !.stores = @ \cup {[s EXCEPT !.gap = FALSE, !.attempt = @ + 1]}]), {})

\* The retry timer's callback stores whichever round is there, without counting.
Redriven(c) ==
    IF c.round = None \/ c.round.final \/ c.finalized THEN c
    ELSE [c EXCEPT !.round.final = TRUE,
                   !.stores = @ \cup {[payload |-> c.round.payload, proof |-> c.round.sigs,
                                       attempt |-> 1, gap |-> FALSE]}]

finalizeRetry(h) ==
    /\ hub[h].round # None /\ hub[h].round.timer = "retry"
    /\ Does(h, Becomes(Redriven([hub[h] EXCEPT !.round.timer = "off"])), {})

\* The retry timer of a round that the leader overwrote.
orphanRetry(h) ==
    /\ "retry" \in hub[h].orphan
    /\ Does(h, Becomes(Redriven([hub[h] EXCEPT !.orphan = @ \ {"retry"}])), {})

\* The skip write that stop awaits is over, one way or the other: the round goes.
Ended(c, why) == IF why = "stop" THEN [c EXCEPT !.round = None] ELSE c

\* storeSkippedRound: the marker never replaces a row.
storeSkippedRound(h, why) ==
    LET c == hub[h]
    IN  /\ why \in c.skips
        /\ Does(h, Becomes(Ended([Untracked(c) EXCEPT !.skips = @ \ {why},
                                     !.row = IF @ = None THEN SkippedRow ELSE @,
                                     !.skipped = @ \/ ~c.finalized], why)), {})

\* Only the skip for want of an anchor is tried again, by a hub that is up.
skipFails(h, why) ==
    LET c == hub[h]
    IN  /\ why \in c.skips
        /\ Fails("skip", h, IF why = "anchor" /\ c.up /\ ~c.finalized THEN c
                            ELSE Ended([c EXCEPT !.skips = @ \ {why}], why))

-----------------------------------------------------------------------------
(***************************************************************************)
(* Timers.  Patient hubs wait until everything sent has been dealt with,   *)
(* and longer for the later timers, as the lengths of the timers have it.  *)
(***************************************************************************)

Busy(h) ==
    /\ hub[h].up
    /\ \/ inbox[h] # {} \/ hub[h].tasks # {} \/ hub[h].stores # {} \/ hub[h].skips # {}
       \/ hub[h].seat # "done"
       \/ hub[h].round # None /\ hub[h].round.timer = "retry"

Settled(h) == h \in setting.hasty \/ \A i \in OHubs : ~Busy(i)

\* leaderTimeout since the hub was ready has passed.
leaderTimeoutPasses(h) ==
    /\ hub[h].up /\ hub[h].ready = "set" /\ Settled(h)
    /\ Does(h, Becomes([hub[h] EXCEPT !.ready = "elapsed"]), {})

\* The fallback's timer: longer than leaderTimeout, if the leader submitted.
fallbackTimer(h) ==
    LET c == [hub[h] EXCEPT !.fallback = "off"]
        others == c.view \ {RoundLeader}
        due == hub[h].fallback = "awaiting" => others # {} /\ Lowest(others) = h
    IN  /\ hub[h].up /\ hub[h].fallback # "off" /\ Settled(h)
        /\ h \notin setting.hasty => \A i \in OHubs : hub[i].up => hub[i].ready # "set"
        /\ Does(h, IF c.round # None \/ c.finalized \/ ~due THEN Becomes(c) ELSE ProposesFrom(h, c), {})

Awaiting(h) == hub[h].up /\ (hub[h].fallback # "off" \/ hub[h].ready = "set")

\* The timer of the open round, the proposer's or a follower's: the round is dropped,
\* unless the proposer has it in the store.
finalizationTimeout(h) ==
    LET c == hub[h]
    IN  /\ c.up /\ c.round # None /\ c.round.timer \in {"lead", "follow"} /\ Settled(h)
        /\ h \notin setting.hasty => \A i \in OHubs : ~Awaiting(i)
        /\ Does(h, Becomes(IF c.round.timer = "lead" /\ c.round.final
                           THEN [c EXCEPT !.round.timer = "off"] ELSE [c EXCEPT !.round = None]), {})

\* The timer of a follower's round that the leader overwrote: it drops whichever
\* round is there.
orphanTimeout(h) ==
    /\ "follow" \in hub[h].orphan /\ Settled(h)
    /\ h \notin setting.hasty => \A i \in OHubs : ~Awaiting(i)
    /\ Does(h, Becomes([hub[h] EXCEPT !.orphan = @ \ {"follow"}, !.round = None]), {})

Timing(h) == Awaiting(h) \/ (hub[h].up /\ hub[h].round # None)

onRoundAbandoned(h) ==
    LET c == hub[h]
    IN  /\ c.up /\ c.watchdog # None /\ Settled(h)
        /\ h \notin setting.hasty => \A i \in OHubs : ~Timing(i)
        /\ Does(h, Becomes(IF c.finalized \/ c.skipped THEN [c EXCEPT !.watchdog = None]
                           ELSE IF c.round # None /\ c.watchdog < AbandonRearms
                           THEN [c EXCEPT !.watchdog = @ + 1]
                           ELSE [c EXCEPT !.watchdog = None, !.skips = @ \cup {"plain"}]), {})

\* stop: what is armed or suspended is forgotten.  A round that is still to be
\* finalized or is in flight is recorded as skipped, and the pending round goes when
\* that write is over; writes already begun go on.
stop(h) ==
    LET c == hub[h]
        inFlight == c.watchdog # None /\ ~c.finalized /\ ~c.skipped
        scheduled == c.seat = "waiting" \/ "anchor" \in c.skips
    IN  /\ c.up /\ h \in setting.stops
        /\ hub' = [hub EXCEPT ![h] = [c EXCEPT
                       !.up = FALSE, !.seat = "done", !.draft = {}, !.ready = "no", !.fallback = "off",
                       !.early = {}, !.tasks = {}, !.watchdog = None,
                       !.skips = IF inFlight \/ scheduled THEN @ \cup {"stop"} ELSE @,
                       !.round = IF @ # None /\ inFlight THEN [@ EXCEPT !.timer = "off"] ELSE None]]
        /\ inbox' = [inbox EXCEPT ![h] = {}]
        /\ UNCHANGED <<setting, mishaps>>

\* A message is lost.
MessageLost(h, m) ==
    /\ mishaps["loss"] > 0
    /\ mishaps' = [mishaps EXCEPT !["loss"] = @ - 1]
    /\ inbox' = [inbox EXCEPT ![h] = @ \ {m}]
    /\ UNCHANGED <<setting, hub>>

-----------------------------------------------------------------------------

\* Handlers, the ends of awaits, and timers.
OSteps ==
    \E h \in OHubs :
        \/ finalizeRound(h) \/ finalizeOnSnapshot(h) \/ resolveRoundAdmitBlocks(h)
        \/ \E m \in inbox[h] : handleMessage(h, m)
        \/ \E t \in hub[h].tasks : lockProposeSnapshot(h, t) \/ checkProposedAdmit(h, t)
        \/ \E s \in hub[h].stores : storeSnapshot(h, s) \/ nextAttempt(h, s)
        \/ finalizeRetry(h) \/ orphanRetry(h)
        \/ \E why \in hub[h].skips : storeSkippedRound(h, why)
        \/ leaderTimeoutPasses(h) \/ fallbackTimer(h) \/ finalizationTimeout(h)
        \/ orphanTimeout(h) \/ onRoundAbandoned(h)

ONext ==
    \/ OSteps
    \/ \E h \in OHubs :
          \/ \E s \in setting.quoted : receiveSubmission(h, s)
          \/ \E s \in hub[h].stores : storeFails(h, s)
          \/ \E why \in hub[h].skips : skipFails(h, why)
          \/ \E m \in inbox[h] : MessageLost(h, m)
          \/ noAdmissionTip(h)
          \/ \E t \in hub[h].tasks : admissionRefused(h, t)
          \/ stop(h)

-----------------------------------------------------------------------------

Published(h) == hub[h].row # None /\ hub[h].row.status = "finalized"

\* Every signature stored with a round was made by a hub over exactly the payload
\* stored (verifyAndStoreSig), whatever proposals crossed.
SignersBehindRow ==
    \A h \in OHubs : Published(h) =>
        \A i \in hub[h].row.proof : i \in OHubs /\ hub[h].row.payload \in hub[i].signed

\* Where signatures are counted, those stored with a round are a quorum (commit.js
\* quorumMet).
CountBehindRow ==
    \A h \in OHubs :
        Published(h) /\ setting.tally = "signed"
        => Cardinality(hub[h].row.proof) >= bftQuorum(Cardinality(OHubs))

\* Where votes are weighed, no row is stored without more than two thirds of the
\* stake having signed it (commit.js quorumMet: "A value cannot finalize without
\* >2/3 stake having signed it").
StakeBehindRow ==
    \A h \in OHubs :
        Published(h) /\ setting.tally = "weighted"
        => meetsStakeThreshold(RoundSnapshot, hub[h].row.proof)

\* The proof stored with a round is what an indexer checks it by: every signature
\* in it was made, by a member, over exactly the payload stored, and where the
\* tally is of signatures or of stake they are a quorum (commit.js quorumMet,
\* verifyAndStoreSig), whatever proposals crossed.
ProofBehindRow == SignersBehindRow /\ CountBehindRow /\ StakeBehindRow

\* Every hub ends up with a record of the round, published or skipped, whatever
\* is lost or times out (watchdog.js: "so this hub holds a durable record of the
\* round"), unless the marker itself cannot be written.  One that is shut down
\* has it if it had signed anything.  A lone hub arms no watchdog: without an
\* admission tip, or when its only write fails, it is left with no record.
RoundRecorded ==
    (mishaps["skip"] = 0 /\ (Alone => mishaps["tip"] = 0 /\ mishaps["store"] = 0)) =>
        <>[](\A h \in OHubs : hub[h].up \/ hub[h].signed # {} => hub[h].row # None)

\* A round that reached its commit quorum on a hub is stored there, however often
\* the write fails (commit.js: "round NOT dropped").  This is not claimed of a lone
\* hub, nor of a leader that is slow, whose stray follower timer may drop the round
\* between two attempts.
CommittedStored ==
    \A h \in 1..2 :
        (h \in OHubs /\ ~Alone /\ RoundLeader \notin setting.slow /\ hub[h].stores # {})
            ~> (h \in OHubs /\ (Published(h) \/ ~hub[h].up))

\* With nothing lost and timers longer than the exchanges, the round is published
\* by every hub that stays up, though the leader be shut down at any point: the
\* fallback salvages it (seats.js).
Salvageable ==
    /\ setting.hasty = {} /\ ~setting.dispersed /\ setting.lostAnchor = {}
    /\ setting.budget["loss"] = 0 /\ setting.budget["tip"] = 0
    /\ setting.minimum <= Cardinality(OHubs) /\ (Alone => setting.budget["store"] = 0)
    /\ setting.stops = {} \/ setting.tally # "weighted"
    /\ \A h \in OHubs : setting.views[h] = OHubs
Salvaged == Salvageable => <>(\A h \in OHubs : hub[h].up => Published(h))

OSpec == OInit /\ [][ONext]_ovars /\ WF_ovars(OSteps)
=============================================================================
