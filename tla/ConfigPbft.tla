----------------------------- MODULE ConfigPbft -----------------------------
(***************************************************************************)
(* The PBFT engine that carries config writes (consensus/pbft.js and       *)
(* consensus/pbft/): one leader per sequence number proposes a config, the *)
(* other hubs PREPARE and COMMIT it, and every hub that sees a commit      *)
(* quorum writes the config and then its last applied sequence number.     *)
(*                                                                         *)
(* Hubs run concurrently and talk through gossip, which delivers an        *)
(* envelope at most once, late or never, in any order.  A hub is a         *)
(* single-threaded event loop: an action is one turn of it, and what the   *)
(* code awaits (the snapshot lock of a PRE_PREPARE, the two writes of an   *)
(* apply) is in flight between two actions.                                *)
(*                                                                         *)
(* A hub stands for its Ed25519 key.  A config stands for its digest.  A   *)
(* round's quorum, stake weights and rotation are all functions of the     *)
(* snapshot height it locked, so a round keeps the height only.  The hubs  *)
(* are federated: the single-host fallbacks without a snapshot are left    *)
(* out.                                                                    *)
(***************************************************************************)
EXTENDS HubQuorum

CONSTANTS
    Hubs,           \* the keys that sign, all registered with every hub
    KeyOrder,       \* every key once, in the order of their hex strings
    LiveSet,        \* validatorSet: the rotation used when no round is known
    Configs,        \* the configs
    Submits,        \* Hubs -> the configs its clients submit to a hub
    Heights,        \* the BTC heights a hub may see as its tip
    Snapshot,       \* Heights -> the indexer's validator snapshot
    Weighted,       \* Heights -> is the stake-weighted gate active there
    Tolerance,      \* PBFT_SNAPSHOT_TOLERANCE_BLOCKS
    EarlyMaxSeqs,   \* EARLY_VOTE_MAX_SEQS
    EarlyMaxPerSeq, \* EARLY_VOTE_MAX_PER_SEQ
    MaxViewSkew,    \* MAX_VIEW_SKEW
    NoRound, NoConfig, NoHeight,
    \* bounds of the model
    MaxSeq,         \* sequence numbers 1..MaxSeq
    MaxView,        \* views 0..MaxView
    MaxDirect,      \* configs a sole member applies without a round
    Budgets         \* how many faults of each kind a behaviour may have: a set
                    \* of choices, of which a behaviour makes one

FaultKinds == {"timeout",   \* a leader's round timer fires
               "expiry",    \* a follower's round timer, an early vote's TTL
               "snapshot",  \* the indexer has no snapshot for the height
               "write",     \* applyConfig or saveSeq fails
               "crash"}     \* the process dies and comes back

ASSUME BoundsAssumption ==
    /\ MaxSeq \in Nat /\ MaxView \in Nat /\ MaxDirect \in Nat
    /\ Budgets \subseteq [FaultKinds -> Nat]
    /\ Tolerance \in Nat /\ MaxViewSkew \in Nat
    /\ EarlyMaxSeqs \in Nat \ {0} /\ EarlyMaxPerSeq \in Nat \ {0}

ASSUME DataAssumption ==
    /\ Heights \subseteq Nat
    /\ \A ht \in Heights : Len(Snapshot[ht].validators) \in Nat
    /\ Submits \in [Hubs -> SUBSET Configs]
    /\ NoConfig \notin Configs
    /\ NoHeight \notin Heights

VARIABLES
    seq,            \* this.seq: the last slot this hub consumed
    view,           \* this.view
    lastApplied,    \* this.lastAppliedSeq
    dbSeq,          \* consensus_state.last_seq
    pending,        \* this.pendingProposals
    timers,         \* the armed round timers, of rounds since replaced too
    locking,        \* PRE_PREPAREs awaiting their snapshot
    inflight,       \* applies that await applyConfig or saveSeq
    earlyVotes,     \* this.earlyVotes: votes that came before their round
    earlyOrder,     \* the insertion order of its buckets: pairs (older, newer)
    vcKeys,         \* this.pendingViewChangePubkeys
    vcHeight,       \* this.viewChangeQuorums: the height a timed-out seq locked
    net,            \* gossip not yet delivered to each hub
    sent,           \* history: every message ever broadcast
    log,            \* history: what each hub applied, in order
    budget,         \* the faults that may still happen
    restarted,      \* history: hubs that went down and came back
    writeFailed     \* history: hubs that had an apply fail

vars == <<seq, view, lastApplied, dbSeq, pending, timers, locking, inflight,
          earlyVotes, earlyOrder, vcKeys, vcHeight, net, sent, log, budget,
          restarted, writeFailed>>

Seqs == 1..MaxSeq
Views == 0..MaxView

Ballot == [type : {"PRE_PREPARE", "PREPARE", "COMMIT"}, from : Hubs,
           seq : Seqs, view : Views, config : Configs, height : Heights]

Notice == [type : {"VIEW_CHANGE", "NEW_VIEW"}, from : Hubs,
           seq : Seqs, view : Views, config : {NoConfig}, height : {NoHeight}]

Message == Ballot \cup Notice

Round == [config : Configs, view : Views, height : Heights, leader : BOOLEAN,
          prepares : SUBSET Hubs, commits : SUBSET Hubs,
          commitSent : BOOLEAN, applying : BOOLEAN]

Timer == [seq : Seqs, height : Heights, leader : BOOLEAN]

Apply == [seq : Seqs, config : Configs, height : Heights, leader : BOOLEAN,
          step : {"applyConfig", "saveSeq"}]

LogEntry == [seq : 0..MaxSeq, config : Configs, height : Heights]

ASSUME RoundAssumption == NoRound \notin Round

-----------------------------------------------------------------------------
(***************************************************************************)
(* Rotation and quorum of the snapshot at a height.                        *)
(***************************************************************************)

Members(ht) == Pubkeys(Snapshot[ht])

\* The member keys in hex order.
Rotation == [ht \in Heights |-> SelectSeq(KeyOrder, LAMBDA k : k \in Members(ht))]

At(rotation, s, v) == rotation[((s + v) % Len(rotation)) + 1]

leaderAt(s, v, ht) == At(Rotation[ht], s, v)

\* A snapshot of two or more members needs a round; getQuorum is 0 below that.
NeedsRound(ht) == getQuorum(Snapshot[ht]) > 0

\* normalizeValidators: a weight the indexer left out is zero.
normalizeValidators(snapshot) ==
    [snapshot EXCEPT !.validators =
        [i \in DOMAIN @ |-> [@[i] EXCEPT !.weight = IF @ = Blank THEN 0 ELSE @]]]

StakeQuorum(ht, signers) == meetsStakeThreshold(normalizeValidators(Snapshot[ht]), signers)

\* The sets of signers that decide a round locked at a height.  In count mode
\* every key that signed counts, a member's or not.
Quorums ==
    [ht \in Heights |-> {signers \in SUBSET Hubs :
        IF Weighted[ht] THEN StakeQuorum(ht, signers)
                        ELSE Cardinality(signers) >= getQuorum(Snapshot[ht])}]

\* Mutant: a lone signature is enough.
MutAnyVote(ht, signers) == signers # {}

quorumMet(ht, signers) == signers \in Quorums[ht]

-----------------------------------------------------------------------------
(***************************************************************************)
(* Messages.                                                               *)
(***************************************************************************)

\* A vote binds (seq, view, height | digest): equivVote signs exactly these.
Vote(type, h, s, r) ==
    [type |-> type, from |-> h, seq |-> s, view |-> r.view,
     config |-> r.config, height |-> r.height]

ViewNotice(type, h, s, v) ==
    [type |-> type, from |-> h, seq |-> s, view |-> v,
     config |-> NoConfig, height |-> NoHeight]

\* Hub h consumes the messages of `in` and broadcasts those of `out`.
Exchange(h, in, out) ==
    /\ net' = [g \in Hubs |-> IF g = h THEN net[h] \ in ELSE net[g] \cup out]
    /\ sent' = sent \cup out

Receive(h, m, type) == m \in net[h] /\ m.type = type

Fault(kind) == budget[kind] > 0 /\ budget' = [budget EXCEPT ![kind] = @ - 1]

-----------------------------------------------------------------------------
Init ==
    /\ seq = [h \in Hubs |-> 0]
    /\ view = [h \in Hubs |-> 0]
    /\ lastApplied = [h \in Hubs |-> 0]
    /\ dbSeq = [h \in Hubs |-> 0]
    /\ pending = [h \in Hubs |-> [s \in Seqs |-> NoRound]]
    /\ timers = [h \in Hubs |-> {}]
    /\ locking = [h \in Hubs |-> {}]
    /\ inflight = [h \in Hubs |-> {}]
    /\ earlyVotes = [h \in Hubs |-> {}]
    /\ earlyOrder = [h \in Hubs |-> {}]
    /\ vcKeys = [h \in Hubs |-> [v \in Views |-> {}]]
    /\ vcHeight = [h \in Hubs |-> [s \in Seqs |-> NoHeight]]
    /\ net = [h \in Hubs |-> {}]
    /\ sent = {}
    /\ log = [h \in Hubs |-> <<>>]
    /\ budget \in Budgets
    /\ restarted = {}
    /\ writeFailed = {}

-----------------------------------------------------------------------------
(***************************************************************************)
(* Tallying a round: checkPrepareQuorum and checkCommitQuorum.             *)
(***************************************************************************)

NewRound(c, v, ht, lead) ==
    [config |-> c, view |-> v, height |-> ht, leader |-> lead,
     prepares |-> {}, commits |-> {}, commitSent |-> FALSE, applying |-> FALSE]

\* Mutant: the hub commits as soon as it has prepared.
MutEagerCommit(r, prepares) == ~r.commitSent

\* checkPrepareQuorum: a hub commits once, when its prepares reach quorum.
ReadyToCommit(r, prepares) == ~r.commitSent /\ quorumMet(r.height, prepares)

\* Mutant: the _applying latch is not looked at.
MutReapply(r, commits) == quorumMet(r.height, commits)

\* checkCommitQuorum: the _applying latch lets one apply run at a time.
ReadyToApply(r, commits) == ~r.applying /\ quorumMet(r.height, commits)

\* Round r after hub h adds votes to it.  New prepares trigger the prepare
\* check; new commits, h's own among them, trigger the commit check.
Tally(h, r, prepares, commits) ==
    LET p == r.prepares \cup prepares
        sends == prepares # {} /\ ReadyToCommit(r, p)
        added == commits \cup (IF sends THEN {h} ELSE {})
        c == r.commits \cup added
        applies == added # {} /\ ReadyToApply(r, c)
    IN  [round |-> [config |-> r.config, view |-> r.view, height |-> r.height,
                    leader |-> r.leader, prepares |-> p, commits |-> c,
                    commitSent |-> r.commitSent \/ sends,
                    applying |-> r.applying \/ applies],
         sends |-> sends, applies |-> applies]

\* The pending round of (h, s) becomes t.round; h consumes `in`, broadcasts `out`
\* and the COMMIT the tally calls for, and starts the apply it calls for.
Record(h, s, t, in, out) ==
    /\ pending' = [pending EXCEPT ![h][s] = t.round]
    /\ inflight' = [inflight EXCEPT ![h] = @ \cup
          IF t.applies
          THEN {[seq |-> s, config |-> t.round.config, height |-> t.round.height,
                 leader |-> t.round.leader, step |-> "applyConfig"]}
          ELSE {}]
    /\ Exchange(h, in, out \cup IF t.sends THEN {Vote("COMMIT", h, s, t.round)} ELSE {})

-----------------------------------------------------------------------------
(***************************************************************************)
(* propose: a client's config write on hub h, whose tip is ht.             *)
(***************************************************************************)

NextSeq(h) == Larger(seq[h], lastApplied[h]) + 1

\* The rotation, at the view the hub is in, elects the hub: open the round.
\* The view is reset to 0 before the PRE_PREPARE is stamped.
proposeAsLeader(h, c, ht) ==
    LET s == NextSeq(h)
        r == NewRound(c, 0, ht, TRUE)
    IN  /\ NeedsRound(ht)
        /\ s \in Seqs
        /\ leaderAt(s, view[h], ht) = h
        /\ seq' = [seq EXCEPT ![h] = s]
        /\ view' = [view EXCEPT ![h] = 0]
        /\ timers' = [timers EXCEPT ![h] = @ \cup {[seq |-> s, height |-> ht, leader |-> TRUE]}]
        /\ Record(h, s, Tally(h, r, {h}, {}), {}, {Vote("PRE_PREPARE", h, s, r)})
        /\ UNCHANGED <<lastApplied, dbSeq, locking, earlyVotes, earlyOrder,
                       vcKeys, vcHeight, log, budget, restarted, writeFailed>>

\* The rotation elects another hub: the slot is consumed, the client refused.
\* (Refusing the model's last slot would only end the hub's proposing.)
proposeRefused(h, ht) ==
    /\ NeedsRound(ht)
    /\ NextSeq(h) \in 1..(MaxSeq - 1)
    /\ leaderAt(NextSeq(h), view[h], ht) # h
    /\ seq' = [seq EXCEPT ![h] = NextSeq(h)]
    /\ UNCHANGED <<view, lastApplied, dbSeq, pending, timers, locking, inflight,
                   earlyVotes, earlyOrder, vcKeys, vcHeight, net, sent, log,
                   budget, restarted, writeFailed>>

\* A one-member snapshot: its member applies the config on its own.
proposeDirect(h, c, ht) ==
    /\ Members(ht) = {h}
    /\ Cardinality({i \in DOMAIN log[h] : log[h][i].seq = 0}) < MaxDirect
    /\ log' = [log EXCEPT ![h] = Append(@, [seq |-> 0, config |-> c, height |-> ht])]
    /\ UNCHANGED <<seq, view, lastApplied, dbSeq, pending, timers, locking, inflight,
                   earlyVotes, earlyOrder, vcKeys, vcHeight, net, sent, budget, restarted, writeFailed>>

-----------------------------------------------------------------------------
(***************************************************************************)
(* The early-vote buffer.                                                  *)
(***************************************************************************)

Early(h, s) == {m \in earlyVotes[h] : m.seq = s}

Buckets(h) == {m.seq : m \in earlyVotes[h]}

\* The order without the buckets that are gone.
OrderAmong(h, buckets) == earlyOrder[h] \cap (buckets \X buckets)

\* A vote for a round this hub has not opened waits for it.  pruneEarlyVotes first
\* drops the buckets past their TTL (`lapsed`) or already applied; at the bucket
\* limit the oldest bucket goes, at the per-bucket limit the vote does.
bufferEarlyVote(h, m, lapsed) ==
    LET alive == {s \in Buckets(h) \ lapsed : s > lastApplied[h]}
        evicted == {s \in alive : /\ m.seq \notin alive
                                  /\ Cardinality(alive) >= EarlyMaxSeqs
                                  /\ \A d \in alive : <<d, s>> \notin earlyOrder[h]}
        kept == alive \ evicted
        votes == {v \in earlyVotes[h] : v.seq \in kept}
        full == Cardinality({v \in votes : v.seq = m.seq}) >= EarlyMaxPerSeq
    IN  IF m.seq > lastApplied[h]
        THEN /\ earlyVotes' = [earlyVotes EXCEPT ![h] = votes \cup IF full THEN {} ELSE {m}]
             /\ earlyOrder' = [earlyOrder EXCEPT ![h] =
                    OrderAmong(h, kept) \cup ((kept \ {m.seq}) \X ({m.seq} \ alive))]
        ELSE UNCHANGED <<earlyVotes, earlyOrder>>

-----------------------------------------------------------------------------
(***************************************************************************)
(* handlePrePrepare.                                                       *)
(***************************************************************************)

Drop(h, m) ==
    /\ Exchange(h, {m}, {})
    /\ UNCHANGED <<seq, view, lastApplied, dbSeq, pending, timers, locking, inflight,
                   earlyVotes, earlyOrder, vcKeys, vcHeight, log, budget, restarted, writeFailed>>

\* Mutant: the buffered votes are thrown away with their bucket.
MutNoReplay(h, m, type) == {}

\* Mutant: buffered PREPAREs are replayed as COMMITs too.
MutReplayAsAny(h, m, type) == {v.from : v \in {e \in Early(h, m.seq) : e.config = m.config}}

\* replayEarlyVotes: the senders of the buffered votes for m's config.
Replayed(h, m, type) ==
    {v.from : v \in {e \in Early(h, m.seq) : e.type = type /\ e.config = m.config}}

\* castPrepare on round r: count the leader and this hub, PREPARE, replay.
castPrepare(h, m, r, in) ==
    /\ Record(h, m.seq,
              Tally(h, r, {m.from, h} \cup Replayed(h, m, "PREPARE"), Replayed(h, m, "COMMIT")),
              in, {Vote("PREPARE", h, m.seq, r)})
    /\ earlyVotes' = [earlyVotes EXCEPT ![h] = @ \ Early(h, m.seq)]
    /\ earlyOrder' = [earlyOrder EXCEPT ![h] = OrderAmong(h, Buckets(h) \ {m.seq})]

\* prePrepareAdmissible and, with no round open, the bound on the stamped height.
\* The snapshot is then awaited.
beginPrePrepare(h, m) ==
    /\ Receive(h, m, "PRE_PREPARE")
    /\ m.seq > lastApplied[h]
    /\ pending[h][m.seq] = NoRound
    /\ \E myTip \in Heights :
          myTip - m.height <= Tolerance /\ m.height - myTip <= Tolerance
    /\ locking' = [locking EXCEPT ![h] = @ \cup {m}]
    /\ Exchange(h, {m}, {})
    /\ UNCHANGED <<seq, view, lastApplied, dbSeq, pending, timers, inflight,
                   earlyVotes, earlyOrder, vcKeys, vcHeight, log, budget, restarted, writeFailed>>

\* leaderIdentityOk, at the seq and view the PRE_PREPARE claims.
leaderIdentityOk(m, ht) == leaderAt(m.seq, m.view, ht) = m.from

\* followerRoundQuorum: the guards on the locked snapshot.
followerRoundQuorum(h, m) ==
    /\ Members(m.height) # {}
    /\ NeedsRound(m.height) \/ h \in Members(m.height)
    /\ leaderIdentityOk(m, m.height)

\* The snapshot arrived: openFollowerRound replaces whatever round of that seq was
\* opened meanwhile.
openFollowerRound(h, m) ==
    /\ m \in locking[h]
    /\ followerRoundQuorum(h, m)
    /\ locking' = [locking EXCEPT ![h] = @ \ {m}]
    /\ timers' = [timers EXCEPT ![h] = @ \cup
                    {[seq |-> m.seq, height |-> m.height, leader |-> FALSE]}]
    /\ castPrepare(h, m, NewRound(m.config, m.view, m.height, FALSE), {})
    /\ UNCHANGED <<seq, view, lastApplied, dbSeq, vcKeys, vcHeight, log, budget,
                   restarted, writeFailed>>

\* The round's guards decline the PRE_PREPARE, or the snapshot never arrives.
declinePrePrepare(h, m) ==
    /\ m \in locking[h]
    /\ \/ ~followerRoundQuorum(h, m) /\ UNCHANGED budget
       \/ Fault("snapshot")
    /\ locking' = [locking EXCEPT ![h] = @ \ {m}]
    /\ UNCHANGED <<seq, view, lastApplied, dbSeq, pending, timers, inflight,
                   earlyVotes, earlyOrder, vcKeys, vcHeight, net, sent, log,
                   restarted, writeFailed>>

\* The round is open already: PREPARE again if leader and digest agree with it.
joinPrePrepare(h, m) ==
    /\ Receive(h, m, "PRE_PREPARE")
    /\ m.seq > lastApplied[h]
    /\ pending[h][m.seq] # NoRound
    /\ leaderIdentityOk(m, pending[h][m.seq].height)
    /\ pending[h][m.seq].config = m.config
    /\ castPrepare(h, m, pending[h][m.seq], {m})
    /\ UNCHANGED <<seq, view, lastApplied, dbSeq, timers, locking, vcKeys, vcHeight, log,
                   budget, restarted, writeFailed>>

\* Every other PRE_PREPARE is dropped.
dropPrePrepare(h, m) ==
    /\ Receive(h, m, "PRE_PREPARE")
    /\ \/ m.seq <= lastApplied[h]
       \/ /\ pending[h][m.seq] = NoRound
          /\ \E myTip \in Heights :
                myTip - m.height > Tolerance \/ m.height - myTip > Tolerance
       \/ /\ pending[h][m.seq] # NoRound
          /\ \/ ~leaderIdentityOk(m, pending[h][m.seq].height)
             \/ pending[h][m.seq].config # m.config
    /\ Drop(h, m)

-----------------------------------------------------------------------------
(***************************************************************************)
(* handlePrepare and handleCommit.                                         *)
(***************************************************************************)

\* No round yet: the vote is buffered.  Buckets past their TTL are a timeout.
bufferVote(h, m, lapsed) ==
    /\ m \in net[h] /\ m.type \in {"PREPARE", "COMMIT"}
    /\ pending[h][m.seq] = NoRound
    /\ bufferEarlyVote(h, m, lapsed)
    /\ Exchange(h, {m}, {})
    /\ IF lapsed = {} THEN UNCHANGED budget ELSE Fault("expiry")
    /\ UNCHANGED <<seq, view, lastApplied, dbSeq, pending, timers, locking, inflight,
                   vcKeys, vcHeight, log, restarted, writeFailed>>

\* A vote counts for the open round if it is for the round's digest.
VoteCounts(r, m) == r # NoRound /\ r.config = m.config

\* A vote for another digest than the open round's.
dropVote(h, m) ==
    /\ m \in net[h] /\ m.type \in {"PREPARE", "COMMIT"}
    /\ pending[h][m.seq] # NoRound
    /\ ~VoteCounts(pending[h][m.seq], m)
    /\ Drop(h, m)

handlePrepare(h, m) ==
    LET r == pending[h][m.seq]
    IN  /\ Receive(h, m, "PREPARE")
        /\ VoteCounts(r, m)
        /\ Record(h, m.seq, Tally(h, r, {m.from}, {}), {m}, {})
        /\ UNCHANGED <<seq, view, lastApplied, dbSeq, timers, locking, earlyVotes,
                       earlyOrder, vcKeys, vcHeight, log, budget, restarted, writeFailed>>

handleCommit(h, m) ==
    LET r == pending[h][m.seq]
    IN  /\ Receive(h, m, "COMMIT")
        /\ VoteCounts(r, m)
        /\ Record(h, m.seq, Tally(h, r, {}, {m.from}), {m}, {})
        /\ UNCHANGED <<seq, view, lastApplied, dbSeq, timers, locking, earlyVotes,
                       earlyOrder, vcKeys, vcHeight, log, budget, restarted, writeFailed>>

-----------------------------------------------------------------------------
(***************************************************************************)
(* The two awaited writes of an apply.  They belong to the round object    *)
(* that started them, which may have been timed out or replaced meanwhile. *)
(***************************************************************************)

\* hub.applyConfig succeeded; saveSeq is awaited next.
applyConfig(h, a) ==
    /\ a \in inflight[h] /\ a.step = "applyConfig"
    /\ inflight' = [inflight EXCEPT ![h] = (@ \ {a}) \cup {[a EXCEPT !.step = "saveSeq"]}]
    /\ log' = [log EXCEPT ![h] =
                  Append(@, [seq |-> a.seq, config |-> a.config, height |-> a.height])]
    /\ UNCHANGED <<seq, view, lastApplied, dbSeq, pending, timers, locking, earlyVotes,
                   earlyOrder, vcKeys, vcHeight, net, sent, budget, restarted, writeFailed>>

Disarm(h, a) ==
    timers' = [timers EXCEPT ![h] = {t \in @ : ~(a.leader /\ t.leader /\ t.seq = a.seq)}]

\* Mutant: lastAppliedSeq is taken for the next slot.
MutNextSlot(old, s) == Larger(old, s + 1)

\* lastAppliedSeq only ever moves forward.
Advance(old, s) == Larger(old, s)

\* Mutant: the seq is saved without waiting for the config.
MutSaveFirst(h, a) ==
    /\ a \in inflight[h]
    /\ inflight' = [inflight EXCEPT ![h] = @ \ {a}]
    /\ dbSeq' = [dbSeq EXCEPT ![h] = a.seq]
    /\ lastApplied' = [lastApplied EXCEPT ![h] = Advance(@, a.seq)]
    /\ pending' = [pending EXCEPT ![h][a.seq] = NoRound]
    /\ Disarm(h, a)
    /\ UNCHANGED <<seq, view, locking, earlyVotes, earlyOrder, vcKeys, vcHeight, net,
                   sent, log, budget, restarted, writeFailed>>

\* persistAppliedRound: saveSeq overwrote last_seq; whatever round the seq holds
\* is closed, and the leader's client answered.
persistAppliedRound(h, a) ==
    /\ a \in inflight[h] /\ a.step = "saveSeq"
    /\ inflight' = [inflight EXCEPT ![h] = @ \ {a}]
    /\ dbSeq' = [dbSeq EXCEPT ![h] = a.seq]
    /\ lastApplied' = [lastApplied EXCEPT ![h] = Advance(@, a.seq)]
    /\ pending' = [pending EXCEPT ![h][a.seq] = NoRound]
    /\ Disarm(h, a)
    /\ UNCHANGED <<seq, view, locking, earlyVotes, earlyOrder, vcKeys, vcHeight, net,
                   sent, log, budget, restarted, writeFailed>>

\* unlockFailedApply: a leader whose client still waits gives the round up; a
\* follower keeps it and tries again on the next COMMIT.
unlockFailedApply(h, a) ==
    LET r == pending[h][a.seq]
        waiting == a.leader /\ \E t \in timers[h] : t.leader /\ t.seq = a.seq
    IN  /\ a \in inflight[h]
        /\ Fault("write")
        /\ inflight' = [inflight EXCEPT ![h] = @ \ {a}]
        /\ Disarm(h, a)
        /\ pending' = [pending EXCEPT ![h][a.seq] =
              IF waiting THEN NoRound
              ELSE IF r # NoRound /\ r.config = a.config /\ r.leader = a.leader
                   THEN [r EXCEPT !.applying = FALSE]
                   ELSE r]
        /\ writeFailed' = writeFailed \cup {h}
        /\ UNCHANGED <<seq, view, lastApplied, dbSeq, locking, earlyVotes, earlyOrder,
                       vcKeys, vcHeight, net, sent, log, restarted>>

-----------------------------------------------------------------------------
(***************************************************************************)
(* Timeouts and view change.                                               *)
(***************************************************************************)

\* A follower's round timer: the seq's round is forgotten, whichever it is.
expireFollowerRound(h, t) ==
    /\ t \in timers[h] /\ ~t.leader
    /\ Fault("expiry")
    /\ timers' = [timers EXCEPT ![h] = @ \ {t}]
    /\ pending' = [pending EXCEPT ![h][t.seq] = NoRound]
    /\ UNCHANGED <<seq, view, lastApplied, dbSeq, locking, inflight, earlyVotes,
                   earlyOrder, vcKeys, vcHeight, net, sent, log, restarted, writeFailed>>

\* The leader's round timer: give the round up and initiateViewChange.  The
\* initiator tallies its own key only in weighted mode.
initiateViewChange(h, t) ==
    LET v == view[h] + 1
    IN  /\ t \in timers[h] /\ t.leader
        /\ Fault("timeout")
        /\ v \in Views
        /\ timers' = [timers EXCEPT ![h] = @ \ {t}]
        /\ pending' = [pending EXCEPT ![h][t.seq] = NoRound]
        /\ view' = [view EXCEPT ![h] = v]
        /\ vcHeight' = [vcHeight EXCEPT ![h] = [s \in Seqs |->
              IF s = t.seq THEN t.height
              ELSE IF s <= lastApplied[h] THEN NoHeight ELSE @[s]]]
        /\ vcKeys' = [vcKeys EXCEPT ![h][v] = @ \cup IF Weighted[t.height] THEN {h} ELSE {}]
        /\ Exchange(h, {}, {ViewNotice("VIEW_CHANGE", h, t.seq, v)})
        /\ UNCHANGED <<seq, lastApplied, dbSeq, locking, inflight, earlyVotes, earlyOrder,
                       log, restarted, writeFailed>>

\* viewChangeContext and memberPubkeysForSeq: the height a seq was locked at.
LockedHeight(h, s) ==
    IF pending[h][s] # NoRound THEN pending[h][s].height ELSE vcHeight[h][s]

ViewInRange(h, v) == view[h] <= v /\ v <= view[h] + MaxViewSkew

\* A VIEW_CHANGE short of quorum: tallied under its view, whatever its seq.
tallyViewChange(h, m) ==
    LET ht == LockedHeight(h, m.seq)
    IN  /\ Receive(h, m, "VIEW_CHANGE")
        /\ ViewInRange(h, m.view)
        /\ ht # NoHeight
        /\ ~quorumMet(ht, vcKeys[h][m.view] \cup {m.from})
        /\ vcKeys' = [vcKeys EXCEPT ![h][m.view] = @ \cup {m.from}]
        /\ Exchange(h, {m}, {})
        /\ UNCHANGED <<seq, view, lastApplied, dbSeq, pending, timers, locking, inflight,
                       earlyVotes, earlyOrder, vcHeight, log, budget, restarted, writeFailed>>

\* acceptViewChange: adopt the view, announce it as its leader, forget the tallies
\* it passed.
acceptViewChange(h, m) ==
    LET ht == LockedHeight(h, m.seq)
    IN  /\ Receive(h, m, "VIEW_CHANGE")
        /\ ViewInRange(h, m.view)
        /\ ht # NoHeight
        /\ quorumMet(ht, vcKeys[h][m.view] \cup {m.from})
        /\ view' = [view EXCEPT ![h] = m.view]
        /\ vcKeys' = [vcKeys EXCEPT ![h] =
                         [v \in Views |-> IF v <= m.view THEN {} ELSE @[v]]]
        /\ vcHeight' = [vcHeight EXCEPT ![h][m.seq] = NoHeight]
        /\ Exchange(h, {m}, IF leaderAt(m.seq, m.view, ht) = h
                            THEN {ViewNotice("NEW_VIEW", h, m.seq, m.view)} ELSE {})
        /\ UNCHANGED <<seq, lastApplied, dbSeq, pending, timers, locking, inflight,
                       earlyVotes, earlyOrder, log, budget, restarted, writeFailed>>

\* Out of range, or for a seq this hub never locked: not tallied.
dropViewChange(h, m) ==
    /\ Receive(h, m, "VIEW_CHANGE")
    /\ ~ViewInRange(h, m.view) \/ LockedHeight(h, m.seq) = NoHeight
    /\ Drop(h, m)

\* The rotation a NEW_VIEW is checked against.
Announcer(h, m) ==
    LET ht == LockedHeight(h, m.seq)
    IN  IF ht # NoHeight THEN leaderAt(m.seq, m.view, ht) ELSE At(LiveSet, m.seq, m.view)

NewViewOk(h, m) == m.view > view[h] /\ Announcer(h, m) = m.from

handleNewView(h, m) ==
    /\ Receive(h, m, "NEW_VIEW")
    /\ NewViewOk(h, m)
    /\ view' = [view EXCEPT ![h] = m.view]
    /\ Exchange(h, {m}, {})
    /\ UNCHANGED <<seq, lastApplied, dbSeq, pending, timers, locking, inflight,
                   earlyVotes, earlyOrder, vcKeys, vcHeight, log, budget, restarted, writeFailed>>

dropNewView(h, m) ==
    /\ Receive(h, m, "NEW_VIEW")
    /\ ~NewViewOk(h, m)
    /\ Drop(h, m)

-----------------------------------------------------------------------------
\* The process dies and comes back: loadSeq reads last_seq, the rest is lost.
restart(h) ==
    /\ Fault("crash")
    /\ restarted' = restarted \cup {h}
    /\ seq' = [seq EXCEPT ![h] = dbSeq[h]]
    /\ lastApplied' = [lastApplied EXCEPT ![h] = dbSeq[h]]
    /\ view' = [view EXCEPT ![h] = 0]
    /\ pending' = [pending EXCEPT ![h] = [s \in Seqs |-> NoRound]]
    /\ timers' = [timers EXCEPT ![h] = {}]
    /\ locking' = [locking EXCEPT ![h] = {}]
    /\ inflight' = [inflight EXCEPT ![h] = {}]
    /\ earlyVotes' = [earlyVotes EXCEPT ![h] = {}]
    /\ earlyOrder' = [earlyOrder EXCEPT ![h] = {}]
    /\ vcKeys' = [vcKeys EXCEPT ![h] = [v \in Views |-> {}]]
    /\ vcHeight' = [vcHeight EXCEPT ![h] = [s \in Seqs |-> NoHeight]]
    /\ UNCHANGED <<dbSeq, net, sent, log, writeFailed>>

propose(h) ==
    \E ht \in Heights :
        \/ \E c \in Submits[h] : proposeAsLeader(h, c, ht) \/ proposeDirect(h, c, ht)
        \/ proposeRefused(h, ht)

\* handleMessage.
handleMessage(h, m) ==
    \/ beginPrePrepare(h, m) \/ joinPrePrepare(h, m) \/ dropPrePrepare(h, m)
    \/ bufferVote(h, m, {}) \/ dropVote(h, m)
    \/ handlePrepare(h, m) \/ handleCommit(h, m)
    \/ tallyViewChange(h, m) \/ acceptViewChange(h, m) \/ dropViewChange(h, m)
    \/ handleNewView(h, m) \/ dropNewView(h, m)

\* A vote is buffered while older buckets are past their TTL.
bufferPastTtl(h) ==
    \E m \in net[h] : \E lapsed \in SUBSET {e.seq : e \in earlyVotes[h]} :
        lapsed # {} /\ m.seq > lastApplied[h] /\ bufferVote(h, m, lapsed)

Next ==
    \E h \in Hubs :
        \/ propose(h)
        \/ \E m \in net[h] : handleMessage(h, m)
        \/ bufferPastTtl(h)
        \/ \E m \in locking[h] : openFollowerRound(h, m) \/ declinePrePrepare(h, m)
        \/ \E a \in inflight[h] :
              applyConfig(h, a) \/ persistAppliedRound(h, a) \/ unlockFailedApply(h, a)
        \/ \E t \in timers[h] : expireFollowerRound(h, t) \/ initiateViewChange(h, t)
        \/ restart(h)

Spec == Init /\ [][Next]_vars

-----------------------------------------------------------------------------
(***************************************************************************)
(* Properties.                                                             *)
(***************************************************************************)

\* Every variable keeps its shape.
TypeOK ==
    /\ seq \in [Hubs -> 0..MaxSeq]
    /\ view \in [Hubs -> Views]
    /\ lastApplied \in [Hubs -> 0..MaxSeq]
    /\ dbSeq \in [Hubs -> 0..MaxSeq]
    /\ pending \in [Hubs -> [Seqs -> Round \cup {NoRound}]]
    /\ timers \in [Hubs -> SUBSET Timer]
    /\ locking \in [Hubs -> SUBSET Ballot]
    /\ inflight \in [Hubs -> SUBSET Apply]
    /\ earlyVotes \in [Hubs -> SUBSET Ballot]
    /\ earlyOrder \in [Hubs -> SUBSET (Seqs \X Seqs)]
    /\ vcKeys \in [Hubs -> [Views -> SUBSET Hubs]]
    /\ vcHeight \in [Hubs -> [Seqs -> Heights \cup {NoHeight}]]
    /\ net \in [Hubs -> SUBSET Message]
    /\ sent \in SUBSET Message
    /\ log \in [Hubs -> Seq(LogEntry)]
    /\ budget \in [FaultKinds -> Nat]
    /\ restarted \in SUBSET Hubs
    /\ writeFailed \in SUBSET Hubs

\* No two hubs ever apply different configs under one sequence number, as long as
\* no hub has restarted: through lost and reordered votes, timeouts, view changes,
\* rounds replaced while their snapshot was awaited and failed writes
\* (pbft.js: every hub agrees on a config before it applies it).
Agreement ==
    restarted = {} =>
        \A g, h \in Hubs : \A i \in DOMAIN log[g], j \in DOMAIN log[h] :
            log[g][i].seq = log[h][j].seq /\ log[g][i].seq # 0
            => log[g][i].config = log[h][j].config

\* The membership of the heights that need a round does not drift: one rotation.
OneRotation ==
    \A ht1, ht2 \in Heights :
        NeedsRound(ht1) /\ NeedsRound(ht2) => Rotation[ht1] = Rotation[ht2]

\* No single hub holds a stake quorum where more than one is needed.
NoLoneStakeQuorum ==
    \A ht \in Heights : NeedsRound(ht) /\ Weighted[ht] =>
        \A h \in Hubs : ~StakeQuorum(ht, {h})

Signers(types, s, c) ==
    {h \in Hubs : \E m \in sent : m.type \in types /\ m.from = h /\ m.seq = s /\ m.config = c}

HasQuorum(ht, signers) == \E voters \in SUBSET signers : quorumMet(ht, voters)

\* A hub applies a config only once a quorum of the snapshot its round locked has
\* committed it, and commits it only once a quorum has proposed or prepared it: a
\* vote that was buffered, replayed, counted across a restart or counted for a
\* round since replaced never stands in for one that was not cast (votes.js).
ActsOnCertificates ==
    [][/\ \A h \in Hubs : log'[h] # log[h] =>
             LET e == log'[h][Len(log'[h])]
             IN  e.seq # 0 => HasQuorum(e.height, Signers({"COMMIT"}, e.seq, e.config))
       /\ \A m \in sent' \ sent : m.type = "COMMIT" =>
             HasQuorum(m.height, Signers({"PRE_PREPARE", "PREPARE"}, m.seq, m.config)')
      ]_vars

\* A hub writes the config of a sequence number once, even when COMMITs keep
\* arriving while its writes are awaited, or its timer fires under them
\* (the _applying latch of votes.js); only a failed write is tried again.  The latch
\* belongs to a round object, so this is for hubs that submit different configs.
AppliedOnce ==
    restarted = {} =>
        \A h \in Hubs \ writeFailed : \A i, j \in DOMAIN log[h] :
            log[h][i].seq = log[h][j].seq /\ log[h][i].seq # 0 => i = j

AppliedSeqs(h) == {log[h][i].seq : i \in DOMAIN log[h]}

\* The sequence number a hub has on record, in last_seq and in memory, is one whose
\* config it wrote, though applies finish out of order, last_seq is overwritten
\* backwards and the hub restarts from it; and unless one of its writes failed or it
\* restarted, a config it wrote is on record or its saveSeq is still awaited
\* (votes.js persistAppliedRound: "If the seq write is lost, the config rows and
\* last_seq diverge").
RecordFollowsConfig ==
    \A h \in Hubs :
        /\ {dbSeq[h], lastApplied[h]} \ {0} \subseteq AppliedSeqs(h)
        /\ h \notin writeFailed \cup restarted =>
              \A s \in AppliedSeqs(h) :
                  s <= lastApplied[h] \/ \E a \in inflight[h] : a.step = "saveSeq" /\ a.seq = s

-----------------------------------------------------------------------------
(***************************************************************************)
(* Liveness: gossip delivers, the indexer answers and the writes succeed.  *)
(***************************************************************************)

Fairness ==
    \A h \in Hubs :
        /\ WF_vars(\E m \in net[h] : handleMessage(h, m))
        /\ WF_vars(\E m \in locking[h] :
                      openFollowerRound(h, m) \/ (declinePrePrepare(h, m) /\ UNCHANGED budget))
        /\ WF_vars(\E a \in inflight[h] : applyConfig(h, a) \/ persistAppliedRound(h, a))

FairSpec == Spec /\ Fairness

\* With no fault, a proposed sequence number is eventually behind every hub,
\* whatever order PRE_PREPAREs, PREPAREs and COMMITs reach it in: votes that
\* overtake their PRE_PREPARE are buffered and replayed.
RoundsFinish ==
    \A s \in Seqs :
        (\E m \in sent : m.type = "PRE_PREPARE" /\ m.seq = s)
        ~> (\A h \in Hubs : lastApplied[h] >= s)

-----------------------------------------------------------------------------
(***************************************************************************)
(* What the repository says of the engine and its code does not do.        *)
(***************************************************************************)

\* "Ensures all hub instances agree on config state before applying changes"
\* (pbft.js): hubs that applied the same sequence numbers hold the same config.
SameConfigState ==
    \A g, h \in Hubs :
        AppliedSeqs(g) = AppliedSeqs(h) /\ AppliedSeqs(g) # {}
        => log[g][Len(log[g])].config = log[h][Len(log[h])].config

\* "deterministic per-sequence leader with view change on timeout" (README): when
\* a leader's round times out, its slot is applied after all or another hub
\* eventually follows the leader into the view it moved to.
ViewChangeCompletes ==
    \A v \in 1..MaxView : \A s \in Seqs :
        (\E m \in sent : m.type = "VIEW_CHANGE" /\ m.view = v /\ m.seq = s)
        ~> \/ \E h \in Hubs : lastApplied[h] >= s
           \/ \E g, h \in Hubs : g # h /\ view[g] >= v /\ view[h] >= v
=============================================================================
