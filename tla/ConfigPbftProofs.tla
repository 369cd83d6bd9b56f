-------------------------- MODULE ConfigPbftProofs --------------------------
(***************************************************************************)
(* Theorems about ConfigPbft, for every number of hubs, every snapshot and *)
(* every bound.                                                            *)
(***************************************************************************)
EXTENDS ConfigPbft, FiniteSetTheorems, TLAPS

-----------------------------------------------------------------------------
(***************************************************************************)
(* Types.                                                                  *)
(***************************************************************************)

\* What a tally returns: the same round with more votes.
LEMMA TallyIsARound ==
    ASSUME NEW h \in Hubs, NEW r \in Round,
           NEW P \in SUBSET Hubs, NEW C \in SUBSET Hubs
    PROVE  LET t == Tally(h, r, P, C)
           IN  /\ t.round \in Round
               /\ t.sends \in BOOLEAN /\ t.applies \in BOOLEAN
               /\ t.round.config = r.config /\ t.round.view = r.view
               /\ t.round.height = r.height /\ t.round.leader = r.leader
<1> DEFINE p == r.prepares \cup P
           sends == P # {} /\ ReadyToCommit(r, p)
           added == C \cup (IF sends THEN {h} ELSE {})
           c == r.commits \cup added
           applies == added # {} /\ ReadyToApply(r, c)
<1>1. p \in SUBSET Hubs /\ c \in SUBSET Hubs
  BY DEF Round
<1>2. sends \in BOOLEAN /\ applies \in BOOLEAN
  OBVIOUS
<1>3. Tally(h, r, P, C) =
        [round |-> [config |-> r.config, view |-> r.view, height |-> r.height,
                    leader |-> r.leader, prepares |-> p, commits |-> c,
                    commitSent |-> r.commitSent \/ sends,
                    applying |-> r.applying \/ applies],
         sends |-> sends, applies |-> applies]
  BY Zenon DEF Tally
<1> HIDE DEF p, sends, added, c, applies
<1>4. QED
  BY <1>1, <1>2, <1>3 DEF Round

\* A fresh round is well formed.
LEMMA NewRoundIsARound ==
    ASSUME NEW c \in Configs, NEW v \in Views, NEW ht \in Heights, NEW lead \in BOOLEAN
    PROVE  NewRound(c, v, ht, lead) \in Round
  BY DEF NewRound, Round

\* A vote a hub signs for its round is a ballot.
LEMMA VoteIsAMessage ==
    ASSUME NEW type \in {"PRE_PREPARE", "PREPARE", "COMMIT"}, NEW h \in Hubs,
           NEW s \in Seqs, NEW r \in Round
    PROVE  Vote(type, h, s, r) \in Ballot /\ Vote(type, h, s, r) \in Message
  BY DEF Vote, Ballot, Message, Round

\* Broadcasting messages keeps gossip well typed.
LEMMA ExchangeType ==
    ASSUME net \in [Hubs -> SUBSET Message], sent \in SUBSET Message,
           NEW h \in Hubs, NEW in, NEW out \in SUBSET Message, Exchange(h, in, out)
    PROVE  net' \in [Hubs -> SUBSET Message] /\ sent' \in SUBSET Message
  BY DEF Exchange

\* Recording a tally keeps rounds, applies and gossip well typed (votes.js).
LEMMA RecordType ==
    ASSUME TypeOK, NEW h \in Hubs, NEW s \in Seqs, NEW r \in Round,
           NEW P \in SUBSET Hubs, NEW C \in SUBSET Hubs,
           NEW in, NEW out \in SUBSET Message,
           Record(h, s, Tally(h, r, P, C), in, out)
    PROVE  /\ pending' \in [Hubs -> [Seqs -> Round \cup {NoRound}]]
           /\ inflight' \in [Hubs -> SUBSET Apply]
           /\ net' \in [Hubs -> SUBSET Message]
           /\ sent' \in SUBSET Message
<1> DEFINE t == Tally(h, r, P, C)
<1>1. t.round \in Round /\ t.sends \in BOOLEAN /\ t.applies \in BOOLEAN
  BY TallyIsARound
<1>2. pending' \in [Hubs -> [Seqs -> Round \cup {NoRound}]]
  BY <1>1 DEF Record, TypeOK
<1>3. inflight' \in [Hubs -> SUBSET Apply]
  <2> DEFINE new == [seq |-> s, config |-> t.round.config, height |-> t.round.height,
                     leader |-> t.round.leader, step |-> "applyConfig"]
  <2>1. new \in Apply
    BY <1>1 DEF Apply, Round
  <2> HIDE DEF new
  <2>2. inflight' = [inflight EXCEPT ![h] = @ \cup IF t.applies THEN {new} ELSE {}]
    BY DEF Record, new
  <2> HIDE DEF t
  <2>3. QED
    BY <2>1, <2>2 DEF TypeOK
<1>4. Vote("COMMIT", h, s, t.round) \in Message
  BY <1>1, VoteIsAMessage
<1> DEFINE all == out \cup IF t.sends THEN {Vote("COMMIT", h, s, t.round)} ELSE {}
<1>5. all \in SUBSET Message
  BY <1>4
<1>6. Exchange(h, in, all)
  BY DEF Record
<1> HIDE DEF all
<1>7. QED
  BY <1>2, <1>3, <1>5, <1>6, ExchangeType DEF TypeOK

\* The fields of a message, and of a ballot.
LEMMA MessageFields ==
    ASSUME NEW m \in Message
    PROVE  /\ m.from \in Hubs /\ m.seq \in Seqs /\ m.view \in Views
           /\ m.type \in {"PRE_PREPARE", "PREPARE", "COMMIT"} => m \in Ballot
           /\ m \in Ballot => m.config \in Configs /\ m.height \in Heights
  BY DEF Ballot, Notice, Message

\* What a hub's inbox, buffer and timers hold.
LEMMA HeldMessages ==
    ASSUME TypeOK, NEW h \in Hubs
    PROVE  /\ \A m \in net[h] : m \in Message
           /\ \A m \in locking[h] : m \in Ballot /\ m \in Message
           /\ \A m \in earlyVotes[h] : m \in Ballot /\ m \in Message
           /\ \A t \in timers[h] : t \in Timer
           /\ \A a \in inflight[h] : a \in Apply
  BY DEF TypeOK, Message

\* Spending from the fault budget keeps it well typed.
LEMMA FaultType ==
    ASSUME budget \in [FaultKinds -> Nat], NEW kind \in FaultKinds, Fault(kind)
    PROVE  budget' \in [FaultKinds -> Nat]
  BY DEF Fault

\* A message that is dropped leaves the types alone.
LEMMA DropType ==
    ASSUME TypeOK, NEW h \in Hubs, NEW m \in net[h], Drop(h, m)
    PROVE  TypeOK'
<1>1. net' \in [Hubs -> SUBSET Message] /\ sent' \in SUBSET Message
  BY ExchangeType DEF Drop, TypeOK
<1>2. QED
  BY <1>1 DEF Drop, TypeOK

\* propose, refused, led or applied directly, keeps the types (propose.js).
LEMMA ProposeType ==
    ASSUME TypeOK, NEW h \in Hubs, propose(h)
    PROVE  TypeOK'
<1>1. PICK ht \in Heights :
        \/ \E c \in Submits[h] : proposeAsLeader(h, c, ht) \/ proposeDirect(h, c, ht)
        \/ proposeRefused(h, ht)
  BY DEF propose
<1>2. \A c \in Submits[h] : c \in Configs
  BY DataAssumption
<1>3. ASSUME NEW c \in Configs, proposeAsLeader(h, c, ht)
      PROVE  TypeOK'
  <2> DEFINE s == NextSeq(h)
             r == NewRound(c, 0, ht, TRUE)
  <2>1. s \in Seqs /\ s \in 0..MaxSeq /\ 0 \in Views
    BY <1>3, BoundsAssumption DEF proposeAsLeader, Seqs, Views
  <2>2. r \in Round
    BY <2>1, NewRoundIsARound
  <2>3. {Vote("PRE_PREPARE", h, s, r)} \in SUBSET Message
    BY <2>1, <2>2, VoteIsAMessage
  <2> HIDE DEF s, r
  <2>4. Record(h, s, Tally(h, r, {h}, {}), {}, {Vote("PRE_PREPARE", h, s, r)})
    BY <1>3 DEF proposeAsLeader, s, r
  <2>5. /\ pending' \in [Hubs -> [Seqs -> Round \cup {NoRound}]]
        /\ inflight' \in [Hubs -> SUBSET Apply]
        /\ net' \in [Hubs -> SUBSET Message]
        /\ sent' \in SUBSET Message
    BY <2>1, <2>2, <2>3, <2>4, RecordType
  <2>6. timers' \in [Hubs -> SUBSET Timer]
    <3> DEFINE new == [seq |-> s, height |-> ht, leader |-> TRUE]
    <3>1. new \in Timer
      BY <2>1 DEF Timer
    <3>2. timers' = [timers EXCEPT ![h] = @ \cup {new}]
      BY <1>3 DEF proposeAsLeader, s
    <3> HIDE DEF new
    <3>3. QED
      BY <3>1, <3>2 DEF TypeOK
  <2>7. seq' \in [Hubs -> 0..MaxSeq] /\ view' \in [Hubs -> Views]
    BY <1>3, <2>1 DEF proposeAsLeader, TypeOK, s
  <2>8. QED
    BY <1>3, <2>5, <2>6, <2>7 DEF proposeAsLeader, TypeOK
<1>4. ASSUME NEW c \in Configs, proposeDirect(h, c, ht)
      PROVE  TypeOK'
  <2>1. [seq |-> 0, config |-> c, height |-> ht] \in LogEntry
    BY BoundsAssumption DEF LogEntry
  <2>2. log' \in [Hubs -> Seq(LogEntry)]
    BY <1>4, <2>1 DEF proposeDirect, TypeOK
  <2>3. QED
    BY <1>4, <2>2 DEF proposeDirect, TypeOK
<1>5. ASSUME proposeRefused(h, ht)
      PROVE  TypeOK'
  <2>1. NextSeq(h) \in 0..MaxSeq
    BY <1>5, BoundsAssumption DEF proposeRefused
  <2>2. QED
    BY <1>5, <2>1 DEF proposeRefused, TypeOK
<1>6. QED
  BY <1>1, <1>2, <1>3, <1>4, <1>5

\* What castPrepare writes is well typed (pre_prepare.js).
LEMMA CastPrepareType ==
    ASSUME TypeOK, NEW h \in Hubs, NEW m \in Message, NEW r \in Round, NEW in,
           castPrepare(h, m, r, in)
    PROVE  /\ pending' \in [Hubs -> [Seqs -> Round \cup {NoRound}]]
           /\ inflight' \in [Hubs -> SUBSET Apply]
           /\ net' \in [Hubs -> SUBSET Message]
           /\ sent' \in SUBSET Message
           /\ earlyVotes' \in [Hubs -> SUBSET Ballot]
           /\ earlyOrder' \in [Hubs -> SUBSET (Seqs \X Seqs)]
<1> DEFINE P == {m.from, h} \cup Replayed(h, m, "PREPARE")
           C == Replayed(h, m, "COMMIT")
<1>1. P \in SUBSET Hubs /\ C \in SUBSET Hubs
  BY HeldMessages, MessageFields DEF Replayed, Early
<1>2. {Vote("PREPARE", h, m.seq, r)} \in SUBSET Message
  BY MessageFields, VoteIsAMessage
<1> HIDE DEF P, C
<1>3. Record(h, m.seq, Tally(h, r, P, C), in, {Vote("PREPARE", h, m.seq, r)})
  BY DEF castPrepare, P, C
<1>4. /\ earlyVotes' \in [Hubs -> SUBSET Ballot]
      /\ earlyOrder' \in [Hubs -> SUBSET (Seqs \X Seqs)]
  BY DEF castPrepare, TypeOK, OrderAmong
<1>5. QED
  BY <1>1, <1>2, <1>3, <1>4, MessageFields, RecordType

\* A PRE_PREPARE that is awaited, joined or dropped keeps the types.
LEMMA PrePrepareType ==
    ASSUME TypeOK, NEW h \in Hubs, NEW m \in net[h],
           beginPrePrepare(h, m) \/ joinPrePrepare(h, m) \/ dropPrePrepare(h, m)
    PROVE  TypeOK'
<1>1. m \in Message
  BY HeldMessages
<1>2. CASE beginPrePrepare(h, m)
  <2>1. net' \in [Hubs -> SUBSET Message] /\ sent' \in SUBSET Message
    BY <1>2, ExchangeType DEF beginPrePrepare, TypeOK
  <2>2. locking' \in [Hubs -> SUBSET Ballot]
    BY <1>1, <1>2, MessageFields DEF beginPrePrepare, Receive, TypeOK
  <2>3. QED
    BY <1>2, <2>1, <2>2 DEF beginPrePrepare, TypeOK
<1>3. CASE joinPrePrepare(h, m)
  <2>1. pending[h][m.seq] \in Round
    BY <1>1, <1>3, MessageFields DEF joinPrePrepare, TypeOK
  <2>2. castPrepare(h, m, pending[h][m.seq], {m})
    BY <1>3 DEF joinPrePrepare
  <2>3. /\ pending' \in [Hubs -> [Seqs -> Round \cup {NoRound}]]
        /\ inflight' \in [Hubs -> SUBSET Apply]
        /\ net' \in [Hubs -> SUBSET Message]
        /\ sent' \in SUBSET Message
        /\ earlyVotes' \in [Hubs -> SUBSET Ballot]
        /\ earlyOrder' \in [Hubs -> SUBSET (Seqs \X Seqs)]
    BY <1>1, <2>1, <2>2, CastPrepareType
  <2>4. QED
    BY <1>3, <2>3 DEF joinPrePrepare, TypeOK
<1>4. CASE dropPrePrepare(h, m)
  BY <1>4, DropType DEF dropPrePrepare
<1>5. QED
  BY <1>2, <1>3, <1>4

\* A PRE_PREPARE whose snapshot was answered keeps the types.
LEMMA LockingType ==
    ASSUME TypeOK, NEW h \in Hubs, NEW m \in locking[h],
           openFollowerRound(h, m) \/ declinePrePrepare(h, m)
    PROVE  TypeOK'
<1>1. m \in Message /\ m.config \in Configs /\ m.height \in Heights
  BY HeldMessages, MessageFields
<1>2. CASE openFollowerRound(h, m)
  <2> DEFINE r == NewRound(m.config, m.view, m.height, FALSE)
             t == [seq |-> m.seq, height |-> m.height, leader |-> FALSE]
  <2>1. r \in Round
    BY <1>1, MessageFields, NewRoundIsARound
  <2>2. t \in Timer
    BY <1>1, MessageFields DEF Timer
  <2>3. castPrepare(h, m, r, {}) /\ timers' = [timers EXCEPT ![h] = @ \cup {t}]
    BY <1>2 DEF openFollowerRound
  <2> HIDE DEF r, t
  <2>4. /\ pending' \in [Hubs -> [Seqs -> Round \cup {NoRound}]]
        /\ inflight' \in [Hubs -> SUBSET Apply]
        /\ net' \in [Hubs -> SUBSET Message]
        /\ sent' \in SUBSET Message
        /\ earlyVotes' \in [Hubs -> SUBSET Ballot]
        /\ earlyOrder' \in [Hubs -> SUBSET (Seqs \X Seqs)]
    BY <1>1, <2>1, <2>3, CastPrepareType
  <2>5. timers' \in [Hubs -> SUBSET Timer]
    BY <2>2, <2>3 DEF TypeOK
  <2>6. locking' \in [Hubs -> SUBSET Ballot]
    BY <1>2 DEF openFollowerRound, TypeOK
  <2>7. QED
    BY <1>2, <2>4, <2>5, <2>6 DEF openFollowerRound, TypeOK
<1>3. CASE declinePrePrepare(h, m)
  <2>1. budget' \in [FaultKinds -> Nat]
    BY <1>3, FaultType DEF declinePrePrepare, FaultKinds, TypeOK
  <2>2. locking' \in [Hubs -> SUBSET Ballot]
    BY <1>3 DEF declinePrePrepare, TypeOK
  <2>3. QED
    BY <1>3, <2>1, <2>2 DEF declinePrePrepare, TypeOK
<1>4. QED
  BY <1>2, <1>3

\* The early-vote buffer holds ballots, in an order of slots (votes.js).
LEMMA BufferType ==
    ASSUME TypeOK, NEW h \in Hubs, NEW m \in Ballot, m.seq \in Seqs,
           Buckets(h) \in SUBSET Seqs,
           NEW lapsed, bufferEarlyVote(h, m, lapsed)
    PROVE  /\ earlyVotes' \in [Hubs -> SUBSET Ballot]
           /\ earlyOrder' \in [Hubs -> SUBSET (Seqs \X Seqs)]
<1> DEFINE alive == {s \in Buckets(h) \ lapsed : s > lastApplied[h]}
           evicted == {s \in alive : /\ m.seq \notin alive
                                     /\ Cardinality(alive) >= EarlyMaxSeqs
                                     /\ \A d \in alive : <<d, s>> \notin earlyOrder[h]}
           kept == alive \ evicted
           votes == {v \in earlyVotes[h] : v.seq \in kept}
           full == Cardinality({v \in votes : v.seq = m.seq}) >= EarlyMaxPerSeq
           newVotes == votes \cup IF full THEN {} ELSE {m}
           newOrder == OrderAmong(h, kept) \cup ((kept \ {m.seq}) \X ({m.seq} \ alive))
<1>1. newVotes \in SUBSET Ballot
  BY DEF TypeOK
<1>2. newOrder \in SUBSET (Seqs \X Seqs)
  <2>1. kept \in SUBSET Seqs
    OBVIOUS
  <2>2. OrderAmong(h, kept) \in SUBSET (Seqs \X Seqs)
    BY DEF OrderAmong, TypeOK
  <2>3. QED
    BY <2>1, <2>2
<1>3. \/ /\ earlyVotes' = [earlyVotes EXCEPT ![h] = newVotes]
         /\ earlyOrder' = [earlyOrder EXCEPT ![h] = newOrder]
      \/ UNCHANGED <<earlyVotes, earlyOrder>>
  BY Zenon DEF bufferEarlyVote
<1> HIDE DEF newVotes, newOrder
<1>4. QED
  BY <1>1, <1>2, <1>3 DEF TypeOK

\* A vote that is buffered, counted or dropped keeps the types (votes.js).
LEMMA VoteType ==
    ASSUME TypeOK, NEW h \in Hubs, NEW m \in net[h],
           \/ dropVote(h, m) \/ handlePrepare(h, m) \/ handleCommit(h, m)
           \/ \E lapsed \in SUBSET Seqs : bufferVote(h, m, lapsed)
    PROVE  TypeOK'
<1>1. /\ m \in Message /\ m.seq \in Seqs
      /\ {m.from} \in SUBSET Hubs /\ {} \in SUBSET Hubs /\ {} \in SUBSET Message
  BY HeldMessages, MessageFields
<1>2. CASE dropVote(h, m)
  BY <1>2, DropType DEF dropVote
<1>3. CASE handlePrepare(h, m)
  <2> DEFINE r == pending[h][m.seq]
  <2>1. r \in Round
    BY <1>1, <1>3 DEF handlePrepare, VoteCounts, TypeOK
  <2>2. Record(h, m.seq, Tally(h, r, {m.from}, {}), {m}, {})
    BY <1>3 DEF handlePrepare
  <2> HIDE DEF r
  <2>3. /\ pending' \in [Hubs -> [Seqs -> Round \cup {NoRound}]]
        /\ inflight' \in [Hubs -> SUBSET Apply]
        /\ net' \in [Hubs -> SUBSET Message]
        /\ sent' \in SUBSET Message
    BY <1>1, <2>1, <2>2, RecordType
  <2>4. QED
    BY <1>3, <2>3 DEF handlePrepare, TypeOK
<1>4. CASE handleCommit(h, m)
  <2> DEFINE r == pending[h][m.seq]
  <2>1. r \in Round
    BY <1>1, <1>4 DEF handleCommit, VoteCounts, TypeOK
  <2>2. Record(h, m.seq, Tally(h, r, {}, {m.from}), {m}, {})
    BY <1>4 DEF handleCommit
  <2> HIDE DEF r
  <2>3. /\ pending' \in [Hubs -> [Seqs -> Round \cup {NoRound}]]
        /\ inflight' \in [Hubs -> SUBSET Apply]
        /\ net' \in [Hubs -> SUBSET Message]
        /\ sent' \in SUBSET Message
    BY <1>1, <2>1, <2>2, RecordType
  <2>4. QED
    BY <1>4, <2>3 DEF handleCommit, TypeOK
<1>5. ASSUME NEW lapsed \in SUBSET Seqs, bufferVote(h, m, lapsed)
      PROVE  TypeOK'
  <2>1. net' \in [Hubs -> SUBSET Message] /\ sent' \in SUBSET Message
    BY <1>5, ExchangeType DEF bufferVote, TypeOK
  <2>2. budget' \in [FaultKinds -> Nat]
    BY <1>5, FaultType DEF bufferVote, FaultKinds, TypeOK
  <2>3. Buckets(h) \in SUBSET Seqs
    BY HeldMessages, MessageFields DEF Buckets
  <2>4. m \in Ballot
    BY <1>1, <1>5, MessageFields DEF bufferVote
  <2>5. bufferEarlyVote(h, m, lapsed)
    BY <1>5 DEF bufferVote
  <2>6. /\ earlyVotes' \in [Hubs -> SUBSET Ballot]
        /\ earlyOrder' \in [Hubs -> SUBSET (Seqs \X Seqs)]
    BY <1>1, <2>3, <2>4, <2>5, BufferType
  <2>7. QED
    BY <1>5, <2>1, <2>2, <2>6 DEF bufferVote, TypeOK
<1>6. QED
  BY <1>2, <1>3, <1>4, <1>5

\* The two writes of an apply, and their failure, keep the types (votes.js).
LEMMA ApplyType ==
    ASSUME TypeOK, NEW h \in Hubs, NEW a \in inflight[h],
           applyConfig(h, a) \/ persistAppliedRound(h, a) \/ unlockFailedApply(h, a)
    PROVE  TypeOK'
<1>1. a \in Apply /\ a.seq \in Seqs /\ a.seq \in 0..MaxSeq
      /\ a.config \in Configs /\ a.height \in Heights
  BY HeldMessages, BoundsAssumption DEF Apply, Seqs
<1>2. CASE applyConfig(h, a)
  <2> DEFINE b == [a EXCEPT !.step = "saveSeq"]
             e == [seq |-> a.seq, config |-> a.config, height |-> a.height]
  <2>1. b \in Apply /\ e \in LogEntry
    BY <1>1 DEF Apply, LogEntry
  <2>2. /\ inflight' = [inflight EXCEPT ![h] = (@ \ {a}) \cup {b}]
        /\ log' = [log EXCEPT ![h] = Append(@, e)]
    BY <1>2 DEF applyConfig
  <2> HIDE DEF b, e
  <2>3. inflight' \in [Hubs -> SUBSET Apply]
    BY <2>1, <2>2 DEF TypeOK
  <2>4. log' \in [Hubs -> Seq(LogEntry)]
    BY <2>1, <2>2 DEF TypeOK
  <2>5. QED
    BY <1>2, <2>3, <2>4 DEF applyConfig, TypeOK
<1>3. CASE persistAppliedRound(h, a)
  <2>1. inflight' \in [Hubs -> SUBSET Apply] /\ timers' \in [Hubs -> SUBSET Timer]
    BY <1>3 DEF persistAppliedRound, Disarm, TypeOK
  <2>2. dbSeq' \in [Hubs -> 0..MaxSeq] /\ lastApplied' \in [Hubs -> 0..MaxSeq]
    BY <1>1, <1>3 DEF persistAppliedRound, Advance, Larger, TypeOK
  <2>3. pending' \in [Hubs -> [Seqs -> Round \cup {NoRound}]]
    BY <1>1, <1>3 DEF persistAppliedRound, TypeOK
  <2>4. QED
    BY <1>3, <2>1, <2>2, <2>3 DEF persistAppliedRound, TypeOK
<1>4. CASE unlockFailedApply(h, a)
  <2> DEFINE r == pending[h][a.seq]
             waiting == a.leader /\ \E t \in timers[h] : t.leader /\ t.seq = a.seq
             q == IF waiting THEN NoRound
                  ELSE IF r # NoRound /\ r.config = a.config /\ r.leader = a.leader
                       THEN [r EXCEPT !.applying = FALSE]
                       ELSE r
  <2>1. inflight' \in [Hubs -> SUBSET Apply] /\ timers' \in [Hubs -> SUBSET Timer]
    BY <1>4 DEF unlockFailedApply, Disarm, TypeOK
  <2>2. budget' \in [FaultKinds -> Nat]
    BY <1>4, FaultType DEF unlockFailedApply, FaultKinds, TypeOK
  <2>3. q \in Round \cup {NoRound}
    <3>1. r \in Round \cup {NoRound}
      BY <1>1 DEF TypeOK
    <3>2. r \in Round => [r EXCEPT !.applying = FALSE] \in Round
      BY DEF Round
    <3>3. QED
      BY <3>1, <3>2
  <2>4. pending' = [pending EXCEPT ![h][a.seq] = q]
    BY <1>4 DEF unlockFailedApply
  <2> HIDE DEF q
  <2>5. pending' \in [Hubs -> [Seqs -> Round \cup {NoRound}]]
    BY <1>1, <2>3, <2>4 DEF TypeOK
  <2>6. writeFailed' \in SUBSET Hubs
    BY <1>4 DEF unlockFailedApply, TypeOK
  <2>7. QED
    BY <1>4, <2>1, <2>2, <2>5, <2>6 DEF unlockFailedApply, TypeOK
<1>5. QED
  BY <1>2, <1>3, <1>4

\* Round timers keep the types (pre_prepare.js, propose.js).
LEMMA TimerType ==
    ASSUME TypeOK, NEW h \in Hubs, NEW t \in timers[h],
           expireFollowerRound(h, t) \/ initiateViewChange(h, t)
    PROVE  TypeOK'
<1>1. t.seq \in Seqs /\ t.height \in Heights
  BY HeldMessages DEF Timer
<1>2. CASE expireFollowerRound(h, t)
  <2>1. budget' \in [FaultKinds -> Nat]
    BY <1>2, FaultType DEF expireFollowerRound, FaultKinds, TypeOK
  <2>2. timers' \in [Hubs -> SUBSET Timer]
    BY <1>2 DEF expireFollowerRound, TypeOK
  <2>3. pending' \in [Hubs -> [Seqs -> Round \cup {NoRound}]]
    BY <1>1, <1>2 DEF expireFollowerRound, TypeOK
  <2>4. QED
    BY <1>2, <2>1, <2>2, <2>3 DEF expireFollowerRound, TypeOK
<1>3. CASE initiateViewChange(h, t)
  <2> DEFINE v == view[h] + 1
             n == ViewNotice("VIEW_CHANGE", h, t.seq, v)
  <2>1. budget' \in [FaultKinds -> Nat]
    BY <1>3, FaultType DEF initiateViewChange, FaultKinds, TypeOK
  <2>2. timers' \in [Hubs -> SUBSET Timer]
    BY <1>3 DEF initiateViewChange, TypeOK
  <2>3. pending' \in [Hubs -> [Seqs -> Round \cup {NoRound}]]
    BY <1>1, <1>3 DEF initiateViewChange, TypeOK
  <2>4. v \in Views
    BY <1>3 DEF initiateViewChange
  <2>5. {n} \in SUBSET Message
    BY <1>1, <2>4 DEF ViewNotice, Notice, Message
  <2> HIDE DEF v, n
  <2>6. Exchange(h, {}, {n})
    BY <1>3 DEF initiateViewChange, v, n
  <2>7. net' \in [Hubs -> SUBSET Message] /\ sent' \in SUBSET Message
    BY <2>5, <2>6, ExchangeType DEF TypeOK
  <2>8. view' \in [Hubs -> Views]
    BY <1>3, <2>4 DEF initiateViewChange, TypeOK, v
  <2>9. vcHeight' \in [Hubs -> [Seqs -> Heights \cup {NoHeight}]]
    BY <1>1, <1>3 DEF initiateViewChange, TypeOK
  <2>10. vcKeys' \in [Hubs -> [Views -> SUBSET Hubs]]
    BY <1>3, <2>4 DEF initiateViewChange, TypeOK, v
  <2>11. QED
    BY <1>3, <2>1, <2>2, <2>3, <2>7, <2>8, <2>9, <2>10 DEF initiateViewChange, TypeOK
<1>4. QED
  BY <1>2, <1>3

\* VIEW_CHANGE and NEW_VIEW keep the types (view_change.js).
LEMMA ViewChangeType ==
    ASSUME TypeOK, NEW h \in Hubs, NEW m \in net[h],
           \/ tallyViewChange(h, m) \/ acceptViewChange(h, m) \/ dropViewChange(h, m)
           \/ handleNewView(h, m) \/ dropNewView(h, m)
    PROVE  TypeOK'
<1>1. /\ m.from \in Hubs /\ m.seq \in Seqs /\ m.view \in Views
      /\ {} \in SUBSET Message
  BY HeldMessages, MessageFields
<1>2. CASE tallyViewChange(h, m)
  <2>1. net' \in [Hubs -> SUBSET Message] /\ sent' \in SUBSET Message
    BY <1>1, <1>2, ExchangeType DEF tallyViewChange, TypeOK
  <2>2. vcKeys' \in [Hubs -> [Views -> SUBSET Hubs]]
    BY <1>1, <1>2 DEF tallyViewChange, TypeOK
  <2>3. QED
    BY <1>2, <2>1, <2>2 DEF tallyViewChange, TypeOK
<1>3. CASE acceptViewChange(h, m)
  <2> DEFINE n == ViewNotice("NEW_VIEW", h, m.seq, m.view)
             out == IF leaderAt(m.seq, m.view, LockedHeight(h, m.seq)) = h THEN {n} ELSE {}
  <2>1. out \in SUBSET Message
    BY <1>1 DEF ViewNotice, Notice, Message
  <2>2. Exchange(h, {m}, out)
    BY <1>3 DEF acceptViewChange
  <2> HIDE DEF out
  <2>3. net' \in [Hubs -> SUBSET Message] /\ sent' \in SUBSET Message
    BY <2>1, <2>2, ExchangeType DEF TypeOK
  <2>4. view' \in [Hubs -> Views]
    BY <1>1, <1>3 DEF acceptViewChange, TypeOK
  <2>5. vcKeys' \in [Hubs -> [Views -> SUBSET Hubs]]
    BY <1>3 DEF acceptViewChange, TypeOK
  <2>6. vcHeight' \in [Hubs -> [Seqs -> Heights \cup {NoHeight}]]
    BY <1>1, <1>3 DEF acceptViewChange, TypeOK
  <2>7. QED
    BY <1>3, <2>3, <2>4, <2>5, <2>6 DEF acceptViewChange, TypeOK
<1>4. CASE handleNewView(h, m)
  <2>1. net' \in [Hubs -> SUBSET Message] /\ sent' \in SUBSET Message
    BY <1>1, <1>4, ExchangeType DEF handleNewView, TypeOK
  <2>2. view' \in [Hubs -> Views]
    BY <1>1, <1>4 DEF handleNewView, TypeOK
  <2>3. QED
    BY <1>4, <2>1, <2>2 DEF handleNewView, TypeOK
<1>5. CASE dropViewChange(h, m) \/ dropNewView(h, m)
  BY <1>5, DropType DEF dropViewChange, dropNewView
<1>6. QED
  BY <1>2, <1>3, <1>4, <1>5

\* A restart keeps the types (pbft.js).
LEMMA RestartType ==
    ASSUME TypeOK, NEW h \in Hubs, restart(h)
    PROVE  TypeOK'
<1>1. budget' \in [FaultKinds -> Nat]
  BY FaultType DEF restart, FaultKinds, TypeOK
<1>2. seq' \in [Hubs -> 0..MaxSeq] /\ lastApplied' \in [Hubs -> 0..MaxSeq]
      /\ view' \in [Hubs -> Views]
  BY BoundsAssumption DEF restart, TypeOK, Views
<1>3. /\ pending' \in [Hubs -> [Seqs -> Round \cup {NoRound}]]
      /\ vcKeys' \in [Hubs -> [Views -> SUBSET Hubs]]
      /\ vcHeight' \in [Hubs -> [Seqs -> Heights \cup {NoHeight}]]
  BY DEF restart, TypeOK
<1>4. /\ timers' \in [Hubs -> SUBSET Timer]
      /\ locking' \in [Hubs -> SUBSET Ballot]
      /\ inflight' \in [Hubs -> SUBSET Apply]
      /\ earlyVotes' \in [Hubs -> SUBSET Ballot]
      /\ earlyOrder' \in [Hubs -> SUBSET (Seqs \X Seqs)]
  BY DEF restart, TypeOK
<1>5. QED
  BY <1>1, <1>2, <1>3, <1>4 DEF restart, TypeOK

\* Every step of every hub keeps the types.
LEMMA TypeStep == TypeOK /\ [Next]_vars => TypeOK'
<1> SUFFICES ASSUME TypeOK, [Next]_vars PROVE TypeOK'
  OBVIOUS
<1>1. CASE UNCHANGED vars
  BY <1>1 DEF vars, TypeOK
<1>2. CASE Next
  <2>1. PICK h \in Hubs :
          \/ propose(h)
          \/ \E m \in net[h] : handleMessage(h, m)
          \/ bufferPastTtl(h)
          \/ \E m \in locking[h] : openFollowerRound(h, m) \/ declinePrePrepare(h, m)
          \/ \E a \in inflight[h] :
                applyConfig(h, a) \/ persistAppliedRound(h, a) \/ unlockFailedApply(h, a)
          \/ \E t \in timers[h] : expireFollowerRound(h, t) \/ initiateViewChange(h, t)
          \/ restart(h)
    BY <1>2 DEF Next
  <2>2. ASSUME NEW m \in net[h], handleMessage(h, m)
        PROVE  TypeOK'
    <3>1. {} \in SUBSET Seqs
      OBVIOUS
    <3>2. QED
      BY <2>2, <3>1, PrePrepareType, VoteType, ViewChangeType DEF handleMessage
  <2>3. CASE bufferPastTtl(h)
    <3>1. PICK m \in net[h] : \E lapsed \in SUBSET {e.seq : e \in earlyVotes[h]} :
                                  bufferVote(h, m, lapsed)
      BY <2>3 DEF bufferPastTtl
    <3>2. {e.seq : e \in earlyVotes[h]} \in SUBSET Seqs
      BY HeldMessages, MessageFields
    <3>3. QED
      BY <3>1, <3>2, VoteType
  <2>4. QED
    BY <2>1, <2>2, <2>3, ProposeType, LockingType, ApplyType, TimerType, RestartType
<1>3. QED
  BY <1>1, <1>2

\* Every variable keeps its shape in every behaviour, for every set of hubs,
\* snapshots and bounds: the last slot of every counter is respected and only a
\* PRE_PREPARE ever waits for a snapshot (all of consensus/pbft).
THEOREM TypeCorrect == Spec => []TypeOK
<1>1. Init => TypeOK
  BY BoundsAssumption DEF Init, TypeOK, Views
<1>2. QED
  BY <1>1, TypeStep, PTL DEF Spec

-----------------------------------------------------------------------------
(***************************************************************************)
(* Agreement.                                                              *)
(*                                                                         *)
(* A sequence number has one legitimate config: the one its rotation's     *)
(* leader at view 0 proposed.  A vote, an apply and a log entry are only   *)
(* ever about a legitimate config, and a hub proposes once per sequence    *)
(* number because its counter only grows while it does not restart.        *)
(***************************************************************************)

\* The rotation's leader proposed c for s.
Legit(s, c) ==
    \E m \in sent : /\ m.type = "PRE_PREPARE" /\ m.seq = s /\ m.config = c
                    /\ m.from = leaderAt(s, m.view, m.height)

Ballots == {"PREPARE", "COMMIT"}

ProposalsOwned ==
    \A m \in sent : m.type = "PRE_PREPARE" =>
        m.view = 0 /\ m.seq <= seq[m.from] /\ m.height \in Heights /\ NeedsRound(m.height)

OneConfigPerProposer ==
    \A m, n \in sent :
        /\ m.type = "PRE_PREPARE" /\ n.type = "PRE_PREPARE"
        /\ m.from = n.from /\ m.seq = n.seq
        => m.config = n.config

VotesLegit == \A m \in sent : m.type \in Ballots => Legit(m.seq, m.config)

NetSent == \A h \in Hubs : net[h] \subseteq sent

LockingSent ==
    \A h \in Hubs : \A m \in locking[h] : m \in sent /\ m.type = "PRE_PREPARE"

RoundsNeeded ==
    \A h \in Hubs : \A s \in Seqs : pending[h][s] # NoRound => NeedsRound(pending[h][s].height)

AppliesLegit == \A h \in Hubs : \A a \in inflight[h] : Legit(a.seq, a.config)

LogLegit ==
    \A h \in Hubs : \A i \in DOMAIN log[h] : log[h][i].seq # 0 => Legit(log[h][i].seq, log[h][i].config)

\* The inductive invariant, while no hub has restarted.
AgreementInv ==
    /\ ProposalsOwned /\ OneConfigPerProposer /\ VotesLegit
    /\ NetSent /\ LockingSent
    /\ RoundsNeeded /\ AppliesLegit /\ LogLegit

\* A counted quorum of two or more members has at least two signers
\* (lib/bft_quorum.js), so with NoLoneStakeQuorum no round is decided by one hub.
LEMMA OneSignerIsNoQuorum ==
    ASSUME NoLoneStakeQuorum, NEW h \in Hubs, NEW ht \in Heights, NeedsRound(ht)
    PROVE  ~quorumMet(ht, {h})
<1>1. CASE Weighted[ht]
  BY <1>1 DEF NoLoneStakeQuorum, quorumMet, Quorums
<1>2. CASE ~Weighted[ht]
  <2> DEFINE n == Len(Snapshot[ht].validators)
  <2>1. n \in Nat
    BY DataAssumption
  <2>2. getQuorum(Snapshot[ht]) >= 2
    <3>1. n > 1 /\ getQuorum(Snapshot[ht]) = bftQuorum(n)
      BY <2>1 DEF NeedsRound, getQuorum, bftQuorumOrSingle
    <3> HIDE DEF n
    <3>2. (n + 2) \div 2 >= 2 /\ (n + 2) \div 2 \in Int
      BY <2>1, <3>1
    <3>3. 2 * ((n - 1) \div 3) + 1 \in Int
      BY <2>1
    <3>4. QED
      BY <3>1, <3>2, <3>3 DEF bftQuorum, Larger
  <2>3. Cardinality({h}) = 1
    BY FS_Singleton
  <2>4. getQuorum(Snapshot[ht]) \in Int
    BY <2>1 DEF getQuorum, bftQuorumOrSingle, bftQuorum, Larger
  <2>5. ~(1 >= getQuorum(Snapshot[ht]))
    BY <2>2, <2>4
  <2>6. QED
    BY <1>2, <2>3, <2>5 DEF quorumMet, Quorums
<1>3. QED
  BY <1>1, <1>2

\* The leader of a slot is the same at every height that needs a round.
LEMMA SameLeader ==
    ASSUME OneRotation, NEW ht1 \in Heights, NEW ht2 \in Heights,
           NeedsRound(ht1), NeedsRound(ht2), NEW s, NEW v
    PROVE  leaderAt(s, v, ht1) = leaderAt(s, v, ht2)
  BY DEF OneRotation, leaderAt

\* A sequence number has at most one legitimate config.
LEMMA LegitUnique ==
    ASSUME OneRotation, ProposalsOwned, OneConfigPerProposer,
           NEW s, NEW c, NEW d, Legit(s, c), Legit(s, d)
    PROVE  c = d
<1>1. PICK m \in sent : /\ m.type = "PRE_PREPARE" /\ m.seq = s /\ m.config = c
                        /\ m.from = leaderAt(s, m.view, m.height)
  BY DEF Legit
<1>2. PICK n \in sent : /\ n.type = "PRE_PREPARE" /\ n.seq = s /\ n.config = d
                        /\ n.from = leaderAt(s, n.view, n.height)
  BY DEF Legit
<1>3. /\ m.view = 0 /\ m.height \in Heights /\ NeedsRound(m.height)
      /\ n.view = 0 /\ n.height \in Heights /\ NeedsRound(n.height)
  BY <1>1, <1>2 DEF ProposalsOwned
<1>4. m.from = n.from
  BY <1>1, <1>2, <1>3, SameLeader
<1>5. QED
  BY <1>1, <1>2, <1>4 DEF OneConfigPerProposer

\* Sending more keeps what was legitimate.
LEMMA LegitStays ==
    ASSUME sent \subseteq sent', NEW s, NEW c, Legit(s, c)
    PROVE  Legit(s, c)'
  BY DEF Legit, leaderAt

\* Sending legitimate votes, and no proposal, keeps the facts about messages.
LEMMA SendVotes ==
    ASSUME TypeOK, ProposalsOwned, OneConfigPerProposer, VotesLegit,
           NEW out, sent' = sent \cup out,
           \A g \in Hubs : seq[g] <= seq'[g],
           \A g \in Hubs : seq'[g] \in Nat,
           \A m \in out : m.type # "PRE_PREPARE",
           \A m \in out : m.type \in Ballots => Legit(m.seq, m.config)
    PROVE  ProposalsOwned' /\ OneConfigPerProposer' /\ VotesLegit'
<1>1. ProposalsOwned'
  <2> SUFFICES ASSUME NEW m \in sent', m.type = "PRE_PREPARE"
               PROVE  m.view = 0 /\ m.seq <= seq'[m.from] /\ m.height \in Heights /\ NeedsRound(m.height)
    BY DEF ProposalsOwned, NeedsRound
  <2>1. m \in sent /\ m \in Message
    BY DEF TypeOK
  <2>2. m.from \in Hubs /\ m.seq \in Seqs
    BY <2>1, MessageFields
  <2>3. m.seq <= seq[m.from] /\ seq[m.from] <= seq'[m.from] /\ seq[m.from] \in Nat /\ seq'[m.from] \in Nat
    BY <2>1, <2>2, BoundsAssumption DEF ProposalsOwned, TypeOK
  <2>4. m.seq \in Nat
    BY <2>2, BoundsAssumption DEF Seqs
  <2>5. QED
    BY <2>1, <2>3, <2>4 DEF ProposalsOwned
<1>2. OneConfigPerProposer'
  BY DEF OneConfigPerProposer
<1>3. VotesLegit'
  BY LegitStays DEF VotesLegit
<1>4. QED
  BY <1>1, <1>2, <1>3

\* What gossip holds was sent.
LEMMA ExchangeSent ==
    ASSUME NetSent, NEW h \in Hubs, NEW in, NEW out, Exchange(h, in, out)
    PROVE  NetSent' /\ sent' = sent \cup out
  BY DEF NetSent, Exchange

\* Messages and gossip, when a hub consumes `in` and broadcasts legitimate votes
\* and view notices `out`.
LEMMA ExchangeVotes ==
    ASSUME TypeOK, AgreementInv, NEW h \in Hubs, NEW in, NEW out, Exchange(h, in, out),
           seq' = seq,
           \A m \in out : m.type # "PRE_PREPARE",
           \A m \in out : m.type \in Ballots => Legit(m.seq, m.config)
    PROVE  /\ ProposalsOwned' /\ OneConfigPerProposer' /\ VotesLegit' /\ NetSent'
           /\ sent \subseteq sent'
<1>1. NetSent' /\ sent' = sent \cup out
  BY ExchangeSent DEF AgreementInv
<1>2. \A g \in Hubs : seq[g] <= seq'[g] /\ seq'[g] \in Nat
  BY BoundsAssumption DEF TypeOK
<1>3. ProposalsOwned' /\ OneConfigPerProposer' /\ VotesLegit'
  BY <1>1, <1>2, SendVotes DEF AgreementInv
<1>4. QED
  BY <1>1, <1>3

\* The parts of the invariant about applies and log entries survive a step that
\* leaves them alone.
LEMMA AppliesStay ==
    ASSUME sent \subseteq sent', AppliesLegit, inflight' = inflight
    PROVE  AppliesLegit'
  BY LegitStays DEF AppliesLegit

\* What was applied stays legitimate as more is sent.
LEMMA LogStays ==
    ASSUME sent \subseteq sent', LogLegit, log' = log
    PROVE  LogLegit'
  BY LegitStays DEF LogLegit

\* Applying a legitimate config keeps the log legitimate.
LEMMA LogAppended ==
    ASSUME TypeOK, LogLegit, sent \subseteq sent', NEW h \in Hubs, NEW e,
           log' = [log EXCEPT ![h] = Append(@, e)],
           e.seq # 0 => Legit(e.seq, e.config)
    PROVE  LogLegit'
<1> SUFFICES ASSUME NEW g \in Hubs, NEW i \in DOMAIN log'[g], log'[g][i].seq # 0
             PROVE  \E m \in sent' :
                       /\ m.type = "PRE_PREPARE"
                       /\ m.seq = log'[g][i].seq /\ m.config = log'[g][i].config
                       /\ m.from = leaderAt(log'[g][i].seq, m.view, m.height)
  BY DEF LogLegit, Legit, leaderAt
<1>1. \/ i \in DOMAIN log[g] /\ log'[g][i] = log[g][i]
      \/ log'[g][i] = e
  BY DEF TypeOK
<1>2. CASE i \in DOMAIN log[g] /\ log'[g][i] = log[g][i]
  BY <1>2 DEF LogLegit, Legit
<1>3. CASE log'[g][i] = e
  BY <1>3 DEF Legit
<1>4. QED
  BY <1>1, <1>2, <1>3

\* An awaited PRE_PREPARE stays one that was sent.
LEMMA LockingStays ==
    ASSUME sent \subseteq sent', LockingSent, TypeOK,
           \A g \in Hubs : locking'[g] \subseteq locking[g]
    PROVE  LockingSent'
  BY DEF LockingSent

\* Tallying votes on a round of a legitimate config.
LEMMA RecordInv ==
    ASSUME TypeOK, AgreementInv, NEW h \in Hubs, NEW s \in Seqs, NEW r \in Round,
           NEW P \in SUBSET Hubs, NEW C \in SUBSET Hubs, NEW in, NEW out,
           NeedsRound(r.height), Legit(s, r.config), seq' = seq,
           \A m \in out : m.type = "PREPARE" /\ m.seq = s /\ m.config = r.config,
           Record(h, s, Tally(h, r, P, C), in, out)
    PROVE  /\ ProposalsOwned' /\ OneConfigPerProposer' /\ VotesLegit' /\ NetSent'
           /\ RoundsNeeded' /\ AppliesLegit' /\ sent \subseteq sent'
<1> DEFINE t == Tally(h, r, P, C)
           commit == Vote("COMMIT", h, s, t.round)
           all == out \cup IF t.sends THEN {commit} ELSE {}
<1>1. t.round \in Round /\ t.round.config = r.config /\ t.round.height = r.height
  BY TallyIsARound
<1>2. Exchange(h, in, all)
  BY DEF Record
<1>3. commit.type = "COMMIT" /\ commit.seq = s /\ commit.config = r.config
  BY <1>1 DEF Vote
<1>4. \A m \in all : m.type # "PRE_PREPARE" /\ Legit(m.seq, m.config)
  <2> HIDE DEF commit, t
  <2>1. QED
    BY <1>3
<1> HIDE DEF all
<1>5. /\ ProposalsOwned' /\ OneConfigPerProposer' /\ VotesLegit' /\ NetSent'
      /\ sent \subseteq sent'
  BY <1>2, <1>4, ExchangeVotes
<1>6. RoundsNeeded'
  <2>1. pending' = [pending EXCEPT ![h][s] = t.round]
    BY DEF Record
  <2> HIDE DEF t
  <2>2. QED
    BY <1>1, <2>1 DEF AgreementInv, RoundsNeeded, TypeOK, NeedsRound
<1>7. AppliesLegit'
  <2> DEFINE new == [seq |-> s, config |-> t.round.config, height |-> t.round.height,
                     leader |-> t.round.leader, step |-> "applyConfig"]
  <2>1. inflight' = [inflight EXCEPT ![h] = @ \cup IF t.applies THEN {new} ELSE {}]
    BY DEF Record
  <2>2. new.seq = s /\ new.config = r.config
    BY <1>1
  <2> HIDE DEF new, t
  <2>3. \A g \in Hubs : \A a \in inflight'[g] : Legit(a.seq, a.config)
    BY <2>1, <2>2 DEF AgreementInv, AppliesLegit, TypeOK
  <2>4. QED
    BY <1>5, <2>3, LegitStays DEF AppliesLegit
<1>8. QED
  BY <1>5, <1>6, <1>7

\* castPrepare for a legitimate config keeps AgreementInv (pre_prepare.js).
LEMMA CastPrepareInv ==
    ASSUME TypeOK, AgreementInv, NEW h \in Hubs, NEW m \in Message, NEW r \in Round, NEW in,
           NeedsRound(r.height), r.config = m.config, Legit(m.seq, m.config), seq' = seq,
           castPrepare(h, m, r, in)
    PROVE  /\ ProposalsOwned' /\ OneConfigPerProposer' /\ VotesLegit' /\ NetSent'
           /\ RoundsNeeded' /\ AppliesLegit' /\ sent \subseteq sent'
<1> DEFINE P == {m.from, h} \cup Replayed(h, m, "PREPARE")
           C == Replayed(h, m, "COMMIT")
           prepare == Vote("PREPARE", h, m.seq, r)
           out == {prepare}
<1>1. P \in SUBSET Hubs /\ C \in SUBSET Hubs /\ m.seq \in Seqs
  BY HeldMessages, MessageFields DEF Replayed, Early
<1>2. prepare.type = "PREPARE" /\ prepare.seq = m.seq /\ prepare.config = r.config
  BY DEF Vote
<1> HIDE DEF P, C, prepare
<1>3. Record(h, m.seq, Tally(h, r, P, C), in, out)
  BY DEF castPrepare, P, C, prepare
<1>4. \A n \in out : n.type = "PREPARE" /\ n.seq = m.seq /\ n.config = r.config
  BY <1>2
<1>5. Legit(m.seq, r.config)
  OBVIOUS
<1> HIDE DEF out
<1>6. QED
  BY <1>1, <1>3, <1>4, <1>5, RecordInv, Zenon

\* A message that is dropped keeps AgreementInv.
LEMMA DropInv ==
    ASSUME TypeOK, AgreementInv, NEW h \in Hubs, NEW m \in net[h], Drop(h, m)
    PROVE  AgreementInv'
<1>1. Exchange(h, {m}, {}) /\ seq' = seq /\ inflight' = inflight /\ log' = log
      /\ pending' = pending /\ locking' = locking
  BY DEF Drop
<1>2. /\ ProposalsOwned' /\ OneConfigPerProposer' /\ VotesLegit' /\ NetSent'
      /\ sent \subseteq sent'
  BY <1>1, ExchangeVotes
<1>3. RoundsNeeded' /\ LockingSent' /\ AppliesLegit' /\ LogLegit'
  BY <1>1, <1>2, AppliesStay, LogStays, LockingStays DEF AgreementInv, RoundsNeeded, NeedsRound
<1>4. QED
  BY <1>2, <1>3 DEF AgreementInv

\* Hub h opens the round q of slot s with the proposal pp, and no more.
ProposedAs(h, c, ht, s, q, pp) ==
    /\ seq[h] < s /\ q.config = c /\ q.height = ht /\ q.leader = TRUE /\ NeedsRound(ht)
    /\ pp.type = "PRE_PREPARE" /\ pp.from = h /\ pp.seq = s
    /\ pp.view = 0 /\ pp.height = ht /\ pp.config = c
    /\ Exchange(h, {}, {pp})
    /\ pending' = [pending EXCEPT ![h][s] = q]
    /\ inflight' = inflight /\ locking' = locking /\ log' = log
    /\ seq' = [seq EXCEPT ![h] = s] /\ writeFailed' = writeFailed

\* What a proposal does, when one signer is no quorum.
LEMMA ProposedAlone ==
    ASSUME NoLoneStakeQuorum, TypeOK, NEW h \in Hubs, NEW c \in Configs, NEW ht \in Heights,
           proposeAsLeader(h, c, ht)
    PROVE  \E s \in Seqs, q \in Round, pp \in Message :
              ProposedAs(h, c, ht, s, q, pp)
<1> DEFINE s == NextSeq(h)
           r == NewRound(c, 0, ht, TRUE)
           t == Tally(h, r, {h}, {})
           pp == Vote("PRE_PREPARE", h, s, r)
<1>1. s \in Seqs /\ seq[h] < s /\ 0 \in Views /\ NeedsRound(ht)
  <2>1. seq[h] \in Nat /\ lastApplied[h] \in Nat
    BY BoundsAssumption DEF TypeOK
  <2> QED
    BY <2>1, BoundsAssumption DEF proposeAsLeader, NextSeq, Larger, Seqs, Views
<1>2. /\ r \in Round /\ r.config = c /\ r.height = ht /\ r.leader = TRUE
      /\ r.prepares = {} /\ r.commits = {}
  BY <1>1, NewRoundIsARound DEF NewRound
<1>3. ~t.sends /\ ~t.applies
  <2>1. ~quorumMet(ht, {h})
    BY <1>1, OneSignerIsNoQuorum
  <2>2. ~ReadyToCommit(r, r.prepares \cup {h})
    BY <1>2, <2>1 DEF ReadyToCommit
  <2> HIDE DEF r
  <2> QED
    BY <2>2 DEF Tally
<1>4. /\ pp.type = "PRE_PREPARE" /\ pp.from = h /\ pp.seq = s
      /\ pp.view = 0 /\ pp.height = ht /\ pp.config = c
  BY DEF Vote, NewRound
<1>5. pp \in Message
  BY <1>1, <1>2, VoteIsAMessage
<1>6. t.round \in Round /\ t.round.config = c /\ t.round.height = ht /\ t.round.leader = TRUE
  <2>1. {h} \in SUBSET Hubs /\ {} \in SUBSET Hubs
    OBVIOUS
  <2> HIDE DEF r
  <2> QED
    BY <1>2, <2>1, TallyIsARound
<1> HIDE DEF r, t, pp, s
<1>7. Record(h, s, t, {}, {pp}) /\ seq' = [seq EXCEPT ![h] = s]
      /\ locking' = locking /\ log' = log /\ writeFailed' = writeFailed
  BY DEF proposeAsLeader, r, t, pp, s
<1>8. Exchange(h, {}, {pp}) /\ inflight' = inflight
      /\ pending' = [pending EXCEPT ![h][s] = t.round]
  BY <1>3, <1>7 DEF Record, TypeOK
<1>9. PICK x, q, m : x = s /\ q = t.round /\ m = pp
  OBVIOUS
<1>10. /\ x \in Seqs /\ seq[h] < x /\ q \in Round /\ q.config = c /\ q.height = ht /\ q.leader = TRUE
       /\ m \in Message /\ m.type = "PRE_PREPARE" /\ m.from = h /\ m.seq = x
       /\ m.view = 0 /\ m.height = ht /\ m.config = c
       /\ Exchange(h, {}, {m}) /\ pending' = [pending EXCEPT ![h][x] = q]
  BY <1>1, <1>4, <1>5, <1>6, <1>8, <1>9
<1>11. ProposedAs(h, c, ht, x, q, m)
  BY <1>1, <1>7, <1>8, <1>9, <1>10 DEF ProposedAs
<1> QED
  BY <1>10, <1>11

\* A proposal takes a slot its hub never proposed for, and decides nothing alone.
LEMMA ProposeAsLeaderInv ==
    ASSUME NoLoneStakeQuorum, TypeOK, AgreementInv, NEW h \in Hubs, NEW c \in Configs,
           NEW ht \in Heights, proposeAsLeader(h, c, ht)
    PROVE  AgreementInv'
<1> PICK s \in Seqs, q \in Round, pp \in Message : ProposedAs(h, c, ht, s, q, pp)
  BY ProposedAlone
<1>1. /\ seq[h] < s /\ q.height = ht /\ NeedsRound(ht)
      /\ pp.type = "PRE_PREPARE" /\ pp.from = h /\ pp.seq = s
      /\ pp.view = 0 /\ pp.height = ht /\ pp.config = c
      /\ Exchange(h, {}, {pp}) /\ inflight' = inflight /\ locking' = locking /\ log' = log
      /\ pending' = [pending EXCEPT ![h][s] = q] /\ seq' = [seq EXCEPT ![h] = s]
  BY DEF ProposedAs
<1>2. s \in Nat
  BY BoundsAssumption DEF Seqs
<1>3. NetSent' /\ sent' = sent \cup {pp} /\ sent \subseteq sent'
  BY <1>1, ExchangeSent DEF AgreementInv
<1>4. ProposalsOwned'
  <2> SUFFICES ASSUME NEW m \in sent', m.type = "PRE_PREPARE"
               PROVE  m.view = 0 /\ m.seq <= seq'[m.from] /\ m.height \in Heights /\ NeedsRound(m.height)
    BY DEF ProposalsOwned, NeedsRound
  <2>1. CASE m = pp
    BY <1>1, <1>2, <2>1 DEF TypeOK
  <2>2. CASE m \in sent
    <3>1. m \in Message
      BY <2>2 DEF TypeOK
    <3>2. m.seq \in Nat /\ m.from \in Hubs /\ seq[m.from] \in Nat
      BY <3>1, MessageFields, BoundsAssumption DEF Seqs, TypeOK
    <3>3. m.view = 0 /\ m.seq <= seq[m.from] /\ m.height \in Heights /\ NeedsRound(m.height)
      BY <2>2 DEF AgreementInv, ProposalsOwned
    <3>4. seq[m.from] <= seq'[m.from] /\ seq'[m.from] \in Nat
      BY <1>1, <1>2, <3>2 DEF TypeOK
    <3>5. QED
      BY <3>2, <3>3, <3>4
  <2>3. QED
    BY <1>3, <2>1, <2>2
<1>5. OneConfigPerProposer'
  <2>1. \A m \in sent : m.type = "PRE_PREPARE" /\ m.from = h => m.seq # s
    <3> SUFFICES ASSUME NEW m \in sent, m.type = "PRE_PREPARE", m.from = h PROVE m.seq # s
      OBVIOUS
    <3>1. m.seq <= seq[h] /\ m.seq \in Nat /\ seq[h] \in Nat
      BY MessageFields, BoundsAssumption DEF AgreementInv, ProposalsOwned, TypeOK, Seqs
    <3>2. QED
      BY <1>1, <1>2, <3>1
  <2>2. QED
    BY <1>1, <1>3, <2>1 DEF AgreementInv, OneConfigPerProposer
<1>6. VotesLegit'
  BY <1>1, <1>3, LegitStays DEF AgreementInv, VotesLegit, Ballots
<1>7. RoundsNeeded'
  BY <1>1 DEF AgreementInv, RoundsNeeded, TypeOK, NeedsRound
<1>8. AppliesLegit' /\ LogLegit' /\ LockingSent'
  BY <1>1, <1>3, AppliesStay, LogStays, LockingStays DEF AgreementInv
<1>9. QED
  BY <1>3, <1>4, <1>5, <1>6, <1>7, <1>8 DEF AgreementInv

\* propose keeps AgreementInv: a hub proposes once per slot (propose.js).
LEMMA ProposeInv ==
    ASSUME NoLoneStakeQuorum, TypeOK, AgreementInv, NEW h \in Hubs, propose(h)
    PROVE  AgreementInv'
<1>1. PICK ht \in Heights :
        \/ \E c \in Submits[h] : proposeAsLeader(h, c, ht) \/ proposeDirect(h, c, ht)
        \/ proposeRefused(h, ht)
  BY DEF propose
<1>2. \A c \in Submits[h] : c \in Configs
  BY DataAssumption
<1>3. ASSUME NEW c \in Configs, proposeDirect(h, c, ht)
      PROVE  AgreementInv'
  <2>1. sent' = sent /\ seq' = seq /\ net' = net /\ locking' = locking
        /\ pending' = pending /\ inflight' = inflight
    BY <1>3 DEF proposeDirect
  <2>2. log' = [log EXCEPT ![h] = Append(@, [seq |-> 0, config |-> c, height |-> ht])]
    BY <1>3 DEF proposeDirect
  <2>3. LogLegit'
    <3>1. [seq |-> 0, config |-> c, height |-> ht].seq = 0
      OBVIOUS
    <3>2. sent \subseteq sent'
      BY <2>1
    <3>3. QED
      BY <2>2, <3>1, <3>2, LogAppended DEF AgreementInv
  <2>4. QED
    BY <2>1, <2>3 DEF AgreementInv, ProposalsOwned, OneConfigPerProposer, VotesLegit, NetSent,
        LockingSent, RoundsNeeded, AppliesLegit, Legit, leaderAt, NeedsRound
<1>4. ASSUME proposeRefused(h, ht)
      PROVE  AgreementInv'
  <2>1. sent' = sent \cup {} /\ sent \subseteq sent' /\ net' = net /\ locking' = locking
        /\ pending' = pending /\ inflight' = inflight /\ log' = log
    BY <1>4 DEF proposeRefused
  <2>2. \A g \in Hubs : seq[g] <= seq'[g] /\ seq'[g] \in Nat
    <3>1. seq[h] \in Nat /\ lastApplied[h] \in Nat
      BY BoundsAssumption DEF TypeOK
    <3>2. seq[h] <= NextSeq(h) /\ NextSeq(h) \in Nat
      BY <3>1 DEF NextSeq, Larger
    <3>3. QED
      BY <1>4, <3>2, BoundsAssumption DEF proposeRefused, TypeOK
  <2>3. ProposalsOwned' /\ OneConfigPerProposer' /\ VotesLegit'
    <3> DEFINE out == {}
    <3>1. \A m \in out : m.type # "PRE_PREPARE" /\ Legit(m.seq, m.config)
      OBVIOUS
    <3>2. sent' = sent \cup out
      BY <2>1
    <3> HIDE DEF out
    <3>3. QED
      BY <2>2, <3>1, <3>2, SendVotes DEF AgreementInv
  <2>4. QED
    BY <2>1, <2>3, AppliesStay, LogStays, LockingStays
       DEF AgreementInv, RoundsNeeded, NetSent, NeedsRound
<1>5. QED
  BY <1>1, <1>2, <1>3, <1>4, ProposeAsLeaderInv

\* A step that broadcasts at most view notices and changes neither rounds'
\* heights, nor applies, nor the log.
LEMMA NoticeInv ==
    ASSUME TypeOK, AgreementInv, NEW h \in Hubs, NEW in, NEW out, Exchange(h, in, out),
           \A m \in out : m.type \in {"VIEW_CHANGE", "NEW_VIEW"},
           seq' = seq, inflight' = inflight, log' = log,
           \A g \in Hubs : locking'[g] \subseteq locking[g], RoundsNeeded'
    PROVE  AgreementInv'
<1>1. /\ \A m \in out : m.type # "PRE_PREPARE"
      /\ \A m \in out : m.type \in Ballots => Legit(m.seq, m.config)
  BY DEF Ballots
<1>2. /\ ProposalsOwned' /\ OneConfigPerProposer' /\ VotesLegit' /\ NetSent'
      /\ sent \subseteq sent'
  BY <1>1, ExchangeVotes
<1>3. LockingSent' /\ AppliesLegit' /\ LogLegit'
  BY <1>2, AppliesStay, LogStays, LockingStays DEF AgreementInv
<1>4. QED
  BY <1>2, <1>3 DEF AgreementInv

\* A step on a hub's own memory that only forgets rounds and applies.
LEMMA LocalInv ==
    ASSUME TypeOK, AgreementInv, sent' = sent, net' = net, seq' = seq,
           \A g \in Hubs : locking'[g] \subseteq locking[g],
           RoundsNeeded', AppliesLegit', LogLegit'
    PROVE  AgreementInv'
<1>1. ProposalsOwned' /\ OneConfigPerProposer' /\ NetSent'
  BY DEF AgreementInv, ProposalsOwned, OneConfigPerProposer, NetSent, NeedsRound
<1>2. VotesLegit'
  BY LegitStays DEF AgreementInv, VotesLegit
<1>3. LockingSent'
  BY LockingStays DEF AgreementInv
<1>4. QED
  BY <1>1, <1>2, <1>3 DEF AgreementInv

\* A PRE_PREPARE that is awaited, joined or dropped keeps AgreementInv.
LEMMA PrePrepareInv ==
    ASSUME OneRotation, TypeOK, AgreementInv, NEW h \in Hubs, NEW m \in net[h],
           beginPrePrepare(h, m) \/ joinPrePrepare(h, m) \/ dropPrePrepare(h, m)
    PROVE  AgreementInv'
<1>1. m \in sent /\ m \in Message /\ m.seq \in Seqs
  BY HeldMessages, MessageFields DEF AgreementInv, NetSent
<1>2. CASE beginPrePrepare(h, m)
  <2> DEFINE out == {}
  <2>1. /\ \A n \in out : n.type # "PRE_PREPARE"
        /\ \A n \in out : n.type \in Ballots => Legit(n.seq, n.config)
    OBVIOUS
  <2>2. Exchange(h, {m}, out) /\ seq' = seq /\ inflight' = inflight /\ log' = log
        /\ pending' = pending /\ locking' = [locking EXCEPT ![h] = @ \cup {m}]
    BY <1>2 DEF beginPrePrepare
  <2> HIDE DEF out
  <2>3. /\ ProposalsOwned' /\ OneConfigPerProposer' /\ VotesLegit' /\ NetSent'
        /\ sent \subseteq sent'
    BY <2>1, <2>2, ExchangeVotes
  <2>4. m.type = "PRE_PREPARE"
    BY <1>2 DEF beginPrePrepare, Receive
  <2>5. LockingSent'
    BY <1>1, <2>2, <2>3, <2>4 DEF AgreementInv, LockingSent, TypeOK
  <2>6. RoundsNeeded' /\ AppliesLegit' /\ LogLegit'
    BY <2>2, <2>3, AppliesStay, LogStays DEF AgreementInv, RoundsNeeded, NeedsRound
  <2>7. QED
    BY <2>3, <2>5, <2>6 DEF AgreementInv
<1>3. CASE joinPrePrepare(h, m)
  <2> DEFINE r == pending[h][m.seq]
  <2>1. r \in Round /\ r.height \in Heights /\ r # NoRound
    BY <1>1, <1>3 DEF joinPrePrepare, TypeOK, Round
  <2>2. NeedsRound(r.height)
    BY <1>1, <2>1 DEF AgreementInv, RoundsNeeded
  <2>3. Legit(m.seq, m.config)
    <3>1. m.type = "PRE_PREPARE" /\ leaderAt(m.seq, m.view, r.height) = m.from
      BY <1>3 DEF joinPrePrepare, Receive, leaderIdentityOk
    <3>2. m.height \in Heights /\ NeedsRound(m.height)
      BY <1>1, <3>1 DEF AgreementInv, ProposalsOwned
    <3>3. leaderAt(m.seq, m.view, m.height) = m.from
      BY <2>1, <2>2, <3>1, <3>2, SameLeader
    <3>4. QED
      BY <1>1, <3>1, <3>3 DEF Legit
  <2>4. r.config = m.config /\ castPrepare(h, m, r, {m}) /\ seq' = seq
        /\ locking' = locking /\ log' = log
    BY <1>3 DEF joinPrePrepare
  <2> HIDE DEF r
  <2>5. /\ ProposalsOwned' /\ OneConfigPerProposer' /\ VotesLegit' /\ NetSent'
        /\ RoundsNeeded' /\ AppliesLegit' /\ sent \subseteq sent'
    BY <1>1, <2>1, <2>2, <2>3, <2>4, CastPrepareInv
  <2>6. LockingSent' /\ LogLegit'
    BY <2>4, <2>5, LogStays, LockingStays DEF AgreementInv
  <2>7. QED
    BY <2>5, <2>6 DEF AgreementInv
<1>4. CASE dropPrePrepare(h, m)
  BY <1>4, DropInv DEF dropPrePrepare
<1>5. QED
  BY <1>2, <1>3, <1>4

\* A PRE_PREPARE whose snapshot was answered keeps AgreementInv.
LEMMA LockingInv ==
    ASSUME TypeOK, AgreementInv, NEW h \in Hubs, NEW m \in locking[h],
           openFollowerRound(h, m) \/ declinePrePrepare(h, m)
    PROVE  AgreementInv'
<1>1. /\ m \in sent /\ m.type = "PRE_PREPARE" /\ m \in Message
      /\ m.config \in Configs /\ m.view \in Views
  BY HeldMessages, MessageFields DEF AgreementInv, LockingSent
<1>2. m.height \in Heights /\ NeedsRound(m.height)
  BY <1>1 DEF AgreementInv, ProposalsOwned
<1>3. CASE openFollowerRound(h, m)
  <2> DEFINE r == NewRound(m.config, m.view, m.height, FALSE)
  <2>1. r \in Round /\ r.height = m.height /\ r.config = m.config
    BY <1>1, <1>2, NewRoundIsARound DEF NewRound
  <2>2. Legit(m.seq, m.config)
    BY <1>1, <1>3 DEF openFollowerRound, followerRoundQuorum, leaderIdentityOk, Legit
  <2>3. castPrepare(h, m, r, {}) /\ seq' = seq /\ log' = log
        /\ locking' = [locking EXCEPT ![h] = @ \ {m}]
    BY <1>3 DEF openFollowerRound
  <2> HIDE DEF r
  <2>4. /\ ProposalsOwned' /\ OneConfigPerProposer' /\ VotesLegit' /\ NetSent'
        /\ RoundsNeeded' /\ AppliesLegit' /\ sent \subseteq sent'
    BY <1>1, <1>2, <2>1, <2>2, <2>3, CastPrepareInv
  <2>5. \A g \in Hubs : locking'[g] \subseteq locking[g]
    BY <2>3 DEF TypeOK
  <2>6. LockingSent' /\ LogLegit'
    BY <2>3, <2>4, <2>5, LogStays, LockingStays DEF AgreementInv
  <2>7. QED
    BY <2>4, <2>6 DEF AgreementInv
<1>4. CASE declinePrePrepare(h, m)
  <2>1. sent' = sent /\ net' = net /\ seq' = seq /\ pending' = pending
        /\ inflight' = inflight /\ log' = log
    BY <1>4 DEF declinePrePrepare
  <2>2. \A g \in Hubs : locking'[g] \subseteq locking[g]
    BY <1>4 DEF declinePrePrepare, TypeOK
  <2>3. RoundsNeeded' /\ AppliesLegit' /\ LogLegit'
    BY <2>1, AppliesStay, LogStays DEF AgreementInv, RoundsNeeded, NeedsRound
  <2>4. QED
    BY <2>1, <2>2, <2>3, LocalInv
<1>5. QED
  BY <1>3, <1>4

\* A vote that is buffered, counted or dropped keeps AgreementInv (votes.js).
LEMMA VoteInv ==
    ASSUME TypeOK, AgreementInv, NEW h \in Hubs, NEW m \in net[h],
           \/ dropVote(h, m) \/ handlePrepare(h, m) \/ handleCommit(h, m)
           \/ \E lapsed : bufferVote(h, m, lapsed)
    PROVE  AgreementInv'
<1> DEFINE r == pending[h][m.seq]
           none == {}
           one == {m.from}
<1>1. m \in sent /\ m.seq \in Seqs /\ none \in SUBSET Hubs /\ one \in SUBSET Hubs
  BY HeldMessages, MessageFields DEF AgreementInv, NetSent
<1>2. \A n \in none : n.type = "PREPARE" /\ n.seq = m.seq /\ n.config = r.config
  OBVIOUS
<1>3. ASSUME handlePrepare(h, m) \/ handleCommit(h, m)
      PROVE  AgreementInv'
  <2>1. r \in Round /\ r # NoRound /\ r.config = m.config /\ m.type \in Ballots
    BY <1>1, <1>3 DEF handlePrepare, handleCommit, VoteCounts, Receive, Ballots, TypeOK
  <2>2. NeedsRound(r.height) /\ Legit(m.seq, r.config)
    BY <1>1, <2>1 DEF AgreementInv, RoundsNeeded, VotesLegit
  <2>3. \/ Record(h, m.seq, Tally(h, r, one, none), {m}, none)
        \/ Record(h, m.seq, Tally(h, r, none, one), {m}, none)
    BY <1>3 DEF handlePrepare, handleCommit
  <2>4. seq' = seq /\ locking' = locking /\ log' = log
    BY <1>3 DEF handlePrepare, handleCommit
  <2> HIDE DEF r, none, one
  <2>5. /\ ProposalsOwned' /\ OneConfigPerProposer' /\ VotesLegit' /\ NetSent'
        /\ RoundsNeeded' /\ AppliesLegit' /\ sent \subseteq sent'
    BY <1>1, <1>2, <2>1, <2>2, <2>3, <2>4, RecordInv
  <2>6. LockingSent' /\ LogLegit'
    BY <2>4, <2>5, LogStays, LockingStays DEF AgreementInv
  <2>7. QED
    BY <2>5, <2>6 DEF AgreementInv
<1>4. ASSUME NEW lapsed, bufferVote(h, m, lapsed)
      PROVE  AgreementInv'
  <2>1. Exchange(h, {m}, none) /\ seq' = seq /\ inflight' = inflight /\ log' = log
        /\ pending' = pending /\ locking' = locking
    BY <1>4 DEF bufferVote
  <2>2. RoundsNeeded'
    BY <2>1 DEF AgreementInv, RoundsNeeded, NeedsRound
  <2>3. \A n \in none : n.type \in {"VIEW_CHANGE", "NEW_VIEW"}
    OBVIOUS
  <2> HIDE DEF none
  <2>4. QED
    BY <2>1, <2>2, <2>3, NoticeInv
<1>5. CASE dropVote(h, m)
  BY <1>5, DropInv DEF dropVote
<1>6. QED
  BY <1>3, <1>4, <1>5

\* The two writes of an apply, and their failure, keep AgreementInv.
LEMMA ApplyInv ==
    ASSUME TypeOK, AgreementInv, NEW h \in Hubs, NEW a \in inflight[h],
           applyConfig(h, a) \/ persistAppliedRound(h, a) \/ unlockFailedApply(h, a)
    PROVE  AgreementInv'
<1>1. a.seq \in Seqs /\ Legit(a.seq, a.config)
  BY HeldMessages DEF Apply, AgreementInv, AppliesLegit
<1>2. CASE applyConfig(h, a)
  <2> DEFINE b == [a EXCEPT !.step = "saveSeq"]
             e == [seq |-> a.seq, config |-> a.config, height |-> a.height]
  <2>1. b.seq = a.seq /\ b.config = a.config /\ e.seq = a.seq /\ e.config = a.config
    BY HeldMessages DEF Apply
  <2>2. /\ inflight' = [inflight EXCEPT ![h] = (@ \ {a}) \cup {b}]
        /\ log' = [log EXCEPT ![h] = Append(@, e)]
        /\ sent' = sent /\ net' = net /\ seq' = seq /\ pending' = pending /\ locking' = locking
    BY <1>2 DEF applyConfig
  <2> HIDE DEF b, e
  <2>3. LogLegit'
    BY <1>1, <2>1, <2>2, LogAppended DEF AgreementInv
  <2>4. \A g \in Hubs : \A d \in inflight'[g] : Legit(d.seq, d.config)
    BY <1>1, <2>1, <2>2 DEF AgreementInv, AppliesLegit, TypeOK
  <2>5. AppliesLegit'
    BY <2>2, <2>4, LegitStays DEF AppliesLegit
  <2>6. RoundsNeeded'
    BY <2>2 DEF AgreementInv, RoundsNeeded, NeedsRound
  <2>7. QED
    BY <2>2, <2>3, <2>5, <2>6, LocalInv
<1>3. CASE persistAppliedRound(h, a) \/ unlockFailedApply(h, a)
  <2>1. sent' = sent /\ net' = net /\ seq' = seq /\ locking' = locking /\ log' = log
        /\ inflight' = [inflight EXCEPT ![h] = @ \ {a}]
    BY <1>3 DEF persistAppliedRound, unlockFailedApply
  <2>2. \A g \in Hubs : \A d \in inflight'[g] : Legit(d.seq, d.config)
    BY <2>1 DEF AgreementInv, AppliesLegit, TypeOK
  <2>3. AppliesLegit' /\ LogLegit'
    BY <2>1, <2>2, LegitStays, LogStays DEF AppliesLegit, AgreementInv
  <2>4. RoundsNeeded'
    <3>1. CASE persistAppliedRound(h, a)
      BY <1>1, <3>1 DEF persistAppliedRound, AgreementInv, RoundsNeeded, NeedsRound, TypeOK
    <3>2. CASE unlockFailedApply(h, a)
      <4> DEFINE r == pending[h][a.seq]
      <4>1. PICK q : /\ pending' = [pending EXCEPT ![h][a.seq] = q]
                     /\ q = NoRound \/ q = r
                        \/ (r # NoRound /\ q = [r EXCEPT !.applying = FALSE])
        BY <3>2 DEF unlockFailedApply
      <4>2. r \in Round \cup {NoRound} /\ (r # NoRound => NeedsRound(r.height))
        BY <1>1 DEF AgreementInv, RoundsNeeded, TypeOK
      <4>3. r \in Round => [r EXCEPT !.applying = FALSE].height = r.height
        BY DEF Round
      <4>4. q # NoRound => NeedsRound(q.height)
        BY <4>1, <4>2, <4>3
      <4>5. QED
        BY <1>1, <4>1, <4>4 DEF AgreementInv, RoundsNeeded, NeedsRound, TypeOK
    <3>3. QED
      BY <1>3, <3>1, <3>2
  <2>5. QED
    BY <2>1, <2>3, <2>4, LocalInv
<1>4. QED
  BY <1>2, <1>3

\* Round timers keep AgreementInv.
LEMMA TimerInv ==
    ASSUME TypeOK, AgreementInv, NEW h \in Hubs, NEW t \in timers[h],
           expireFollowerRound(h, t) \/ initiateViewChange(h, t)
    PROVE  AgreementInv'
<1>1. /\ t.seq \in Seqs
      /\ pending' = [pending EXCEPT ![h][t.seq] = NoRound]
      /\ seq' = seq /\ inflight' = inflight /\ log' = log /\ locking' = locking
  BY HeldMessages DEF Timer, expireFollowerRound, initiateViewChange
<1>2. RoundsNeeded'
  BY <1>1 DEF AgreementInv, RoundsNeeded, NeedsRound, TypeOK
<1>3. CASE expireFollowerRound(h, t)
  <2>1. sent' = sent /\ net' = net
    BY <1>3 DEF expireFollowerRound
  <2>2. AppliesLegit' /\ LogLegit'
    BY <1>1, <2>1, AppliesStay, LogStays DEF AgreementInv
  <2>3. QED
    BY <1>1, <1>2, <2>1, <2>2, LocalInv
<1>4. CASE initiateViewChange(h, t)
  <2> DEFINE n == ViewNotice("VIEW_CHANGE", h, t.seq, view[h] + 1)
             none == {}
             out == {n}
  <2>1. \A m \in out : m.type \in {"VIEW_CHANGE", "NEW_VIEW"}
    BY DEF ViewNotice
  <2>2. Exchange(h, none, out)
    BY <1>4 DEF initiateViewChange
  <2> HIDE DEF out, none
  <2>3. QED
    BY <1>1, <1>2, <2>1, <2>2, NoticeInv
<1>5. QED
  BY <1>3, <1>4

\* VIEW_CHANGE and NEW_VIEW keep AgreementInv (view_change.js).
LEMMA ViewChangeInv ==
    ASSUME TypeOK, AgreementInv, NEW h \in Hubs, NEW m \in net[h],
           \/ tallyViewChange(h, m) \/ acceptViewChange(h, m) \/ dropViewChange(h, m)
           \/ handleNewView(h, m) \/ dropNewView(h, m)
    PROVE  AgreementInv'
<1>1. CASE tallyViewChange(h, m) \/ acceptViewChange(h, m) \/ handleNewView(h, m)
  <2> DEFINE n == ViewNotice("NEW_VIEW", h, m.seq, m.view)
  <2>1. \E out : /\ Exchange(h, {m}, out)
                 /\ out = {} \/ out = {n}
    BY <1>1 DEF tallyViewChange, acceptViewChange, handleNewView
  <2>2. n.type = "NEW_VIEW"
    BY DEF ViewNotice
  <2> HIDE DEF n
  <2>3. PICK out : Exchange(h, {m}, out) /\ (out = {} \/ out = {n})
    BY <2>1
  <2>4. \A k \in out : k.type \in {"VIEW_CHANGE", "NEW_VIEW"}
    BY <2>2, <2>3
  <2>5. seq' = seq /\ inflight' = inflight /\ log' = log /\ locking' = locking
        /\ pending' = pending
    BY <1>1 DEF tallyViewChange, acceptViewChange, handleNewView
  <2>6. RoundsNeeded'
    BY <2>5 DEF AgreementInv, RoundsNeeded, NeedsRound
  <2>7. QED
    BY <2>3, <2>4, <2>5, <2>6, NoticeInv
<1>2. CASE dropViewChange(h, m) \/ dropNewView(h, m)
  BY <1>2, DropInv DEF dropViewChange, dropNewView
<1>3. QED
  BY <1>1, <1>2

\* The invariant is inductive as long as no hub restarts.
LEMMA AgreementStep ==
    ASSUME OneRotation, NoLoneStakeQuorum, TypeOK, restarted = {} => AgreementInv,
           [Next]_vars, restarted' = {}
    PROVE  AgreementInv'
<1>1. \A h \in Hubs : ~restart(h)
  BY DEF restart
<1>2. CASE UNCHANGED vars
  <2>1. sent' = sent /\ net' = net /\ seq' = seq /\ pending' = pending
        /\ inflight' = inflight /\ log' = log /\ locking' = locking /\ AgreementInv
    BY <1>2 DEF vars
  <2>2. RoundsNeeded' /\ AppliesLegit' /\ LogLegit'
    BY <2>1, AppliesStay, LogStays DEF AgreementInv, RoundsNeeded, NeedsRound
  <2>3. QED
    BY <2>1, <2>2, LocalInv
<1>3. CASE Next
  <2>1. PICK h \in Hubs :
          \/ propose(h)
          \/ \E m \in net[h] : handleMessage(h, m)
          \/ bufferPastTtl(h)
          \/ \E m \in locking[h] : openFollowerRound(h, m) \/ declinePrePrepare(h, m)
          \/ \E a \in inflight[h] :
                applyConfig(h, a) \/ persistAppliedRound(h, a) \/ unlockFailedApply(h, a)
          \/ \E t \in timers[h] : expireFollowerRound(h, t) \/ initiateViewChange(h, t)
    BY <1>1, <1>3 DEF Next
  <2>2. restarted = {}
    BY <2>1 DEF propose, proposeAsLeader, proposeDirect, proposeRefused, handleMessage,
        bufferPastTtl, openFollowerRound, declinePrePrepare, applyConfig,
        persistAppliedRound, unlockFailedApply, expireFollowerRound, initiateViewChange,
        beginPrePrepare, joinPrePrepare, dropPrePrepare, Drop, bufferVote, dropVote,
        handlePrepare, handleCommit, tallyViewChange, acceptViewChange, dropViewChange,
        handleNewView, dropNewView
  <2>3. AgreementInv
    BY <2>2
  <2>4. ASSUME NEW m \in net[h], handleMessage(h, m)
        PROVE  AgreementInv'
    BY <2>3, <2>4, PrePrepareInv, VoteInv, ViewChangeInv DEF handleMessage
  <2>5. CASE bufferPastTtl(h)
    BY <2>3, <2>5, VoteInv DEF bufferPastTtl
  <2>6. QED
    BY <2>1, <2>3, <2>4, <2>5, ProposeInv, LockingInv, ApplyInv, TimerInv
<1>4. QED
  BY <1>2, <1>3

\* No two hubs ever apply different configs under one sequence number while no hub
\* has restarted, for every number of hubs, any loss, delay or reordering of
\* messages and any timeouts, view changes, snapshot failures and write failures
\* (pbft.js, pbft/*.js), when the membership does not drift between the heights
\* that hubs lock and no single hub holds a stake quorum.
THEOREM AgreementHolds ==
    ASSUME OneRotation, NoLoneStakeQuorum
    PROVE  Spec => []Agreement
<1> DEFINE Inv == TypeOK /\ (restarted = {} => AgreementInv)
<1>1. Init => Inv
  <2>1. Init => TypeOK
    BY BoundsAssumption DEF Init, TypeOK, Views
  <2>2. Init => AgreementInv
    BY DEF Init, AgreementInv, ProposalsOwned, OneConfigPerProposer, VotesLegit, NetSent,
        LockingSent, RoundsNeeded, AppliesLegit, LogLegit
  <2>3. QED
    BY <2>1, <2>2
<1>2. Inv /\ [Next]_vars => Inv'
  BY TypeStep, AgreementStep
<1>3. Inv => Agreement
  <2> SUFFICES ASSUME AgreementInv, NEW g \in Hubs, NEW h \in Hubs,
                      NEW i \in DOMAIN log[g], NEW j \in DOMAIN log[h],
                      log[g][i].seq = log[h][j].seq, log[g][i].seq # 0
               PROVE  log[g][i].config = log[h][j].config
    BY DEF Agreement
  <2>1. /\ Legit(log[g][i].seq, log[g][i].config)
        /\ Legit(log[g][i].seq, log[h][j].config)
    BY DEF AgreementInv, LogLegit
  <2>2. QED
    BY <2>1, LegitUnique DEF AgreementInv
<1>4. QED
  BY <1>1, <1>2, <1>3, PTL DEF Spec

-----------------------------------------------------------------------------
(***************************************************************************)
(* A config is applied once.                                               *)
(*                                                                         *)
(* The latch against a second apply is a field of the round object, so it  *)
(* is worth what the objects of a slot are: a hub follows the proposal of  *)
(* a slot's leader once, because it receives it once, and leads a slot     *)
(* only under a config the leader it followed did not have.                *)
(***************************************************************************)

\* Clients submit different configs to different hubs.
DifferentSubmits == \A g, h \in Hubs : g # h => Submits[g] \cap Submits[h] = {}

\* m proposes for its slot as the rotation's leader.
FromLeader(m) == m.type = "PRE_PREPARE" /\ m.from = leaderAt(m.seq, m.view, m.height)

\* Hub h has the leader's proposal for s still to handle.
Awaits(h, s) == \E m \in net[h] \cup locking[h] : FromLeader(m) /\ m.seq = s

\* Hub h has applied c under s, or is about to.
Applied(h, s, c) ==
    \/ \E a \in inflight[h] : a.seq = s /\ a.config = c
    \/ \E i \in DOMAIN log[h] : log[h][i].seq = s /\ log[h][i].config = c

OneProposal ==
    \A m, n \in sent :
        /\ m.type = "PRE_PREPARE" /\ n.type = "PRE_PREPARE"
        /\ m.from = n.from /\ m.seq = n.seq
        => m = n

SubmittedOnly == \A m \in sent : m.type = "PRE_PREPARE" => m.config \in Submits[m.from]

HeldOnce ==
    \A h \in Hubs : /\ net[h] \cap locking[h] = {}
                    /\ \A m \in net[h] \cup locking[h] : m.from # h

MessagesOnce == OneProposal /\ SubmittedOnly /\ HeldOnce

OwnRounds ==
    \A h \in Hubs : \A s \in Seqs :
        pending[h][s] # NoRound /\ pending[h][s].leader => pending[h][s].config \in Submits[h]

FollowersLegit ==
    \A h \in Hubs : \A s \in Seqs :
        pending[h][s] # NoRound /\ ~pending[h][s].leader => Legit(s, pending[h][s].config)

\* Hub h neither follows a proposal for s nor has applied anything under s.
Unfollowed(h, s) ==
    /\ pending[h][s] = NoRound \/ pending[h][s].leader
    /\ \A c \in Configs : ~Applied(h, s, c)

FollowedOnce == \A h \in Hubs : \A s \in Seqs : Awaits(h, s) => Unfollowed(h, s)

Latched ==
    \A h \in Hubs \ writeFailed : \A s \in Seqs :
        pending[h][s] # NoRound /\ Applied(h, s, pending[h][s].config) => pending[h][s].applying

AppliesOnce ==
    \A h \in Hubs \ writeFailed :
        /\ \A a, b \in inflight[h] : a.seq = b.seq => a = b
        /\ \A a \in inflight[h] : a.step = "applyConfig" =>
              \A i \in DOMAIN log[h] : log[h][i].seq # a.seq
        /\ \A i, j \in DOMAIN log[h] :
              log[h][i].seq = log[h][j].seq /\ log[h][i].seq # 0 => i = j

RoundsOnce == OwnRounds /\ FollowersLegit /\ FollowedOnce /\ Latched /\ AppliesOnce

\* What is applied is legitimate and a config.
LEMMA AppliedIsLegit ==
    ASSUME TypeOK, AgreementInv, NEW h \in Hubs, NEW s \in Seqs, NEW c, Applied(h, s, c)
    PROVE  Legit(s, c) /\ c \in Configs
<1>1. s # 0
  BY BoundsAssumption DEF Seqs
<1>2. CASE \E a \in inflight[h] : a.seq = s /\ a.config = c
  BY <1>2, HeldMessages DEF AgreementInv, AppliesLegit, Apply
<1>3. CASE \E i \in DOMAIN log[h] : log[h][i].seq = s /\ log[h][i].config = c
  <2>1. PICK i \in DOMAIN log[h] : log[h][i].seq = s /\ log[h][i].config = c
    BY <1>3
  <2>2. log[h][i] \in LogEntry
    BY <2>1 DEF TypeOK
  <2> QED
    BY <1>1, <2>1, <2>2 DEF AgreementInv, LogLegit, LogEntry
<1> QED
  BY <1>2, <1>3 DEF Applied

\* The leader's proposal for a slot is one message.
LEMMA LeaderIsOne ==
    ASSUME OneRotation, TypeOK, AgreementInv, OneProposal,
           NEW m \in sent, NEW n \in sent, FromLeader(m), FromLeader(n), m.seq = n.seq
    PROVE  m = n
<1>1. /\ m.view = 0 /\ m.height \in Heights /\ NeedsRound(m.height)
      /\ n.view = 0 /\ n.height \in Heights /\ NeedsRound(n.height)
  BY DEF AgreementInv, ProposalsOwned, FromLeader
<1>2. m.from = n.from
  BY <1>1, SameLeader DEF FromLeader
<1> QED
  BY <1>2 DEF OneProposal, FromLeader

\* A legitimate config has the leader's proposal behind it.
LEMMA LegitFromLeader ==
    ASSUME NEW s, NEW c, Legit(s, c)
    PROVE  \E m \in sent : FromLeader(m) /\ m.seq = s /\ m.config = c
  BY DEF Legit, FromLeader

\* What a hub has still to handle was sent.
LEMMA AwaitedWasSent ==
    ASSUME AgreementInv, NEW h \in Hubs, NEW m \in net[h] \cup locking[h]
    PROVE  m \in sent
  BY DEF AgreementInv, NetSent, LockingSent

\* A step that moves nothing in gossip is an exchange of nothing.
LEMMA NoExchange ==
    ASSUME TypeOK, NEW h \in Hubs, net' = net, sent' = sent
    PROVE  Exchange(h, {}, {})
  BY DEF TypeOK, Exchange

\* Broadcasting votes and notices keeps what is known of proposals.
LEMMA QuietMessages ==
    ASSUME TypeOK, AgreementInv, MessagesOnce,
           NEW h \in Hubs, NEW in, NEW out, Exchange(h, in, out),
           \A m \in out : m.type # "PRE_PREPARE" /\ m.from = h,
           \A g \in Hubs : locking'[g] \subseteq locking[g]
    PROVE  /\ MessagesOnce' /\ sent \subseteq sent'
           /\ \A g \in Hubs : \A s : Awaits(g, s)' => Awaits(g, s)
<1>1. sent' = sent \cup out
  BY DEF Exchange
<1>2. \A g \in Hubs : net'[g] \subseteq net[g] \cup (IF g = h THEN {} ELSE out)
  BY DEF Exchange
<1>3. \A g \in Hubs : \A m \in locking[g] : m.type = "PRE_PREPARE"
  BY DEF AgreementInv, LockingSent
<1>4. OneProposal'
  BY <1>1 DEF MessagesOnce, OneProposal
<1>5. SubmittedOnly'
  BY <1>1 DEF MessagesOnce, SubmittedOnly
<1>6. HeldOnce'
  <2> SUFFICES ASSUME NEW g \in Hubs
               PROVE  /\ net'[g] \cap locking'[g] = {}
                      /\ \A m \in net'[g] \cup locking'[g] : m.from # g
    BY DEF HeldOnce
  <2>1. net'[g] \cap locking'[g] = {}
    BY <1>2, <1>3 DEF MessagesOnce, HeldOnce
  <2>2. ASSUME NEW m \in net'[g] \cup locking'[g] PROVE m.from # g
    <3>1. m \in net[g] \cup locking[g] \/ (g # h /\ m \in out)
      BY <1>2
    <3> QED
      BY <3>1 DEF MessagesOnce, HeldOnce
  <2> QED
    BY <2>1, <2>2
<1>7. ASSUME NEW g \in Hubs, NEW s, Awaits(g, s)' PROVE Awaits(g, s)
  <2>1. PICK m \in net'[g] \cup locking'[g] :
            m.type = "PRE_PREPARE" /\ m.from = leaderAt(m.seq, m.view, m.height) /\ m.seq = s
    BY <1>7 DEF Awaits, FromLeader, leaderAt
  <2>2. m \in net[g] \cup locking[g]
    BY <1>2, <2>1
  <2> QED
    BY <2>1, <2>2 DEF Awaits, FromLeader
<1> QED
  BY <1>1, <1>4, <1>5, <1>6, <1>7 DEF MessagesOnce

\* A step that opens no round and starts no apply keeps the latches: rounds are
\* closed, or keep config, part and latch but for a hub with a failed write.
LEMMA QuietRounds ==
    ASSUME TypeOK, RoundsOnce, sent \subseteq sent', log' = log,
           \A g \in Hubs : \A s : Awaits(g, s)' => Awaits(g, s),
           \A g \in Hubs : inflight'[g] \subseteq inflight[g],
           writeFailed \subseteq writeFailed',
           \A g \in Hubs : \A s \in Seqs :
               \/ pending'[g][s] = NoRound
               \/ /\ pending[g][s] # NoRound
                  /\ pending'[g][s].config = pending[g][s].config
                  /\ pending'[g][s].leader = pending[g][s].leader
                  /\ g \in writeFailed' \/ pending'[g][s].applying = pending[g][s].applying
    PROVE  RoundsOnce'
<1>1. ASSUME NEW g \in Hubs, NEW s, NEW c, Applied(g, s, c)' PROVE Applied(g, s, c)
  BY <1>1 DEF Applied
<1>2. OwnRounds'
  BY DEF RoundsOnce, OwnRounds
<1>3. FollowersLegit'
  <2> SUFFICES ASSUME NEW g \in Hubs, NEW s \in Seqs, NEW c,
                      pending'[g][s] # NoRound, ~pending'[g][s].leader, c = pending'[g][s].config
               PROVE  Legit(s, c)'
    BY DEF FollowersLegit, Legit, leaderAt
  <2>1. Legit(s, c)
    BY DEF RoundsOnce, FollowersLegit
  <2> QED
    BY <2>1, LegitStays
<1>4. FollowedOnce'
  <2> SUFFICES ASSUME NEW g \in Hubs, NEW s \in Seqs, Awaits(g, s)'
               PROVE  /\ pending'[g][s] = NoRound \/ pending'[g][s].leader
                      /\ \A c \in Configs : ~Applied(g, s, c)'
    BY DEF FollowedOnce, Unfollowed
  <2>1. /\ pending[g][s] = NoRound \/ pending[g][s].leader
        /\ \A c \in Configs : ~Applied(g, s, c)
    BY DEF RoundsOnce, FollowedOnce, Unfollowed
  <2> QED
    BY <1>1, <2>1
<1>5. Latched'
  <2> SUFFICES ASSUME NEW g \in Hubs, g \notin writeFailed', NEW s \in Seqs,
                      pending'[g][s] # NoRound, NEW c, c = pending'[g][s].config,
                      Applied(g, s, c)'
               PROVE  pending'[g][s].applying
    BY DEF Latched, Applied
  <2>1. Applied(g, s, pending[g][s].config)
    BY <1>1
  <2> QED
    BY <2>1 DEF RoundsOnce, Latched
<1>6. AppliesOnce'
  <2> SUFFICES ASSUME NEW g \in Hubs, g \notin writeFailed'
               PROVE  /\ \A a, b \in inflight'[g] : a.seq = b.seq => a = b
                      /\ \A a \in inflight'[g] : a.step = "applyConfig" =>
                            \A i \in DOMAIN log'[g] : log'[g][i].seq # a.seq
                      /\ \A i, j \in DOMAIN log'[g] :
                            log'[g][i].seq = log'[g][j].seq /\ log'[g][i].seq # 0 => i = j
    BY DEF AppliesOnce
  <2> QED
    BY DEF RoundsOnce, AppliesOnce
<1> QED
  BY <1>2, <1>3, <1>4, <1>5, <1>6 DEF RoundsOnce

\* A tally applies only past an open latch, and closes it.
LEMMA TallyLatch ==
    ASSUME NEW h \in Hubs, NEW r \in Round, NEW P \in SUBSET Hubs, NEW C \in SUBSET Hubs
    PROVE  LET t == Tally(h, r, P, C)
           IN  /\ t.applies => ~r.applying /\ t.round.applying
               /\ ~t.applies => t.round.applying = r.applying
<1> DEFINE p == r.prepares \cup P
           sends == P # {} /\ ReadyToCommit(r, p)
           added == C \cup (IF sends THEN {h} ELSE {})
           c == r.commits \cup added
           applies == added # {} /\ ReadyToApply(r, c)
<1>1. r.applying \in BOOLEAN
  BY DEF Round
<1>2. applies => ~r.applying
  BY DEF ReadyToApply
<1>3. Tally(h, r, P, C) =
        [round |-> [config |-> r.config, view |-> r.view, height |-> r.height,
                    leader |-> r.leader, prepares |-> p, commits |-> c,
                    commitSent |-> r.commitSent \/ sends,
                    applying |-> r.applying \/ applies],
         sends |-> sends, applies |-> applies]
  BY Zenon DEF Tally
<1> HIDE DEF p, sends, added, c, applies
<1>4. Tally(h, r, P, C).applies = applies /\ Tally(h, r, P, C).round.applying = (r.applying \/ applies)
  BY <1>3
<1> QED
  BY <1>1, <1>2, <1>4

\* A hub that has proposed or followed a slot's legitimate config has no other
\* proposal of the slot's leader to come.
LEMMA NothingAwaited ==
    ASSUME OneRotation, DifferentSubmits, TypeOK, AgreementInv, MessagesOnce, RoundsOnce,
           NEW h \in Hubs, NEW s \in Seqs, pending[h][s] # NoRound,
           Legit(s, pending[h][s].config)
    PROVE  ~Awaits(h, s)
<1> SUFFICES ASSUME Awaits(h, s) PROVE FALSE
  OBVIOUS
<1>1. PICK n \in net[h] \cup locking[h] : FromLeader(n) /\ n.seq = s
  BY DEF Awaits
<1>2. pending[h][s].leader /\ pending[h][s].config \in Submits[h]
  BY DEF RoundsOnce, FollowedOnce, Unfollowed, OwnRounds
<1>3. PICK m \in sent : FromLeader(m) /\ m.seq = s /\ m.config = pending[h][s].config
  BY LegitFromLeader
<1>4. m = n
  BY <1>1, <1>3, AwaitedWasSent, LeaderIsOne DEF MessagesOnce
<1>5. m.from \in Hubs /\ m.config \in Submits[m.from]
  BY <1>3, MessageFields DEF TypeOK, MessagesOnce, SubmittedOnly, FromLeader
<1>6. m.from = h
  BY <1>2, <1>3, <1>5 DEF DifferentSubmits
<1> QED
  BY <1>1, <1>4, <1>6 DEF MessagesOnce, HeldOnce

\* The slot s of hub h gets the round q, and with it at most one apply.
LEMMA RoundChanges ==
    ASSUME TypeOK, RoundsOnce, NEW h \in Hubs, NEW s \in Seqs, NEW q \in Round,
           NEW b \in Apply, b.seq = s, b.config = q.config, NEW B, B = {} \/ B = {b},
           pending' = [pending EXCEPT ![h][s] = q],
           inflight' = [inflight EXCEPT ![h] = @ \cup B],
           log' = log, writeFailed' = writeFailed, sent \subseteq sent',
           \A g \in Hubs : \A x \in Seqs : Awaits(g, x)' => Unfollowed(g, x),
           IF q.leader THEN q.config \in Submits[h] ELSE Legit(s, q.config)',
           B = {b} \/ ~q.leader => ~Awaits(h, s)',
           B = {b} => q.applying,
           h \notin writeFailed /\ B = {b} => \A c \in Configs : ~Applied(h, s, c),
           h \notin writeFailed /\ Applied(h, s, q.config) => q.applying
    PROVE  RoundsOnce'
<1>1. \A g \in Hubs : \A x \in Seqs :
        pending'[g][x] = IF g = h /\ x = s THEN q ELSE pending[g][x]
  BY DEF TypeOK
<1>2. \A g \in Hubs : inflight'[g] = IF g = h THEN inflight[h] \cup B ELSE inflight[g]
  BY DEF TypeOK
<1>3. ASSUME NEW g \in Hubs, NEW x, NEW c, Applied(g, x, c)'
      PROVE  Applied(g, x, c) \/ (g = h /\ x = s /\ c = q.config /\ B = {b})
  BY <1>2, <1>3 DEF Applied
<1>4. OwnRounds'
  BY <1>1 DEF RoundsOnce, OwnRounds
<1>5. FollowersLegit'
  <2> SUFFICES ASSUME NEW g \in Hubs, NEW x \in Seqs, NEW c,
                      pending'[g][x] # NoRound, ~pending'[g][x].leader, c = pending'[g][x].config
               PROVE  Legit(x, c)'
    BY DEF FollowersLegit, Legit, leaderAt
  <2>1. CASE g = h /\ x = s
    BY <1>1, <2>1
  <2>2. CASE ~(g = h /\ x = s)
    <3>1. Legit(x, c)
      BY <1>1, <2>2 DEF RoundsOnce, FollowersLegit
    <3> QED
      BY <3>1, LegitStays
  <2> QED
    BY <2>1, <2>2
<1>6. FollowedOnce'
  <2> SUFFICES ASSUME NEW g \in Hubs, NEW x \in Seqs, Awaits(g, x)'
               PROVE  /\ pending'[g][x] = NoRound \/ pending'[g][x].leader
                      /\ \A c \in Configs : ~Applied(g, x, c)'
    BY DEF FollowedOnce, Unfollowed
  <2>1. /\ pending[g][x] = NoRound \/ pending[g][x].leader
        /\ \A c \in Configs : ~Applied(g, x, c)
    BY DEF Unfollowed
  <2>2. g = h /\ x = s => B = {} /\ q.leader
    OBVIOUS
  <2>3. pending'[g][x] = NoRound \/ pending'[g][x].leader
    BY <1>1, <2>1, <2>2
  <2> QED
    BY <1>3, <2>1, <2>2, <2>3
<1>7. Latched'
  <2> SUFFICES ASSUME NEW g \in Hubs, g \notin writeFailed, NEW x \in Seqs,
                      pending'[g][x] # NoRound, NEW c, c = pending'[g][x].config,
                      Applied(g, x, c)'
               PROVE  pending'[g][x].applying
    BY DEF Latched, Applied
  <2>1. CASE g = h /\ x = s
    BY <1>1, <1>3, <2>1
  <2>2. CASE ~(g = h /\ x = s)
    <3>1. Applied(g, x, c)
      BY <1>3, <2>2
    <3> QED
      BY <1>1, <2>2, <3>1 DEF RoundsOnce, Latched
  <2> QED
    BY <2>1, <2>2
<1>8. AppliesOnce'
  <2> SUFFICES ASSUME NEW g \in Hubs, g \notin writeFailed
               PROVE  /\ \A a, d \in inflight'[g] : a.seq = d.seq => a = d
                      /\ \A a \in inflight'[g] : a.step = "applyConfig" =>
                            \A i \in DOMAIN log[g] : log[g][i].seq # a.seq
                      /\ \A i, j \in DOMAIN log[g] :
                            log[g][i].seq = log[g][j].seq /\ log[g][i].seq # 0 => i = j
    BY DEF AppliesOnce
  <2>1. /\ \A a, d \in inflight[g] : a.seq = d.seq => a = d
        /\ \A a \in inflight[g] : a.step = "applyConfig" =>
              \A i \in DOMAIN log[g] : log[g][i].seq # a.seq
        /\ \A i, j \in DOMAIN log[g] :
              log[g][i].seq = log[g][j].seq /\ log[g][i].seq # 0 => i = j
    BY DEF RoundsOnce, AppliesOnce
  <2>2. CASE g # h \/ B = {}
    BY <1>2, <2>1, <2>2
  <2>3. CASE g = h /\ B = {b}
    <3>1. \A c \in Configs : ~Applied(h, s, c)
      BY <2>3
    <3>2. \A a \in inflight[h] : a.seq # s
      BY <3>1, HeldMessages DEF Applied, Apply
    <3>3. \A i \in DOMAIN log[h] : log[h][i].seq # s
      <4>1. \A i \in DOMAIN log[h] : log[h][i] \in LogEntry
        BY DEF TypeOK
      <4>2. \A i \in DOMAIN log[h] : log[h][i].config \in Configs
        BY <4>1 DEF LogEntry
      <4> QED
        BY <3>1, <4>2 DEF Applied
    <3> QED
      BY <1>2, <2>1, <2>3, <3>2, <3>3
  <2> QED
    BY <2>2, <2>3
<1> QED
  BY <1>4, <1>5, <1>6, <1>7, <1>8 DEF RoundsOnce

\* A proposal still to be handled leaves its slot unfollowed, as it was before.
LEMMA UnfollowedStays ==
    ASSUME RoundsOnce, \A g \in Hubs : \A x : Awaits(g, x)' => Awaits(g, x)
    PROVE  \A g \in Hubs : \A x \in Seqs : Awaits(g, x)' => Unfollowed(g, x)
  BY DEF RoundsOnce, FollowedOnce

\* Tallying votes on the open round of a legitimate config: the latch lets one
\* apply through (votes.js).
LEMMA RecordOnce ==
    ASSUME OneRotation, DifferentSubmits, TypeOK, AgreementInv, MessagesOnce, RoundsOnce,
           NEW h \in Hubs, NEW s \in Seqs, NEW r \in Round, r = pending[h][s],
           NEW P \in SUBSET Hubs, NEW C \in SUBSET Hubs, NEW in, NEW out,
           Legit(s, r.config), Record(h, s, Tally(h, r, P, C), in, out),
           \A m \in out : m.type # "PRE_PREPARE" /\ m.from = h,
           locking' = locking, log' = log, writeFailed' = writeFailed
    PROVE  MessagesOnce' /\ RoundsOnce'
<1> DEFINE t == Tally(h, r, P, C)
           commit == Vote("COMMIT", h, s, t.round)
           all == out \cup IF t.sends THEN {commit} ELSE {}
           b == [seq |-> s, config |-> t.round.config, height |-> t.round.height,
                 leader |-> t.round.leader, step |-> "applyConfig"]
           B == IF t.applies THEN {b} ELSE {}
<1>1. /\ t.round \in Round /\ t.round.config = r.config /\ t.round.leader = r.leader
      /\ t.applies \in BOOLEAN
  BY TallyIsARound
<1>2. /\ t.applies => ~r.applying /\ t.round.applying
      /\ ~t.applies => t.round.applying = r.applying
  BY TallyLatch
<1>3. b \in Apply /\ b.seq = s /\ b.config = t.round.config
  <2> HIDE DEF t
  <2> QED
    BY <1>1 DEF Apply, Round
<1>4. commit.type # "PRE_PREPARE" /\ commit.from = h
  BY DEF Vote
<1>5. Exchange(h, in, all)
  BY DEF Record
<1>6. \A m \in all : m.type # "PRE_PREPARE" /\ m.from = h
  <2> HIDE DEF commit, t
  <2> QED
    BY <1>4
<1> HIDE DEF all
<1>7. /\ MessagesOnce' /\ sent \subseteq sent'
      /\ \A g \in Hubs : \A x : Awaits(g, x)' => Awaits(g, x)
  BY <1>5, <1>6, QuietMessages
<1>8. /\ pending' = [pending EXCEPT ![h][s] = t.round]
      /\ inflight' = [inflight EXCEPT ![h] = @ \cup B]
  BY DEF Record
<1>9. r # NoRound
  BY RoundAssumption
<1>10. ~Awaits(h, s)'
  BY <1>7, <1>9, NothingAwaited
<1>11. h \notin writeFailed /\ Applied(h, s, r.config) => r.applying
  BY <1>9 DEF RoundsOnce, Latched
<1>12. ASSUME h \notin writeFailed, t.applies, NEW c \in Configs
       PROVE  ~Applied(h, s, c)
  <2>1. Applied(h, s, c) => c = r.config
    BY AppliedIsLegit, LegitUnique DEF AgreementInv
  <2> QED
    BY <1>2, <1>11, <1>12, <2>1
<1>13. IF r.leader THEN r.config \in Submits[h] ELSE Legit(s, r.config)'
  BY <1>7, <1>9, LegitStays DEF RoundsOnce, OwnRounds
<1>14. \A g \in Hubs : \A x \in Seqs : Awaits(g, x)' => Unfollowed(g, x)
  BY <1>7, UnfollowedStays
<1> HIDE DEF t, b, B
<1>15. PICK q, d, D : q = t.round /\ d = b /\ D = B
  OBVIOUS
<1>16. /\ q \in Round /\ q.config = r.config /\ q.leader = r.leader
       /\ d \in Apply /\ d.seq = s /\ d.config = q.config
       /\ pending' = [pending EXCEPT ![h][s] = q]
       /\ inflight' = [inflight EXCEPT ![h] = @ \cup D]
  BY <1>1, <1>3, <1>8, <1>15
<1>17. (D = {} \/ D = {d}) /\ (D = {d} => t.applies)
  BY <1>15 DEF B
<1>18. (t.applies => q.applying) /\ (~t.applies => q.applying = r.applying)
  BY <1>2, <1>15
<1>19. IF q.leader THEN q.config \in Submits[h] ELSE Legit(s, q.config)'
  BY <1>13, <1>16, Zenon
<1>20. h \notin writeFailed /\ Applied(h, s, q.config) => q.applying
  <2>1. h \notin writeFailed /\ Applied(h, s, r.config) => q.applying
    BY <1>2, <1>11, <1>18
  <2> QED
    BY <1>16, <2>1, Zenon
<1>21. /\ D = {d} => q.applying
       /\ h \notin writeFailed /\ D = {d} => \A c \in Configs : ~Applied(h, s, c)
       /\ D = {d} \/ ~q.leader => ~Awaits(h, s)'
  BY <1>10, <1>12, <1>17, <1>18
<1>22. RoundsOnce'
  BY <1>7, <1>14, <1>16, <1>17, <1>19, <1>20, <1>21, RoundChanges
<1> QED
  BY <1>7, <1>22

\* A step that sends no proposal, opens no round and starts no apply.
LEMMA QuietOnce ==
    ASSUME TypeOK, AgreementInv, MessagesOnce, RoundsOnce,
           NEW h \in Hubs, NEW in, NEW out, Exchange(h, in, out),
           \A m \in out : m.type # "PRE_PREPARE" /\ m.from = h,
           \A g \in Hubs : locking'[g] \subseteq locking[g],
           log' = log, \A g \in Hubs : inflight'[g] \subseteq inflight[g],
           writeFailed \subseteq writeFailed',
           \A g \in Hubs : \A s \in Seqs :
               \/ pending'[g][s] = NoRound
               \/ /\ pending[g][s] # NoRound
                  /\ pending'[g][s].config = pending[g][s].config
                  /\ pending'[g][s].leader = pending[g][s].leader
                  /\ g \in writeFailed' \/ pending'[g][s].applying = pending[g][s].applying
    PROVE  MessagesOnce' /\ RoundsOnce'
<1>1. /\ MessagesOnce' /\ sent \subseteq sent'
      /\ \A g \in Hubs : \A s : Awaits(g, s)' => Awaits(g, s)
  BY QuietMessages
<1>2. RoundsOnce'
  BY <1>1, QuietRounds
<1> QED
  BY <1>1, <1>2

\* Rounds that stay as they are meet the condition of QuietOnce.
LEMMA SameRounds ==
    ASSUME pending' = pending
    PROVE  \A g \in Hubs : \A s \in Seqs :
               \/ pending'[g][s] = NoRound
               \/ /\ pending[g][s] # NoRound
                  /\ pending'[g][s].config = pending[g][s].config
                  /\ pending'[g][s].leader = pending[g][s].leader
                  /\ g \in writeFailed' \/ pending'[g][s].applying = pending[g][s].applying
  OBVIOUS

\* A message that is dropped.
LEMMA DropOnce ==
    ASSUME TypeOK, AgreementInv, MessagesOnce, RoundsOnce, NEW h \in Hubs, NEW m, Drop(h, m)
    PROVE  MessagesOnce' /\ RoundsOnce'
<1> DEFINE out == {}
<1>1. \A n \in out : n.type # "PRE_PREPARE" /\ n.from = h
  OBVIOUS
<1>2. Exchange(h, {m}, out)
  BY DEF Drop
<1> HIDE DEF out
<1>3. locking' = locking /\ inflight' = inflight /\ log' = log /\ pending' = pending
      /\ writeFailed' = writeFailed
  BY DEF Drop
<1> QED
  BY <1>1, <1>2, <1>3, SameRounds, QuietOnce

\* The votes on an open round keep the invariant (votes.js).
LEMMA VoteOnce ==
    ASSUME OneRotation, DifferentSubmits, TypeOK, AgreementInv, MessagesOnce, RoundsOnce,
           NEW h \in Hubs, NEW m \in net[h],
           \/ dropVote(h, m) \/ handlePrepare(h, m) \/ handleCommit(h, m)
           \/ \E lapsed : bufferVote(h, m, lapsed)
    PROVE  MessagesOnce' /\ RoundsOnce'
<1> DEFINE none == {}
           one == {m.from}
<1>1. m \in sent /\ m.seq \in Seqs /\ none \in SUBSET Hubs /\ one \in SUBSET Hubs
  BY HeldMessages, MessageFields DEF AgreementInv, NetSent
<1>2. \A n \in none : n.type # "PRE_PREPARE" /\ n.from = h
  OBVIOUS
<1>3. ASSUME handlePrepare(h, m) \/ handleCommit(h, m)
      PROVE  MessagesOnce' /\ RoundsOnce'
  <2>1. PICK r : r = pending[h][m.seq]
    OBVIOUS
  <2>2. r \in Round /\ r # NoRound /\ r.config = m.config /\ m.type \in Ballots
    BY <1>1, <1>3, <2>1 DEF handlePrepare, handleCommit, VoteCounts, Receive, Ballots, TypeOK
  <2>3. Legit(m.seq, r.config)
    BY <1>1, <2>2 DEF AgreementInv, VotesLegit
  <2>4. \/ Record(h, m.seq, Tally(h, r, one, none), {m}, none)
        \/ Record(h, m.seq, Tally(h, r, none, one), {m}, none)
    BY <1>3, <2>1 DEF handlePrepare, handleCommit
  <2>5. locking' = locking /\ log' = log /\ writeFailed' = writeFailed
    BY <1>3 DEF handlePrepare, handleCommit
  <2> HIDE DEF none, one
  <2> QED
    BY <1>1, <1>2, <2>1, <2>2, <2>3, <2>4, <2>5, RecordOnce
<1>4. ASSUME NEW lapsed, bufferVote(h, m, lapsed)
      PROVE  MessagesOnce' /\ RoundsOnce'
  <2>1. Exchange(h, {m}, none) /\ inflight' = inflight /\ log' = log
        /\ pending' = pending /\ locking' = locking /\ writeFailed' = writeFailed
    BY <1>4 DEF bufferVote
  <2> HIDE DEF none
  <2> QED
    BY <1>2, <2>1, SameRounds, QuietOnce
<1>5. CASE dropVote(h, m)
  BY <1>5, DropOnce DEF dropVote
<1> QED
  BY <1>3, <1>4, <1>5

\* VIEW_CHANGE and NEW_VIEW keep the invariant (view_change.js).
LEMMA ViewChangeOnce ==
    ASSUME TypeOK, AgreementInv, MessagesOnce, RoundsOnce, NEW h \in Hubs, NEW m \in net[h],
           \/ tallyViewChange(h, m) \/ acceptViewChange(h, m) \/ dropViewChange(h, m)
           \/ handleNewView(h, m) \/ dropNewView(h, m)
    PROVE  MessagesOnce' /\ RoundsOnce'
<1>1. CASE tallyViewChange(h, m) \/ acceptViewChange(h, m) \/ handleNewView(h, m)
  <2> DEFINE n == ViewNotice("NEW_VIEW", h, m.seq, m.view)
  <2>1. \E out : Exchange(h, {m}, out) /\ (out = {} \/ out = {n})
    BY <1>1 DEF tallyViewChange, acceptViewChange, handleNewView
  <2>2. n.type = "NEW_VIEW" /\ n.from = h
    BY DEF ViewNotice
  <2> HIDE DEF n
  <2>3. PICK out : Exchange(h, {m}, out) /\ (out = {} \/ out = {n})
    BY <2>1
  <2>4. \A k \in out : k.type # "PRE_PREPARE" /\ k.from = h
    BY <2>2, <2>3
  <2>5. inflight' = inflight /\ log' = log /\ locking' = locking /\ pending' = pending
        /\ writeFailed' = writeFailed
    BY <1>1 DEF tallyViewChange, acceptViewChange, handleNewView
  <2> QED
    BY <2>3, <2>4, <2>5, SameRounds, QuietOnce
<1>2. CASE dropViewChange(h, m) \/ dropNewView(h, m)
  BY <1>2, DropOnce DEF dropViewChange, dropNewView
<1> QED
  BY <1>1, <1>2

\* Round timers only close rounds.
LEMMA TimerOnce ==
    ASSUME TypeOK, AgreementInv, MessagesOnce, RoundsOnce, NEW h \in Hubs, NEW t \in timers[h],
           expireFollowerRound(h, t) \/ initiateViewChange(h, t)
    PROVE  MessagesOnce' /\ RoundsOnce'
<1> DEFINE n == ViewNotice("VIEW_CHANGE", h, t.seq, view[h] + 1)
<1>1. n.type = "VIEW_CHANGE" /\ n.from = h
  BY DEF ViewNotice
<1>2. \E out : Exchange(h, {}, out) /\ (out = {} \/ out = {n})
  <2>1. CASE expireFollowerRound(h, t)
    BY <2>1, NoExchange DEF expireFollowerRound
  <2>2. CASE initiateViewChange(h, t)
    BY <2>2 DEF initiateViewChange
  <2> QED
    BY <2>1, <2>2
<1> HIDE DEF n
<1>3. PICK out : Exchange(h, {}, out) /\ (out = {} \/ out = {n})
  BY <1>2
<1>4. \A k \in out : k.type # "PRE_PREPARE" /\ k.from = h
  BY <1>1, <1>3
<1>5. /\ t.seq \in Seqs
      /\ pending' = [pending EXCEPT ![h][t.seq] = NoRound]
      /\ inflight' = inflight /\ log' = log /\ locking' = locking /\ writeFailed' = writeFailed
  BY HeldMessages DEF Timer, expireFollowerRound, initiateViewChange
<1>6. \A g \in Hubs : \A s \in Seqs :
         pending'[g][s] = NoRound \/ pending'[g][s] = pending[g][s]
  BY <1>5 DEF TypeOK
<1>7. PICK none : none = {}
  OBVIOUS
<1>8. Exchange(h, none, out)
  BY <1>3, <1>7
<1> QED
  BY <1>4, <1>5, <1>6, <1>8, QuietOnce

\* A PRE_PREPARE that is awaited, joined or dropped (pre_prepare.js).
LEMMA PrePrepareOnce ==
    ASSUME OneRotation, DifferentSubmits, TypeOK, AgreementInv, MessagesOnce, RoundsOnce,
           NEW h \in Hubs, NEW m \in net[h],
           beginPrePrepare(h, m) \/ joinPrePrepare(h, m) \/ dropPrePrepare(h, m)
    PROVE  MessagesOnce' /\ RoundsOnce'
<1>1. m \in sent /\ m \in Message /\ m.seq \in Seqs /\ m.from # h
  BY HeldMessages, MessageFields DEF AgreementInv, NetSent, MessagesOnce, HeldOnce
<1>2. CASE beginPrePrepare(h, m)
  <2>1. /\ sent' = sent /\ pending' = pending /\ inflight' = inflight /\ log' = log
        /\ writeFailed' = writeFailed
        /\ \A g \in Hubs : net'[g] = IF g = h THEN net[h] \ {m} ELSE net[g]
        /\ \A g \in Hubs : locking'[g] = IF g = h THEN locking[h] \cup {m} ELSE locking[g]
    BY <1>2 DEF beginPrePrepare, Exchange, TypeOK
  <2>2. OneProposal' /\ SubmittedOnly'
    BY <2>1 DEF MessagesOnce, OneProposal, SubmittedOnly
  <2>3. HeldOnce'
    BY <1>1, <2>1 DEF MessagesOnce, HeldOnce
  <2>4. ASSUME NEW g \in Hubs, NEW s, Awaits(g, s)' PROVE Awaits(g, s)
    <3>1. net'[g] \cup locking'[g] \subseteq net[g] \cup locking[g]
      BY <2>1
    <3> QED
      BY <2>4, <3>1 DEF Awaits, FromLeader, leaderAt
  <2>5. RoundsOnce'
    BY <2>1, <2>4, SameRounds, QuietRounds
  <2> QED
    BY <2>2, <2>3, <2>5 DEF MessagesOnce
<1>3. CASE joinPrePrepare(h, m)
  <2> DEFINE P == {m.from, h} \cup Replayed(h, m, "PREPARE")
             C == Replayed(h, m, "COMMIT")
  <2>1. PICK r : r = pending[h][m.seq]
    OBVIOUS
  <2>2. r \in Round /\ r.height \in Heights /\ r # NoRound /\ r.config = m.config
    BY <1>1, <1>3, <2>1 DEF joinPrePrepare, TypeOK, Round
  <2>3. NeedsRound(r.height)
    BY <1>1, <2>1, <2>2 DEF AgreementInv, RoundsNeeded
  <2>4. Legit(m.seq, m.config)
    <3>1. m.type = "PRE_PREPARE" /\ leaderAt(m.seq, m.view, r.height) = m.from
      BY <1>3, <2>1 DEF joinPrePrepare, Receive, leaderIdentityOk
    <3>2. m.height \in Heights /\ NeedsRound(m.height)
      BY <1>1, <3>1 DEF AgreementInv, ProposalsOwned
    <3>3. leaderAt(m.seq, m.view, m.height) = m.from
      BY <2>2, <2>3, <3>1, <3>2, SameLeader
    <3> QED
      BY <1>1, <3>1, <3>3 DEF Legit
  <2>5. P \in SUBSET Hubs /\ C \in SUBSET Hubs
    BY <1>1, HeldMessages, MessageFields DEF Replayed, Early
  <2>6. PICK out : out = {Vote("PREPARE", h, m.seq, r)}
    OBVIOUS
  <2>7. \A n \in out : n.type # "PRE_PREPARE" /\ n.from = h
    BY <2>6 DEF Vote
  <2>8. Record(h, m.seq, Tally(h, r, P, C), {m}, out)
    BY <1>3, <2>1, <2>6 DEF joinPrePrepare, castPrepare
  <2>9. locking' = locking /\ log' = log /\ writeFailed' = writeFailed
    BY <1>3 DEF joinPrePrepare
  <2>10. Legit(m.seq, r.config)
    BY <2>2, <2>4
  <2> HIDE DEF P, C
  <2> QED
    BY <1>1, <2>1, <2>2, <2>5, <2>7, <2>8, <2>9, <2>10, RecordOnce
<1>4. CASE dropPrePrepare(h, m)
  BY <1>4, DropOnce DEF dropPrePrepare
<1> QED
  BY <1>2, <1>3, <1>4

\* A hub follows a slot for the first time: the proposal it awaited was the only one
\* of the slot's leader, and nothing was applied under the slot before.
LEMMA OpenOnce ==
    ASSUME OneRotation, TypeOK, AgreementInv, MessagesOnce, RoundsOnce,
           NEW h \in Hubs, NEW m \in locking[h], openFollowerRound(h, m)
    PROVE  MessagesOnce' /\ RoundsOnce'
<1> DEFINE s == m.seq
           P == {m.from, h} \cup Replayed(h, m, "PREPARE")
           C == Replayed(h, m, "COMMIT")
<1>1. /\ m \in sent /\ m.type = "PRE_PREPARE" /\ m \in Message /\ s \in Seqs
      /\ m.config \in Configs /\ m.view \in Views /\ m.height \in Heights
  BY HeldMessages, MessageFields DEF AgreementInv, LockingSent
<1>2. FromLeader(m)
  BY <1>1 DEF openFollowerRound, followerRoundQuorum, leaderIdentityOk, FromLeader
<1>3. Unfollowed(h, s)
  BY <1>1, <1>2 DEF RoundsOnce, FollowedOnce, Awaits
<1>4. P \in SUBSET Hubs /\ C \in SUBSET Hubs
  BY <1>1, HeldMessages, MessageFields DEF Replayed, Early
<1>5. PICK r \in Round : /\ r = NewRound(m.config, m.view, m.height, FALSE)
                         /\ r.config = m.config /\ r.leader = FALSE /\ r.applying = FALSE
  BY <1>1, NewRoundIsARound DEF NewRound
<1>6. PICK prepare : prepare = Vote("PREPARE", h, s, r)
  OBVIOUS
<1> HIDE DEF P, C
<1>7. /\ Record(h, s, Tally(h, r, P, C), {}, {prepare})
      /\ locking' = [locking EXCEPT ![h] = @ \ {m}]
      /\ log' = log /\ writeFailed' = writeFailed
  BY <1>5, <1>6 DEF openFollowerRound, castPrepare, P, C
<1> DEFINE t == Tally(h, r, P, C)
           commit == Vote("COMMIT", h, s, t.round)
           all == {prepare} \cup IF t.sends THEN {commit} ELSE {}
           b == [seq |-> s, config |-> t.round.config, height |-> t.round.height,
                 leader |-> t.round.leader, step |-> "applyConfig"]
           B == IF t.applies THEN {b} ELSE {}
<1>8. /\ t.round \in Round /\ t.round.config = m.config /\ t.round.leader = FALSE
      /\ t.applies \in BOOLEAN
  <2>1. /\ t.round \in Round /\ t.round.config = r.config /\ t.round.leader = r.leader
        /\ t.applies \in BOOLEAN
    BY <1>4, TallyIsARound, SMTT(30)
  <2> HIDE DEF t
  <2> QED
    BY <1>5, <2>1
<1>9. t.applies => t.round.applying
  BY <1>4, TallyLatch
<1>10. b \in Apply /\ b.seq = s /\ b.config = t.round.config
  <2> HIDE DEF t
  <2> QED
    BY <1>1, <1>8 DEF Apply, Round
<1>11. \A k \in all : k.type # "PRE_PREPARE" /\ k.from = h
  <2>1. commit.type = "COMMIT" /\ commit.from = h
    BY DEF Vote
  <2>2. prepare.type = "PREPARE" /\ prepare.from = h
    BY <1>6 DEF Vote
  <2> HIDE DEF commit, t
  <2> QED
    BY <2>1, <2>2
<1>12. /\ pending' = [pending EXCEPT ![h][s] = t.round]
       /\ inflight' = [inflight EXCEPT ![h] = @ \cup B]
       /\ Exchange(h, {}, all)
  BY <1>7 DEF Record
<1> HIDE DEF all, t, b, B
<1>13. PICK none : none = {} /\ Exchange(h, none, all)
  BY <1>12
<1>14. \A g \in Hubs : locking'[g] \subseteq locking[g]
  BY <1>7 DEF TypeOK
<1>15. /\ MessagesOnce' /\ sent \subseteq sent'
       /\ \A g \in Hubs : \A x : Awaits(g, x)' => Awaits(g, x)
  BY <1>11, <1>13, <1>14, QuietMessages
<1>16. ~Awaits(h, s)'
  <2> SUFFICES ASSUME NEW n \in net'[h] \cup locking'[h], FromLeader(n), n.seq = s PROVE FALSE
    BY DEF Awaits, FromLeader, leaderAt
  <2>1. net'[h] = net[h] /\ locking'[h] = locking[h] \ {m}
    BY <1>7, <1>13 DEF Exchange, TypeOK
  <2>2. n \in sent
    BY <2>1, AwaitedWasSent
  <2>3. n = m
    BY <1>1, <1>2, <2>2, LeaderIsOne DEF MessagesOnce
  <2> QED
    BY <2>1, <2>3 DEF MessagesOnce, HeldOnce
<1>17. \A g \in Hubs : \A x \in Seqs : Awaits(g, x)' => Unfollowed(g, x)
  BY <1>15, UnfollowedStays
<1>18. Legit(s, m.config)'
  <2>1. Legit(s, m.config)
    BY <1>1, <1>2 DEF FromLeader, Legit
  <2> QED
    BY <1>15, <2>1, LegitStays
<1>19. PICK q, d, D, x : q = t.round /\ d = b /\ D = B /\ x = s
  OBVIOUS
<1>20. /\ x \in Seqs /\ q \in Round /\ q.config = m.config /\ q.leader = FALSE
       /\ d \in Apply /\ d.seq = x /\ d.config = q.config
       /\ pending' = [pending EXCEPT ![h][x] = q]
       /\ inflight' = [inflight EXCEPT ![h] = @ \cup D]
  BY <1>1, <1>8, <1>10, <1>12, <1>19
<1>21. (D = {} \/ D = {d}) /\ (D = {d} => q.applying)
  BY <1>9, <1>19 DEF B
<1>22. Legit(x, q.config)'
  BY <1>18, <1>19, <1>20, Zenon
<1>23. ~Awaits(h, x)' /\ \A c \in Configs : ~Applied(h, x, c)
  BY <1>3, <1>16, <1>19 DEF Unfollowed
<1>24. ~Applied(h, x, q.config)
  BY <1>1, <1>20, <1>23
<1>25. RoundsOnce'
  BY <1>7, <1>15, <1>17, <1>20, <1>21, <1>22, <1>23, <1>24, RoundChanges
<1> QED
  BY <1>15, <1>25

\* A hub leads a slot it never proposed for.  If the rotation's leader is another
\* hub, what that one proposed is another config; if it is this hub, nobody has
\* followed the slot yet (propose.js).
LEMMA LeadOnce ==
    ASSUME OneRotation, NoLoneStakeQuorum, DifferentSubmits,
           TypeOK, AgreementInv, MessagesOnce, RoundsOnce,
           NEW h \in Hubs, NEW c \in Submits[h], NEW ht \in Heights, proposeAsLeader(h, c, ht)
    PROVE  MessagesOnce' /\ RoundsOnce'
<1>1. c \in Configs
  BY DataAssumption
<1> PICK s \in Seqs, q \in Round, pp \in Message : ProposedAs(h, c, ht, s, q, pp)
  BY <1>1, ProposedAlone
<1>2. /\ seq[h] < s /\ q.config = c /\ q.leader = TRUE /\ NeedsRound(ht)
      /\ pp.type = "PRE_PREPARE" /\ pp.from = h /\ pp.seq = s
      /\ pp.view = 0 /\ pp.height = ht /\ pp.config = c
      /\ Exchange(h, {}, {pp})
      /\ pending' = [pending EXCEPT ![h][s] = q]
      /\ inflight' = inflight /\ locking' = locking /\ log' = log
      /\ writeFailed' = writeFailed
  BY DEF ProposedAs
<1>3. \A m \in sent : m.type = "PRE_PREPARE" /\ m.from = h => m.seq # s
  <2> SUFFICES ASSUME NEW m \in sent, m.type = "PRE_PREPARE", m.from = h PROVE m.seq # s
    OBVIOUS
  <2>1. m.seq <= seq[h] /\ m.seq \in Nat /\ seq[h] \in Nat /\ s \in Nat
    BY MessageFields, BoundsAssumption DEF AgreementInv, ProposalsOwned, TypeOK, Seqs
  <2> QED
    BY <1>2, <2>1
<1>4. sent' = sent \cup {pp} /\ sent \subseteq sent' /\ pp \notin sent
      /\ \A g \in Hubs : net'[g] \subseteq net[g] \cup (IF g = h THEN {} ELSE {pp})
  BY <1>2, <1>3 DEF Exchange
<1>5. OneProposal'
  BY <1>2, <1>3, <1>4 DEF MessagesOnce, OneProposal
<1>6. SubmittedOnly'
  BY <1>2, <1>4 DEF MessagesOnce, SubmittedOnly
<1>7. HeldOnce'
  <2> SUFFICES ASSUME NEW g \in Hubs
               PROVE  /\ net'[g] \cap locking'[g] = {}
                      /\ \A m \in net'[g] \cup locking'[g] : m.from # g
    BY DEF HeldOnce
  <2>1. pp \notin locking[g]
    BY <1>4 DEF AgreementInv, LockingSent
  <2>2. net'[g] \cap locking'[g] = {}
    BY <1>2, <1>4, <2>1 DEF MessagesOnce, HeldOnce
  <2>3. ASSUME NEW m \in net'[g] \cup locking'[g] PROVE m.from # g
    <3>1. m \in net[g] \cup locking[g] \/ (g # h /\ m = pp)
      BY <1>2, <1>4
    <3> QED
      BY <1>2, <3>1 DEF MessagesOnce, HeldOnce
  <2> QED
    BY <2>2, <2>3
<1>8. ASSUME FromLeader(pp), NEW d PROVE ~Legit(s, d)
  \* The slot is this hub's own: nothing was legitimate before it proposed.
  <2> SUFFICES ASSUME Legit(s, d) PROVE FALSE
    OBVIOUS
  <2>1. PICK m \in sent : FromLeader(m) /\ m.seq = s
    BY LegitFromLeader
  <2>2. m.view = 0 /\ m.height \in Heights /\ NeedsRound(m.height)
    BY <2>1 DEF AgreementInv, ProposalsOwned, FromLeader
  <2>3. m.from = h
    BY <1>2, <1>8, <2>1, <2>2, SameLeader DEF FromLeader
  <2> QED
    BY <1>3, <2>1, <2>3 DEF FromLeader
<1>9. ASSUME NEW g \in Hubs, NEW x \in Seqs, Awaits(g, x)' PROVE Unfollowed(g, x)
  <2>1. PICK m \in net'[g] \cup locking'[g] : FromLeader(m) /\ m.seq = x
    BY <1>9 DEF Awaits, FromLeader, leaderAt
  <2>2. CASE m \in net[g] \cup locking[g]
    BY <2>1, <2>2 DEF RoundsOnce, FollowedOnce, Awaits
  <2>3. CASE m = pp
    <3>1. x = s /\ \A d : ~Legit(s, d)
      BY <1>2, <1>8, <2>1, <2>3
    <3>2. pending[g][x] = NoRound \/ pending[g][x].leader
      BY <3>1 DEF RoundsOnce, FollowersLegit
    <3>3. \A d \in Configs : ~Applied(g, x, d)
      BY <3>1, AppliedIsLegit
    <3> QED
      BY <3>2, <3>3 DEF Unfollowed
  <2> QED
    BY <1>2, <1>4, <2>2, <2>3
<1>10. ~Applied(h, s, c)
  <2> SUFFICES ASSUME Applied(h, s, c) PROVE FALSE
    OBVIOUS
  <2>1. PICK m \in sent : FromLeader(m) /\ m.seq = s /\ m.config = c
    BY AppliedIsLegit, LegitFromLeader
  <2>2. m.from \in Hubs /\ c \in Submits[m.from]
    BY <2>1, MessageFields DEF TypeOK, MessagesOnce, SubmittedOnly, FromLeader
  <2>3. m.from = h
    BY <2>2 DEF DifferentSubmits
  <2> QED
    BY <1>3, <2>1, <2>3 DEF FromLeader
<1>11. PICK b \in Apply : b.seq = s /\ b.config = q.config
  <2> DEFINE a == [seq |-> s, config |-> c, height |-> ht, leader |-> TRUE, step |-> "applyConfig"]
  <2>1. a \in Apply /\ a.seq = s /\ a.config = c
    BY <1>1 DEF Apply
  <2> HIDE DEF a
  <2> QED
    BY <1>2, <2>1
<1>12. PICK B : B = {}
  OBVIOUS
<1>13. B # {b} /\ inflight' = [inflight EXCEPT ![h] = @ \cup B]
  BY <1>2, <1>12 DEF TypeOK
<1>14. ~Applied(h, s, q.config) /\ q.config \in Submits[h]
  BY <1>2, <1>10
<1>15. RoundsOnce'
  BY <1>2, <1>4, <1>9, <1>11, <1>12, <1>13, <1>14, RoundChanges
<1> QED
  BY <1>5, <1>6, <1>7, <1>15 DEF MessagesOnce

\* Where an entry of a log that grew comes from.
LEMMA LogGrows ==
    ASSUME TypeOK, NEW h \in Hubs, NEW e, log' = [log EXCEPT ![h] = Append(@, e)],
           NEW g \in Hubs, NEW i \in DOMAIN log'[g]
    PROVE  \/ i \in DOMAIN log[g] /\ log'[g][i] = log[g][i]
           \/ g = h /\ i = Len(log[h]) + 1 /\ log'[g][i] = e
  BY DEF TypeOK

\* A config applied without a round has no slot.
LEMMA DirectOnce ==
    ASSUME TypeOK, AgreementInv, MessagesOnce, RoundsOnce,
           NEW h \in Hubs, NEW c, NEW ht, proposeDirect(h, c, ht)
    PROVE  MessagesOnce' /\ RoundsOnce'
<1>1. PICK e : e = [seq |-> 0, config |-> c, height |-> ht]
  OBVIOUS
<1>2. /\ e.seq = 0 /\ log' = [log EXCEPT ![h] = Append(@, e)]
      /\ sent' = sent /\ net' = net /\ locking' = locking /\ pending' = pending
      /\ inflight' = inflight /\ writeFailed' = writeFailed
  BY <1>1 DEF proposeDirect
<1>3. MessagesOnce'
  BY <1>2 DEF MessagesOnce, OneProposal, SubmittedOnly, HeldOnce
<1>4. ASSUME NEW g \in Hubs, NEW s \in Seqs, NEW d, Applied(g, s, d)' PROVE Applied(g, s, d)
  <2>1. s # 0
    BY BoundsAssumption DEF Seqs
  <2> QED
    BY <1>2, <1>4, <2>1, LogGrows DEF Applied
<1>5. OwnRounds' /\ FollowersLegit'
  BY <1>2 DEF RoundsOnce, OwnRounds, FollowersLegit, Legit, leaderAt
<1>6. FollowedOnce'
  <2> SUFFICES ASSUME NEW g \in Hubs, NEW s \in Seqs, Awaits(g, s)'
               PROVE  /\ pending'[g][s] = NoRound \/ pending'[g][s].leader
                      /\ \A d \in Configs : ~Applied(g, s, d)'
    BY DEF FollowedOnce, Unfollowed
  <2>1. Awaits(g, s)
    BY <1>2 DEF Awaits, FromLeader, leaderAt
  <2> QED
    BY <1>2, <1>4, <2>1 DEF RoundsOnce, FollowedOnce, Unfollowed
<1>7. Latched'
  <2> SUFFICES ASSUME NEW g \in Hubs, g \notin writeFailed, NEW s \in Seqs,
                      pending[g][s] # NoRound, NEW d, d = pending[g][s].config, Applied(g, s, d)'
               PROVE  pending[g][s].applying
    BY <1>2 DEF Latched, Applied
  <2> QED
    BY <1>4 DEF RoundsOnce, Latched
<1>8. AppliesOnce'
  <2> SUFFICES ASSUME NEW g \in Hubs, g \notin writeFailed
               PROVE  /\ \A a, b \in inflight[g] : a.seq = b.seq => a = b
                      /\ \A a \in inflight[g] : a.step = "applyConfig" =>
                            \A i \in DOMAIN log'[g] : log'[g][i].seq # a.seq
                      /\ \A i, j \in DOMAIN log'[g] :
                            log'[g][i].seq = log'[g][j].seq /\ log'[g][i].seq # 0 => i = j
    BY <1>2 DEF AppliesOnce
  <2>1. /\ \A a, b \in inflight[g] : a.seq = b.seq => a = b
        /\ \A a \in inflight[g] : a.step = "applyConfig" =>
              \A i \in DOMAIN log[g] : log[g][i].seq # a.seq
        /\ \A i, j \in DOMAIN log[g] :
              log[g][i].seq = log[g][j].seq /\ log[g][i].seq # 0 => i = j
    BY DEF RoundsOnce, AppliesOnce
  <2>2. \A a \in inflight[g] : a.seq # 0
    BY HeldMessages, BoundsAssumption DEF Apply, Seqs
  <2> QED
    BY <1>2, <2>1, <2>2, LogGrows
<1> QED
  BY <1>3, <1>5, <1>6, <1>7, <1>8 DEF RoundsOnce

\* hub.applyConfig succeeds: the apply moves into the log, and only one did.
LEMMA ApplyOnce ==
    ASSUME TypeOK, AgreementInv, MessagesOnce, RoundsOnce,
           NEW h \in Hubs, NEW a \in inflight[h], applyConfig(h, a)
    PROVE  MessagesOnce' /\ RoundsOnce'
<1>1. PICK e, b : /\ e = [seq |-> a.seq, config |-> a.config, height |-> a.height]
                  /\ b = [a EXCEPT !.step = "saveSeq"]
  OBVIOUS
<1>2. /\ a \in Apply /\ a.step = "applyConfig" /\ a.seq \in Seqs
      /\ e.seq = a.seq /\ e.config = a.config
      /\ b.seq = a.seq /\ b.config = a.config /\ b.step = "saveSeq"
  BY <1>1, HeldMessages DEF Apply, applyConfig
<1>3. /\ inflight' = [inflight EXCEPT ![h] = (@ \ {a}) \cup {b}]
      /\ log' = [log EXCEPT ![h] = Append(@, e)]
      /\ sent' = sent /\ net' = net /\ locking' = locking /\ pending' = pending
      /\ writeFailed' = writeFailed
  BY <1>1 DEF applyConfig
<1>4. \A g \in Hubs : inflight'[g] = IF g = h THEN (inflight[h] \ {a}) \cup {b} ELSE inflight[g]
  BY <1>3 DEF TypeOK
<1>5. MessagesOnce'
  BY <1>3 DEF MessagesOnce, OneProposal, SubmittedOnly, HeldOnce
<1>6. ASSUME NEW g \in Hubs, NEW s, NEW d, Applied(g, s, d)' PROVE Applied(g, s, d)
  <2>1. CASE \E k \in inflight'[g] : k.seq = s /\ k.config = d
    BY <1>2, <1>4, <2>1 DEF Applied
  <2>2. CASE \E i \in DOMAIN log'[g] : log'[g][i].seq = s /\ log'[g][i].config = d
    BY <1>2, <1>3, <2>2, LogGrows DEF Applied
  <2> QED
    BY <1>6, <2>1, <2>2 DEF Applied
<1>7. OwnRounds' /\ FollowersLegit'
  BY <1>3 DEF RoundsOnce, OwnRounds, FollowersLegit, Legit, leaderAt
<1>8. FollowedOnce'
  <2> SUFFICES ASSUME NEW g \in Hubs, NEW s \in Seqs, Awaits(g, s)'
               PROVE  /\ pending'[g][s] = NoRound \/ pending'[g][s].leader
                      /\ \A d \in Configs : ~Applied(g, s, d)'
    BY DEF FollowedOnce, Unfollowed
  <2>1. Awaits(g, s)
    BY <1>3 DEF Awaits, FromLeader, leaderAt
  <2> QED
    BY <1>3, <1>6, <2>1 DEF RoundsOnce, FollowedOnce, Unfollowed
<1>9. Latched'
  <2> SUFFICES ASSUME NEW g \in Hubs, g \notin writeFailed, NEW s \in Seqs,
                      pending[g][s] # NoRound, NEW d, d = pending[g][s].config, Applied(g, s, d)'
               PROVE  pending[g][s].applying
    BY <1>3 DEF Latched, Applied
  <2> QED
    BY <1>6 DEF RoundsOnce, Latched
<1>10. AppliesOnce'
  <2> SUFFICES ASSUME NEW g \in Hubs, g \notin writeFailed
               PROVE  /\ \A k, n \in inflight'[g] : k.seq = n.seq => k = n
                      /\ \A k \in inflight'[g] : k.step = "applyConfig" =>
                            \A i \in DOMAIN log'[g] : log'[g][i].seq # k.seq
                      /\ \A i, j \in DOMAIN log'[g] :
                            log'[g][i].seq = log'[g][j].seq /\ log'[g][i].seq # 0 => i = j
    BY <1>3 DEF AppliesOnce
  <2>1. /\ \A k, n \in inflight[g] : k.seq = n.seq => k = n
        /\ \A k \in inflight[g] : k.step = "applyConfig" =>
              \A i \in DOMAIN log[g] : log[g][i].seq # k.seq
        /\ \A i, j \in DOMAIN log[g] :
              log[g][i].seq = log[g][j].seq /\ log[g][i].seq # 0 => i = j
    BY DEF RoundsOnce, AppliesOnce
  <2>2. \A i \in DOMAIN log'[g] :
           \/ i \in DOMAIN log[g] /\ log'[g][i] = log[g][i]
           \/ g = h /\ i = Len(log[h]) + 1 /\ log'[g][i] = e
    BY <1>3, LogGrows
  <2>3. g = h => \A k \in inflight[h] \ {a} : k.seq # a.seq
    BY <2>1
  <2>4. g = h => \A i \in DOMAIN log[h] : log[h][i].seq # a.seq
    BY <1>2, <2>1
  <2>5. \A k, n \in inflight'[g] : k.seq = n.seq => k = n
    BY <1>2, <1>4, <2>1, <2>3
  <2>6. \A k \in inflight'[g] : k.step = "applyConfig" =>
           \A i \in DOMAIN log'[g] : log'[g][i].seq # k.seq
    BY <1>2, <1>4, <2>1, <2>2, <2>3
  <2>7. \A i, j \in DOMAIN log'[g] :
           log'[g][i].seq = log'[g][j].seq /\ log'[g][i].seq # 0 => i = j
    BY <1>2, <2>1, <2>2, <2>4
  <2> QED
    BY <2>5, <2>6, <2>7
<1> QED
  BY <1>5, <1>7, <1>8, <1>9, <1>10 DEF RoundsOnce

\* The end of an apply closes the round, or opens the latch of a hub whose write
\* failed.
LEMMA SettleOnce ==
    ASSUME TypeOK, AgreementInv, MessagesOnce, RoundsOnce, NEW h \in Hubs, NEW a \in inflight[h],
           persistAppliedRound(h, a) \/ unlockFailedApply(h, a)
    PROVE  MessagesOnce' /\ RoundsOnce'
<1>1. /\ sent' = sent /\ net' = net /\ locking' = locking /\ log' = log
      /\ inflight' = [inflight EXCEPT ![h] = @ \ {a}]
      /\ writeFailed \subseteq writeFailed' /\ a.seq \in Seqs
  BY HeldMessages DEF Apply, persistAppliedRound, unlockFailedApply
<1>2. \A g \in Hubs : inflight'[g] \subseteq inflight[g]
  BY <1>1 DEF TypeOK
<1>3. \A g \in Hubs : \A s \in Seqs :
         \/ pending'[g][s] = NoRound
         \/ /\ pending[g][s] # NoRound
            /\ pending'[g][s].config = pending[g][s].config
            /\ pending'[g][s].leader = pending[g][s].leader
            /\ g \in writeFailed' \/ pending'[g][s].applying = pending[g][s].applying
  <2>1. CASE persistAppliedRound(h, a)
    <3>1. pending' = [pending EXCEPT ![h][a.seq] = NoRound]
      BY <2>1 DEF persistAppliedRound
    <3>2. \A g \in Hubs : \A s \in Seqs :
             pending'[g][s] = NoRound \/ pending'[g][s] = pending[g][s]
      BY <1>1, <3>1 DEF TypeOK
    <3> QED
      BY <3>2
  <2>2. CASE unlockFailedApply(h, a)
    <3>1. PICK r : r = pending[h][a.seq]
      OBVIOUS
    <3>2. PICK q : /\ pending' = [pending EXCEPT ![h][a.seq] = q]
                   /\ q = NoRound \/ q = r \/ (r # NoRound /\ q = [r EXCEPT !.applying = FALSE])
      BY <2>2, <3>1 DEF unlockFailedApply
    <3>3. r \in Round \cup {NoRound}
      BY <1>1, <3>1 DEF TypeOK
    <3>4. q = NoRound \/ (r # NoRound /\ q.config = r.config /\ q.leader = r.leader)
      BY <3>2, <3>3 DEF Round
    <3>5. h \in writeFailed'
      BY <2>2 DEF unlockFailedApply
    <3>6. \A g \in Hubs : \A s \in Seqs :
             pending'[g][s] = IF g = h /\ s = a.seq THEN q ELSE pending[g][s]
      BY <1>1, <3>2 DEF TypeOK
    <3> QED
      BY <3>1, <3>4, <3>5, <3>6
  <2> QED
    BY <2>1, <2>2
<1>4. PICK none : none = {}
  OBVIOUS
<1>5. Exchange(h, none, none) /\ \A m \in none : m.type # "PRE_PREPARE" /\ m.from = h
  BY <1>1, <1>4, NoExchange
<1> QED
  BY <1>1, <1>2, <1>3, <1>5, QuietOnce

\* The invariant is inductive as long as no hub restarts.
LEMMA OnceStep ==
    ASSUME OneRotation, NoLoneStakeQuorum, DifferentSubmits, TypeOK,
           restarted = {} => AgreementInv /\ MessagesOnce /\ RoundsOnce,
           [Next]_vars, restarted' = {}
    PROVE  MessagesOnce' /\ RoundsOnce'
<1>1. \A h \in Hubs : ~restart(h)
  BY DEF restart
<1>2. CASE UNCHANGED vars
  <2>1. sent' = sent /\ net' = net /\ pending' = pending /\ inflight' = inflight
        /\ log' = log /\ locking' = locking /\ writeFailed' = writeFailed
        /\ MessagesOnce /\ RoundsOnce
    BY <1>2 DEF vars
  <2>2. MessagesOnce'
    BY <2>1 DEF MessagesOnce, OneProposal, SubmittedOnly, HeldOnce
  <2>3. \A g \in Hubs : \A s : Awaits(g, s)' => Awaits(g, s)
    BY <2>1 DEF Awaits, FromLeader, leaderAt
  <2>4. RoundsOnce'
    BY <2>1, <2>3, SameRounds, QuietRounds
  <2> QED
    BY <2>2, <2>4
<1>3. CASE Next
  <2>1. PICK h \in Hubs :
          \/ propose(h)
          \/ \E m \in net[h] : handleMessage(h, m)
          \/ bufferPastTtl(h)
          \/ \E m \in locking[h] : openFollowerRound(h, m) \/ declinePrePrepare(h, m)
          \/ \E a \in inflight[h] :
                applyConfig(h, a) \/ persistAppliedRound(h, a) \/ unlockFailedApply(h, a)
          \/ \E t \in timers[h] : expireFollowerRound(h, t) \/ initiateViewChange(h, t)
    BY <1>1, <1>3 DEF Next
  <2>2. restarted = {}
    BY <2>1 DEF propose, proposeAsLeader, proposeDirect, proposeRefused, handleMessage,
        bufferPastTtl, openFollowerRound, declinePrePrepare, applyConfig,
        persistAppliedRound, unlockFailedApply, expireFollowerRound, initiateViewChange,
        beginPrePrepare, joinPrePrepare, dropPrePrepare, Drop, bufferVote, dropVote,
        handlePrepare, handleCommit, tallyViewChange, acceptViewChange, dropViewChange,
        handleNewView, dropNewView
  <2>3. AgreementInv /\ MessagesOnce /\ RoundsOnce
    BY <2>2
  <2>4. PICK none : none = {} /\ \A m \in none : m.type # "PRE_PREPARE" /\ m.from = h
    OBVIOUS
  <2>5. CASE propose(h)
    <3>1. PICK ht \in Heights :
            \/ \E c \in Submits[h] : proposeAsLeader(h, c, ht) \/ proposeDirect(h, c, ht)
            \/ proposeRefused(h, ht)
      BY <2>5 DEF propose
    <3>2. CASE proposeRefused(h, ht)
      <4>1. sent' = sent /\ net' = net /\ pending' = pending /\ inflight' = inflight
            /\ log' = log /\ locking' = locking /\ writeFailed' = writeFailed
        BY <3>2 DEF proposeRefused
      <4>2. Exchange(h, none, none)
        BY <2>4, <4>1, NoExchange
      <4> QED
        BY <2>3, <2>4, <4>1, <4>2, SameRounds, QuietOnce
    <3> QED
      BY <2>3, <3>1, <3>2, LeadOnce, DirectOnce
  <2>6. ASSUME NEW m \in net[h], handleMessage(h, m)
        PROVE  MessagesOnce' /\ RoundsOnce'
    BY <2>3, <2>6, PrePrepareOnce, VoteOnce, ViewChangeOnce DEF handleMessage
  <2>7. CASE bufferPastTtl(h)
    BY <2>3, <2>7, VoteOnce DEF bufferPastTtl
  <2>8. ASSUME NEW m \in locking[h], declinePrePrepare(h, m)
        PROVE  MessagesOnce' /\ RoundsOnce'
    <3>1. sent' = sent /\ net' = net /\ pending' = pending /\ inflight' = inflight
          /\ log' = log /\ writeFailed' = writeFailed
      BY <2>8 DEF declinePrePrepare
    <3>2. \A g \in Hubs : locking'[g] \subseteq locking[g]
      BY <2>8 DEF declinePrePrepare, TypeOK
    <3>3. Exchange(h, none, none)
      BY <2>4, <3>1, NoExchange
    <3> QED
      BY <2>3, <2>4, <3>1, <3>2, <3>3, SameRounds, QuietOnce
  <2> QED
    BY <2>1, <2>3, <2>5, <2>6, <2>7, <2>8, OpenOnce, ApplyOnce, SettleOnce, TimerOnce
<1> QED
  BY <1>2, <1>3

\* A hub whose writes succeed writes the config of a sequence number once while no hub
\* has restarted (AppliedOnce): however late, often or early COMMITs arrive, whatever
\* timers fire under the awaited writes, and whichever rounds are replaced meanwhile
\* (the _applying latch of votes.js), for every number of hubs and slots, when clients
\* submit different configs to different hubs.
THEOREM SlotsAreAppliedOnce ==
    ASSUME OneRotation, NoLoneStakeQuorum, DifferentSubmits
    PROVE  Spec => []AppliedOnce
<1> DEFINE Inv == TypeOK /\ (restarted = {} => AgreementInv /\ MessagesOnce /\ RoundsOnce)
<1>1. Init => Inv
  <2>1. Init => TypeOK
    BY BoundsAssumption DEF Init, TypeOK, Views
  <2>2. Init => AgreementInv
    BY DEF Init, AgreementInv, ProposalsOwned, OneConfigPerProposer, VotesLegit, NetSent,
        LockingSent, RoundsNeeded, AppliesLegit, LogLegit
  <2>3. Init => MessagesOnce
    BY DEF Init, MessagesOnce, OneProposal, SubmittedOnly, HeldOnce
  <2>4. Init => RoundsOnce
    BY DEF Init, RoundsOnce, OwnRounds, FollowersLegit, FollowedOnce, Awaits, Latched, AppliesOnce
  <2> QED
    BY <2>1, <2>2, <2>3, <2>4
<1>2. Inv /\ [Next]_vars => Inv'
  BY TypeStep, AgreementStep, OnceStep
<1>3. Inv => AppliedOnce
  BY DEF RoundsOnce, AppliesOnce, AppliedOnce
<1> QED
  BY <1>1, <1>2, <1>3, PTL DEF Spec

-----------------------------------------------------------------------------
(***************************************************************************)
(* The sequence number on record.  An apply that awaits saveSeq has        *)
(* written its config; that is what the record can only point at.          *)
(***************************************************************************)

Saves(h) == {a \in inflight[h] : a.step = "saveSeq"}

SavesAreApplied == \A h \in Hubs : \A a \in Saves(h) : a.seq \in AppliedSeqs(h)

RecordIInv == TypeOK /\ SavesAreApplied /\ RecordFollowsConfig

\* What a hub that consumes a message or casts a vote leaves alone.
Unrecorded ==
    /\ UNCHANGED <<lastApplied, dbSeq, log, restarted, writeFailed>>
    /\ \A h \in Hubs : Saves(h)' = Saves(h)

\* An apply that a tally begins awaits applyConfig (checkCommitQuorum in votes.js).
LEMMA RecordBegins ==
    ASSUME TypeOK, NEW h \in Hubs, NEW s, NEW t, NEW in, NEW out, Record(h, s, t, in, out)
    PROVE  \A g \in Hubs : Saves(g)' = Saves(g)
<1> DEFINE new == [seq |-> s, config |-> t.round.config, height |-> t.round.height,
                   leader |-> t.round.leader, step |-> "applyConfig"]
<1>1. new.step = "applyConfig"
  OBVIOUS
<1>2. \E add \in SUBSET {new} : inflight' = [inflight EXCEPT ![h] = @ \cup add]
  BY DEF Record
<1> HIDE DEF new
<1> QED
  BY <1>1, <1>2 DEF Saves, TypeOK

\* Such a step keeps the invariant.
LEMMA UnrecordedKeeps ==
    ASSUME RecordIInv, TypeOK', Unrecorded
    PROVE  RecordIInv'
<1>1. \A h \in Hubs : AppliedSeqs(h)' = AppliedSeqs(h)
  BY DEF Unrecorded, AppliedSeqs
<1>2. SavesAreApplied'
  BY <1>1 DEF Unrecorded, RecordIInv, SavesAreApplied
<1>3. ASSUME NEW h \in Hubs, h \notin writeFailed' \cup restarted', NEW s \in AppliedSeqs(h)'
      PROVE  s <= lastApplied'[h] \/ \E a \in inflight'[h] : a.step = "saveSeq" /\ a.seq = s
  <2>1. s <= lastApplied[h] \/ \E a \in Saves(h) : a.seq = s
    BY <1>1, <1>3 DEF Unrecorded, RecordIInv, RecordFollowsConfig, Saves
  <2>2. lastApplied' = lastApplied /\ Saves(h)' = Saves(h)
    BY DEF Unrecorded
  <2> QED
    BY <2>1, <2>2 DEF Saves
<1>4. \A h \in Hubs : {dbSeq'[h], lastApplied'[h]} \ {0} \subseteq AppliedSeqs(h)'
  BY <1>1 DEF Unrecorded, RecordIInv, RecordFollowsConfig
<1> QED
  BY <1>2, <1>3, <1>4 DEF RecordIInv, RecordFollowsConfig

\* A config is appended to a hub's log.
LEMMA AppliedGrows ==
    ASSUME TypeOK, NEW h \in Hubs, NEW e \in LogEntry, log' = [log EXCEPT ![h] = Append(@, e)]
    PROVE  \A g \in Hubs :
               AppliedSeqs(g)' = IF g = h THEN AppliedSeqs(g) \cup {e.seq} ELSE AppliedSeqs(g)
<1>1. log[h] \in Seq(LogEntry) /\ log \in [Hubs -> Seq(LogEntry)]
  BY DEF TypeOK
<1>2. log'[h] = Append(log[h], e) /\ \A g \in Hubs : g # h => log'[g] = log[g]
  BY <1>1
<1>3. AppliedSeqs(h)' = AppliedSeqs(h) \cup {e.seq}
  <2>1. /\ DOMAIN log'[h] = DOMAIN log[h] \cup {Len(log[h]) + 1}
        /\ \A i \in DOMAIN log[h] : log'[h][i] = log[h][i]
        /\ log'[h][Len(log[h]) + 1] = e
    BY <1>1, <1>2
  <2> QED
    BY <2>1 DEF AppliedSeqs
<1> QED
  BY <1>2, <1>3 DEF AppliedSeqs

\* A lone member applies a config outside every slot.
LEMMA DirectRecorded ==
    ASSUME RecordIInv, TypeOK', NEW h \in Hubs, NEW c \in Configs, NEW ht \in Heights,
           proposeDirect(h, c, ht)
    PROVE  RecordIInv'
<1> DEFINE e == [seq |-> 0, config |-> c, height |-> ht]
<1>1. e \in LogEntry /\ e.seq = 0 /\ log' = [log EXCEPT ![h] = Append(@, e)]
  BY BoundsAssumption DEF LogEntry, proposeDirect
<1> HIDE DEF e
<1>2. \A g \in Hubs : AppliedSeqs(g)' = IF g = h THEN AppliedSeqs(g) \cup {0} ELSE AppliedSeqs(g)
  BY <1>1, AppliedGrows DEF RecordIInv
<1>3. /\ UNCHANGED <<lastApplied, dbSeq, restarted, writeFailed, inflight>>
      /\ \A g \in Hubs : lastApplied[g] \in Nat
  BY BoundsAssumption DEF proposeDirect, RecordIInv, TypeOK
<1>4. SavesAreApplied'
  BY <1>2, <1>3 DEF RecordIInv, SavesAreApplied, Saves
<1>5. RecordFollowsConfig'
  BY <1>2, <1>3 DEF RecordIInv, RecordFollowsConfig
<1> QED
  BY <1>4, <1>5 DEF RecordIInv

\* The two writes of an apply, and their failure (votes.js).
LEMMA ApplyRecorded ==
    ASSUME RecordIInv, TypeOK', NEW h \in Hubs, NEW a \in inflight[h],
           applyConfig(h, a) \/ persistAppliedRound(h, a) \/ unlockFailedApply(h, a)
    PROVE  RecordIInv'
<1>1. a \in Apply /\ inflight \in [Hubs -> SUBSET Apply] /\ a.seq \in Nat
  BY BoundsAssumption DEF RecordIInv, TypeOK, Apply, Seqs
<1>2. /\ \A g \in Hubs : lastApplied[g] \in Nat /\ dbSeq[g] \in Nat
      /\ lastApplied \in [Hubs -> 0..MaxSeq] /\ dbSeq \in [Hubs -> 0..MaxSeq]
  BY BoundsAssumption DEF RecordIInv, TypeOK
<1>3. CASE applyConfig(h, a)
  <2> DEFINE e == [seq |-> a.seq, config |-> a.config, height |-> a.height]
             b == [a EXCEPT !.step = "saveSeq"]
  <2>1. e \in LogEntry /\ e.seq = a.seq /\ b.seq = a.seq /\ b.step = "saveSeq"
    BY <1>1, BoundsAssumption DEF Apply, LogEntry, Seqs
  <2>2. /\ log' = [log EXCEPT ![h] = Append(@, e)] /\ a.step = "applyConfig"
        /\ inflight' = [inflight EXCEPT ![h] = (@ \ {a}) \cup {b}]
        /\ UNCHANGED <<lastApplied, dbSeq, restarted, writeFailed>>
    BY <1>3 DEF applyConfig
  <2> HIDE DEF e, b
  <2>3. \A g \in Hubs : AppliedSeqs(g)' = IF g = h THEN AppliedSeqs(g) \cup {a.seq} ELSE AppliedSeqs(g)
    BY <2>1, <2>2, AppliedGrows DEF RecordIInv
  <2>4. \A g \in Hubs : Saves(g)' = IF g = h THEN Saves(g) \cup {b} ELSE Saves(g)
    BY <1>1, <2>1, <2>2 DEF Saves
  <2>5. SavesAreApplied'
    BY <2>1, <2>3, <2>4 DEF RecordIInv, SavesAreApplied
  <2>6. ASSUME NEW g \in Hubs, g \notin writeFailed' \cup restarted', NEW s \in AppliedSeqs(g)'
        PROVE  s <= lastApplied'[g] \/ \E x \in inflight'[g] : x.step = "saveSeq" /\ x.seq = s
    <3>1. s <= lastApplied'[g] \/ \E x \in Saves(g)' : x.seq = s
      BY <2>1, <2>2, <2>3, <2>4, <2>6 DEF RecordIInv, RecordFollowsConfig, Saves
    <3> QED
      BY <3>1 DEF Saves
  <2>7. \A g \in Hubs : {dbSeq'[g], lastApplied'[g]} \ {0} \subseteq AppliedSeqs(g)'
    BY <2>2, <2>3 DEF RecordIInv, RecordFollowsConfig
  <2> QED
    BY <2>5, <2>6, <2>7 DEF RecordIInv, RecordFollowsConfig
<1>4. CASE persistAppliedRound(h, a)
  <2>1. /\ a.step = "saveSeq" /\ inflight' = [inflight EXCEPT ![h] = @ \ {a}]
        /\ dbSeq' = [dbSeq EXCEPT ![h] = a.seq]
        /\ lastApplied' = [lastApplied EXCEPT ![h] = Larger(@, a.seq)]
        /\ UNCHANGED <<log, restarted, writeFailed>>
    BY <1>4 DEF persistAppliedRound, Advance
  <2>2. \A g \in Hubs : AppliedSeqs(g)' = AppliedSeqs(g)
    BY <2>1 DEF AppliedSeqs
  <2>3. \A g \in Hubs : Saves(g)' = IF g = h THEN Saves(g) \ {a} ELSE Saves(g)
    BY <1>1, <2>1 DEF Saves
  <2>4. a.seq \in AppliedSeqs(h)
    BY <2>1 DEF RecordIInv, SavesAreApplied, Saves
  <2>5. SavesAreApplied'
    BY <2>2, <2>3 DEF RecordIInv, SavesAreApplied
  <2>6. /\ lastApplied'[h] \in {lastApplied[h], a.seq} /\ dbSeq'[h] = a.seq
        /\ lastApplied'[h] >= lastApplied[h] /\ lastApplied'[h] >= a.seq /\ lastApplied'[h] \in Nat
        /\ \A g \in Hubs : g # h => lastApplied'[g] = lastApplied[g] /\ dbSeq'[g] = dbSeq[g]
    BY <1>1, <1>2, <2>1 DEF Larger
  <2>7. \A g \in Hubs : {dbSeq'[g], lastApplied'[g]} \ {0} \subseteq AppliedSeqs(g)'
    BY <2>2, <2>4, <2>6 DEF RecordIInv, RecordFollowsConfig
  <2>8. ASSUME NEW g \in Hubs, g \notin writeFailed' \cup restarted', NEW s \in AppliedSeqs(g)'
        PROVE  s <= lastApplied'[g] \/ \E x \in inflight'[g] : x.step = "saveSeq" /\ x.seq = s
    <3>1. s <= lastApplied[g] \/ \E x \in Saves(g) : x.seq = s
      BY <2>1, <2>2, <2>8 DEF RecordIInv, RecordFollowsConfig, Saves
    <3>2. s \in Int
      <4>1. log[g] \in Seq(LogEntry) /\ s \in AppliedSeqs(g)
        BY <2>2, <2>8 DEF RecordIInv, TypeOK
      <4>2. PICK i \in DOMAIN log[g] : s = log[g][i].seq
        BY <4>1 DEF AppliedSeqs
      <4>3. log[g][i] \in LogEntry
        BY <4>1, <4>2
      <4> QED
        BY <4>2, <4>3, BoundsAssumption DEF LogEntry
    <3>3. s <= lastApplied'[g] \/ \E x \in Saves(g)' : x.seq = s
      <4>1. CASE s <= lastApplied[g]
        BY <1>2, <2>6, <3>2, <4>1
      <4>2. ASSUME NEW x \in Saves(g), x.seq = s
            PROVE  s <= lastApplied'[g] \/ \E y \in Saves(g)' : y.seq = s
        <5>1. CASE g = h /\ x = a
          BY <2>6, <4>2, <5>1
        <5>2. CASE ~(g = h /\ x = a)
          BY <2>3, <4>2, <5>2
        <5> QED
          BY <5>1, <5>2
      <4> QED
        BY <3>1, <4>1, <4>2
    <3> QED
      BY <3>3 DEF Saves
  <2> QED
    BY <2>5, <2>7, <2>8 DEF RecordIInv, RecordFollowsConfig
<1>5. CASE unlockFailedApply(h, a)
  <2>1. /\ inflight' = [inflight EXCEPT ![h] = @ \ {a}] /\ writeFailed' = writeFailed \cup {h}
        /\ UNCHANGED <<log, lastApplied, dbSeq, restarted>>
    BY <1>5 DEF unlockFailedApply
  <2>2. \A g \in Hubs : AppliedSeqs(g)' = AppliedSeqs(g)
    BY <2>1 DEF AppliedSeqs
  <2>3. \A g \in Hubs : /\ Saves(g)' \subseteq Saves(g)
                        /\ g # h => inflight'[g] = inflight[g]
    BY <1>1, <2>1 DEF Saves
  <2>4. SavesAreApplied'
    BY <2>2, <2>3 DEF RecordIInv, SavesAreApplied
  <2>5. RecordFollowsConfig'
    BY <2>1, <2>2, <2>3 DEF RecordIInv, RecordFollowsConfig
  <2> QED
    BY <2>4, <2>5 DEF RecordIInv
<1> QED
  BY <1>3, <1>4, <1>5

\* A hub comes back with the sequence number on record (loadSeq in pbft.js).
LEMMA RestartRecorded ==
    ASSUME RecordIInv, TypeOK', NEW h \in Hubs, restart(h)
    PROVE  RecordIInv'
<1>1. /\ inflight' = [inflight EXCEPT ![h] = {}] /\ restarted' = restarted \cup {h}
      /\ lastApplied' = [lastApplied EXCEPT ![h] = dbSeq[h]]
      /\ UNCHANGED <<log, dbSeq, writeFailed>>
  BY DEF restart
<1>2. inflight \in [Hubs -> SUBSET Apply] /\ lastApplied \in [Hubs -> 0..MaxSeq]
  BY DEF RecordIInv, TypeOK
<1>3. \A g \in Hubs : AppliedSeqs(g)' = AppliedSeqs(g)
  BY <1>1 DEF AppliedSeqs
<1>4. \A g \in Hubs : /\ Saves(g)' \subseteq Saves(g)
                      /\ g # h => inflight'[g] = inflight[g] /\ lastApplied'[g] = lastApplied[g]
  BY <1>1, <1>2 DEF Saves
<1>5. SavesAreApplied'
  BY <1>3, <1>4 DEF RecordIInv, SavesAreApplied
<1>6. lastApplied'[h] = dbSeq[h] /\ h \in restarted'
  BY <1>1, <1>2
<1>7. RecordFollowsConfig'
  BY <1>1, <1>3, <1>4, <1>6 DEF RecordIInv, RecordFollowsConfig
<1> QED
  BY <1>5, <1>7 DEF RecordIInv

\* Every other step leaves the record, the log and the saves alone.
LEMMA RecordQuiet ==
    ASSUME TypeOK, NEW h \in Hubs,
           \/ \E c \in Configs, ht \in Heights : proposeAsLeader(h, c, ht) \/ proposeRefused(h, ht)
           \/ \E m \in net[h] : handleMessage(h, m)
           \/ bufferPastTtl(h)
           \/ \E m \in locking[h] : openFollowerRound(h, m) \/ declinePrePrepare(h, m)
           \/ \E t \in timers[h] : expireFollowerRound(h, t) \/ initiateViewChange(h, t)
    PROVE  Unrecorded
<1>1. UNCHANGED <<lastApplied, dbSeq, log, restarted, writeFailed>>
  BY DEF proposeAsLeader, proposeRefused, handleMessage,
         bufferPastTtl, openFollowerRound, declinePrePrepare, expireFollowerRound, initiateViewChange,
         beginPrePrepare, joinPrePrepare, dropPrePrepare, Drop, bufferVote, dropVote,
         handlePrepare, handleCommit, tallyViewChange, acceptViewChange, dropViewChange,
         handleNewView, dropNewView
<1>2. \/ UNCHANGED inflight
      \/ \E s, t, in, out : Record(h, s, t, in, out)
  <2> DEFINE Recorded == \E s, t, in, out : Record(h, s, t, in, out)
  <2>1. ASSUME NEW m, handlePrepare(h, m) \/ handleCommit(h, m) \/ joinPrePrepare(h, m)
                      \/ openFollowerRound(h, m)
        PROVE  Recorded
    <3>1. handlePrepare(h, m) => Recorded
      BY DEF handlePrepare
    <3>2. handleCommit(h, m) => Recorded
      BY DEF handleCommit
    <3>3. joinPrePrepare(h, m) => Recorded
      BY DEF joinPrePrepare, castPrepare
    <3>4. openFollowerRound(h, m) => Recorded
      BY DEF openFollowerRound, castPrepare
    <3> QED
      BY <2>1, <3>1, <3>2, <3>3, <3>4
  <2>2. ASSUME NEW c, NEW ht, proposeAsLeader(h, c, ht)
        PROVE  Recorded
    BY <2>2 DEF proposeAsLeader
  <2>3. ASSUME \/ \E c \in Configs, ht \in Heights : proposeRefused(h, ht)
               \/ bufferPastTtl(h)
               \/ \E m : \/ beginPrePrepare(h, m) \/ dropPrePrepare(h, m) \/ bufferVote(h, m, {})
                         \/ dropVote(h, m) \/ tallyViewChange(h, m) \/ acceptViewChange(h, m)
                         \/ dropViewChange(h, m) \/ handleNewView(h, m) \/ dropNewView(h, m)
                         \/ declinePrePrepare(h, m)
               \/ \E t : expireFollowerRound(h, t) \/ initiateViewChange(h, t)
        PROVE  UNCHANGED inflight
    BY <2>3 DEF proposeRefused, bufferPastTtl, declinePrePrepare, expireFollowerRound,
         initiateViewChange, beginPrePrepare, dropPrePrepare, Drop, bufferVote, dropVote,
         tallyViewChange, acceptViewChange, dropViewChange, handleNewView, dropNewView
  <2> HIDE DEF Recorded
  <2>4. UNCHANGED inflight \/ Recorded
    BY <2>1, <2>2, <2>3 DEF handleMessage
  <2> QED
    BY <2>4 DEF Recorded
<1>3. \A g \in Hubs : Saves(g)' = Saves(g)
  BY <1>2, RecordBegins DEF Saves
<1> QED
  BY <1>1, <1>3 DEF Unrecorded

\* The sequence number a hub has on record, and resumes from, is one whose config it
\* wrote, and a config it wrote is on record or its saveSeq awaited, unless a write
\* failed or the hub restarted (persistAppliedRound in pbft/votes.js, loadSeq in
\* pbft.js): however many slots are in flight and in whatever order their writes end.
THEOREM RecordsFollowConfigs == Spec => []RecordFollowsConfig
<1>1. Init => RecordIInv
  <2> SUFFICES ASSUME Init PROVE RecordIInv
    OBVIOUS
  <2>1. TypeOK
    BY BoundsAssumption DEF Init, TypeOK, Views
  <2>2. \A h \in Hubs : inflight[h] = {} /\ log[h] = <<>> /\ dbSeq[h] = 0 /\ lastApplied[h] = 0
    BY DEF Init
  <2>3. \A h \in Hubs : AppliedSeqs(h) = {} /\ Saves(h) = {}
    BY <2>2 DEF AppliedSeqs, Saves
  <2> QED
    BY <2>1, <2>2, <2>3 DEF RecordIInv, SavesAreApplied, RecordFollowsConfig
<1>2. RecordIInv /\ [Next]_vars => RecordIInv'
  <2> SUFFICES ASSUME RecordIInv, [Next]_vars PROVE RecordIInv'
    OBVIOUS
  <2>1. TypeOK /\ TypeOK'
    BY TypeStep DEF RecordIInv
  <2>2. CASE UNCHANGED vars
    BY <2>1, <2>2, UnrecordedKeeps DEF vars, Unrecorded, Saves
  <2>3. CASE Next
    <3>1. PICK h \in Hubs :
            \/ propose(h)
            \/ \E m \in net[h] : handleMessage(h, m)
            \/ bufferPastTtl(h)
            \/ \E m \in locking[h] : openFollowerRound(h, m) \/ declinePrePrepare(h, m)
            \/ \E a \in inflight[h] :
                  applyConfig(h, a) \/ persistAppliedRound(h, a) \/ unlockFailedApply(h, a)
            \/ \E t \in timers[h] : expireFollowerRound(h, t) \/ initiateViewChange(h, t)
            \/ restart(h)
      BY <2>3 DEF Next
    <3>2. CASE propose(h)
      <4>1. PICK ht \in Heights :
              \/ \E c \in Submits[h] : proposeAsLeader(h, c, ht) \/ proposeDirect(h, c, ht)
              \/ proposeRefused(h, ht)
        BY <3>2 DEF propose
      <4>2. Submits[h] \subseteq Configs
        BY DataAssumption
      <4>3. CASE \E c \in Submits[h] : proposeDirect(h, c, ht)
        BY <2>1, <4>2, <4>3, DirectRecorded
      <4>4. CASE (\E c \in Submits[h] : proposeAsLeader(h, c, ht))
        BY <2>1, <4>2, <4>4, RecordQuiet, UnrecordedKeeps
      <4>5. CASE proposeRefused(h, ht)
        <5>1. Unrecorded
          BY <4>5 DEF proposeRefused, Unrecorded, Saves
        <5> QED
          BY <2>1, <5>1, UnrecordedKeeps
      <4> QED
        BY <4>1, <4>3, <4>4, <4>5
    <3>3. CASE \E a \in inflight[h] :
                 applyConfig(h, a) \/ persistAppliedRound(h, a) \/ unlockFailedApply(h, a)
      BY <2>1, <3>3, ApplyRecorded
    <3>4. CASE restart(h)
      BY <2>1, <3>4, RestartRecorded
    <3>5. CASE \/ \E m \in net[h] : handleMessage(h, m)
               \/ bufferPastTtl(h)
               \/ \E m \in locking[h] : openFollowerRound(h, m) \/ declinePrePrepare(h, m)
               \/ \E t \in timers[h] : expireFollowerRound(h, t) \/ initiateViewChange(h, t)
      BY <2>1, <3>5, RecordQuiet, UnrecordedKeeps
    <3> QED
      BY <3>1, <3>2, <3>3, <3>4, <3>5
  <2> QED
    BY <2>2, <2>3
<1>3. RecordIInv => RecordFollowsConfig
  BY DEF RecordIInv
<1> QED
  BY <1>1, <1>2, <1>3, PTL DEF Spec

-----------------------------------------------------------------------------
(***************************************************************************)
(* Certificates.                                                           *)
(*                                                                         *)
(* A tally counts votes that arrived in any order, by gossip, from the     *)
(* early buffer or from the hub itself, and an apply outlives the round    *)
(* that started it.  Every key in a tally, a buffer or behind an apply     *)
(* belongs to a hub that cast that vote, restarts or not.                  *)
(***************************************************************************)

Proposing == {"PRE_PREPARE", "PREPARE"}
Committing == {"COMMIT"}

EarlySent == \A h \in Hubs : earlyVotes[h] \subseteq sent

\* The tallies of round r of slot s hold votes that were cast for its config.
TallyCast(s, r) ==
    /\ r.prepares \subseteq Signers(Proposing, s, r.config)
    /\ r.commits \subseteq Signers(Committing, s, r.config)

TalliesCast ==
    \A h \in Hubs : \A s \in Seqs : pending[h][s] # NoRound => TallyCast(s, pending[h][s])

ApplyCertified(a) == HasQuorum(a.height, Signers(Committing, a.seq, a.config))

AppliesCertified == \A h \in Hubs : \A a \in inflight[h] : ApplyCertified(a)

CastInv == NetSent /\ LockingSent /\ EarlySent /\ TalliesCast /\ AppliesCertified

\* The COMMITs this step sends rest on a quorum of proposals and prepares.
CommitsCertified ==
    \A m \in sent' \ sent : m.type = "COMMIT" =>
        HasQuorum(m.height, Signers(Proposing, m.seq, m.config)')

LogCertified ==
    \A h \in Hubs : log'[h] # log[h] =>
        LET e == log'[h][Len(log'[h])]
        IN  e.seq # 0 => HasQuorum(e.height, Signers(Committing, e.seq, e.config))

\* A vote once cast stays cast.
LEMMA SignersGrow ==
    ASSUME sent \subseteq sent', NEW T, NEW s, NEW c
    PROVE  Signers(T, s, c) \subseteq Signers(T, s, c)'
  BY DEF Signers

\* A set of signers that grows keeps the quorum it holds.
LEMMA HasQuorumGrows ==
    ASSUME NEW ht, NEW A, NEW B, A \subseteq B, HasQuorum(ht, A)
    PROVE  HasQuorum(ht, B)
<1>1. PICK voters \in SUBSET A : quorumMet(ht, voters)
  BY DEF HasQuorum
<1>2. voters \in SUBSET B
  OBVIOUS
<1>3. QED
  BY <1>1, <1>2 DEF HasQuorum

\* A tally and an apply stay certified as more is sent.
LEMMA CastStays ==
    ASSUME sent \subseteq sent'
    PROVE  /\ \A s, r : TallyCast(s, r) => TallyCast(s, r)'
           /\ \A a : ApplyCertified(a) => ApplyCertified(a)'
<1>1. ASSUME NEW s, NEW r, TallyCast(s, r)
      PROVE  /\ r.prepares \subseteq Signers(Proposing, s, r.config)'
             /\ r.commits \subseteq Signers(Committing, s, r.config)'
  BY <1>1, SignersGrow DEF TallyCast
<1>2. ASSUME NEW a, ApplyCertified(a)
      PROVE  HasQuorum(a.height, Signers(Committing, a.seq, a.config)')
  <2>1. Signers(Committing, a.seq, a.config) \subseteq Signers(Committing, a.seq, a.config)'
    BY SignersGrow
  <2>2. QED
    BY <1>2, <2>1, HasQuorumGrows DEF ApplyCertified
<1>3. QED
  BY <1>1, <1>2 DEF TallyCast, ApplyCertified, HasQuorum, quorumMet

\* Round q is gone, or has the tallies of round r.
Kept(q, r) ==
    \/ q = NoRound
    \/ /\ r # NoRound
       /\ q.config = r.config /\ q.prepares = r.prepares /\ q.commits = r.commits

\* A step that counts no vote keeps CastInv.
LEMMA QuietCast ==
    ASSUME CastInv, sent \subseteq sent', NetSent',
           \A g \in Hubs : /\ locking'[g] \subseteq locking[g]
                           /\ earlyVotes'[g] \subseteq earlyVotes[g]
                           /\ inflight'[g] \subseteq inflight[g],
           \A g \in Hubs : \A s \in Seqs : Kept(pending'[g][s], pending[g][s])
    PROVE  CastInv'
<1>1. LockingSent' /\ EarlySent'
  BY DEF CastInv, LockingSent, EarlySent
<1>2. TalliesCast'
  <2> SUFFICES ASSUME NEW g \in Hubs, NEW s \in Seqs, NEW q, q = pending'[g][s], q # NoRound
               PROVE  TallyCast(s, q)'
    BY DEF TalliesCast, TallyCast, Signers
  <2>1. PICK r : r = pending[g][s]
    OBVIOUS
  <2>2. /\ r # NoRound /\ q.config = r.config
        /\ q.prepares = r.prepares /\ q.commits = r.commits
    BY <2>1 DEF Kept
  <2>3. TallyCast(s, r)
    BY <2>1, <2>2 DEF CastInv, TalliesCast
  <2>4. TallyCast(s, q)
    BY <2>2, <2>3 DEF TallyCast
  <2>5. QED
    BY <2>4, CastStays
<1>3. AppliesCertified'
  <2>1. \A g \in Hubs : \A a \in inflight'[g] : ApplyCertified(a)'
    BY CastStays DEF CastInv, AppliesCertified
  <2>2. QED
    BY <2>1 DEF AppliesCertified
<1>4. QED
  BY <1>1, <1>2, <1>3 DEF CastInv

\* The hubs of S cast the vote for (s, c) of a type of T, with what `more` holds.
CastBy(S, T, s, c, more) ==
    \A g \in S : \E m \in sent \cup more :
        m.type \in T /\ m.from = g /\ m.seq = s /\ m.config = c

\* What a tally of votes that were cast leads to: its keys cast them, the COMMIT it
\* calls for rests on a quorum, and so does the apply.
LEMMA TallyIsCast ==
    ASSUME NEW h \in Hubs, NEW s \in Seqs, NEW r \in Round,
           NEW P \in SUBSET Hubs, NEW C \in SUBSET Hubs, NEW out, NEW t, NEW commit,
           t = Tally(h, r, P, C), commit = Vote("COMMIT", h, s, t.round),
           TallyCast(s, r), sent' = sent \cup out,
           CastBy(P, Proposing, s, r.config, out), CastBy(C, Committing, s, r.config, {}),
           t.sends => commit \in out
    PROVE  /\ TallyCast(s, t.round)'
           /\ t.sends => HasQuorum(r.height, Signers(Proposing, s, r.config)')
           /\ t.applies => HasQuorum(r.height, Signers(Committing, s, r.config)')
<1> DEFINE p == r.prepares \cup P
           sends == P # {} /\ ReadyToCommit(r, p)
           added == C \cup (IF sends THEN {h} ELSE {})
           c == r.commits \cup added
           applies == added # {} /\ ReadyToApply(r, c)
<1>1. t = [round |-> [config |-> r.config, view |-> r.view, height |-> r.height,
                      leader |-> r.leader, prepares |-> p, commits |-> c,
                      commitSent |-> r.commitSent \/ sends,
                      applying |-> r.applying \/ applies],
           sends |-> sends, applies |-> applies]
  BY Zenon DEF Tally
<1> HIDE DEF p, sends, added, c, applies
<1>2. /\ t.round.config = r.config /\ t.round.prepares = p /\ t.round.commits = c
      /\ t.sends = sends /\ t.applies = applies
  BY <1>1
<1>3. commit.type = "COMMIT" /\ commit.from = h /\ commit.seq = s /\ commit.config = r.config
  BY <1>2 DEF Vote
<1>4. p \subseteq Signers(Proposing, s, r.config)'
  <2>1. r.prepares \subseteq Signers(Proposing, s, r.config)'
    BY SignersGrow DEF TallyCast
  <2>2. P \subseteq Signers(Proposing, s, r.config)'
    BY DEF CastBy, Signers
  <2>3. QED
    BY <2>1, <2>2 DEF p
<1>5. c \subseteq Signers(Committing, s, r.config)'
  <2>1. r.commits \subseteq Signers(Committing, s, r.config)'
    BY SignersGrow DEF TallyCast
  <2>2. C \subseteq Signers(Committing, s, r.config)'
    BY DEF CastBy, Signers
  <2>3. sends => h \in Signers(Committing, s, r.config)'
    BY <1>2, <1>3 DEF Signers, Committing
  <2>4. QED
    BY <2>1, <2>2, <2>3 DEF c, added
<1>6. TallyCast(s, t.round)'
  <2>1. PICK q : q = t.round
    OBVIOUS
  <2>2. TallyCast(s, q)'
    BY <1>2, <1>4, <1>5, <2>1 DEF TallyCast
  <2>3. QED
    BY <2>1, <2>2
<1>7. sends => quorumMet(r.height, p)
  BY DEF sends, ReadyToCommit
<1>8. applies => quorumMet(r.height, c)
  BY DEF applies, ReadyToApply
<1>9. QED
  BY <1>2, <1>4, <1>5, <1>6, <1>7, <1>8 DEF HasQuorum

\* Recording such a tally keeps CastInv, and its COMMIT is certified (votes.js).
LEMMA RecordCast ==
    ASSUME TypeOK, CastInv, NEW h \in Hubs, NEW s \in Seqs, NEW r \in Round,
           NEW P \in SUBSET Hubs, NEW C \in SUBSET Hubs, NEW in, NEW out,
           TallyCast(s, r), \A m \in out : m.type # "COMMIT",
           CastBy(P, Proposing, s, r.config, out), CastBy(C, Committing, s, r.config, {}),
           Record(h, s, Tally(h, r, P, C), in, out)
    PROVE  /\ NetSent' /\ TalliesCast' /\ AppliesCertified' /\ sent \subseteq sent'
           /\ CommitsCertified
<1>1. PICK t : t = Tally(h, r, P, C)
  OBVIOUS
<1>2. PICK commit : commit = Vote("COMMIT", h, s, t.round)
  OBVIOUS
<1>3. PICK all : all = out \cup IF t.sends THEN {commit} ELSE {}
  OBVIOUS
<1>4. /\ t.round \in Round /\ t.round.config = r.config /\ t.round.height = r.height
      /\ t.sends \in BOOLEAN /\ t.applies \in BOOLEAN
  BY <1>1, TallyIsARound
<1>5. Exchange(h, in, all)
  BY <1>1, <1>2, <1>3 DEF Record
<1>6. NetSent' /\ sent' = sent \cup all /\ sent \subseteq sent'
  BY <1>5, ExchangeSent DEF CastInv
<1>7. CastBy(P, Proposing, s, r.config, all) /\ (t.sends => commit \in all)
  BY <1>3 DEF CastBy
<1>8. /\ TallyCast(s, t.round)'
      /\ t.sends => HasQuorum(r.height, Signers(Proposing, s, r.config)')
      /\ t.applies => HasQuorum(r.height, Signers(Committing, s, r.config)')
  BY <1>1, <1>2, <1>6, <1>7, TallyIsCast
<1>9. commit.seq = s /\ commit.config = r.config /\ commit.height = r.height
  BY <1>2, <1>4 DEF Vote
<1>10. CommitsCertified
  <2> SUFFICES ASSUME NEW m \in sent' \ sent, m.type = "COMMIT"
               PROVE  HasQuorum(m.height, Signers(Proposing, m.seq, m.config)')
    BY DEF CommitsCertified
  <2>1. m = commit /\ t.sends
    BY <1>3, <1>6
  <2>2. QED
    BY <1>8, <1>9, <2>1
<1>11. TalliesCast'
  <2> SUFFICES ASSUME NEW g \in Hubs, NEW z \in Seqs, NEW q, q = pending'[g][z], q # NoRound
               PROVE  TallyCast(z, q)'
    BY DEF TalliesCast, TallyCast, Signers
  <2>1. pending' = [pending EXCEPT ![h][s] = t.round]
    BY <1>1 DEF Record
  <2>2. CASE g = h /\ z = s
    <3>1. q = t.round
      BY <2>1, <2>2 DEF TypeOK
    <3>2. QED
      BY <1>8, <2>2, <3>1
  <2>3. CASE ~(g = h /\ z = s)
    <3>1. q = pending[g][z]
      BY <2>1, <2>3 DEF TypeOK
    <3>2. TallyCast(z, q)
      BY <3>1 DEF CastInv, TalliesCast
    <3>3. QED
      BY <1>6, <3>2, CastStays
  <2>4. QED
    BY <2>2, <2>3
<1>12. AppliesCertified'
  <2> SUFFICES ASSUME NEW g \in Hubs, NEW a \in inflight'[g]
               PROVE  ApplyCertified(a)'
    BY DEF AppliesCertified
  <2>1. PICK new : new = [seq |-> s, config |-> t.round.config, height |-> t.round.height,
                          leader |-> t.round.leader, step |-> "applyConfig"]
    OBVIOUS
  <2>2. inflight' = [inflight EXCEPT ![h] = @ \cup IF t.applies THEN {new} ELSE {}]
    BY <1>1, <2>1 DEF Record
  <2>3. new.seq = s /\ new.config = r.config /\ new.height = r.height
    BY <1>4, <2>1
  <2>4. a \in inflight[g] \/ (t.applies /\ a = new)
    BY <2>2 DEF TypeOK
  <2>5. CASE a \in inflight[g]
    BY <1>6, <2>5, CastStays DEF CastInv, AppliesCertified
  <2>6. CASE t.applies /\ a = new
    <3>1. HasQuorum(a.height, Signers(Committing, a.seq, a.config)')
      BY <1>8, <2>3, <2>6
    <3>2. QED
      BY <3>1 DEF ApplyCertified, HasQuorum, quorumMet
  <2>7. QED
    BY <2>4, <2>5, <2>6
<1>13. QED
  BY <1>6, <1>10, <1>11, <1>12

CertStep == CastInv' /\ CommitsCertified /\ LogCertified

\* A step that counts no vote, sends no COMMIT and applies nothing.
LEMMA QuietCert ==
    ASSUME CastInv, NEW out, sent' = sent \cup out, \A m \in out : m.type # "COMMIT",
           NetSent', log' = log,
           \A g \in Hubs : /\ locking'[g] \subseteq locking[g]
                           /\ earlyVotes'[g] \subseteq earlyVotes[g]
                           /\ inflight'[g] \subseteq inflight[g],
           \A g \in Hubs : \A s \in Seqs : Kept(pending'[g][s], pending[g][s])
    PROVE  CertStep
<1>1. CastInv'
  BY QuietCast
<1>2. CommitsCertified /\ LogCertified
  BY DEF CommitsCertified, LogCertified
<1>3. QED
  BY <1>1, <1>2 DEF CertStep

\* A dropped message counts nowhere.
LEMMA DropCert ==
    ASSUME TypeOK, CastInv, NEW h \in Hubs, NEW m \in net[h], Drop(h, m)
    PROVE  CertStep
<1>1. PICK out : out = {}
  OBVIOUS
<1>2. Exchange(h, {m}, out) /\ log' = log /\ locking' = locking /\ inflight' = inflight
      /\ earlyVotes' = earlyVotes /\ pending' = pending
  BY <1>1 DEF Drop
<1>3. NetSent' /\ sent' = sent \cup out
  BY <1>2, ExchangeSent DEF CastInv
<1>4. QED
  BY <1>1, <1>2, <1>3, QuietCert DEF Kept

\* The leader's own PRE_PREPARE is the first vote of its round (propose.js).
LEMMA ProposeCert ==
    ASSUME TypeOK, CastInv, NEW h \in Hubs, propose(h)
    PROVE  CertStep
<1>1. PICK ht \in Heights :
        \/ \E c \in Submits[h] : proposeAsLeader(h, c, ht) \/ proposeDirect(h, c, ht)
        \/ proposeRefused(h, ht)
  BY DEF propose
<1>2. \A c \in Submits[h] : c \in Configs
  BY DataAssumption
<1>3. ASSUME NEW c \in Configs, proposeAsLeader(h, c, ht)
      PROVE  CertStep
  <2>1. PICK s : s = NextSeq(h)
    OBVIOUS
  <2>2. PICK r : r = NewRound(c, 0, ht, TRUE)
    OBVIOUS
  <2>3. PICK pp : pp = Vote("PRE_PREPARE", h, s, r)
    OBVIOUS
  <2>4. PICK one, none, out : one = {h} /\ none = {} /\ out = {pp}
    OBVIOUS
  <2>5. /\ Record(h, s, Tally(h, r, one, none), none, out) /\ s \in Seqs
        /\ locking' = locking /\ earlyVotes' = earlyVotes /\ log' = log
    BY <1>3, <2>1, <2>2, <2>3, <2>4 DEF proposeAsLeader
  <2>6. 0 \in Views
    BY BoundsAssumption DEF Views
  <2>7. /\ r \in Round /\ r.config = c /\ r.prepares = {} /\ r.commits = {}
    BY <2>2, <2>6, NewRoundIsARound DEF NewRound
  <2>8. pp.type = "PRE_PREPARE" /\ pp.from = h /\ pp.seq = s /\ pp.config = r.config
    BY <2>3 DEF Vote
  <2>9. TallyCast(s, r)
    BY <2>7 DEF TallyCast
  <2>10. /\ one \in SUBSET Hubs /\ none \in SUBSET Hubs
         /\ \A m \in out : m.type # "COMMIT"
    BY <2>4, <2>8
  <2>11. /\ CastBy(one, Proposing, s, r.config, out)
         /\ CastBy(none, Committing, s, r.config, {})
    BY <2>4, <2>8 DEF CastBy, Proposing
  <2>12. /\ NetSent' /\ TalliesCast' /\ AppliesCertified' /\ sent \subseteq sent'
         /\ CommitsCertified
    BY <2>5, <2>7, <2>9, <2>10, <2>11, RecordCast
  <2>13. LockingSent' /\ EarlySent' /\ LogCertified
    BY <2>5, <2>12 DEF CastInv, LockingSent, EarlySent, LogCertified
  <2>14. QED
    BY <2>12, <2>13 DEF CertStep, CastInv
<1>4. ASSUME NEW c \in Configs, proposeDirect(h, c, ht)
      PROVE  CertStep
  <2>1. /\ sent' = sent /\ net' = net /\ locking' = locking /\ earlyVotes' = earlyVotes
        /\ inflight' = inflight /\ pending' = pending
    BY <1>4 DEF proposeDirect
  <2>2. CastInv'
    BY <2>1, QuietCast DEF CastInv, NetSent, Kept
  <2>3. CommitsCertified
    BY <2>1 DEF CommitsCertified
  <2>4. LogCertified
    <3> SUFFICES ASSUME NEW g \in Hubs, log'[g] # log[g]
                 PROVE  log'[g][Len(log'[g])].seq = 0
      BY DEF LogCertified
    <3>1. PICK e : e = [seq |-> 0, config |-> c, height |-> ht]
      OBVIOUS
    <3>2. log' = [log EXCEPT ![h] = Append(@, e)]
      BY <1>4, <3>1 DEF proposeDirect
    <3>3. g = h /\ log[h] \in Seq(LogEntry)
      BY <3>2 DEF TypeOK
    <3>4. log'[h] = Append(log[h], e)
      BY <3>2 DEF TypeOK
    <3>5. Append(log[h], e)[Len(Append(log[h], e))] = e
      BY <3>3
    <3>6. QED
      BY <3>1, <3>3, <3>4, <3>5
  <2>5. QED
    BY <2>2, <2>3, <2>4 DEF CertStep
<1>5. ASSUME proposeRefused(h, ht)
      PROVE  CertStep
  <2>1. /\ sent' = sent /\ net' = net /\ locking' = locking /\ earlyVotes' = earlyVotes
        /\ inflight' = inflight /\ pending' = pending /\ log' = log
    BY <1>5 DEF proposeRefused
  <2>2. PICK out : out = {}
    OBVIOUS
  <2>3. NetSent' /\ sent' = sent \cup out
    BY <2>1, <2>2 DEF CastInv, NetSent
  <2>4. QED
    BY <2>1, <2>2, <2>3, QuietCert DEF Kept
<1>6. QED
  BY <1>1, <1>2, <1>3, <1>4, <1>5

\* castPrepare counts the leader, this hub and the votes replayed (pre_prepare.js).
LEMMA CastPrepareCert ==
    ASSUME TypeOK, CastInv, NEW h \in Hubs, NEW m \in sent, m.type = "PRE_PREPARE",
           NEW r \in Round, NEW in, r.config = m.config, TallyCast(m.seq, r),
           castPrepare(h, m, r, in), log' = log,
           \A g \in Hubs : locking'[g] \subseteq locking[g]
    PROVE  CertStep
<1>1. PICK P, C, none : P = {m.from, h} \cup Replayed(h, m, "PREPARE")
                        /\ C = Replayed(h, m, "COMMIT") /\ none = {}
  OBVIOUS
<1>2. PICK prepare : prepare = Vote("PREPARE", h, m.seq, r)
  OBVIOUS
<1>3. PICK out : out = {prepare}
  OBVIOUS
<1>4. m \in Message /\ m.from \in Hubs /\ m.seq \in Seqs
  BY MessageFields DEF TypeOK
<1>5. P \in SUBSET Hubs /\ C \in SUBSET Hubs
  BY <1>1, <1>4, HeldMessages, MessageFields DEF Replayed, Early
<1>6. prepare.type = "PREPARE" /\ prepare.from = h /\ prepare.seq = m.seq
      /\ prepare.config = r.config
  BY <1>2 DEF Vote
<1>7. Record(h, m.seq, Tally(h, r, P, C), in, out)
  BY <1>1, <1>2, <1>3 DEF castPrepare
<1>8. \A g \in Replayed(h, m, "PREPARE") : \E v \in sent :
         v.type = "PREPARE" /\ v.from = g /\ v.seq = m.seq /\ v.config = r.config
  BY DEF Replayed, Early, CastInv, EarlySent
<1>9. \A g \in Replayed(h, m, "COMMIT") : \E v \in sent :
         v.type = "COMMIT" /\ v.from = g /\ v.seq = m.seq /\ v.config = r.config
  BY DEF Replayed, Early, CastInv, EarlySent
<1>10. CastBy(P, Proposing, m.seq, r.config, out)
  <2> SUFFICES ASSUME NEW g \in P
               PROVE  \E v \in sent \cup out :
                        v.type \in Proposing /\ v.from = g /\ v.seq = m.seq /\ v.config = r.config
    BY DEF CastBy
  <2>1. CASE g = m.from
    BY <2>1 DEF Proposing
  <2>2. CASE g = h
    BY <1>3, <1>6, <2>2 DEF Proposing
  <2>3. CASE g \in Replayed(h, m, "PREPARE")
    BY <1>8, <2>3 DEF Proposing
  <2>4. QED
    BY <1>1, <2>1, <2>2, <2>3
<1>11. CastBy(C, Committing, m.seq, r.config, {})
  BY <1>1, <1>9 DEF CastBy, Committing
<1>12. \A v \in out : v.type # "COMMIT"
  BY <1>3, <1>6
<1>13. /\ NetSent' /\ TalliesCast' /\ AppliesCertified' /\ sent \subseteq sent'
       /\ CommitsCertified
  BY <1>4, <1>5, <1>7, <1>10, <1>11, <1>12, RecordCast
<1>14. earlyVotes' = [earlyVotes EXCEPT ![h] = @ \ Early(h, m.seq)]
  BY DEF castPrepare
<1>15. LockingSent' /\ EarlySent' /\ LogCertified
  BY <1>13, <1>14 DEF CastInv, LockingSent, EarlySent, LogCertified, TypeOK
<1>16. QED
  BY <1>13, <1>15 DEF CertStep, CastInv

\* A PRE_PREPARE that arrives, or whose snapshot does.
LEMMA PrePrepareCert ==
    ASSUME TypeOK, CastInv, NEW h \in Hubs, NEW m,
           \/ m \in net[h] /\ (beginPrePrepare(h, m) \/ joinPrePrepare(h, m) \/ dropPrePrepare(h, m))
           \/ m \in locking[h] /\ (openFollowerRound(h, m) \/ declinePrePrepare(h, m))
    PROVE  CertStep
<1>1. m \in sent /\ m \in Message /\ m.seq \in Seqs
  BY HeldMessages, MessageFields DEF CastInv, NetSent, LockingSent
<1>2. PICK out : out = {}
  OBVIOUS
<1>3. CASE beginPrePrepare(h, m)
  <2>1. /\ Exchange(h, {m}, out) /\ log' = log /\ pending' = pending
        /\ earlyVotes' = earlyVotes /\ inflight' = inflight
        /\ locking' = [locking EXCEPT ![h] = @ \cup {m}] /\ m.type = "PRE_PREPARE"
    BY <1>2, <1>3 DEF beginPrePrepare, Receive
  <2>2. NetSent' /\ sent' = sent \cup out /\ sent' = sent
    BY <1>2, <2>1, ExchangeSent DEF CastInv
  <2>3. LockingSent'
    BY <1>1, <2>1, <2>2 DEF CastInv, LockingSent, TypeOK
  <2>4. EarlySent' /\ CommitsCertified /\ LogCertified
    BY <2>1, <2>2 DEF CastInv, EarlySent, CommitsCertified, LogCertified
  <2>5. TalliesCast' /\ AppliesCertified'
    BY <2>1, <2>2 DEF CastInv, TalliesCast, TallyCast, AppliesCertified, ApplyCertified,
        HasQuorum, quorumMet, Signers
  <2>6. QED
    BY <2>2, <2>3, <2>4, <2>5 DEF CertStep, CastInv
<1>4. CASE joinPrePrepare(h, m)
  <2>1. PICK r : r = pending[h][m.seq]
    OBVIOUS
  <2>2. r \in Round /\ r # NoRound /\ r.config = m.config /\ m.type = "PRE_PREPARE"
    BY <1>1, <1>4, <2>1 DEF joinPrePrepare, Receive, TypeOK
  <2>3. TallyCast(m.seq, r)
    BY <1>1, <2>1, <2>2 DEF CastInv, TalliesCast
  <2>4. castPrepare(h, m, r, {m}) /\ log' = log /\ locking' = locking
    BY <1>4, <2>1 DEF joinPrePrepare
  <2>5. QED
    BY <1>1, <2>2, <2>3, <2>4, CastPrepareCert
<1>5. CASE m \in net[h] /\ dropPrePrepare(h, m)
  BY <1>5, DropCert DEF dropPrePrepare
<1>6. CASE m \in locking[h] /\ openFollowerRound(h, m)
  <2>1. PICK r : r = NewRound(m.config, m.view, m.height, FALSE)
    OBVIOUS
  <2>2. m.config \in Configs /\ m.view \in Views /\ m.height \in Heights
        /\ m.type = "PRE_PREPARE"
    BY <1>6, HeldMessages, MessageFields DEF CastInv, LockingSent
  <2>3. r \in Round /\ r.config = m.config /\ r.prepares = {} /\ r.commits = {}
    BY <2>1, <2>2, NewRoundIsARound DEF NewRound
  <2>4. TallyCast(m.seq, r)
    BY <2>3 DEF TallyCast
  <2>5. PICK in : in = {}
    OBVIOUS
  <2>6. castPrepare(h, m, r, in) /\ log' = log /\ \A g \in Hubs : locking'[g] \subseteq locking[g]
    BY <1>6, <2>1, <2>5 DEF openFollowerRound, TypeOK
  <2>7. QED
    BY <1>1, <2>2, <2>3, <2>4, <2>6, CastPrepareCert
<1>7. CASE m \in locking[h] /\ declinePrePrepare(h, m)
  <2>1. /\ sent' = sent \cup out /\ net' = net /\ log' = log /\ pending' = pending
        /\ earlyVotes' = earlyVotes /\ inflight' = inflight
        /\ \A g \in Hubs : locking'[g] \subseteq locking[g]
    BY <1>2, <1>7 DEF declinePrePrepare, TypeOK
  <2>2. NetSent'
    BY <2>1 DEF CastInv, NetSent
  <2>3. QED
    BY <1>2, <2>1, <2>2, QuietCert DEF Kept
<1>8. QED
  BY <1>3, <1>4, <1>5, <1>6, <1>7

\* A vote that is buffered, counted or dropped (votes.js).
LEMMA VoteCert ==
    ASSUME TypeOK, CastInv, NEW h \in Hubs, NEW m \in net[h],
           \/ dropVote(h, m) \/ handlePrepare(h, m) \/ handleCommit(h, m)
           \/ \E lapsed : bufferVote(h, m, lapsed)
    PROVE  CertStep
<1>1. m \in sent /\ m \in Message /\ m.seq \in Seqs /\ m.from \in Hubs
  BY HeldMessages, MessageFields DEF CastInv, NetSent
<1>2. PICK one, none : one = {m.from} /\ none = {}
  OBVIOUS
<1>3. PICK r : r = pending[h][m.seq]
  OBVIOUS
<1>4. ASSUME handlePrepare(h, m) \/ handleCommit(h, m)
      PROVE  CertStep
  <2>1. r \in Round /\ r # NoRound /\ r.config = m.config
    BY <1>1, <1>3, <1>4 DEF handlePrepare, handleCommit, VoteCounts, TypeOK
  <2>2. TallyCast(m.seq, r)
    BY <1>1, <1>3, <2>1 DEF CastInv, TalliesCast
  <2>3. \/ /\ m.type = "PREPARE"
           /\ Record(h, m.seq, Tally(h, r, one, none), {m}, none)
        \/ /\ m.type = "COMMIT"
           /\ Record(h, m.seq, Tally(h, r, none, one), {m}, none)
    BY <1>2, <1>3, <1>4 DEF handlePrepare, handleCommit, Receive
  <2>4. locking' = locking /\ earlyVotes' = earlyVotes /\ log' = log
    BY <1>4 DEF handlePrepare, handleCommit
  <2>5. one \in SUBSET Hubs /\ none \in SUBSET Hubs /\ \A n \in none : n.type # "COMMIT"
    BY <1>1, <1>2
  <2>6. /\ CastBy(none, Proposing, m.seq, r.config, none)
        /\ CastBy(none, Committing, m.seq, r.config, {})
        /\ m.type = "PREPARE" => CastBy(one, Proposing, m.seq, r.config, none)
        /\ m.type = "COMMIT" => CastBy(one, Committing, m.seq, r.config, {})
    BY <1>1, <1>2, <2>1 DEF CastBy, Proposing, Committing
  <2>7. /\ NetSent' /\ TalliesCast' /\ AppliesCertified' /\ sent \subseteq sent'
        /\ CommitsCertified
    <3>1. CASE m.type = "PREPARE" /\ Record(h, m.seq, Tally(h, r, one, none), {m}, none)
      BY <1>1, <2>1, <2>2, <2>5, <2>6, <3>1, RecordCast
    <3>2. CASE m.type = "COMMIT" /\ Record(h, m.seq, Tally(h, r, none, one), {m}, none)
      BY <1>1, <2>1, <2>2, <2>5, <2>6, <3>2, RecordCast
    <3>3. QED
      BY <2>3, <3>1, <3>2
  <2>8. LockingSent' /\ EarlySent' /\ LogCertified
    BY <2>4, <2>7 DEF CastInv, LockingSent, EarlySent, LogCertified
  <2>9. QED
    BY <2>7, <2>8 DEF CertStep, CastInv
<1>5. ASSUME NEW lapsed, bufferVote(h, m, lapsed)
      PROVE  CertStep
  <2>1. /\ Exchange(h, {m}, none) /\ log' = log /\ pending' = pending
        /\ locking' = locking /\ inflight' = inflight
    BY <1>2, <1>5 DEF bufferVote
  <2>2. NetSent' /\ sent' = sent \cup none /\ sent' = sent
    BY <1>2, <2>1, ExchangeSent DEF CastInv
  <2>3. \A g \in Hubs : earlyVotes'[g] \subseteq earlyVotes[g] \cup {m}
    <3>1. bufferEarlyVote(h, m, lapsed)
      BY <1>5 DEF bufferVote
    <3>2. \/ UNCHANGED earlyVotes
          \/ \E votes \in SUBSET earlyVotes[h], more \in SUBSET {m} :
                earlyVotes' = [earlyVotes EXCEPT ![h] = votes \cup more]
      BY <3>1 DEF bufferEarlyVote
    <3>3. CASE \E votes \in SUBSET earlyVotes[h], more \in SUBSET {m} :
                  earlyVotes' = [earlyVotes EXCEPT ![h] = votes \cup more]
      <4>1. PICK votes \in SUBSET earlyVotes[h], more \in SUBSET {m} :
              earlyVotes' = [earlyVotes EXCEPT ![h] = votes \cup more]
        BY <3>3
      <4>2. PICK now : now = votes \cup more /\ now \subseteq earlyVotes[h] \cup {m}
        OBVIOUS
      <4>3. \A g \in Hubs : earlyVotes'[g] = IF g = h THEN now ELSE earlyVotes[g]
        BY <4>1, <4>2 DEF TypeOK
      <4>4. QED
        BY <4>2, <4>3
    <3>4. QED
      BY <3>2, <3>3
  <2>4. EarlySent' /\ LockingSent' /\ CommitsCertified /\ LogCertified
    BY <1>1, <2>1, <2>2, <2>3 DEF CastInv, EarlySent, LockingSent, CommitsCertified, LogCertified
  <2>5. TalliesCast' /\ AppliesCertified'
    BY <2>1, <2>2 DEF CastInv, TalliesCast, TallyCast, AppliesCertified, ApplyCertified,
        HasQuorum, quorumMet, Signers
  <2>6. QED
    BY <2>2, <2>4, <2>5 DEF CertStep, CastInv
<1>6. CASE dropVote(h, m)
  BY <1>6, DropCert DEF dropVote
<1>7. QED
  BY <1>4, <1>5, <1>6

\* An apply writes what its certificate covers, also after its round is gone.
LEMMA ApplyCert ==
    ASSUME TypeOK, CastInv, NEW h \in Hubs, NEW a \in inflight[h],
           applyConfig(h, a) \/ persistAppliedRound(h, a) \/ unlockFailedApply(h, a)
    PROVE  CertStep
<1>1. a.seq \in Seqs /\ ApplyCertified(a) /\ a \in Apply
  BY HeldMessages DEF Apply, CastInv, AppliesCertified
<1>2. PICK out : out = {}
  OBVIOUS
<1>3. CASE applyConfig(h, a)
  <2>1. PICK b, e : /\ b = [a EXCEPT !.step = "saveSeq"]
                    /\ e = [seq |-> a.seq, config |-> a.config, height |-> a.height]
    OBVIOUS
  <2>2. /\ b.seq = a.seq /\ b.config = a.config /\ b.height = a.height
        /\ e.seq = a.seq /\ e.config = a.config /\ e.height = a.height
    BY <1>1, <2>1 DEF Apply
  <2>3. /\ inflight' = [inflight EXCEPT ![h] = (@ \ {a}) \cup {b}]
        /\ log' = [log EXCEPT ![h] = Append(@, e)]
        /\ sent' = sent /\ net' = net /\ pending' = pending /\ locking' = locking
        /\ earlyVotes' = earlyVotes
    BY <1>3, <2>1 DEF applyConfig
  <2>4. ApplyCertified(b)
    BY <1>1, <2>2 DEF ApplyCertified
  <2>5. AppliesCertified'
    <3> SUFFICES ASSUME NEW g \in Hubs, NEW d \in inflight'[g]
                 PROVE  ApplyCertified(d)'
      BY DEF AppliesCertified
    <3>1. d \in inflight[g] \/ d = b
      BY <2>3 DEF TypeOK
    <3>2. ApplyCertified(d)
      BY <2>4, <3>1 DEF CastInv, AppliesCertified
    <3>3. QED
      BY <2>3, <3>2, CastStays
  <2>6. NetSent' /\ LockingSent' /\ EarlySent' /\ CommitsCertified
    BY <2>3 DEF CastInv, NetSent, LockingSent, EarlySent, CommitsCertified
  <2>7. TalliesCast'
    BY <2>3 DEF CastInv, TalliesCast, TallyCast, Signers
  <2>8. LogCertified
    <3> SUFFICES ASSUME NEW g \in Hubs, log'[g] # log[g]
                 PROVE  HasQuorum(log'[g][Len(log'[g])].height,
                                  Signers(Committing, log'[g][Len(log'[g])].seq,
                                          log'[g][Len(log'[g])].config))
      BY DEF LogCertified
    <3>1. g = h /\ log[h] \in Seq(LogEntry) /\ log'[h] = Append(log[h], e)
      BY <2>3 DEF TypeOK
    <3>2. log'[g][Len(log'[g])] = e
      BY <3>1
    <3>3. HasQuorum(e.height, Signers(Committing, e.seq, e.config))
      BY <1>1, <2>2 DEF ApplyCertified
    <3>4. QED
      BY <3>2, <3>3
  <2>9. QED
    BY <2>5, <2>6, <2>7, <2>8 DEF CertStep, CastInv
<1>4. CASE persistAppliedRound(h, a) \/ unlockFailedApply(h, a)
  <2>1. /\ sent' = sent \cup out /\ net' = net /\ locking' = locking /\ log' = log
        /\ earlyVotes' = earlyVotes
        /\ inflight' = [inflight EXCEPT ![h] = @ \ {a}]
    BY <1>2, <1>4 DEF persistAppliedRound, unlockFailedApply
  <2>2. NetSent' /\ \A g \in Hubs : inflight'[g] \subseteq inflight[g]
    BY <1>2, <2>1 DEF CastInv, NetSent, TypeOK
  <2>3. PICK r : r = pending[h][a.seq]
    OBVIOUS
  <2>4. r \in Round \cup {NoRound}
    BY <1>1, <2>3 DEF TypeOK
  <2>5. PICK q : /\ pending' = [pending EXCEPT ![h][a.seq] = q]
                 /\ q = NoRound \/ q = r
                    \/ (r # NoRound /\ q = [r EXCEPT !.applying = FALSE])
    BY <1>4, <2>3 DEF persistAppliedRound, unlockFailedApply
  <2>6. Kept(q, r)
    BY <2>4, <2>5 DEF Kept, Round
  <2>7. \A g \in Hubs : \A s \in Seqs : Kept(pending'[g][s], pending[g][s])
    <3> SUFFICES ASSUME NEW g \in Hubs, NEW s \in Seqs
                 PROVE  Kept(pending'[g][s], pending[g][s])
      OBVIOUS
    <3>1. CASE g = h /\ s = a.seq
      BY <1>1, <2>3, <2>5, <2>6, <3>1 DEF TypeOK
    <3>2. CASE ~(g = h /\ s = a.seq)
      <4>1. pending'[g][s] = pending[g][s]
        BY <2>5, <3>2 DEF TypeOK
      <4>2. QED
        BY <4>1 DEF Kept
    <3>3. QED
      BY <3>1, <3>2
  <2>8. QED
    BY <1>2, <2>1, <2>2, <2>7, QuietCert
<1>5. QED
  BY <1>3, <1>4

\* Round timers and restarts forget rounds, and lose no certificate.
LEMMA ForgetCert ==
    ASSUME TypeOK, CastInv, NEW h \in Hubs,
           \/ \E t \in timers[h] : expireFollowerRound(h, t) \/ initiateViewChange(h, t)
           \/ restart(h)
    PROVE  CertStep
<1>1. ASSUME NEW t \in timers[h], expireFollowerRound(h, t)
      PROVE  CertStep
  <2>1. PICK out : out = {}
    OBVIOUS
  <2>2. /\ pending' = [pending EXCEPT ![h][t.seq] = NoRound] /\ log' = log
        /\ locking' = locking /\ inflight' = inflight /\ earlyVotes' = earlyVotes
        /\ sent' = sent \cup out /\ net' = net
    BY <1>1, <2>1 DEF expireFollowerRound
  <2>3. NetSent'
    BY <2>2 DEF CastInv, NetSent
  <2>4. \A g \in Hubs : \A s \in Seqs : Kept(pending'[g][s], pending[g][s])
    BY <2>2 DEF Kept, TypeOK
  <2>5. QED
    BY <2>1, <2>2, <2>3, <2>4, QuietCert
<1>2. ASSUME NEW t \in timers[h], initiateViewChange(h, t)
      PROVE  CertStep
  <2>1. PICK n : n = ViewNotice("VIEW_CHANGE", h, t.seq, view[h] + 1)
    OBVIOUS
  <2>2. PICK none, out : none = {} /\ out = {n}
    OBVIOUS
  <2>3. /\ pending' = [pending EXCEPT ![h][t.seq] = NoRound] /\ log' = log
        /\ locking' = locking /\ inflight' = inflight /\ earlyVotes' = earlyVotes
        /\ Exchange(h, none, out)
    BY <1>2, <2>1, <2>2 DEF initiateViewChange
  <2>4. NetSent' /\ sent' = sent \cup out
    BY <2>3, ExchangeSent DEF CastInv
  <2>5. \A m \in out : m.type # "COMMIT"
    BY <2>1, <2>2 DEF ViewNotice
  <2>6. \A g \in Hubs : \A s \in Seqs : Kept(pending'[g][s], pending[g][s])
    BY <2>3 DEF Kept, TypeOK
  <2>7. QED
    BY <2>3, <2>4, <2>5, <2>6, QuietCert
<1>3. CASE restart(h)
  <2>1. PICK out : out = {}
    OBVIOUS
  <2>2. sent' = sent \cup out /\ net' = net /\ log' = log
    BY <1>3, <2>1 DEF restart
  <2>3. NetSent'
    BY <2>2 DEF CastInv, NetSent
  <2>4. \A g \in Hubs : /\ locking'[g] \subseteq locking[g]
                        /\ earlyVotes'[g] \subseteq earlyVotes[g]
                        /\ inflight'[g] \subseteq inflight[g]
    BY <1>3 DEF restart, TypeOK
  <2>5. \A g \in Hubs : \A s \in Seqs : Kept(pending'[g][s], pending[g][s])
    BY <1>3 DEF restart, Kept, TypeOK
  <2>6. QED
    BY <2>1, <2>2, <2>3, <2>4, <2>5, QuietCert
<1>4. QED
  BY <1>1, <1>2, <1>3

\* VIEW_CHANGE and NEW_VIEW count no vote for a config (view_change.js).
LEMMA ViewChangeCert ==
    ASSUME TypeOK, CastInv, NEW h \in Hubs, NEW m \in net[h],
           \/ tallyViewChange(h, m) \/ acceptViewChange(h, m) \/ dropViewChange(h, m)
           \/ handleNewView(h, m) \/ dropNewView(h, m)
    PROVE  CertStep
<1>1. CASE tallyViewChange(h, m) \/ acceptViewChange(h, m) \/ handleNewView(h, m)
  <2>1. PICK n : n = ViewNotice("NEW_VIEW", h, m.seq, m.view)
    OBVIOUS
  <2>2. PICK out : Exchange(h, {m}, out) /\ (out = {} \/ out = {n})
    BY <1>1, <2>1 DEF tallyViewChange, acceptViewChange, handleNewView
  <2>3. /\ inflight' = inflight /\ log' = log /\ locking' = locking /\ pending' = pending
        /\ earlyVotes' = earlyVotes
    BY <1>1 DEF tallyViewChange, acceptViewChange, handleNewView
  <2>4. \A k \in out : k.type # "COMMIT"
    BY <2>1, <2>2 DEF ViewNotice
  <2>5. NetSent' /\ sent' = sent \cup out
    BY <2>2, ExchangeSent DEF CastInv
  <2>6. QED
    BY <2>3, <2>4, <2>5, QuietCert DEF Kept
<1>2. CASE dropViewChange(h, m) \/ dropNewView(h, m)
  BY <1>2, DropCert DEF dropViewChange, dropNewView
<1>3. QED
  BY <1>1, <1>2

\* A hub never applies a config but on a quorum of COMMITs for it, nor commits but on
\* a quorum of proposals and prepares, all of them really cast, through buffered and
\* replayed votes, rounds replaced during an await, timeouts, failed writes and
\* restarts (pbft/votes.js, pbft/pre_prepare.js), for every number of hubs and slots.
THEOREM CertificatesBehindActs == Spec => ActsOnCertificates
<1> DEFINE Inv == TypeOK /\ CastInv
<1>1. Init => Inv
  <2>1. Init => TypeOK
    BY BoundsAssumption DEF Init, TypeOK, Views
  <2>2. Init => CastInv
    BY DEF Init, CastInv, NetSent, LockingSent, EarlySent, TalliesCast, AppliesCertified
  <2>3. QED
    BY <2>1, <2>2
<1>2. ASSUME TypeOK, CastInv, Next
      PROVE  CertStep
  <2>1. PICK h \in Hubs :
          \/ propose(h)
          \/ \E m \in net[h] : handleMessage(h, m)
          \/ bufferPastTtl(h)
          \/ \E m \in locking[h] : openFollowerRound(h, m) \/ declinePrePrepare(h, m)
          \/ \E a \in inflight[h] :
                applyConfig(h, a) \/ persistAppliedRound(h, a) \/ unlockFailedApply(h, a)
          \/ \E t \in timers[h] : expireFollowerRound(h, t) \/ initiateViewChange(h, t)
          \/ restart(h)
    BY <1>2 DEF Next
  <2>2. ASSUME NEW m \in net[h], handleMessage(h, m)
        PROVE  CertStep
    BY <1>2, <2>2, PrePrepareCert, VoteCert, ViewChangeCert DEF handleMessage
  <2>3. CASE bufferPastTtl(h)
    BY <1>2, <2>3, VoteCert DEF bufferPastTtl
  <2>4. QED
    BY <1>2, <2>1, <2>2, <2>3, ProposeCert, PrePrepareCert, ApplyCert, ForgetCert
<1>3. CastInv /\ UNCHANGED vars => CastInv'
  BY DEF vars, CastInv, NetSent, LockingSent, EarlySent, TalliesCast, TallyCast,
      AppliesCertified, ApplyCertified, HasQuorum, quorumMet, Signers
<1>4. Inv /\ [Next]_vars => Inv'
  BY <1>2, <1>3, TypeStep DEF CertStep
<1>5. Inv /\ [Next]_vars => [CommitsCertified /\ LogCertified]_vars
  BY <1>2 DEF CertStep
<1>6. [CommitsCertified /\ LogCertified]_vars =>
      [/\ \A h \in Hubs : log'[h] # log[h] =>
             LET e == log'[h][Len(log'[h])]
             IN  e.seq # 0 => HasQuorum(e.height, Signers({"COMMIT"}, e.seq, e.config))
       /\ \A m \in sent' \ sent : m.type = "COMMIT" =>
             HasQuorum(m.height, Signers({"PRE_PREPARE", "PREPARE"}, m.seq, m.config)')]_vars
  BY DEF CommitsCertified, LogCertified, Proposing, Committing
<1>7. QED
  BY <1>1, <1>4, <1>5, <1>6, PTL DEF Spec, ActsOnCertificates
=============================================================================
