# Formal model of the XChain hub

This directory specifies parts of the XChain hub (`src/src/`) in TLA+, model-checks
them with TLC on small instances and proves theorems about them with TLAPS. Paths
below are relative to `src/src/` unless they start with `src/`.

`PROJECT.json` is the index: every component, every run with its properties and
mutants, the source lines each definition stands for, the findings, the hazards the
properties are aimed at, and the theorems.

## 1. The system

A hub is one Node.js process: a single event loop over a MariaDB database, a P2P
gossip network of other hubs, and HTTP connections to the indexers of BTC, LTC and
DOGE. A federation of hubs agrees on configs, prices, attestations and cross-chain
actions, and pays to put some of them on chain. Nothing runs in parallel within a hub,
but every `await` lets other handlers run, so what was read before it may be stale
after it.

| Component | State it keeps | Operations | Talks to | Hard behaviour | What makes it correct |
|---|---|---|---|---|---|
| Quorum thresholds (`lib/bft_quorum.js`, `consensus/stake_weighted_quorum.js`) | none | counted and stake-weighted quorum tests | every engine | boundaries, malformed snapshots | two quorums of a snapshot overlap; a verdict is monotone and fails closed |
| Config PBFT (`consensus/pbft*`) | slot and view counters, pending rounds, early votes, view-change votes, `consensus_state.last_seq` | propose, PRE_PREPARE, PREPARE, COMMIT, VIEW_CHANGE, NEW_VIEW, timers, apply | gossip, capability snapshots, database | votes overtake proposals, snapshot awaited in mid-handler, timers under applies, restarts | one config per slot, applied once, on real certificates; rounds finish |
| Oracle publisher (`oracle/publisher/`) | buffer file, queue file, dead-letter file, marker table, window memos, takeover timers | buffer, assemble, sign, enqueue, pass, takeover, prune, retract | batch signer, broadcast hook, spend guard, landing chain | crash between paying and recording, lost answers, failed writes, deletes racing a pass | no round paid for twice, ceiling kept across restarts, no entry lost |
| Spend guard (`lib/spend_guard.js`, `providers/effector_spend/`) | spends of a rolling window and their file | reserve, commit, release, pause, reload | every effector that pays | crash with a reservation out, unwritable file | spends of a window never exceed the ceiling |
| Cross-chain PBFT (`cross_chain/pbft/`, `dex_consensus.js`) | rounds keyed by row id, finalized rows, early buffer, view-change votes | propose, PROPOSE, PREPARE, COMMIT, VIEW_CHANGE, NEW_VIEW, FINAL_SYNC, timers, forget | DEX, call, bridge, list-share, relay engines | the leader's row replaces the own one after awaits; snapshots differ by tip; late catch-up | what is emitted carries a quorum of signatures over that very row; no hub commits to two rows |
| Relay rails (`cross_chain/bridge/`, `cross_chain/call/`) | in-flight guards, pending writes, retraction fence, ledger rows | poll, open a round, write, mirror, defer, retract | cross-chain PBFT, indexers, database | a reorg while a write is awaited | a removed action leaves no live row; one that stays is relayed |
| Oracle consensus (`oracle/consensus`, `round`) | submissions and votes of a round, price snapshots, last finalized prices | submit, aggregate, propose, co-sign, finalize, skip | fetchers, gossip, publisher, slash detector | leader and fallback both propose, stale references, failing writes | the stored proof is over the stored row; every round is recorded; honest proposals pass |
| Batch signer (`oracle/batch_signer`) | the signing round, co-signature memo | propose, co-sign, collect | publisher, gossip | timeouts, drifted content | a wire carries a quorum's signatures |
| Attestation (`attestation/`) | requests, responses, relay write-ahead log | request, respond, escalate, publish, relay | providers, gossip, chain | escalation timers, ambiguous sends | one answer per request, published once |
| Anchor (`anchor/`) | checkpoints, publish intents, rewards | checkpoint, publish, fold, archive | chain, database | reorgs, fee bumps, crashes | one anchor per checkpoint |
| Reorg handling (`anchor/reorg_handler`) | pending and processed reorgs | report, probe the own node, ALERT, PREPARE, COMMIT, roll back | indexers, gossip, database | votes overtake alerts, failing rollbacks | a rollback rests on what the voters' own nodes showed |
| Retraction (`consensus/retraction`) | local intents, signing rounds, deferrals | submit, co-sign, collect, stream, time out | all engines, mirrors | hubs at different tips sign different canonicals | no deletion on another hub's word; none is dropped |
| Validators (`validators/`) | capability snapshots, registries, governance proposals, slash evidence | refresh, vote, tally, detect | indexers, gossip | stale caches, membership drift | every hub sees one membership per block |
| Peers (`peers/`) | connections, seen ids, mirrored rows | broadcast, relay, dedupe, catch up | other hubs | loss, duplicates, reconnects | a message is handled once |
| Roll call, full-node challenge (`rollcall/`, `consensus/full_node_challenge_round*`) | rounds and answers | call, answer, tally | gossip, chain | deadlines | only those that answered count |
| Swap tracker (`cross_chain/swap_tracker.js`) | swap records | report, advance | indexers | reordered reports | the life cycle never goes back |
| Hub facade, API, database, coins, observability | wiring, pools, caches | start, stop, serve | all | - | not about protocol state |

The parts listed as `not_modelled` in `PROJECT.json` are left out so far for the
reasons given there; most are in the plan (section 7).

## 2. Modules

| Module | What it is |
|---|---|
| `HubQuorum` | The two quorum rules as operators over a validator snapshot. |
| `MCHubQuorum` | Enumerates snapshots, grown validator by validator, and states what the rules promise. |
| `HubQuorumProofs` | Counted quorums intersect and stake quorums overlap by a third, for every size and every snapshot `MCHubQuorum` can list; the theory of stake sums behind it. |
| `ConfigPbft` | The config engine: a federation of hubs and the gossip between them. Extends `HubQuorum`. |
| `MCConfigPbft` | Hubs, snapshots, stakes and fault budgets for TLC. |
| `ConfigPbftProofs` | Type correctness, agreement, configs applied once, records that follow the config rows, and certificates behind every COMMIT and apply. |
| `PricePublisher` | One hub's publish rail with its files, its marker table, the spend guard and the chain. |
| `MCPricePublisher` | Fault budgets for TLC. |
| `PricePublisherProofs` | The spend ceiling holds, types, and no round is paid for twice. |
| `MCConfigRecovery` | Two instances of `ConfigPbft` in one run: a pair of hubs over two slots, three hubs over one. |
| `CrossChainPbft` | The engine of the cross-chain rails, for one row id. Extends `HubQuorum`. |
| `CrossChainPbftProofs` | Types, the proof behind every emitted row, and that commits hold. |
| `MCCrossChainPbft` | Its scenarios, together with the snapshots of `MCHubQuorum`. |
| `AttestRelay` | One hub's attestation relay and its write-ahead log. |
| `AttestRelayProofs` | A leg is paid for once. |
| `MCRestarts` | Extends `MCConfigRecovery` and `AttestRelay`: both in one run. |
| `MCRails` | `MCCrossChainPbft` and `MCPricePublisher` in one run. |
| `RelayLedger` | One hub's ledger row of a bridge transfer or a call while its source chain reorganizes. |
| `DeletionPromise` | Abstract specification: what indexers that mirror a hub may rely on about deletions. |
| `RetractionConsensus` | The signing round of a retraction; implements `DeletionPromise`. |
| `ReorgHandler` | Detection, voting and rollback of a reorg. |
| `ReorgProofs` | `RetractionConsensus` implements `DeletionPromise`; a rollback rests on observations; on the bridge no row outlives its retraction. |
| `MCProgress` | Extends `MCConfigPbft`, `RelayLedger`, `RetractionConsensus` and `ReorgHandler`: all four under fairness. |
| `PriceAggregate` | Median, trimming, clamp, co-sign gate and slash detection as operators on submissions. |
| `OracleRounds` | One oracle round among its hubs. Extends `HubQuorum`. |
| `OracleRoundsProofs` | The proof stored with a round is one. |
| `PriceWalk` | Oracle rounds in succession, with hubs that miss some. Extends `PriceAggregate`. |
| `PriceWalkProofs` | The median stays within the majority's prices; the co-sign gate passes what an equally informed hub proposes. |
| `MCOracle` | Plans, price moves and submission sets for TLC. |

Definitions carry the names of the functions they model. Definitions named `Mut...`
are deliberate bugs: each run of a property is repeated with the correct definition
replaced by one of them, and must then fail.

### ConfigPbft

State and code: `seq`, `view`, `lastApplied` are the engine's counters; `pending` is
`pendingProposals`; `earlyVotes` with `earlyOrder` (the Map's insertion order) is the
early-vote buffer; `vcKeys` and `vcHeight` are the view-change tallies; `dbSeq` is the
`last_seq` row. `locking` and `inflight` are what the code awaits: a PRE_PREPARE whose
snapshot is being fetched, and an apply between `applyConfig` and `saveSeq`. `timers`
keeps the timers of replaced rounds too, since the code never disarms those. `net` and
`sent` are the gossip; `log`, `restarted` and `writeFailed` are history.

Actions and code: `propose` (refused, led, or applied directly by a sole member);
`beginPrePrepare`, `openFollowerRound`, `declinePrePrepare`, `joinPrePrepare` and
`dropPrePrepare` (the handler before and after its await); `handlePrepare`,
`handleCommit`, `bufferVote`, `dropVote`; `applyConfig`, `persistAppliedRound`,
`unlockFailedApply`; `expireFollowerRound`, `initiateViewChange`; `tallyViewChange`,
`acceptViewChange`, `handleNewView` and their drops; `restart`. A message taken off
`net` is handled in one turn of the loop, with every vote, COMMIT and apply it
triggers (`Tally`, `Record`), as the synchronous code does.

Abstractions: a hub is its key, a config is its digest, and a message's sender is its
signer. A round keeps only the height of the snapshot it locked, because its quorum,
weights and rotation are functions of it; an entry of a snapshot without a weight counts
as 0 (`normalizeValidators`, in `progress`). Gossip delivers at most once, in any order,
late or never (`peers/gossip/inbound.js`).

### PricePublisher

State and code: `buffer`, `queue`, `dead` and `disk` are the files, `marker` the table
`oracle_published_rounds`, `finalized` the rounds of `price_snapshots`; `assembled`,
`shed` (`_landedRounds`), `armed`, `published`, `quarantined` and `spent` are memory and
die with the process.
`at` says what the one job on the window chain awaits; `batch`, `todo`, `left`, `kept`
and `won` are its locals. `pruning` and `clearing` are deletes in flight that nothing
waits for, `restoring` the reads a retraction makes before its delete. `chain` and `landed` are outside the hub; `forgotten` and `paid` are history.

Actions and code: `onRoundFinalized`; `passOver`, `assembleWindow`,
`retireExhaustedWindow`, `declineTakeover`, `runTakeoverAttempt`, `signingFails`,
`enqueueWindowWires`; `processQueue` and, per entry, `abandonEntry`, `dropEntry`,
`beginEntry`, `readMarker`, `reserve`, `recordIntent`, `broadcast`, `notePublished`,
`markPublished`, `ambiguousSend`, `definitiveFailure`, `withdrawIntent`;
`rebuildQueue`; `prunePublishedRounds`, `noteBatchLanded`; `clearPublishedMarkers`,
`restoreBufferedRounds` and `clearMarkerRows`, the three parts of a retraction; `windowRolls`; `restart`. One database row per step: a crash, a
retraction or a prune may fall between any two.

Abstractions: a round stands for its prices, a wire for the rounds it carries; the
buffer and its file are one; all spends of a spend window age out together; windows
have one size; a retracted round is carried by no other batch. A retraction does not take
rounds out of `shed`, so that they still count as covered. The read of the landing
chain before a retracted window is re-proposed is the action `noteBatchLanded`.

### AttestRelay

One hub of the relay. `relayLog` and `dated` are the log file: per leg the phases that
were written, and the requests whose deadline some record carries. A set of phases is
enough, because `loadWal` and `foldWalRecords` give the same outcome for every order in
which a leg's records can be read. `published` is the two at-most-once sets, `wire` the
finalized wires with this hub's rank, `legRounds` and `roundsDone` the engine's rounds
and finalized ids, `deadlines` and `latest` what eviction goes by, `shown` the indexer
views, `polling` the poll. `tip`, `landed` and `paid` are outside the hub; `exposed` and
`peak`, the greatest height the origin chain had, are history. A reorg takes the tip at
most `Confirmations` below the peak, the depth the relay waits for before it acts. The
origin lists a request until its expiry sweep, which may lag by the grace window.

Actions: `maybeRelay` (an own proposal; the deadline is noted first, published leg or not) and `validateProposedMatch` (a peer's);
`RoundAbandoned`, `onRoundFinalized`; `broadcast` up to its await and what follows it,
`NodeTakes`, `noteLegSent`, `noteLegAmbiguous`, `noteLegSendFailed`; `poll` with its
reads, `sweepFinalized`, `sweepLeg` and `evictExpired`; `start` (the process dies and comes back); and the chains,
`OriginAdvances`, `OriginReorgs`, `LegLands`.

Abstractions: a record is on disk whole or not at all; the round is `CrossChainPbft`'s,
here open, final or abandoned, and it ends before the grace window of its request does;
a sweep waits for the send it started. The cap of the deadline index (which keeps legs
rather than sends them) and `stop()` are left out, and so is a log that exists and
cannot be read, which `loadWal` takes for a first run.

### CrossChainPbft

A round is keyed by a row id, which two hubs can propose with different rows: they poll
at different tips and clocks. `rounds` keeps every round object a hub opened and `live`
the one in `this.pending`, because a suspended handler (`tasks`) keeps the object it
began with and may find it replaced. `finalRow` is `finalizedRows`, `early` the early
buffer, `xnet` the gossip and `emitted` the `match:finalized` events. Actions: `propose`
with its sole-operator path, `broadcastPropose` after the snapshot is persisted,
`handlePropose`, `Validated` and `Rebound` (a row is adopted, and the round bound to
the block it declares, only after two awaits), `handlePrepare`, `handleCommit`,
`Timeout`, `handleViewChange`, `handleNewView`, `RestampArrives`, `handleFinalSync`,
`SyncRebound`, and the ways a round ends: `AwaitFails`, `Abandon`, `forgetFinalized`,
`EvictFinalized`, `Cleanup`, `Restart`. Signatures are kept with the canonical they are
over; payloads are reduced to the two fields a proposer chooses. The answer of a margin
lookup (`RestampArrives`) moves the stamp of the round's row, and of the cached final row
when that is the same object, whether or not the view it was asked for still stands. A
margin that is known at once may be unusable (`RestampFails`): the new leader then rises
to the view and announces nothing. A key that is listed twice leads twice.

Two turns of the loop are one step here: where `rebindSnapshot` has nothing to look up,
`handlePropose` still awaits a settled promise (`votes.js:65`). Only jobs queued before it
run in between; a message, a timer or a database answer does not.

`ProofBehindFinal` is claimed for the rails that know their margin (`scenario.restamp`
other than "later"): where it is looked up, the row can change under its signatures
(section 4). `CommitHolds` excepts the row whose snapshot the hub was looking up when its
COMMIT left. The quorum behind an emitted row is one of signers, and a hub
outside the snapshot may be one of them (section 4).

### RelayLedger

One source action, mined in up to `MaxGen` generations; a reorg notice retracts the
generations it removed. `guarded`, `rowWrites`, `fence` and `fenceSeq` are `_inflight`,
`_pendingWrites`, `_retractionFence` and `_retractionSeq`. A statement sent to the
database takes effect between the step that sends it and the one that sees its result,
which is where bridge and call rail differ: `waitForCoveredWrites` exists on the
bridge only. A retraction waits, finds its rows, updates one (`DatabaseRetracts`) and then
releases the leg's guard and its round (`retractTransfersForReorg`), which may be of a
generation mined meanwhile. A call whose deadline has passed (`CallExpires`) is not
dispatched any more; `LegRelayed` is about the bridge and about calls in time. The round in between is `CrossChainPbft`'s, taken here as finalizing or
being abandoned.

### RetractionConsensus, DeletionPromise

One intent past the signing gate. A round id stands for the canonical, which holds the
snapshot block of the hub that opened it: hubs at different tips open different rounds.
`intents` is `localIntents`, `signing` the pending rounds, `deferrals` the hubs that
wait for a snapshot, `doneIds` the finalized ids. `DeletionPromise` knows only which
indexers asked and what was streamed; the refinement maps `pushed` and `deletions` to
it, and `KeepsPromise` is that every step of the rail is one of the promise's or
changes neither. A signed deletion is promised the signatures of a quorum of one snapshot,
each by a hub whose indexer asked, as the code counts them (`Certified`): the signatures of
others are checked against the snapshot, but a hub counts its own in a round it opens, and
alone in a snapshot of one, without asking whether it is a member (`submit.js:87-103`). One
of the hubs of `progress` opens rounds of snapshots it is not in.

### ReorgHandler

One reorg. `reorgRound` is `pendingReorgs`, `processed` the set of that name, `probes`
the handlers suspended in a probe of the own node, a snapshot lookup or a rollback.
A hub votes after `verifyReorgAgainstOwnNode`; `resynced` says whose node shows it.
A rollback is three steps, and fails before the second or the third: `executeRollback`
(the attestations are deleted), `setReorgAttestation` (the id is processed) and
`emitDisputedPriceRows` (the round is forgotten). The update of `price_snapshots` between
the first two changes nothing the model holds and is part of the second. Further
actions: `handleReorgPrepare`, `handleReorgCommit`, `openReorgFollowerRound` and those of
the report, the probes, the timers and the rollback.

### PriceAggregate, OracleRounds, PriceWalk

`PriceAggregate` computes on whole multiples of the last published digit, the grid the
code rounds every price to, with the code's rounding at each step: trimming 15% from
each end, the mean of two middles, the even-split test, the clamp to the last finalized
price, the co-sign gate without the proposer's submission, and the slash detector's
band.

`OracleRounds` follows one round at the grain of its awaits and timers. By hub: `seat`
(where the finalization path is), `view` (its submissions), `draft` (the prices fixed
before the admission tip is awaited), `round` (the pending round), `tasks` and `stores`
(suspended handlers and writes), `early`, the timers `ready`, `fallback`, `watchdog`
and `orphan` (the timers, timeout or retry, of a round the leader overwrote), and `row`, what
`price_snapshots` holds. A price list is named by the submissions it aggregates. A plan
(`RoundPlans`) fixes the tally in force (stake, signatures, votes), whether the
admission era has begun, what each hub has received, the floor
`ORACLE_MIN_SUBMISSIONS` (`minimum`; 2 by default, 1 in the plans with a single
submission), who is slow to read a snapshot, whose timers race the messages (`hasty`), and
which mishaps may happen. A hub that stops drops what is suspended in a read and what is
armed; the writes it has begun go on, and its round is there until the skip marker it
writes is stored or fails (`Ended`). A PROPOSE that is refused for its height, its time or
a missing snapshot is a lost one.

`PriceWalk` makes a round one step and lets any part of its signers store it; a hub
that did not keeps its older reference until the round is pushed to it
(`noteIngestedPriceRow`). A seed of the cache reads the hub's own `price_snapshots`, which
hold what it stored or was pushed. Rounds are in sequence and only the newest is pushed,
so the guard against an older round (`clamp_reference.js:111-112`) is always met.
`PriceAggregate` compares exactly, where the code rounds the ratio at 18 digits
(`deviation_band.js:60-69`) and adds two bands as floats (`deviations.js:70-71`).
`MCOracle` runs both, and evaluates the aggregation on initial states that only hold
submissions.

## 3. Runs

| Run | Shows |
|---|---|
| `restarts` | `TypeOK`, `Agreement`, `RecordFollowsConfig`, `ActsOnCertificates` for two hubs, two slots, and a crash, or two leader timeouts with their view changes; `TrioAppliedOnce`, `TrioActsOnCertificates` for three hubs of stake 2, 1, 1, each submitting another config, one slot, snapshots at two heights (the second with a single member), one fault of any kind but a crash; `PaidOnce` for the relay: two legs with a crash or a reorg, one leg at any rank with every kind of fault once, or with two crashes. |
| `rails` | `StakeQuorumsOverlapByAThird`, `CountQuorumsIntersect` over every snapshot of at most three validators with weights -1, 0, 1, 2 or none; `ProofBehindFinal`, `CommitHolds` for the cross-chain engine in nine scenarios: hubs at different tips or clocks, a hub that is down, no validator or listed twice, up to two timeouts, a restamp at once, failing or late, one fault; `TypeOK`, `SentOnce`, `WithinCeiling`, `NoEntryLost` for the publish rail: a crash at any point with one more fault (database, disk, re-finalized round, spend window rolling) or with two failed sends, and a retraction with a failed query or send. |
| `progress` | `RoundsFinish` (config, three hubs with a config each, no fault), `BridgeStaysRetracted` and `LegRelayed` (ledger, two generations, one fault), `KeepsPromise` and `NeverDropped` (retraction, three hubs of which two hold the intent and one opens rounds as an outsider, one fault), `RollbackOnObservations` and `RoundsEnd` (reorg, two nodes that show it, impatient timers, one fault). |
| `oracle` | `ProofBehindRow`, `RoundRecorded`, `CommittedStored`, `Salvaged` in nineteen plans of one to three hubs; `Moves`, `NoBackstep`, `ReachableMoveSpared` for moves of 30%, 28% and 70% of a price bounded by 25% or 10% a round; `HonestProposalPasses`, `MinorityBounded` for every ordered set of up to five submissions out of five prices and two histories. |
| `config_order` | Violation of `SameConfigState`. |
| `config_view_change` | Violation of `ViewChangeCompletes`, under the same fairness. |
| `config_drift` | Violation of `Agreement` when a member leaves between two heights, without a fault. |
| `cross_chain_view` | Violation of `ViewCoversProof` by a timeout shortly before the last COMMIT. |
| `relay_call` | Violation of `StaysRetracted` on the call rail. |
| `reorg_stall` | Violation of `RealReorgConfirmed`, without a fault, under the fairness of `progress`. |
| `oracle_retry` | Violation of `StakeBehindRow` by a slow leader and three failed writes. |
| `relay_restart` | Violation of `PaidOnceEver` by a failed send and a crash. |

### Bounds, and why they are enough

- Three hubs of unequal stake are the least for which a counted quorum is not a stake
  quorum. Two hubs suffice for crashes and view changes: both must sign, so a vote
  counted twice or forgotten shows at once; two slots let rounds overlap.
- One view above 0 covers a view change; the rotation of two or three hubs brings the
  next leader into it. `MaxViewSkew` is the code's 100 and never reached.
- The early-vote buffer holds one slot, so that the limit is met with two.
- Windows of two rounds: rounds 4 and 5 form the window this hub leads, which leaves as
  one wire or as two; round 3 ends a followed window. A buffer of two and a retention of
  one make both limits bite with three rounds. A ceiling of 2 is met by a split window.
- A retraction together with a crash is beyond what TLC explores of the publisher in
  minutes; the theorems cover it.
- Faults are counted per behaviour (`Budgets`), so that a behaviour may have one crash
  anywhere and not only at chosen points. Without faults the runs still contain every
  interleaving of handlers and messages.
- Keys and sources of the enumerated snapshots are interchangeable; `MCHubQuorum`
  numbers them in the order they appear (`InOrder`) instead of declaring a symmetry set,
  because the same run checks rounds in which hubs are not interchangeable.
- Cross-chain scenarios: two blocks with different membership and weighting make a
  rebind change the quorum; a third with one member reaches the sole-operator path; a
  fourth leaves out a hub that runs the rail.
- Two generations let a write of a removed leg meet the row of the leg mined again.
- Oracle: two hubs are enough for crossing proposals, since both signatures are needed
  and the fallback is the other hub; three hubs let the round go on without the leader.
  Five submissions are the least at which trimming leaves more than one value on an odd
  set, and its removal of the proposer's makes the rest even.
- Relay: request 1 expires at block 1, is listed until block 2, for a grace of one block,
  and with one confirmation may be forgotten at block 4, the last one; a reorg takes the
  origin back by one, which a horizon without the confirmations would not survive: the
  request is listed again at block 2, and `PaidOnce` fails. Request 2 never expires, so a compaction finds something
  to keep or, wrongly, to drop.
- Several components share a run (`restarts`, `rails`, `progress`, `oracle`);
  a behaviour is about one of them and the others stand still, so each state space is
  the sum, not the product, of its parts.
- `CHECK_DEADLOCK FALSE`: the bounded systems stop when slots, rounds and faults are
  used up, as an idle hub does.

### Fairness

Every liveness property assumes weak fairness of the steps that are due without anyone
deciding to take them: handling a delivered message, answering an awaited lookup,
finishing a write, firing a timer that is armed. It is one condition on the
disjunction of these steps (`Scheduled` of `MCProgress`, `OSteps` and `WSteps` in
`MCOracle`): the event loop does not stop while something is ready. Nothing more is
needed, as handlers, timers and retries are used up in every behaviour. Clients that
propose, faults, reorgs, indexers that push and hubs that are shut down are not fair.
Messages are lost only by a counted fault. `config_view_change` uses
`ConfigPbft!Fairness`, the same condition per hub.

On hubs of an `OracleRounds` plan that are not `hasty`, timers fire only when everything
sent has been dealt with, and longer timers after shorter ones: the lengths in
`oracle/consensus/options.js` are seconds against an exchange of milliseconds.
`Salvaged` is claimed for plans without hasty hubs only; a hasty one lets each of its
timers race every message.

## 4. Findings

Eight statements of the repository do not hold of its code; each has a run whose
counterexample TLC finds within seconds.

1. `consensus/pbft.js:18` "Ensures all hub instances agree on config state before
   applying changes." Slots are agreed one by one; their order is not. Two slots in
   flight at once may be applied in opposite orders (`config_order`).
2. `consensus/pbft/leader.js:169-171` "It is constant for a (seq,view): every
   PRE_PREPARE/PREPARE/COMMIT vote locks the same snapshot", so that "the digest-conflict
   guard keeps an honest node from signing two configs for one slot". Proposers lock their
   own tip, and followers take any height within 144 blocks. If the membership changed in
   between, a slot has two leaders; a follower that awaits both snapshots stores the second
   round over the first and votes in both, and the leaders apply different configs
   (`config_drift`). `Agreement` is proved, and checked by `restarts`, without such drift.
3. `src/README.md:36` "view change on timeout". Only the proposer's own timer votes for
   a view change, so none ever gathers a quorum (`config_view_change`).
4. `attestation/relay/wal.js:57-58` "An `intent` with no terminal record is a crash
   mid-broadcast: treated as SENT". `loadWal` counts an intent only for a leg with no
   record before it. A send that failed cleanly leaves a "failed" record; when the sweep
   sends again and the hub dies before the outcome is logged, the leg is not suppressed
   and may be paid for again (`relay_restart`). The same follows when the eviction of
   another leg compacts the log while a first send is under way: `compactedWalLines`
   drops the intent of every leg not yet marked, though `compactWal` says that
   "compaction can never be the thing that un-suppresses a broadcast". `PaidOnce` is
   claimed for the legs neither happened to (`exposed`).
5. `cross_chain/pbft/votes.js:319-321` "Carried onto the published row so the indexer
   rebuilds the exact EQUIV canonical". A timeout raises `pending.view` and keeps the
   signatures collected under the old view; when the missing COMMIT then arrives, the row
   is emitted under a view nobody signed (`cross_chain_view`).
6. `cross_chain/call/finalize.js:73` "Last gate before the insert, after every await on
   this path". The insert itself is awaited: a retraction that runs meanwhile finds no
   row, and the insert leaves one (`relay_call`). The bridge waits for its writes first.
7. `anchor/reorg_handler.js` "a real reorg only needs the honest majority's nodes to have
   re-synced". A PREPARE that overtakes its ALERT opens a round without a vote, and the
   ALERT is then ignored (`reorg_stall`). The property asks only about
   reorgs that all nodes show before any hub looks, so that a hub which abstains for want
   of evidence of its own, as documented, does not count against it.
8. `oracle/consensus/commit.js:82-84` "A value cannot finalize without >2/3 stake having
   signed it, so the published PRICE always clears the indexer's identical weighted
   gate". Below the admission activation a leader that was slow to read its snapshot
   opens its round over the follower round it has pending. If that one was being stored
   and its write fails three times, `finalizeCommittedRound` resets, and the retry
   stores, whichever round is pending: the leader's own, with one signature
   (`oracle_retry`). In the `oracle` run a slow leader meets failing writes only where
   bare votes are counted, for which `ProofBehindRow` claims no quorum.

Met while proving, and the reason why a theorem or a property has an exception; no run of
its own:

- `propose` elects the leader at the current view and then stamps view 0
  (`pbft/propose.js:187-196`): after a timeout two hubs may propose in view 0, and one of
  them signs two configs for the slot. Agreement survives, because hubs PREPARE only what
  the leader of the stamped view proposed.
- A margin that has to be looked up changes the row when it arrives
  (`cross_chain/pbft/view_change.js:39`), before anyone asks whether the view it was for
  still stands; a row voted on meanwhile is then published with signatures over another.
  `ProofBehindFinal` leaves such rails out.
- The votes of peers are checked against the snapshot a row declares; a hub's own is not
  (`cross_chain/pbft/votes.js:193`). A hub outside the set reaches the counted quorum with
  one member too few and publishes its own signature. `ProofBehindFinal` lets it count.
- `committedToOtherValue` is asked before the snapshot of the leader's row is awaited, not
  after (`cross_chain/pbft/votes.js:65`): a COMMIT sent meanwhile does not keep the hub
  from adopting the other row. `CommitHolds` excepts that row.

Not claimed: with three hubs whose timers race the messages, a hub may vote again after
its round timed out, so that two hubs may store different price lists for one round;
nothing in the code remembers the first vote. And `publish_entry.js:95` calls a
quarantined entry "an intent-only durable marker from a pre-crash broadcast": one failed
insert, without a crash, quarantines a wire that was never handed to the broadcaster.

## 5. Proofs

All theorems hold for every value of the constants that meets the `ASSUME`s of the
module that declares them; TLC evaluates those on every instance. Apart from types and
bounds being what they are called, the assumptions are few, and each names its reason:

- `OneRotation` and `NoLoneStakeQuorum` are hypotheses of `AgreementHolds` and
  `SlotsAreAppliedOnce`: the heights that need a round have one membership, and no hub is
  a stake quorum by itself. Without the first, agreement is false (`config_drift`,
  finding 2).
- `DifferentSubmits` is a hypothesis of `SlotsAreAppliedOnce` alone: clients submit
  different configs to different hubs, as they do in every instance that is checked.
  Without it the statement is false (section 6).
- `XRotationAssumption`: a snapshot that lists somebody has a leader.
- `BuildsAssumption`: what a hub may open are rounds of the model. Nothing is assumed of
  its membership in their snapshots.
- `WritesHold` and `SoloHoldsStake` are hypotheses of `StoredProofsHold` alone, see there.
- `PercentAssumption`: no pair is clamped more loosely than the global clamp, which
  prices without a clamp of their own get (10% and 25% in `constants.js`).
- `HorizonAssumption`, `ReorgPlansAssumption`, `RoundPlansAssumption`,
  `PublisherAssumption`, `WeightsAreNumbers`, `WalksAssumption`: deadlines, grace, depths,
  ceilings, counts and stakes are numbers, prices lie within the column they are stored
  in, hubs and rounds are finitely many.

### ConfigPbft

- **`TypeCorrect`** (`Spec => []TypeOK`). One lemma per group of actions; the work is
  that tallies, early-vote buffers and timers stay well formed.
- **`AgreementHolds`** (`Spec => []Agreement`). `Agreement` is about logs and says
  nothing of the votes behind them, so it is not inductive. `AgreementInv` calls a config
  legitimate for a slot when the leader of the view stamped on a sent PRE_PREPARE
  proposed it, and says that a hub proposes at most one config per slot, always stamped
  view 0; that every vote, apply and log entry is about a legitimate config; and that
  what is held in gossip or awaited was sent. A legitimate config is then unique per
  slot. It is the restriction of PREPAREs to the rotation's leader, rather than the
  intersection of quorums, that the argument rests on: quorums only rule out that a
  proposer decides alone for a round nobody else accepts. The theorem is restricted to
  behaviours in which no hub has restarted, because a restarted hub forgets its slot
  counter and may propose again.
- **`SlotsAreAppliedOnce`** (`Spec => []AppliedOnce`; the run checks it of three hubs, as
  `TrioAppliedOnce`). The latch against a second apply is
  a field of the round object, so it protects a slot only as far as the slot's objects are
  not replaced under it. On top of `AgreementInv`, `MessagesOnce` says that the leader's
  proposal for a slot is one message, held once by each hub, in gossip or behind its
  height lookup. `RoundsOnce` says that a hub which has that message still to handle
  neither follows the slot nor has applied it (`FollowedOnce`); that rounds a hub leads
  carry its own configs and those it follows the leader's (`OwnRounds`,
  `FollowersLegit`), so that a round of its own replaces a followed one only under another
  config; and that the round a hub has applied, or is applying, is latched (`Latched`).
  The log then has one entry per slot and hub (`AppliesOnce`). A failed write takes the
  latch back, and a restart forgets it; both are left out, as in the property.
- **`CertificatesBehindActs`** (`Spec => ActsOnCertificates`), for any membership and
  across restarts. A tally forgets who voted for what once a vote is counted, so
  `CastInv` follows each vote from the hub that cast it: what is in gossip, behind a
  height lookup or in an early buffer was sent (`NetSent`, `LockingSent`, `EarlySent`),
  the hubs in a tally sent that vote for the round's own config (`TalliesCast`), and an
  apply under way has its quorum of COMMITs already (`AppliesCertified`). The delicate
  steps are the ones that replay early votes into a round, and those that replace the
  config of a round whose tally is not empty.
- **`RecordsFollowConfigs`** (`Spec => []RecordFollowsConfig`). The config rows and
  `last_seq` are two writes; `last_seq` is overwritten without a comparison, so it may go
  back, and a restart resumes from it. The theorem says it is never the number of a slot
  whose config was not written. The invariant adds what is known of an apply between its
  writes: a `saveSeq` that is awaited is of a slot already in the log.

### HubQuorum

- **`CountedQuorumsIntersect`**: `2 * bftQuorum(n) > n` for every `n`, and two quorums
  of a finite set therefore share a member. **`SnapshotQuorumsIntersect`**
  (`[]CountQuorumsIntersect`) carries it to the keys of a snapshot, which may list a key
  twice.
- **`SnapshotStakeOverlaps`** (`[]StakeQuorumsOverlapByAThird`): two stake quorums have
  sources with more than a third of the stake in common. The stake of a set of sources is
  a fold, and the induction theorems of the library cannot be instantiated here. Instead,
  a partial sum is a function on the sets of sources (`SumsUp`), two of them agree because
  a least set on which they differ does not exist (`SumUnique`), and a largest set that
  has one is the whole (`SumExists`); both are well-founded arguments about natural
  numbers. That stake is additive (`StakeOfBoth`) and monotone follows, and the overlap
  from it. A source counts once, with the weight of its first listed entry or its last
  (`FirstAndLast`), which is why repeated keys do no harm.

### CrossChainPbft

- **`ProofsAreBehindFinals`** (`XSpec => []ProofBehindFinal`), **`RoundsAreWellFormed`**
  (`[]XTypeOK`) and **`CommitsHold`** (`CommitHolds`) share the invariant `XInv`. It is
  about every round object a hub ever opened, because a suspended handler may wake up on
  any of them: one that is not final holds only signatures over its own canonical, its
  prepares are among its signers, and its commits are, too, or else the signers are
  `Backed` by a quorum already. That alternative is needed: `checkPrepareQuorum` counts
  the hub's own COMMIT although its signature may not be in the round, but only once a
  quorum of signed prepares is. The round that finalizes alone has one member (`Solo`). The other parts say that every event emitted so far carries its proof (`EmittedInv`),
  that a sync or proposal in gossip carries a row (`MessagesInv`) and which handlers can be
  suspended on which object (`TasksInv`). `CommitHolds` is then proved
  action by action from `XInv`.

### The rails and the reorg handler

- **`RailKeepsPromise`** (`RSpec => KeepsPromise`): `RetractionConsensus` implements
  `DeletionPromise`, whoever opens rounds. A hub's own signature is the only one that
  is not checked against the snapshot; `Certified` says so, and the invariant follows it
  from the round that is opened to the deletion. Intents expire and hubs restart between a signature and the deletion
  it supports, so the invariant relates signatures to `pushed`, which never shrinks, in
  messages, in open rounds and in suspended handlers.
- **`RollbacksRestOnObservations`** (`GSpec => []RollbackOnObservations`). The quorum is
  counted in COMMITs and no COMMIT says what its sender saw; `ReorgInv` goes from the
  probe of a node to the round it allows, from the round to the votes, to the tallies of
  other hubs and to a rollback suspended between its statements.
- **`NoRowOutlivesItsRetraction`** (`LSpec => []BridgeStaysRetracted`). `LedgerInv`
  orders a row write and a retraction by the fence's sequence: a retraction that has
  come to its update has no earlier write left, and an answered one neither. The proof
  does not use the fence's own check at the end of a write: with
  `waitForCoveredWrites` in place it is a second line of defence.
- **`LegsArePaidOnce`** (`ASpec => []PaidOnce`). For a leg that was paid for, `RelayInv`
  gives one of three reasons why it is not paid for again: this process has published it
  and the log says so, its send is under way, or it is past its deadline for good and
  nothing of it is left (`Over`). The last needs `HorizonInv`: no reorg the relay honours
  takes the tip from beyond the horizon back to the deadline, so a log that has evicted
  the leg is not asked about it again.

### OracleRounds

- **`SignaturesAreGenuine`** (`OSpec => []SignersBehindRow`), for every plan. `SignInv`
  relates everything a payload passes through (messages, buffered and suspended ones,
  rounds, stores, rows) to `signed`, which a hub never takes back, and says that a hub's
  open round is one it signed itself, which is what its COMMIT rests on.
- **`StoredProofsHold`** (`OSpec => []ProofBehindRow`) adds the quorum, with two
  hypotheses: `WritesHold`, the price write fails less often than one finalization tries
  it, and `SoloHoldsStake`, a hub alone in its snapshot has the stake. Without the first
  it is false (`oracle_retry`): the retry timer takes whatever round is open to the store
  without counting. `QuorumInv` bounds the attempts of a store by the writes that failed,
  so that the timer is never armed.

### PriceWalk

- **`MedianHeldByMajority`** (`WSpec => []MinorityBounded`). The middles of a trimmed list
  are described by ranks: how many submissions are below a price and how many are not
  above it (`Ranked`), which needs no order of equal prices. More submissions than a
  minority has lie on either side of a middle, so one of the majority does.
- **`HonestProposalsAreSigned`** (`WSpec => []HonestProposalPasses`). The proposer's median
  is over all submissions, the co-signer's over all but the proposer's, which is a
  neighbouring rank (`RankOfFewer`, `RankOfOneLess`). One of the two numbers is odd, and
  its median lies between the two middles of the even one. If the co-signer's is the even
  one, the gate accepts a price near either middle, and these lie within the band or the
  co-signer could not price the pair at all; if the proposer's is, its own even-split test
  holds both middles within the band. The clamp moves no two prices apart in proportion
  (`ClampedNear`, `ClampedAround`), with the rounding to the grid at each step. A pair the
  co-signer cannot price without the proposer is measured against the reference alone,
  where the pair's clamp is no wider than the global one.

### PricePublisher

- **`CeilingHolds`** (`Spec => []WithinCeiling`). `SpendInv` adds that paid wires plus
  the reservation held by a send not yet made are counted in memory, that memory never
  exceeds the saved file, and that the file never exceeds the ceiling. Reserving writes
  before sending; a release may fail to be written, which errs on the safe side; a
  restart reads the file back.
- **`NoRoundPaidTwice`** (`Spec => []SentOnce`). The sends of a round are bounded by the
  rows the log holds for it, and a job that relies on what it read (`Relying`) has a row
  to spare for each of its rounds (`FreshInv`); `ShapeInv` gives the shapes of queue,
  files and locals the counting needs.
- **`EntriesAreAccountedFor`** (`Spec => NoEntryLost`). An entry is dropped at the end of
  a pass and settled long before it. `LossInv` says what became of every entry the pass
  read (`AccountedInv`); that the guards by which entries are skipped, in memory and in
  the marker rows, go back to a wire that reached the node (`ReachedInv`), which a restart
  must not break; and that what is queued or sent is of one window (`WindowInv`).
- **`PublisherTypes`** (`Spec => []TypeOK`) from `ShapeInv` and `SpendInv`.

### Only model-checked

- Liveness (`RoundsFinish`, `LegRelayed`, `NeverDropped`, `RoundsEnd`, `RoundRecorded`,
  `CommittedStored`, `Salvaged`, `Moves`): beyond the prover.
- `NoBackstep` and `ReachableMoveSpared`, which are about particular clamps and bands:
  how far a price can step back depends on the ratio of the clamp to the co-sign band.
- `TrioAppliedOnce` and `TrioActsOnCertificates`: an instance of `ConfigPbft` with faults
  of its own. The theorems about `AppliedOnce` and `ActsOnCertificates` are stated for the
  module.
- `ProofBehindRow` where writes fail so often that a retry is armed, but no round is
  overwritten (a plan of the run `oracle`): whether one is depends on the order of events,
  so the hypothesis would be about behaviours and not about plans.

## 6. What the results do not cover

- Hubs follow their program: Byzantine hubs are not modelled, and signatures are
  assumed sound.
- Agreement while the membership changes between the heights two hubs lock: there it
  fails (`config_drift`, finding 2).
- Agreement after a restart is not claimed. Nor is it that `last_seq` never goes back: two
  applies that finish out of order leave the lower number (`db/consensus_state.js:64`).
- A lone hub (quorum 0) has no watchdog. Without a fresh admission tip it refuses the
  round (`finalize_round.js:207-214`), and when its one price write fails (line 218) the
  scheduler only logs it: either way the round leaves no row and no skip marker.
  `RoundRecorded` and `Salvaged` leave these cases out, and `CommittedStored` lone hubs.
- `CommittedStored` is not claimed of a leader that is slow to read its snapshot: the timer
  of the follower round it overwrote drops the round it finds between two attempts at the
  write, and `commit.js:199` then gives up.
- `SentOnce` allows one further send for each marker row that is deleted, by a retraction
  or by retention, so a delete that takes the row of a send made after the retraction is
  not caught. `NoEntryLost` takes another wire of the window for the entry, and is about
  entries that reached the queue: an append that throws after the window is memoized
  (`assembly.js:87`) is not covered.
- `AppliedOnce` is about hubs that submit different configs. A config submitted to two
  hubs can be applied twice under one slot: the latch `_applying` is a field of the round
  object, and a hub that is elected while its apply is awaited replaces the object of a
  slot it follows by a proposal of its own. As the comment on the latch says
  (`pbft/votes.js:218`), a second apply of one config is harmless today.
- The publisher's peers are represented by batches that land; two hubs publishing one
  window are not composed.
- `AttestRelay` is one hub: that two hubs of different ranks both pay for a leg, which
  the failover window makes unlikely, is not excluded by the code or the model.
- That each single round ends up on chain is not claimed: an entry with one sent round
  is dropped whole, and a landed range sheds rounds its wire may not carry.
- The rails of `RelayLedger` are not composed with the engine of `CrossChainPbft`: a
  round finalizes or is abandoned there by a single step.
- A price too small for its clamp to move (one unit of the last digit at 25%, four at
  10%) stays where it is; `Moves` is checked on prices above that.
- A move that all hubs submit and that lies beyond the clamp and the widened band
  together gets every one of them recorded (`validators/slash_detector/deviations.js`);
  `ReachableMoveSpared` says where that begins.

### Not modelled

- Wire formats, hashing, signature schemes, UTXO selection, HTTP, SQL, metrics, the
  command-line tools under `src/bin` and the coin tables: they hold no protocol state.
  They and the `not_modelled` components are the larger part of the repository's lines;
  the map names only lines that a definition translates.
- Attestation but for the relay, batch signing, checkpoints and anchors, governance, roll call, full-node
  challenges, the swap tracker, database mirroring, capability snapshot caches: see the
  plan. Of the slash detector only `price_deviation` is modelled, of the publisher not
  the two-size window plan and the confirmation watchdog.

## 7. Plan

1. (done) `HubQuorum`, `ConfigPbft` and its proofs, `PricePublisher` and its ceiling.
2. (done) `CrossChainPbft`; the rails' ledger under reorgs; `RetractionConsensus` as an
   implementation of `DeletionPromise`; `ReorgHandler`.
3. (done) `OracleRounds`, `PriceAggregate`, `PriceWalk`. Left: `BatchSigner`, and the
   composition with `PricePublisher`, whose `onRoundFinalized` and `signingFails` are
   then their outputs.
4. Proofs (done): types, agreement, certificates and `RecordFollowsConfig` for
   `ConfigPbft`, and that it applies a config once; types, `ProofBehindFinal` and `CommitHolds` for `CrossChainPbft`; the
   refinement of `DeletionPromise`; rollbacks, row retraction and the relay's single
   payment; types, ceiling, `SentOnce` and `NoEntryLost` for `PricePublisher`; the proofs
   `OracleRounds` stores; the overlap of stake quorums; the median and the co-sign gate.
   Left: `ReachableMoveSpared`, and `ProofBehindRow` where retries are armed.
5. (done) `AttestRelay`, the second at-most-once rail. Left: `AttestationRound` with
   its escalation, and an abstract `AtMostOncePublish` that the two rails implement.
6. `AnchorPublisher`, `Governance`, `SwapTracker`, `RollCall`, gossip dedupe and
   database catch-up.
