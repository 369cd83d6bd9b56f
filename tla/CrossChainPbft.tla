--------------------------- MODULE CrossChainPbft ---------------------------
(***************************************************************************)
(* The PBFT engine of the cross-chain rails (cross_chain/dex_consensus.js  *)
(* and cross_chain/pbft/): DEX matches, bridge transfers, policy rows and  *)
(* cross-chain calls are finalized by it, one round per row id.            *)
(*                                                                         *)
(* The module follows one round id.  A row is the pair of the two fields   *)
(* its proposer chooses: stamp (effective_time) and block (snapshot_block).*)
(* The block names the validator snapshot, the quorum and the weighting,   *)
(* so a round keeps the block it is bound to.  A signature is its canonical*)
(* and the key that made it; every hub runs this code.                     *)
(*                                                                         *)
(* An action is one turn of a hub's event loop.  What a handler awaits is  *)
(* a task that another action finishes: persistCapabilitySnapshot before a *)
(* PROPOSE goes out, the local validation of a proposed row, the lookup of *)
(* the snapshot a row declares, the margin of a policy row.  A task holds  *)
(* the round object it was started with, which may have been replaced.     *)
(***************************************************************************)
EXTENDS HubQuorum, TLC

CONSTANTS
    Hubs,           \* the hubs, and their keys
    KeyOrder,       \* every key once, in hex order
    Blocks,         \* the snapshot blocks a row may declare
    Snapshot,       \* Blocks -> the cross_chain validator snapshot
    Weighted,       \* Blocks -> is the stake-weighted gate active
    RidInt,         \* the integer the row id starts with
    Equiv,          \* the EQUIV header is active: the view is in the canonical
    NoRow, NoSig,
    \* bounds of the model
    MaxView,        \* views 0..MaxView
    MaxStamp,       \* stamps 0..MaxStamp
    Scenarios       \* what may happen in a behaviour, which picks one: the rows
                    \* each hub may build when it polls the item, how often it
                    \* opens a round for it (0: the hub is down), the views
                    \* reached by timeouts, the number of abandoned, forgotten
                    \* and failed things, and the rail's effectiveTimeMarginS:
                    \* "none", or it answers "now", or "later" by a promise

Views == 0..MaxView
Row == [stamp : 0..MaxStamp, block : Blocks]

ASSUME XBoundsAssumption ==
    /\ MaxView \in Nat /\ MaxStamp \in Nat
    /\ RidInt \in Nat /\ Equiv \in BOOLEAN

ASSUME XDataAssumption ==
    /\ Scenarios \subseteq [rows : [Hubs -> SUBSET Row], opens : [Hubs -> Nat],
                            views : Views, faults : Nat,
                            restamp : {"none", "now", "later"}]
    /\ NoRow \notin Row
    /\ IsFiniteSet(Hubs)

VARIABLES
    rounds,     \* every round object a hub opened for the id, oldest first
    live,       \* this.pending.get(rid): the index of one of them, or 0
    finalRow,   \* this.finalizedRows.get(rid)
    early,      \* this.earlyMessages.get(rid)
    tasks,      \* handlers suspended at an await
    xnet,       \* gossip not yet delivered to each hub
    emitted,    \* history: the match:finalized events
    scenario    \* the scenario of this behaviour, with the faults still to come

xvars == <<rounds, live, finalRow, early, tasks, xnet, emitted, scenario>>

-----------------------------------------------------------------------------
(***************************************************************************)
(* Canonicals, membership, quorum, rotation.                               *)
(***************************************************************************)

\* canonicalMatch: every field of the row, and the view once EQUIV is active.
Canon(row, v) == [row |-> row, view |-> IF Equiv THEN v ELSE 0]

XMembers == [b \in Blocks |-> Pubkeys(Snapshot[b])]

HexRank(k) == CHOOSE i \in DOMAIN KeyOrder : KeyOrder[i] = k

\* The listed keys in hex order.  A key that is listed twice leads twice.
XRotation ==
    [b \in Blocks |->
        LET vs == Snapshot[b].validators
        IN  SortSeq([i \in DOMAIN vs |-> vs[i].pubkey], LAMBDA k, l : HexRank(k) < HexRank(l))]

\* The rotation holds the listed keys: a snapshot that lists somebody has a leader.
ASSUME XRotationAssumption ==
    \A b \in Blocks :
        /\ Len(Snapshot[b].validators) \in Nat
        /\ XRotation[b] \in Seq(XMembers[b])
        /\ XMembers[b] # {} => XRotation[b] # <<>>

leaderFor(b, v) == XRotation[b][((RidInt + v) % Len(XRotation[b])) + 1]

XQuorums ==
    [b \in Blocks |-> {voters \in SUBSET Hubs :
        IF Weighted[b] THEN meetsStakeThreshold(Snapshot[b], voters)
                       ELSE Cardinality(voters) >= getQuorum(Snapshot[b])}]

meetsQuorum(b, voters) == voters \in XQuorums[b]

\* A snapshot a round may be opened over or moved to.
Bindable(b) ==
    /\ getQuorum(Snapshot[b]) > 0
    /\ ~(Weighted[b] /\ Snapshot[b].truncated)

Signers(sigs) == {s.by : s \in sigs}

\* signatures.set: the last signature of a key stands.
SetSig(sigs, by, over) == {s \in sigs : s.by # by} \cup {[by |-> by, over |-> over]}

OwnSig(o, h) ==
    IF h \in Signers(o.sigs) THEN (CHOOSE s \in o.sigs : s.by = h).over ELSE NoSig

-----------------------------------------------------------------------------
(***************************************************************************)
(* Messages.                                                               *)
(***************************************************************************)

Proposal(h, o) == [type |-> "PROPOSE", from |-> h, view |-> o.view,
                   row |-> o.row, sig |-> o.canon, proof |-> {}]

Ballot(type, h, o) == [type |-> type, from |-> h, view |-> o.view,
                       row |-> NoRow, sig |-> OwnSig(o, h), proof |-> {}]

Control(type, h, v) == [type |-> type, from |-> h, view |-> v,
                        row |-> NoRow, sig |-> NoSig, proof |-> {}]

FinalSync(h, f) == [type |-> "FINAL_SYNC", from |-> h, view |-> f.view,
                    row |-> f.row, sig |-> NoSig, proof |-> f.sigs]

\* The hubs that run.
On == {h \in Hubs : scenario.opens[h] > 0}

\* Every message leaves its sender once for each other hub.
Broadcast(net, h, msgs) ==
    [k \in Hubs |-> IF k \in On \ {h} THEN net[k] \cup msgs ELSE net[k]]

Taken(h, m) == [xnet EXCEPT ![h] = @ \ {m}]

\* drainEarlyMessages hands the held messages to their handlers again, which
\* take them one by one.
Drained(net, h) == [net EXCEPT ![h] = @ \cup early[h]]

-----------------------------------------------------------------------------
(***************************************************************************)
(* The tally.                                                              *)
(***************************************************************************)

openPendingRound(row) ==
    [row |-> row, canon |-> Canon(row, 0), block |-> row.block, view |-> 0,
     prepares |-> {}, commits |-> {}, sigs |-> {}, vcs |-> {},
     commitSent |-> FALSE, final |-> FALSE]

Finalized(o) == [o EXCEPT !.final = TRUE]

\* checkCommitQuorum, with finalize.
CheckCommit(o) ==
    IF ~o.final /\ meetsQuorum(o.block, o.commits) THEN Finalized(o) ELSE o

ReadyToCommit(o) == ~o.final /\ ~o.commitSent /\ meetsQuorum(o.block, o.prepares)

\* checkPrepareQuorum: the COMMIT goes out, and may itself complete the round.
CheckPrepare(o, h) ==
    IF ReadyToCommit(o)
    THEN CheckCommit([o EXCEPT !.commitSent = TRUE, !.commits = @ \cup {h}])
    ELSE o

CommitOf(o, h) == IF ReadyToCommit(o) THEN {Ballot("COMMIT", h, o)} ELSE {}

Live(h) == rounds[h][live[h]]

HasRound(h) == live[h] # 0

\* The live round of h becomes o, objs being its round objects by then; when
\* that finalizes it, markFinalized keeps the row and match:finalized goes out.
Settle(h, objs, o) ==
    /\ rounds' = [rounds EXCEPT ![h] = [objs EXCEPT ![live[h]] = o]]
    /\ LET result == [row |-> o.row, view |-> o.view, sigs |-> o.sigs]
       IN  IF o.final /\ ~Live(h).final
           THEN /\ finalRow' = [finalRow EXCEPT ![h] = IF @ = NoRow THEN result ELSE @]
                /\ emitted' = emitted \cup {[hub |-> h, at |-> result]}
           ELSE UNCHANGED <<finalRow, emitted>>

SetRound(h, i, o) == rounds' = [rounds EXCEPT ![h][i] = o]

Hold(h, m) == early' = [early EXCEPT ![h] = @ \cup {m}]

Start(h, ts) == tasks' = [tasks EXCEPT ![h] = @ \cup ts]

End(h, t, ts) == tasks' = [tasks EXCEPT ![h] = (@ \ {t}) \cup ts]

Persisting(i, drain) == [kind |-> "persist", at |-> i, drain |-> drain]

-----------------------------------------------------------------------------
(***************************************************************************)
(* Opening a round.                                                        *)
(***************************************************************************)

Opened(h, row) ==
    /\ finalRow[h] = NoRow
    /\ ~HasRound(h)
    /\ Len(rounds[h]) < scenario.opens[h]
    /\ rounds' = [rounds EXCEPT ![h] = Append(@, openPendingRound(row))]
    /\ live' = [live EXCEPT ![h] = Len(rounds[h]) + 1]
    /\ UNCHANGED <<finalRow, emitted, scenario>>

\* propose over a snapshot that needs a quorum.  The leader of view 0 takes its
\* early messages only after its PROPOSE is out.  A truncated weighted snapshot
\* is refused, and nothing opens.
propose(h) ==
    \E row \in scenario.rows[h] :
        /\ Bindable(row.block)
        /\ Opened(h, row)
        /\ IF leaderFor(row.block, 0) = h
           THEN Start(h, {Persisting(Len(rounds[h]) + 1, TRUE)}) /\ UNCHANGED <<early, xnet>>
           ELSE /\ xnet' = Drained(xnet, h)
                /\ early' = [early EXCEPT ![h] = {}]
                /\ UNCHANGED tasks

\* finalizeSoleOperator up to its await: the snapshot lists this hub alone.  A
\* snapshot that lists nobody, or another hub alone, opens nothing.
ProposeAlone(h) ==
    \E row \in scenario.rows[h] :
        /\ XMembers[row.block] = {h} /\ Len(Snapshot[row.block].validators) = 1
        /\ Opened(h, row)
        /\ Start(h, {[kind |-> "alone", at |-> Len(rounds[h]) + 1]})
        /\ UNCHANGED <<early, xnet>>

\* The rest of it: sign, and finalize the live round.
FinalizeAlone(h) ==
    \E t \in tasks[h] :
        /\ t.kind = "alone"
        /\ LET o == rounds[h][t.at]
               signed == [o EXCEPT !.sigs = SetSig(@, h, o.canon)]
           IN  IF live[h] = t.at /\ ~o.final
               THEN Settle(h, rounds[h], Finalized(signed))
               ELSE SetRound(h, t.at, signed) /\ UNCHANGED <<finalRow, emitted>>
        /\ End(h, t, {})
        /\ UNCHANGED <<live, early, xnet, scenario>>

\* The rest of broadcastPropose: sign the round's canonical of now, PROPOSE.
broadcastPropose(h) ==
    \E t \in tasks[h] :
        /\ t.kind = "persist"
        /\ LET o == rounds[h][t.at]
               signed == [o EXCEPT !.sigs = SetSig(@, h, o.canon), !.prepares = @ \cup {h}]
               sent == Broadcast(xnet, h, {Proposal(h, signed)})
           IN  /\ SetRound(h, t.at, signed)
               /\ xnet' = IF t.drain THEN Drained(sent, h) ELSE sent
               /\ early' = IF t.drain THEN [early EXCEPT ![h] = {}] ELSE early
        /\ End(h, t, {})
        /\ UNCHANGED <<live, finalRow, emitted, scenario>>

-----------------------------------------------------------------------------
(***************************************************************************)
(* A leader's proposal.                                                    *)
(***************************************************************************)

Drop(h, m) ==
    /\ xnet' = Taken(h, m)
    /\ UNCHANGED <<rounds, live, finalRow, early, tasks, emitted, scenario>>

\* A message that comes before its round waits for it.
Early(h, m) ==
    /\ xnet' = Taken(h, m)
    /\ Hold(h, m)
    /\ UNCHANGED <<rounds, live, finalRow, tasks, emitted, scenario>>

\* leaderProposal: what of a PROPOSE is checked at once.
FromLeader(o, m) ==
    /\ m.view >= o.view
    /\ m.from = leaderFor(o.block, m.view)
    /\ m.sig = Canon(m.row, m.view)

handlePropose(h) ==
    \E m \in xnet[h] :
        /\ m.type = "PROPOSE"
        /\ \/ finalRow[h] # NoRow /\ Drop(h, m)
           \/ finalRow[h] = NoRow /\ ~HasRound(h) /\ Early(h, m)
           \/ /\ finalRow[h] = NoRow /\ HasRound(h)
              /\ IF FromLeader(Live(h), m)
                 THEN /\ Start(h, {[kind |-> "validate", at |-> live[h], msg |-> m]})
                      /\ xnet' = Taken(h, m)
                      /\ UNCHANGED <<rounds, live, finalRow, early, emitted, scenario>>
                 ELSE Drop(h, m)

\* Mutant: the adopted row is tallied with the snapshot the round opened over.
MutKeepBinding(o, m) ==
    [o EXCEPT !.row = m.row, !.canon = Canon(m.row, m.view),
              !.sigs = {}, !.prepares = {}, !.commits = {}, !.commitSent = FALSE]

\* adoptLeaderRow: the leader's row, its membership and quorum; votes were for
\* the old canonical.
Adopted(o, m) ==
    [o EXCEPT !.row = m.row, !.canon = Canon(m.row, m.view), !.block = m.row.block,
              !.sigs = {}, !.prepares = {}, !.commits = {}, !.commitSent = FALSE]

\* countLeaderAndOwnPrepare, before its checkPrepareQuorum.
Counted(o, m, h) ==
    LET led == [o EXCEPT !.view = Larger(@, m.view),
                         !.sigs = SetSig(@, m.from, m.sig),
                         !.prepares = @ \cup {m.from}]
    IN  IF h \in Signers(led.sigs) THEN led
        ELSE [led EXCEPT !.sigs = SetSig(@, h, m.sig), !.prepares = @ \cup {h}]

\* Mutant: a hub that sent its COMMIT adopts another value.
MutNeverCommitted(o, m) == FALSE

\* committedToOtherValue
CommittedToOther(o, m) == o.commitSent /\ Canon(o.row, m.view) # Canon(m.row, m.view)

\* Count the proposal m in round object i, whose state is o by now, and tally
\* the live round, which may be another one.
CountIn(h, t, m, o, adopted) ==
    LET i == t.at
        counted == Counted(o, m, h)
        own == IF h \in Signers(o.sigs) THEN {} ELSE {Ballot("PREPARE", h, counted)}
        objs == [rounds[h] EXCEPT ![i] = counted]
        sent(commit) == Broadcast(xnet, h, own \cup commit)
        net == IF HasRound(h) THEN sent(CommitOf(objs[live[h]], h)) ELSE sent({})
    IN  /\ IF HasRound(h)
           THEN Settle(h, objs, CheckPrepare(objs[live[h]], h))
           ELSE rounds' = [rounds EXCEPT ![h] = objs] /\ UNCHANGED <<finalRow, emitted>>
        /\ xnet' = IF adopted THEN Drained(net, h) ELSE net
        /\ early' = IF adopted THEN [early EXCEPT ![h] = {}] ELSE early
        /\ End(h, t, {})
        /\ UNCHANGED <<live, scenario>>

Dismiss(h, t) ==
    /\ End(h, t, {})
    /\ UNCHANGED <<rounds, live, finalRow, early, xnet, emitted, scenario>>

\* The round a task holds is still the hub's live, open round.
StillOpen(h, i) == finalRow[h] = NoRow /\ live[h] = i /\ ~rounds[h][i].final

\* handlePropose after the row passed validateProposedMatch and its admission
\* bound.  A row of the round's own snapshot needs no lookup and is adopted in
\* the same turn: the code awaits a settled promise there, and no message, timer
\* or answer is taken before it goes on.
Validated(h) ==
    \E t \in tasks[h] :
        /\ t.kind = "validate"
        /\ LET o == rounds[h][t.at]
               m == t.msg
           IN  IF m.sig = o.canon THEN CountIn(h, t, m, o, FALSE)
               ELSE IF CommittedToOther(o, m) THEN Dismiss(h, t)
               ELSE IF m.row.block # o.row.block
               THEN /\ End(h, t, {[kind |-> "rebind", at |-> t.at, msg |-> m]})
                    /\ UNCHANGED <<rounds, live, finalRow, early, xnet, emitted, scenario>>
               ELSE IF StillOpen(h, t.at) THEN CountIn(h, t, m, Adopted(o, m), TRUE)
               ELSE Dismiss(h, t)

\* rebindSnapshot found the declared snapshot of a proposed row.
Rebound(h) ==
    \E t \in tasks[h] :
        /\ t.kind = "rebind" /\ t.msg.type = "PROPOSE"
        /\ IF /\ Bindable(t.msg.row.block)
              /\ StillOpen(h, t.at)
              /\ t.msg.from \in XMembers[t.msg.row.block]
           THEN CountIn(h, t, t.msg, Adopted(rounds[h][t.at], t.msg), TRUE)
           ELSE Dismiss(h, t)

-----------------------------------------------------------------------------
(***************************************************************************)
(* Votes.                                                                  *)
(***************************************************************************)

\* A vote over another canonical than the round's waits too: the proposal it
\* answers may still come.
VoteIn(h, m, o) == m.sig # NoSig /\ m.sig = o.canon

handlePrepare(h) ==
    \E m \in xnet[h] :
        /\ m.type = "PREPARE"
        /\ \/ finalRow[h] # NoRow /\ Drop(h, m)
           \/ finalRow[h] = NoRow /\ ~HasRound(h) /\ Early(h, m)
           \/ /\ finalRow[h] = NoRow /\ HasRound(h)
              /\ LET o == Live(h)
                     voted == [o EXCEPT !.sigs = SetSig(@, m.from, m.sig),
                                        !.prepares = @ \cup {m.from}]
                 IN  IF m.from \notin XMembers[o.block] THEN Drop(h, m)
                     ELSE IF ~VoteIn(h, m, o) THEN Early(h, m)
                     ELSE /\ Settle(h, rounds[h], CheckPrepare(voted, h))
                          /\ xnet' = Broadcast(Taken(h, m), h, CommitOf(voted, h))
                          /\ UNCHANGED <<live, early, tasks, scenario>>

handleCommit(h) ==
    \E m \in xnet[h] :
        /\ m.type = "COMMIT"
        /\ \/ finalRow[h] # NoRow /\ Drop(h, m)
           \/ finalRow[h] = NoRow /\ ~HasRound(h) /\ Early(h, m)
           \/ /\ finalRow[h] = NoRow /\ HasRound(h)
              /\ LET o == Live(h)
                     voted == [o EXCEPT !.sigs = SetSig(@, m.from, m.sig),
                                        !.commits = @ \cup {m.from}]
                 IN  IF m.from \notin XMembers[o.block] THEN Drop(h, m)
                     ELSE IF ~VoteIn(h, m, o) THEN Early(h, m)
                     ELSE /\ Settle(h, rounds[h], CheckCommit(voted))
                          /\ xnet' = Taken(h, m)
                          /\ UNCHANGED <<live, early, tasks, scenario>>

-----------------------------------------------------------------------------
(***************************************************************************)
(* Changing the view.                                                      *)
(***************************************************************************)

VotersFor(o, v) == {w.by : w \in {x \in o.vcs : x.view = v}}

VcQuorum(o, v) == VotersFor(o, v) # {} /\ meetsQuorum(o.block, VotersFor(o, v))

\* reproposeAsLeader, before broadcastPropose: the canonical is rebuilt for the
\* view, and votes over the old bytes go with them.
Reproposed(o) ==
    LET canon == Canon(o.row, o.view)
    IN  IF canon = o.canon THEN o
        ELSE [o EXCEPT !.canon = canon, !.sigs = {}, !.prepares = {},
                       !.commits = {}, !.commitSent = FALSE]

Restamped(o) == [o EXCEPT !.row.stamp = @ + 1]

\* maybeAssumeLeadership: the round object, the messages and the tasks it leaves
\* behind.  A leader whose row went stale moves its effective_time first, at
\* once or when the margin of a policy row is known.
AssumeLeadership(h, o, v, stale) ==
    LET risen == [o EXCEPT !.view = Larger(@, v)]
        stamped == IF stale /\ scenario.restamp = "now" THEN Restamped(risen) ELSE risen
        nothing(x) == [obj |-> x, msgs |-> {}, tasks |-> {}]
    IN  IF o.final \/ ~VcQuorum(o, v) THEN nothing(o)
        ELSE IF leaderFor(o.block, v) # h THEN nothing(risen)
        ELSE IF stale /\ scenario.restamp = "later"
        THEN [obj |-> risen, msgs |-> {},
              tasks |-> {[kind |-> "restamp", at |-> live[h], view |-> v]}]
        ELSE [obj |-> Reproposed(stamped), msgs |-> {Control("NEW_VIEW", h, v)},
              tasks |-> {Persisting(live[h], FALSE)}]

MayBeStale(o) == IF scenario.restamp # "none" /\ o.row.stamp < MaxStamp THEN BOOLEAN ELSE {FALSE}

Spend == scenario.faults > 0 /\ scenario' = [scenario EXCEPT !.faults = @ - 1]

\* RESTAMP_FAILED at once: the margin of a stale row throws or is no number, and the
\* new leader rises to the view and says nothing.
RestampFails(h, o, v) ==
    /\ scenario.restamp = "now"
    /\ ~o.final /\ VcQuorum(o, v) /\ leaderFor(o.block, v) = h
    /\ Spend

Risen(o, v) == [obj |-> [o EXCEPT !.view = Larger(@, v)], msgs |-> {}, tasks |-> {}]

\* The vote of `by` for view v in the live round of h.
CountViewVote(h, by, v, o, net, msgs) ==
    LET voted == [o EXCEPT !.vcs = @ \cup {[view |-> v, by |-> by]}]
        Leaves(after) == /\ SetRound(h, live[h], after.obj)
                         /\ xnet' = Broadcast(net, h, msgs \cup after.msgs)
                         /\ Start(h, after.tasks)
                         /\ UNCHANGED <<live, finalRow, early, emitted>>
    IN  \/ \E stale \in MayBeStale(o) :
              Leaves(AssumeLeadership(h, voted, v, stale)) /\ UNCHANGED scenario
        \/ RestampFails(h, voted, v) /\ Leaves(Risen(voted, v))

\* onRoundTimeout of a round still young: initiateViewChange.
Timeout(h) ==
    /\ HasRound(h) /\ ~Live(h).final /\ getQuorum(Snapshot[Live(h).block]) > 0
    /\ Live(h).view < scenario.views
    /\ LET v == Live(h).view + 1
       IN  CountViewVote(h, h, v, [Live(h) EXCEPT !.view = v], xnet,
                         {Control("VIEW_CHANGE", h, v)})

handleViewChange(h) ==
    \E m \in xnet[h] :
        /\ m.type = "VIEW_CHANGE"
        /\ \/ /\ finalRow[h] # NoRow
              /\ xnet' = Broadcast(Taken(h, m), h, {FinalSync(h, finalRow[h])})
              /\ UNCHANGED <<rounds, live, finalRow, early, tasks, emitted, scenario>>
           \/ finalRow[h] = NoRow /\ ~HasRound(h) /\ Early(h, m)
           \/ /\ finalRow[h] = NoRow /\ HasRound(h)
              /\ IF m.from \in XMembers[Live(h).block]
                 THEN CountViewVote(h, m.from, m.view, Live(h), Taken(h, m), {})
                 ELSE Drop(h, m)

handleNewView(h) ==
    \E m \in xnet[h] :
        /\ m.type = "NEW_VIEW"
        /\ \/ finalRow[h] # NoRow /\ Drop(h, m)
           \/ finalRow[h] = NoRow /\ ~HasRound(h) /\ Early(h, m)
           \/ /\ finalRow[h] = NoRow /\ HasRound(h)
              /\ IF /\ m.view > Live(h).view
                    /\ m.from = leaderFor(Live(h).block, m.view)
                    /\ VcQuorum(Live(h), m.view)
                 THEN /\ SetRound(h, live[h], [Live(h) EXCEPT !.view = m.view])
                      /\ xnet' = Taken(h, m)
                      /\ UNCHANGED <<live, finalRow, early, tasks, emitted, scenario>>
                 ELSE Drop(h, m)

\* The margin of a policy row arrived.  The row moves whatever became of the round,
\* in the cache of finalized rows too if it got there; the new leader goes on only
\* if the round and its view still stand.
RestampArrives(h) ==
    \E t \in tasks[h] :
        /\ t.kind = "restamp"
        /\ LET o == rounds[h][t.at]
               stamped == IF o.row.stamp < MaxStamp THEN Restamped(o) ELSE o
               current == ~o.final /\ live[h] = t.at /\ o.view = t.view
               cached == o.final /\ finalRow[h] # NoRow /\ t.at = Len(rounds[h])
           IN  /\ finalRow' = IF cached THEN [finalRow EXCEPT ![h].row = stamped.row] ELSE finalRow
               /\ SetRound(h, t.at, IF current THEN Reproposed(stamped) ELSE stamped)
               /\ xnet' = IF current THEN Broadcast(xnet, h, {Control("NEW_VIEW", h, t.view)}) ELSE xnet
               /\ End(h, t, IF current THEN {Persisting(t.at, FALSE)} ELSE {})
        /\ UNCHANGED <<live, early, emitted, scenario>>

-----------------------------------------------------------------------------
(***************************************************************************)
(* Catching up from a hub that already finalized.                          *)
(***************************************************************************)

\* verifiedSyncSignatures, against the snapshot of block b.
VerifiedProof(m, b) ==
    {s \in m.proof : s.by \in XMembers[b] /\ s.over = Canon(m.row, m.view)}

ProofHolds(m, b) ==
    LET by == Signers(VerifiedProof(m, b))
    IN  IF Weighted[b] THEN meetsStakeThreshold(Snapshot[b], by)
        ELSE Cardinality(by) >= Larger(getQuorum(Snapshot[b]), 1)

\* The offered row, its proof and the view the proof was made at.
CaughtUp(o, m, b) ==
    Finalized([o EXCEPT !.row = m.row, !.canon = Canon(m.row, m.view),
                        !.sigs = VerifiedProof(m, b), !.block = b, !.view = m.view])

\* handleFinalSync after rebindSnapshot.
Sync(h, i, m) ==
    LET o == rounds[h][i]
        b == IF m.row.block = o.row.block THEN o.block ELSE m.row.block
    IN  IF StillOpen(h, i) /\ ProofHolds(m, b)
        THEN Settle(h, rounds[h], CaughtUp(o, m, b))
        ELSE UNCHANGED <<rounds, finalRow, emitted>>

handleFinalSync(h) ==
    \E m \in xnet[h] :
        /\ m.type = "FINAL_SYNC"
        /\ IF finalRow[h] # NoRow \/ ~HasRound(h) \/ Live(h).final THEN Drop(h, m)
           ELSE /\ xnet' = Taken(h, m)
                /\ IF m.row.block = Live(h).row.block
                   THEN Sync(h, live[h], m) /\ UNCHANGED tasks
                   ELSE /\ Start(h, {[kind |-> "rebind", at |-> live[h], msg |-> m]})
                        /\ UNCHANGED <<rounds, finalRow, emitted>>
                /\ UNCHANGED <<live, early, scenario>>

SyncRebound(h) ==
    \E t \in tasks[h] :
        /\ t.kind = "rebind" /\ t.msg.type = "FINAL_SYNC"
        /\ IF Bindable(t.msg.row.block) THEN Sync(h, t.at, t.msg)
           ELSE UNCHANGED <<rounds, finalRow, emitted>>
        /\ End(h, t, {})
        /\ UNCHANGED <<live, early, xnet, scenario>>

-----------------------------------------------------------------------------
(***************************************************************************)
(* Rounds that end otherwise.  A message lost, expired in the early buffer *)
(* or beyond its limits is one that is never delivered.                    *)
(***************************************************************************)

\* A validation, snapshot lookup or margin fails: the handler stops there.
AwaitFails(h) ==
    /\ Spend
    /\ \E t \in tasks[h] : t.kind \in {"validate", "rebind", "restamp"} /\ End(h, t, {})
    /\ UNCHANGED <<rounds, live, finalRow, early, xnet, emitted>>

\* onRoundTimeout past roundMaxLifetimeMs; the rail will propose again.
Abandon(h) ==
    /\ Spend
    /\ HasRound(h) /\ ~Live(h).final /\ getQuorum(Snapshot[Live(h).block]) > 0
    /\ live' = [live EXCEPT ![h] = 0]
    /\ UNCHANGED <<rounds, finalRow, early, tasks, xnet, emitted>>

\* forgetFinalized: the rail retracted the row, or could not store it.
forgetFinalized(h) ==
    /\ Spend
    /\ finalRow[h] # NoRow
    /\ finalRow' = [finalRow EXCEPT ![h] = NoRow]
    /\ live' = [live EXCEPT ![h] = 0]
    /\ UNCHANGED <<rounds, early, tasks, xnet, emitted>>

\* markFinalized of other rows pushes this one out of the ring.
EvictFinalized(h) ==
    /\ Spend
    /\ finalRow[h] # NoRow
    /\ finalRow' = [finalRow EXCEPT ![h] = NoRow]
    /\ UNCHANGED <<rounds, live, early, tasks, xnet, emitted>>

\* PENDING_EVICT_MS after finalize.
Cleanup(h) ==
    /\ HasRound(h) /\ Live(h).final
    /\ live' = [live EXCEPT ![h] = 0]
    /\ UNCHANGED <<rounds, finalRow, early, tasks, xnet, emitted, scenario>>

\* stop and start: everything the engine holds is in memory.
Restart(h) ==
    /\ Spend /\ h \in On
    /\ live' = [live EXCEPT ![h] = 0]
    /\ finalRow' = [finalRow EXCEPT ![h] = NoRow]
    /\ early' = [early EXCEPT ![h] = {}]
    /\ tasks' = [tasks EXCEPT ![h] = {}]
    /\ UNCHANGED <<rounds, xnet, emitted>>

-----------------------------------------------------------------------------

XInit ==
    /\ rounds = [h \in Hubs |-> <<>>]
    /\ live = [h \in Hubs |-> 0]
    /\ finalRow = [h \in Hubs |-> NoRow]
    /\ early = [h \in Hubs |-> {}]
    /\ tasks = [h \in Hubs |-> {}]
    /\ xnet = [h \in Hubs |-> {}]
    /\ emitted = {}
    /\ scenario \in Scenarios

XNext ==
    \E h \in Hubs :
        \/ propose(h) \/ ProposeAlone(h) \/ FinalizeAlone(h) \/ broadcastPropose(h)
        \/ handlePropose(h) \/ Validated(h) \/ Rebound(h)
        \/ handlePrepare(h) \/ handleCommit(h)
        \/ Timeout(h) \/ handleViewChange(h) \/ handleNewView(h) \/ RestampArrives(h)
        \/ handleFinalSync(h) \/ SyncRebound(h)
        \/ AwaitFails(h) \/ Abandon(h) \/ forgetFinalized(h) \/ EvictFinalized(h)
        \/ Cleanup(h) \/ Restart(h)

XSpec == XInit /\ [][XNext]_xvars

-----------------------------------------------------------------------------
(***************************************************************************)
(* Properties.                                                             *)
(***************************************************************************)

Round == [row : Row, canon : [row : Row, view : Views], block : Blocks, view : Views,
          prepares : SUBSET Hubs, commits : SUBSET Hubs,
          sigs : SUBSET [by : Hubs, over : [row : Row, view : Views]],
          vcs : SUBSET [view : Views, by : Hubs],
          commitSent : BOOLEAN, final : BOOLEAN]

\* The shape of the state: round objects are well formed, and every suspended
\* handler holds one of them.
XTypeOK ==
    /\ \A h \in Hubs :
          /\ live[h] \in 0..Len(rounds[h]) /\ Len(rounds[h]) <= scenario.opens[h]
          /\ \A i \in DOMAIN rounds[h] : rounds[h][i] \in Round
          /\ \A t \in tasks[h] : t.at \in DOMAIN rounds[h]
    /\ scenario.faults \in Nat

\* Every signature published with a row is over one canonical of that row
\* (view_change.js: "The quorum signatures over the canonical ARE the proof").
ProofOverRow ==
    \A e \in emitted : \E v \in Views : \A s \in e.at.sigs : s.over = Canon(e.at.row, v)

\* Whatever a hub hands to the indexers as finalized is signed over one canonical of
\* that very row, by enough voters for the snapshot the row itself declares: the set
\* every indexer measures the signatures against (adoptLeaderRow, handleFinalSync),
\* not the one the round happened to open over.  The hub that publishes may itself be
\* one of the voters without being listed: its own vote is not checked against the
\* snapshot (countLeaderAndOwnPrepare, checkPrepareQuorum).  A rail that restamps its rows by a
\* promise is left out: there a late margin moves the row under its signatures.
ProofBehindFinal ==
    scenario.restamp # "later" =>
        /\ ProofOverRow
        /\ \A e \in emitted : \E voters \in SUBSET Signers(e.at.sigs) :
              meetsQuorum(e.at.row.block, voters) \/ voters = XMembers[e.at.row.block]

\* The view a finalized row is published with is the one its signatures cover:
\* the indexer rebuilds the EQUIV canonical from it.
ViewCoversProof ==
    \A e \in emitted : \A s \in e.at.sigs : s.over = Canon(e.at.row, e.at.view)

\* Hub h sent its COMMIT in the round it has open, and keeps the round in this step.
Committed(h) == live[h] # 0 /\ live'[h] = live[h] /\ Live(h).commitSent

\* On a rail that does not restamp its rows, a hub that sent its COMMIT for a row
\* never gives the round to another row (committedToOtherValue), unless a quorum
\* finalized that one, or its snapshot was being looked up when the COMMIT left: the
\* check is not made again after that await.  Whatever else was suspended and however
\* the view moves, the commit holds.
CommitHolds ==
    [][\A h \in Hubs : scenario.restamp = "none" /\ Committed(h) =>
          LET o == rounds'[h][live[h]]
          IN  \/ o.row = Live(h).row \/ o.final
              \/ \E t \in tasks[h] \ tasks'[h] :
                    t.kind = "rebind" /\ t.at = live[h] /\ o.row = t.msg.row]_xvars
=============================================================================
