----------------------------- MODULE AttestRelay -----------------------------
(***************************************************************************)
(* The at-most-once rail of the attestation relay (attestation/relay.js    *)
(* and attestation/relay/): one hub that signs the rounds of its legs,     *)
(* broadcasts the ones it ranks first for, steps in for a silent leader,   *)
(* and keeps a write-ahead log so that a restart does not pay a leg again. *)
(*                                                                         *)
(* A leg is a pair of a phase and a request: "request" materialises the    *)
(* origin's request on the home chain, "response" carries the answer back. *)
(* The log is kept as the set of phases written for each leg: loadWal and  *)
(* foldWalRecords read nothing else from it (see Outcome).  The engine of  *)
(* the rounds is CrossChainPbft; here a round is open, final or abandoned. *)
(***************************************************************************)
EXTENDS Integers

CONSTANTS
    LegKeys,        \* the legs: pairs <<phase, request>>
    Deadline,       \* the origin's deadline_block of each request
    Confirmations,  \* the reorg depth the relay honours on the origin chain
    EvictGrace,     \* evictGraceBlocks
    MaxTip,         \* bound: heights of the origin chain
    RelayPlans      \* bounds of a behaviour: its legs, this hub's ranks, its faults

\* Positions in the signers' order (myRank); -1 is a hub that did not sign, NoWire
\* no entry.
NoWire == -2
Ranks == {NoWire, -1, 0, 1}

\* Heights and depths are counted in blocks.
ASSUME HorizonAssumption ==
    /\ Confirmations \in Nat /\ EvictGrace \in Nat
    /\ \A k \in LegKeys : Deadline[k[2]] \in Nat

VARIABLES
    \* durable
    relayLog,   \* per leg, the phases its records in the WAL name
    dated,      \* the requests some record of the WAL dates
    \* in memory
    published,  \* _published and _publishedResponses
    wire,       \* _finalizedWire and _finalizedResponse: this hub's rank
    sends,      \* per leg: "idle", "open" (awaited), "taken" (the node has it)
    legRounds,  \* rounds this hub takes part in
    roundsDone, \* the engine's finalized ids
    deadlines,  \* _deadlines
    latest,     \* _originLatest, 0 before the first read
    shown,      \* legs the last read views show on their destination chain
    polling,    \* the poll: "idle", "reading", "requests" (no home view) or "sweeping"
    \* outside the hub
    tip,        \* the height of the origin chain
    landed,     \* legs their destination chain holds
    paid,       \* per leg, the transactions of this hub a node has taken
    \* history
    peak,       \* the greatest height the origin chain had
    exposed,    \* legs whose last intent the log may not speak for
    relayBudget \* the plan, with the faults left

diskvars == <<relayLog, dated>>
hubvars == <<published, wire, sends, legRounds, roundsDone, deadlines, latest, shown,
             polling>>
chainvars == <<tip, peak, landed, paid>>
avars == <<diskvars, hubvars, chainvars, exposed, relayBudget>>

AInit ==
    /\ relayLog = [k \in LegKeys |-> {}] /\ dated = {}
    /\ published = {} /\ wire = [k \in LegKeys |-> NoWire]
    /\ sends = [k \in LegKeys |-> "idle"]
    /\ legRounds = {} /\ roundsDone = {} /\ deadlines = {} /\ latest = 0 /\ shown = {}
    /\ polling = "idle"
    /\ tip = 1 /\ peak = 1 /\ landed = {} /\ paid = [k \in LegKeys |-> 0]
    /\ exposed = {}
    /\ relayBudget \in RelayPlans

Spend(fault) == relayBudget[fault] > 0 /\ relayBudget' = [relayBudget EXCEPT ![fault] = @ - 1]

-----------------------------------------------------------------------------
(***************************************************************************)
(* The log.                                                                *)
(***************************************************************************)

\* The fold of loadWal and foldWalRecords: "sent" is final, "failed" overrides an
\* intent, and an intent counts only for a leg with no record before it.
Outcome(log, k) ==
    CASE "sent" \in log[k] -> "sent"
      [] "sent" \notin log[k] /\ "failed" \in log[k] -> "failed"
      [] log[k] = {"intent"} -> "intent"
      [] OTHER -> "none"

\* Mutant: only legs with an outcome record are marked.
MutSentOnly(log) == {k \in LegKeys : Outcome(log, k) = "sent"}

\* The legs loadWal marks: "intent with no terminal record" counts as sent.
Suppressed(log) == {k \in LegKeys : Outcome(log, k) \in {"sent", "intent"}}

Recorded(k, phase) == [relayLog EXCEPT ![k] = @ \cup {phase}]
DatedWith(k) == IF k[2] \in deadlines THEN dated \cup {k[2]} ELSE dated

\* appendWal, whose answer noteLegSent and noteLegSendFailed do not read: the
\* record is on disk, or the append failed and it may be there all the same.
appendOutcome(k, phase) ==
    \/ relayLog' = Recorded(k, phase) /\ dated' = DatedWith(k) /\ UNCHANGED relayBudget
    \/ Spend("disk") /\ UNCHANGED diskvars

\* compactedWalLines: one record per leg still published, the one that decided it,
\* or a synthetic "sent" where none is left.
Compacted(log, live) ==
    [k \in LegKeys |-> IF k \notin live THEN {}
                       ELSE IF log[k] = {} THEN {"sent"} ELSE {Outcome(log, k)}]

\* compactWal over the legs in live: the file is replaced whole or stands.
compactWal(log, live, known) ==
    \/ /\ relayLog' = Compacted(log, live)
       /\ dated' = {r \in dated \cup known : \E k \in live : k[2] = r}
       /\ UNCHANGED relayBudget
    \/ relayLog' = log /\ Spend("disk") /\ UNCHANGED dated

pastEvictionHorizon(r, height) == height > 0 /\ height > Deadline[r] + EvictGrace + Confirmations

-----------------------------------------------------------------------------
(***************************************************************************)
(* Rounds.                                                                 *)
(***************************************************************************)

\* The origin still lists the request: it is not answered, and the origin's expiry
\* sweep, which may lag by the grace window, has not taken it.  A response needs
\* the request on the home chain.
Relayable(k) ==
    /\ k \in relayBudget.legs
    /\ tip <= Deadline[k[2]] + EvictGrace /\ <<"response", k[2]>> \notin landed
    /\ k[1] = "response" => <<"request", k[2]>> \in landed

\* The guards past the deadline: the leg is not beyond recall, nor dealt with.
Fresh(k) ==
    /\ ~pastEvictionHorizon(k[2], latest)
    /\ k \notin published /\ wire[k] = NoWire /\ k \notin legRounds /\ k \notin roundsDone
    /\ k[1] = "request" => k \notin shown

\* requestLegCandidate and responseLegCandidate, during a poll that read the origin:
\* the deadline is noted first, then a fresh leg gets its round.
maybeRelay(k) ==
    /\ polling = "reading" \/ (polling = "requests" /\ k[1] = "request")
    /\ Relayable(k)
    /\ deadlines' = deadlines \cup {k[2]}
    /\ legRounds' = IF Fresh(k) THEN legRounds \cup {k} ELSE legRounds
    /\ UNCHANGED <<diskvars, published, wire, sends, roundsDone, latest, shown, polling,
                   chainvars, exposed, relayBudget>>

\* validateRequestRow and validateResponseRow: a peer's proposal, checked against
\* this hub's own indexers.  The deadline and the tip they show are kept though a
\* later comparison may refuse the row.
validateProposedMatch(k) ==
    LET r == k[2] IN
    /\ k \notin legRounds /\ k \notin roundsDone
    /\ k[1] = "request" => k \notin shown
    /\ Relayable(k)
    /\ deadlines' = deadlines \cup {r}
    /\ latest' = tip
    /\ legRounds' \in IF pastEvictionHorizon(r, tip) THEN {legRounds} ELSE {legRounds, legRounds \cup {k}}
    /\ UNCHANGED <<diskvars, published, wire, sends, roundsDone, shown, polling,
                   chainvars, exposed, relayBudget>>

\* The engine gives a round up and the relay may propose it again.
RoundAbandoned(k) ==
    /\ k \in legRounds
    /\ legRounds' = legRounds \ {k}
    /\ UNCHANGED <<diskvars, published, wire, sends, roundsDone, deadlines, latest, shown, polling,
                   chainvars, exposed, relayBudget>>

-----------------------------------------------------------------------------
(***************************************************************************)
(* Sending.                                                                *)
(***************************************************************************)

\* prepareLegSend, and broadcast up to its await.  Without a rail or a reservation
\* from the spend guard the leg is kept; so it is when the intent cannot be
\* logged, though a failed append may have left the record behind.
broadcast(k) ==
    \/ k \in published /\ UNCHANGED <<diskvars, sends, relayBudget>>
    \/ k \notin published /\ UNCHANGED <<diskvars, sends>> /\ Spend("refusals")
    \/ /\ k \notin published /\ Spend("disk")
       /\ relayLog' \in {relayLog, Recorded(k, "intent")}
       /\ UNCHANGED <<dated, sends>>
    \/ /\ k \notin published
       /\ relayLog' = Recorded(k, "intent") /\ dated' = DatedWith(k)
       /\ sends' = [sends EXCEPT ![k] = "open"]
       /\ UNCHANGED relayBudget

\* onRoundFinalized: the wire is kept, unless it does not fit (rank NoWire), and
\* rank 0 sends it at once.
onRoundFinalized(k, rank) ==
    /\ k \in legRounds /\ rank \in relayBudget.ranks
    /\ legRounds' = legRounds \ {k} /\ roundsDone' = roundsDone \cup {k}
    /\ wire' = [wire EXCEPT ![k] = rank]
    /\ IF rank = 0 THEN broadcast(k) ELSE UNCHANGED <<diskvars, sends, relayBudget>>
    /\ UNCHANGED <<published, deadlines, latest, shown, polling, chainvars, exposed>>

\* A node of the destination chain takes the transaction before broadcast returns.
NodeTakes(k) ==
    /\ sends[k] = "open"
    /\ sends' = [sends EXCEPT ![k] = "taken"]
    /\ paid' = [paid EXCEPT ![k] = @ + 1]
    /\ UNCHANGED <<diskvars, published, wire, legRounds, roundsDone, deadlines, latest, shown, polling,
                   tip, peak, landed, exposed, relayBudget>>

noteLegSent(k) ==
    /\ sends[k] = "taken"
    /\ sends' = [sends EXCEPT ![k] = "idle"]
    /\ published' = published \cup {k}
    /\ wire' = [wire EXCEPT ![k] = NoWire]
    /\ appendOutcome(k, "sent")
    /\ UNCHANGED <<legRounds, roundsDone, deadlines, latest, shown, polling, chainvars, exposed>>

\* noteLegSendFailed on an ambiguous error: the node may have the transaction, or
\* get it yet.  The wire stays for the sweep to drop.
noteLegAmbiguous(k) ==
    /\ sends[k] # "idle"
    /\ paid' \in {paid} \cup {[paid EXCEPT ![k] = @ + 1] : s \in {sends[k]} \cap {"open"}}
    /\ sends' = [sends EXCEPT ![k] = "idle"]
    /\ published' = published \cup {k}
    /\ appendOutcome(k, "sent")
    /\ UNCHANGED <<wire, legRounds, roundsDone, deadlines, latest, shown, polling,
                   tip, peak, landed, exposed>>

\* noteLegSendFailed on an error that left nothing on the wire.  From here on the
\* leg has a "failed" record, which a later intent does not replace.
noteLegSendFailed(k) ==
    /\ sends[k] = "open"
    /\ sends' = [sends EXCEPT ![k] = "idle"]
    /\ appendOutcome(k, "failed")
    /\ exposed' = IF "failed" \in relayLog'[k] THEN exposed \cup {k} ELSE exposed
    /\ UNCHANGED <<published, wire, legRounds, roundsDone, deadlines, latest, shown, polling,
                   chainvars>>

-----------------------------------------------------------------------------
(***************************************************************************)
(* The poll.                                                               *)
(***************************************************************************)

\* refreshHomePending, refreshHomeRelayed and pollOriginRequests read their views:
\* a home view that cannot be read stays, an origin view is dropped.
Read(home, origin) ==
    {k \in LegKeys : IF k[1] = "request" THEN k \in IF home THEN landed ELSE shown
                                         ELSE origin /\ k \in landed}

poll(home, origin) ==
    /\ polling = "idle"
    /\ polling' = CASE origin /\ home -> "reading" [] origin /\ ~home -> "requests"
                    [] OTHER -> "sweeping"
    /\ shown' = Read(home, origin)
    /\ latest' = IF origin THEN tip ELSE latest
    /\ UNCHANGED <<diskvars, published, wire, sends, legRounds, roundsDone, deadlines,
                   chainvars, exposed, relayBudget>>

sweepFinalized ==
    /\ polling \in {"reading", "requests"}
    /\ polling' = "sweeping"
    /\ UNCHANGED <<diskvars, published, wire, sends, legRounds, roundsDone, deadlines, latest, shown,
                   chainvars, exposed, relayBudget>>

\* The sweep awaits the send it started itself.
SweepWaits == \E k \in LegKeys : sends[k] # "idle" /\ wire[k] > 0

\* One wire: it is dropped when the leg is published or has landed, rank 0 and
\* non-signers pass, and the others send once their failover window is over.
sweepLeg(k) ==
    /\ polling = "sweeping" /\ wire[k] # NoWire /\ ~SweepWaits
    /\ IF k \in published \cup shown
         THEN wire' = [wire EXCEPT ![k] = NoWire] /\ UNCHANGED <<diskvars, sends, relayBudget>>
         ELSE wire[k] > 0 /\ broadcast(k) /\ UNCHANGED wire
    /\ UNCHANGED <<published, legRounds, roundsDone, deadlines, latest, shown, polling, chainvars, exposed>>

\* evictExpired, the end of a poll.  The compaction keeps published legs only, so
\* the intent of a send that is under way goes with the rest.
evictExpired ==
    LET expired == {r \in deadlines : pastEvictionHorizon(r, latest)}
        gone == {k \in LegKeys : k[2] \in expired}
        underWay == {k \in LegKeys : sends[k] # "idle"}
    IN
    /\ polling = "sweeping" /\ ~SweepWaits
    /\ polling' = "idle"
    /\ deadlines' = deadlines \ expired
    /\ published' = published \ gone
    /\ wire' = [k \in LegKeys |-> IF k \in gone THEN NoWire ELSE wire[k]]
    /\ IF expired = {} THEN UNCHANGED <<diskvars, relayBudget, exposed>>
       ELSE /\ compactWal(relayLog, published \ gone, deadlines \ expired)
            /\ exposed' = exposed \cup {k \in underWay : relayLog'[k] = {}}
    /\ UNCHANGED <<sends, legRounds, roundsDone, latest, shown, chainvars>>

\* The process dies and starts again: loadWal, and a compaction of what it read.
start ==
    LET live == Suppressed(relayLog) IN
    /\ Spend("crashes")
    /\ published' = live
    /\ deadlines' = dated
    /\ \/ /\ relayLog' = Compacted(relayLog, live)
          /\ dated' = {r \in dated : \E k \in live : k[2] = r}
       \/ relayBudget.disk > 0 /\ UNCHANGED diskvars
    /\ wire' = [k \in LegKeys |-> NoWire] /\ sends' = [k \in LegKeys |-> "idle"]
    /\ legRounds' = {} /\ roundsDone' = {} /\ latest' = 0 /\ shown' = {}
    /\ polling' = "idle"
    /\ UNCHANGED <<chainvars, exposed>>

-----------------------------------------------------------------------------
(***************************************************************************)
(* The chains.                                                             *)
(***************************************************************************)

\* A round ends, one way or the other, long before the grace window is over.
OriginAdvances ==
    /\ tip < MaxTip
    /\ \A k \in legRounds : ~pastEvictionHorizon(k[2], tip + 1)
    /\ tip' = tip + 1
    /\ peak' = IF peak < tip + 1 THEN tip + 1 ELSE peak
    /\ UNCHANGED <<diskvars, hubvars, landed, paid, exposed, relayBudget>>

\* A reorg, block by block, of a depth the relay honours.
OriginReorgs ==
    /\ tip > 1 /\ tip > peak - Confirmations
    /\ Spend("reorgs")
    /\ tip' = tip - 1
    /\ UNCHANGED <<diskvars, hubvars, peak, landed, paid, exposed>>

\* The leg this hub, or a peer that signed its round, paid for is indexed.
LegLands(k) ==
    /\ k \notin landed
    /\ paid[k] > 0 \/ wire[k] # NoWire
    /\ landed' = landed \cup {k}
    /\ UNCHANGED <<diskvars, hubvars, tip, peak, paid, exposed, relayBudget>>

ANext ==
    \/ \E k \in LegKeys :
          \/ maybeRelay(k) \/ validateProposedMatch(k) \/ RoundAbandoned(k)
          \/ \E rank \in Ranks : onRoundFinalized(k, rank)
          \/ NodeTakes(k) \/ noteLegSent(k) \/ noteLegAmbiguous(k) \/ noteLegSendFailed(k)
          \/ sweepLeg(k) \/ LegLands(k)
    \/ \E home, origin \in BOOLEAN : poll(home, origin)
    \/ sweepFinalized \/ evictExpired \/ start
    \/ OriginAdvances \/ OriginReorgs

ASpec == AInit /\ [][ANext]_avars

-----------------------------------------------------------------------------

\* A leg whose sends never failed cleanly, and whose intent no compaction dropped
\* while it was under way, is paid for once: whatever crashes between the intent,
\* the node and the outcome record, whichever record is lost, whichever of the
\* two drivers sends, and though the leg is forgotten past its deadline.
PaidOnce == \A k \in LegKeys \ exposed : paid[k] <= 1

\* "An `intent` with no terminal record is a crash mid-broadcast: treated as SENT".
PaidOnceEver == \A k \in LegKeys : paid[k] <= 1

=============================================================================
