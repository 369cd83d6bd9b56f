--------------------------- MODULE PricePublisher ---------------------------
(***************************************************************************)
(* The oracle's publish rail (oracle/publisher/): finalized price rounds   *)
(* wait in a durable buffer; a closed window of them is signed and split   *)
(* into wires; a wire waits on a durable queue; a pass over the queue pays *)
(* DOGE to put each wire on chain.                                         *)
(*                                                                         *)
(* One hub, one event loop.  Window assemblies are serialized on one       *)
(* promise chain and each ends in a pass, so there is one job at a time;   *)
(* its awaits (`at`) interleave with finalized rounds, landed batches,     *)
(* retractions, the retention sweep's delete and crashes.                  *)
(*                                                                         *)
(* A round stands for its prices.  A wire is the set of rounds it carries. *)
(* A queue entry's identity is its lowest round.  The buffer and its file  *)
(* are one, every wire fits, and the publisher is neither disabled nor     *)
(* paused.                                                                 *)
(***************************************************************************)
EXTENDS Integers, Sequences, FiniteSets, FiniteSetsExt, Functions

CONSTANTS
    Rounds,         \* round numbers
    WindowSize,     \* rounds per window
    Led,            \* the windows this hub is elected to publish
    BufferMax,      \* ORACLE_BATCH_BUFFER_MAX_ROUNDS
    MaxAttempts,    \* maxAttempts
    Ceiling,        \* broadcasts the spend guard allows per spend window
    Retention,      \* publishedRoundsRetentionRounds
    Budgets         \* how many faults of each kind a behaviour may have: a set
                    \* of choices, of which a behaviour makes one

FaultKinds == {"crash",     \* the process dies and comes back
               "db",        \* a query on the marker table fails
               "disk",      \* a durable file cannot be written
               "send",      \* a broadcast fails or its answer is lost
               "retract",   \* a reorg takes a landed batch back
               "again",     \* a round finalizes a second time
               "roll"}      \* the spend window rolls over

ASSUME PublisherAssumption ==
    /\ Rounds \subseteq Nat \ {0} /\ IsFiniteSet(Rounds)
    /\ WindowSize \in Nat \ {0} /\ BufferMax \in Nat \ {0}
    /\ MaxAttempts \in Nat \ {0} /\ Ceiling \in Nat /\ Retention \in Nat
    /\ Led \subseteq Nat
    /\ Budgets \subseteq [FaultKinds -> Nat]

VARIABLES
    \* durable
    finalized,      \* price_snapshots: the rounds finalized here
    buffer,         \* the buffered rounds
    queue,          \* the publish queue
    dead,           \* the dead-letter file; what could not be written to it too
    marker,         \* oracle_published_rounds: "none", "intent" or "sent"
    disk,           \* spends the spend guard has saved
    \* in memory
    shed,           \* _landedRounds: rounds dropped from the buffer as landed
    assembled,      \* _assembledWindows
    armed,          \* _takeoverTimers
    published,      \* _publishedRounds
    quarantined,    \* _quarantinedRounds
    spent,          \* spends counted in the window, reservations included
    \* the job on the window chain
    at,             \* what it awaits
    batch,          \* the rounds being signed
    todo,           \* the entries of the pass still to do, the current one first
    left,           \* the rounds of the current entry still to visit
    kept,           \* pass.remaining
    won,            \* the last round published by this pass, 0 if none
    \* queries in flight
    pruning,        \* cutoffs of retention sweeps deleting marker rows
    restoring,      \* rounds of retractions being read back for the buffer
    clearing,       \* rounds of retractions whose marker rows are being deleted
    \* outside the hub
    chain,          \* the wires that reached the node, in order
    landed,         \* rounds a valid batch on the active chain carries
    \* history
    forgotten,      \* times a round's marker row was deleted under a sent wire
    paid,           \* wires paid for since the spend window rolled
    budget          \* the faults that may still happen

rail == <<finalized, buffer, assembled, armed, landed, shed>>
guards == <<marker, published, quarantined, pruning, restoring, clearing, forgotten>>
spend == <<disk, spent, paid>>
pass == <<at, batch, todo, left, kept, won>>
vars == <<rail, queue, dead, guards, spend, pass, chain, budget>>

Places == {"idle", "sign", "gates", "entry", "markers", "reserve", "intent",
           "send", "accepted", "unknown", "refused", "withdraw", "mark"}

Wire == (SUBSET Rounds) \ {{}}
Entry == [rounds : Wire, attempts : 0..MaxAttempts]
DeadLetter == [rounds : Wire, written : BOOLEAN]

-----------------------------------------------------------------------------
(***************************************************************************)
(* Windows.                                                                *)
(***************************************************************************)

WindowOf(r) == r \div WindowSize
WindowRounds(w) == {r \in Rounds : WindowOf(r) = w}
Windows == {WindowOf(r) : r \in Rounds}
LastSlot(w) == w * WindowSize + WindowSize - 1

\* A window closes when its last slot or a round of a higher window finalizes (in the
\* model even where that round could not be buffered: more windows close, never fewer).
Closed(w) == \E r \in finalized : WindowOf(r) > w \/ r = LastSlot(w)

\* enforceBufferBound: the oldest rounds go.
Bounded(rounds) ==
    {r \in rounds : Cardinality({s \in rounds : s >= r}) <= BufferMax}

Fault(kind) == budget[kind] > 0 /\ budget' = [budget EXCEPT ![kind] = @ - 1]

Init ==
    /\ finalized = {} /\ buffer = {} /\ queue = <<>> /\ dead = {}
    /\ marker = [r \in Rounds |-> "none"]
    /\ disk = 0 /\ spent = 0 /\ paid = 0
    /\ assembled = {} /\ armed = {} /\ published = {} /\ quarantined = {}
    /\ at = "idle" /\ batch = {} /\ todo = <<>> /\ left = {} /\ kept = <<>> /\ won = 0
    /\ pruning = {} /\ restoring = {} /\ clearing = {}
    /\ chain = <<>> /\ landed = {} /\ shed = {}
    /\ forgotten = [r \in Rounds |-> 0]
    /\ budget \in Budgets

-----------------------------------------------------------------------------
(***************************************************************************)
(* From a finalized round to wires on the queue.                           *)
(***************************************************************************)

\* onRoundFinalized: a round is buffered, or lost if the file cannot be written.
\* Rounds may finalize late or out of order, and a round that was shed a second time:
\* it is buffered again.
onRoundFinalized(r) ==
    /\ finalized' = finalized \cup {r}
    /\ \/ r \notin finalized /\ buffer' = Bounded(buffer \cup {r}) /\ UNCHANGED budget
       \/ r \notin finalized /\ Fault("disk") /\ UNCHANGED buffer
       \/ r \in finalized \ buffer /\ Fault("again") /\ buffer' = Bounded(buffer \cup {r})
    /\ UNCHANGED <<assembled, armed, landed, shed, queue, dead, guards, spend, pass,
                   chain>>

\* assembleWindow finds the window empty, or another hub leading it: it is
\* memoized, and a followed window arms its takeover.
passOver(w) ==
    /\ at = "idle"
    /\ Closed(w) /\ w \notin assembled
    /\ buffer \cap WindowRounds(w) = {} \/ w \notin Led
    /\ assembled' = assembled \cup {w}
    /\ armed' = armed \cup IF buffer \cap WindowRounds(w) = {} THEN {} ELSE {w}
    /\ UNCHANGED <<finalized, buffer, landed, shed, queue, dead, guards, spend, pass,
                   chain, budget>>

\* windowCoverageComplete: no finalized round of the window is missing.  A round that
\* was shed is not, though its batch may have been taken back since.
windowCoverageComplete(w) ==
    finalized \cap WindowRounds(w) \subseteq buffer \cup shed \cup landed

\* The window is read off the buffer and its signing round is awaited.
Propose(w) ==
    /\ at = "idle"
    /\ buffer \cap WindowRounds(w) # {}
    /\ windowCoverageComplete(w)
    /\ at' = "sign"
    /\ batch' = buffer \cap WindowRounds(w)
    /\ UNCHANGED <<finalized, buffer, landed, shed, queue, dead, guards, spend, todo, left,
                   kept, won, chain, budget>>

\* assembleWindow as the window's leader, from its timer or the catch-up sweep.
assembleWindow(w) ==
    /\ Closed(w) /\ w \notin assembled /\ w \in Led
    /\ Propose(w)
    /\ UNCHANGED <<assembled, armed>>

\* runTakeoverAttempt, its own checks: no batch was ever seen to land, so the feed is
\* unproven; a round of the window was seen to land; or a read failed.
declineTakeover(w) ==
    /\ at = "idle" /\ w \in armed
    /\ \/ /\ landed = {} \/ landed \cap WindowRounds(w) # {}
          /\ UNCHANGED budget
       \/ Fault("db")
    /\ armed' = armed \ {w}
    /\ UNCHANGED <<finalized, buffer, assembled, landed, shed, queue, dead, guards, spend, pass,
                   chain>>

\* runTakeoverAttempt goes on to assembleWindow.  A landed round of the window does
\* not stop it where this hub finalized that round itself, its row then showing no
\* batch.  A window with a hole is not proposed and no longer memoized.
runTakeoverAttempt(w) ==
    /\ w \in armed /\ landed # {}
    /\ armed' = armed \ {w}
    /\ \/ Propose(w) /\ assembled' = assembled \ {w}
       \/ /\ at = "idle"
          /\ buffer \cap WindowRounds(w) = {} \/ ~windowCoverageComplete(w)
          /\ assembled' = IF buffer \cap WindowRounds(w) = {} THEN assembled \cup {w}
                                                             ELSE assembled \ {w}
          /\ UNCHANGED <<finalized, buffer, landed, shed, queue, dead, guards, spend, pass,
                         chain, budget>>

\* signWindowWires fell short of quorum: nothing is queued, nothing memoized.
signingFails ==
    /\ at = "sign"
    /\ at' = "idle"
    /\ batch' = {}
    /\ UNCHANGED <<rail, queue, dead, guards, spend, todo, left, kept, won, chain, budget>>

\* A window that failed often enough is memoized, its rounds left buffered.
retireExhaustedWindow(w) ==
    /\ Closed(w) /\ w \notin assembled
    /\ buffer \cap WindowRounds(w) # {}
    /\ assembled' = assembled \cup {w}
    /\ UNCHANGED <<finalized, buffer, armed, landed, shed, queue, dead, guards, spend, pass,
                   chain, budget>>

\* A window leaves as one wire or split in two to fit.
Splits(rounds) ==
    {<<rounds>>} \cup
    {<<{r \in rounds : r < cut}, {r \in rounds : r >= cut}>> : cut \in {c \in rounds : \E r \in rounds : r < c}}

NewEntry(rounds) == [rounds |-> rounds, attempts |-> 0]

\* enqueueWindowWires: the window is memoized first, then each wire appended; an
\* append that fails throws and leaves the earlier ones queued.
enqueueWindowWires(wires, appended) ==
    /\ at = "sign"
    /\ assembled' = assembled \cup {WindowOf(Min(batch))}
    /\ queue' = queue \o [i \in 1..appended |-> NewEntry(wires[i])]
    /\ batch' = {}
    /\ IF appended = Len(wires) THEN at' = "gates" /\ UNCHANGED budget
                                ELSE at' = "idle" /\ Fault("disk")
    /\ UNCHANGED <<finalized, buffer, armed, landed, shed, dead, guards, spend, todo, left,
                   kept, won, chain>>

-----------------------------------------------------------------------------
(***************************************************************************)
(* A pass over the queue.                                                  *)
(***************************************************************************)

\* processQueueInner: the balance and confirmed-UTXO gates let the pass run, or the
\* whole queue stays for the next one.
processQueue(open) ==
    /\ at = "gates"
    /\ at' = IF open THEN "entry" ELSE "idle"
    /\ todo' = IF open THEN queue ELSE <<>>
    /\ UNCHANGED <<rail, queue, dead, guards, spend, batch, left, kept, won, chain, budget>>

Current == Head(todo)

\* The current entry is resolved (`keep` empty) or stays queued.
Advance(keep) ==
    /\ at' = "entry"
    /\ todo' = Tail(todo)
    /\ left' = {}
    /\ kept' = kept \o keep

\* deadLetter: best effort.
deadLetter(rounds) ==
    \/ /\ dead' = dead \cup {[rounds |-> rounds, written |-> TRUE]}
       /\ UNCHANGED budget
    \/ /\ Fault("disk")
       /\ dead' = dead \cup {[rounds |-> rounds, written |-> FALSE]}

Exhausted(e) == e.attempts >= MaxAttempts

\* publishQueueEntry: out of attempts, or quarantined.
abandonEntry ==
    /\ at = "entry" /\ todo # <<>>
    /\ \/ Exhausted(Current)
       \/ /\ Current.rounds \cap published = {}
          /\ Current.rounds \cap quarantined # {}
    /\ deadLetter(Current.rounds)
    /\ Advance(<<>>)
    /\ UNCHANGED <<rail, queue, guards, spend, batch, won, chain>>

\* entryResolvedInProcess: already broadcast by this process.
dropEntry ==
    /\ at = "entry" /\ todo # <<>>
    /\ ~Exhausted(Current)
    /\ Current.rounds \cap published # {}
    /\ Advance(<<>>)
    /\ UNCHANGED <<rail, queue, dead, guards, spend, batch, won, chain, budget>>

\* Nothing in memory settles the entry: its marker rows are read.
beginEntry ==
    /\ at = "entry" /\ todo # <<>>
    /\ ~Exhausted(Current)
    /\ Current.rounds \cap (published \cup quarantined) = {}
    /\ at' = "markers"
    /\ left' = Current.rounds
    /\ UNCHANGED <<rail, queue, dead, guards, spend, batch, todo, kept, won, chain, budget>>

\* Mutant: an intent row is read as no row.
MutSentOnly(r) == IF marker[r] = "sent" THEN "sent" ELSE "none"

getPublishedMarker(r) == marker[r]

\* durableMarkersAllowSend, one awaited read at a time.  A read that fails keeps the
\* entry queued; the first row found settles it.
readMarker ==
    LET r == Min(left)
    IN  /\ at = "markers"
        /\ \/ /\ Fault("db")
              /\ Advance(<<Current>>)
              /\ UNCHANGED <<dead, published, quarantined>>
           \/ /\ getPublishedMarker(r) = "sent"
              /\ published' = published \cup Current.rounds
              /\ Advance(<<>>)
              /\ UNCHANGED <<dead, quarantined, budget>>
           \/ /\ getPublishedMarker(r) = "intent"
              /\ quarantined' = quarantined \cup {r}
              /\ deadLetter(Current.rounds)
              /\ Advance(<<>>)
              /\ UNCHANGED published
           \/ /\ getPublishedMarker(r) = "none"
              /\ left' = left \ {r}
              /\ at' = IF left = {r} THEN "reserve" ELSE "markers"
              /\ UNCHANGED <<dead, published, quarantined, todo, kept, budget>>
        /\ UNCHANGED <<rail, queue, marker, pruning, restoring, clearing, forgotten, spend, batch,
                       won, chain>>

-----------------------------------------------------------------------------
(***************************************************************************)
(* Reserve, record the intent, send.                                       *)
(***************************************************************************)

\* Mutant: a reservation is not saved until the send is known to have gone out.
MutSaveLater(n) == UNCHANGED disk

\* persist: the spend window is written through on every change.
persist(n) == disk' = n

\* reserve: the budget is claimed and saved, or nothing is.
reserve ==
    /\ at = "reserve"
    /\ \/ /\ spent < Ceiling
          /\ spent' = spent + 1
          /\ persist(spent + 1)
          /\ at' = "intent"
          /\ left' = Current.rounds
          /\ UNCHANGED <<todo, kept, budget>>
       \/ /\ spent >= Ceiling
          /\ Advance(<<Current>>)
          /\ UNCHANGED <<spent, disk, budget>>
       \/ /\ Fault("disk")
          /\ Advance(<<Current>>)
          /\ UNCHANGED <<spent, disk>>
    /\ UNCHANGED <<rail, queue, dead, guards, paid, batch, won, chain>>

\* Mutant: a token is released twice, as if `settled` were not looked at.
MutReleaseTwice == spent' = spent - 2 /\ disk' = spent - 2

\* release: the budget goes back, in the file too unless its write fails.
release == spent' = spent - 1 /\ disk' \in {spent - 1, disk}

\* recordEntryIntent, one awaited insert at a time; an existing row is left alone.
\* An insert that fails, its row written or not, gives the send up for this pass.
recordIntent ==
    LET r == Min(left)
        row == IF marker[r] = "none" THEN "intent" ELSE marker[r]
    IN  /\ at = "intent"
        /\ \/ /\ marker' = [marker EXCEPT ![r] = row]
              /\ left' = left \ {r}
              /\ at' = IF left = {r} THEN "send" ELSE "intent"
              /\ UNCHANGED <<spent, disk, todo, kept, budget>>
           \/ /\ Fault("db")
              /\ marker' \in {marker, [marker EXCEPT ![r] = row]}
              /\ release
              /\ Advance(<<Current>>)
        /\ UNCHANGED <<rail, queue, dead, published, quarantined, pruning, restoring, clearing,
                       forgotten, paid, batch, won, chain>>

\* The wire is handed to the broadcast hook: the node takes it and the hook
\* answers; takes it and the answer is lost; or does not take it.
broadcast(outcome) ==
    LET reaches == outcome # "refused"
    IN  /\ at = "send"
        /\ at' = outcome
        /\ IF outcome = "accepted" THEN UNCHANGED budget ELSE Fault("send")
        /\ chain' = IF reaches THEN Append(chain, Current.rounds) ELSE chain
        /\ paid' = IF reaches THEN paid + 1 ELSE paid
        /\ UNCHANGED <<rail, queue, dead, guards, disk, spent, batch, todo, left, kept, won>>

\* notePublishedEntry: the hook answered with a txid.
notePublished ==
    /\ at = "accepted"
    /\ published' = published \cup Current.rounds
    /\ at' = "mark"
    /\ left' = Current.rounds
    /\ won' = Max(Current.rounds)
    /\ UNCHANGED <<rail, queue, dead, marker, quarantined, pruning, restoring, clearing, forgotten,
                   spend, batch, todo, kept, chain, budget>>

\* markPublished, one awaited update at a time, best effort.  It updates no row if
\* the row is gone.
markPublished ==
    LET r == Min(left)
        row == IF marker[r] = "none" THEN "none" ELSE "sent"
    IN  /\ at = "mark"
        /\ \/ marker' = [marker EXCEPT ![r] = row] /\ UNCHANGED budget
           \/ Fault("db") /\ UNCHANGED marker
        /\ IF left = {r} THEN Advance(<<>>)
                         ELSE left' = left \ {r} /\ UNCHANGED <<at, todo, kept>>
        /\ UNCHANGED <<rail, queue, dead, published, quarantined, pruning, restoring, clearing,
                       forgotten, spend, batch, won, chain>>

\* handlePublishFailure, ambiguous: the wire may be on chain.  The spend stands and
\* the entry is dead-lettered, its intent rows kept.
ambiguousSend ==
    /\ at \in {"unknown", "refused"}
    /\ deadLetter(Current.rounds)
    /\ Advance(<<>>)
    /\ UNCHANGED <<rail, queue, guards, spend, batch, won, chain>>

Retried(e) == [rounds |-> e.rounds, attempts |-> e.attempts + 1]

\* handlePublishFailure, definitive: a node rejection keeps the intent rows and
\* requeues the entry; a send that never left withdraws its rows first.
definitiveFailure(neverSent) ==
    /\ at = "refused"
    /\ release
    /\ IF neverSent
       THEN at' = "withdraw" /\ left' = Current.rounds /\ UNCHANGED <<todo, kept>>
       ELSE Advance(<<Retried(Current)>>)
    /\ UNCHANGED <<rail, queue, dead, guards, paid, batch, won, chain, budget>>

\* withdrawNeverSentIntent, one awaited delete at a time, best effort; a sent row
\* is never deleted.
withdrawIntent ==
    LET r == Min(left)
        row == IF marker[r] = "intent" THEN "none" ELSE marker[r]
    IN  /\ at = "withdraw"
        /\ \/ marker' = [marker EXCEPT ![r] = row] /\ UNCHANGED budget
           \/ Fault("db") /\ UNCHANGED marker
        /\ IF left = {r} THEN Advance(<<Retried(Current)>>)
                         ELSE left' = left \ {r} /\ UNCHANGED <<at, todo, kept>>
        /\ UNCHANGED <<rail, queue, dead, published, quarantined, pruning, restoring, clearing,
                       forgotten, spend, batch, won, chain>>

-----------------------------------------------------------------------------
(***************************************************************************)
(* The end of a pass, and the two deletes of marker rows.                  *)
(***************************************************************************)

\* Mutant: the rewrite forgets the entries the pass kept.
MutForgetKept == <<>>

\* rebuildQueueAfterPass.  Nothing is enqueued while a pass runs, so what was read
\* afresh and is neither kept nor resolved is nothing.
Rebuilt == kept

\* prunePublishedRounds: a cutoff Retention rounds back, clamped to the queue.
Cutoff(q) == Min({won - Retention} \cup {Min(e.rounds) : e \in Range(q)})

\* The queue is rewritten and the in-process guard reset, or neither; a pass that
\* published starts a retention sweep.
rebuildQueue ==
    /\ at = "entry" /\ todo = <<>>
    /\ \/ queue' = Rebuilt /\ published' = {} /\ UNCHANGED budget
       \/ Fault("disk") /\ UNCHANGED <<queue, published>>
    /\ pruning' = pruning \cup
          IF won > 0 /\ Cutoff(queue') > 0 THEN {Cutoff(queue')} ELSE {}
    /\ at' = "idle" /\ kept' = <<>> /\ won' = 0
    /\ UNCHANGED <<rail, dead, marker, quarantined, restoring, clearing, forgotten, spend,
                   batch, todo, left, chain>>

\* Delete the marker rows of `rounds`.
Forget(rounds) ==
    /\ marker' = [r \in Rounds |-> IF r \in rounds THEN "none" ELSE marker[r]]
    /\ forgotten' = [r \in Rounds |->
          IF r \in rounds /\ marker[r] # "none" THEN forgotten[r] + 1 ELSE forgotten[r]]

\* The rows a retention sweep deletes: confirmed ones only.
Prunable(cutoff) == {r \in Rounds : r < cutoff /\ marker[r] = "sent"}

\* The retention sweep's delete, which nothing waits for.
prunePublishedRounds(cutoff) ==
    /\ cutoff \in pruning
    /\ Forget(Prunable(cutoff))
    /\ pruning' = pruning \ {cutoff}
    /\ UNCHANGED <<rail, queue, dead, published, quarantined, restoring, clearing, spend, pass,
                   chain, budget>>

\* noteBatchLanded: a batch covering the rounds from `first` to `last` is on chain.
\* They are shed, and windows left empty are done with.
noteBatchLanded(wire) ==
    LET covered == Min(wire)..Max(wire)
        rest == buffer \ covered
        over == {w \in WindowOf(Min(wire))..WindowOf(Max(wire)) : rest \cap WindowRounds(w) = {}}
    IN  /\ landed' = landed \cup wire
        /\ buffer' = rest
        /\ shed' = shed \cup (buffer \cap covered)
        /\ assembled' = assembled \cup over
        /\ armed' = armed \ over
        /\ UNCHANGED <<finalized, queue, dead, guards, spend, pass, chain, budget>>

\* The batches that may land: this hub's own, or a followed window's by its leader.
Landable ==
    Range(chain) \cup
    {finalized \cap WindowRounds(w) : w \in {v \in Windows \ Led : Closed(v)}}

\* clearPublishedMarkers: a reorg took the batch back.  The suppressors in memory are
\* lifted, except the record that the rounds were shed; their rows are read.
clearPublishedMarkers(wire) ==
    /\ wire \subseteq landed
    /\ Fault("retract")
    /\ landed' = landed \ wire
    /\ published' = published \ wire
    /\ assembled' = assembled \ {WindowOf(r) : r \in wire}
    /\ restoring' = restoring \cup {wire}
    /\ UNCHANGED <<finalized, buffer, shed, armed, queue, dead, marker, quarantined, pruning,
                   clearing, forgotten, spend, pass, chain>>

\* The rounds are buffered again, unless their read fails, and the delete of their
\* marker rows is awaited.
restoreBufferedRounds(wire) ==
    /\ wire \in restoring
    /\ buffer' \in {buffer, buffer \cup (wire \cap finalized)}
    /\ restoring' = restoring \ {wire}
    /\ clearing' = clearing \cup {wire}
    /\ UNCHANGED <<finalized, shed, assembled, armed, landed, queue, dead, marker, published,
                   quarantined, pruning, forgotten, spend, pass, chain, budget>>

clearMarkerRows(wire) ==
    /\ wire \in clearing
    /\ Forget(wire)
    /\ clearing' = clearing \ {wire}
    /\ UNCHANGED <<rail, queue, dead, published, quarantined, pruning, restoring, spend, pass,
                   chain, budget>>

\* The spends of the window age out.  One in flight is still in the window.
windowRolls ==
    /\ at \notin {"intent", "send", "accepted", "unknown", "refused"}
    /\ Fault("roll")
    /\ spent' = 0 /\ disk' = 0 /\ paid' = 0
    /\ UNCHANGED <<rail, queue, dead, guards, pass, chain>>

\* hydratePublishedMarkers: the rounds whose row is confirmed, or only intended.
hydratePublishedMarkers(row) == {r \in Rounds : marker[r] = row}

\* The process dies and start() runs: the buffer, the saved spends and the marker
\* rows are loaded back, unless their read fails.
restart(hydrates) ==
    /\ Fault("crash")
    /\ assembled' = {} /\ armed' = {} /\ shed' = {}
    /\ spent' = disk
    /\ published' = IF hydrates THEN hydratePublishedMarkers("sent") ELSE {}
    /\ quarantined' = IF hydrates THEN hydratePublishedMarkers("intent") ELSE {}
    /\ pruning' = {} /\ restoring' = {} /\ clearing' = {}
    /\ at' = "idle" /\ batch' = {} /\ todo' = <<>> /\ left' = {} /\ kept' = <<>> /\ won' = 0
    /\ UNCHANGED <<finalized, buffer, landed, queue, dead, marker, forgotten, disk, paid,
                   chain>>

-----------------------------------------------------------------------------
Assemble ==
    \/ \E w \in Windows : \/ passOver(w) \/ assembleWindow(w) \/ retireExhaustedWindow(w)
                           \/ declineTakeover(w) \/ runTakeoverAttempt(w)
    \/ signingFails
    \/ \E wires \in Splits(batch) : \E n \in 0..Len(wires) : enqueueWindowWires(wires, n)

Publish ==
    \/ \E open \in BOOLEAN : processQueue(open)
    \/ abandonEntry \/ dropEntry \/ beginEntry \/ readMarker
    \/ reserve \/ recordIntent
    \/ \E outcome \in {"accepted", "unknown", "refused"} : broadcast(outcome)
    \/ notePublished \/ markPublished
    \/ ambiguousSend \/ withdrawIntent
    \/ \E neverSent \in BOOLEAN : definitiveFailure(neverSent)
    \/ rebuildQueue

Next ==
    \/ \E r \in Rounds : onRoundFinalized(r)
    \/ Assemble
    \/ Publish
    \/ \E cutoff \in pruning : prunePublishedRounds(cutoff)
    \/ \E wire \in Landable \ {{}} : noteBatchLanded(wire) \/ clearPublishedMarkers(wire)
    \/ \E wire \in restoring : restoreBufferedRounds(wire)
    \/ \E wire \in clearing : clearMarkerRows(wire)
    \/ windowRolls
    \/ \E hydrates \in BOOLEAN : restart(hydrates)

Spec == Init /\ [][Next]_vars

-----------------------------------------------------------------------------
(***************************************************************************)
(* Properties.                                                             *)
(***************************************************************************)

\* Every variable keeps its shape.
TypeOK ==
    /\ finalized \subseteq Rounds /\ buffer \subseteq Rounds /\ landed \subseteq Rounds
    /\ shed \subseteq Rounds
    /\ assembled \subseteq Nat /\ armed \subseteq Nat
    /\ queue \in Seq(Entry) /\ todo \in Seq(Entry) /\ kept \in Seq(Entry)
    /\ dead \subseteq DeadLetter
    /\ marker \in [Rounds -> {"none", "intent", "sent"}]
    /\ published \subseteq Rounds /\ quarantined \subseteq Rounds
    /\ pruning \subseteq Nat /\ restoring \subseteq Wire /\ clearing \subseteq Wire
    /\ disk \in Nat /\ spent \in Nat /\ paid \in Nat
    /\ at \in Places
    /\ batch \subseteq Rounds /\ left \subseteq Rounds
    /\ won \in Rounds \cup {0}
    /\ chain \in Seq(Wire)
    /\ forgotten \in [Rounds -> Nat]
    /\ budget \in [FaultKinds -> Nat]

Sends(r) == Cardinality({i \in DOMAIN chain : r \in chain[i]})

\* No round is paid for twice (publish_entry.js: a double DOGE spend is unreachable):
\* each time a retraction or the retention sweep deletes its marker row, and only
\* then, it may be sent once more.  Through crashes at every await, failed reads,
\* inserts, updates and queue rewrites, lost answers, takeovers and other splits.
SentOnce == \A r \in Rounds : Sends(r) <= 1 + forgotten[r]

\* The wires paid for in a spend window never exceed its ceiling, however often the
\* process restarts in it (spend_guard.js: the window survives a restart).
WithinCeiling == paid <= Ceiling

\* A queue entry leaves the durable queue only once it is dead-lettered, its
\* dead-letter write was tried and failed, or a wire of its window reached the node
\* (publish_pass.js: the rebuild never loses an entry).
NoEntryLost ==
    [][\A e \in Range(queue) :
          \/ \E f \in Range(queue') : f.rounds = e.rounds
          \/ \E d \in dead : d.rounds = e.rounds
          \/ \E i \in DOMAIN chain : WindowOf(Min(chain[i])) = WindowOf(Min(e.rounds))]_vars

=============================================================================
