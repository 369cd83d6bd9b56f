---------------------------- MODULE RelayLedger ----------------------------
(***************************************************************************)
(* How one hub keeps the ledger row of a relayed item while the chain the  *)
(* item came from may reorganize.                                          *)
(*                                                                         *)
(* rail = "bridge": a transfer leg and its row of bridge_transfers         *)
(* (cross_chain/bridge/).  rail = "call": a dispatch and its row of        *)
(* cross_chain_calls (cross_chain/call/).  Both rails poll the indexer,    *)
(* run a round of CrossChainPbft and write the finalized row; a reorg      *)
(* below the item retracts what was written from it.                       *)
(*                                                                         *)
(* The module follows one source action.  Each time the chain mines it     *)
(* again it has a higher push generation, and a reorg notice retracts the  *)
(* rows up to the generation it removed.  Every await of a handler is a    *)
(* step of its own; a statement sent to the database takes effect between  *)
(* the step that sends it and the one that sees its result.                *)
(***************************************************************************)
EXTENDS Integers, FiniteSets

CONSTANTS
    Rails,          \* the rails a behaviour may be about: "bridge", "call"
    NoItem,
    \* bounds of the model
    MaxGen,         \* the source action is mined in generations 1..MaxGen
    MaxLedgerFaults \* awaits that fail, rounds abandoned, notices sent twice,
                    \* crashes

VARIABLES
    rail,           \* the rail of this behaviour
    leg,            \* the source chain: is the action there, its generation, and
                    \* is a call past its deadline_block
    reorgNotices,   \* reorg notices on their way: [gen, again]
    ledgerRow,      \* the row in the database, or NoItem
    guarded,        \* _inflight, _inflightSourceLegs: a round is under way
    roundState,     \* the round of the id: none, open, final
    roundGen,       \* the generation of the row it carries
    polled,         \* a poll that admitted the leg and goes on: its generation
    rowWrites,      \* _pendingWrites: finalize writes under way
    retractions,    \* retractions under way
    fence,          \* _retractionFence
    fenceSeq,       \* _retractionSeq
    answered,       \* history: the retractions carried out, by their fence entry
    ledgerFaults    \* faults that may still happen

lvars == <<rail, leg, reorgNotices, ledgerRow, guarded, roundState, roundGen,
           polled, rowWrites, retractions, fence, fenceSeq, answered, ledgerFaults>>

LiveRow == ledgerRow # NoItem /\ ledgerRow.status = "finalized"

LedgerFault == ledgerFaults > 0 /\ ledgerFaults' = ledgerFaults - 1

-----------------------------------------------------------------------------
(***************************************************************************)
(* The source chain, as the indexer reports it.                            *)
(***************************************************************************)

\* A reorg takes the action off the chain; the notice names its generation, and
\* may be sent a second time.
ChainReorgs ==
    /\ leg.on
    /\ leg' = [leg EXCEPT !.on = FALSE]
    /\ LET notice(i) == [gen |-> leg.gen, again |-> i]
       IN  \/ reorgNotices' = reorgNotices \cup {notice(0)} /\ UNCHANGED ledgerFaults
           \/ LedgerFault /\ reorgNotices' = reorgNotices \cup {notice(0), notice(1)}
    /\ UNCHANGED <<ledgerRow, guarded, roundState, roundGen, polled,
                   rowWrites, retractions, fence, fenceSeq, answered>>

ChainMinesAgain ==
    /\ ~leg.on /\ leg.gen < MaxGen
    /\ leg' = [on |-> TRUE, gen |-> leg.gen + 1, late |-> FALSE]
    /\ UNCHANGED <<reorgNotices, ledgerRow, guarded, roundState, roundGen,
                   polled, rowWrites, retractions, fence, fenceSeq, answered, ledgerFaults>>

\* The chain reaches the deadline of a call.
CallExpires ==
    /\ rail = "call" /\ leg.on /\ ~leg.late
    /\ leg' = [leg EXCEPT !.late = TRUE]
    /\ UNCHANGED <<reorgNotices, ledgerRow, guarded, roundState, roundGen,
                   polled, rowWrites, retractions, fence, fenceSeq, answered, ledgerFaults>>

-----------------------------------------------------------------------------
(***************************************************************************)
(* Polling and the round.                                                  *)
(***************************************************************************)

\* admitTransferLeg: no round under way and no live row of the leg.
admitTransferLeg ==
    /\ rail = "bridge"
    /\ polled = 0 /\ leg.on /\ ~guarded /\ ~LiveRow
    /\ polled' = leg.gen
    /\ UNCHANGED <<leg, reorgNotices, ledgerRow, guarded, roundState, roundGen,
                   rowWrites, retractions, fence, fenceSeq, answered, ledgerFaults>>

\* maybeDispatch, up to its awaits: a late dispatch would be wasted.
maybeDispatch ==
    /\ rail = "call"
    /\ polled = 0 /\ leg.on /\ ~leg.late /\ ~guarded /\ ~LiveRow
    /\ polled' = leg.gen
    /\ UNCHANGED <<leg, reorgNotices, ledgerRow, guarded, roundState, roundGen,
                   rowWrites, retractions, fence, fenceSeq, answered, ledgerFaults>>

\* The row is built: guard the leg and propose.  propose is a no-op while the
\* id has a live or a finalized round.
maybeFinalizeTransfer ==
    /\ polled # 0
    /\ polled' = 0
    /\ guarded' = TRUE
    /\ IF roundState = "none" THEN roundState' = "open" /\ roundGen' = polled
                              ELSE UNCHANGED <<roundState, roundGen>>
    /\ UNCHANGED <<leg, reorgNotices, ledgerRow, rowWrites, retractions,
                   fence, fenceSeq, answered, ledgerFaults>>

\* match:abandoned: the round timed out, and a later poll proposes again.
RoundAbandoned ==
    /\ LedgerFault
    /\ roundState = "open"
    /\ roundState' = "none"
    /\ guarded' = FALSE
    /\ UNCHANGED <<leg, reorgNotices, ledgerRow, roundGen, polled,
                   rowWrites, retractions, fence, fenceSeq, answered>>

\* match:finalized, and writeFinalizedTransfer or writeFinalizedRow up to its
\* first await: the write is registered with the fence's sequence of now.
writeFinalizedTransfer ==
    /\ roundState = "open"
    /\ roundState' = "final"
    /\ rowWrites' = rowWrites \cup {[gen |-> roundGen, start |-> fenceSeq, step |-> "snapshot",
                                     wrote |-> FALSE]}
    /\ UNCHANGED <<leg, reorgNotices, ledgerRow, guarded, roundGen, polled,
                   retractions, fence, fenceSeq, answered, ledgerFaults>>

-----------------------------------------------------------------------------
(***************************************************************************)
(* The retraction fence.                                                   *)
(***************************************************************************)

\* retractionCovers: the action index always matches here.
Covers(entry, gen) == gen <= entry.gen

retractedSince(write) == \E e \in fence : e.seq > write.start /\ Covers(e, write.gen)

\* pruneRetractionFence: entries older than every pending write serve no one.
Pruned(entries, writes, seq) ==
    {e \in entries : \E w \in writes : w.start < e.seq /\ w.start <= seq}

\* A write is over: its token goes, the fence is pruned.
EndWrite(w) ==
    /\ rowWrites' = rowWrites \ {w}
    /\ fence' = Pruned(fence, rowWrites \ {w}, fenceSeq)

StepWrite(w, next) ==
    /\ rowWrites' = (rowWrites \ {w}) \cup {next}
    /\ UNCHANGED fence

\* Mutant: the guard is released, the round stays retired in consensus.
MutDeferGuardOnly ==
    /\ guarded' = FALSE
    /\ UNCHANGED roundState

\* defer / deferFinalize: release the guard and have consensus forget the
\* round, whatever it is doing by now.
defer ==
    /\ guarded' = FALSE
    /\ roundState' = "none"

-----------------------------------------------------------------------------
(***************************************************************************)
(* The finalize write.                                                     *)
(***************************************************************************)

\* persistSnapshotOrDefer: the snapshot is stored, or the write is given up.
persistSnapshot ==
    \E w \in rowWrites :
        /\ w.step = "snapshot"
        /\ \/ /\ StepWrite(w, [w EXCEPT !.step = "chain"])
              /\ UNCHANGED <<guarded, roundState, ledgerFaults>>
           \/ LedgerFault /\ defer /\ EndWrite(w)
        /\ UNCHANGED <<leg, reorgNotices, ledgerRow, roundGen, polled,
                       retractions, fenceSeq, answered>>

\* resolveBtcChainId answered; the fence is looked at before the row is sent.
sendRow ==
    \E w \in rowWrites :
        /\ w.step = "chain"
        /\ IF retractedSince(w) THEN defer /\ EndWrite(w)
           ELSE StepWrite(w, [w EXCEPT !.step = "insert"]) /\ UNCHANGED <<guarded, roundState>>
        /\ UNCHANGED <<leg, reorgNotices, ledgerRow, roundGen, polled,
                       retractions, fenceSeq, answered, ledgerFaults>>

Stored(w) == [gen |-> w.gen, start |-> w.start, status |-> "finalized"]

\* The database runs insertBridgeTransfer: a new row, or a retracted one
\* revived; a live row stays as it is.
insertBridgeTransfer(w) ==
    IF LiveRow THEN [row |-> ledgerRow, wrote |-> FALSE]
               ELSE [row |-> Stored(w), wrote |-> TRUE]

\* setCrossChainCallFinalized overwrites whatever is there.
setCrossChainCallFinalized(w) == [row |-> Stored(w), wrote |-> TRUE]

DatabaseWrites ==
    \E w \in rowWrites :
        /\ w.step = "insert"
        /\ LET result == IF rail = "bridge" THEN insertBridgeTransfer(w)
                                            ELSE setCrossChainCallFinalized(w)
           IN  /\ ledgerRow' = result.row
               /\ StepWrite(w, [w EXCEPT !.step = "inserted", !.wrote = result.wrote])
        /\ UNCHANGED <<leg, reorgNotices, guarded, roundState, roundGen, polled,
                       retractions, fenceSeq, answered, ledgerFaults>>

WriteFails ==
    \E w \in rowWrites :
        /\ w.step = "insert"
        /\ LedgerFault /\ defer /\ EndWrite(w)
        /\ UNCHANGED <<leg, reorgNotices, ledgerRow, roundGen, polled,
                       retractions, fenceSeq, answered>>

\* The bridge looks at the fence once more when the insert returns.
TakenBackMeanwhile(w) == rail = "bridge" /\ retractedSince(w)

\* The rest of writeFinalizedTransferFenced: release the guard, and mirror the
\* row if it was written.
writeFinalizedTransferFenced ==
    \E w \in rowWrites :
        /\ w.step = "inserted"
        /\ \/ TakenBackMeanwhile(w) /\ defer /\ EndWrite(w)
           \/ /\ ~TakenBackMeanwhile(w)
              /\ guarded' = FALSE
              /\ IF w.wrote THEN StepWrite(w, [w EXCEPT !.step = "mirror"]) ELSE EndWrite(w)
              /\ UNCHANGED roundState
        /\ UNCHANGED <<leg, reorgNotices, ledgerRow, roundGen, polled,
                       retractions, fenceSeq, answered, ledgerFaults>>

\* mirrorRow streams the row as it reads it back to the indexers; until then the
\* write counts as under way.
mirrorRow ==
    \E w \in rowWrites :
        /\ w.step = "mirror"
        /\ EndWrite(w)
        /\ UNCHANGED <<leg, reorgNotices, ledgerRow, guarded, roundState, roundGen, polled,
                       retractions, fenceSeq, answered, ledgerFaults>>

-----------------------------------------------------------------------------
(***************************************************************************)
(* Retracting.                                                             *)
(***************************************************************************)

\* recordRetraction, the first turn of a retraction.
recordRetraction ==
    \E n \in reorgNotices :
        LET entry == [seq |-> fenceSeq + 1, gen |-> n.gen]
        IN  /\ reorgNotices' = reorgNotices \ {n}
            /\ fenceSeq' = fenceSeq + 1
            /\ fence' = Pruned(fence \cup {entry}, rowWrites, fenceSeq + 1)
            /\ retractions' = retractions \cup {[entry |-> entry, step |-> "wait"]}
            /\ UNCHANGED <<leg, ledgerRow, guarded, roundState, roundGen, polled,
                           rowWrites, answered, ledgerFaults>>

\* Mutant: the bridge does not wait.
MutNoWait(entry) == TRUE

\* waitForCoveredWrites, of the bridge: every write that started before the
\* retraction and is covered by it has ended.
waitForCoveredWrites(entry) ==
    rail = "bridge" => \A w \in rowWrites : ~(w.start < entry.seq /\ Covers(entry, w.gen))

FindRows ==
    \E r \in retractions :
        /\ r.step = "wait"
        /\ waitForCoveredWrites(r.entry)
        /\ IF LiveRow /\ Covers(r.entry, ledgerRow.gen)
           THEN /\ retractions' = (retractions \ {r}) \cup {[r EXCEPT !.step = "update"]}
                /\ UNCHANGED answered
           ELSE /\ retractions' = retractions \ {r}
                /\ answered' = answered \cup {r.entry}
        /\ UNCHANGED <<leg, reorgNotices, ledgerRow, guarded, roundState, roundGen,
                       polled, rowWrites, fence, fenceSeq, ledgerFaults>>

\* updateBridgeTransfer goes by the transfer id; the statement of the calls
\* names the generations again.
Retracts(r) == rail = "bridge" \/ (LiveRow /\ Covers(r.entry, ledgerRow.gen))

\* The database marks the row retracted.
DatabaseRetracts ==
    \E r \in retractions :
        /\ r.step = "update"
        /\ ledgerRow' = IF Retracts(r) THEN [ledgerRow EXCEPT !.status = "retracted"] ELSE ledgerRow
        /\ retractions' = (retractions \ {r}) \cup {[r EXCEPT !.step = "release"]}
        /\ answered' = answered \cup {r.entry}
        /\ UNCHANGED <<leg, reorgNotices, guarded, roundState, roundGen, polled, rowWrites,
                       fence, fenceSeq, ledgerFaults>>

\* The rest of retractTransfersForReorg: the guard is released and the round of
\* the id forgotten, whatever they are of by now; the indexers are told to drop
\* the row.
retractTransfersForReorg ==
    \E r \in retractions :
        /\ r.step = "release"
        /\ defer
        /\ retractions' = retractions \ {r}
        /\ UNCHANGED <<leg, reorgNotices, ledgerRow, roundGen, polled, rowWrites,
                       fence, fenceSeq, answered, ledgerFaults>>

-----------------------------------------------------------------------------

\* The process dies; the notices it was working on are sent again.  The fence
\* starts over, with no write left to compare its numbers with.
Crash ==
    /\ LedgerFault
    /\ polled' = 0 /\ guarded' = FALSE /\ roundState' = "none"
    /\ rowWrites' = {} /\ retractions' = {} /\ fence' = {}
    /\ reorgNotices' = reorgNotices \cup {[gen |-> r.entry.gen, again |-> 0] : r \in retractions}
    /\ UNCHANGED <<leg, ledgerRow, roundGen, fenceSeq, answered>>

LInit ==
    /\ rail \in Rails
    /\ leg = [on |-> TRUE, gen |-> 1, late |-> FALSE]
    /\ reorgNotices = {}
    /\ ledgerRow = NoItem
    /\ guarded = FALSE /\ roundState = "none" /\ roundGen = 1 /\ polled = 0
    /\ rowWrites = {} /\ retractions = {} /\ fence = {} /\ fenceSeq = 0
    /\ answered = {}
    /\ ledgerFaults = MaxLedgerFaults

Steps ==
    \/ admitTransferLeg \/ maybeDispatch \/ maybeFinalizeTransfer
    \/ writeFinalizedTransfer \/ persistSnapshot \/ sendRow \/ DatabaseWrites
    \/ writeFinalizedTransferFenced \/ mirrorRow
    \/ recordRetraction \/ FindRows \/ DatabaseRetracts \/ retractTransfersForReorg

LNext ==
    \/ Steps
    \/ ChainReorgs \/ ChainMinesAgain \/ CallExpires
    \/ RoundAbandoned \/ WriteFails \/ Crash

LSpec == LInit /\ [][LNext /\ UNCHANGED rail]_lvars

-----------------------------------------------------------------------------
(***************************************************************************)
(* Properties.                                                             *)
(***************************************************************************)

\* A row whose write was under way when its retraction came is not live once
\* the retraction is through.  The calls' writeFinalizedRow looks at the fence in
\* the "last gate before the insert, after every await on this path".
StaysRetracted ==
    LiveRow => ~\E e \in answered : ledgerRow.start < e.seq /\ Covers(e, ledgerRow.gen)

\* On the bridge that holds: the fence and the wait of retractTransfersForReorg
\* keep a finalize write from resurrecting what the reorg removed.
BridgeStaysRetracted == rail = "bridge" => StaysRetracted

\* A leg that stays on the chain, and is no call past its deadline, is live in the
\* ledger sooner or later, in spite of failed writes, abandoned rounds and crashes.
RelayedEventually == <>[](leg.on /\ ~leg.late) => <>[](LiveRow)
=============================================================================
