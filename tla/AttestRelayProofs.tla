------------------------- MODULE AttestRelayProofs --------------------------
(***************************************************************************)
(* A leg the log speaks for is paid for once, for every set of legs, every *)
(* deadline, grace window and reorg depth, and every number of crashes,    *)
(* lost records, refusals and reorgs.                                      *)
(*                                                                         *)
(* Within a process a leg has one round, and of the two drivers only one   *)
(* sends its wire at a time.  Across a crash a leg that was paid for must  *)
(* be suppressed by the log; but the log forgets legs past their horizon,  *)
(* and then it is the origin chain that keeps them from being relayed: no  *)
(* reorg the relay honours takes its tip back to where they are listed. The*)
(* invariant says for each leg which of the three holds.                   *)
(***************************************************************************)
EXTENDS AttestRelay, TLAPS

RelayShapes ==
    /\ relayLog \in [LegKeys -> SUBSET {"intent", "sent", "failed"}]
    /\ wire = [k \in LegKeys |-> wire[k]]
    /\ sends \in [LegKeys -> {"idle", "open", "taken"}]
    /\ paid \in [LegKeys -> Nat]

\* The tip is within a reorg of its peak; no round outlives the horizon.
HorizonInv ==
    /\ tip \in Nat /\ peak \in Nat /\ latest \in Nat
    /\ tip <= peak /\ peak <= tip + Confirmations /\ latest <= peak
    /\ \A k \in LegKeys : k \in legRounds => peak <= Deadline[k[2]] + EvictGrace + Confirmations

\* A process runs one round of a leg, and sends only what one has finalized.
OneRound(k) ==
    /\ k \in legRounds => k \notin roundsDone
    /\ wire[k] # NoWire => k \in roundsDone
    /\ sends[k] # "idle" => k \in roundsDone /\ k \notin published

OneRoundInv == \A k \in LegKeys : OneRound(k)

\* The leg is past its deadline and the grace window for good, and nothing of it
\* is left.
Over(k) == peak > Deadline[k[2]] + EvictGrace + Confirmations /\ k \notin legRounds /\ wire[k] = NoWire

Logged(k) == relayLog[k] # {} /\ "failed" \notin relayLog[k]

\* What keeps a leg from being paid for twice.
Spoken(k) ==
    /\ "failed" \notin relayLog[k]
    /\ sends[k] = "open" => paid[k] = 0 /\ Logged(k)
    /\ sends[k] = "taken" => paid[k] = 1 /\ Logged(k)
    /\ paid[k] \in {0, 1}
    /\ paid[k] # 0 => \/ k \in published /\ Logged(k)
                      \/ sends[k] = "taken"
                      \/ Over(k)

SpokenInv == \A k \in LegKeys \ exposed : Spoken(k)

RelayInv == RelayShapes /\ HorizonInv /\ OneRoundInv /\ SpokenInv

-----------------------------------------------------------------------------

\* The initial states satisfy the invariant.
LEMMA InitRelayInv == AInit => RelayInv
  BY HorizonAssumption DEF AInit, RelayInv, RelayShapes, HorizonInv, OneRoundInv, OneRound, SpokenInv,
                           Spoken

\* A leg a step does not touch stays spoken for.
LEMMA SpokenFrame ==
    ASSUME NEW k, Spoken(k), relayLog'[k] = relayLog[k], sends'[k] = sends[k], paid'[k] = paid[k],
           k \in published => k \in published', Over(k) => Over(k)'
    PROVE  Spoken(k)'
  BY DEF Spoken, Logged

\* The end of a leg is final while its rounds and wires do not come back.
LEMMA OverFrame ==
    ASSUME HorizonInv, peak' \in Nat, peak <= peak', NEW k \in LegKeys,
           k \in legRounds' => k \in legRounds, wire'[k] # NoWire => wire[k] # NoWire
    PROVE  Over(k) => Over(k)'
  BY HorizonAssumption DEF Over, HorizonInv

\* A leg the origin still lists is not over: its tip is within a reorg of the peak.
LEMMA RelayableNotOver ==
    ASSUME HorizonInv, NEW k \in LegKeys, Relayable(k)
    PROVE  ~Over(k) /\ peak <= Deadline[k[2]] + EvictGrace + Confirmations
  BY HorizonAssumption DEF Over, HorizonInv, Relayable

\* prepareLegSend and broadcast, of a leg no send of which is under way and which
\* is not over: the log speaks for it before the node can take it.
LEMMA BroadcastKeeps ==
    ASSUME RelayShapes, NEW k \in LegKeys, sends[k] = "idle", ~Over(k), broadcast(k),
           UNCHANGED <<published, paid>>
    PROVE  /\ relayLog' \in [LegKeys -> SUBSET {"intent", "sent", "failed"}]
           /\ sends' \in [LegKeys -> {"idle", "open", "taken"}]
           /\ \A j \in LegKeys \ {k} : relayLog'[j] = relayLog[j] /\ sends'[j] = sends[j]
           /\ sends'[k] # "idle" => k \notin published
           /\ Spoken(k) => Spoken(k)'
<1>1. /\ relayLog' = relayLog \/ relayLog' = Recorded(k, "intent")
      /\ \/ sends' = sends
         \/ /\ k \notin published /\ relayLog' = Recorded(k, "intent")
            /\ sends' = [sends EXCEPT ![k] = "open"]
  BY DEF broadcast, diskvars
<1>2. /\ relayLog' \in [LegKeys -> SUBSET {"intent", "sent", "failed"}]
      /\ \A j \in LegKeys \ {k} : relayLog'[j] = relayLog[j]
      /\ relayLog'[k] = relayLog[k] \/ relayLog'[k] = relayLog[k] \cup {"intent"}
  BY <1>1 DEF RelayShapes, Recorded
<1>3. CASE sends' = sends
  <2>1. Spoken(k) => Spoken(k)'
    BY <1>2, <1>3 DEF Spoken, Logged
  <2>2. QED
    BY <1>2, <1>3, <2>1 DEF RelayShapes
<1>4. CASE /\ k \notin published /\ relayLog' = Recorded(k, "intent")
           /\ sends' = [sends EXCEPT ![k] = "open"]
  <2>1. sends'[k] = "open" /\ relayLog'[k] = relayLog[k] \cup {"intent"}
    BY <1>4 DEF RelayShapes, Recorded
  <2>2. Spoken(k) => Spoken(k)'
    BY <1>4, <2>1 DEF Spoken, Logged
  <2>3. QED
    BY <1>2, <1>4, <2>2 DEF RelayShapes
<1>5. QED
  BY <1>1, <1>3, <1>4

\* The record of an outcome leaves the other legs' records alone.
LEMMA AppendKeeps ==
    ASSUME RelayShapes, NEW k \in LegKeys, NEW phase \in {"sent", "failed"}, appendOutcome(k, phase)
    PROVE  /\ relayLog' \in [LegKeys -> SUBSET {"intent", "sent", "failed"}]
           /\ \A j \in LegKeys \ {k} : relayLog'[j] = relayLog[j]
           /\ relayLog'[k] = relayLog[k] \/ relayLog'[k] = relayLog[k] \cup {phase}
  BY DEF RelayShapes, appendOutcome, Recorded, diskvars

\* A compaction keeps a record of every live leg, and no "failed" that was not there.
LEMMA CompactedKeeps ==
    ASSUME RelayShapes, NEW live, relayLog' = Compacted(relayLog, live)
    PROVE  /\ relayLog' \in [LegKeys -> SUBSET {"intent", "sent", "failed"}]
           /\ \A k \in LegKeys : /\ k \in live => relayLog'[k] # {}
                                 /\ k \notin live => relayLog'[k] = {}
                                 /\ "failed" \in relayLog'[k] => "failed" \in relayLog[k]
<1>1. \A k \in LegKeys : relayLog'[k] = IF k \notin live THEN {}
                                        ELSE IF relayLog[k] = {} THEN {"sent"} ELSE {Outcome(relayLog, k)}
  BY DEF Compacted
<1>2. \A k \in LegKeys : relayLog[k] # {} =>
         /\ Outcome(relayLog, k) \in {"intent", "sent", "failed"}
         /\ Outcome(relayLog, k) = "failed" => "failed" \in relayLog[k]
  <2> SUFFICES ASSUME NEW k \in LegKeys, relayLog[k] # {}
               PROVE  /\ Outcome(relayLog, k) \in {"intent", "sent", "failed"}
                      /\ Outcome(relayLog, k) = "failed" => "failed" \in relayLog[k]
    OBVIOUS
  <2>1. relayLog[k] \subseteq {"intent", "sent", "failed"}
    BY DEF RelayShapes
  <2>2. CASE "sent" \in relayLog[k]
    BY <2>2 DEF Outcome
  <2>3. CASE "sent" \notin relayLog[k] /\ "failed" \in relayLog[k]
    BY <2>3 DEF Outcome
  <2>4. CASE "sent" \notin relayLog[k] /\ "failed" \notin relayLog[k]
    <3>1. relayLog[k] = {"intent"}
      BY <2>1, <2>4
    <3>2. QED
      BY <3>1 DEF Outcome
  <2>5. QED
    BY <2>2, <2>3, <2>4
<1>3. relayLog' = [k \in LegKeys |-> relayLog'[k]]
  BY DEF Compacted
<1>4. \A k \in LegKeys : relayLog'[k] \subseteq {"intent", "sent", "failed"}
  BY <1>1, <1>2
<1>5. QED
  BY <1>1, <1>2, <1>3, <1>4

\* loadWal marks every leg the log speaks for.
LEMMA LoggedSuppressed ==
    ASSUME RelayShapes, NEW k \in LegKeys, Logged(k)
    PROVE  k \in Suppressed(relayLog)
<1>1. "sent" \in relayLog[k] \/ relayLog[k] = {"intent"}
  BY DEF RelayShapes, Logged
<1>2. Outcome(relayLog, k) \in {"sent", "intent"}
  BY <1>1 DEF Outcome
<1>3. QED
  BY <1>2 DEF Suppressed

-----------------------------------------------------------------------------

\* A step that leaves log, wires, sends, payments and marks alone, and at most
\* ends rounds, keeps every leg spoken for.
LEMMA QuietSpoken ==
    ASSUME RelayInv, UNCHANGED <<relayLog, wire, sends, paid, published, exposed>>,
           peak' \in Nat, peak <= peak', \A k \in LegKeys : k \in legRounds' => k \in legRounds \/ ~Over(k)
    PROVE  RelayShapes' /\ SpokenInv'
<1>1. RelayShapes'
  BY DEF RelayInv, RelayShapes
<1>2. ASSUME NEW k \in LegKeys \ exposed PROVE Spoken(k)'
  <2>1. Over(k) => Over(k)'
    BY HorizonAssumption DEF RelayInv, HorizonInv, Over
  <2>2. QED
    BY <2>1, SpokenFrame DEF RelayInv, SpokenInv
<1>3. QED
  BY <1>1, <1>2 DEF SpokenInv

\* The steps of the rounds, the poll and the chains keep the invariant.
LEMMA QuietSteps ==
    ASSUME RelayInv,
           \/ \E k \in LegKeys : maybeRelay(k) \/ validateProposedMatch(k) \/ RoundAbandoned(k)
                                 \/ LegLands(k)
           \/ \E home, origin \in BOOLEAN : poll(home, origin)
           \/ sweepFinalized \/ OriginAdvances \/ OriginReorgs
           \/ UNCHANGED avars
    PROVE  RelayInv'
<1> USE DEF RelayInv, diskvars, hubvars, chainvars
<1>1. ASSUME NEW k \in LegKeys, maybeRelay(k) PROVE RelayInv'
  <2>1. /\ UNCHANGED <<relayLog, wire, sends, paid, published, exposed, peak, tip, latest, roundsDone>>
        /\ legRounds' \subseteq legRounds \cup {k} /\ Relayable(k)
        /\ k \in legRounds' => k \in legRounds \/ k \notin roundsDone
    BY <1>1 DEF maybeRelay, Fresh
  <2>2. HorizonInv'
    BY <2>1, RelayableNotOver DEF HorizonInv
  <2>3. RelayShapes' /\ SpokenInv'
    BY <2>1, RelayableNotOver, QuietSpoken DEF HorizonInv
  <2>4. OneRoundInv'
    BY <2>1 DEF OneRoundInv, OneRound
  <2>5. QED
    BY <2>2, <2>3, <2>4
<1>2. ASSUME NEW k \in LegKeys, validateProposedMatch(k) PROVE RelayInv'
  <2>1. /\ UNCHANGED <<relayLog, wire, sends, paid, published, exposed, peak, tip, roundsDone>>
        /\ legRounds' \subseteq legRounds \cup {k} /\ Relayable(k) /\ k \notin roundsDone
        /\ latest' = tip
    BY <1>2 DEF validateProposedMatch
  <2>2. HorizonInv'
    BY <2>1, RelayableNotOver DEF HorizonInv
  <2>3. RelayShapes' /\ SpokenInv'
    BY <2>1, RelayableNotOver, QuietSpoken DEF HorizonInv
  <2>4. OneRoundInv'
    BY <2>1 DEF OneRoundInv, OneRound
  <2>5. QED
    BY <2>2, <2>3, <2>4
<1>3. CASE \/ \E k \in LegKeys : RoundAbandoned(k) \/ LegLands(k)
           \/ \E home, origin \in BOOLEAN : poll(home, origin)
           \/ sweepFinalized \/ UNCHANGED avars
  <2>1. /\ UNCHANGED <<relayLog, wire, sends, paid, published, exposed, peak, tip, roundsDone>>
        /\ legRounds' \subseteq legRounds /\ latest' \in {latest, tip}
    BY <1>3 DEF RoundAbandoned, LegLands, poll, sweepFinalized, avars
  <2>2. HorizonInv'
    BY <2>1 DEF HorizonInv
  <2>3. RelayShapes' /\ SpokenInv'
    BY <2>1, QuietSpoken DEF HorizonInv
  <2>4. OneRoundInv'
    BY <2>1 DEF OneRoundInv, OneRound
  <2>5. QED
    BY <2>2, <2>3, <2>4
<1>4. CASE OriginAdvances
  <2>1. /\ UNCHANGED <<relayLog, wire, sends, paid, published, exposed, roundsDone, legRounds, latest>>
        /\ tip' = tip + 1 /\ peak' = IF peak < tip + 1 THEN tip + 1 ELSE peak
        /\ \A k \in legRounds : ~pastEvictionHorizon(k[2], tip + 1)
    BY <1>4 DEF OriginAdvances
  <2>2. HorizonInv'
    <3>1. /\ tip' \in Nat /\ peak' \in Nat /\ latest' \in Nat
          /\ tip' <= peak' /\ peak' <= tip' + Confirmations /\ latest' <= peak'
      BY <2>1, HorizonAssumption DEF HorizonInv
    <3>2. ASSUME NEW k \in LegKeys, k \in legRounds'
          PROVE  peak' <= Deadline[k[2]] + EvictGrace + Confirmations
      <4>1. tip + 1 <= Deadline[k[2]] + EvictGrace + Confirmations
        <5>1. ~(tip + 1 > 0 /\ tip + 1 > Deadline[k[2]] + EvictGrace + Confirmations)
          BY <2>1, <3>2 DEF pastEvictionHorizon
        <5>2. Deadline[k[2]] + EvictGrace + Confirmations \in Nat /\ tip \in Nat
          BY HorizonAssumption DEF HorizonInv
        <5>3. QED
          BY <5>1, <5>2
      <4>2. QED
        BY <2>1, <3>2, <4>1 DEF HorizonInv
    <3>3. QED
      BY <3>1, <3>2 DEF HorizonInv
  <2>3. RelayShapes' /\ SpokenInv'
    BY <2>1, QuietSpoken DEF HorizonInv
  <2>4. OneRoundInv'
    BY <2>1 DEF OneRoundInv, OneRound
  <2>5. QED
    BY <2>2, <2>3, <2>4
<1>5. CASE OriginReorgs
  <2>1. /\ UNCHANGED <<relayLog, wire, sends, paid, published, exposed, roundsDone, legRounds, latest,
                       peak>>
        /\ tip' = tip - 1 /\ tip > 1 /\ tip > peak - Confirmations
    BY <1>5 DEF OriginReorgs
  <2>2. HorizonInv'
    BY <2>1, HorizonAssumption DEF HorizonInv
  <2>3. RelayShapes' /\ SpokenInv'
    BY <2>1, QuietSpoken DEF HorizonInv
  <2>4. OneRoundInv'
    BY <2>1 DEF OneRoundInv, OneRound
  <2>5. QED
    BY <2>2, <2>3, <2>4
<1>6. QED
  BY <1>1, <1>2, <1>3, <1>4, <1>5

\* onRoundFinalized and the sweep, the two drivers that send.
LEMMA DriverSteps ==
    ASSUME RelayInv, NEW k \in LegKeys, sweepLeg(k) \/ \E rank \in Ranks : onRoundFinalized(k, rank)
    PROVE  RelayInv'
<1> USE DEF RelayInv
<1>1. UNCHANGED <<published, paid, exposed, tip, peak, latest>> /\ legRounds' \subseteq legRounds
  BY DEF sweepLeg, onRoundFinalized, chainvars
<1>2. HorizonInv'
  BY <1>1 DEF HorizonInv
<1>3. /\ wire' = [j \in LegKeys |-> wire'[j]]
      /\ \A j \in LegKeys \ {k} : wire'[j] = wire[j]
      /\ \A j \in LegKeys : j \in roundsDone => j \in roundsDone'
      /\ \A j \in LegKeys \ {k} : j \in roundsDone' => j \in roundsDone
      /\ legRounds' \cap {k} = {} \/ (UNCHANGED <<legRounds, roundsDone>>)
  BY DEF sweepLeg, onRoundFinalized, RelayShapes
<1>4. wire'[k] # NoWire => k \in roundsDone'
  BY DEF sweepLeg, onRoundFinalized, OneRoundInv, OneRound, RelayShapes
<1>5. ~Over(k)
  BY DEF sweepLeg, onRoundFinalized, Over
<1>6. \/ UNCHANGED <<relayLog, sends>>
      \/ sends[k] = "idle" /\ broadcast(k) /\ k \in roundsDone'
  BY DEF sweepLeg, onRoundFinalized, SweepWaits, OneRoundInv, OneRound, RelayShapes, diskvars
<1>7. /\ relayLog' \in [LegKeys -> SUBSET {"intent", "sent", "failed"}]
      /\ sends' \in [LegKeys -> {"idle", "open", "taken"}]
      /\ \A j \in LegKeys \ {k} : relayLog'[j] = relayLog[j] /\ sends'[j] = sends[j]
      /\ sends'[k] # "idle" => k \notin published /\ k \in roundsDone'
      /\ Spoken(k) => Spoken(k)'
  <2>1. CASE UNCHANGED <<relayLog, sends>>
    <3>1. Spoken(k) => Spoken(k)'
      BY <1>1, <1>5, <2>1, SpokenFrame
    <3>2. QED
      BY <1>3, <2>1, <3>1 DEF RelayShapes, OneRoundInv, OneRound
  <2>2. CASE sends[k] = "idle" /\ broadcast(k) /\ k \in roundsDone'
    BY <1>1, <1>5, <2>2, BroadcastKeeps
  <2>3. QED
    BY <1>6, <2>1, <2>2
<1>8. RelayShapes'
  BY <1>1, <1>3, <1>7 DEF RelayShapes
<1>9. OneRoundInv'
  <2>1. ASSUME NEW j \in LegKeys \ {k} PROVE OneRound(j)'
    BY <1>1, <1>3, <1>7, <2>1 DEF OneRoundInv, OneRound
  <2>2. OneRound(k)'
    BY <1>1, <1>3, <1>4, <1>7 DEF OneRoundInv, OneRound
  <2>3. QED
    BY <2>1, <2>2 DEF OneRoundInv
<1>10. SpokenInv'
  <2>1. ASSUME NEW j \in LegKeys \ exposed, j # k PROVE Spoken(j)'
    <3>1. Over(j) => Over(j)'
      BY <1>1, <1>3, <2>1 DEF Over
    <3>2. QED
      BY <1>1, <1>7, <2>1, <3>1, SpokenFrame DEF SpokenInv
  <2>2. QED
    BY <1>1, <1>7, <2>1 DEF SpokenInv
<1>11. QED
  BY <1>2, <1>8, <1>9, <1>10

\* The ends of a send.
LEMMA SendSteps ==
    ASSUME RelayInv, NEW k \in LegKeys,
           NodeTakes(k) \/ noteLegSent(k) \/ noteLegAmbiguous(k) \/ noteLegSendFailed(k)
    PROVE  RelayInv'
<1> USE DEF RelayInv
<1>1. UNCHANGED <<tip, peak, latest, legRounds, roundsDone>>
  BY DEF NodeTakes, noteLegSent, noteLegAmbiguous, noteLegSendFailed, chainvars
<1>2. HorizonInv'
  BY <1>1 DEF HorizonInv
<1>3. /\ relayLog' \in [LegKeys -> SUBSET {"intent", "sent", "failed"}]
      /\ \A j \in LegKeys \ {k} : relayLog'[j] = relayLog[j]
  BY AppendKeeps DEF NodeTakes, noteLegSent, noteLegAmbiguous, noteLegSendFailed, diskvars, RelayShapes
<1>4. /\ wire' = [j \in LegKeys |-> wire'[j]]
      /\ \A j \in LegKeys : wire'[j] = wire[j] \/ wire'[j] = NoWire
      /\ \A j \in LegKeys \ {k} : wire'[j] = wire[j]
  BY DEF NodeTakes, noteLegSent, noteLegAmbiguous, noteLegSendFailed, RelayShapes
<1>5. /\ sends' \in [LegKeys -> {"idle", "open", "taken"}]
      /\ \A j \in LegKeys \ {k} : sends'[j] = sends[j]
      /\ sends[k] # "idle"
      /\ sends'[k] # "idle" => k \notin published'
  BY DEF NodeTakes, noteLegSent, noteLegAmbiguous, noteLegSendFailed, RelayShapes, OneRoundInv, OneRound
<1>6. /\ paid' \in [LegKeys -> Nat]
      /\ \A j \in LegKeys \ {k} : paid'[j] = paid[j]
  BY DEF NodeTakes, noteLegSent, noteLegAmbiguous, noteLegSendFailed, RelayShapes, chainvars
<1>7. /\ published \subseteq published' /\ published' \subseteq published \cup {k}
      /\ exposed \subseteq exposed'
  BY DEF NodeTakes, noteLegSent, noteLegAmbiguous, noteLegSendFailed
<1>8. RelayShapes'
  BY <1>3, <1>4, <1>5, <1>6 DEF RelayShapes
<1>9. OneRoundInv'
  BY <1>1, <1>4, <1>5, <1>7 DEF OneRoundInv, OneRound
<1>10. ASSUME NEW j \in LegKeys \ exposed', j # k PROVE Spoken(j)'
  <2>1. Over(j) => Over(j)'
    BY <1>1, <1>4, <1>10 DEF Over
  <2>2. QED
    BY <1>3, <1>5, <1>6, <1>7, <1>10, <2>1, SpokenFrame DEF SpokenInv
<1>11. ASSUME k \notin exposed' PROVE Spoken(k)'
  <2>1. Spoken(k)
    BY <1>7, <1>11 DEF SpokenInv
  <2>2. CASE NodeTakes(k)
    <3>1. sends[k] = "open" /\ sends'[k] = "taken" /\ paid'[k] = paid[k] + 1 /\ UNCHANGED relayLog
      BY <2>2 DEF NodeTakes, diskvars, RelayShapes
    <3>2. QED
      BY <2>1, <3>1 DEF Spoken, Logged
  <2>3. CASE noteLegSent(k)
    <3>1. sends[k] = "taken" /\ sends'[k] = "idle" /\ k \in published' /\ UNCHANGED paid
      BY <2>3 DEF noteLegSent, RelayShapes, chainvars
    <3>2. relayLog'[k] = relayLog[k] \/ relayLog'[k] = relayLog[k] \cup {"sent"}
      BY <2>3, AppendKeeps DEF noteLegSent
    <3>3. QED
      BY <2>1, <3>1, <3>2 DEF Spoken, Logged
  <2>4. CASE noteLegAmbiguous(k)
    <3>1. /\ sends'[k] = "idle" /\ k \in published'
          /\ paid'[k] = paid[k] \/ (sends[k] = "open" /\ paid'[k] = paid[k] + 1)
      BY <2>4 DEF noteLegAmbiguous, RelayShapes
    <3>2. relayLog'[k] = relayLog[k] \/ relayLog'[k] = relayLog[k] \cup {"sent"}
      BY <2>4, AppendKeeps DEF noteLegAmbiguous
    <3>3. Logged(k) /\ sends[k] \in {"open", "taken"}
      BY <1>5, <2>1 DEF Spoken, RelayShapes
    <3>4. QED
      BY <2>1, <3>1, <3>2, <3>3 DEF Spoken, Logged
  <2>5. CASE noteLegSendFailed(k)
    <3>1. sends[k] = "open" /\ sends'[k] = "idle" /\ UNCHANGED paid /\ "failed" \notin relayLog'[k]
      BY <1>11, <2>5 DEF noteLegSendFailed, RelayShapes, chainvars
    <3>2. QED
      BY <2>1, <3>1 DEF Spoken, Logged
  <2>6. QED
    BY <2>2, <2>3, <2>4, <2>5
<1>12. QED
  BY <1>2, <1>8, <1>9, <1>10, <1>11 DEF SpokenInv

-----------------------------------------------------------------------------

\* What evictExpired forgets is over: the latest height it read is no higher than
\* the peak, and no round of such a leg is left.
LEMMA GoneIsOver ==
    ASSUME HorizonInv, NEW k \in LegKeys, pastEvictionHorizon(k[2], latest)
    PROVE  peak > Deadline[k[2]] + EvictGrace + Confirmations /\ k \notin legRounds
<1>1. /\ latest > Deadline[k[2]] + EvictGrace + Confirmations /\ latest <= peak
      /\ Deadline[k[2]] \in Nat /\ EvictGrace \in Nat /\ Confirmations \in Nat
      /\ latest \in Nat /\ peak \in Nat
  BY HorizonAssumption DEF HorizonInv, pastEvictionHorizon
<1>2. peak > Deadline[k[2]] + EvictGrace + Confirmations
  BY <1>1
<1>3. k \notin legRounds
  BY <1>1, <1>2 DEF HorizonInv
<1>4. QED
  BY <1>1, <1>2, <1>3

\* The eviction keeps the invariant: the legs it drops are over, and a leg whose
\* intent a compaction drops with them is exposed.
LEMMA EvictStep == RelayInv /\ evictExpired => RelayInv'
<1> SUFFICES ASSUME RelayInv, evictExpired PROVE RelayInv'
  OBVIOUS
<1> USE DEF RelayInv
<1>1. PICK gone : gone = {k \in LegKeys : k[2] \in {r \in deadlines : pastEvictionHorizon(r, latest)}}
  OBVIOUS
<1>2. /\ published' = published \ gone
      /\ wire' = [k \in LegKeys |-> IF k \in gone THEN NoWire ELSE wire[k]]
      /\ UNCHANGED <<sends, legRounds, roundsDone, latest, tip, peak, paid>>
  BY <1>1 DEF evictExpired, chainvars
<1>3. \/ UNCHANGED <<relayLog, exposed>>
      \/ relayLog' = relayLog /\ exposed \subseteq exposed'
      \/ /\ relayLog' = Compacted(relayLog, published \ gone)
         /\ exposed' = exposed \cup {k \in {j \in LegKeys : sends[j] # "idle"} : relayLog'[k] = {}}
  BY <1>1 DEF evictExpired, compactWal, diskvars
<1>4. HorizonInv'
  BY <1>2 DEF HorizonInv
<1>5. OneRoundInv'
  BY <1>2 DEF OneRoundInv, OneRound
<1>6. /\ relayLog' \in [LegKeys -> SUBSET {"intent", "sent", "failed"}]
      /\ exposed \subseteq exposed'
      /\ \A k \in LegKeys :
            \/ relayLog'[k] = relayLog[k]
            \/ /\ "failed" \in relayLog'[k] => "failed" \in relayLog[k]
               /\ k \in published \ gone => relayLog'[k] # {}
               /\ k \notin published \ gone => relayLog'[k] = {}
               /\ sends[k] # "idle" /\ relayLog'[k] = {} => k \in exposed'
  <2>1. CASE relayLog' = relayLog /\ exposed \subseteq exposed'
    BY <2>1 DEF RelayShapes
  <2>2. CASE /\ relayLog' = Compacted(relayLog, published \ gone)
             /\ exposed' = exposed \cup {k \in {j \in LegKeys : sends[j] # "idle"} : relayLog'[k] = {}}
    BY <2>2, CompactedKeeps
  <2>3. QED
    BY <1>3, <2>1, <2>2
<1>7. RelayShapes'
  BY <1>2, <1>6 DEF RelayShapes
<1>8. ASSUME NEW k \in LegKeys \ exposed' PROVE Spoken(k)'
  <2>1. Spoken(k) /\ k \notin exposed
    BY <1>6 DEF SpokenInv
  <2>2. Over(k) => Over(k)'
    BY <1>2 DEF Over
  <2>3. k \in gone => Over(k)'
    <3>1. k \in gone => pastEvictionHorizon(k[2], latest)
      BY <1>1
    <3>2. QED
      BY <1>2, <3>1, GoneIsOver DEF Over
  <2>4. "failed" \notin relayLog'[k]
    BY <1>6, <2>1 DEF Spoken
  <2>5. sends[k] # "idle" /\ relayLog[k] # {} => relayLog'[k] # {}
    BY <1>6
  <2>6. k \in published /\ relayLog[k] # {} => k \in gone \/ (k \in published' /\ relayLog'[k] # {})
    BY <1>2, <1>6
  <2>7. paid'[k] = paid[k] /\ sends'[k] = sends[k]
    BY <1>2
  <2>8. QED
    BY <2>1, <2>2, <2>3, <2>4, <2>5, <2>6, <2>7 DEF Spoken, Logged
<1>9. QED
  BY <1>4, <1>5, <1>7, <1>8 DEF SpokenInv

\* A restart keeps the invariant: what the log speaks for is marked published.
LEMMA StartStep == RelayInv /\ start => RelayInv'
<1> SUFFICES ASSUME RelayInv, start PROVE RelayInv'
  OBVIOUS
<1> USE DEF RelayInv
<1>1. PICK live : live = Suppressed(relayLog)
  OBVIOUS
<1>2. /\ published' = live /\ wire' = [k \in LegKeys |-> NoWire]
      /\ sends' = [k \in LegKeys |-> "idle"]
      /\ legRounds' = {} /\ roundsDone' = {} /\ latest' = 0
      /\ UNCHANGED <<tip, peak, paid, exposed>>
      /\ relayLog' = relayLog \/ relayLog' = Compacted(relayLog, live)
  BY <1>1 DEF start, chainvars, diskvars
<1>3. HorizonInv'
  BY <1>2 DEF HorizonInv
<1>4. OneRoundInv'
  BY <1>2 DEF OneRoundInv, OneRound
<1>5. /\ relayLog' \in [LegKeys -> SUBSET {"intent", "sent", "failed"}]
      /\ \A k \in LegKeys : /\ "failed" \in relayLog'[k] => "failed" \in relayLog[k]
                            /\ k \in live /\ relayLog[k] # {} => relayLog'[k] # {}
  BY <1>2, CompactedKeeps DEF RelayShapes
<1>6. RelayShapes'
  BY <1>2, <1>5 DEF RelayShapes
<1>7. ASSUME NEW k \in LegKeys \ exposed PROVE Spoken(k)'
  <2>1. Spoken(k)
    BY DEF SpokenInv
  <2>2. sends'[k] = "idle" /\ paid'[k] = paid[k] /\ "failed" \notin relayLog'[k]
    BY <1>2, <1>5, <2>1 DEF Spoken
  <2>3. Over(k) => Over(k)'
    BY <1>2 DEF Over
  <2>4. Logged(k) => k \in published' /\ Logged(k)'
    BY <1>1, <1>2, <1>5, <2>2, LoggedSuppressed DEF Logged
  <2>5. QED
    BY <2>1, <2>2, <2>3, <2>4 DEF Spoken
<1>8. QED
  BY <1>2, <1>3, <1>4, <1>6, <1>7 DEF SpokenInv

\* Every step keeps the invariant.
LEMMA StepRelayInv == RelayInv /\ [ANext]_avars => RelayInv'
<1> SUFFICES ASSUME RelayInv, [ANext]_avars PROVE RelayInv'
  OBVIOUS
<1>1. CASE \/ \E k \in LegKeys : maybeRelay(k) \/ validateProposedMatch(k) \/ RoundAbandoned(k)
                                 \/ LegLands(k)
           \/ \E home, origin \in BOOLEAN : poll(home, origin)
           \/ sweepFinalized \/ OriginAdvances \/ OriginReorgs
           \/ UNCHANGED avars
  BY <1>1, QuietSteps
<1>2. ASSUME NEW k \in LegKeys, sweepLeg(k) \/ \E rank \in Ranks : onRoundFinalized(k, rank)
      PROVE  RelayInv'
  BY <1>2, DriverSteps
<1>3. ASSUME NEW k \in LegKeys,
             NodeTakes(k) \/ noteLegSent(k) \/ noteLegAmbiguous(k) \/ noteLegSendFailed(k)
      PROVE  RelayInv'
  BY <1>3, SendSteps
<1>4. CASE evictExpired \/ start
  BY <1>4, EvictStep, StartStep
<1>5. QED
  BY <1>1, <1>2, <1>3, <1>4 DEF ANext

\* A leg the log speaks for is paid for once, whatever crashes between intent, node
\* and outcome, whichever record is lost and though the log forgets it past its
\* deadline, for every reorg of at most Confirmations blocks.
THEOREM LegsArePaidOnce == ASpec => []PaidOnce
<1>1. RelayInv => PaidOnce
  <2>1. RelayInv => \A k \in LegKeys \ exposed : paid[k] \in {0, 1}
    BY DEF RelayInv, SpokenInv, Spoken
  <2>2. ASSUME NEW k \in LegKeys \ exposed, paid[k] \in {0, 1} PROVE paid[k] <= 1
    <3>1. paid[k] = 0 \/ paid[k] = 1
      BY <2>2
    <3>2. QED
      BY <3>1
  <2>3. QED
    BY <2>1, <2>2 DEF PaidOnce
<1>2. QED
  BY <1>1, InitRelayInv, StepRelayInv, PTL DEF ASpec
=============================================================================
