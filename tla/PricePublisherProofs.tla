------------------------ MODULE PricePublisherProofs ------------------------
(***************************************************************************)
(* What is proved of the publish rail, for every set of rounds, window     *)
(* plan, ceiling and fault budget:                                         *)
(*                                                                         *)
(*   CeilingHolds      what is paid for within a window is below the       *)
(*                     ceiling, across crashes and failed writes           *)
(*   PublisherTypes    files, memory and locals stay well formed           *)
(*   NoRoundPaidTwice  no round leaves in two wires                        *)
(*   EntriesAreAccountedFor  no queued wire is lost                        *)
(*                                                                         *)
(* WithinCeiling is not inductive: what the hub paid for is outside it.    *)
(* SpendInv says where the claim to pay comes from.  What was paid, plus   *)
(* the reservation a job holds and has not sent on, is counted in memory;  *)
(* what memory counts is on disk, which is what a restart reads back; and  *)
(* the disk never holds more than the ceiling.  ShapeInv, FreshInv and     *)
(* LossInv, further down, do the same for the others.                      *)
(***************************************************************************)
EXTENDS PricePublisher, FiniteSetTheorems, WellFoundedInduction, TLAPS

\* The reservation of a wire that has not reached the node.
Held == IF at \in {"intent", "send", "refused"} THEN 1 ELSE 0

SpendInv ==
    /\ at \in Places
    /\ paid \in Nat /\ spent \in Nat /\ disk \in Nat
    /\ paid + Held <= spent
    /\ spent <= disk
    /\ disk <= Ceiling

\* A new hub has spent nothing (spend_guard.js: the first run starts empty).
LEMMA SpendInit == Init => SpendInv
  BY PublisherAssumption DEF Init, SpendInv, Held, Places

\* The steps of an assembly never touch the spend guard.
LEMMA AssembleKeepsSpend ==
    ASSUME SpendInv, Assemble
    PROVE  SpendInv'
  <1>1. ASSUME NEW w \in Windows, passOver(w) \/ retireExhaustedWindow(w) \/ declineTakeover(w)
        PROVE  SpendInv'
    BY <1>1 DEF passOver, retireExhaustedWindow, declineTakeover, pass, spend, SpendInv, Held
  <1>2. ASSUME NEW w \in Windows, assembleWindow(w) \/ runTakeoverAttempt(w)
        PROVE  SpendInv'
    BY <1>2 DEF assembleWindow, runTakeoverAttempt, Propose, pass, spend, SpendInv, Held, Places
  <1>3. CASE signingFails
    BY <1>3 DEF signingFails, spend, SpendInv, Held, Places
  <1>4. ASSUME NEW wires \in Splits(batch), NEW n \in 0..Len(wires),
               enqueueWindowWires(wires, n)
        PROVE  SpendInv'
    BY <1>4 DEF enqueueWindowWires, spend, SpendInv, Held, Places
  <1> QED
    BY <1>1, <1>2, <1>3, <1>4 DEF Assemble

\* Every step of a pass keeps it: a reservation is counted and saved before the
\* send, and given back only by a wire that never reached the node.
LEMMA PublishKeepsSpend ==
    ASSUME SpendInv, Publish
    PROVE  SpendInv'
  <1> USE PublisherAssumption
  <1>1. ASSUME NEW open \in BOOLEAN, processQueue(open)
        PROVE  SpendInv'
    BY <1>1 DEF processQueue, spend, SpendInv, Held, Places
  <1>2. CASE abandonEntry \/ dropEntry \/ beginEntry
    BY <1>2 DEF abandonEntry, dropEntry, beginEntry, Advance, spend, SpendInv, Held, Places
  <1>3. CASE readMarker
    BY <1>3 DEF readMarker, Advance, spend, SpendInv, Held, Places
  <1>4. CASE reserve
    BY <1>4 DEF reserve, persist, Advance, SpendInv, Held, Places
  <1>5. CASE recordIntent
    BY <1>5 DEF recordIntent, release, Advance, SpendInv, Held, Places
  <1>6. ASSUME NEW outcome \in {"accepted", "unknown", "refused"}, broadcast(outcome)
        PROVE  SpendInv'
    BY <1>6 DEF broadcast, SpendInv, Held, Places
  <1>7. CASE notePublished \/ markPublished
    BY <1>7 DEF notePublished, markPublished, Advance, spend, SpendInv, Held, Places
  <1>8. CASE ambiguousSend \/ withdrawIntent
    BY <1>8 DEF ambiguousSend, withdrawIntent, Advance, spend, SpendInv, Held, Places
  <1>9. ASSUME NEW neverSent \in BOOLEAN, definitiveFailure(neverSent)
        PROVE  SpendInv'
    BY <1>9 DEF definitiveFailure, release, Advance, SpendInv, Held, Places
  <1>10. CASE rebuildQueue
    BY <1>10 DEF rebuildQueue, spend, SpendInv, Held, Places
  <1> QED
    BY <1>1, <1>2, <1>3, <1>4, <1>5, <1>6, <1>7, <1>8, <1>9, <1>10 DEF Publish

\* Every step keeps it, a restart included: the count read back from disk covers
\* what was paid and what was only reserved.
LEMMA SpendStep == SpendInv /\ [Next]_vars => SpendInv'
  <1> SUFFICES ASSUME SpendInv, [Next]_vars
               PROVE  SpendInv'
    OBVIOUS
  <1> USE PublisherAssumption
  <1>1. ASSUME NEW r \in Rounds, onRoundFinalized(r)
        PROVE  SpendInv'
    BY <1>1 DEF onRoundFinalized, pass, spend, SpendInv, Held
  <1>2. CASE Assemble
    BY <1>2, AssembleKeepsSpend
  <1>3. CASE Publish
    BY <1>3, PublishKeepsSpend
  <1>4. ASSUME NEW cutoff \in pruning, prunePublishedRounds(cutoff)
        PROVE  SpendInv'
    BY <1>4 DEF prunePublishedRounds, pass, spend, SpendInv, Held
  <1>5. ASSUME NEW wire \in Landable \ {{}}, noteBatchLanded(wire) \/ clearPublishedMarkers(wire)
        PROVE  SpendInv'
    BY <1>5 DEF noteBatchLanded, clearPublishedMarkers, pass, spend, SpendInv, Held
  <1>6. ASSUME NEW wire \in clearing, clearMarkerRows(wire)
        PROVE  SpendInv'
    BY <1>6 DEF clearMarkerRows, pass, spend, SpendInv, Held
  <1>10. ASSUME NEW wire \in restoring, restoreBufferedRounds(wire)
         PROVE  SpendInv'
    BY <1>10 DEF restoreBufferedRounds, pass, spend, SpendInv, Held
  <1>7. CASE windowRolls
    BY <1>7 DEF windowRolls, pass, SpendInv, Held
  <1>8. ASSUME NEW hydrates \in BOOLEAN, restart(hydrates)
        PROVE  SpendInv'
    BY <1>8 DEF restart, SpendInv, Held, Places
  <1>9. CASE UNCHANGED vars
    BY <1>9 DEF vars, pass, spend, SpendInv, Held
  <1> QED
    BY <1>1, <1>2, <1>3, <1>4, <1>5, <1>6, <1>7, <1>8, <1>9, <1>10 DEF Next

\* However many wires, windows, crashes and failed writes: the wires paid for since
\* the spend window rolled never exceed its ceiling (spend_guard.js, reservation.js).
THEOREM CeilingHolds == Spec => []WithinCeiling
  <1>1. SpendInv => WithinCeiling
    BY PublisherAssumption DEF SpendInv, Held, WithinCeiling
  <1> QED
    BY <1>1, SpendInit, SpendStep, PTL DEF Spec

-----------------------------------------------------------------------------
(***************************************************************************)
(* Shapes.  TypeOK needs to know of the job on the window chain that it    *)
(* has an entry in hand with attempts left, and rounds when it signs.      *)
(***************************************************************************)

\* Of finitely many sets one is least by inclusion.
LEMMA LeastSet ==
    ASSUME NEW S, IsFiniteSet(S), NEW T \in SUBSET SUBSET S, T # {}
    PROVE  \E U \in T : \A V \in T : V \subseteq U => V = U
  <1>1. T \subseteq FiniteSubsetsOf(S)
    BY FS_FiniteSubsetsOfFinite
  <1>2. IsWellFoundedOn(StrictSubsetOrdering(S), FiniteSubsetsOf(S))
    BY FS_StrictSubsetOrderingWellFounded
  <1>3. PICK U \in T : \A V \in T : ~(<<V, U>> \in StrictSubsetOrdering(S))
    BY <1>1, <1>2, WFMin
  <1>4. ASSUME NEW V \in T, V \subseteq U, V # U PROVE FALSE
    <2>1. <<V, U>> \in (SUBSET S) \X (SUBSET S)
      OBVIOUS
    <2>2. <<V, U>> \in StrictSubsetOrdering(S)
      BY <1>4, <2>1 DEF StrictSubsetOrdering
    <2> QED
      BY <1>3, <2>2
  <1> QED
    BY <1>4

\* A function from a finite set to its subsets has a least value.
LEMMA LeastValue ==
    ASSUME NEW S, IsFiniteSet(S), S # {}, NEW f \in [S -> SUBSET S]
    PROVE  \E x \in S : \A y \in S : f[y] \subseteq f[x] => f[y] = f[x]
  <1>1. PICK T : T = {f[x] : x \in S}
    OBVIOUS
  <1>2. T \in SUBSET SUBSET S /\ T # {}
    BY <1>1
  <1>3. PICK U \in T : \A V \in T : V \subseteq U => V = U
    BY <1>2, LeastSet
  <1> QED
    BY <1>1, <1>3

\* The least element of a finite set of numbers is one of them.
LEMMA MinIsMember ==
    ASSUME NEW S, IsFiniteSet(S), S # {}
    PROVE  S \subseteq Int => Min(S) \in S /\ \A y \in S : Min(S) <= y
  <1>1. PICK f : f = [x \in S |-> {y \in S : y < x}]
    OBVIOUS
  <1>2. f \in [S -> SUBSET S]
    BY <1>1
  <1>3. PICK x \in S : \A y \in S : f[y] \subseteq f[x] => f[y] = f[x]
    BY <1>2, LeastValue
  <1> HAVE S \subseteq Int
  <1>4. ASSUME NEW y \in S, y < x PROVE FALSE
    <2>1. ASSUME NEW z \in S, z < y PROVE z < x
      BY <1>4, <2>1
    <2>2. f[y] \subseteq f[x]
      BY <1>1, <2>1
    <2>3. y \in f[x] /\ y \notin f[y]
      BY <1>1, <1>4
    <2> QED
      BY <1>3, <2>2, <2>3
  <1>5. \A y \in S : x <= y
    BY <1>4
  <1> QED
    BY <1>5 DEF Min

\* So is the greatest.
LEMMA MaxIsMember ==
    ASSUME NEW S, IsFiniteSet(S), S # {}
    PROVE  S \subseteq Int => Max(S) \in S
  <1>1. PICK f : f = [x \in S |-> {y \in S : y > x}]
    OBVIOUS
  <1>2. f \in [S -> SUBSET S]
    BY <1>1
  <1>3. PICK x \in S : \A y \in S : f[y] \subseteq f[x] => f[y] = f[x]
    BY <1>2, LeastValue
  <1> HAVE S \subseteq Int
  <1>4. ASSUME NEW y \in S, y > x PROVE FALSE
    <2>1. ASSUME NEW z \in S, z > y PROVE z > x
      BY <1>4, <2>1
    <2>2. f[y] \subseteq f[x]
      BY <1>1, <2>1
    <2>3. y \in f[x] /\ y \notin f[y]
      BY <1>1, <1>4
    <2> QED
      BY <1>3, <2>2, <2>3
  <1>5. \A y \in S : x >= y
    BY <1>4
  <1> QED
    BY <1>5 DEF Max

\* A window has a number.
LEMMA WindowIsNumbered ==
    ASSUME NEW r \in Nat
    PROVE  WindowOf(r) \in Nat
  BY PublisherAssumption DEF WindowOf

\* The job has an entry in hand.
Sending == {"markers", "reserve", "intent", "send", "accepted", "unknown", "refused",
            "withdraw", "mark"}

\* ... and visits its rounds one by one.
Visiting == {"markers", "intent", "withdraw", "mark"}

JobInv ==
    /\ at \in Sending => todo # <<>> /\ Current.attempts < MaxAttempts
    /\ at \in Visiting => left # {} /\ left \subseteq Current.rounds
    /\ at = "sign" => batch # {}

\* TypeOK in parts.
RailOK ==
    /\ finalized \subseteq Rounds /\ buffer \subseteq Rounds /\ landed \subseteq Rounds
    /\ shed \subseteq Rounds
    /\ assembled \subseteq Nat /\ armed \subseteq Nat

QueueOK ==
    /\ queue \in Seq(Entry) /\ todo \in Seq(Entry) /\ kept \in Seq(Entry)
    /\ batch \subseteq Rounds /\ left \subseteq Rounds /\ won \in Rounds \cup {0}

GuardOK ==
    /\ marker \in [Rounds -> {"none", "intent", "sent"}]
    /\ forgotten \in [Rounds -> Nat]
    /\ published \subseteq Rounds /\ quarantined \subseteq Rounds
    /\ pruning \subseteq Nat /\ restoring \subseteq Wire /\ clearing \subseteq Wire

RestOK ==
    /\ dead \subseteq DeadLetter /\ chain \in Seq(Wire) /\ budget \in [FaultKinds -> Nat]

ShapeInv == RailOK /\ QueueOK /\ GuardOK /\ RestOK /\ JobInv

\* The two invariants imply the types.
LEMMA ShapesAreTypes == ShapeInv /\ SpendInv => TypeOK
  BY DEF ShapeInv, RailOK, QueueOK, GuardOK, RestOK, SpendInv, TypeOK

\* A round, a set of rounds and an entry have the shapes the numbers need.
LEMMA RoundsAreNumbers ==
    /\ Rounds \subseteq Int
    /\ \A X : X \subseteq Rounds /\ X # {} => Min(X) \in X /\ Max(X) \in X
    /\ \A r \in Rounds : WindowOf(r) \in Nat
  <1>1. Rounds \subseteq Int
    BY PublisherAssumption
  <1>2. ASSUME NEW X, X \subseteq Rounds, X # {}
        PROVE  Min(X) \in X /\ Max(X) \in X
    <2>1. IsFiniteSet(X)
      BY <1>2, PublisherAssumption, FS_Subset
    <2>2. X \subseteq Int
      BY <1>1, <1>2
    <2>3. Min(X) \in X
      BY <1>2, <2>1, <2>2, MinIsMember
    <2>4. Max(X) \in X
      BY <1>2, <2>1, <2>2, MaxIsMember
    <2> QED
      BY <2>3, <2>4
  <1>3. \A r \in Rounds : WindowOf(r) \in Nat
    BY PublisherAssumption, WindowIsNumbered
  <1> QED
    BY <1>1, <1>2, <1>3

\* A fault takes one off its budget.
LEMMA FaultShape ==
    ASSUME NEW kind \in FaultKinds, Fault(kind), budget \in [FaultKinds -> Nat]
    PROVE  budget' \in [FaultKinds -> Nat]
  BY DEF Fault

\* The entry in hand is an entry, and may be tried once more.
LEMMA CurrentShape ==
    ASSUME todo \in Seq(Entry), todo # <<>>
    PROVE  /\ Current \in Entry
           /\ Current.rounds \in Wire /\ Current.rounds \subseteq Rounds /\ Current.rounds # {}
           /\ Current.attempts \in 0..MaxAttempts
           /\ Current.attempts < MaxAttempts => Retried(Current) \in Entry
           /\ Tail(todo) \in Seq(Entry)
  <1>1. Current \in Entry /\ Tail(todo) \in Seq(Entry)
    BY DEF Current
  <1>2. /\ Current.rounds \in Wire /\ Current.rounds \subseteq Rounds /\ Current.rounds # {}
        /\ Current.attempts \in 0..MaxAttempts
    BY <1>1 DEF Entry, Wire
  <1>3. ASSUME Current.attempts < MaxAttempts PROVE Retried(Current) \in Entry
    <2>1. PICK n : n = Current.attempts + 1
      OBVIOUS
    <2>2. n \in 0..MaxAttempts
      BY <1>2, <1>3, <2>1, PublisherAssumption
    <2>3. PICK R : R = Current.rounds
      OBVIOUS
    <2>4. [rounds |-> R, attempts |-> n] \in Entry
      BY <1>2, <2>2, <2>3 DEF Entry
    <2> QED
      BY <2>1, <2>3, <2>4 DEF Retried
  <1> QED
    BY <1>1, <1>2, <1>3

\* Moving to the next entry keeps the pass's sequences sequences of entries.
LEMMA AdvanceShape ==
    ASSUME NEW keep \in Seq(Entry), QueueOK, todo # <<>>, Advance(keep),
           UNCHANGED <<queue, batch, won>>
    PROVE  QueueOK' /\ JobInv'
  <1>1. Tail(todo) \in Seq(Entry)
    BY DEF QueueOK
  <1>2. kept \o keep \in Seq(Entry)
    BY DEF QueueOK
  <1> QED
    BY <1>1, <1>2 DEF Advance, QueueOK, JobInv, Sending, Visiting

\* Setting one round's row.
LEMMA RowShape ==
    ASSUME GuardOK, NEW r \in Rounds, NEW row \in {"none", "intent", "sent"},
           marker' = [marker EXCEPT ![r] = row], UNCHANGED forgotten,
           UNCHANGED <<published, quarantined, pruning, restoring, clearing>>
    PROVE  GuardOK'
  BY DEF GuardOK

\* The initial states are well formed.
LEMMA ShapeInit == Init => ShapeInv
  BY PublisherAssumption DEF Init, ShapeInv, RailOK, QueueOK, GuardOK, RestOK, JobInv,
     Sending, Visiting

\* The steps of an assembly.
LEMMA AssembleShapes ==
    ASSUME ShapeInv, Assemble
    PROVE  ShapeInv'
  <1> USE DEF ShapeInv
  <1>1. ASSUME NEW w \in Windows PROVE w \in Nat
    BY RoundsAreNumbers DEF Windows
  <1>2. ASSUME NEW w \in Windows, passOver(w) \/ retireExhaustedWindow(w)
        PROVE  ShapeInv'
    BY <1>1, <1>2 DEF passOver, retireExhaustedWindow, pass, guards, RailOK, QueueOK, GuardOK, RestOK, JobInv, Current
  <1>3. ASSUME NEW w \in Windows, declineTakeover(w)
        PROVE  ShapeInv'
    <2>1. budget' \in [FaultKinds -> Nat]
      BY <1>3, FaultShape DEF declineTakeover, RestOK, FaultKinds
    <2> QED
      BY <1>3, <2>1 DEF declineTakeover, pass, guards, RailOK, QueueOK, GuardOK, RestOK, JobInv, Current
  <1>4. ASSUME NEW w \in Windows, Propose(w)
        PROVE  QueueOK' /\ GuardOK' /\ RestOK' /\ JobInv'
    <2>1. QueueOK'
      BY <1>4 DEF Propose, RailOK, QueueOK
    <2>2. GuardOK' /\ RestOK'
      BY <1>4 DEF Propose, guards, GuardOK, RestOK
    <2>3. JobInv'
      BY <1>4 DEF Propose, JobInv, Sending, Visiting
    <2> QED
      BY <2>1, <2>2, <2>3
  <1>5. ASSUME NEW w \in Windows, assembleWindow(w)
        PROVE  ShapeInv'
    <2>1. RailOK'
      BY <1>5 DEF assembleWindow, Propose, RailOK
    <2> QED
      BY <1>4, <1>5, <2>1 DEF assembleWindow
  <1>6. ASSUME NEW w \in Windows, runTakeoverAttempt(w)
        PROVE  ShapeInv'
    <2>1. RailOK'
      BY <1>1, <1>6 DEF runTakeoverAttempt, Propose, RailOK
    <2>2. CASE Propose(w)
      BY <1>4, <2>1, <2>2
    <2>3. CASE UNCHANGED <<queue, dead, guards, pass, chain, budget>>
      BY <2>1, <2>3 DEF pass, guards, QueueOK, GuardOK, RestOK, JobInv, Current
    <2> QED
      BY <1>6, <2>2, <2>3 DEF runTakeoverAttempt
  <1>7. CASE signingFails
    BY <1>7 DEF signingFails, rail, guards, RailOK, QueueOK, GuardOK, RestOK, JobInv, Sending, Visiting
  <1>8. ASSUME NEW wires \in Splits(batch), NEW n \in 0..Len(wires),
               enqueueWindowWires(wires, n)
        PROVE  ShapeInv'
    <2>1. batch # {} /\ batch \subseteq Rounds
      BY <1>8 DEF enqueueWindowWires, JobInv, QueueOK
    <2>2. wires \in Seq(Wire)
      <3>1. CASE wires = <<batch>>
        <4>1. batch \in Wire
          BY <2>1, Zenon DEF Wire
        <4> QED
          BY <3>1, <4>1
      <3>2. ASSUME NEW cut \in batch, NEW low \in batch, low < cut,
                   wires = <<{r \in batch : r < cut}, {r \in batch : r >= cut}>>
            PROVE  wires \in Seq(Wire)
        <4>1. {r \in batch : r < cut} \in Wire
          <5>1. low \in {r \in batch : r < cut}
            BY <3>2
          <5>2. {r \in batch : r < cut} \subseteq Rounds
            BY <2>1
          <5> QED
            BY <5>1, <5>2, Zenon DEF Wire
        <4>2. cut >= cut
          BY <2>1, RoundsAreNumbers
        <4>3. {r \in batch : r >= cut} \in Wire
          <5>1. cut \in {r \in batch : r >= cut}
            BY <4>2
          <5>2. {r \in batch : r >= cut} \subseteq Rounds
            BY <2>1
          <5> QED
            BY <5>1, <5>2, Zenon DEF Wire
        <4> QED
          BY <3>2, <4>1, <4>3
      <3> QED
        BY <1>8, <3>1, <3>2 DEF Splits
    <2>3. \A i \in 1..n : NewEntry(wires[i]) \in Entry
      BY <1>8, <2>2, PublisherAssumption DEF NewEntry, Entry
    <2>4. PICK new : new = [i \in 1..n |-> NewEntry(wires[i])]
      OBVIOUS
    <2>5. n \in Nat
      BY <1>8, <2>2
    <2>6. new \in Seq(Entry)
      BY <2>3, <2>4, <2>5
    <2>7. queue \o new \in Seq(Entry)
      BY <2>6 DEF QueueOK
    <2>8. queue' \in Seq(Entry)
      BY <1>8, <2>4, <2>7 DEF enqueueWindowWires
    <2>9. RailOK'
      <3>1. WindowOf(Min(batch)) \in Nat
        BY <2>1, RoundsAreNumbers
      <3> QED
        BY <1>8, <3>1 DEF enqueueWindowWires, RailOK
    <2>10. QueueOK' /\ GuardOK' /\ JobInv'
      BY <1>8, <2>8 DEF enqueueWindowWires, guards, QueueOK, GuardOK, JobInv, Sending, Visiting
    <2>11. budget' \in [FaultKinds -> Nat]
      BY <1>8, FaultShape DEF enqueueWindowWires, RestOK, FaultKinds
    <2>12. RestOK'
      BY <1>8, <2>11 DEF enqueueWindowWires, RestOK
    <2> QED
      BY <2>9, <2>10, <2>12
  <1> QED
    BY <1>2, <1>3, <1>5, <1>6, <1>7, <1>8 DEF Assemble

\* Dead-lettering a wire.
LEMMA DeadLetterShape ==
    ASSUME NEW rounds \in Wire, deadLetter(rounds), RestOK, UNCHANGED chain
    PROVE  RestOK'
  <1>1. budget' \in [FaultKinds -> Nat]
    BY FaultShape DEF deadLetter, RestOK, FaultKinds
  <1>2. \A b \in BOOLEAN : [rounds |-> rounds, written |-> b] \in DeadLetter
    BY DEF DeadLetter
  <1>3. dead' \subseteq DeadLetter
    BY <1>2 DEF deadLetter, RestOK
  <1> QED
    BY <1>1, <1>3 DEF RestOK

\* The steps that settle an entry from memory.
LEMMA EntryShapes ==
    ASSUME ShapeInv, abandonEntry \/ dropEntry \/ beginEntry
    PROVE  ShapeInv'
  <1> USE DEF ShapeInv
  <1>1. todo \in Seq(Entry) /\ todo # <<>>
    BY DEF abandonEntry, dropEntry, beginEntry, QueueOK
  <1>2. Current.rounds \in Wire /\ Current.rounds \subseteq Rounds /\ Current.rounds # {}
        /\ Current.attempts \in 0..MaxAttempts
    BY <1>1, CurrentShape
  <1>3. RailOK' /\ GuardOK'
    BY DEF abandonEntry, dropEntry, beginEntry, rail, guards, RailOK, GuardOK
  <1>4. <<>> \in Seq(Entry)
    OBVIOUS
  <1>5. CASE abandonEntry
    <2>1. QueueOK' /\ JobInv'
      BY <1>1, <1>4, <1>5, AdvanceShape DEF abandonEntry
    <2>2. RestOK'
      BY <1>2, <1>5, DeadLetterShape DEF abandonEntry
    <2> QED
      BY <1>3, <2>1, <2>2
  <1>6. CASE dropEntry
    <2>1. QueueOK' /\ JobInv'
      BY <1>1, <1>4, <1>6, AdvanceShape DEF dropEntry
    <2>2. RestOK'
      BY <1>6 DEF dropEntry, RestOK
    <2> QED
      BY <1>3, <2>1, <2>2
  <1>7. CASE beginEntry
    <2>1. QueueOK' /\ RestOK'
      BY <1>2, <1>7 DEF beginEntry, QueueOK, RestOK
    <2>2. todo' = todo /\ left' = Current.rounds /\ at' = "markers"
      BY <1>7 DEF beginEntry
    <2>3. Current.attempts < MaxAttempts
      BY <1>2, <1>7, PublisherAssumption DEF beginEntry, Exhausted
    <2>4. JobInv'
      BY <1>1, <1>2, <2>2, <2>3 DEF JobInv, Current, Sending, Visiting
    <2> QED
      BY <1>3, <2>1, <2>4
  <1> QED
    BY <1>5, <1>6, <1>7

\* One round of the entry in hand is visited: the job goes on to `place` after the
\* last, and to the next round otherwise.
LEMMA VisitShape ==
    ASSUME QueueOK, JobInv, at \in Visiting, NEW r, left' = left \ {r},
           UNCHANGED <<queue, todo, kept, batch, won>>,
           \/ left # {r} /\ at' = at
           \/ at' \in {"reserve", "send"}
    PROVE  QueueOK' /\ JobInv'
  <1>1. QueueOK'
    BY DEF QueueOK
  <1>2. at \in Sending
    BY DEF Visiting, Sending
  <1>3. todo' # <<>> /\ (Current.attempts < MaxAttempts)'
    BY <1>2 DEF JobInv, Current
  <1>4. left # {} /\ left \subseteq Current.rounds
    BY DEF JobInv
  <1>5. left' \subseteq Current'.rounds
    BY <1>4 DEF Current
  <1>6. left' # {} \/ at' \in {"reserve", "send"}
    BY <1>4
  <1>7. at' # "sign"
    BY DEF Visiting
  <1> QED
    BY <1>1, <1>3, <1>5, <1>6, <1>7 DEF JobInv, Visiting

\* The marker reads.
LEMMA ReadMarkerShapes ==
    ASSUME ShapeInv, readMarker
    PROVE  ShapeInv'
  <1> USE DEF ShapeInv
  <1>1. todo \in Seq(Entry) /\ todo # <<>> /\ at = "markers"
    BY DEF readMarker, QueueOK, JobInv, Sending
  <1>2. Current \in Entry /\ Current.rounds \in Wire /\ Current.rounds \subseteq Rounds
    BY <1>1, CurrentShape
  <1>3. Min(left) \in left /\ Min(left) \in Rounds
    BY <1>1, RoundsAreNumbers DEF QueueOK, JobInv, Visiting
  <1>4. RailOK'
    BY DEF readMarker, rail, RailOK
  <1>5. <<>> \in Seq(Entry) /\ <<Current>> \in Seq(Entry)
    BY <1>2
  <1>6. GuardOK'
    BY <1>2, <1>3 DEF readMarker, GuardOK
  <1>7. budget' \in [FaultKinds -> Nat] \/ deadLetter(Current.rounds)
    BY FaultShape DEF readMarker, RestOK, FaultKinds
  <1>8. RestOK'
    <2>1. CASE deadLetter(Current.rounds)
      BY <1>2, <2>1, DeadLetterShape DEF readMarker
    <2>2. CASE UNCHANGED dead /\ budget' \in [FaultKinds -> Nat]
      BY <2>2 DEF readMarker, RestOK
    <2> QED
      BY <1>7, <2>1, <2>2 DEF readMarker
  <1>9. QueueOK' /\ JobInv'
    <2>1. ASSUME NEW keep \in {<<>>, <<Current>>}, Advance(keep)
          PROVE  QueueOK' /\ JobInv'
      BY <1>1, <1>5, <2>1, AdvanceShape DEF readMarker
    <2>2. CASE /\ left' = left \ {Min(left)}
               /\ at' = IF left = {Min(left)} THEN "reserve" ELSE "markers"
               /\ UNCHANGED <<todo, kept>>
      BY <1>1, <2>2, VisitShape DEF readMarker, Visiting
    <2> QED
      BY <2>1, <2>2 DEF readMarker
  <1> QED
    BY <1>4, <1>6, <1>8, <1>9

\* What a job with an entry in hand knows of it.
LEMMA InHand ==
    ASSUME ShapeInv, at \in Sending
    PROVE  /\ todo \in Seq(Entry) /\ todo # <<>>
           /\ Current \in Entry /\ Current.rounds \in Wire
           /\ Current.rounds \subseteq Rounds /\ Current.rounds # {}
           /\ Current.attempts < MaxAttempts
           /\ <<>> \in Seq(Entry) /\ <<Current>> \in Seq(Entry)
           /\ <<Retried(Current)>> \in Seq(Entry)
           /\ at \in Visiting => Min(left) \in left /\ Min(left) \in Rounds
  <1>1. todo \in Seq(Entry) /\ todo # <<>> /\ Current.attempts < MaxAttempts
    BY DEF ShapeInv, QueueOK, JobInv
  <1>2. /\ Current \in Entry /\ Current.rounds \in Wire
        /\ Current.rounds \subseteq Rounds /\ Current.rounds # {}
        /\ Retried(Current) \in Entry
    BY <1>1, CurrentShape
  <1>3. at \in Visiting => Min(left) \in left /\ Min(left) \in Rounds
    BY RoundsAreNumbers DEF ShapeInv, QueueOK, JobInv
  <1>4. <<Current>> \in Seq(Entry) /\ <<Retried(Current)>> \in Seq(Entry)
    BY <1>2
  <1> QED
    BY <1>1, <1>2, <1>3, <1>4

\* The job turns to another stage of the same entry.
LEMMA StageShape ==
    ASSUME ShapeInv, at \in Sending, at' \in Sending,
           at' \in Visiting => left' = Current.rounds,
           left' \in {left, Current.rounds},
           UNCHANGED <<queue, todo, kept, batch>>, won' \in Rounds \cup {0}
    PROVE  QueueOK' /\ JobInv'
  <1>1. todo' # <<>> /\ Current' = Current
    BY InHand DEF Current
  <1>2. Current.attempts < MaxAttempts /\ Current.rounds # {} /\ Current.rounds \subseteq Rounds
    BY InHand
  <1>3. QueueOK'
    BY <1>2 DEF ShapeInv, QueueOK
  <1>4. at' # "sign"
    BY DEF Sending
  <1>5. (Current.attempts < MaxAttempts)'
    BY <1>1, <1>2
  <1>6. at' \in Visiting => left' # {} /\ left' \subseteq Current'.rounds
    BY <1>1, <1>2
  <1> QED
    BY <1>1, <1>3, <1>4, <1>5, <1>6 DEF JobInv

\* The reservation and the intent rows.
LEMMA ReserveShapes ==
    ASSUME ShapeInv, reserve \/ recordIntent
    PROVE  ShapeInv'
  <1> USE DEF ShapeInv
  <1>1. at \in Sending
    BY DEF reserve, recordIntent, Sending
  <1>2. RailOK'
    BY DEF reserve, recordIntent, rail, RailOK
  <1>3. RestOK'
    <2>1. budget' \in [FaultKinds -> Nat]
      BY FaultShape DEF reserve, recordIntent, RestOK, FaultKinds
    <2> QED
      BY <2>1 DEF reserve, recordIntent, RestOK
  <1>4. ASSUME Advance(<<Current>>), UNCHANGED <<queue, batch, won>>
        PROVE  QueueOK' /\ JobInv'
    BY <1>1, <1>4, InHand, AdvanceShape
  <1>5. CASE reserve
    <2>1. GuardOK'
      BY <1>5 DEF reserve, guards, GuardOK
    <2>2. QueueOK' /\ JobInv'
      <3>1. CASE Advance(<<Current>>)
        BY <1>4, <1>5, <3>1 DEF reserve
      <3>2. CASE at' = "intent" /\ left' = Current.rounds /\ UNCHANGED <<todo, kept>>
        BY <1>1, <1>5, <3>2, StageShape DEF reserve, Sending, QueueOK
      <3> QED
        BY <1>5, <3>1, <3>2 DEF reserve
    <2> QED
      BY <1>2, <1>3, <2>1, <2>2
  <1>6. CASE recordIntent
    <2> DEFINE r == Min(left)
               row == IF marker[r] = "none" THEN "intent" ELSE marker[r]
    <2>1. r \in Rounds /\ at \in Visiting /\ at = "intent"
      BY <1>1, <1>6, InHand DEF recordIntent, Visiting
    <2>2. row \in {"none", "intent", "sent"}
      BY <2>1 DEF GuardOK
    <2>3. GuardOK'
      <3>1. CASE marker' = marker
        BY <1>6, <3>1 DEF recordIntent, GuardOK
      <3>2. CASE marker' = [marker EXCEPT ![r] = row]
        <4> HIDE DEF r, row
        <4> QED
          BY <1>6, <2>1, <2>2, <3>2, RowShape DEF recordIntent
      <3> QED
        BY <1>6, <3>1, <3>2 DEF recordIntent
    <2>4. QueueOK' /\ JobInv'
      <3>1. CASE Advance(<<Current>>)
        BY <1>4, <1>6, <3>1 DEF recordIntent
      <3>2. CASE /\ left' = left \ {r}
                 /\ at' = IF left = {r} THEN "send" ELSE "intent"
                 /\ UNCHANGED <<todo, kept>>
        BY <1>6, <2>1, <3>2, VisitShape DEF recordIntent
      <3> QED
        BY <1>6, <3>1, <3>2 DEF recordIntent
    <2> QED
      BY <1>2, <1>3, <2>3, <2>4
  <1> QED
    BY <1>5, <1>6

\* The send and its answer.
LEMMA SendShapes ==
    ASSUME ShapeInv,
           \/ \E outcome \in {"accepted", "unknown", "refused"} : broadcast(outcome)
           \/ notePublished \/ ambiguousSend
    PROVE  ShapeInv'
  <1> USE DEF ShapeInv
  <1>1. at \in Sending
    BY DEF broadcast, notePublished, ambiguousSend, Sending
  <1>2. RailOK'
    BY DEF broadcast, notePublished, ambiguousSend, rail, RailOK
  <1>3. ASSUME NEW outcome \in {"accepted", "unknown", "refused"}, broadcast(outcome)
        PROVE  ShapeInv'
    <2>1. GuardOK'
      BY <1>3 DEF broadcast, guards, GuardOK
    <2>2. QueueOK' /\ JobInv'
      BY <1>1, <1>3, StageShape DEF broadcast, Sending, Visiting, QueueOK
    <2>3. budget' \in [FaultKinds -> Nat]
      BY <1>3, FaultShape DEF broadcast, RestOK, FaultKinds
    <2>4. Append(chain, Current.rounds) \in Seq(Wire)
      BY <1>1, InHand DEF RestOK
    <2>5. RestOK'
      BY <1>3, <2>3, <2>4 DEF broadcast, RestOK
    <2> QED
      BY <1>2, <2>1, <2>2, <2>5
  <1>4. CASE notePublished
    <2>1. Current.rounds \subseteq Rounds /\ Current.rounds # {}
      BY <1>1, InHand
    <2>2. Max(Current.rounds) \in Rounds
      BY <2>1, RoundsAreNumbers
    <2>3. QueueOK' /\ JobInv'
      BY <1>1, <1>4, <2>2, StageShape DEF notePublished, Sending
    <2>4. GuardOK' /\ RestOK'
      BY <1>4, <2>1 DEF notePublished, GuardOK, RestOK
    <2> QED
      BY <1>2, <2>3, <2>4
  <1>5. CASE ambiguousSend
    <2>1. GuardOK'
      BY <1>5 DEF ambiguousSend, guards, GuardOK
    <2>2. QueueOK' /\ JobInv'
      BY <1>1, <1>5, InHand, AdvanceShape DEF ambiguousSend
    <2>3. RestOK'
      BY <1>1, <1>5, InHand, DeadLetterShape DEF ambiguousSend
    <2> QED
      BY <1>2, <2>1, <2>2, <2>3
  <1> QED
    BY <1>3, <1>4, <1>5

\* The rows after the answer: confirmed, or withdrawn.
LEMMA SettleShapes ==
    ASSUME ShapeInv,
           \/ markPublished \/ withdrawIntent
           \/ \E neverSent \in BOOLEAN : definitiveFailure(neverSent)
    PROVE  ShapeInv'
  <1> USE DEF ShapeInv
  <1>1. at \in Sending
    BY DEF markPublished, withdrawIntent, definitiveFailure, Sending
  <1>2. RailOK'
    BY DEF markPublished, withdrawIntent, definitiveFailure, rail, RailOK
  <1>3. RestOK'
    <2>1. budget' \in [FaultKinds -> Nat]
      BY FaultShape DEF markPublished, withdrawIntent, definitiveFailure, RestOK, FaultKinds
    <2> QED
      BY <2>1 DEF markPublished, withdrawIntent, definitiveFailure, RestOK
  <1>4. ASSUME NEW keep \in {<<>>, <<Retried(Current)>>}, Advance(keep),
               UNCHANGED <<queue, batch, won>>
        PROVE  QueueOK' /\ JobInv'
    BY <1>1, <1>4, InHand, AdvanceShape
  <1>5. ASSUME NEW neverSent \in BOOLEAN, definitiveFailure(neverSent)
        PROVE  ShapeInv'
    <2>1. GuardOK'
      BY <1>5 DEF definitiveFailure, guards, GuardOK
    <2>2. QueueOK' /\ JobInv'
      <3>1. CASE Advance(<<Retried(Current)>>)
        BY <1>4, <1>5, <3>1 DEF definitiveFailure
      <3>2. CASE at' = "withdraw" /\ left' = Current.rounds /\ UNCHANGED <<todo, kept>>
        BY <1>1, <1>5, <3>2, StageShape DEF definitiveFailure, Sending, QueueOK
      <3> QED
        BY <1>5, <3>1, <3>2 DEF definitiveFailure
    <2> QED
      BY <1>2, <1>3, <2>1, <2>2
  <1>6. ASSUME markPublished \/ withdrawIntent
        PROVE  ShapeInv'
    <2>1. PICK r : r = Min(left)
      OBVIOUS
    <2>2. r \in Rounds /\ at \in Visiting
      BY <1>1, <1>6, <2>1, InHand DEF markPublished, withdrawIntent, Visiting
    <2>3. PICK row \in {"none", "intent", "sent"} :
              marker' \in {marker, [marker EXCEPT ![r] = row]}
      BY <1>6, <2>1, <2>2 DEF markPublished, withdrawIntent, GuardOK
    <2>4. GuardOK'
      <3>1. CASE marker' = marker
        BY <1>6, <3>1 DEF markPublished, withdrawIntent, GuardOK
      <3>2. CASE marker' = [marker EXCEPT ![r] = row]
        BY <1>6, <2>2, <2>3, <3>2, RowShape DEF markPublished, withdrawIntent
      <3> QED
        BY <2>3, <3>1, <3>2
    <2>5. QueueOK' /\ JobInv'
      <3>1. CASE left # {r} /\ left' = left \ {r} /\ UNCHANGED <<at, todo, kept>>
        BY <1>6, <2>2, <3>1, VisitShape DEF markPublished, withdrawIntent
      <3>2. ASSUME NEW keep \in {<<>>, <<Retried(Current)>>}, Advance(keep)
            PROVE  QueueOK' /\ JobInv'
        BY <1>4, <1>6, <3>2 DEF markPublished, withdrawIntent
      <3> QED
        BY <1>6, <2>1, <3>1, <3>2 DEF markPublished, withdrawIntent
    <2> QED
      BY <1>2, <1>3, <2>4, <2>5
  <1> QED
    BY <1>5, <1>6

\* The start of a pass and its end.
LEMMA QueueShapes ==
    ASSUME ShapeInv, rebuildQueue \/ \E open \in BOOLEAN : processQueue(open)
    PROVE  ShapeInv'
  <1> USE DEF ShapeInv
  <1>1. RailOK'
    BY DEF processQueue, rebuildQueue, rail, RailOK
  <1>2. ASSUME NEW open \in BOOLEAN, processQueue(open)
        PROVE  ShapeInv'
    <2>1. QueueOK' /\ JobInv'
      BY <1>2 DEF processQueue, QueueOK, JobInv, Sending, Visiting
    <2>2. GuardOK' /\ RestOK'
      BY <1>2 DEF processQueue, guards, GuardOK, RestOK
    <2> QED
      BY <1>1, <2>1, <2>2
  <1>3. CASE rebuildQueue
    <2>1. queue' \in Seq(Entry)
      BY <1>3 DEF rebuildQueue, Rebuilt, QueueOK
    <2>2. QueueOK' /\ JobInv'
      BY <1>3, <2>1 DEF rebuildQueue, QueueOK, JobInv, Sending, Visiting
    <2>3. budget' \in [FaultKinds -> Nat]
      BY <1>3, FaultShape DEF rebuildQueue, RestOK, FaultKinds
    <2>4. RestOK'
      BY <1>3, <2>3 DEF rebuildQueue, RestOK
    <2>5. PICK q : q = queue'
      OBVIOUS
    <2>6. Cutoff(q) \in Int
      <3>1. PICK L : L = {Min(e.rounds) : e \in Range(q)}
        OBVIOUS
      <3>2. L \subseteq Rounds
        <4>1. ASSUME NEW e \in Range(q) PROVE Min(e.rounds) \in Rounds
          <5>1. e \in Entry
            BY <2>1, <2>5, <4>1 DEF Range
          <5>2. e.rounds \subseteq Rounds /\ e.rounds # {}
            BY <5>1 DEF Entry, Wire
          <5> QED
            BY <5>2, RoundsAreNumbers
        <4> QED
          BY <3>1, <4>1
      <3>3. IsFiniteSet(L)
        BY <3>2, PublisherAssumption, FS_Subset
      <3>4. PICK n : n = won - Retention
        OBVIOUS
      <3>5. n \in Int
        BY <3>4, PublisherAssumption DEF QueueOK
      <3>6. PICK M : M = {n} \cup L
        OBVIOUS
      <3>7. IsFiniteSet(M)
        <4>1. M = L \cup {n}
          BY <3>6
        <4> QED
          BY <3>3, <4>1, FS_AddElement
      <3>8. M # {} /\ M \subseteq Int
        BY <3>2, <3>5, <3>6, RoundsAreNumbers
      <3>9. Min(M) \in M
        BY <3>7, <3>8, MinIsMember
      <3>10. Cutoff(q) = Min(M)
        BY <3>1, <3>4, <3>6 DEF Cutoff
      <3> QED
        BY <3>8, <3>9, <3>10
    <2>7. pruning' \subseteq Nat
      <3>1. pruning' \subseteq pruning \cup (IF Cutoff(q) > 0 THEN {Cutoff(q)} ELSE {})
        BY <1>3, <2>5 DEF rebuildQueue
      <3>2. PICK c : c = Cutoff(q)
        OBVIOUS
      <3>3. pruning \subseteq Nat /\ c \in Int
        BY <2>6, <3>2 DEF GuardOK
      <3> QED
        BY <3>1, <3>2, <3>3
    <2>8. published' \subseteq Rounds
      BY <1>3 DEF rebuildQueue, GuardOK
    <2>9. GuardOK'
      BY <1>3, <2>7, <2>8 DEF rebuildQueue, GuardOK
    <2> QED
      BY <1>1, <2>2, <2>4, <2>9
  <1> QED
    BY <1>2, <1>3

\* Deleting marker rows.
LEMMA ForgetShape ==
    ASSUME NEW rounds, Forget(rounds), GuardOK
    PROVE  /\ marker' \in [Rounds -> {"none", "intent", "sent"}]
           /\ forgotten' \in [Rounds -> Nat]
  BY DEF Forget, GuardOK

\* Every step keeps the shapes.
LEMMA ShapeStep == ShapeInv /\ [Next]_vars => ShapeInv'
  <1> SUFFICES ASSUME ShapeInv, [Next]_vars
               PROVE  ShapeInv'
    OBVIOUS
  <1> USE DEF ShapeInv
  <1>1. ASSUME NEW r \in Rounds, onRoundFinalized(r)
        PROVE  ShapeInv'
    <2>1. budget' \in [FaultKinds -> Nat]
      BY <1>1, FaultShape DEF onRoundFinalized, RestOK, FaultKinds
    <2>2. RailOK'
      BY <1>1 DEF onRoundFinalized, Bounded, RailOK
    <2> QED
      BY <1>1, <2>1, <2>2 DEF onRoundFinalized, pass, guards, QueueOK, GuardOK, RestOK, JobInv, Current
  <1>2. CASE Assemble
    BY <1>2, AssembleShapes
  <1>3. CASE Publish
    BY <1>3, EntryShapes, ReadMarkerShapes, ReserveShapes, SendShapes, SettleShapes,
       QueueShapes DEF Publish
  <1>4. ASSUME NEW cutoff \in pruning, prunePublishedRounds(cutoff)
        PROVE  ShapeInv'
    <2>1. GuardOK'
      BY <1>4, ForgetShape DEF prunePublishedRounds, GuardOK
    <2> QED
      BY <1>4, <2>1 DEF prunePublishedRounds, rail, pass, RailOK, QueueOK, RestOK, JobInv, Current
  <1>5. ASSUME NEW wire \in Landable \ {{}}, noteBatchLanded(wire) \/ clearPublishedMarkers(wire)
        PROVE  ShapeInv'
    <2>1. wire \subseteq Rounds /\ wire # {}
      <3>1. CASE wire \in Range(chain)
        <4>1. PICK i \in DOMAIN chain : wire = chain[i]
          BY <3>1 DEF Range
        <4>2. wire \in Wire
          BY <4>1 DEF RestOK
        <4> QED
          BY <4>2 DEF Wire
      <3> QED
        BY <3>1, <1>5 DEF Landable, RailOK
    <2>2. CASE noteBatchLanded(wire)
      <3>1. Min(wire) \in Rounds /\ Max(wire) \in Rounds
        BY <2>1, RoundsAreNumbers
      <3>2. WindowOf(Min(wire)) \in Nat /\ WindowOf(Max(wire)) \in Nat
        BY <3>1, RoundsAreNumbers
      <3>3. WindowOf(Min(wire))..WindowOf(Max(wire)) \subseteq Nat
        BY <3>2
      <3>4. RailOK'
        BY <2>1, <2>2, <3>3 DEF noteBatchLanded, RailOK
      <3> QED
        BY <2>2, <3>4 DEF noteBatchLanded, pass, guards, QueueOK, GuardOK, RestOK, JobInv, Current
    <2>3. CASE clearPublishedMarkers(wire)
      <3>1. budget' \in [FaultKinds -> Nat]
        BY <2>3, FaultShape DEF clearPublishedMarkers, RestOK, FaultKinds
      <3>2. RailOK'
        BY <2>1, <2>3 DEF clearPublishedMarkers, RailOK
      <3>3. wire \in Wire
        BY <2>1 DEF Wire
      <3>4. GuardOK'
        BY <2>3, <3>3 DEF clearPublishedMarkers, GuardOK
      <3> QED
        BY <2>3, <3>1, <3>2, <3>4 DEF clearPublishedMarkers, pass, QueueOK, RestOK, JobInv, Current
    <2> QED
      BY <1>5, <2>2, <2>3
  <1>6. ASSUME NEW wire \in clearing, clearMarkerRows(wire)
        PROVE  ShapeInv'
    <2>1. GuardOK'
      BY <1>6, ForgetShape DEF clearMarkerRows, GuardOK
    <2> QED
      BY <1>6, <2>1 DEF clearMarkerRows, rail, pass, RailOK, QueueOK, RestOK, JobInv, Current
  <1>10. ASSUME NEW wire \in restoring, restoreBufferedRounds(wire)
         PROVE  ShapeInv'
    <2>1. RailOK' /\ GuardOK'
      BY <1>10 DEF restoreBufferedRounds, RailOK, GuardOK, Wire
    <2> QED
      BY <1>10, <2>1 DEF restoreBufferedRounds, pass, QueueOK, RestOK, JobInv, Current
  <1>7. CASE windowRolls
    <2>1. budget' \in [FaultKinds -> Nat]
      BY <1>7, FaultShape DEF windowRolls, RestOK, FaultKinds
    <2> QED
      BY <1>7, <2>1 DEF windowRolls, rail, pass, guards, RailOK, QueueOK, GuardOK, RestOK, JobInv, Current
  <1>8. ASSUME NEW hydrates \in BOOLEAN, restart(hydrates)
        PROVE  ShapeInv'
    <2>1. budget' \in [FaultKinds -> Nat]
      BY <1>8, FaultShape DEF restart, RestOK, FaultKinds
    <2>2. RailOK' /\ QueueOK' /\ RestOK' /\ JobInv'
      BY <1>8, <2>1 DEF restart, RailOK, QueueOK, RestOK, JobInv, Sending, Visiting
    <2>3. GuardOK'
      BY <1>8 DEF restart, hydratePublishedMarkers, GuardOK
    <2> QED
      BY <2>2, <2>3
  <1>9. CASE UNCHANGED vars
    BY <1>9 DEF vars, rail, pass, guards, RailOK, QueueOK, GuardOK, RestOK, JobInv, Current
  <1> QED
    BY <1>1, <1>2, <1>3, <1>4, <1>5, <1>6, <1>7, <1>8, <1>9, <1>10 DEF Next

\* The buffer, the queue, the pass, the marker rows and the wires keep their shapes:
\* an entry leaves the queue with at most maxAttempts tries and never without rounds.
THEOREM PublisherTypes == Spec => []TypeOK
  <1>1. Spec => []ShapeInv
    BY ShapeInit, ShapeStep, PTL DEF Spec
  <1>2. Spec => []SpendInv
    BY SpendInit, SpendStep, PTL DEF Spec
  <1> QED
    BY <1>1, <1>2, ShapesAreTypes, PTL

-----------------------------------------------------------------------------
(***************************************************************************)
(* No round is paid for twice.                                             *)
(*                                                                         *)
(* SentOnce says nothing of the entry in hand.  FreshInv says what entitles *)
(* it to be sent.  Every send stands against a marker row, one that is     *)
(* there or one that was deleted.  A round whose row was read and absent,  *)
(* and every round of an entry past the reads, has its sends covered by    *)
(* deleted rows alone; and a round whose intent was recorded has a row     *)
(* more than it has sends, which is the row the coming send stands         *)
(* against.  A deletion under the job's feet keeps the sum.                *)
(***************************************************************************)

\* The marker rows round r has or had.
Rows(r) == forgotten[r] + (IF marker[r] = "none" THEN 0 ELSE 1)

\* The stages at which the job relies on what it read.
Relying == {"reserve", "intent", "send", "refused", "withdraw"}

FreshInv ==
    /\ \A r \in Rounds : Sends(r) <= Rows(r)
    /\ at = "markers" => \A r \in Current.rounds \ left : Sends(r) <= forgotten[r]
    /\ at \in Relying => \A r \in Current.rounds : Sends(r) <= forgotten[r]
    /\ at = "intent" => \A r \in Current.rounds \ left : Sends(r) < Rows(r)
    /\ at = "send" => \A r \in Current.rounds : Sends(r) < Rows(r)

\* The sends of a round are a number.
LEMMA SendsShape ==
    ASSUME chain \in Seq(Wire), NEW r
    PROVE  Sends(r) \in Nat /\ IsFiniteSet({i \in DOMAIN chain : r \in chain[i]})
  <1>1. DOMAIN chain = 1..Len(chain) /\ Len(chain) \in Nat
    OBVIOUS
  <1>2. IsFiniteSet(1..Len(chain))
    BY <1>1, FS_Interval
  <1>3. IsFiniteSet({i \in DOMAIN chain : r \in chain[i]})
    BY <1>1, <1>2, FS_Subset
  <1> QED
    BY <1>3, FS_CardinalityType DEF Sends

\* They only change with the wires on chain.
LEMMA SendsKept ==
    ASSUME UNCHANGED chain
    PROVE  \A r \in Rounds : Sends(r)' = Sends(r)
  BY DEF Sends

\* A wire on chain is one more send of its rounds, and of no other.
LEMMA SendsGrow ==
    ASSUME chain \in Seq(Wire), NEW wire \in Wire, chain' = Append(chain, wire), NEW r
    PROVE  Sends(r)' = IF r \in wire THEN Sends(r) + 1 ELSE Sends(r)
  <1>1. PICK n : n = Len(chain) + 1
    OBVIOUS
  <1>2. PICK S : S = {i \in DOMAIN chain : r \in chain[i]}
    OBVIOUS
  <1>3. n \in Nat /\ n \notin DOMAIN chain /\ n \notin S
    BY <1>1, <1>2
  <1>4. DOMAIN chain' = DOMAIN chain \cup {n}
    BY <1>1
  <1>5. chain'[n] = wire /\ \A i \in DOMAIN chain : chain'[i] = chain[i]
    BY <1>1
  <1>6. {i \in DOMAIN chain' : r \in chain'[i]} = IF r \in wire THEN S \cup {n} ELSE S
    BY <1>2, <1>3, <1>4, <1>5
  <1>7. IsFiniteSet(S)
    BY <1>2, SendsShape
  <1>8. Cardinality(S \cup {n}) = Cardinality(S) + 1
    BY <1>3, <1>7, FS_AddElement
  <1> QED
    BY <1>2, <1>6, <1>8 DEF Sends

\* What FreshInv counts are numbers.
LEMMA FreshShape ==
    ASSUME ShapeInv, NEW r \in Rounds
    PROVE  /\ Sends(r) \in Nat /\ forgotten[r] \in Nat
           /\ Rows(r) \in {forgotten[r], forgotten[r] + 1}
           /\ Rows(r) \in Nat /\ forgotten[r] <= Rows(r)
           /\ marker[r] = "none" => Rows(r) = forgotten[r]
           /\ marker[r] # "none" => Rows(r) = forgotten[r] + 1
  <1>1. Sends(r) \in Nat
    BY SendsShape DEF ShapeInv, RestOK
  <1>2. forgotten[r] \in Nat
    BY DEF ShapeInv, GuardOK
  <1> QED
    BY <1>1, <1>2 DEF Rows

\* Nothing has been sent at first.
LEMMA FreshInit == Init => FreshInv
  <1> SUFFICES ASSUME Init
               PROVE  FreshInv
    OBVIOUS
  <1>1. ASSUME NEW r \in Rounds PROVE Sends(r) = 0 /\ Rows(r) = 0
    <2>1. {i \in DOMAIN chain : r \in chain[i]} = {}
      BY DEF Init
    <2>2. Sends(r) = 0
      BY <2>1, FS_EmptySet DEF Sends
    <2> QED
      BY <2>2 DEF Init, Rows
  <1> QED
    BY <1>1 DEF Init, FreshInv, Relying

\* A step that touches neither a row nor the chain, and leaves the job where it is or
\* takes it where it relies on nothing.
LEMMA FreshKept ==
    ASSUME FreshInv, UNCHANGED <<chain, marker, forgotten>>,
           \/ UNCHANGED <<at, todo, left>>
           \/ at' \notin Relying \cup {"markers"}
    PROVE  FreshInv'
  <1>1. \A r \in Rounds : Sends(r)' = Sends(r) /\ Rows(r)' = Rows(r)
    BY SendsKept DEF Rows
  <1>2. CASE at' \notin Relying \cup {"markers"}
    BY <1>1, <1>2 DEF FreshInv, Relying
  <1>3. CASE UNCHANGED <<at, todo, left>>
    <2>1. \A r : Sends(r)' = Sends(r) /\ Rows(r)' = Rows(r)
      BY DEF Sends, Rows
    <2> QED
      BY <2>1, <1>3 DEF FreshInv, Current
  <1> QED
    BY <1>2, <1>3

\* Deleting rows, at any moment: what leaves the table is counted as forgotten.
LEMMA FreshForget ==
    ASSUME ShapeInv, FreshInv, NEW rounds, Forget(rounds), UNCHANGED <<chain, at, todo, left>>
    PROVE  FreshInv'
  <1>1. ASSUME NEW r \in Rounds
        PROVE  Sends(r)' = Sends(r) /\ Rows(r)' = Rows(r) /\ forgotten[r] <= forgotten'[r]
    <2>1. Sends(r)' = Sends(r)
      BY SendsKept
    <2>2. forgotten[r] \in Nat
      BY FreshShape
    <2> QED
      BY <2>1, <2>2 DEF Forget, Rows
  <1>2. at \in Relying \cup {"markers"} => Current.rounds \subseteq Rounds
    BY InHand DEF Relying, Sending
  <1>3. \A r \in Rounds : Sends(r) \in Nat /\ forgotten[r] \in Nat /\ forgotten'[r] \in Nat
    BY FreshShape, ForgetShape DEF ShapeInv
  <1>4. Current' = Current
    BY DEF Current
  <1>5. \A r \in Rounds : Sends(r)' <= Rows(r)'
    BY <1>1 DEF FreshInv
  <1>6. ASSUME NEW r \in Rounds, Sends(r) <= forgotten[r] PROVE Sends(r)' <= forgotten'[r]
    BY <1>1, <1>3, <1>6
  <1>7. at = "markers" => \A r \in Current.rounds \ left : Sends(r)' <= forgotten'[r]
    BY <1>2, <1>6 DEF FreshInv
  <1>8. at \in Relying => \A r \in Current.rounds : Sends(r)' <= forgotten'[r]
    BY <1>2, <1>6 DEF FreshInv
  <1>9. at = "intent" => \A r \in Current.rounds \ left : Sends(r)' < Rows(r)'
    BY <1>1, <1>2 DEF FreshInv, Relying
  <1>10. at = "send" => \A r \in Current.rounds : Sends(r)' < Rows(r)'
    BY <1>1, <1>2 DEF FreshInv, Relying
  <1> QED
    BY <1>4, <1>5, <1>7, <1>8, <1>9, <1>10 DEF FreshInv

\* The marker reads: an absent row says that only deleted rows stand against the sends.
LEMMA FreshRead ==
    ASSUME ShapeInv, FreshInv, beginEntry \/ readMarker
    PROVE  FreshInv'
  <1>1. UNCHANGED <<chain, marker, forgotten>>
    BY DEF beginEntry, readMarker, guards
  <1>2. \A r : Sends(r)' = Sends(r) /\ Rows(r)' = Rows(r) /\ forgotten'[r] = forgotten[r]
    BY <1>1 DEF Sends, Rows
  <1>3. CASE at' = "entry"
    BY <1>1, <1>3, FreshKept DEF Relying
  <1>4. CASE beginEntry
    <2>1. Current' = Current /\ left' = Current.rounds /\ at' = "markers"
      BY <1>4 DEF beginEntry, Current
    <2> QED
      BY <1>2, <2>1 DEF FreshInv, Relying
  <1>5. CASE readMarker /\ at' # "entry"
    <2>1. PICK r : r = Min(left)
      OBVIOUS
    <2>2. at \in Sending /\ at \in Visiting /\ at = "markers"
      BY <1>5 DEF readMarker, Sending, Visiting
    <2>3. r \in left /\ r \in Rounds /\ Current.rounds \subseteq Rounds
      BY <2>1, <2>2, InHand
    <2>4. /\ marker[r] = "none" /\ left' = left \ {r}
          /\ at' = IF left = {r} THEN "reserve" ELSE "markers"
          /\ Current' = Current
      BY <1>5, <2>1 DEF readMarker, Advance, getPublishedMarker, Current
    <2>5. Sends(r) <= forgotten[r]
      BY <2>3, <2>4, FreshShape DEF FreshInv
    <2>6. \A s \in Current.rounds \ left : Sends(s) <= forgotten[s]
      BY <2>2 DEF FreshInv
    <2>7. \A s \in Current.rounds \ left' : Sends(s) <= forgotten[s]
      BY <2>4, <2>5, <2>6
    <2>8. left = {r} => left' = {}
      BY <2>4
    <2>9. at' \in Relying => at' = "reserve" /\ left' = {}
      BY <2>4, <2>8 DEF Relying
    <2>10. at' # "intent" /\ at' # "send"
      BY <2>4
    <2>11. \A s \in Rounds : Sends(s) <= Rows(s)
      BY DEF FreshInv
    <2> QED
      BY <1>2, <2>4, <2>7, <2>9, <2>10, <2>11 DEF FreshInv
  <1> QED
    BY <1>3, <1>4, <1>5

\* The reservation begins the visit that records the intents.
LEMMA FreshReserve ==
    ASSUME ShapeInv, FreshInv, reserve
    PROVE  FreshInv'
  <1>1. UNCHANGED <<chain, marker, forgotten>> /\ at = "reserve"
    BY DEF reserve, guards
  <1>2. \A r : Sends(r)' = Sends(r) /\ Rows(r)' = Rows(r) /\ forgotten'[r] = forgotten[r]
    BY <1>1 DEF Sends, Rows
  <1>3. CASE at' = "entry"
    BY <1>1, <1>3, FreshKept DEF Relying
  <1>4. CASE at' = "intent" /\ left' = Current.rounds /\ UNCHANGED todo
    <2>1. Current' = Current
      BY <1>4 DEF Current
    <2>2. \A r \in Current.rounds : Sends(r) <= forgotten[r]
      BY <1>1 DEF FreshInv, Relying
    <2>3. \A r \in Rounds : Sends(r) <= Rows(r)
      BY DEF FreshInv
    <2> QED
      BY <1>2, <1>4, <2>1, <2>2, <2>3 DEF FreshInv
  <1> QED
    BY <1>3, <1>4 DEF reserve, Advance

\* A row set by the job, where the round's sends are covered by deleted rows or the row
\* stays one.
LEMMA FreshRow ==
    ASSUME ShapeInv, FreshInv, NEW r \in Rounds, NEW row,
           marker' \in {marker, [marker EXCEPT ![r] = row]},
           UNCHANGED <<chain, forgotten>>,
           (row # "none") \/ marker[r] = "none" \/ Sends(r) <= forgotten[r]
    PROVE  \A s \in Rounds : Sends(s)' <= Rows(s)'
  <1> SUFFICES ASSUME NEW s \in Rounds
               PROVE  Sends(s)' <= Rows(s)'
    OBVIOUS
  <1>1. Sends(s)' = Sends(s) /\ forgotten'[s] = forgotten[s]
    BY SendsKept
  <1>2. Sends(s) <= Rows(s)
    BY DEF FreshInv
  <1>3. CASE s # r \/ marker' = marker
    <2>1. marker'[s] = marker[s]
      BY <1>3 DEF ShapeInv, GuardOK
    <2> QED
      BY <1>1, <1>2, <2>1 DEF Rows
  <1>4. CASE s = r /\ marker' = [marker EXCEPT ![r] = row]
    <2>1. marker'[r] = row
      BY <1>4 DEF ShapeInv, GuardOK
    <2>2. Sends(r) \in Nat /\ forgotten[r] \in Nat
      BY FreshShape
    <2>3. CASE row # "none"
      <3>1. Rows(r)' = forgotten[r] + 1
        BY <2>1, <2>3 DEF Rows
      <3>2. Rows(r) <= forgotten[r] + 1 /\ Rows(r) \in Nat
        BY FreshShape, <2>2
      <3> QED
        BY <1>1, <1>2, <1>4, <2>2, <3>1, <3>2
    <2>4. CASE row = "none"
      <3>1. Sends(r) <= forgotten[r]
        BY <1>2, <1>4, <2>4, FreshShape
      <3>2. Rows(r)' = forgotten[r]
        BY <2>1, <2>2, <2>4 DEF Rows
      <3> QED
        BY <1>1, <1>4, <3>1, <3>2
    <2> QED
      BY <2>3, <2>4
  <1> QED
    BY <1>3, <1>4

\* The intent rows: each is the row the coming send will stand against.
LEMMA FreshIntent ==
    ASSUME ShapeInv, FreshInv, recordIntent
    PROVE  FreshInv'
  <1>1. PICK r : r = Min(left)
    OBVIOUS
  <1>2. at \in Sending /\ at \in Visiting /\ at = "intent" /\ at \in Relying
    BY DEF recordIntent, Sending, Visiting, Relying
  <1>3. r \in left /\ r \in Rounds /\ Current.rounds \subseteq Rounds
    BY <1>1, <1>2, InHand
  <1>4. PICK row : row = IF marker[r] = "none" THEN "intent" ELSE marker[r]
    OBVIOUS
  <1>5. row # "none"
    BY <1>4
  <1>6. UNCHANGED <<chain, forgotten>> /\ marker' \in {marker, [marker EXCEPT ![r] = row]}
    BY <1>1, <1>4 DEF recordIntent
  <1>7. \A s \in Rounds : Sends(s)' <= Rows(s)'
    BY <1>3, <1>5, <1>6, FreshRow
  <1>8. CASE at' = "entry"
    BY <1>7, <1>8 DEF FreshInv, Relying
  <1>9. CASE at' # "entry"
    <2>1. /\ marker' = [marker EXCEPT ![r] = row]
          /\ left' = left \ {r}
          /\ at' = IF left = {r} THEN "send" ELSE "intent"
          /\ Current' = Current
      BY <1>1, <1>4, <1>9 DEF recordIntent, Advance, Current
    <2>2. \A s \in Rounds : Sends(s)' = Sends(s) /\ forgotten'[s] = forgotten[s]
      BY <1>6, SendsKept
    <2>3. \A s \in Current.rounds : Sends(s)' <= forgotten'[s]
      BY <1>2, <1>3, <2>2 DEF FreshInv
    <2>4. ASSUME NEW s \in Current.rounds, s \notin left'
          PROVE  Sends(s)' < Rows(s)'
      <3>1. s \in Rounds
        BY <1>3
      <3>2. CASE s = r
        <4>1. marker'[r] = row
          BY <1>3, <2>1 DEF ShapeInv, GuardOK
        <4>2. Rows(r)' = forgotten'[r] + 1
          BY <1>5, <4>1 DEF Rows
        <4>3. Sends(r)' \in Nat /\ forgotten'[r] \in Nat
          BY <1>3, <2>2, FreshShape
        <4> QED
          BY <2>3, <3>2, <4>2, <4>3
      <3>3. CASE s # r
        <4>1. s \notin left
          BY <2>1, <2>4, <3>3
        <4>2. Sends(s) < Rows(s)
          BY <1>2, <4>1 DEF FreshInv
        <4>3. marker'[s] = marker[s]
          BY <2>1, <3>1, <3>3 DEF ShapeInv, GuardOK
        <4> QED
          BY <2>2, <3>1, <4>2, <4>3 DEF Rows
      <3> QED
        BY <3>2, <3>3
    <2>5. at' = "send" => left' = {}
      BY <2>1
    <2>6. at' \in {"send", "intent"}
      BY <2>1
    <2> QED
      BY <1>7, <2>1, <2>3, <2>4, <2>5, <2>6 DEF FreshInv
  <1> QED
    BY <1>8, <1>9

\* The send: every round of the wire has a row to spare for it.
LEMMA FreshSend ==
    ASSUME ShapeInv, FreshInv, NEW outcome \in {"accepted", "unknown", "refused"},
           broadcast(outcome)
    PROVE  FreshInv'
  <1>1. /\ at = "send" /\ at' = outcome /\ Current' = Current
        /\ UNCHANGED <<marker, forgotten, todo, left>>
    BY DEF broadcast, guards, Current
  <1>2. at \in Sending /\ at \in Relying
    BY <1>1 DEF Sending, Relying
  <1>3. Current.rounds \in Wire /\ Current.rounds \subseteq Rounds /\ chain \in Seq(Wire)
    BY <1>2, InHand DEF ShapeInv, RestOK
  <1>4. \A r : Rows(r)' = Rows(r) /\ forgotten'[r] = forgotten[r]
    BY <1>1 DEF Rows
  <1>5. CASE outcome = "refused"
    <2>1. chain' = chain
      BY <1>5 DEF broadcast
    <2>2. \A r \in Rounds : Sends(r)' = Sends(r)
      BY <2>1, SendsKept
    <2>3. \A r \in Rounds : Sends(r)' <= Rows(r)'
      BY <1>4, <2>2 DEF FreshInv
    <2>4. \A r \in Current.rounds : Sends(r)' <= forgotten'[r]
      BY <1>2, <1>3, <1>4, <2>2 DEF FreshInv
    <2> QED
      BY <1>1, <1>5, <2>3, <2>4 DEF FreshInv
  <1>6. CASE outcome # "refused"
    <2>1. chain' = Append(chain, Current.rounds)
      BY <1>6 DEF broadcast
    <2>2. ASSUME NEW r \in Rounds PROVE Sends(r)' <= Rows(r)'
      <3>1. PICK wire \in Wire : wire = Current.rounds
        BY <1>3
      <3>2. Sends(r)' = IF r \in wire THEN Sends(r) + 1 ELSE Sends(r)
        BY <1>3, <2>1, <3>1, SendsGrow
      <3>3. Sends(r) \in Nat /\ Rows(r) \in Nat /\ Sends(r) <= Rows(r)
        BY FreshShape DEF FreshInv
      <3>4. r \in wire => Sends(r) < Rows(r)
        BY <1>1, <3>1 DEF FreshInv
      <3> QED
        BY <1>4, <3>2, <3>3, <3>4
    <2>3. at' \notin Relying /\ at' # "markers" /\ at' # "intent" /\ at' # "send"
      BY <1>1, <1>6 DEF Relying
    <2> QED
      BY <2>2, <2>3 DEF FreshInv
  <1> QED
    BY <1>5, <1>6

\* After the answer: a confirmed row stays a row, and only a wire that never left has
\* its rows withdrawn.
LEMMA FreshSettle ==
    ASSUME ShapeInv, FreshInv,
           \/ markPublished \/ withdrawIntent
           \/ \E neverSent \in BOOLEAN : definitiveFailure(neverSent)
    PROVE  FreshInv'
  <1>1. ASSUME NEW neverSent \in BOOLEAN, definitiveFailure(neverSent)
        PROVE  FreshInv'
    <2>1. UNCHANGED <<chain, marker, forgotten>> /\ at = "refused" /\ at \in Relying
      BY <1>1 DEF definitiveFailure, guards, Relying
    <2>2. CASE at' = "entry"
      BY <2>1, <2>2, FreshKept DEF Relying
    <2>3. CASE at' = "withdraw" /\ UNCHANGED todo
      <3>1. \A r : Sends(r)' = Sends(r) /\ Rows(r)' = Rows(r) /\ forgotten'[r] = forgotten[r]
        BY <2>1 DEF Sends, Rows
      <3>2. Current' = Current
        BY <2>3 DEF Current
      <3>3. \A r \in Current.rounds : Sends(r) <= forgotten[r]
        BY <2>1 DEF FreshInv
      <3>4. \A r \in Rounds : Sends(r) <= Rows(r)
        BY DEF FreshInv
      <3> QED
        BY <2>3, <3>1, <3>2, <3>3, <3>4 DEF FreshInv
    <2> QED
      BY <1>1, <2>2, <2>3 DEF definitiveFailure, Advance
  <1>2. ASSUME markPublished \/ withdrawIntent
        PROVE  FreshInv'
    <2>1. PICK r : r = Min(left)
      OBVIOUS
    <2>2. at \in Sending /\ at \in Visiting /\ at \in {"mark", "withdraw"}
      BY <1>2 DEF markPublished, withdrawIntent, Sending, Visiting
    <2>3. r \in left /\ r \in Rounds /\ left \subseteq Current.rounds
      BY <2>1, <2>2, InHand DEF ShapeInv, JobInv
    <2>4. UNCHANGED <<chain, forgotten>>
      BY <1>2 DEF markPublished, withdrawIntent
    <2>5. at = "withdraw" => \A s \in Current.rounds : Sends(s) <= forgotten[s]
      BY DEF FreshInv, Relying
    <2>6. PICK row : /\ marker' \in {marker, [marker EXCEPT ![r] = row]}
                     /\ row # "none" \/ marker[r] = "none" \/ at = "withdraw"
      <3>1. CASE markPublished
        <4>1. marker' \in {marker, [marker EXCEPT ![r] = IF marker[r] = "none" THEN "none" ELSE "sent"]}
          BY <2>1, <3>1 DEF markPublished
        <4>2. (IF marker[r] = "none" THEN "none" ELSE "sent") # "none" \/ marker[r] = "none"
          OBVIOUS
        <4> QED
          BY <4>1, <4>2
      <3>2. CASE withdrawIntent
        <4>1. /\ marker' \in {marker, [marker EXCEPT ![r] = IF marker[r] = "intent" THEN "none" ELSE marker[r]]}
              /\ at = "withdraw"
          BY <2>1, <3>2 DEF withdrawIntent
        <4> QED
          BY <4>1
      <3> QED
        BY <1>2, <3>1, <3>2
    <2>7. \A s \in Rounds : Sends(s)' <= Rows(s)'
      BY <2>3, <2>4, <2>5, <2>6, FreshRow
    <2>8. at' = "entry" \/ (at' = at /\ UNCHANGED todo)
      BY <1>2 DEF markPublished, withdrawIntent, Advance
    <2>9. CASE at' = "withdraw"
      <3>1. at = "withdraw" /\ Current' = Current
        BY <2>8, <2>9 DEF Current
      <3>2. \A s \in Current.rounds : Sends(s)' <= forgotten'[s]
        BY <2>4, <2>5, <3>1 DEF Sends
      <3> QED
        BY <2>7, <2>9, <3>1, <3>2 DEF FreshInv
    <2>10. CASE at' # "withdraw"
      <3>1. at' \in {"entry", "mark"}
        BY <2>2, <2>8, <2>10
      <3> QED
        BY <2>7, <3>1 DEF FreshInv, Relying
    <2> QED
      BY <2>9, <2>10
  <1> QED
    BY <1>1, <1>2

\* Every step keeps it.
LEMMA FreshStep == ShapeInv /\ FreshInv /\ [Next]_vars => FreshInv'
  <1> SUFFICES ASSUME ShapeInv, FreshInv, [Next]_vars
               PROVE  FreshInv'
    OBVIOUS
  <1>1. ASSUME NEW r \in Rounds, onRoundFinalized(r)
        PROVE  FreshInv'
    BY <1>1, FreshKept DEF onRoundFinalized, pass, guards
  <1>2. CASE Assemble
    <2>1. UNCHANGED <<chain, marker, forgotten>>
      BY <1>2 DEF Assemble, passOver, assembleWindow, retireExhaustedWindow, declineTakeover,
         runTakeoverAttempt, Propose, signingFails, enqueueWindowWires, guards
    <2>2. UNCHANGED <<at, todo, left>> \/ at' \in {"sign", "idle", "gates"}
      BY <1>2 DEF Assemble, passOver, assembleWindow, retireExhaustedWindow, declineTakeover,
         runTakeoverAttempt, Propose, signingFails, enqueueWindowWires, pass
    <2> QED
      BY <2>1, <2>2, FreshKept DEF Relying
  <1>3. CASE Publish
    <2>1. CASE \E open \in BOOLEAN : processQueue(open)
      BY <2>1, FreshKept DEF processQueue, guards, Relying
    <2>2. CASE abandonEntry \/ dropEntry \/ ambiguousSend
      BY <2>2, FreshKept DEF abandonEntry, dropEntry, ambiguousSend, Advance, guards, Relying
    <2>3. CASE notePublished \/ rebuildQueue
      BY <2>3, FreshKept DEF notePublished, rebuildQueue, Relying
    <2> QED
      BY <1>3, <2>1, <2>2, <2>3, FreshRead, FreshReserve, FreshIntent, FreshSend, FreshSettle
         DEF Publish
  <1>4. ASSUME NEW cutoff \in pruning, prunePublishedRounds(cutoff)
        PROVE  FreshInv'
    BY <1>4, FreshForget DEF prunePublishedRounds, pass
  <1>5. ASSUME NEW wire \in Landable \ {{}}, noteBatchLanded(wire) \/ clearPublishedMarkers(wire)
        PROVE  FreshInv'
    BY <1>5, FreshKept DEF noteBatchLanded, clearPublishedMarkers, pass, guards
  <1>6. ASSUME NEW wire \in clearing, clearMarkerRows(wire)
        PROVE  FreshInv'
    BY <1>6, FreshForget DEF clearMarkerRows, pass
  <1>10. ASSUME NEW wire \in restoring, restoreBufferedRounds(wire)
         PROVE  FreshInv'
    BY <1>10, FreshKept DEF restoreBufferedRounds, pass
  <1>7. CASE windowRolls
    BY <1>7, FreshKept DEF windowRolls, pass, guards
  <1>8. ASSUME NEW hydrates \in BOOLEAN, restart(hydrates)
        PROVE  FreshInv'
    BY <1>8, FreshKept DEF restart, Relying
  <1>9. CASE UNCHANGED vars
    BY <1>9, FreshKept DEF vars, pass, guards
  <1> QED
    BY <1>1, <1>2, <1>3, <1>4, <1>5, <1>6, <1>7, <1>8, <1>9, <1>10 DEF Next

\* No round is paid for twice unless its marker row was deleted in between, through
\* crashes at every await, failed queries, lost answers, takeovers and other splits
\* (publish_entry.js: a double DOGE spend is unreachable).
THEOREM NoRoundPaidTwice == Spec => []SentOnce
  <1>1. ShapeInv /\ FreshInv => SentOnce
    <2> SUFFICES ASSUME ShapeInv, FreshInv, NEW r \in Rounds
                 PROVE  Sends(r) <= 1 + forgotten[r]
      BY DEF SentOnce
    <2>1. Sends(r) \in Nat /\ forgotten[r] \in Nat /\ Rows(r) \in Nat /\ Sends(r) <= Rows(r)
      BY FreshShape DEF FreshInv
    <2>2. Rows(r) <= forgotten[r] + 1
      BY <2>1, FreshShape
    <2> QED
      BY <2>1, <2>2
  <1>2. Spec => []ShapeInv
    BY ShapeInit, ShapeStep, PTL DEF Spec
  <1>3. Spec => []FreshInv
    BY <1>2, FreshInit, FreshStep, PTL DEF Spec
  <1> QED
    BY <1>1, <1>2, <1>3, PTL

-----------------------------------------------------------------------------
(***************************************************************************)
(* No entry is lost.                                                       *)
(*                                                                         *)
(* The rewrite of the queue at the end of a pass forgets the entries it    *)
(* read and did not keep.  AccountedInv says what became of each: it is    *)
(* still to do, kept, dead-lettered, or a wire of its window reached the   *)
(* node.  The last is claimed by guards that do not name the wire, so      *)
(* ReachedInv follows it from the send to the memory of this process, to   *)
(* the marker rows and, through a restart, back; and WindowInv says that   *)
(* whatever is queued or sent stays within one window.                     *)
(***************************************************************************)

OneWindow(rounds) == \A r, s \in rounds : WindowOf(r) = WindowOf(s)

\* A wire of round r's window reached the node.
Reached(r) == \E i \in DOMAIN chain : \E s \in chain[i] : WindowOf(s) = WindowOf(r)

WindowInv ==
    /\ OneWindow(batch)
    /\ \A e \in Range(queue) \cup Range(todo) : OneWindow(e.rounds)
    /\ \A e \in Range(kept) : OneWindow(e.rounds)
    /\ \A i \in DOMAIN chain : OneWindow(chain[i])

GuardsReached ==
    /\ \A r \in published : Reached(r)
    /\ \A r \in Rounds : marker[r] = "sent" => Reached(r)

ReachedInv ==
    /\ GuardsReached
    /\ at \in {"accepted", "mark"} => \A r \in Current.rounds : Reached(r)

\* What became of a queued wire.
Accounted(rounds) ==
    \/ \E f \in Range(todo) : f.rounds = rounds
    \/ \E f \in Range(kept) : f.rounds = rounds
    \/ \E d \in dead : d.rounds = rounds
    \/ \E r \in rounds : Reached(r)

\* A pass is under way.
Passing == Sending \cup {"entry"}

AccountedInv == at \in Passing => \A e \in Range(queue) : Accounted(e.rounds)

LossInv == WindowInv /\ ReachedInv /\ AccountedInv

\* The entries of two sequences in a row.
LEMMA RangeOfConcat ==
    ASSUME NEW S, NEW s \in Seq(S), NEW t \in Seq(S)
    PROVE  Range(s \o t) = Range(s) \cup Range(t)
  <1>1. ASSUME NEW x \in Range(s \o t) PROVE x \in Range(s) \cup Range(t)
    <2>1. PICK i \in DOMAIN (s \o t) : x = (s \o t)[i]
      BY <1>1 DEF Range
    <2>2. CASE i <= Len(s)
      <3>1. i \in DOMAIN s /\ x = s[i]
        BY <2>1, <2>2
      <3> QED
        BY <3>1 DEF Range
    <2>3. CASE i > Len(s)
      <3>1. i - Len(s) \in DOMAIN t /\ x = t[i - Len(s)]
        BY <2>1, <2>3
      <3> QED
        BY <3>1 DEF Range
    <2>4. i \in Nat /\ Len(s) \in Nat
      BY <2>1
    <2> QED
      BY <2>2, <2>3, <2>4
  <1>2. ASSUME NEW x \in Range(s) PROVE x \in Range(s \o t)
    <2>1. PICK i \in DOMAIN s : x = s[i]
      BY <1>2 DEF Range
    <2>2. i \in DOMAIN (s \o t) /\ (s \o t)[i] = x
      BY <2>1
    <2> QED
      BY <2>2 DEF Range
  <1>3. ASSUME NEW x \in Range(t) PROVE x \in Range(s \o t)
    <2>1. PICK i \in DOMAIN t : x = t[i]
      BY <1>3 DEF Range
    <2>2. i + Len(s) \in DOMAIN (s \o t) /\ (s \o t)[i + Len(s)] = x
      BY <2>1
    <2> QED
      BY <2>2 DEF Range
  <1> QED
    BY <1>1, <1>2, <1>3

\* The entries of a sequence are the first and the rest.
LEMMA RangeOfTail ==
    ASSUME NEW S, NEW s \in Seq(S), s # <<>>
    PROVE  Range(s) = {Head(s)} \cup Range(Tail(s))
  <1>1. ASSUME NEW x \in Range(s) PROVE x \in {Head(s)} \cup Range(Tail(s))
    <2>1. PICK i \in DOMAIN s : x = s[i]
      BY <1>1 DEF Range
    <2>2. CASE i = 1
      BY <2>1, <2>2
    <2>3. CASE i # 1
      <3>1. i - 1 \in DOMAIN Tail(s) /\ Tail(s)[i - 1] = x
        BY <2>1, <2>3
      <3> QED
        BY <3>1 DEF Range
    <2> QED
      BY <2>2, <2>3
  <1>2. Head(s) \in Range(s)
    <2>1. 1 \in DOMAIN s /\ Head(s) = s[1]
      OBVIOUS
    <2> QED
      BY <2>1 DEF Range
  <1>3. ASSUME NEW x \in Range(Tail(s)) PROVE x \in Range(s)
    <2>1. PICK i \in DOMAIN Tail(s) : x = Tail(s)[i]
      BY <1>3 DEF Range
    <2>2. i + 1 \in DOMAIN s /\ s[i + 1] = x
      BY <2>1
    <2> QED
      BY <2>2 DEF Range
  <1> QED
    BY <1>1, <1>2, <1>3

\* The wires on chain stay there.
LEMMA ReachedStays ==
    ASSUME chain \in Seq(Wire), NEW r, Reached(r),
           chain' = chain \/ \E wire \in Wire : chain' = Append(chain, wire)
    PROVE  Reached(r)'
  <1>1. PICK i \in DOMAIN chain : \E s \in chain[i] : WindowOf(s) = WindowOf(r)
    BY DEF Reached
  <1>2. i \in DOMAIN chain' /\ chain'[i] = chain[i]
    BY <1>1
  <1> QED
    BY <1>1, <1>2 DEF Reached

\* A step that leaves queue and pass alone and only lifts guards.
LEMMA LossQuiet ==
    ASSUME LossInv, UNCHANGED <<queue, todo, kept, dead, chain, at, batch>>,
           published' \subseteq published,
           \A r \in Rounds : marker'[r] = "sent" => marker[r] = "sent"
    PROVE  LossInv'
  <1> USE DEF LossInv
  <1>1. WindowInv'
    BY DEF WindowInv
  <1>2. ReachedInv'
    BY DEF ReachedInv, GuardsReached, Reached, Current
  <1>3. AccountedInv'
    BY DEF AccountedInv, Accounted, Reached
  <1> QED
    BY <1>1, <1>2, <1>3

\* A step outside a pass: what is read and signed stays within a window.
LEMMA LossOutside ==
    ASSUME LossInv, UNCHANGED <<chain, published, marker, todo, kept>>, at' \notin Passing,
           OneWindow(batch)', \A e \in Range(queue)' : OneWindow(e.rounds)
    PROVE  LossInv'
  <1> USE DEF LossInv
  <1>1. WindowInv'
    BY DEF WindowInv, OneWindow
  <1>2. ReachedInv'
    BY DEF ReachedInv, GuardsReached, Reached, Passing, Sending
  <1>3. AccountedInv'
    BY DEF AccountedInv
  <1> QED
    BY <1>1, <1>2, <1>3

\* The entry in hand stays in hand, and its wire may reach the node.
LEMMA LossStay ==
    ASSUME LossInv, chain \in Seq(Wire), todo \in Seq(Entry), at \in Passing, todo # <<>>,
           UNCHANGED <<queue, todo, kept, dead, batch>>,
           chain' = chain \/ chain' = Append(chain, Current.rounds),
           GuardsReached',
           at' \in {"accepted", "mark"} => \A r \in Current.rounds : Reached(r)'
    PROVE  LossInv'
  <1> USE DEF LossInv
  <1>1. Current \in Range(todo) /\ Current.rounds \in Wire
    BY CurrentShape, RangeOfTail DEF Current
  <1>2. WindowInv'
    <2>1. OneWindow(Current.rounds)
      BY <1>1 DEF WindowInv
    <2>2. ASSUME NEW i \in DOMAIN chain' PROVE OneWindow(chain'[i])
      <3>1. (i \in DOMAIN chain /\ chain'[i] = chain[i]) \/ chain'[i] = Current.rounds
        BY <1>1
      <3> QED
        BY <2>1, <3>1 DEF WindowInv
    <2> QED
      BY <2>2 DEF WindowInv, OneWindow
  <1>3. ReachedInv'
    BY DEF ReachedInv, Current
  <1>4. AccountedInv'
    <2> SUFFICES ASSUME NEW e \in Range(queue)
                 PROVE  Accounted(e.rounds)'
      BY DEF AccountedInv
    <2>1. Accounted(e.rounds)
      BY DEF AccountedInv
    <2>2. \A r : Reached(r) => Reached(r)'
      BY <1>1, ReachedStays
    <2> QED
      BY <2>1, <2>2 DEF Accounted
  <1> QED
    BY <1>2, <1>3, <1>4

\* The job is done with the entry in hand: it keeps it, dead-letters it, or has seen
\* a wire of its window reach the node.
LEMMA LossAdvance ==
    ASSUME LossInv, QueueOK, NEW keep \in Seq(Entry), at \in Passing, todo # <<>>,
           Advance(keep), UNCHANGED <<queue, chain, batch>>, dead \subseteq dead',
           \A f \in Range(keep) : f.rounds = Current.rounds,
           \/ Range(keep) # {}
           \/ \E d \in dead' : d.rounds = Current.rounds
           \/ \E r \in Current.rounds : Reached(r),
           GuardsReached'
    PROVE  LossInv'
  <1> USE DEF LossInv
  <1>1. Range(todo) = {Current} \cup Range(Tail(todo))
    BY RangeOfTail DEF QueueOK, Current
  <1>2. Range(todo') = Range(Tail(todo)) /\ Range(kept') = Range(kept) \cup Range(keep)
    BY RangeOfConcat DEF Advance, QueueOK
  <1>3. at' = "entry"
    BY DEF Advance
  <1>4. WindowInv'
    BY <1>1, <1>2 DEF WindowInv, OneWindow
  <1>5. ReachedInv'
    BY <1>3 DEF ReachedInv
  <1>6. AccountedInv'
    <2> SUFFICES ASSUME NEW e \in Range(queue)
                 PROVE  Accounted(e.rounds)'
      BY DEF AccountedInv
    <2>1. Accounted(e.rounds)
      BY DEF AccountedInv
    <2>2. \A r : Reached(r)' <=> Reached(r)
      BY DEF Reached
    <2>3. CASE e.rounds = Current.rounds
      BY <1>2, <2>2, <2>3 DEF Accounted
    <2>4. CASE e.rounds # Current.rounds
      BY <1>1, <1>2, <2>1, <2>2, <2>4 DEF Accounted
    <2> QED
      BY <2>3, <2>4
  <1> QED
    BY <1>4, <1>5, <1>6

\* Nothing is queued at first.
LEMMA LossInit == Init => LossInv
  BY DEF Init, LossInv, WindowInv, ReachedInv, GuardsReached, AccountedInv, OneWindow, Range,
     Passing, Sending

\* The wires of a split are parts of it.
LEMMA SplitsArePart ==
    ASSUME NEW rounds, NEW wires \in Splits(rounds)
    PROVE  \A i \in 1..Len(wires) : wires[i] \subseteq rounds
  <1>1. CASE wires = <<rounds>>
    BY <1>1
  <1>2. ASSUME NEW cut \in rounds,
               wires = <<{r \in rounds : r < cut}, {r \in rounds : r >= cut}>>
        PROVE  \A i \in 1..Len(wires) : wires[i] \subseteq rounds
    BY <1>2
  <1> QED
    BY <1>1, <1>2 DEF Splits

\* Assembling: a window's rounds are of one window, and so are the parts it is split in.
LEMMA LossAssemble ==
    ASSUME ShapeInv, LossInv, Assemble
    PROVE  LossInv'
  <1> USE DEF LossInv
  <1>1. UNCHANGED <<dead, chain, published, marker, todo, kept>>
    BY DEF Assemble, passOver, assembleWindow, retireExhaustedWindow, declineTakeover,
       runTakeoverAttempt, Propose, signingFails, enqueueWindowWires, guards, pass
  <1>2. CASE UNCHANGED <<queue, at, batch>>
    BY <1>1, <1>2, LossQuiet
  <1>3. ASSUME NEW w \in Windows, Propose(w) PROVE LossInv'
    <2>1. OneWindow(batch)'
      BY <1>3 DEF Propose, OneWindow, WindowRounds
    <2>2. \A e \in Range(queue)' : OneWindow(e.rounds)
      BY <1>3 DEF Propose, WindowInv
    <2> QED
      BY <1>1, <1>3, <2>1, <2>2, LossOutside DEF Propose, Passing, Sending
  <1>4. CASE signingFails
    BY <1>1, <1>4, LossOutside DEF signingFails, Passing, Sending, WindowInv, OneWindow
  <1>5. ASSUME NEW wires \in Splits(batch), NEW n \in 0..Len(wires),
               enqueueWindowWires(wires, n)
        PROVE  LossInv'
    <2>1. PICK new : new = [i \in 1..n |-> NewEntry(wires[i])]
      OBVIOUS
    <2>2. queue' = queue \o new /\ at' \notin Passing /\ batch' = {}
      BY <1>5, <2>1 DEF enqueueWindowWires, Passing, Sending
    <2>3. PICK S : queue \in Seq(S) /\ new \in Seq(S)
      <3>1. Len(wires) \in Nat
        BY <1>5 DEF Splits
      <3>2. n \in Nat
        BY <3>1
      <3>3. PICK S : S = Range(queue) \cup Range(new)
        OBVIOUS
      <3>4. queue \in Seq(S)
        BY <3>3 DEF ShapeInv, QueueOK, Range
      <3>5. new \in Seq(S)
        BY <2>1, <3>2, <3>3 DEF Range
      <3> QED
        BY <3>4, <3>5
    <2>4. Range(queue') = Range(queue) \cup Range(new)
      BY <2>2, <2>3, RangeOfConcat
    <2>5. ASSUME NEW e \in Range(new) PROVE OneWindow(e.rounds)
      <3>1. PICK i \in 1..n : e = NewEntry(wires[i])
        BY <2>1, <2>5 DEF Range
      <3>2. i \in 1..Len(wires)
        BY <1>5, <3>1 DEF Splits
      <3>3. e.rounds \subseteq batch
        BY <3>1, <3>2, SplitsArePart DEF NewEntry
      <3> QED
        BY <3>3 DEF WindowInv, OneWindow
    <2> QED
      BY <1>1, <2>2, <2>4, <2>5, LossOutside DEF WindowInv, OneWindow
  <1> QED
    BY <1>2, <1>3, <1>4, <1>5 DEF Assemble, passOver, assembleWindow, retireExhaustedWindow,
       declineTakeover, runTakeoverAttempt, pass

\* No guard is raised by a step that adds neither a published round nor a sent row.
LEMMA GuardsKept ==
    ASSUME GuardsReached, UNCHANGED chain, published' \subseteq published,
           \A r \in Rounds : marker'[r] = "sent" => marker[r] = "sent"
    PROVE  GuardsReached'
  BY DEF GuardsReached, Reached

\* The entry a pass has in hand.
LEMMA LossInHand ==
    ASSUME ShapeInv, LossInv, todo # <<>>
    PROVE  /\ chain \in Seq(Wire) /\ todo \in Seq(Entry) /\ QueueOK /\ GuardsReached
           /\ Current \in Entry /\ Current.rounds \in Wire
           /\ Current.rounds \subseteq Rounds /\ Current.rounds # {}
           /\ \A r, s \in Current.rounds : Reached(r) => Reached(s)
           /\ <<>> \in Seq(Entry) /\ Range(<<>>) = {}
           /\ <<Current>> \in Seq(Entry) /\ Range(<<Current>>) = {Current}
           /\ at \in Sending => /\ <<Retried(Current)>> \in Seq(Entry)
                                /\ Range(<<Retried(Current)>>) = {Retried(Current)}
                                /\ Retried(Current).rounds = Current.rounds
  <1>1. chain \in Seq(Wire) /\ todo \in Seq(Entry) /\ QueueOK /\ GuardsReached
    BY DEF ShapeInv, QueueOK, RestOK, LossInv, ReachedInv
  <1>2. /\ Current \in Entry /\ Current.rounds \in Wire
        /\ Current.rounds \subseteq Rounds /\ Current.rounds # {}
    BY <1>1, CurrentShape
  <1>3. OneWindow(Current.rounds)
    BY <1>1, RangeOfTail DEF Current, LossInv, WindowInv
  <1>4. \A r, s \in Current.rounds : Reached(r) => Reached(s)
    BY <1>3 DEF OneWindow, Reached
  <1>5. at \in Sending => Retried(Current) \in Entry
    BY <1>1, CurrentShape DEF ShapeInv, JobInv
  <1>6. \A x : Range(<<x>>) = {x}
    BY DEF Range
  <1>7. Range(<<>>) = {}
    BY DEF Range
  <1>8. Retried(Current).rounds = Current.rounds
    BY DEF Retried
  <1> QED
    BY <1>1, <1>2, <1>4, <1>5, <1>6, <1>7, <1>8

\* A dead-lettered wire is in the file, or among what could not be written to it.
LEMMA DeadLetterKept ==
    ASSUME NEW rounds, deadLetter(rounds)
    PROVE  dead \subseteq dead' /\ \E d \in dead' : d.rounds = rounds
  <1>1. PICK b \in BOOLEAN : dead' = dead \cup {[rounds |-> rounds, written |-> b]}
    BY DEF deadLetter
  <1>2. [rounds |-> rounds, written |-> b].rounds = rounds
    OBVIOUS
  <1> QED
    BY <1>1, <1>2

\* The entry is settled from memory, or its rows are to be read.
LEMMA LossEntry ==
    ASSUME ShapeInv, LossInv, abandonEntry \/ dropEntry \/ beginEntry
    PROVE  LossInv'
  <1>1. todo # <<>> /\ at \in Passing /\ UNCHANGED <<queue, chain, batch, published, marker>>
    BY DEF abandonEntry, dropEntry, beginEntry, guards, Passing
  <1>2. GuardsReached'
    BY <1>1, LossInHand, GuardsKept
  <1>3. CASE abandonEntry
    BY <1>1, <1>2, <1>3, LossInHand, DeadLetterKept, LossAdvance DEF abandonEntry
  <1>4. CASE dropEntry
    <2>1. \E r \in Current.rounds : Reached(r)
      BY <1>1, <1>4, LossInHand DEF dropEntry, GuardsReached
    <2> QED
      BY <1>1, <1>2, <1>4, <2>1, LossInHand, LossAdvance DEF dropEntry
  <1>5. CASE beginEntry
    BY <1>1, <1>2, <1>5, LossInHand, LossStay DEF beginEntry
  <1> QED
    BY <1>3, <1>4, <1>5

\* A marker row settles the entry: a sent one stands for a wire of its window.
LEMMA LossRead ==
    ASSUME ShapeInv, LossInv, readMarker
    PROVE  LossInv'
  <1>1. at \in Passing /\ at \in Sending /\ UNCHANGED <<queue, chain, batch, marker>>
    BY DEF readMarker, Passing, Sending
  <1>2. todo # <<>> /\ left # {} /\ left \subseteq Current.rounds
    BY <1>1 DEF readMarker, ShapeInv, JobInv, Visiting
  <1>3. Min(left) \in Current.rounds /\ Min(left) \in Rounds
    BY <1>2, RoundsAreNumbers DEF ShapeInv, QueueOK
  <1>4. CASE Advance(<<Current>>) /\ UNCHANGED <<dead, published>>
    BY <1>1, <1>2, <1>4, LossInHand, GuardsKept, LossAdvance
  <1>5. CASE /\ getPublishedMarker(Min(left)) = "sent" /\ Advance(<<>>)
             /\ published' = published \cup Current.rounds /\ UNCHANGED dead
    <2>1. Reached(Min(left))
      BY <1>2, <1>3, <1>5, LossInHand DEF getPublishedMarker, GuardsReached
    <2>2. \A r \in Current.rounds : Reached(r)
      BY <1>2, <1>3, <2>1, LossInHand
    <2>3. GuardsReached'
      BY <1>1, <1>2, <1>5, <2>2, LossInHand DEF GuardsReached, Reached
    <2> QED
      BY <1>1, <1>2, <1>3, <1>5, <2>1, <2>3, LossInHand, LossAdvance
  <1>6. CASE deadLetter(Current.rounds) /\ Advance(<<>>) /\ UNCHANGED published
    BY <1>1, <1>2, <1>6, LossInHand, GuardsKept, DeadLetterKept, LossAdvance
  <1>7. CASE at' \in {"reserve", "markers"} /\ UNCHANGED <<dead, published, todo, kept>>
    BY <1>1, <1>2, <1>7, LossInHand, GuardsKept, LossStay
  <1> QED
    BY <1>4, <1>5, <1>6, <1>7 DEF readMarker

\* Reserving, recording the intent, withdrawing it: the entry is in hand or kept.
LEMMA LossReserve ==
    ASSUME ShapeInv, LossInv, reserve \/ recordIntent \/ withdrawIntent
    PROVE  LossInv'
  <1>1. at \in Sending /\ at \in Passing /\ UNCHANGED <<queue, dead, chain, batch, published>>
    BY DEF reserve, recordIntent, withdrawIntent, guards, Passing, Sending
  <1>2. todo # <<>>
    BY <1>1 DEF ShapeInv, JobInv
  <1>3. \A r \in Rounds : marker'[r] = "sent" => marker[r] = "sent"
    BY DEF reserve, recordIntent, withdrawIntent, guards, ShapeInv, GuardOK
  <1>4. GuardsReached'
    BY <1>1, <1>2, <1>3, LossInHand, GuardsKept
  <1>5. ASSUME NEW keep \in {<<Current>>, <<Retried(Current)>>}, Advance(keep)
        PROVE  LossInv'
    BY <1>1, <1>2, <1>4, <1>5, LossInHand, LossAdvance
  <1>6. CASE at' \in {"intent", "send", "withdraw"} /\ UNCHANGED <<todo, kept>>
    BY <1>1, <1>2, <1>4, <1>6, LossInHand, LossStay
  <1> QED
    BY <1>5, <1>6 DEF reserve, recordIntent, withdrawIntent

\* The wire reaches the node, and only then do memory and marker rows say so.
LEMMA LossSend ==
    ASSUME ShapeInv, LossInv,
           \/ \E outcome \in {"accepted", "unknown", "refused"} : broadcast(outcome)
           \/ notePublished \/ markPublished
    PROVE  LossInv'
  <1>1. at \in Sending /\ at \in Passing /\ UNCHANGED <<queue, dead, batch>>
    BY DEF broadcast, notePublished, markPublished, Passing, Sending
  <1>2. todo # <<>>
    BY <1>1 DEF ShapeInv, JobInv
  <1>3. ASSUME NEW outcome \in {"accepted", "unknown", "refused"}, broadcast(outcome)
        PROVE  LossInv'
    <2>1. /\ chain' = chain \/ chain' = Append(chain, Current.rounds)
          /\ at' = "accepted" => chain' = Append(chain, Current.rounds)
          /\ at' # "mark" /\ UNCHANGED <<todo, kept, published, marker>>
      BY <1>3 DEF broadcast, guards
    <2>2. \A r : Reached(r) => Reached(r)'
      BY <1>2, <2>1, LossInHand, ReachedStays
    <2>3. GuardsReached'
      BY <1>2, <2>1, <2>2, LossInHand DEF GuardsReached
    <2>4. ASSUME at' = "accepted", NEW r \in Current.rounds PROVE Reached(r)'
      <3>1. Len(chain) + 1 \in DOMAIN chain' /\ chain'[Len(chain) + 1] = Current.rounds
        BY <1>2, <2>1, <2>4, LossInHand
      <3> QED
        BY <2>4, <3>1 DEF Reached
    <2> QED
      BY <1>1, <1>2, <2>1, <2>3, <2>4, LossInHand, LossStay
  <1>4. CASE notePublished
    <2>1. \A r \in Current.rounds : Reached(r)
      BY <1>4 DEF notePublished, LossInv, ReachedInv
    <2>2. UNCHANGED <<todo, kept, chain, marker>> /\ published' = published \cup Current.rounds
      BY <1>4 DEF notePublished
    <2>3. GuardsReached' /\ \A r \in Current.rounds : Reached(r)'
      BY <1>2, <2>1, <2>2, LossInHand DEF GuardsReached, Reached
    <2> QED
      BY <1>1, <1>2, <2>2, <2>3, LossInHand, LossStay
  <1>5. CASE markPublished
    <2>1. \A r \in Current.rounds : Reached(r)
      BY <1>5 DEF markPublished, LossInv, ReachedInv
    <2>2. UNCHANGED <<chain, published>> /\ at = "mark"
      BY <1>5 DEF markPublished
    <2>3. Min(left) \in Current.rounds
      BY <1>2, <2>2, RoundsAreNumbers DEF ShapeInv, QueueOK, JobInv, Visiting
    <2>4. \A r \in Rounds : marker'[r] = "sent" => marker[r] = "sent" \/ r = Min(left)
      BY <1>5 DEF markPublished, ShapeInv, GuardOK
    <2>5. GuardsReached' /\ \A r \in Current.rounds : Reached(r)'
      BY <1>2, <2>1, <2>2, <2>3, <2>4, LossInHand DEF GuardsReached, Reached
    <2>6. CASE Advance(<<>>)
      BY <1>1, <1>2, <2>1, <2>2, <2>3, <2>5, <2>6, LossInHand, LossAdvance
    <2>7. CASE UNCHANGED <<at, todo, kept>>
      BY <1>1, <1>2, <2>2, <2>5, <2>7, LossInHand, LossStay
    <2> QED
      BY <1>5, <2>6, <2>7 DEF markPublished
  <1> QED
    BY <1>3, <1>4, <1>5

\* A send that failed: the entry is dead-lettered, queued again or withdrawn.
LEMMA LossFailure ==
    ASSUME ShapeInv, LossInv,
           ambiguousSend \/ \E neverSent \in BOOLEAN : definitiveFailure(neverSent)
    PROVE  LossInv'
  <1>1. at \in Sending /\ at \in Passing /\ UNCHANGED <<queue, chain, batch, published, marker>>
    BY DEF ambiguousSend, definitiveFailure, guards, Passing, Sending
  <1>2. todo # <<>>
    BY <1>1 DEF ShapeInv, JobInv
  <1>3. GuardsReached'
    BY <1>1, <1>2, LossInHand, GuardsKept
  <1>4. CASE ambiguousSend
    BY <1>1, <1>2, <1>3, <1>4, LossInHand, DeadLetterKept, LossAdvance DEF ambiguousSend
  <1>5. CASE Advance(<<Retried(Current)>>) /\ UNCHANGED dead
    BY <1>1, <1>2, <1>3, <1>5, LossInHand, LossAdvance
  <1>6. CASE at' = "withdraw" /\ UNCHANGED <<dead, todo, kept>>
    BY <1>1, <1>2, <1>3, <1>6, LossInHand, LossStay
  <1> QED
    BY <1>4, <1>5, <1>6 DEF ambiguousSend, definitiveFailure

\* The two ends of a pass.
LEMMA LossQueue ==
    ASSUME ShapeInv, LossInv, rebuildQueue \/ \E open \in BOOLEAN : processQueue(open)
    PROVE  LossInv'
  <1> USE DEF LossInv
  <1>1. Range(<<>>) = {}
    BY DEF Range
  <1>2. UNCHANGED <<chain, marker, batch, dead>> /\ published' \subseteq published
    BY DEF rebuildQueue, processQueue, guards
  <1>3. GuardsReached'
    BY <1>2, GuardsKept DEF ReachedInv
  <1>4. CASE rebuildQueue
    <2>1. queue' \in {queue, kept} /\ todo' = <<>> /\ kept' = <<>> /\ at' = "idle"
      BY <1>4 DEF rebuildQueue, Rebuilt
    <2> QED
      BY <1>1, <1>2, <1>3, <2>1 DEF WindowInv, OneWindow, ReachedInv, AccountedInv, Passing, Sending
  <1>5. ASSUME NEW open \in BOOLEAN, processQueue(open)
        PROVE  LossInv'
    <2>1. /\ UNCHANGED <<queue, kept>>
          /\ \/ at' = "entry" /\ todo' = queue
             \/ at' = "idle" /\ todo' = <<>>
      BY <1>5 DEF processQueue
    <2>2. WindowInv'
      BY <1>1, <1>2, <2>1 DEF WindowInv, OneWindow
    <2>3. AccountedInv'
      BY <2>1 DEF AccountedInv, Accounted, Passing, Sending
    <2> QED
      BY <1>3, <2>1, <2>2, <2>3 DEF ReachedInv
  <1> QED
    BY <1>4, <1>5

\* Every step keeps track of every entry.
LEMMA LossStep == ShapeInv /\ LossInv /\ [Next]_vars => LossInv'
  <1> SUFFICES ASSUME ShapeInv, LossInv, [Next]_vars
               PROVE  LossInv'
    OBVIOUS
  <1>1. ASSUME NEW r \in Rounds, onRoundFinalized(r)
        PROVE  LossInv'
    BY <1>1, LossQuiet DEF onRoundFinalized, pass, guards
  <1>2. CASE Assemble
    BY <1>2, LossAssemble
  <1>3. CASE Publish
    BY <1>3, LossEntry, LossRead, LossReserve, LossSend, LossFailure, LossQueue DEF Publish
  <1>4. ASSUME NEW rounds, Forget(rounds),
               UNCHANGED <<queue, dead, published, pass, chain>>
        PROVE  LossInv'
    <2>1. \A r \in Rounds : marker'[r] = "sent" => marker[r] = "sent"
      BY <1>4 DEF Forget
    <2> QED
      BY <1>4, <2>1, LossQuiet DEF pass
  <1>5. ASSUME NEW cutoff \in pruning, prunePublishedRounds(cutoff)
        PROVE  LossInv'
    BY <1>4, <1>5 DEF prunePublishedRounds
  <1>6. ASSUME NEW wire \in Landable \ {{}}, noteBatchLanded(wire) \/ clearPublishedMarkers(wire)
        PROVE  LossInv'
    BY <1>6, LossQuiet DEF noteBatchLanded, clearPublishedMarkers, pass, guards
  <1>7. ASSUME NEW wire \in clearing, clearMarkerRows(wire)
        PROVE  LossInv'
    BY <1>4, <1>7 DEF clearMarkerRows
  <1>11. ASSUME NEW wire \in restoring, restoreBufferedRounds(wire)
         PROVE  LossInv'
    BY <1>11, LossQuiet DEF restoreBufferedRounds, pass
  <1>8. CASE windowRolls
    BY <1>8, LossQuiet DEF windowRolls, pass, guards
  <1>9. ASSUME NEW hydrates \in BOOLEAN, restart(hydrates)
        PROVE  LossInv'
    <2>1. Range(<<>>) = {}
      BY DEF Range
    <2>2. UNCHANGED <<chain, marker, queue>> /\ todo' = <<>> /\ kept' = <<>> /\ batch' = {}
          /\ at' = "idle"
      BY <1>9 DEF restart
    <2>3. WindowInv' /\ AccountedInv'
      BY <2>1, <2>2 DEF LossInv, WindowInv, OneWindow, AccountedInv, Passing, Sending
    <2>4. GuardsReached'
      BY <1>9, <2>2 DEF restart, hydratePublishedMarkers, LossInv, ReachedInv, GuardsReached, Reached
    <2> QED
      BY <2>2, <2>3, <2>4 DEF LossInv, ReachedInv
  <1>10. CASE UNCHANGED vars
    BY <1>10, LossQuiet DEF vars, pass, guards
  <1> QED
    BY <1>1, <1>2, <1>3, <1>5, <1>6, <1>7, <1>8, <1>9, <1>10, <1>11 DEF Next

\* An entry that leaves the queue was dead-lettered or a wire of its window reached the
\* node: the rewrite at the end of a pass is the only step that drops entries.
LEMMA NothingDropped ==
    ASSUME ShapeInv, LossInv, [Next]_vars, NEW e \in Range(queue)
    PROVE  \/ \E f \in Range(queue') : f.rounds = e.rounds
           \/ \E d \in dead : d.rounds = e.rounds
           \/ \E i \in DOMAIN chain : WindowOf(Min(chain[i])) = WindowOf(Min(e.rounds))
  <1>1. CASE UNCHANGED queue
    BY <1>1
  <1>2. ASSUME NEW wires \in Splits(batch), NEW n \in 0..Len(wires),
               enqueueWindowWires(wires, n)
        PROVE  e \in Range(queue')
    <2>1. PICK i \in DOMAIN queue : e = queue[i]
      BY DEF Range
    <2>2. PICK new : new = [j \in 1..n |-> NewEntry(wires[j])]
      OBVIOUS
    <2>3. n \in Nat
      BY <1>2 DEF Splits
    <2>4. queue' = queue \o new /\ Len(new) = n
      BY <1>2, <2>2, <2>3 DEF enqueueWindowWires
    <2>5. i \in DOMAIN queue' /\ queue'[i] = e
      BY <2>1, <2>2, <2>3, <2>4 DEF ShapeInv, QueueOK
    <2> QED
      BY <2>5 DEF Range
  <1>3. CASE rebuildQueue /\ queue' = kept
    <2>1. Accounted(e.rounds)
      BY <1>3 DEF rebuildQueue, LossInv, AccountedInv, Passing
    <2>2. todo = <<>>
      BY <1>3 DEF rebuildQueue
    <2>3. Range(todo) = {}
      BY <2>2 DEF Range
    <2>4. ASSUME NEW r \in e.rounds, Reached(r)
          PROVE  \E i \in DOMAIN chain : WindowOf(Min(chain[i])) = WindowOf(Min(e.rounds))
      <3>1. PICK i \in DOMAIN chain : \E s \in chain[i] : WindowOf(s) = WindowOf(r)
        BY <2>4 DEF Reached
      <3>2. PICK s \in chain[i] : WindowOf(s) = WindowOf(r)
        BY <3>1
      <3>3. chain[i] \in Wire
        BY DEF ShapeInv, RestOK
      <3>4. Min(chain[i]) \in chain[i]
        BY <3>3, RoundsAreNumbers DEF Wire
      <3>5. e \in Entry
        BY DEF ShapeInv, QueueOK, Range
      <3>6. Min(e.rounds) \in e.rounds
        BY <3>5, RoundsAreNumbers DEF Entry, Wire
      <3>7. OneWindow(chain[i]) /\ OneWindow(e.rounds)
        BY DEF LossInv, WindowInv
      <3> QED
        BY <2>4, <3>2, <3>4, <3>6, <3>7 DEF OneWindow
    <2> QED
      BY <1>3, <2>1, <2>3, <2>4 DEF Accounted
  <1>4. \/ UNCHANGED queue
        \/ \E wires \in Splits(batch) : \E n \in 0..Len(wires) : enqueueWindowWires(wires, n)
        \/ rebuildQueue /\ queue' = kept
    <2>1. CASE Assemble
      BY <2>1 DEF Assemble, passOver, assembleWindow, retireExhaustedWindow, declineTakeover,
         runTakeoverAttempt, Propose, signingFails
    <2>2. CASE Publish
      BY <2>2 DEF Publish, processQueue, abandonEntry, dropEntry, beginEntry, readMarker, reserve,
         recordIntent, broadcast, notePublished, markPublished, ambiguousSend, withdrawIntent,
         definitiveFailure, rebuildQueue, Rebuilt
    <2>3. CASE ~Assemble /\ ~Publish
      BY <2>3 DEF Next, vars, onRoundFinalized, prunePublishedRounds, noteBatchLanded,
         clearPublishedMarkers, restoreBufferedRounds, clearMarkerRows, windowRolls, restart
    <2> QED
      BY <2>1, <2>2, <2>3
  <1> QED
    BY <1>1, <1>2, <1>3, <1>4

\* No queued wire is lost, through failed queue rewrites, crashes and restarts, reads
\* that fail and rounds another split of the window published: an entry leaves the queue
\* only if it was dead-lettered or a wire of its window reached the node
\* (publish_pass.js: the rebuild never loses an entry).
THEOREM EntriesAreAccountedFor == Spec => NoEntryLost
  <1>1. ShapeInv /\ LossInv /\ [Next]_vars
        => [\A e \in Range(queue) :
              \/ \E f \in Range(queue') : f.rounds = e.rounds
              \/ \E d \in dead : d.rounds = e.rounds
              \/ \E i \in DOMAIN chain : WindowOf(Min(chain[i])) = WindowOf(Min(e.rounds))]_vars
    BY NothingDropped
  <1>2. Spec => []ShapeInv
    BY ShapeInit, ShapeStep, PTL DEF Spec
  <1>3. Spec => []LossInv
    BY <1>2, LossInit, LossStep, PTL DEF Spec
  <1> QED
    BY <1>1, <1>2, <1>3, PTL DEF Spec, NoEntryLost

=============================================================================
