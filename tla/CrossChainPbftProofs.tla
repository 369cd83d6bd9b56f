------------------------ MODULE CrossChainPbftProofs ------------------------
(***************************************************************************)
(* What is proved of the cross-chain engine, for any hubs, snapshots, row  *)
(* ids, views, stamps and scenarios:                                       *)
(*                                                                         *)
(*   ProofsAreBehindFinals   whatever is emitted as finalized carries a    *)
(*                           quorum, at the snapshot the row declares, of  *)
(*                           signatures over that very row                 *)
(*   CommitsHold             a hub that sent its COMMIT keeps its row, but *)
(*                           for the one it was looking a snapshot up for  *)
(*   RoundsAreWellFormed     objects, messages and tasks keep their shape  *)
(*                                                                         *)
(* The inductive invariant speaks about every round object ever opened, as *)
(* a suspended handler may wake up on any of them: an object that is not   *)
(* final holds signatures over one canonical of its own row only, and its  *)
(* tallies count signers.  A hub may enter its own COMMIT without having   *)
(* signed; then a quorum of the prepares it rests on has (Backed).         *)
(***************************************************************************)
EXTENDS CrossChainPbft, FiniteSetTheorems, TLAPS

CanonT == [row : Row, view : Views]
SigT == [by : Hubs, over : CanonT]

Message == [type : {"PROPOSE", "PREPARE", "COMMIT", "VIEW_CHANGE", "NEW_VIEW", "FINAL_SYNC"},
            from : Hubs, view : Views, row : Row \cup {NoRow},
            sig : CanonT \cup {NoSig}, proof : SUBSET SigT]

Final == [row : Row, view : Views, sigs : SUBSET SigT]

Task == [kind : {"alone"}, at : Nat]
        \cup [kind : {"persist"}, at : Nat, drain : BOOLEAN]
        \cup [kind : {"validate", "rebind"}, at : Nat, msg : Message]
        \cup [kind : {"restamp"}, at : Nat, view : Views]

\* Enough signers for the snapshot of block b.
Backed(b, sigs) ==
    \E voters \in SUBSET Signers(sigs) : meetsQuorum(b, voters) \/ voters = XMembers[b]

\* The votes of an open round object are over its canonical.
VotesInv(o) ==
    /\ \A s \in o.sigs : s.over = o.canon
    /\ o.prepares \subseteq Signers(o.sigs)
    /\ o.commits \subseteq Signers(o.sigs) \/ Backed(o.block, o.sigs)

CanonInv(o) == \E v \in Views : o.canon = Canon(o.row, v)

\* r is the restamping of the scenario.
ObjInv(r, o) ==
    /\ o \in Round /\ o.block = o.row.block
    /\ r # "later" /\ ~o.final => VotesInv(o) /\ CanonInv(o)

Solo(h, o) == XMembers[o.block] = {h}

MsgInv(h, m) ==
    /\ m.from # h
    /\ m.type \in {"PROPOSE", "FINAL_SYNC"} => m.row \in Row

\* A suspended handler that may adopt a row is on no round of a lone validator;
\* the one that finalizes alone is.
TaskInv(h, t) ==
    /\ t.at \in 1..Len(rounds[h])
    /\ t.kind = "alone" => rounds[h][t.at].final \/ Solo(h, rounds[h][t.at])
    /\ t.kind = "restamp" => scenario.restamp = "later"
    /\ t.kind \in {"validate", "rebind"} => MsgInv(h, t.msg) /\ t.msg.row \in Row
    /\ t.kind = "validate" => t.msg.type = "PROPOSE"
    /\ t.kind \in {"validate", "rebind"} /\ t.msg.type = "PROPOSE" =>
          /\ t.msg.sig = Canon(t.msg.row, t.msg.view)
          /\ rounds[h][t.at].final \/ ~Solo(h, rounds[h][t.at])

\* What is published with a row proves it.
Proven(row, sigs) ==
    /\ \E v \in Views : \A s \in sigs : s.over = Canon(row, v)
    /\ Backed(row.block, sigs)

ScenarioInv ==
    scenario \in [rows : [Hubs -> SUBSET Row], opens : [Hubs -> Nat],
                  views : Views, faults : Nat, restamp : {"none", "now", "later"}]

RoundsInv ==
    /\ rounds \in [Hubs -> Seq(Round)]
    /\ \A h \in Hubs : \A i \in 1..Len(rounds[h]) : ObjInv(scenario.restamp, rounds[h][i])

LiveInv ==
    /\ live \in [Hubs -> Nat]
    /\ \A h \in Hubs : live[h] <= Len(rounds[h]) /\ Len(rounds[h]) <= scenario.opens[h]

FinalInv == finalRow \in [Hubs -> Final \cup {NoRow}]

NetInv(net) ==
    /\ net \in [Hubs -> SUBSET Message]
    /\ \A h \in Hubs : \A m \in net[h] : MsgInv(h, m)

MessagesInv == NetInv(xnet) /\ NetInv(early)

TasksInv ==
    /\ tasks \in [Hubs -> SUBSET Task]
    /\ \A h \in Hubs : \A t \in tasks[h] : TaskInv(h, t)

EmittedInv ==
    scenario.restamp # "later" => \A e \in emitted : Proven(e.at.row, e.at.sigs)

XInv == /\ ScenarioInv /\ RoundsInv /\ LiveInv /\ FinalInv
        /\ MessagesInv /\ TasksInv /\ EmittedInv

-----------------------------------------------------------------------------
(***************************************************************************)
(* Canonicals, signatures and messages.                                    *)
(***************************************************************************)

\* A canonical is one.
LEMMA CanonType ==
    ASSUME NEW row \in Row, NEW v \in Views
    PROVE  Canon(row, v) \in CanonT
  BY XBoundsAssumption DEF Canon, CanonT, Views

\* Equal canonicals are of equal rows.
LEMMA CanonRow ==
    ASSUME NEW p, NEW q, NEW v, NEW w, Canon(p, v) = Canon(q, w)
    PROVE  p = q
<1>1. Canon(p, v).row = Canon(q, w).row
  OBVIOUS
<1> QED BY <1>1 DEF Canon

\* Setting a signature replaces the one the signer had and adds no other signer.
LEMMA SetSigFacts ==
    ASSUME NEW sigs \in SUBSET SigT, NEW by \in Hubs, NEW over \in CanonT
    PROVE  /\ SetSig(sigs, by, over) \in SUBSET SigT
           /\ Signers(SetSig(sigs, by, over)) = Signers(sigs) \cup {by}
           /\ \A s \in SetSig(sigs, by, over) : s \in sigs \/ s.over = over
<1> DEFINE new == [by |-> by, over |-> over]
<1>1. new \in SigT /\ new.by = by /\ new.over = over
  BY DEF SigT
<1>2. SetSig(sigs, by, over) = {s \in sigs : s.by # by} \cup {new}
  BY DEF SetSig
<1> HIDE DEF new
<1>3. Signers(SetSig(sigs, by, over)) = Signers(sigs) \cup {by}
  BY <1>1, <1>2 DEF Signers
<1> QED BY <1>1, <1>2, <1>3

\* What a hub signs is a signature.
LEMMA OwnSigType ==
    ASSUME NEW o \in Round, NEW h \in Hubs
    PROVE  OwnSig(o, h) \in CanonT \cup {NoSig}
<1>1. CASE h \in Signers(o.sigs)
  <2>1. PICK s \in o.sigs : s.by = h
    BY <1>1 DEF Signers
  <2> DEFINE w == CHOOSE x \in o.sigs : x.by = h
  <2>2. w \in o.sigs
    BY <2>1
  <2>3. w.over \in CanonT
    BY <2>2 DEF Round, CanonT
  <2> QED BY <1>1, <2>3 DEF OwnSig
<1>2. CASE h \notin Signers(o.sigs)
  BY <1>2 DEF OwnSig
<1> QED BY <1>1, <1>2

\* The messages a hub sends are messages.
LEMMA ProposalType ==
    ASSUME NEW o \in Round, NEW h \in Hubs, NEW k \in Hubs, k # h
    PROVE  Proposal(h, o) \in Message /\ MsgInv(k, Proposal(h, o))
  BY DEF Proposal, Message, MsgInv, Round, CanonT

\* So are its votes.
LEMMA BallotType ==
    ASSUME NEW o \in Round, NEW h \in Hubs, NEW k \in Hubs, k # h,
           NEW type \in {"PREPARE", "COMMIT"}
    PROVE  Ballot(type, h, o) \in Message /\ MsgInv(k, Ballot(type, h, o))
<1>1. OwnSig(o, h) \in CanonT \cup {NoSig}
  BY OwnSigType
<1>2. o.view \in Views
  BY DEF Round
<1> QED BY <1>1, <1>2 DEF Ballot, Message, MsgInv

\* So are those about views.
LEMMA ControlType ==
    ASSUME NEW v \in Views, NEW h \in Hubs, NEW k \in Hubs, k # h,
           NEW type \in {"VIEW_CHANGE", "NEW_VIEW"}
    PROVE  Control(type, h, v) \in Message /\ MsgInv(k, Control(type, h, v))
  BY DEF Control, Message, MsgInv

\* And the sync of a final row.
LEMMA FinalSyncType ==
    ASSUME NEW f \in Final, NEW h \in Hubs, NEW k \in Hubs, k # h
    PROVE  FinalSync(h, f) \in Message /\ MsgInv(k, FinalSync(h, f))
  BY DEF FinalSync, Message, MsgInv, Final

\* The leader of a snapshot that lists h alone is h.
LEMMA LoneLeader ==
    ASSUME NEW b \in Blocks, NEW h, XMembers[b] = {h}, NEW v \in Views
    PROVE  leaderFor(b, v) = h
<1> DEFINE rot == XRotation[b]
           n == Len(rot)
           i == (RidInt + v) % n
<1>1. rot \in Seq({h}) /\ rot # <<>>
  BY XRotationAssumption
<1>2. n \in Nat /\ n > 0
  BY <1>1
<1>3. RidInt + v \in Nat
  BY XBoundsAssumption DEF Views
<1>4. i \in 0..(n - 1)
  <2> HIDE DEF n
  <2> QED BY <1>2, <1>3
<1>5. i + 1 \in 1..n
  <2> HIDE DEF n, i
  <2> QED BY <1>2, <1>4
<1>6. rot[i + 1] \in {h}
  <2> HIDE DEF i, rot
  <2> QED BY <1>1, <1>5
<1> QED BY <1>6 DEF leaderFor

-----------------------------------------------------------------------------
(***************************************************************************)
(* What the handlers do to a round object keeps its invariant.             *)
(***************************************************************************)

\* The fields of a round object.
LEMMA RoundFields ==
    ASSUME NEW o \in Round
    PROVE  /\ o.row \in Row /\ o.canon \in CanonT /\ o.block \in Blocks /\ o.view \in Views
           /\ o.prepares \subseteq Hubs /\ o.commits \subseteq Hubs
           /\ o.sigs \in SUBSET SigT /\ o.vcs \in SUBSET [view : Views, by : Hubs]
           /\ o.commitSent \in BOOLEAN /\ o.final \in BOOLEAN
  BY DEF Round, CanonT, SigT

\* A round object starts out empty.
LEMMA OpenedObj ==
    ASSUME NEW row \in Row, NEW r
    PROVE  ObjInv(r, openPendingRound(row)) /\ openPendingRound(row).final = FALSE
           /\ openPendingRound(row).block = row.block
<1> DEFINE o == openPendingRound(row)
<1>1. 0 \in Views
  BY XBoundsAssumption DEF Views
<1>2. Canon(row, 0) \in CanonT
  BY <1>1, CanonType
<1>3. o \in Round
  BY <1>1, <1>2 DEF openPendingRound, Round, Row, CanonT
<1>4. o.block = o.row.block /\ o.final = FALSE /\ o.block = row.block
  BY DEF openPendingRound
<1>5. VotesInv(o)
  BY DEF openPendingRound, VotesInv
<1>6. CanonInv(o)
  BY <1>1 DEF openPendingRound, CanonInv
<1> QED BY <1>3, <1>4, <1>5, <1>6 DEF ObjInv

\* A step of a handler of hub h on one round object: what becomes final is proven.
ObjStep(h, r, o, p) ==
    /\ ObjInv(r, p)
    /\ o.final => p.final
    /\ p.final \/ (Solo(h, p) <=> Solo(h, o))
    /\ r # "later" /\ p.final /\ ~o.final => Proven(p.row, p.sigs)

\* More signers back a row no less.
LEMMA BackedGrows ==
    ASSUME NEW b, NEW s1, NEW s2, Backed(b, s1), Signers(s1) \subseteq Signers(s2)
    PROVE  Backed(b, s2)
  BY DEF Backed

\* A vote of `by` over the round's canonical.
LEMMA VoteKeeps ==
    ASSUME NEW r, NEW o, ObjInv(r, o), NEW by \in Hubs, NEW p \in Round,
           p.row = o.row, p.canon = o.canon, p.block = o.block, p.final = o.final,
           p.sigs = SetSig(o.sigs, by, o.canon),
           p.prepares \subseteq o.prepares \cup {by},
           p.commits \subseteq o.commits \cup {by}
    PROVE  ObjInv(r, p)
<1>0. o \in Round /\ o.block = o.row.block
  BY DEF ObjInv
<1>1. SUFFICES ASSUME r # "later", ~o.final
               PROVE  VotesInv(p) /\ CanonInv(p)
  BY <1>0 DEF ObjInv
<1>2. VotesInv(o) /\ CanonInv(o)
  BY <1>1 DEF ObjInv
<1>3. /\ Signers(p.sigs) = Signers(o.sigs) \cup {by}
      /\ \A s \in p.sigs : s \in o.sigs \/ s.over = o.canon
  <2>1. o.sigs \in SUBSET SigT /\ o.canon \in CanonT
    BY <1>0, RoundFields
  <2> QED BY <2>1, SetSigFacts
<1>4. \A s \in p.sigs : s.over = p.canon
  BY <1>2, <1>3 DEF VotesInv
<1>5. p.prepares \subseteq Signers(p.sigs)
  BY <1>2, <1>3 DEF VotesInv
<1>6. p.commits \subseteq Signers(p.sigs) \/ Backed(p.block, p.sigs)
  <2>1. CASE o.commits \subseteq Signers(o.sigs)
    BY <2>1, <1>3
  <2>2. CASE Backed(o.block, o.sigs)
    BY <2>2, <1>3, BackedGrows
  <2> QED BY <2>1, <2>2, <1>2 DEF VotesInv
<1> QED BY <1>2, <1>4, <1>5, <1>6 DEF VotesInv, CanonInv

\* The own signature over the round's canonical (broadcastPropose, finalizeSoleOperator).
LEMMA SignedKeeps ==
    ASSUME NEW r, NEW o, ObjInv(r, o), NEW h \in Hubs
    PROVE  /\ ObjInv(r, [o EXCEPT !.sigs = SetSig(@, h, o.canon)])
           /\ ObjInv(r, [o EXCEPT !.sigs = SetSig(@, h, o.canon), !.prepares = @ \cup {h}])
           /\ ObjInv(r, [o EXCEPT !.sigs = SetSig(@, h, o.canon), !.commits = @ \cup {h}])
<1> DEFINE p1 == [o EXCEPT !.sigs = SetSig(@, h, o.canon)]
           p2 == [o EXCEPT !.sigs = SetSig(@, h, o.canon), !.prepares = @ \cup {h}]
           p3 == [o EXCEPT !.sigs = SetSig(@, h, o.canon), !.commits = @ \cup {h}]
<1>0. o \in Round
  BY DEF ObjInv
<1>1. SetSig(o.sigs, h, o.canon) \in SUBSET SigT
  BY <1>0, RoundFields, SetSigFacts
<1>2. /\ p1 \in Round /\ p1.row = o.row /\ p1.canon = o.canon /\ p1.block = o.block
      /\ p1.final = o.final /\ p1.sigs = SetSig(o.sigs, h, o.canon)
      /\ p1.prepares = o.prepares /\ p1.commits = o.commits
  BY <1>0, <1>1 DEF Round, SigT, CanonT
<1>3. /\ p2 \in Round /\ p2.row = o.row /\ p2.canon = o.canon /\ p2.block = o.block
      /\ p2.final = o.final /\ p2.sigs = SetSig(o.sigs, h, o.canon)
      /\ p2.prepares = o.prepares \cup {h} /\ p2.commits = o.commits
  BY <1>0, <1>1 DEF Round, SigT, CanonT
<1>4. /\ p3 \in Round /\ p3.row = o.row /\ p3.canon = o.canon /\ p3.block = o.block
      /\ p3.final = o.final /\ p3.sigs = SetSig(o.sigs, h, o.canon)
      /\ p3.prepares = o.prepares /\ p3.commits = o.commits \cup {h}
  BY <1>0, <1>1 DEF Round, SigT, CanonT
<1> HIDE DEF p1, p2, p3
<1>5. ObjInv(r, p1)
  BY <1>2, VoteKeeps
<1>6. ObjInv(r, p2)
  BY <1>3, VoteKeeps
<1>7. ObjInv(r, p3)
  BY <1>4, VoteKeeps
<1> QED BY <1>5, <1>6, <1>7 DEF p1, p2, p3

\* finalize of a round whose votes back it.
LEMMA FinalizedProven ==
    ASSUME NEW r, NEW o, ObjInv(r, o), r # "later", ~o.final, Backed(o.block, o.sigs)
    PROVE  Proven(o.row, o.sigs)
<1>1. o.block = o.row.block /\ VotesInv(o) /\ CanonInv(o)
  BY DEF ObjInv
<1>2. PICK v \in Views : o.canon = Canon(o.row, v)
  BY <1>1 DEF CanonInv
<1>3. \A s \in o.sigs : s.over = Canon(o.row, v)
  BY <1>1, <1>2 DEF VotesInv
<1> QED BY <1>1, <1>3 DEF Proven

\* Finalizing an object touches nothing else.
LEMMA FinalizedFields ==
    ASSUME NEW o \in Round
    PROVE  /\ Finalized(o) \in Round /\ Finalized(o).final = TRUE
           /\ Finalized(o).row = o.row /\ Finalized(o).block = o.block
           /\ Finalized(o).sigs = o.sigs /\ Finalized(o).view = o.view
  BY DEF Finalized, Round

\* checkCommitQuorum finalizes only what is proven.
LEMMA CheckCommitKeeps ==
    ASSUME NEW r, NEW o, ObjInv(r, o), NEW h
    PROVE  ObjStep(h, r, o, CheckCommit(o)) /\ CheckCommit(o).row = o.row
<1>0. o \in Round /\ o.block = o.row.block
  BY DEF ObjInv
<1>1. CASE ~o.final /\ meetsQuorum(o.block, o.commits)
  <2>1. CheckCommit(o) = Finalized(o)
    BY <1>1 DEF CheckCommit
  <2>2. ObjInv(r, Finalized(o))
    BY <1>0, FinalizedFields DEF ObjInv
  <2>3. ASSUME r # "later" PROVE Proven(o.row, o.sigs)
    <3>1. VotesInv(o)
      BY <1>1, <2>3 DEF ObjInv
    <3>2. Backed(o.block, o.sigs)
      BY <1>1, <3>1 DEF VotesInv, Backed
    <3> QED BY <1>1, <2>3, <3>2, FinalizedProven
  <2> QED BY <1>0, <2>1, <2>2, <2>3, FinalizedFields DEF ObjStep
<1>2. CASE ~(~o.final /\ meetsQuorum(o.block, o.commits))
  <2>1. CheckCommit(o) = o
    BY <1>2 DEF CheckCommit
  <2> QED BY <2>1 DEF ObjStep
<1> QED BY <1>1, <1>2

\* checkPrepareQuorum adds the hub's own COMMIT on a quorum of prepares.
LEMMA CheckPrepareKeeps ==
    ASSUME NEW r, NEW o, ObjInv(r, o), NEW h \in Hubs
    PROVE  ObjStep(h, r, o, CheckPrepare(o, h)) /\ CheckPrepare(o, h).row = o.row
<1>0. o \in Round /\ o.block = o.row.block
  BY DEF ObjInv
<1>1. CASE ReadyToCommit(o)
  <2> DEFINE p == [o EXCEPT !.commitSent = TRUE, !.commits = @ \cup {h}]
  <2>1. CheckPrepare(o, h) = CheckCommit(p)
    BY <1>1 DEF CheckPrepare
  <2>2. /\ p \in Round /\ p.row = o.row /\ p.canon = o.canon /\ p.block = o.block
        /\ p.final = o.final /\ p.sigs = o.sigs /\ p.prepares = o.prepares
    BY <1>0 DEF Round
  <2> HIDE DEF p
  <2>3. ASSUME r # "later", ~o.final PROVE VotesInv(p) /\ CanonInv(p)
    <3>1. VotesInv(o) /\ CanonInv(o)
      BY <2>3 DEF ObjInv
    <3>2. Backed(o.block, o.sigs)
      BY <1>1, <3>1 DEF ReadyToCommit, VotesInv, Backed
    <3> QED BY <2>2, <3>1, <3>2 DEF VotesInv, CanonInv
  <2>4. ObjInv(r, p)
    BY <1>0, <2>2, <2>3 DEF ObjInv
  <2>5. ObjStep(h, r, p, CheckCommit(p)) /\ CheckCommit(p).row = p.row
    BY <2>4, CheckCommitKeeps
  <2> QED BY <2>1, <2>2, <2>5 DEF ObjStep, Solo
<1>2. CASE ~ReadyToCommit(o)
  <2>1. CheckPrepare(o, h) = o
    BY <1>2 DEF CheckPrepare
  <2> QED BY <2>1 DEF ObjStep
<1> QED BY <1>1, <1>2

\* adoptLeaderRow drops every vote for the old canonical.
LEMMA AdoptedKeeps ==
    ASSUME NEW r, NEW o \in Round, NEW m \in Message, m.row \in Row
    PROVE  /\ ObjInv(r, Adopted(o, m)) /\ Adopted(o, m).final = o.final
           /\ Adopted(o, m).canon = Canon(m.row, m.view)
           /\ Adopted(o, m).row = m.row /\ Adopted(o, m).block = m.row.block
<1> DEFINE p == Adopted(o, m)
<1>1. m.view \in Views /\ m.row.block \in Blocks
  BY DEF Message, Row
<1>2. Canon(m.row, m.view) \in CanonT
  BY <1>1, CanonType
<1>3. /\ p \in Round /\ p.row = m.row /\ p.canon = Canon(m.row, m.view)
      /\ p.block = m.row.block /\ p.final = o.final
      /\ p.sigs = {} /\ p.prepares = {} /\ p.commits = {}
  BY <1>1, <1>2 DEF Adopted, Round, CanonT
<1> HIDE DEF p
<1>4. VotesInv(p)
  BY <1>3 DEF VotesInv
<1>5. CanonInv(p)
  BY <1>1, <1>3 DEF CanonInv
<1> QED BY <1>3, <1>4, <1>5 DEF ObjInv, p

\* The later of two views is a view.
LEMMA LargerView ==
    ASSUME NEW v \in Views, NEW w \in Views
    PROVE  Larger(v, w) \in Views
  BY DEF Larger

\* countLeaderAndOwnPrepare, for a proposal over the round's canonical.
LEMMA CountedKeeps ==
    ASSUME NEW r, NEW o, ObjInv(r, o), NEW m \in Message, m.sig = o.canon, NEW h \in Hubs
    PROVE  /\ ObjInv(r, Counted(o, m, h)) /\ Counted(o, m, h).final = o.final
           /\ Counted(o, m, h).row = o.row /\ Counted(o, m, h).block = o.block
<1> DEFINE led == [o EXCEPT !.view = Larger(@, m.view),
                            !.sigs = SetSig(@, m.from, m.sig),
                            !.prepares = @ \cup {m.from}]
           own == [led EXCEPT !.sigs = SetSig(@, h, m.sig), !.prepares = @ \cup {h}]
<1>0. o \in Round /\ o.canon \in CanonT /\ o.sigs \in SUBSET SigT
  BY RoundFields DEF ObjInv
<1>1. m.from \in Hubs /\ m.view \in Views
  BY DEF Message
<1>2. Larger(o.view, m.view) \in Views
  BY <1>0, <1>1, RoundFields, LargerView
<1>3. SetSig(o.sigs, m.from, o.canon) \in SUBSET SigT
  BY <1>0, <1>1, SetSigFacts
<1>4. /\ led \in Round /\ led.row = o.row /\ led.canon = o.canon /\ led.block = o.block
      /\ led.final = o.final /\ led.sigs = SetSig(o.sigs, m.from, o.canon)
      /\ led.prepares = o.prepares \cup {m.from} /\ led.commits = o.commits
  BY <1>0, <1>1, <1>2, <1>3 DEF Round, SigT, CanonT
<1> HIDE DEF led
<1>5. ObjInv(r, led)
  BY <1>1, <1>4, VoteKeeps
<1>6. SetSig(led.sigs, h, o.canon) \in SUBSET SigT
  BY <1>0, <1>3, <1>4, SetSigFacts
<1>7. /\ own \in Round /\ own.row = o.row /\ own.canon = o.canon /\ own.block = o.block
      /\ own.final = o.final /\ own.sigs = SetSig(led.sigs, h, led.canon)
      /\ own.prepares = led.prepares \cup {h} /\ own.commits = led.commits
  BY <1>4, <1>6 DEF Round, SigT, CanonT
<1> HIDE DEF own
<1>8. ObjInv(r, own)
  BY <1>4, <1>5, <1>7, VoteKeeps
<1>9. Counted(o, m, h) = IF h \in Signers(led.sigs) THEN led ELSE own
  BY DEF Counted, led, own
<1> QED BY <1>4, <1>5, <1>7, <1>8, <1>9

\* reproposeAsLeader: either the canonical is still the row's, or the votes go.
LEMMA ReproposedKeeps ==
    ASSUME NEW r, NEW o \in Round, o.block = o.row.block,
           r # "later" /\ ~o.final => VotesInv(o)
    PROVE  /\ ObjInv(r, Reproposed(o)) /\ Reproposed(o).final = o.final
           /\ Reproposed(o).row = o.row /\ Reproposed(o).block = o.block
<1>1. o.row \in Row /\ o.view \in Views
  BY RoundFields
<1>2. Canon(o.row, o.view) \in CanonT
  BY <1>1, CanonType
<1>3. CASE Canon(o.row, o.view) = o.canon
  <2>1. Reproposed(o) = o
    BY <1>3 DEF Reproposed
  <2>2. CanonInv(o)
    BY <1>1, <1>3 DEF CanonInv
  <2> QED BY <2>1, <2>2 DEF ObjInv
<1>4. CASE Canon(o.row, o.view) # o.canon
  <2> DEFINE p == [o EXCEPT !.canon = Canon(o.row, o.view), !.sigs = {}, !.prepares = {},
                            !.commits = {}, !.commitSent = FALSE]
  <2>1. Reproposed(o) = p
    BY <1>4 DEF Reproposed
  <2>2. /\ p \in Round /\ p.row = o.row /\ p.canon = Canon(o.row, o.view)
        /\ p.block = o.block /\ p.final = o.final
        /\ p.sigs = {} /\ p.prepares = {} /\ p.commits = {}
    BY <1>2 DEF Round, CanonT
  <2> HIDE DEF p
  <2>3. VotesInv(p) /\ CanonInv(p)
    BY <1>1, <2>2 DEF VotesInv, CanonInv
  <2> QED BY <2>1, <2>2, <2>3 DEF ObjInv
<1> QED BY <1>3, <1>4

\* A restamped row differs in its stamp.
LEMMA RestampedFields ==
    ASSUME NEW o \in Round, o.row.stamp < MaxStamp
    PROVE  /\ Restamped(o) \in Round /\ Restamped(o).row.block = o.row.block
           /\ Restamped(o).block = o.block /\ Restamped(o).final = o.final
           /\ Restamped(o).canon = o.canon /\ Restamped(o).sigs = o.sigs
           /\ Restamped(o).prepares = o.prepares /\ Restamped(o).commits = o.commits
           /\ Restamped(o).view = o.view
<1> DEFINE row == [o.row EXCEPT !.stamp = @ + 1]
<1>1. o.row \in Row
  BY RoundFields
<1>2. o.row.stamp + 1 \in 0..MaxStamp
  BY <1>1, XBoundsAssumption DEF Row
<1>3. row \in Row /\ row.block = o.row.block
  BY <1>1, <1>2 DEF Row
<1>4. Restamped(o) = [o EXCEPT !.row = row]
  BY DEF Restamped
<1> HIDE DEF row
<1> QED BY <1>3, <1>4 DEF Round

\* The vote and the view of a round do not enter its invariant.
LEMMA ViewKeeps ==
    ASSUME NEW r, NEW o, ObjInv(r, o), NEW v \in Views
    PROVE  /\ ObjInv(r, [o EXCEPT !.view = v]) /\ [o EXCEPT !.view = v].final = o.final
           /\ [o EXCEPT !.view = v].row = o.row /\ [o EXCEPT !.view = v].block = o.block
<1> DEFINE p == [o EXCEPT !.view = v]
<1>0. o \in Round
  BY DEF ObjInv
<1>1. /\ p \in Round /\ p.row = o.row /\ p.canon = o.canon /\ p.block = o.block
      /\ p.final = o.final /\ p.sigs = o.sigs /\ p.prepares = o.prepares
      /\ p.commits = o.commits
  BY <1>0 DEF Round
<1> HIDE DEF p
<1>2. ObjInv(r, p)
  BY <1>1 DEF ObjInv, VotesInv, CanonInv
<1> QED BY <1>1, <1>2 DEF p

\* A vote for a view is no vote for a row.
LEMMA ViewVoteKeeps ==
    ASSUME NEW r, NEW o, ObjInv(r, o), NEW v \in Views, NEW by \in Hubs
    PROVE  LET p == [o EXCEPT !.vcs = @ \cup {[view |-> v, by |-> by]}]
           IN  ObjInv(r, p) /\ p.final = o.final /\ p.row = o.row /\ p.block = o.block
               /\ p.view = o.view
<1> DEFINE p == [o EXCEPT !.vcs = @ \cup {[view |-> v, by |-> by]}]
<1>0. o \in Round
  BY DEF ObjInv
<1>1. /\ p \in Round /\ p.row = o.row /\ p.canon = o.canon /\ p.block = o.block
      /\ p.final = o.final /\ p.sigs = o.sigs /\ p.prepares = o.prepares
      /\ p.commits = o.commits /\ p.view = o.view
  BY <1>0 DEF Round
<1> HIDE DEF p
<1>2. ObjInv(r, p)
  BY <1>1 DEF ObjInv, VotesInv, CanonInv
<1> QED BY <1>1, <1>2 DEF p

\* What maybeAssumeLeadership leaves behind of a round object o.
LeadershipStep(h, o, v, after) ==
    /\ ObjInv(scenario.restamp, after.obj)
    /\ after.obj.final = o.final /\ after.obj.block = o.block
    /\ scenario.restamp = "none" => after.obj.row = o.row
    /\ after.msgs \subseteq {Control("NEW_VIEW", h, v)}
    /\ \/ after.tasks = {}
       \/ after.tasks = {Persisting(live[h], FALSE)}
       \/ /\ after.tasks = {[kind |-> "restamp", at |-> live[h], view |-> v]}
          /\ scenario.restamp = "later"

\* The new leader's row may be restamped, and is proposed again under a canonical
\* of its own.
LEMMA LeadershipKeeps ==
    ASSUME NEW h, NEW o, ObjInv(scenario.restamp, o), NEW v \in Views, NEW stale \in MayBeStale(o)
    PROVE  LeadershipStep(h, o, v, AssumeLeadership(h, o, v, stale))
<1> DEFINE after == AssumeLeadership(h, o, v, stale)
           risen == [o EXCEPT !.view = Larger(@, v)]
           stamped == IF stale /\ scenario.restamp = "now" THEN Restamped(risen) ELSE risen
<1> SUFFICES LeadershipStep(h, o, v, after)
  OBVIOUS
<1>0. o \in Round /\ o.block = o.row.block
  BY DEF ObjInv
<1>1. Larger(o.view, v) \in Views
  BY <1>0, RoundFields, LargerView
<1>2. risen = [o EXCEPT !.view = Larger(o.view, v)]
  BY <1>0 DEF Round
<1>3. ObjInv(scenario.restamp, risen) /\ risen.final = o.final /\ risen.row = o.row
      /\ risen.block = o.block
  BY <1>1, <1>2, ViewKeeps
<1> HIDE DEF risen
<1>4. CASE o.final \/ ~VcQuorum(o, v)
  <2>1. after.obj = o /\ after.msgs = {} /\ after.tasks = {}
    BY <1>4 DEF AssumeLeadership
  <2> HIDE DEF after
  <2> QED BY <2>1 DEF LeadershipStep
<1>5. CASE ~(o.final \/ ~VcQuorum(o, v)) /\ leaderFor(o.block, v) # h
  <2>1. after.obj = risen /\ after.msgs = {} /\ after.tasks = {}
    BY <1>5 DEF AssumeLeadership, risen
  <2> HIDE DEF after
  <2> QED BY <1>3, <2>1 DEF LeadershipStep
<1>6. CASE ~(o.final \/ ~VcQuorum(o, v)) /\ leaderFor(o.block, v) = h
           /\ stale /\ scenario.restamp = "later"
  <2>1. /\ after.obj = risen /\ after.msgs = {}
        /\ after.tasks = {[kind |-> "restamp", at |-> live[h], view |-> v]}
    BY <1>6 DEF AssumeLeadership, risen
  <2> HIDE DEF after
  <2> QED BY <1>3, <1>6, <2>1 DEF LeadershipStep
<1>7. CASE ~(o.final \/ ~VcQuorum(o, v)) /\ leaderFor(o.block, v) = h
           /\ ~(stale /\ scenario.restamp = "later")
  <2>1. /\ after.obj = Reproposed(stamped) /\ after.msgs = {Control("NEW_VIEW", h, v)}
        /\ after.tasks = {Persisting(live[h], FALSE)}
    BY <1>7 DEF AssumeLeadership, risen
  <2>2. /\ stamped \in Round /\ stamped.block = o.block /\ stamped.row.block = o.row.block
        /\ stamped.final = o.final
        /\ scenario.restamp = "none" => stamped.row = o.row
        /\ scenario.restamp # "later" /\ ~o.final => VotesInv(stamped)
    <3>0. risen \in Round /\ (scenario.restamp # "later" /\ ~o.final => VotesInv(risen))
      BY <1>3 DEF ObjInv
    <3>1. CASE stale /\ scenario.restamp = "now"
      <4>1. risen.row.stamp < MaxStamp
        <5>1. CASE scenario.restamp # "none" /\ o.row.stamp < MaxStamp
          BY <1>3, <5>1
        <5>2. CASE ~(scenario.restamp # "none" /\ o.row.stamp < MaxStamp)
          BY <3>1, <5>2 DEF MayBeStale
        <5> QED BY <5>1, <5>2
      <4>2. stamped = Restamped(risen)
        BY <3>1
      <4> HIDE DEF stamped
      <4> QED BY <1>3, <3>0, <3>1, <4>1, <4>2, RestampedFields DEF VotesInv
    <3>2. CASE ~(stale /\ scenario.restamp = "now")
      BY <1>3, <3>0, <3>2
    <3> QED BY <3>1, <3>2
  <2> HIDE DEF stamped
  <2>3. /\ ObjInv(scenario.restamp, Reproposed(stamped))
        /\ Reproposed(stamped).final = stamped.final
        /\ Reproposed(stamped).row = stamped.row /\ Reproposed(stamped).block = stamped.block
    BY <1>0, <2>2, ReproposedKeeps
  <2> HIDE DEF after
  <2> QED BY <2>1, <2>2, <2>3 DEF LeadershipStep
<1> QED BY <1>4, <1>5, <1>6, <1>7

\* handleFinalSync: the verified signatures prove the offered row by themselves.
LEMMA CaughtUpKeeps ==
    ASSUME NEW r, NEW o \in Round, NEW m \in Message, m.row \in Row,
           ProofHolds(m, m.row.block), NEW h
    PROVE  ObjStep(h, r, o, CaughtUp(o, m, m.row.block))
<1> DEFINE b == m.row.block
           sigs == VerifiedProof(m, b)
           q == [o EXCEPT !.row = m.row, !.canon = Canon(m.row, m.view),
                          !.sigs = sigs, !.block = b, !.view = m.view]
           p == CaughtUp(o, m, b)
<1>1. b \in Blocks /\ m.view \in Views /\ m.proof \in SUBSET SigT
  BY DEF Message, Row
<1>2. Canon(m.row, m.view) \in CanonT
  BY <1>1, CanonType
<1>3. /\ sigs \in SUBSET SigT
      /\ \A s \in sigs : s.over = Canon(m.row, m.view)
  BY <1>1 DEF VerifiedProof
<1>4. Signers(sigs) \in SUBSET Hubs
  BY <1>3 DEF Signers, SigT
<1> HIDE DEF sigs
<1>5. /\ q \in Round /\ q.row = m.row /\ q.block = b /\ q.sigs = sigs
  BY <1>1, <1>2, <1>3 DEF Round, CanonT, SigT
<1>6. p = Finalized(q)
  BY DEF CaughtUp, sigs
<1> HIDE DEF q
<1>7. p \in Round /\ p.final = TRUE /\ p.row = m.row /\ p.block = b /\ p.sigs = sigs
  BY <1>5, <1>6, FinalizedFields
<1>8. meetsQuorum(b, Signers(sigs))
  <2>1. CASE Weighted[b]
    BY <1>1, <1>4, <2>1 DEF ProofHolds, meetsQuorum, XQuorums, sigs
  <2>2. CASE ~Weighted[b]
    <3>1. Cardinality(Signers(sigs)) >= Larger(getQuorum(Snapshot[b]), 1)
      BY <2>2 DEF ProofHolds, sigs
    <3>2. getQuorum(Snapshot[b]) \in Int
      <4>1. Len(Snapshot[b].validators) \in Nat
        BY <1>1, XRotationAssumption
      <4> DEFINE n == Len(Snapshot[b].validators)
      <4> HIDE DEF n
      <4>2. n \in Nat
        BY <4>1 DEF n
      <4>3. bftQuorumOrSingle(n, 0) \in Int
        BY <4>2 DEF bftQuorumOrSingle, bftQuorum, Larger
      <4> QED BY <4>3 DEF getQuorum, n
    <3> DEFINE c == Cardinality(Signers(sigs))
               g == getQuorum(Snapshot[b])
    <3> HIDE DEF c, g
    <3>3. c >= g
      <4>0. c \in Nat
        BY <1>4, XDataAssumption, FS_Subset, FS_CardinalityType DEF c
      <4>1. c >= Larger(g, 1) /\ g \in Int
        BY <3>1, <3>2 DEF c, g
      <4>2. CASE g < 1
        <5>1. c >= 1
          BY <4>1, <4>2 DEF Larger
        <5> QED BY <4>0, <4>1, <4>2, <5>1
      <4>3. CASE ~(g < 1)
        BY <4>1, <4>3 DEF Larger
      <4> QED BY <4>2, <4>3
    <3> QED BY <1>1, <1>4, <2>2, <3>3 DEF meetsQuorum, XQuorums, c, g
  <2> QED BY <2>1, <2>2
<1>9. Proven(p.row, p.sigs)
  BY <1>1, <1>3, <1>7, <1>8 DEF Proven, Backed
<1> HIDE DEF p
<1>10. ObjInv(r, p)
  BY <1>7 DEF ObjInv
<1>11. ObjStep(h, r, o, p)
  BY <1>7, <1>9, <1>10 DEF ObjStep
<1> QED BY <1>11 DEF p

-----------------------------------------------------------------------------
(***************************************************************************)
(* What a step may do to one variable without disturbing the invariant.    *)
(***************************************************************************)

\* No object reopens, and none changes whether it is a lone validator's.
Tame(h, o, p) == (o.final => p.final) /\ (p.final \/ (Solo(h, p) <=> Solo(h, o)))

RoundsStep ==
    /\ rounds' \in [Hubs -> Seq(Round)]
    /\ \A k \in Hubs :
          /\ Len(rounds[k]) <= Len(rounds'[k])
          /\ \A i \in 1..Len(rounds[k]) : Tame(k, rounds[k][i], rounds'[k][i])

SameLengths == \A k \in Hubs : Len(rounds'[k]) = Len(rounds[k])

\* Every step keeps what the scenario says, but for the faults left.
ScenarioStep ==
    /\ ScenarioInv'
    /\ scenario'.restamp = scenario.restamp /\ scenario'.opens = scenario.opens

\* A scenario that is left alone.
LEMMA SameScenario ==
    ASSUME ScenarioInv, UNCHANGED scenario
    PROVE  ScenarioStep
  BY DEF ScenarioInv, ScenarioStep

\* A fault is spent from the scenario's.
LEMMA SpendScenario ==
    ASSUME ScenarioInv, Spend
    PROVE  ScenarioStep
<1>1. scenario.faults > 0 /\ scenario.faults \in Nat
  BY DEF Spend, ScenarioInv
<1>2. scenario.faults - 1 \in Nat
  BY <1>1
<1>3. scenario' = [scenario EXCEPT !.faults = scenario.faults - 1]
  BY DEF Spend, ScenarioInv
<1> QED BY <1>2, <1>3 DEF ScenarioInv, ScenarioStep

\* Round objects that are left alone.
LEMMA SameRounds ==
    ASSUME RoundsInv, ScenarioStep, UNCHANGED rounds
    PROVE  RoundsInv' /\ RoundsStep /\ SameLengths
  BY DEF RoundsInv, RoundsStep, SameLengths, ScenarioStep, Tame

\* One hub's round objects are replaced, each by a step of its own.
LEMMA NewRounds ==
    ASSUME RoundsInv, ScenarioStep, NEW h \in Hubs, NEW objs \in Seq(Round),
           Len(objs) = Len(rounds[h]),
           \A i \in 1..Len(objs) : /\ ObjInv(scenario.restamp, objs[i])
                                   /\ Tame(h, rounds[h][i], objs[i]),
           rounds' = [rounds EXCEPT ![h] = objs]
    PROVE  RoundsInv' /\ RoundsStep /\ SameLengths
<1>1. rounds' \in [Hubs -> Seq(Round)]
  BY DEF RoundsInv
<1>2. rounds'[h] = objs /\ \A k \in Hubs \ {h} : rounds'[k] = rounds[k]
  BY DEF RoundsInv
<1>3. SameLengths
  BY <1>2 DEF SameLengths
<1>4. RoundsInv'
  BY <1>1, <1>2 DEF RoundsInv, ScenarioStep
<1>5. ASSUME NEW k \in Hubs, NEW i \in 1..Len(rounds[k])
      PROVE  Tame(k, rounds[k][i], rounds'[k][i])
  <2>1. CASE k = h
    BY <1>2, <1>5, <2>1
  <2>2. CASE k # h
    BY <1>2, <2>2 DEF Tame
  <2> QED BY <2>1, <2>2
<1>6. \A k \in Hubs : Len(rounds[k]) <= Len(rounds'[k])
  <2> SUFFICES ASSUME NEW k \in Hubs PROVE Len(rounds[k]) <= Len(rounds'[k])
    OBVIOUS
  <2>1. Len(rounds[k]) \in Nat
    BY DEF RoundsInv
  <2> QED BY <1>3, <2>1 DEF SameLengths
<1> QED BY <1>1, <1>3, <1>4, <1>5, <1>6 DEF RoundsStep

\* Replacing one round object of one hub.
LEMMA OneObject ==
    ASSUME NEW s \in Seq(Round), NEW i \in 1..Len(s), NEW o \in Round
    PROVE  /\ [s EXCEPT ![i] = o] \in Seq(Round)
           /\ Len([s EXCEPT ![i] = o]) = Len(s)
           /\ [s EXCEPT ![i] = o][i] = o
           /\ \A j \in 1..Len(s) : j # i => [s EXCEPT ![i] = o][j] = s[j]
  OBVIOUS

\* A round object may be replaced by any that is in order.
LEMMA SetRoundStep ==
    ASSUME RoundsInv, ScenarioStep, NEW h \in Hubs, NEW i \in 1..Len(rounds[h]), NEW o,
           ObjInv(scenario.restamp, o), Tame(h, rounds[h][i], o), SetRound(h, i, o)
    PROVE  RoundsInv' /\ RoundsStep /\ SameLengths
<1> DEFINE objs == [rounds[h] EXCEPT ![i] = o]
<1>1. rounds[h] \in Seq(Round) /\ o \in Round
  BY DEF RoundsInv, ObjInv
<1>2. /\ objs \in Seq(Round) /\ Len(objs) = Len(rounds[h]) /\ objs[i] = o
      /\ \A j \in 1..Len(rounds[h]) : j # i => objs[j] = rounds[h][j]
  BY <1>1, OneObject
<1>3. rounds' = [rounds EXCEPT ![h] = objs]
  BY DEF SetRound, RoundsInv
<1> HIDE DEF objs
<1>4. \A j \in 1..Len(objs) : /\ ObjInv(scenario.restamp, objs[j])
                              /\ Tame(h, rounds[h][j], objs[j])
  BY <1>2 DEF RoundsInv, Tame
<1> QED BY <1>2, <1>3, <1>4, NewRounds

\* Settle: a round that becomes final is published, with its proof.
LEMMA SettleStep ==
    ASSUME RoundsInv, ScenarioStep, FinalInv, EmittedInv, LiveInv, NEW h \in Hubs, HasRound(h),
           NEW objs \in Seq(Round), Len(objs) = Len(rounds[h]),
           \A i \in 1..Len(objs) : /\ ObjInv(scenario.restamp, objs[i])
                                   /\ Tame(h, rounds[h][i], objs[i]),
           NEW o, ObjStep(h, scenario.restamp, Live(h), o),
           Settle(h, objs, o)
    PROVE  RoundsInv' /\ RoundsStep /\ SameLengths /\ FinalInv' /\ EmittedInv'
<1> DEFINE new == [objs EXCEPT ![live[h]] = o]
           result == [row |-> o.row, view |-> o.view, sigs |-> o.sigs]
<1>1. live[h] \in 1..Len(objs)
  BY DEF HasRound, LiveInv
<1>2. o \in Round /\ ObjInv(scenario.restamp, o) /\ Tame(h, Live(h), o)
  BY DEF ObjStep, ObjInv, Tame
<1>3. /\ new \in Seq(Round) /\ Len(new) = Len(rounds[h]) /\ new[live[h]] = o
      /\ \A j \in 1..Len(objs) : j # live[h] => new[j] = objs[j]
  BY <1>1, <1>2, OneObject
<1>4. rounds' = [rounds EXCEPT ![h] = new]
  BY DEF Settle
<1> HIDE DEF new
<1>5. \A j \in 1..Len(new) : /\ ObjInv(scenario.restamp, new[j])
                             /\ Tame(h, rounds[h][j], new[j])
  BY <1>2, <1>3 DEF Live
<1>6. RoundsInv' /\ RoundsStep /\ SameLengths
  BY <1>3, <1>4, <1>5, NewRounds
<1>7. result \in Final /\ result.row = o.row /\ result.sigs = o.sigs
  BY <1>2, RoundFields DEF Final
<1>8. FinalInv' /\ EmittedInv'
  <2>1. CASE o.final /\ ~Live(h).final
    <3>1. /\ finalRow' = [finalRow EXCEPT ![h] = IF @ = NoRow THEN result ELSE @]
          /\ emitted' = emitted \cup {[hub |-> h, at |-> result]}
      BY <2>1 DEF Settle
    <3>2. scenario.restamp # "later" => Proven(o.row, o.sigs)
      BY <2>1 DEF ObjStep
    <3> HIDE DEF result
    <3>3. FinalInv'
      BY <1>7, <3>1 DEF FinalInv
    <3>4. ASSUME scenario'.restamp # "later", NEW e \in emitted'
          PROVE  Proven(e.at.row, e.at.sigs)
      <4>1. CASE e \in emitted
        BY <3>4, <4>1 DEF EmittedInv, ScenarioStep
      <4>2. CASE e = [hub |-> h, at |-> result]
        <5>1. e.at = result
          BY <4>2
        <5> QED BY <1>7, <3>2, <3>4, <5>1 DEF ScenarioStep
      <4> QED BY <3>1, <4>1, <4>2
    <3> QED BY <3>3, <3>4 DEF EmittedInv
  <2>2. CASE ~(o.final /\ ~Live(h).final)
    <3>1. UNCHANGED <<finalRow, emitted>>
      BY <2>2 DEF Settle
    <3> QED BY <3>1 DEF FinalInv, EmittedInv, ScenarioStep
  <2> QED BY <2>1, <2>2
<1> QED BY <1>6, <1>8

\* Messages of h that any other hub may receive.
Sendable(h, msgs) ==
    \A m \in msgs : m \in Message /\ \A k \in Hubs \ {h} : MsgInv(k, m)

\* A broadcast reaches the other hubs.
LEMMA BroadcastNet ==
    ASSUME NEW net, NetInv(net), NEW h \in Hubs, NEW msgs, Sendable(h, msgs)
    PROVE  NetInv(Broadcast(net, h, msgs))
<1> DEFINE new == Broadcast(net, h, msgs)
<1>1. \A k \in Hubs : new[k] = net[k] \/ (k # h /\ new[k] = net[k] \cup msgs)
  BY DEF Broadcast
<1>2. new = [k \in Hubs |-> IF k \in On \ {h} THEN net[k] \cup msgs ELSE net[k]]
  BY DEF Broadcast
<1>3. \A k \in Hubs : net[k] \in SUBSET Message /\ \A m \in net[k] : MsgInv(k, m)
  BY DEF NetInv
<1>4. \A k \in Hubs : (IF k \in On \ {h} THEN net[k] \cup msgs ELSE net[k]) \in SUBSET Message
  BY <1>3 DEF Sendable
<1>5. new \in [Hubs -> SUBSET Message]
  BY <1>2, <1>4
<1> HIDE DEF new
<1>6. \A k \in Hubs : \A m \in new[k] : MsgInv(k, m)
  BY <1>1, <1>3 DEF Sendable
<1>7. NetInv(new)
  BY <1>5, <1>6 DEF NetInv
<1> QED BY <1>7 DEF new

\* A message taken from gossip.
LEMMA TakenNet ==
    ASSUME NetInv(xnet), NEW h \in Hubs, NEW m
    PROVE  NetInv(Taken(h, m))
<1> DEFINE new == Taken(h, m)
<1>1. \A k \in Hubs : xnet[k] \in SUBSET Message /\ \A x \in xnet[k] : MsgInv(k, x)
  BY DEF NetInv
<1>2. new = [xnet EXCEPT ![h] = xnet[h] \ {m}] /\ xnet \in [Hubs -> SUBSET Message]
  BY DEF Taken, NetInv
<1>3. xnet[h] \ {m} \in SUBSET Message
  BY <1>1
<1>4. new \in [Hubs -> SUBSET Message] /\ \A k \in Hubs : new[k] \subseteq xnet[k]
  BY <1>2, <1>3
<1> HIDE DEF new
<1>5. NetInv(new)
  BY <1>1, <1>4 DEF NetInv
<1> QED BY <1>5 DEF new

\* Early messages put back into gossip.
LEMMA DrainedNet ==
    ASSUME NEW net, NetInv(net), NetInv(early), NEW h \in Hubs
    PROVE  NetInv(Drained(net, h)) /\ NetInv([early EXCEPT ![h] = {}])
<1> DEFINE new == Drained(net, h)
           none == [early EXCEPT ![h] = {}]
<1>1. \A k \in Hubs : net[k] \in SUBSET Message /\ \A x \in net[k] : MsgInv(k, x)
  BY DEF NetInv
<1>2. \A k \in Hubs : early[k] \in SUBSET Message /\ \A x \in early[k] : MsgInv(k, x)
  BY DEF NetInv
<1>3. new = [net EXCEPT ![h] = net[h] \cup early[h]] /\ net \in [Hubs -> SUBSET Message]
  BY DEF Drained, NetInv
<1>4. net[h] \cup early[h] \in SUBSET Message
  BY <1>1, <1>2
<1>5. /\ new \in [Hubs -> SUBSET Message]
      /\ \A k \in Hubs : new[k] \subseteq net[k] \cup early[k]
  BY <1>3, <1>4
<1>6. none \in [Hubs -> SUBSET Message] /\ \A k \in Hubs : none[k] \subseteq early[k]
  BY DEF NetInv
<1> HIDE DEF new, none
<1>7. NetInv(new) /\ NetInv(none)
  BY <1>1, <1>2, <1>5, <1>6 DEF NetInv
<1> QED BY <1>7 DEF new, none

\* Suspended handlers: the old ones survive any step of the rounds.
LEMMA TasksStep ==
    ASSUME TasksInv, RoundsInv, RoundsStep, ScenarioStep,
           tasks' \in [Hubs -> SUBSET Task],
           \A k \in Hubs : \A t \in tasks'[k] : t \in tasks[k] \/ TaskInv(k, t)'
    PROVE  TasksInv'
<1>1. SUFFICES ASSUME NEW k \in Hubs, NEW t \in tasks[k] PROVE TaskInv(k, t)'
  BY DEF TasksInv
<1>2. TaskInv(k, t) /\ t \in Task
  BY DEF TasksInv
<1>3. t.at \in 1..Len(rounds[k])
  BY <1>2 DEF TaskInv
<1>4. Len(rounds[k]) \in Nat /\ Len(rounds'[k]) \in Nat /\ Len(rounds[k]) <= Len(rounds'[k])
  BY DEF RoundsInv, RoundsStep
<1>5. t.at \in 1..Len(rounds'[k])
  BY <1>3, <1>4
<1>6. Tame(k, rounds[k][t.at], rounds'[k][t.at])
  BY <1>3 DEF RoundsStep
<1>7. t.kind = "alone" => rounds'[k][t.at].final \/ Solo(k, rounds'[k][t.at])
  BY <1>2, <1>6 DEF TaskInv, Tame
<1>8. t.kind \in {"validate", "rebind"} /\ t.msg.type = "PROPOSE" =>
          rounds'[k][t.at].final \/ ~Solo(k, rounds'[k][t.at])
  BY <1>2, <1>6 DEF TaskInv, Tame
<1>9. scenario'.restamp = scenario.restamp
  BY DEF ScenarioStep
<1> QED BY <1>2, <1>5, <1>7, <1>8, <1>9 DEF TaskInv

\* A handler is suspended on an object.
LEMMA StartTasks ==
    ASSUME TasksInv, NEW h \in Hubs, NEW ts \in SUBSET Task,
           Start(h, ts) \/ \E t \in tasks[h] : End(h, t, ts)
    PROVE  /\ tasks' \in [Hubs -> SUBSET Task]
           /\ \A k \in Hubs : \A t \in tasks'[k] : t \in tasks[k] \/ (k = h /\ t \in ts)
<1>1. tasks \in [Hubs -> SUBSET Task] /\ tasks[h] \in SUBSET Task
  BY DEF TasksInv
<1>2. CASE Start(h, ts)
  <2>1. tasks' = [tasks EXCEPT ![h] = tasks[h] \cup ts]
    BY <1>2 DEF Start
  <2>2. tasks[h] \cup ts \in SUBSET Task
    BY <1>1
  <2> QED BY <1>1, <2>1, <2>2
<1>3. ASSUME NEW t \in tasks[h], End(h, t, ts)
      PROVE  /\ tasks' \in [Hubs -> SUBSET Task]
             /\ \A k \in Hubs : \A x \in tasks'[k] : x \in tasks[k] \/ (k = h /\ x \in ts)
  <2>1. tasks' = [tasks EXCEPT ![h] = (tasks[h] \ {t}) \cup ts]
    BY <1>3 DEF End
  <2>2. (tasks[h] \ {t}) \cup ts \in SUBSET Task
    BY <1>1
  <2> QED BY <1>1, <2>1, <2>2
<1> QED BY <1>2, <1>3

\* One new suspended handler at most.
LEMMA OneTask ==
    ASSUME TasksInv, RoundsInv, RoundsStep, ScenarioStep, NEW h \in Hubs,
           NEW ts \in SUBSET Task, \A t \in ts : TaskInv(h, t)',
           Start(h, ts) \/ \E t \in tasks[h] : End(h, t, ts)
    PROVE  TasksInv'
<1>1. /\ tasks' \in [Hubs -> SUBSET Task]
      /\ \A k \in Hubs : \A t \in tasks'[k] : t \in tasks[k] \/ (k = h /\ t \in ts)
  BY StartTasks
<1>2. \A k \in Hubs : \A t \in tasks'[k] : t \in tasks[k] \/ TaskInv(k, t)'
  BY <1>1
<1> QED BY <1>1, <1>2, TasksStep

\* Suspended handlers that are left alone.
LEMMA SameTasks ==
    ASSUME TasksInv, RoundsInv, RoundsStep, ScenarioStep, UNCHANGED tasks
    PROVE  TasksInv'
  BY TasksStep DEF TasksInv

\* The handlers that wait for a snapshot to be persisted.
LEMMA PersistTask ==
    ASSUME NEW h \in Hubs, NEW i \in Nat, NEW drain \in BOOLEAN
    PROVE  /\ Persisting(i, drain) \in Task
           /\ (i \in 1..Len(rounds[h]))' => TaskInv(h, Persisting(i, drain))'
<1> DEFINE t == Persisting(i, drain)
<1>1. t.kind = "persist" /\ t.at = i
  BY DEF Persisting
<1>2. t \in Task
  BY DEF Persisting, Task
<1> HIDE DEF t
<1>3. (i \in 1..Len(rounds[h]))' => TaskInv(h, t)'
  BY <1>1 DEF TaskInv
<1> QED BY <1>2, <1>3 DEF t

\* The live round stays or is given up, and no round opens.
LEMMA LiveStep ==
    ASSUME LiveInv, RoundsInv, ScenarioStep, SameLengths,
           UNCHANGED live \/ \E h \in Hubs : live' = [live EXCEPT ![h] = 0]
    PROVE  LiveInv'
<1>1. live' \in [Hubs -> Nat] /\ \A k \in Hubs : live'[k] = live[k] \/ live'[k] = 0
  BY DEF LiveInv
<1>2. ASSUME NEW k \in Hubs
      PROVE  live'[k] <= Len(rounds'[k]) /\ Len(rounds'[k]) <= scenario'.opens[k]
  <2>1. Len(rounds[k]) \in Nat /\ Len(rounds'[k]) = Len(rounds[k])
    BY DEF RoundsInv, SameLengths
  <2>2. live[k] <= Len(rounds[k]) /\ Len(rounds[k]) <= scenario.opens[k]
    BY DEF LiveInv
  <2> QED BY <1>1, <2>1, <2>2 DEF ScenarioStep
<1> QED BY <1>1, <1>2 DEF LiveInv

\* The live round is one of the objects.
LEMMA LiveObject ==
    ASSUME RoundsInv, LiveInv, NEW h \in Hubs, HasRound(h)
    PROVE  /\ live[h] \in 1..Len(rounds[h]) /\ live[h] \in Nat
           /\ Live(h) \in Round /\ ObjInv(scenario.restamp, Live(h))
<1>1. live[h] \in 1..Len(rounds[h]) /\ live[h] \in Nat
  BY DEF LiveInv, HasRound, RoundsInv
<1> QED BY <1>1 DEF RoundsInv, Live, ObjInv

\* Events that are left alone.
LEMMA SameEmitted ==
    ASSUME EmittedInv, ScenarioStep, UNCHANGED emitted
    PROVE  EmittedInv'
  BY DEF EmittedInv, ScenarioStep

\* Cached rows that are left alone.
LEMMA SameFinal ==
    ASSUME FinalInv, UNCHANGED finalRow
    PROVE  FinalInv'
  BY DEF FinalInv

\* Messages that are left alone.
LEMMA SameMessages ==
    ASSUME MessagesInv, UNCHANGED <<xnet, early>>
    PROVE  MessagesInv'
  BY DEF MessagesInv

-----------------------------------------------------------------------------
(***************************************************************************)
(* The actions.                                                            *)
(***************************************************************************)

\* The initial states satisfy the invariant.
LEMMA XInitInv == XInit => XInv
<1> SUFFICES ASSUME XInit PROVE XInv
  OBVIOUS
<1>1. ScenarioInv
  BY XDataAssumption DEF XInit, ScenarioInv
<1>2. rounds = [h \in Hubs |-> <<>>] /\ live = [h \in Hubs |-> 0]
  BY DEF XInit
<1>3. RoundsInv
  BY <1>2 DEF RoundsInv
<1>4. LiveInv
  <2>1. \A h \in Hubs : live[h] = 0 /\ Len(rounds[h]) = 0
    BY <1>2
  <2>2. \A h \in Hubs : scenario.opens[h] \in Nat
    BY <1>1 DEF ScenarioInv
  <2>3. live \in [Hubs -> Nat]
    BY <1>2
  <2> QED BY <2>1, <2>2, <2>3 DEF LiveInv
<1>5. FinalInv
  BY DEF XInit, FinalInv
<1>6. MessagesInv
  BY DEF XInit, MessagesInv, NetInv
<1>7. TasksInv
  BY DEF XInit, TasksInv
<1>8. EmittedInv
  BY DEF XInit, EmittedInv
<1> QED BY <1>1, <1>3, <1>4, <1>5, <1>6, <1>7, <1>8 DEF XInv

\* A message is dropped.
LEMMA DropKeeps ==
    ASSUME XInv, NEW h \in Hubs, NEW m, Drop(h, m)
    PROVE  XInv'
<1> USE DEF XInv
<1>1. /\ xnet' = Taken(h, m)
      /\ UNCHANGED <<rounds, live, finalRow, early, tasks, emitted, scenario>>
  BY DEF Drop
<1>2. ScenarioStep
  BY <1>1, SameScenario
<1>3. RoundsInv' /\ RoundsStep /\ SameLengths
  BY <1>1, <1>2, SameRounds
<1>4. LiveInv'
  BY <1>1, <1>2, <1>3, LiveStep
<1>5. MessagesInv'
  <2>1. NetInv(Taken(h, m))
    BY TakenNet DEF MessagesInv
  <2> QED BY <1>1, <2>1 DEF MessagesInv
<1>6. TasksInv'
  BY <1>1, <1>2, <1>3, SameTasks
<1>7. FinalInv' /\ EmittedInv'
  BY <1>1, <1>2, SameFinal, SameEmitted
<1> QED BY <1>2, <1>3, <1>4, <1>5, <1>6, <1>7 DEF ScenarioStep

\* A vote is kept for a round to come.
LEMMA EarlyKeeps ==
    ASSUME XInv, NEW h \in Hubs, NEW m \in xnet[h], Early(h, m)
    PROVE  XInv'
<1> USE DEF XInv
<1>1. /\ xnet' = Taken(h, m) /\ early' = [early EXCEPT ![h] = @ \cup {m}]
      /\ UNCHANGED <<rounds, live, finalRow, tasks, emitted, scenario>>
  BY DEF Early, Hold
<1>2. ScenarioStep
  BY <1>1, SameScenario
<1>3. RoundsInv' /\ RoundsStep /\ SameLengths
  BY <1>1, <1>2, SameRounds
<1>4. LiveInv'
  BY <1>1, <1>2, <1>3, LiveStep
<1>5. MessagesInv'
  <2>1. NetInv(Taken(h, m))
    BY TakenNet DEF MessagesInv
  <2>2. m \in Message /\ MsgInv(h, m)
    BY DEF MessagesInv, NetInv
  <2>3. early \in [Hubs -> SUBSET Message] /\ \A k \in Hubs : \A x \in early[k] : MsgInv(k, x)
    BY DEF MessagesInv, NetInv
  <2>4. early[h] \cup {m} \in SUBSET Message
    BY <2>2, <2>3
  <2>5. early' \in [Hubs -> SUBSET Message]
    BY <1>1, <2>3, <2>4
  <2>6. \A k \in Hubs : \A x \in early'[k] : x \in early[k] \/ (k = h /\ x = m)
    BY <1>1, <2>3
  <2>7. NetInv(early)'
    BY <2>2, <2>3, <2>5, <2>6 DEF NetInv
  <2> QED BY <1>1, <2>1, <2>7 DEF MessagesInv
<1>6. TasksInv'
  BY <1>1, <1>2, <1>3, SameTasks
<1>7. FinalInv' /\ EmittedInv'
  BY <1>1, <1>2, SameFinal, SameEmitted
<1> QED BY <1>2, <1>3, <1>4, <1>5, <1>6, <1>7 DEF ScenarioStep

\* A suspended handler ends without effect.
LEMMA DismissKeeps ==
    ASSUME XInv, NEW h \in Hubs, NEW t \in tasks[h], Dismiss(h, t)
    PROVE  XInv'
<1> USE DEF XInv
<1>1. /\ End(h, t, {})
      /\ UNCHANGED <<rounds, live, finalRow, early, xnet, emitted, scenario>>
  BY DEF Dismiss
<1>2. ScenarioStep
  BY <1>1, SameScenario
<1>3. RoundsInv' /\ RoundsStep /\ SameLengths
  BY <1>1, <1>2, SameRounds
<1>4. LiveInv'
  BY <1>1, <1>2, <1>3, LiveStep
<1>5. MessagesInv'
  BY <1>1, SameMessages
<1>6. TasksInv'
  BY <1>1, <1>2, <1>3, OneTask
<1>7. FinalInv' /\ EmittedInv'
  BY <1>1, <1>2, SameFinal, SameEmitted
<1> QED BY <1>2, <1>3, <1>4, <1>5, <1>6, <1>7 DEF ScenarioStep

\* A round opens: one object more, and it is the live one.
LEMMA OpenedStep ==
    ASSUME XInv, NEW h \in Hubs, NEW row \in Row, Opened(h, row)
    PROVE  /\ ScenarioStep /\ RoundsInv' /\ RoundsStep /\ LiveInv' /\ FinalInv' /\ EmittedInv'
           /\ Len(rounds[h]) + 1 \in 1..Len(rounds'[h]) /\ Len(rounds[h]) \in Nat
           /\ rounds'[h][Len(rounds[h]) + 1] = openPendingRound(row)
<1> USE DEF XInv
<1> DEFINE new == openPendingRound(row)
           n == Len(rounds[h])
<1>1. /\ rounds' = [rounds EXCEPT ![h] = Append(rounds[h], new)]
      /\ live' = [live EXCEPT ![h] = n + 1]
      /\ n < scenario.opens[h]
      /\ UNCHANGED <<finalRow, emitted, scenario>>
  BY DEF Opened
<1>2. ScenarioStep
  BY <1>1, SameScenario
<1>3. ObjInv(scenario.restamp, new) /\ new \in Round
  BY OpenedObj DEF ObjInv
<1>4. rounds \in [Hubs -> Seq(Round)] /\ rounds[h] \in Seq(Round) /\ n \in Nat
  BY DEF RoundsInv
<1>5. /\ rounds'[h] = Append(rounds[h], new)
      /\ \A k \in Hubs \ {h} : rounds'[k] = rounds[k]
  BY <1>1, <1>4
<1> HIDE DEF new
<1>6. /\ Append(rounds[h], new) \in Seq(Round) /\ Len(rounds'[h]) = n + 1
      /\ rounds'[h][n + 1] = new /\ \A i \in 1..n : rounds'[h][i] = rounds[h][i]
  BY <1>3, <1>4, <1>5
<1>7. rounds' \in [Hubs -> Seq(Round)]
  BY <1>1, <1>4, <1>6
<1> HIDE DEF n
<1>8. RoundsInv'
  <2>1. ASSUME NEW k \in Hubs, NEW i \in 1..Len(rounds'[k])
        PROVE  ObjInv(scenario'.restamp, rounds'[k][i])
    <3>1. CASE k # h
      BY <1>2, <1>5, <2>1, <3>1 DEF RoundsInv, ScenarioStep
    <3>2. CASE k = h /\ i = n + 1
      BY <1>2, <1>3, <1>6, <3>2 DEF ScenarioStep
    <3>3. CASE k = h /\ i # n + 1
      <4>1. i \in 1..n
        BY <1>4, <1>6, <3>3, <2>1
      <4> QED BY <1>2, <1>6, <3>3, <4>1 DEF RoundsInv, ScenarioStep, n
    <3> QED BY <3>1, <3>2, <3>3
  <2> QED BY <1>7, <2>1 DEF RoundsInv
<1>9. RoundsStep
  <2>1. ASSUME NEW k \in Hubs
        PROVE  /\ Len(rounds[k]) <= Len(rounds'[k])
               /\ \A i \in 1..Len(rounds[k]) : rounds'[k][i] = rounds[k][i]
    <3>1. CASE k = h
      BY <1>4, <1>6, <3>1 DEF n
    <3>2. CASE k # h
      <4>1. Len(rounds[k]) \in Nat
        BY <1>4
      <4> QED BY <1>5, <3>2, <4>1
    <3> QED BY <3>1, <3>2
  <2>2. \A k \in Hubs : \A i \in 1..Len(rounds[k]) : Tame(k, rounds[k][i], rounds'[k][i])
    BY <2>1 DEF Tame
  <2> QED BY <1>7, <2>1, <2>2 DEF RoundsStep
<1>10. LiveInv'
  <2>1. live' \in [Hubs -> Nat] /\ live'[h] = n + 1 /\ \A k \in Hubs \ {h} : live'[k] = live[k]
    BY <1>1, <1>4 DEF LiveInv
  <2>2. ASSUME NEW k \in Hubs
        PROVE  live'[k] <= Len(rounds'[k]) /\ Len(rounds'[k]) <= scenario'.opens[k]
    <3>1. CASE k = h
      <4>1. scenario.opens[h] \in Nat
        BY DEF ScenarioInv
      <4> QED BY <1>1, <1>4, <1>6, <2>1, <3>1, <4>1
    <3>2. CASE k # h
      BY <1>1, <1>5, <2>1, <3>2 DEF LiveInv
    <3> QED BY <3>1, <3>2
  <2> QED BY <2>1, <2>2 DEF LiveInv
<1>11. FinalInv' /\ EmittedInv'
  BY <1>1, <1>2, SameFinal, SameEmitted
<1>12. n + 1 \in 1..Len(rounds'[h])
  BY <1>4, <1>6
<1> QED BY <1>2, <1>4, <1>6, <1>8, <1>9, <1>10, <1>11, <1>12 DEF n, new

\* A hub opens its round.
LEMMA proposeKeeps ==
    ASSUME XInv, NEW h \in Hubs, propose(h)
    PROVE  XInv'
<1> USE DEF XInv
<1>1. PICK row \in scenario.rows[h] :
        /\ Opened(h, row)
        /\ IF leaderFor(row.block, 0) = h
           THEN Start(h, {Persisting(Len(rounds[h]) + 1, TRUE)}) /\ UNCHANGED <<early, xnet>>
           ELSE /\ xnet' = Drained(xnet, h)
                /\ early' = [early EXCEPT ![h] = {}]
                /\ UNCHANGED tasks
  BY DEF propose
<1>2. row \in Row
  BY DEF ScenarioInv
<1>3. /\ ScenarioStep /\ RoundsInv' /\ RoundsStep /\ LiveInv' /\ FinalInv' /\ EmittedInv'
      /\ Len(rounds[h]) + 1 \in 1..Len(rounds'[h]) /\ Len(rounds[h]) \in Nat
  BY <1>1, <1>2, OpenedStep
<1>4. CASE leaderFor(row.block, 0) = h
  <2>0. PICK i \in Nat : i = Len(rounds[h]) + 1
    BY <1>3
  <2> DEFINE t == Persisting(i, TRUE)
  <2>1. t \in Task /\ TaskInv(h, t)'
    BY <1>3, <2>0, PersistTask
  <2>2. Start(h, {t}) /\ UNCHANGED <<early, xnet>>
    BY <1>1, <1>4, <2>0
  <2> HIDE DEF t
  <2>3. TasksInv'
    <3>1. {t} \in SUBSET Task /\ \A x \in {t} : TaskInv(h, x)'
      BY <2>1
    <3> QED BY <1>3, <2>2, <3>1, OneTask
  <2>4. MessagesInv'
    BY <2>2, SameMessages
  <2> QED BY <1>3, <2>3, <2>4 DEF ScenarioStep
<1>5. CASE leaderFor(row.block, 0) # h
  <2>1. xnet' = Drained(xnet, h) /\ early' = [early EXCEPT ![h] = {}] /\ UNCHANGED tasks
    BY <1>1, <1>5
  <2>2. NetInv(Drained(xnet, h)) /\ NetInv([early EXCEPT ![h] = {}])
    BY DrainedNet DEF MessagesInv
  <2>3. MessagesInv'
    BY <2>1, <2>2 DEF MessagesInv
  <2>4. TasksInv'
    BY <1>3, <2>1, SameTasks
  <2> QED BY <1>3, <2>3, <2>4 DEF ScenarioStep
<1> QED BY <1>4, <1>5

\* The only member of its snapshot opens its round.
LEMMA ProposeAloneKeeps ==
    ASSUME XInv, NEW h \in Hubs, ProposeAlone(h)
    PROVE  XInv'
<1> USE DEF XInv
<1>1. PICK row \in scenario.rows[h] :
        /\ XMembers[row.block] = {h}
        /\ Opened(h, row)
        /\ Start(h, {[kind |-> "alone", at |-> Len(rounds[h]) + 1]})
        /\ UNCHANGED <<early, xnet>>
  BY DEF ProposeAlone
<1>2. row \in Row
  BY DEF ScenarioInv
<1>3. /\ ScenarioStep /\ RoundsInv' /\ RoundsStep /\ LiveInv' /\ FinalInv' /\ EmittedInv'
      /\ Len(rounds[h]) + 1 \in 1..Len(rounds'[h]) /\ Len(rounds[h]) \in Nat
      /\ rounds'[h][Len(rounds[h]) + 1] = openPendingRound(row)
  BY <1>1, <1>2, OpenedStep
<1>4. PICK i \in Nat : i = Len(rounds[h]) + 1
  BY <1>3
<1> DEFINE t == [kind |-> "alone", at |-> i]
<1>5. t \in Task
  BY DEF Task
<1>6. TaskInv(h, t)'
  <2>1. t.kind = "alone" /\ t.at = i
    OBVIOUS
  <2>2. Solo(h, rounds'[h][i])
    BY <1>1, <1>2, <1>3, <1>4, OpenedObj DEF Solo
  <2> HIDE DEF t
  <2> QED BY <1>3, <1>4, <2>1, <2>2 DEF TaskInv
<1>7. Start(h, {t})
  BY <1>1, <1>4
<1> HIDE DEF t
<1>8. TasksInv'
  <2>1. {t} \in SUBSET Task /\ \A x \in {t} : TaskInv(h, x)'
    BY <1>5, <1>6
  <2> QED BY <1>3, <1>7, <2>1, OneTask
<1>9. MessagesInv'
  BY <1>1, SameMessages
<1> QED BY <1>3, <1>8, <1>9 DEF ScenarioStep

\* It finalizes it once the snapshot is persisted.
LEMMA FinalizeAloneKeeps ==
    ASSUME XInv, NEW h \in Hubs, FinalizeAlone(h)
    PROVE  XInv'
<1> USE DEF XInv
<1> DEFINE o(t) == rounds[h][t.at]
           signed(t) == [o(t) EXCEPT !.sigs = SetSig(@, h, o(t).canon)]
<1>1. PICK t \in tasks[h] :
        /\ t.kind = "alone"
        /\ IF live[h] = t.at /\ ~o(t).final
           THEN Settle(h, rounds[h], Finalized(signed(t)))
           ELSE SetRound(h, t.at, signed(t)) /\ UNCHANGED <<finalRow, emitted>>
        /\ End(h, t, {})
        /\ UNCHANGED <<live, early, xnet, scenario>>
  BY DEF FinalizeAlone
<1>2. /\ t.at \in 1..Len(rounds[h])
      /\ o(t).final \/ Solo(h, o(t))
  BY <1>1 DEF TasksInv, TaskInv
<1>3. ScenarioStep
  BY <1>1, SameScenario
<1>4. ObjInv(scenario.restamp, o(t)) /\ o(t) \in Round
  BY <1>2 DEF RoundsInv, ObjInv
<1>5. ObjInv(scenario.restamp, signed(t))
  BY <1>4, SignedKeeps
<1>6. /\ signed(t) \in Round /\ signed(t).final = o(t).final /\ signed(t).block = o(t).block
      /\ signed(t).sigs = SetSig(o(t).sigs, h, o(t).canon) /\ signed(t).row = o(t).row
  BY <1>4, <1>5 DEF Round, ObjInv
<1>7. h \in Signers(signed(t).sigs)
  <2>1. o(t).sigs \in SUBSET SigT /\ o(t).canon \in CanonT
    BY <1>4, RoundFields
  <2> HIDE DEF o, signed
  <2>2. Signers(SetSig(o(t).sigs, h, o(t).canon)) = Signers(o(t).sigs) \cup {h}
    BY <2>1, SetSigFacts
  <2> QED BY <1>6, <2>2
<1> HIDE DEF signed
<1>8. RoundsInv' /\ RoundsStep /\ SameLengths /\ FinalInv' /\ EmittedInv'
  <2>1. CASE live[h] = t.at /\ ~o(t).final
    <3>1. Settle(h, rounds[h], Finalized(signed(t))) /\ Live(h) = o(t) /\ HasRound(h)
      BY <1>1, <1>2, <2>1 DEF Live, HasRound
    <3>2. ASSUME scenario.restamp # "later" PROVE Proven(signed(t).row, signed(t).sigs)
      <4>1. Backed(signed(t).block, signed(t).sigs)
        BY <1>2, <1>6, <1>7, <2>1 DEF Solo, Backed
      <4> QED BY <1>5, <1>6, <2>1, <3>2, <4>1, FinalizedProven
    <3>3. ObjInv(scenario.restamp, Finalized(signed(t)))
      BY <1>5, <1>6, FinalizedFields DEF ObjInv
    <3>4. ObjStep(h, scenario.restamp, Live(h), Finalized(signed(t)))
      BY <1>6, <3>2, <3>3, FinalizedFields DEF ObjStep
    <3>5. \A i \in 1..Len(rounds[h]) : /\ ObjInv(scenario.restamp, rounds[h][i])
                                       /\ Tame(h, rounds[h][i], rounds[h][i])
      BY DEF RoundsInv, Tame
    <3>6. rounds[h] \in Seq(Round)
      BY DEF RoundsInv
    <3> HIDE DEF o
    <3> QED BY <1>3, <3>1, <3>4, <3>5, <3>6, SettleStep
  <2>2. CASE ~(live[h] = t.at /\ ~o(t).final)
    <3>1. SetRound(h, t.at, signed(t)) /\ UNCHANGED <<finalRow, emitted>>
      BY <1>1, <2>2
    <3>2. Tame(h, o(t), signed(t))
      BY <1>6 DEF Tame, Solo
    <3>3. RoundsInv' /\ RoundsStep /\ SameLengths
      BY <1>2, <1>3, <1>5, <3>1, <3>2, SetRoundStep
    <3> QED BY <1>3, <3>1, <3>3, SameFinal, SameEmitted
  <2> QED BY <2>1, <2>2
<1>9. LiveInv'
  BY <1>1, <1>3, <1>8, LiveStep
<1>10. TasksInv'
  BY <1>1, <1>3, <1>8, OneTask
<1>11. MessagesInv'
  BY <1>1, SameMessages
<1> QED BY <1>3, <1>8, <1>9, <1>10, <1>11 DEF ScenarioStep

\* The proposal goes out once the snapshot is persisted.
LEMMA broadcastProposeKeeps ==
    ASSUME XInv, NEW h \in Hubs, broadcastPropose(h)
    PROVE  XInv'
<1> USE DEF XInv
<1> DEFINE o(t) == rounds[h][t.at]
           signed(t) == [o(t) EXCEPT !.sigs = SetSig(@, h, o(t).canon), !.prepares = @ \cup {h}]
           sent(t) == Broadcast(xnet, h, {Proposal(h, signed(t))})
<1>1. PICK t \in tasks[h] :
        /\ SetRound(h, t.at, signed(t))
        /\ xnet' = IF t.drain THEN Drained(sent(t), h) ELSE sent(t)
        /\ early' = IF t.drain THEN [early EXCEPT ![h] = {}] ELSE early
        /\ End(h, t, {})
        /\ UNCHANGED <<live, finalRow, emitted, scenario>>
  BY DEF broadcastPropose
<1>2. t.at \in 1..Len(rounds[h])
  BY <1>1 DEF TasksInv, TaskInv
<1>3. ScenarioStep
  BY <1>1, SameScenario
<1>4. ObjInv(scenario.restamp, o(t)) /\ o(t) \in Round
  BY <1>2 DEF RoundsInv, ObjInv
<1>5. ObjInv(scenario.restamp, signed(t)) /\ signed(t) \in Round
  <2>1. ObjInv(scenario.restamp, signed(t))
    BY <1>4, SignedKeeps
  <2> QED BY <2>1 DEF ObjInv
<1>6. signed(t).final = o(t).final /\ signed(t).block = o(t).block
  BY <1>4 DEF Round
<1> HIDE DEF signed
<1>7. Tame(h, o(t), signed(t))
  BY <1>6 DEF Tame, Solo
<1>8. RoundsInv' /\ RoundsStep /\ SameLengths
  BY <1>1, <1>2, <1>3, <1>5, <1>7, SetRoundStep
<1>9. MessagesInv'
  <2>1. Sendable(h, {Proposal(h, signed(t))})
    <3>1. \A k \in Hubs \ {h} : Proposal(h, signed(t)) \in Message /\ MsgInv(k, Proposal(h, signed(t)))
      BY <1>5, ProposalType
    <3>2. Proposal(h, signed(t)) \in Message
      BY <1>5, RoundFields DEF Proposal, Message
    <3> QED BY <3>1, <3>2 DEF Sendable
  <2>2. NetInv(sent(t))
    BY <2>1, BroadcastNet DEF MessagesInv
  <2> HIDE DEF sent
  <2>3. NetInv(Drained(sent(t), h)) /\ NetInv([early EXCEPT ![h] = {}])
    BY <2>2, DrainedNet DEF MessagesInv
  <2> QED BY <1>1, <2>2, <2>3 DEF MessagesInv
<1>10. LiveInv'
  BY <1>1, <1>3, <1>8, LiveStep
<1>11. TasksInv'
  BY <1>1, <1>3, <1>8, OneTask
<1>12. FinalInv' /\ EmittedInv'
  BY <1>1, <1>3, SameFinal, SameEmitted
<1> QED BY <1>3, <1>8, <1>9, <1>10, <1>11, <1>12 DEF ScenarioStep

\* A proposal taken for validation comes from another hub, the leader of the round.
LEMMA handleProposeKeeps ==
    ASSUME XInv, NEW h \in Hubs, handlePropose(h)
    PROVE  XInv'
<1>1. PICK m \in xnet[h] :
        /\ m.type = "PROPOSE"
        /\ \/ Drop(h, m)
           \/ Early(h, m)
           \/ /\ HasRound(h) /\ FromLeader(Live(h), m)
              /\ Start(h, {[kind |-> "validate", at |-> live[h], msg |-> m]})
              /\ xnet' = Taken(h, m)
              /\ UNCHANGED <<rounds, live, finalRow, early, emitted, scenario>>
  BY DEF handlePropose
<1>2. CASE Drop(h, m)
  BY <1>2, DropKeeps
<1>3. CASE Early(h, m)
  BY <1>3, EarlyKeeps
<1>4. CASE /\ HasRound(h) /\ FromLeader(Live(h), m)
           /\ Start(h, {[kind |-> "validate", at |-> live[h], msg |-> m]})
           /\ xnet' = Taken(h, m)
           /\ UNCHANGED <<rounds, live, finalRow, early, emitted, scenario>>
  <2> USE DEF XInv
  <2>1. m \in Message /\ MsgInv(h, m)
    BY DEF MessagesInv, NetInv
  <2>2. ScenarioStep
    BY <1>4, SameScenario
  <2>3. RoundsInv' /\ RoundsStep /\ SameLengths
    BY <1>4, <2>2, SameRounds
  <2>4. LiveInv'
    BY <1>4, <2>2, <2>3, LiveStep
  <2>5. live[h] \in 1..Len(rounds[h]) /\ live[h] \in Nat /\ Live(h) \in Round
    BY <1>4, LiveObject
  <2>6. PICK i \in Nat : i = live[h]
    BY <2>5
  <2> DEFINE t == [kind |-> "validate", at |-> i, msg |-> m]
  <2>7. t \in Task
    BY <2>1 DEF Task
  <2>8. TaskInv(h, t)'
    <3>1. t.kind = "validate" /\ t.at = i /\ t.msg = m
      OBVIOUS
    <3>2. m.row \in Row /\ m.from # h /\ m.view \in Views
      BY <1>1, <2>1 DEF MsgInv, Message
    <3>3. m.sig = Canon(m.row, m.view) /\ m.from = leaderFor(Live(h).block, m.view)
      BY <1>4 DEF FromLeader
    <3>4. Live(h).block \in Blocks
      BY <2>5, RoundFields
    <3>5. ~Solo(h, Live(h))
      BY <3>2, <3>3, <3>4, LoneLeader DEF Solo
    <3>6. ~Solo(h, rounds'[h][i]) /\ i \in 1..Len(rounds'[h])
      BY <1>4, <2>5, <2>6, <3>5 DEF Live
    <3> HIDE DEF t
    <3> QED BY <1>1, <2>1, <3>1, <3>2, <3>3, <3>6 DEF TaskInv
  <2>9. Start(h, {t})
    BY <1>4, <2>6
  <2> HIDE DEF t
  <2>10. TasksInv'
    <3>1. {t} \in SUBSET Task /\ \A x \in {t} : TaskInv(h, x)'
      BY <2>7, <2>8
    <3> QED BY <2>2, <2>3, <2>9, <3>1, OneTask
  <2>11. MessagesInv'
    BY <1>4, TakenNet DEF MessagesInv
  <2>12. FinalInv' /\ EmittedInv'
    BY <1>4, <2>2, SameFinal, SameEmitted
  <2> QED BY <2>2, <2>3, <2>4, <2>10, <2>11, <2>12 DEF ScenarioStep
<1> QED BY <1>1, <1>2, <1>3, <1>4

\* The COMMIT of a round can be sent.
LEMMA CommitOfSendable ==
    ASSUME NEW o \in Round, NEW h \in Hubs
    PROVE  Sendable(h, CommitOf(o, h))
<1>1. OwnSig(o, h) \in CanonT \cup {NoSig}
  BY OwnSigType
<1>2. o.view \in Views
  BY RoundFields
<1>3. Ballot("COMMIT", h, o) \in Message
  BY <1>1, <1>2 DEF Ballot, Message
<1>4. \A k \in Hubs \ {h} : MsgInv(k, Ballot("COMMIT", h, o))
  BY BallotType
<1> QED BY <1>3, <1>4 DEF Sendable, CommitOf

\* CountIn, over a proposal for the canonical the object has by then.
LEMMA CountInKeeps ==
    ASSUME XInv, NEW h \in Hubs, NEW t \in tasks[h], NEW m \in Message, NEW o,
           ObjInv(scenario.restamp, o), m.sig = o.canon,
           o.final = rounds[h][t.at].final, Tame(h, rounds[h][t.at], o),
           NEW adopted, CountIn(h, t, m, o, adopted)
    PROVE  XInv'
<1> USE DEF XInv
<1> DEFINE i == t.at
           counted == Counted(o, m, h)
           own == IF h \in Signers(o.sigs) THEN {} ELSE {Ballot("PREPARE", h, counted)}
           objs == [rounds[h] EXCEPT ![i] = counted]
           sent(commit) == Broadcast(xnet, h, own \cup commit)
           net == IF HasRound(h) THEN sent(CommitOf(objs[live[h]], h)) ELSE sent({})
<1>1. /\ IF HasRound(h)
         THEN Settle(h, objs, CheckPrepare(objs[live[h]], h))
         ELSE rounds' = [rounds EXCEPT ![h] = objs] /\ UNCHANGED <<finalRow, emitted>>
      /\ xnet' = IF adopted THEN Drained(net, h) ELSE net
      /\ early' = IF adopted THEN [early EXCEPT ![h] = {}] ELSE early
      /\ End(h, t, {})
      /\ UNCHANGED <<live, scenario>>
  BY DEF CountIn
<1>2. i \in 1..Len(rounds[h])
  BY DEF TasksInv, TaskInv
<1>3. ScenarioStep
  BY <1>1, SameScenario
<1>4. /\ ObjInv(scenario.restamp, counted) /\ counted.final = o.final
      /\ counted.block = o.block
  BY CountedKeeps
<1> HIDE DEF counted
<1>5. counted \in Round /\ counted.final = rounds[h][i].final /\ Tame(h, rounds[h][i], counted)
  BY <1>4 DEF ObjInv, Tame, Solo
<1>6. rounds[h] \in Seq(Round)
  BY DEF RoundsInv
<1>7. /\ objs \in Seq(Round) /\ Len(objs) = Len(rounds[h]) /\ objs[i] = counted
      /\ \A j \in 1..Len(rounds[h]) : j # i => objs[j] = rounds[h][j]
  BY <1>2, <1>5, <1>6, OneObject
<1> HIDE DEF objs
<1>8. \A j \in 1..Len(objs) : /\ ObjInv(scenario.restamp, objs[j])
                              /\ Tame(h, rounds[h][j], objs[j])
                              /\ objs[j].final = rounds[h][j].final
  BY <1>4, <1>5, <1>7 DEF RoundsInv, Tame
<1>9. RoundsInv' /\ RoundsStep /\ SameLengths /\ FinalInv' /\ EmittedInv'
  <2>1. CASE HasRound(h)
    <3> DEFINE l == live[h]
               p == CheckPrepare(objs[l], h)
    <3>1. l \in 1..Len(objs)
      BY <1>7, <2>1, LiveObject
    <3>2. /\ ObjInv(scenario.restamp, objs[l]) /\ Tame(h, Live(h), objs[l])
          /\ objs[l].final = Live(h).final
      BY <1>8, <3>1 DEF Live
    <3>3. ObjStep(h, scenario.restamp, objs[l], p)
      BY <3>2, CheckPrepareKeeps
    <3>4. Settle(h, objs, p)
      BY <1>1, <2>1
    <3> HIDE DEF p
    <3>5. ObjStep(h, scenario.restamp, Live(h), p)
      BY <3>2, <3>3 DEF ObjStep, Tame
    <3> QED BY <1>3, <1>7, <1>8, <2>1, <3>4, <3>5, SettleStep
  <2>2. CASE ~HasRound(h)
    <3>1. rounds' = [rounds EXCEPT ![h] = objs] /\ UNCHANGED <<finalRow, emitted>>
      BY <1>1, <2>2
    <3>2. RoundsInv' /\ RoundsStep /\ SameLengths
      BY <1>3, <1>7, <1>8, <3>1, NewRounds
    <3> QED BY <1>3, <3>1, <3>2, SameFinal, SameEmitted
  <2> QED BY <2>1, <2>2
<1>10. NetInv(net)
  <2>1. Sendable(h, own)
    <3>1. OwnSig(counted, h) \in CanonT \cup {NoSig} /\ counted.view \in Views
      BY <1>5, OwnSigType, RoundFields
    <3>2. Ballot("PREPARE", h, counted) \in Message
      BY <3>1 DEF Ballot, Message
    <3>3. \A k \in Hubs \ {h} : MsgInv(k, Ballot("PREPARE", h, counted))
      BY <1>5, BallotType
    <3> QED BY <3>2, <3>3 DEF Sendable
  <2>2. CASE HasRound(h)
    <3>1. objs[live[h]] \in Round
      BY <1>7, <1>8, <2>2, LiveObject DEF ObjInv
    <3>2. Sendable(h, CommitOf(objs[live[h]], h))
      BY <3>1, CommitOfSendable
    <3>3. Sendable(h, own \cup CommitOf(objs[live[h]], h))
      BY <2>1, <3>2 DEF Sendable
    <3> HIDE DEF own
    <3>4. NetInv(Broadcast(xnet, h, own \cup CommitOf(objs[live[h]], h)))
      BY <3>3, BroadcastNet DEF MessagesInv
    <3> QED BY <2>2, <3>4
  <2>3. CASE ~HasRound(h)
    <3>1. Sendable(h, own \cup {})
      BY <2>1 DEF Sendable
    <3> HIDE DEF own
    <3>2. NetInv(Broadcast(xnet, h, own \cup {}))
      BY <3>1, BroadcastNet DEF MessagesInv
    <3> QED BY <2>3, <3>2
  <2> QED BY <2>2, <2>3
<1> HIDE DEF net
<1>11. MessagesInv'
  <2>1. NetInv(Drained(net, h)) /\ NetInv([early EXCEPT ![h] = {}])
    BY <1>10, DrainedNet DEF MessagesInv
  <2> QED BY <1>1, <1>10, <2>1 DEF MessagesInv
<1>12. LiveInv'
  BY <1>1, <1>3, <1>9, LiveStep
<1>13. TasksInv'
  BY <1>1, <1>3, <1>9, OneTask
<1> QED BY <1>3, <1>9, <1>11, <1>12, <1>13 DEF ScenarioStep

\* What a suspended PROPOSE or FINAL_SYNC handler knows.
LEMMA HeldMessage ==
    ASSUME XInv, NEW h \in Hubs, NEW t \in tasks[h], t.kind \in {"validate", "rebind"}
    PROVE  /\ t.msg \in Message /\ t.msg.row \in Row /\ t.msg.from # h
           /\ t.at \in 1..Len(rounds[h]) /\ t.at \in Nat
           /\ rounds[h][t.at] \in Round /\ ObjInv(scenario.restamp, rounds[h][t.at])
           /\ t.msg.type = "PROPOSE" =>
                 /\ t.msg.sig = Canon(t.msg.row, t.msg.view)
                 /\ rounds[h][t.at].final \/ ~Solo(h, rounds[h][t.at])
           /\ t.kind = "validate" => t.msg.type = "PROPOSE"
<1>1. t \in Task /\ TaskInv(h, t) /\ RoundsInv
  BY DEF XInv, TasksInv
<1>2. t.msg \in Message
  BY <1>1 DEF Task
<1>3. t.at \in 1..Len(rounds[h]) /\ t.at \in Nat
  BY <1>1 DEF TaskInv, RoundsInv
<1>4. rounds[h][t.at] \in Round /\ ObjInv(scenario.restamp, rounds[h][t.at])
  BY <1>1, <1>3 DEF RoundsInv, ObjInv
<1> QED BY <1>1, <1>2, <1>3, <1>4 DEF TaskInv, MsgInv

\* A proposal has been validated.
LEMMA ValidatedKeeps ==
    ASSUME XInv, NEW h \in Hubs, Validated(h)
    PROVE  XInv'
<1> DEFINE o(t) == rounds[h][t.at]
<1>1. PICK t \in tasks[h] :
        /\ t.kind = "validate"
        /\ IF t.msg.sig = o(t).canon THEN CountIn(h, t, t.msg, o(t), FALSE)
           ELSE IF CommittedToOther(o(t), t.msg) THEN Dismiss(h, t)
           ELSE IF t.msg.row.block # o(t).row.block
           THEN /\ End(h, t, {[kind |-> "rebind", at |-> t.at, msg |-> t.msg]})
                /\ UNCHANGED <<rounds, live, finalRow, early, xnet, emitted, scenario>>
           ELSE IF StillOpen(h, t.at) THEN CountIn(h, t, t.msg, Adopted(o(t), t.msg), TRUE)
           ELSE Dismiss(h, t)
  BY DEF Validated
<1>2. /\ t.msg \in Message /\ t.msg.row \in Row /\ t.msg.from # h
      /\ t.at \in 1..Len(rounds[h]) /\ t.at \in Nat
      /\ o(t) \in Round /\ ObjInv(scenario.restamp, o(t))
      /\ t.msg.type = "PROPOSE" /\ t.msg.sig = Canon(t.msg.row, t.msg.view)
      /\ o(t).final \/ ~Solo(h, o(t))
  BY <1>1, HeldMessage
<1>3. CASE t.msg.sig = o(t).canon
  <2>1. CountIn(h, t, t.msg, o(t), FALSE) /\ Tame(h, o(t), o(t))
    BY <1>1, <1>3 DEF Tame
  <2> QED BY <1>2, <1>3, <2>1, CountInKeeps
<1>4. CASE Dismiss(h, t)
  BY <1>4, DismissKeeps
<1>5. CASE /\ End(h, t, {[kind |-> "rebind", at |-> t.at, msg |-> t.msg]})
           /\ UNCHANGED <<rounds, live, finalRow, early, xnet, emitted, scenario>>
  <2> USE DEF XInv
  <2> DEFINE u == [kind |-> "rebind", at |-> t.at, msg |-> t.msg]
  <2>1. ScenarioStep
    BY <1>5, SameScenario
  <2>2. RoundsInv' /\ RoundsStep /\ SameLengths
    BY <1>5, <2>1, SameRounds
  <2>3. u \in Task
    BY <1>2 DEF Task
  <2>4. TaskInv(h, u)'
    <3>1. u.kind = "rebind" /\ u.at = t.at /\ u.msg = t.msg
      OBVIOUS
    <3>2. MsgInv(h, t.msg)
      BY <1>2 DEF MsgInv
    <3>3. rounds' = rounds
      BY <1>5
    <3> HIDE DEF u
    <3> QED BY <1>2, <3>1, <3>2, <3>3 DEF TaskInv
  <2>5. TasksInv'
    <3>1. {u} \in SUBSET Task /\ \A x \in {u} : TaskInv(h, x)'
      BY <2>3, <2>4
    <3>2. End(h, t, {u})
      BY <1>5
    <3> HIDE DEF u
    <3> QED BY <2>1, <2>2, <3>1, <3>2, OneTask
  <2>6. LiveInv'
    BY <1>5, <2>1, <2>2, LiveStep
  <2>7. MessagesInv' /\ FinalInv' /\ EmittedInv'
    BY <1>5, <2>1, SameMessages, SameFinal, SameEmitted
  <2> QED BY <2>1, <2>2, <2>5, <2>6, <2>7 DEF ScenarioStep
<1>6. CASE /\ t.msg.row.block = o(t).row.block /\ StillOpen(h, t.at)
           /\ CountIn(h, t, t.msg, Adopted(o(t), t.msg), TRUE)
  <2> DEFINE p == Adopted(o(t), t.msg)
  <2>1. /\ ObjInv(scenario.restamp, p) /\ p.final = o(t).final
        /\ p.canon = t.msg.sig /\ p.block = t.msg.row.block
    BY <1>2, AdoptedKeeps
  <2>2. p.block = o(t).block
    BY <1>2, <1>6, <2>1 DEF ObjInv
  <2> HIDE DEF p
  <2>3. Tame(h, o(t), p)
    BY <2>1, <2>2 DEF Tame, Solo
  <2>4. CountIn(h, t, t.msg, p, TRUE)
    BY <1>6 DEF p
  <2> QED BY <1>2, <2>1, <2>3, <2>4, CountInKeeps
<1> QED BY <1>1, <1>3, <1>4, <1>5, <1>6

\* A proposal's snapshot has been looked up and its row is adopted.
LEMMA ReboundKeeps ==
    ASSUME XInv, NEW h \in Hubs, Rebound(h)
    PROVE  XInv'
<1> DEFINE o(t) == rounds[h][t.at]
<1>1. PICK t \in tasks[h] :
        /\ t.kind = "rebind" /\ t.msg.type = "PROPOSE"
        /\ \/ /\ StillOpen(h, t.at) /\ t.msg.from \in XMembers[t.msg.row.block]
              /\ CountIn(h, t, t.msg, Adopted(o(t), t.msg), TRUE)
           \/ Dismiss(h, t)
  BY DEF Rebound
<1>2. /\ t.msg \in Message /\ t.msg.row \in Row /\ t.msg.from # h
      /\ o(t) \in Round /\ ObjInv(scenario.restamp, o(t))
      /\ t.msg.sig = Canon(t.msg.row, t.msg.view)
      /\ o(t).final \/ ~Solo(h, o(t))
  BY <1>1, HeldMessage
<1>3. CASE Dismiss(h, t)
  BY <1>3, DismissKeeps
<1>4. CASE /\ StillOpen(h, t.at) /\ t.msg.from \in XMembers[t.msg.row.block]
           /\ CountIn(h, t, t.msg, Adopted(o(t), t.msg), TRUE)
  <2> DEFINE p == Adopted(o(t), t.msg)
  <2>1. /\ ObjInv(scenario.restamp, p) /\ p.final = o(t).final
        /\ p.canon = t.msg.sig /\ p.block = t.msg.row.block
    BY <1>2, AdoptedKeeps
  <2> HIDE DEF p
  <2>2. ~Solo(h, p) /\ ~Solo(h, o(t)) /\ ~o(t).final
    BY <1>2, <1>4, <2>1 DEF Solo, StillOpen
  <2>3. Tame(h, o(t), p)
    BY <2>1, <2>2 DEF Tame
  <2>4. CountIn(h, t, t.msg, p, TRUE)
    BY <1>4 DEF p
  <2> QED BY <1>2, <2>1, <2>3, <2>4, CountInKeeps
<1> QED BY <1>1, <1>3, <1>4

\* A peer's vote over the canonical of the live round.
LEMMA PeerVote ==
    ASSUME XInv, NEW h \in Hubs, HasRound(h), NEW m \in Message, VoteIn(h, m, Live(h))
    PROVE  /\ LET p == [Live(h) EXCEPT !.sigs = SetSig(@, m.from, m.sig),
                                       !.prepares = @ \cup {m.from}]
              IN  /\ ObjInv(scenario.restamp, p) /\ p.final = Live(h).final
                  /\ p.block = Live(h).block /\ p.row = Live(h).row
           /\ LET p == [Live(h) EXCEPT !.sigs = SetSig(@, m.from, m.sig),
                                       !.commits = @ \cup {m.from}]
              IN  /\ ObjInv(scenario.restamp, p) /\ p.final = Live(h).final
                  /\ p.block = Live(h).block /\ p.row = Live(h).row
<1>1. /\ ObjInv(scenario.restamp, Live(h)) /\ Live(h) \in Round /\ m.sig = Live(h).canon
      /\ m.from \in Hubs
  BY LiveObject DEF XInv, VoteIn, Message
<1>2. PICK o \in Round : o = Live(h)
  BY <1>1
<1> DEFINE p2 == [o EXCEPT !.sigs = SetSig(@, m.from, m.sig), !.prepares = @ \cup {m.from}]
           p3 == [o EXCEPT !.sigs = SetSig(@, m.from, m.sig), !.commits = @ \cup {m.from}]
<1>3. m.sig = o.canon /\ ObjInv(scenario.restamp, o)
  BY <1>1, <1>2
<1>4. ObjInv(scenario.restamp, p2) /\ ObjInv(scenario.restamp, p3)
  BY <1>1, <1>3, SignedKeeps
<1>5. /\ p2.final = o.final /\ p2.block = o.block /\ p2.row = o.row
      /\ p3.final = o.final /\ p3.block = o.block /\ p3.row = o.row
  BY DEF Round
<1> QED BY <1>2, <1>4, <1>5

\* A tally over the live round, with what it sends.
LEMMA TallyKeeps ==
    ASSUME XInv, NEW h \in Hubs, HasRound(h), NEW m, NEW msgs, Sendable(h, msgs),
           NEW o, ObjStep(h, scenario.restamp, Live(h), o), Settle(h, rounds[h], o),
           xnet' = Taken(h, m) \/ xnet' = Broadcast(Taken(h, m), h, msgs),
           UNCHANGED <<live, early, tasks, scenario>>
    PROVE  XInv'
<1> USE DEF XInv
<1>1. ScenarioStep
  BY SameScenario
<1>2. rounds[h] \in Seq(Round)
  BY DEF RoundsInv
<1>3. \A i \in 1..Len(rounds[h]) : /\ ObjInv(scenario.restamp, rounds[h][i])
                                   /\ Tame(h, rounds[h][i], rounds[h][i])
  BY DEF RoundsInv, Tame
<1>4. RoundsInv' /\ RoundsStep /\ SameLengths /\ FinalInv' /\ EmittedInv'
  BY <1>1, <1>2, <1>3, SettleStep
<1>5. MessagesInv'
  <2>1. NetInv(Taken(h, m))
    BY TakenNet DEF MessagesInv
  <2>2. NetInv(Broadcast(Taken(h, m), h, msgs))
    BY <2>1, BroadcastNet
  <2> QED BY <2>1, <2>2 DEF MessagesInv
<1>6. LiveInv'
  BY <1>1, <1>4, LiveStep
<1>7. TasksInv'
  BY <1>1, <1>4, SameTasks
<1> QED BY <1>1, <1>4, <1>5, <1>6, <1>7 DEF ScenarioStep

\* PREPARE.
LEMMA handlePrepareKeeps ==
    ASSUME XInv, NEW h \in Hubs, handlePrepare(h)
    PROVE  XInv'
<1> DEFINE voted(m) == [Live(h) EXCEPT !.sigs = SetSig(@, m.from, m.sig),
                                       !.prepares = @ \cup {m.from}]
<1>1. PICK m \in xnet[h] :
        \/ Drop(h, m)
        \/ Early(h, m)
        \/ /\ HasRound(h) /\ VoteIn(h, m, Live(h))
           /\ Settle(h, rounds[h], CheckPrepare(voted(m), h))
           /\ xnet' = Broadcast(Taken(h, m), h, CommitOf(voted(m), h))
           /\ UNCHANGED <<live, early, tasks, scenario>>
  BY DEF handlePrepare
<1>2. CASE Drop(h, m)
  BY <1>2, DropKeeps
<1>3. CASE Early(h, m)
  BY <1>3, EarlyKeeps
<1>4. CASE /\ HasRound(h) /\ VoteIn(h, m, Live(h))
           /\ Settle(h, rounds[h], CheckPrepare(voted(m), h))
           /\ xnet' = Broadcast(Taken(h, m), h, CommitOf(voted(m), h))
           /\ UNCHANGED <<live, early, tasks, scenario>>
  <2>1. m \in Message
    BY DEF XInv, MessagesInv, NetInv
  <2>2. /\ ObjInv(scenario.restamp, voted(m)) /\ voted(m).final = Live(h).final
        /\ voted(m).block = Live(h).block
    BY <1>4, <2>1, PeerVote
  <2> HIDE DEF voted
  <2>3. ObjStep(h, scenario.restamp, voted(m), CheckPrepare(voted(m), h))
    BY <2>2, CheckPrepareKeeps
  <2>4. ObjStep(h, scenario.restamp, Live(h), CheckPrepare(voted(m), h))
    BY <2>2, <2>3 DEF ObjStep, Solo
  <2>5. Sendable(h, CommitOf(voted(m), h))
    BY <2>2, CommitOfSendable DEF ObjInv
  <2> QED BY <1>4, <2>4, <2>5, TallyKeeps
<1> QED BY <1>1, <1>2, <1>3, <1>4

\* COMMIT.
LEMMA handleCommitKeeps ==
    ASSUME XInv, NEW h \in Hubs, handleCommit(h)
    PROVE  XInv'
<1> DEFINE voted(m) == [Live(h) EXCEPT !.sigs = SetSig(@, m.from, m.sig),
                                       !.commits = @ \cup {m.from}]
<1>1. PICK m \in xnet[h] :
        \/ Drop(h, m)
        \/ Early(h, m)
        \/ /\ HasRound(h) /\ VoteIn(h, m, Live(h))
           /\ Settle(h, rounds[h], CheckCommit(voted(m)))
           /\ xnet' = Taken(h, m)
           /\ UNCHANGED <<live, early, tasks, scenario>>
  BY DEF handleCommit
<1>2. CASE Drop(h, m)
  BY <1>2, DropKeeps
<1>3. CASE Early(h, m)
  BY <1>3, EarlyKeeps
<1>4. CASE /\ HasRound(h) /\ VoteIn(h, m, Live(h))
           /\ Settle(h, rounds[h], CheckCommit(voted(m)))
           /\ xnet' = Taken(h, m)
           /\ UNCHANGED <<live, early, tasks, scenario>>
  <2>1. m \in Message
    BY DEF XInv, MessagesInv, NetInv
  <2>2. /\ ObjInv(scenario.restamp, voted(m)) /\ voted(m).final = Live(h).final
        /\ voted(m).block = Live(h).block
    BY <1>4, <2>1, PeerVote
  <2> HIDE DEF voted
  <2>3. ObjStep(h, scenario.restamp, voted(m), CheckCommit(voted(m)))
    BY <2>2, CheckCommitKeeps
  <2>4. ObjStep(h, scenario.restamp, Live(h), CheckCommit(voted(m)))
    BY <2>2, <2>3 DEF ObjStep, Solo
  <2>5. Sendable(h, {})
    BY DEF Sendable
  <2> QED BY <1>4, <2>4, <2>5, TallyKeeps
<1> QED BY <1>1, <1>2, <1>3, <1>4

\* The new leader whose restamp failed only rises to the view.
LEMMA RisenKeeps ==
    ASSUME NEW h, NEW w, ObjInv(scenario.restamp, w), NEW v \in Views
    PROVE  LeadershipStep(h, w, v, Risen(w, v))
<1> DEFINE risen == [w EXCEPT !.view = Larger(@, v)]
<1>1. w \in Round
  BY DEF ObjInv
<1>2. Larger(w.view, v) \in Views
  BY <1>1, RoundFields, LargerView
<1>3. risen = [w EXCEPT !.view = Larger(w.view, v)]
  BY <1>1 DEF Round
<1>4. ObjInv(scenario.restamp, risen) /\ risen.final = w.final /\ risen.row = w.row
      /\ risen.block = w.block
  BY <1>2, <1>3, ViewKeeps
<1>5. Risen(w, v).obj = risen /\ Risen(w, v).msgs = {} /\ Risen(w, v).tasks = {}
  BY DEF Risen
<1> HIDE DEF risen
<1> QED BY <1>4, <1>5 DEF LeadershipStep

\* A counted vote leaves what maybeAssumeLeadership leaves, a failed restamp included.
LEMMA ViewVoteOutcome ==
    ASSUME NEW h \in Hubs, NEW by \in Hubs, NEW v \in Views,
           NEW o, ObjInv(scenario.restamp, o), NEW net, NEW msgs,
           CountViewVote(h, by, v, o, net, msgs),
           NEW w, w = [o EXCEPT !.vcs = @ \cup {[view |-> v, by |-> by]}]
    PROVE  \E a : /\ LeadershipStep(h, w, v, a)
                  /\ (Spend \/ UNCHANGED scenario)
                  /\ SetRound(h, live[h], a.obj)
                  /\ xnet' = Broadcast(net, h, msgs \cup a.msgs)
                  /\ Start(h, a.tasks)
                  /\ UNCHANGED <<live, finalRow, early, emitted>>
<1> DEFINE Leaves(after) == /\ SetRound(h, live[h], after.obj)
                            /\ xnet' = Broadcast(net, h, msgs \cup after.msgs)
                            /\ Start(h, after.tasks)
                            /\ UNCHANGED <<live, finalRow, early, emitted>>
<1>1. ObjInv(scenario.restamp, w) /\ w.row = o.row /\ w.final = o.final /\ w.block = o.block
  BY ViewVoteKeeps
<1>2. \/ \E stale \in MayBeStale(o) :
            Leaves(AssumeLeadership(h, w, v, stale)) /\ UNCHANGED scenario
      \/ RestampFails(h, w, v) /\ Leaves(Risen(w, v))
  BY DEF CountViewVote
<1> SUFFICES \E a : LeadershipStep(h, w, v, a) /\ (Spend \/ UNCHANGED scenario) /\ Leaves(a)
  OBVIOUS
<1> HIDE DEF Leaves
<1>3. ASSUME NEW stale \in MayBeStale(o),
             Leaves(AssumeLeadership(h, w, v, stale)), UNCHANGED scenario
      PROVE  \E a : LeadershipStep(h, w, v, a) /\ (Spend \/ UNCHANGED scenario) /\ Leaves(a)
  <2>1. stale \in MayBeStale(w)
    BY <1>1 DEF MayBeStale
  <2>2. LeadershipStep(h, w, v, AssumeLeadership(h, w, v, stale))
    BY <1>1, <2>1, LeadershipKeeps
  <2> QED BY <1>3, <2>2
<1>4. ASSUME RestampFails(h, w, v), Leaves(Risen(w, v))
      PROVE  \E a : LeadershipStep(h, w, v, a) /\ (Spend \/ UNCHANGED scenario) /\ Leaves(a)
  <2>1. LeadershipStep(h, w, v, Risen(w, v))
    BY <1>1, RisenKeeps
  <2> QED BY <1>4, <2>1 DEF RestampFails
<1> QED BY <1>2, <1>3, <1>4

\* A vote for a view, in the live round whose object is o by then.
LEMMA ViewVoteStep ==
    ASSUME XInv, NEW h \in Hubs, HasRound(h), NEW by \in Hubs, NEW v \in Views,
           NEW o, ObjInv(scenario.restamp, o), o.final = Live(h).final, o.block = Live(h).block,
           NEW net, NetInv(net), NEW msgs, Sendable(h, msgs),
           CountViewVote(h, by, v, o, net, msgs)
    PROVE  XInv'
<1>w. PICK w : w = [o EXCEPT !.vcs = @ \cup {[view |-> v, by |-> by]}]
  OBVIOUS
<1>0. \E a : /\ LeadershipStep(h, w, v, a)
             /\ (Spend \/ UNCHANGED scenario)
             /\ SetRound(h, live[h], a.obj)
             /\ xnet' = Broadcast(net, h, msgs \cup a.msgs)
             /\ Start(h, a.tasks)
             /\ UNCHANGED <<live, finalRow, early, emitted>>
  BY <1>w, ViewVoteOutcome
<1> USE DEF XInv
<1>3. /\ ObjInv(scenario.restamp, w) /\ w.final = o.final /\ w.row = o.row /\ w.block = o.block
  BY <1>w, ViewVoteKeeps
<1>4. PICK a :
        /\ LeadershipStep(h, w, v, a)
        /\ (Spend \/ UNCHANGED scenario)
        /\ SetRound(h, live[h], a.obj)
        /\ xnet' = Broadcast(net, h, msgs \cup a.msgs)
        /\ Start(h, a.tasks)
        /\ UNCHANGED <<live, finalRow, early, emitted>>
  BY <1>0
<1>1. UNCHANGED <<live, finalRow, early, emitted>>
  BY <1>4
<1>2. ScenarioStep
  BY <1>4, SameScenario, SpendScenario
<1>5. /\ ObjInv(scenario.restamp, a.obj)
      /\ a.obj.final = o.final /\ a.obj.block = o.block
      /\ a.msgs \subseteq {Control("NEW_VIEW", h, v)}
      /\ \/ a.tasks = {}
         \/ a.tasks = {Persisting(live[h], FALSE)}
         \/ /\ a.tasks = {[kind |-> "restamp", at |-> live[h], view |-> v]}
            /\ scenario.restamp = "later"
  BY <1>3, <1>4 DEF LeadershipStep
<1>6. PICK obj, out, ts : obj = a.obj /\ out = a.msgs /\ ts = a.tasks
  OBVIOUS
<1>7. /\ SetRound(h, live[h], obj) /\ xnet' = Broadcast(net, h, msgs \cup out) /\ Start(h, ts)
  BY <1>4, <1>6
<1>8. live[h] \in 1..Len(rounds[h]) /\ live[h] \in Nat
  BY LiveObject
<1>9. Tame(h, rounds[h][live[h]], obj) /\ ObjInv(scenario.restamp, obj)
  BY <1>5, <1>6 DEF Tame, Solo, Live
<1>10. RoundsInv' /\ RoundsStep /\ SameLengths
  BY <1>2, <1>7, <1>8, <1>9, SetRoundStep
<1>11. MessagesInv'
  <2>1. Control("NEW_VIEW", h, v) \in Message
    BY DEF Control, Message
  <2>2. \A k \in Hubs \ {h} : MsgInv(k, Control("NEW_VIEW", h, v))
    BY ControlType
  <2>3. Sendable(h, msgs \cup out)
    BY <1>5, <1>6, <2>1, <2>2 DEF Sendable
  <2>4. NetInv(Broadcast(net, h, msgs \cup out))
    BY <2>3, BroadcastNet
  <2> QED BY <1>1, <1>7, <2>4 DEF MessagesInv
<1>12. TasksInv'
  <2>1. PICK i \in Nat : i = live[h]
    BY <1>8
  <2>2. i \in 1..Len(rounds'[h])
    BY <1>8, <1>10, <2>1 DEF SameLengths
  <2>3. CASE ts = {}
    <3>1. ts \in SUBSET Task /\ \A x \in ts : TaskInv(h, x)'
      BY <2>3
    <3> QED BY <1>2, <1>7, <1>10, <3>1, OneTask
  <2>4. CASE ts = {Persisting(i, FALSE)}
    <3>1. Persisting(i, FALSE) \in Task /\ TaskInv(h, Persisting(i, FALSE))'
      BY <2>2, PersistTask
    <3>2. ts \in SUBSET Task /\ \A x \in ts : TaskInv(h, x)'
      BY <2>4, <3>1
    <3> QED BY <1>2, <1>7, <1>10, <3>2, OneTask
  <2>5. CASE ts = {[kind |-> "restamp", at |-> i, view |-> v]} /\ scenario.restamp = "later"
    <3> DEFINE t == [kind |-> "restamp", at |-> i, view |-> v]
    <3>1. t \in Task /\ t.kind = "restamp" /\ t.at = i
      BY DEF Task
    <3>2. TaskInv(h, t)'
      <4> HIDE DEF t
      <4> QED BY <1>2, <2>2, <2>5, <3>1 DEF TaskInv, ScenarioStep
    <3>3. ts \in SUBSET Task /\ \A x \in ts : TaskInv(h, x)'
      BY <2>5, <3>1, <3>2
    <3> QED BY <1>2, <1>7, <1>10, <3>3, OneTask
  <2> QED BY <1>5, <1>6, <2>1, <2>3, <2>4, <2>5
<1>13. LiveInv'
  BY <1>1, <1>2, <1>10, LiveStep
<1>14. FinalInv' /\ EmittedInv'
  BY <1>1, <1>2, SameFinal, SameEmitted
<1> QED BY <1>2, <1>10, <1>11, <1>12, <1>13, <1>14 DEF ScenarioStep

\* A round times out and asks for the next view.
LEMMA TimeoutKeeps ==
    ASSUME XInv, NEW h \in Hubs, Timeout(h)
    PROVE  XInv'
<1>1. HasRound(h) /\ Live(h).view < scenario.views
  BY DEF Timeout
<1>2. Live(h) \in Round /\ ObjInv(scenario.restamp, Live(h))
  BY <1>1, LiveObject DEF XInv
<1>3. PICK v \in Views : v = Live(h).view + 1
  <2>1. Live(h).view \in Views /\ scenario.views \in Views
    BY <1>2, RoundFields DEF XInv, ScenarioInv
  <2> QED BY <1>1, <2>1, XBoundsAssumption DEF Views
<1>4. PICK o \in Round : o = [Live(h) EXCEPT !.view = v]
  BY <1>2 DEF Round
<1>5. CountViewVote(h, h, v, o, xnet, {Control("VIEW_CHANGE", h, v)})
  BY <1>3, <1>4 DEF Timeout
<1>6. ObjInv(scenario.restamp, o) /\ o.final = Live(h).final /\ o.block = Live(h).block
  BY <1>2, <1>4, ViewKeeps
<1>7. Sendable(h, {Control("VIEW_CHANGE", h, v)})
  <2>1. Control("VIEW_CHANGE", h, v) \in Message
    BY DEF Control, Message
  <2>2. \A k \in Hubs \ {h} : MsgInv(k, Control("VIEW_CHANGE", h, v))
    BY ControlType
  <2> QED BY <2>1, <2>2 DEF Sendable
<1>8. NetInv(xnet)
  BY DEF XInv, MessagesInv
<1> QED BY <1>1, <1>5, <1>6, <1>7, <1>8, ViewVoteStep

\* VIEW_CHANGE, and the new leader's proposal on a quorum of them.
LEMMA handleViewChangeKeeps ==
    ASSUME XInv, NEW h \in Hubs, handleViewChange(h)
    PROVE  XInv'
<1>1. PICK m \in xnet[h] :
        \/ /\ finalRow[h] # NoRow
           /\ xnet' = Broadcast(Taken(h, m), h, {FinalSync(h, finalRow[h])})
           /\ UNCHANGED <<rounds, live, finalRow, early, tasks, emitted, scenario>>
        \/ Early(h, m)
        \/ Drop(h, m)
        \/ HasRound(h) /\ CountViewVote(h, m.from, m.view, Live(h), Taken(h, m), {})
  BY DEF handleViewChange
<1>2. m \in Message
  BY DEF XInv, MessagesInv, NetInv
<1>3. NetInv(Taken(h, m))
  BY TakenNet DEF XInv, MessagesInv
<1>4. CASE Early(h, m)
  BY <1>4, EarlyKeeps
<1>5. CASE Drop(h, m)
  BY <1>5, DropKeeps
<1>6. CASE HasRound(h) /\ CountViewVote(h, m.from, m.view, Live(h), Taken(h, m), {})
  <2>1. m.from \in Hubs /\ m.view \in Views
    BY <1>2 DEF Message
  <2>2. ObjInv(scenario.restamp, Live(h))
    BY <1>6, LiveObject DEF XInv
  <2>3. Sendable(h, {})
    BY DEF Sendable
  <2> QED BY <1>3, <1>6, <2>1, <2>2, <2>3, ViewVoteStep
<1>7. CASE /\ finalRow[h] # NoRow
           /\ xnet' = Broadcast(Taken(h, m), h, {FinalSync(h, finalRow[h])})
           /\ UNCHANGED <<rounds, live, finalRow, early, tasks, emitted, scenario>>
  <2> USE DEF XInv
  <2>1. finalRow[h] \in Final
    BY <1>7 DEF FinalInv
  <2>2. Sendable(h, {FinalSync(h, finalRow[h])})
    <3>1. \A k \in Hubs \ {h} : MsgInv(k, FinalSync(h, finalRow[h]))
      BY <2>1, FinalSyncType
    <3>2. FinalSync(h, finalRow[h]) \in Message
      BY <2>1 DEF FinalSync, Message, Final
    <3> QED BY <3>1, <3>2 DEF Sendable
  <2>3. NetInv(Broadcast(Taken(h, m), h, {FinalSync(h, finalRow[h])}))
    BY <1>3, <2>2, BroadcastNet
  <2>4. MessagesInv'
    BY <1>7, <2>3 DEF MessagesInv
  <2>5. ScenarioStep
    BY <1>7, SameScenario
  <2>6. RoundsInv' /\ RoundsStep /\ SameLengths
    BY <1>7, <2>5, SameRounds
  <2>7. LiveInv'
    BY <1>7, <2>5, <2>6, LiveStep
  <2>8. TasksInv'
    BY <1>7, <2>5, <2>6, SameTasks
  <2>9. FinalInv' /\ EmittedInv'
    BY <1>7, <2>5, SameFinal, SameEmitted
  <2> QED BY <2>4, <2>5, <2>6, <2>7, <2>8, <2>9 DEF ScenarioStep
<1> QED BY <1>1, <1>4, <1>5, <1>6, <1>7

\* NEW_VIEW.
LEMMA handleNewViewKeeps ==
    ASSUME XInv, NEW h \in Hubs, handleNewView(h)
    PROVE  XInv'
<1>1. PICK m \in xnet[h] :
        \/ Drop(h, m)
        \/ Early(h, m)
        \/ /\ HasRound(h)
           /\ SetRound(h, live[h], [Live(h) EXCEPT !.view = m.view])
           /\ xnet' = Taken(h, m)
           /\ UNCHANGED <<live, finalRow, early, tasks, emitted, scenario>>
  BY DEF handleNewView
<1>2. CASE Drop(h, m)
  BY <1>2, DropKeeps
<1>3. CASE Early(h, m)
  BY <1>3, EarlyKeeps
<1>4. CASE /\ HasRound(h)
           /\ SetRound(h, live[h], [Live(h) EXCEPT !.view = m.view])
           /\ xnet' = Taken(h, m)
           /\ UNCHANGED <<live, finalRow, early, tasks, emitted, scenario>>
  <2> USE DEF XInv
  <2> DEFINE p == [Live(h) EXCEPT !.view = m.view]
  <2>1. m.view \in Views
    BY DEF MessagesInv, NetInv, Message
  <2>2. ObjInv(scenario.restamp, Live(h)) /\ live[h] \in 1..Len(rounds[h])
    BY <1>4, LiveObject
  <2>3. ObjInv(scenario.restamp, p) /\ p.final = Live(h).final /\ p.block = Live(h).block
    BY <2>1, <2>2, ViewKeeps
  <2>4. SetRound(h, live[h], p)
    BY <1>4
  <2> HIDE DEF p
  <2>5. Tame(h, rounds[h][live[h]], p)
    BY <2>3 DEF Tame, Solo, Live
  <2>6. ScenarioStep
    BY <1>4, SameScenario
  <2>7. RoundsInv' /\ RoundsStep /\ SameLengths
    BY <2>2, <2>3, <2>4, <2>5, <2>6, SetRoundStep
  <2>8. LiveInv'
    BY <1>4, <2>6, <2>7, LiveStep
  <2>9. MessagesInv'
    BY <1>4, TakenNet DEF MessagesInv
  <2>10. TasksInv'
    BY <1>4, <2>6, <2>7, SameTasks
  <2>11. FinalInv' /\ EmittedInv'
    BY <1>4, <2>6, SameFinal, SameEmitted
  <2> QED BY <2>6, <2>7, <2>8, <2>9, <2>10, <2>11 DEF ScenarioStep
<1> QED BY <1>1, <1>2, <1>3, <1>4

\* A late margin, which only a rail that restamps by a promise waits for.
LEMMA RestampArrivesKeeps ==
    ASSUME XInv, NEW h \in Hubs, RestampArrives(h)
    PROVE  XInv'
<1> USE DEF XInv
<1> DEFINE o(t) == rounds[h][t.at]
           stamped(t) == IF o(t).row.stamp < MaxStamp THEN Restamped(o(t)) ELSE o(t)
           current(t) == ~o(t).final /\ live[h] = t.at /\ o(t).view = t.view
           cached(t) == o(t).final /\ finalRow[h] # NoRow /\ t.at = Len(rounds[h])
           obj(t) == IF current(t) THEN Reproposed(stamped(t)) ELSE stamped(t)
<1>1. PICK t \in tasks[h] :
        /\ t.kind = "restamp"
        /\ finalRow' = IF cached(t) THEN [finalRow EXCEPT ![h].row = stamped(t).row] ELSE finalRow
        /\ SetRound(h, t.at, obj(t))
        /\ xnet' = IF current(t) THEN Broadcast(xnet, h, {Control("NEW_VIEW", h, t.view)}) ELSE xnet
        /\ End(h, t, IF current(t) THEN {Persisting(t.at, FALSE)} ELSE {})
        /\ UNCHANGED <<live, early, emitted, scenario>>
  BY DEF RestampArrives
<1>2. t \in Task /\ TaskInv(h, t)
  BY DEF TasksInv
<1>3. t.at \in 1..Len(rounds[h]) /\ t.at \in Nat /\ scenario.restamp = "later" /\ t.view \in Views
  BY <1>1, <1>2 DEF TaskInv, RoundsInv, Task
<1>4. ScenarioStep
  BY <1>1, SameScenario
<1>5. o(t) \in Round /\ o(t).block = o(t).row.block
  BY <1>3 DEF RoundsInv, ObjInv
<1>6. /\ stamped(t) \in Round /\ stamped(t).block = stamped(t).row.block
      /\ stamped(t).block = o(t).block /\ stamped(t).final = o(t).final
  <2>1. CASE o(t).row.stamp < MaxStamp
    <3>1. stamped(t) = Restamped(o(t))
      BY <2>1
    <3> HIDE DEF stamped, o
    <3> QED BY <1>5, <2>1, <3>1, RestampedFields
  <2>2. CASE ~(o(t).row.stamp < MaxStamp)
    BY <1>5, <2>2
  <2> QED BY <2>1, <2>2
<1> HIDE DEF stamped
<1>7. /\ ObjInv(scenario.restamp, obj(t))
      /\ obj(t).block = o(t).block /\ obj(t).final = o(t).final
  <2>1. CASE current(t)
    <3>1. /\ ObjInv(scenario.restamp, Reproposed(stamped(t)))
          /\ Reproposed(stamped(t)).final = stamped(t).final
          /\ Reproposed(stamped(t)).block = stamped(t).block
      BY <1>3, <1>6, ReproposedKeeps
    <3> QED BY <1>6, <2>1, <3>1
  <2>2. CASE ~current(t)
    <3>1. obj(t) = stamped(t)
      BY <2>2
    <3> QED BY <1>3, <1>6, <3>1 DEF ObjInv
  <2> QED BY <2>1, <2>2
<1>8. Tame(h, o(t), obj(t))
  BY <1>7 DEF Tame, Solo
<1> HIDE DEF obj
<1>9. RoundsInv' /\ RoundsStep /\ SameLengths
  BY <1>1, <1>3, <1>4, <1>7, <1>8, SetRoundStep
<1>10. LiveInv'
  BY <1>1, <1>4, <1>9, LiveStep
<1>11. MessagesInv'
  <2>1. Control("NEW_VIEW", h, t.view) \in Message
    BY <1>3 DEF Control, Message
  <2>2. \A k \in Hubs \ {h} : MsgInv(k, Control("NEW_VIEW", h, t.view))
    BY <1>3, ControlType
  <2>3. Sendable(h, {Control("NEW_VIEW", h, t.view)})
    BY <2>1, <2>2 DEF Sendable
  <2>4. NetInv(Broadcast(xnet, h, {Control("NEW_VIEW", h, t.view)}))
    BY <2>3, BroadcastNet DEF MessagesInv
  <2> QED BY <1>1, <2>4 DEF MessagesInv
<1>12. TasksInv'
  <2>1. CASE current(t)
    <3>1. t.at \in 1..Len(rounds'[h])
      BY <1>3, <1>9 DEF SameLengths
    <3>2. Persisting(t.at, FALSE) \in Task /\ TaskInv(h, Persisting(t.at, FALSE))'
      BY <1>3, <3>1, PersistTask
    <3>3. {Persisting(t.at, FALSE)} \in SUBSET Task
          /\ \A x \in {Persisting(t.at, FALSE)} : TaskInv(h, x)'
      BY <3>2
    <3>4. End(h, t, {Persisting(t.at, FALSE)})
      BY <1>1, <2>1
    <3> QED BY <1>4, <1>9, <3>3, <3>4, OneTask
  <2>2. CASE ~current(t)
    <3>1. End(h, t, {})
      BY <1>1, <2>2
    <3> QED BY <1>4, <1>9, <3>1, OneTask
  <2> QED BY <2>1, <2>2
<1>13. FinalInv'
  <2>1. CASE cached(t)
    <3>1. finalRow[h] \in Final /\ stamped(t).row \in Row
      BY <1>6, <2>1, RoundFields DEF FinalInv
    <3>2. [finalRow[h] EXCEPT !.row = stamped(t).row] \in Final
      BY <3>1 DEF Final
    <3>3. finalRow' = [finalRow EXCEPT ![h] = [finalRow[h] EXCEPT !.row = stamped(t).row]]
      BY <1>1, <2>1
    <3> QED BY <3>2, <3>3 DEF FinalInv
  <2>2. CASE ~cached(t)
    BY <1>1, <2>2 DEF FinalInv
  <2> QED BY <2>1, <2>2
<1>14. EmittedInv'
  BY <1>1, <1>4, SameEmitted
<1> QED BY <1>4, <1>9, <1>10, <1>11, <1>12, <1>13, <1>14 DEF ScenarioStep

\* handleFinalSync, at once or after a lookup.
LEMMA SyncKeeps ==
    ASSUME XInv, NEW h \in Hubs, NEW i \in 1..Len(rounds[h]), NEW m \in Message, m.row \in Row,
           Sync(h, i, m), ScenarioStep
    PROVE  RoundsInv' /\ RoundsStep /\ SameLengths /\ FinalInv' /\ EmittedInv'
<1> USE DEF XInv
<1> DEFINE o == rounds[h][i]
<1>1. o \in Round /\ o.block = o.row.block
  BY DEF RoundsInv, ObjInv
<1>2. CASE StillOpen(h, i) /\ ProofHolds(m, m.row.block)
  <2>1. Settle(h, rounds[h], CaughtUp(o, m, m.row.block))
    BY <1>1, <1>2 DEF Sync
  <2>2. Live(h) = o /\ HasRound(h)
    BY <1>2 DEF StillOpen, Live, HasRound
  <2>3. ObjStep(h, scenario.restamp, Live(h), CaughtUp(o, m, m.row.block))
    BY <1>1, <1>2, <2>2, CaughtUpKeeps
  <2>4. \A j \in 1..Len(rounds[h]) : /\ ObjInv(scenario.restamp, rounds[h][j])
                                     /\ Tame(h, rounds[h][j], rounds[h][j])
    BY DEF RoundsInv, Tame
  <2>5. rounds[h] \in Seq(Round)
    BY DEF RoundsInv
  <2> HIDE DEF o
  <2> QED BY <2>1, <2>2, <2>3, <2>4, <2>5, SettleStep
<1>3. CASE ~(StillOpen(h, i) /\ ProofHolds(m, m.row.block))
  <2>1. UNCHANGED <<rounds, finalRow, emitted>>
    BY <1>1, <1>3 DEF Sync
  <2> QED BY <2>1, SameRounds, SameFinal, SameEmitted
<1> QED BY <1>2, <1>3

\* FINAL_SYNC.
LEMMA handleFinalSyncKeeps ==
    ASSUME XInv, NEW h \in Hubs, handleFinalSync(h)
    PROVE  XInv'
<1>1. PICK m \in xnet[h] :
        /\ m.type = "FINAL_SYNC"
        /\ \/ Drop(h, m)
           \/ /\ HasRound(h) /\ xnet' = Taken(h, m)
              /\ \/ Sync(h, live[h], m) /\ UNCHANGED tasks
                 \/ /\ Start(h, {[kind |-> "rebind", at |-> live[h], msg |-> m]})
                    /\ UNCHANGED <<rounds, finalRow, emitted>>
              /\ UNCHANGED <<live, early, scenario>>
  BY DEF handleFinalSync
<1>2. CASE Drop(h, m)
  BY <1>2, DropKeeps
<1>3. CASE /\ HasRound(h) /\ xnet' = Taken(h, m)
           /\ \/ Sync(h, live[h], m) /\ UNCHANGED tasks
              \/ /\ Start(h, {[kind |-> "rebind", at |-> live[h], msg |-> m]})
                 /\ UNCHANGED <<rounds, finalRow, emitted>>
           /\ UNCHANGED <<live, early, scenario>>
  <2> USE DEF XInv
  <2>1. m \in Message /\ MsgInv(h, m) /\ m.row \in Row
    BY <1>1 DEF MessagesInv, NetInv, MsgInv
  <2>2. live[h] \in 1..Len(rounds[h]) /\ live[h] \in Nat
    BY <1>3, LiveObject
  <2>3. ScenarioStep
    BY <1>3, SameScenario
  <2>4. MessagesInv'
    BY <1>3, TakenNet DEF MessagesInv
  <2>5. CASE Sync(h, live[h], m) /\ UNCHANGED tasks
    <3>1. RoundsInv' /\ RoundsStep /\ SameLengths /\ FinalInv' /\ EmittedInv'
      BY <2>1, <2>2, <2>3, <2>5, SyncKeeps
    <3>2. LiveInv'
      BY <1>3, <2>3, <3>1, LiveStep
    <3>3. TasksInv'
      BY <2>3, <2>5, <3>1, SameTasks
    <3> QED BY <2>3, <2>4, <3>1, <3>2, <3>3 DEF ScenarioStep
  <2>6. CASE /\ Start(h, {[kind |-> "rebind", at |-> live[h], msg |-> m]})
             /\ UNCHANGED <<rounds, finalRow, emitted>>
    <3>1. RoundsInv' /\ RoundsStep /\ SameLengths
      BY <2>3, <2>6, SameRounds
    <3>2. PICK i \in Nat : i = live[h]
      BY <2>2
    <3> DEFINE t == [kind |-> "rebind", at |-> i, msg |-> m]
    <3>3. t \in Task /\ t.kind = "rebind" /\ t.at = i /\ t.msg = m
      BY <2>1 DEF Task
    <3>4. i \in 1..Len(rounds'[h])
      BY <2>2, <2>6, <3>2
    <3>5. TaskInv(h, t)'
      <4> HIDE DEF t
      <4> QED BY <1>1, <2>1, <3>3, <3>4 DEF TaskInv
    <3>6. Start(h, {t})
      BY <2>6, <3>2
    <3> HIDE DEF t
    <3>7. {t} \in SUBSET Task /\ \A x \in {t} : TaskInv(h, x)'
      BY <3>3, <3>5
    <3>8. TasksInv'
      BY <2>3, <3>1, <3>6, <3>7, OneTask
    <3>9. LiveInv'
      BY <1>3, <2>3, <3>1, LiveStep
    <3>10. FinalInv' /\ EmittedInv'
      BY <2>3, <2>6, SameFinal, SameEmitted
    <3> QED BY <2>3, <2>4, <3>1, <3>8, <3>9, <3>10 DEF ScenarioStep
  <2> QED BY <1>3, <2>5, <2>6
<1> QED BY <1>1, <1>2, <1>3

\* The snapshot of a synced row has been looked up.
LEMMA SyncReboundKeeps ==
    ASSUME XInv, NEW h \in Hubs, SyncRebound(h)
    PROVE  XInv'
<1> USE DEF XInv
<1>1. PICK t \in tasks[h] :
        /\ t.kind = "rebind"
        /\ \/ Sync(h, t.at, t.msg)
           \/ UNCHANGED <<rounds, finalRow, emitted>>
        /\ End(h, t, {})
        /\ UNCHANGED <<live, early, xnet, scenario>>
  BY DEF SyncRebound
<1>2. t.msg \in Message /\ t.msg.row \in Row /\ t.at \in 1..Len(rounds[h])
  BY <1>1, HeldMessage
<1>3. ScenarioStep
  BY <1>1, SameScenario
<1>4. RoundsInv' /\ RoundsStep /\ SameLengths /\ FinalInv' /\ EmittedInv'
  <2>1. CASE Sync(h, t.at, t.msg)
    BY <1>2, <1>3, <2>1, SyncKeeps
  <2>2. CASE UNCHANGED <<rounds, finalRow, emitted>>
    BY <1>3, <2>2, SameRounds, SameFinal, SameEmitted
  <2> QED BY <1>1, <2>1, <2>2
<1>5. LiveInv'
  BY <1>1, <1>3, <1>4, LiveStep
<1>6. TasksInv'
  BY <1>1, <1>3, <1>4, OneTask
<1>7. MessagesInv'
  BY <1>1, SameMessages
<1> QED BY <1>3, <1>4, <1>5, <1>6, <1>7 DEF ScenarioStep

\* Failed awaits, abandoned rounds, evictions, restarts.
LEMMA FaultsKeep ==
    ASSUME XInv, NEW h \in Hubs,
           AwaitFails(h) \/ Abandon(h) \/ forgetFinalized(h) \/ EvictFinalized(h)
             \/ Cleanup(h) \/ Restart(h)
    PROVE  XInv'
<1> USE DEF XInv
<1>1. ScenarioStep
  BY SameScenario, SpendScenario
     DEF AwaitFails, Abandon, forgetFinalized, EvictFinalized, Cleanup, Restart
<1>2. UNCHANGED <<rounds, xnet, emitted>>
  BY DEF AwaitFails, Abandon, forgetFinalized, EvictFinalized, Cleanup, Restart
<1>3. RoundsInv' /\ RoundsStep /\ SameLengths /\ EmittedInv'
  BY <1>1, <1>2, SameRounds, SameEmitted
<1>4. UNCHANGED live \/ live' = [live EXCEPT ![h] = 0]
  BY DEF AwaitFails, Abandon, forgetFinalized, EvictFinalized, Cleanup, Restart
<1>5. LiveInv'
  BY <1>1, <1>3, <1>4, LiveStep
<1>6. UNCHANGED finalRow \/ finalRow' = [finalRow EXCEPT ![h] = NoRow]
  BY DEF AwaitFails, Abandon, forgetFinalized, EvictFinalized, Cleanup, Restart
<1>7. FinalInv'
  BY <1>6 DEF FinalInv
<1>8. UNCHANGED early \/ early' = [early EXCEPT ![h] = {}]
  BY DEF AwaitFails, Abandon, forgetFinalized, EvictFinalized, Cleanup, Restart
<1>9. MessagesInv'
  <2>1. NetInv([early EXCEPT ![h] = {}])
    BY DrainedNet DEF MessagesInv
  <2> QED BY <1>2, <1>8, <2>1 DEF MessagesInv
<1>10. TasksInv'
  <2>1. CASE UNCHANGED tasks
    BY <1>1, <1>3, <2>1, SameTasks
  <2>2. CASE \E t \in tasks[h] : End(h, t, {})
    BY <1>1, <1>3, <2>2, OneTask
  <2>3. CASE tasks' = [tasks EXCEPT ![h] = {}]
    <3>1. tasks' \in [Hubs -> SUBSET Task] /\ \A k \in Hubs : tasks'[k] \subseteq tasks[k]
      BY <2>3 DEF TasksInv
    <3>2. \A k \in Hubs : \A t \in tasks'[k] : t \in tasks[k] \/ TaskInv(k, t)'
      BY <3>1
    <3> QED BY <1>1, <1>3, <3>1, <3>2, TasksStep
  <2>4. UNCHANGED tasks \/ (\E t \in tasks[h] : End(h, t, {})) \/ tasks' = [tasks EXCEPT ![h] = {}]
    BY DEF AwaitFails, Abandon, forgetFinalized, EvictFinalized, Cleanup, Restart
  <2> QED BY <2>1, <2>2, <2>3, <2>4
<1> QED BY <1>1, <1>3, <1>5, <1>7, <1>9, <1>10 DEF ScenarioStep

\* A step that changes nothing.
LEMMA XStutter ==
    ASSUME XInv, UNCHANGED xvars
    PROVE  XInv'
<1> USE DEF XInv, xvars
<1>1. ScenarioStep
  BY SameScenario
<1>2. RoundsInv' /\ RoundsStep /\ SameLengths
  BY <1>1, SameRounds
<1>3. LiveInv' /\ TasksInv'
  BY <1>1, <1>2, LiveStep, SameTasks
<1>4. MessagesInv' /\ FinalInv' /\ EmittedInv'
  BY <1>1, SameMessages, SameFinal, SameEmitted
<1> QED BY <1>1, <1>2, <1>3, <1>4 DEF ScenarioStep

\* Every step preserves the invariant.
LEMMA XStepInv == XInv /\ [XNext]_xvars => XInv'
<1> SUFFICES ASSUME XInv, [XNext]_xvars PROVE XInv'
  OBVIOUS
<1>1. CASE UNCHANGED xvars
  BY <1>1, XStutter
<1>2. ASSUME NEW h \in Hubs,
             \/ propose(h) \/ ProposeAlone(h) \/ FinalizeAlone(h) \/ broadcastPropose(h)
             \/ handlePropose(h) \/ Validated(h) \/ Rebound(h)
             \/ handlePrepare(h) \/ handleCommit(h)
      PROVE  XInv'
  BY <1>2, proposeKeeps, ProposeAloneKeeps, FinalizeAloneKeeps, broadcastProposeKeeps,
     handleProposeKeeps, ValidatedKeeps, ReboundKeeps, handlePrepareKeeps, handleCommitKeeps
<1>3. ASSUME NEW h \in Hubs,
             \/ Timeout(h) \/ handleViewChange(h) \/ handleNewView(h) \/ RestampArrives(h)
             \/ handleFinalSync(h) \/ SyncRebound(h)
             \/ AwaitFails(h) \/ Abandon(h) \/ forgetFinalized(h) \/ EvictFinalized(h)
             \/ Cleanup(h) \/ Restart(h)
      PROVE  XInv'
  BY <1>3, TimeoutKeeps, handleViewChangeKeeps, handleNewViewKeeps, RestampArrivesKeeps,
     handleFinalSyncKeeps, SyncReboundKeeps, FaultsKeep
<1> QED BY <1>1, <1>2, <1>3 DEF XNext

\* Whatever the hubs, snapshots, rows, views, faults and order of messages: what a
\* hub emits as finalized is signed over that very row by a quorum of the snapshot
\* the row declares (adoptLeaderRow, checkCommitQuorum, handleFinalSync), unless
\* the rail restamps its rows by a promise.
THEOREM ProofsAreBehindFinals == XSpec => []ProofBehindFinal
<1>1. XInit => XInv
  BY XInitInv
<1>2. XInv /\ [XNext]_xvars => XInv'
  BY XStepInv
<1>3. XInv => ProofBehindFinal
  <2> SUFFICES ASSUME XInv, scenario.restamp # "later"
               PROVE  /\ ProofOverRow
                      /\ \A e \in emitted : \E voters \in SUBSET Signers(e.at.sigs) :
                            meetsQuorum(e.at.row.block, voters) \/ voters = XMembers[e.at.row.block]
    BY DEF ProofBehindFinal
  <2>1. \A e \in emitted : Proven(e.at.row, e.at.sigs)
    BY DEF XInv, EmittedInv
  <2> QED BY <2>1 DEF Proven, Backed, ProofOverRow
<1> QED BY <1>1, <1>2, <1>3, PTL DEF XSpec

\* Every round object, the live index and the suspended handlers stay well formed.
THEOREM RoundsAreWellFormed == XSpec => []XTypeOK
<1>1. XInit => XInv
  BY XInitInv
<1>2. XInv /\ [XNext]_xvars => XInv'
  BY XStepInv
<1>3. XInv => XTypeOK
  <2> SUFFICES ASSUME XInv PROVE XTypeOK
    OBVIOUS
  <2> USE DEF XInv
  <2>1. scenario.faults \in Nat
    BY DEF ScenarioInv
  <2>2. ASSUME NEW h \in Hubs
        PROVE  /\ live[h] \in 0..Len(rounds[h]) /\ Len(rounds[h]) <= scenario.opens[h]
               /\ \A i \in DOMAIN rounds[h] : rounds[h][i] \in Round
               /\ \A t \in tasks[h] : t.at \in DOMAIN rounds[h]
    <3>1. rounds[h] \in Seq(Round) /\ DOMAIN rounds[h] = 1..Len(rounds[h])
      BY DEF RoundsInv
    <3>2. live[h] \in 0..Len(rounds[h]) /\ Len(rounds[h]) <= scenario.opens[h]
      BY <3>1 DEF LiveInv
    <3>3. \A t \in tasks[h] : t.at \in 1..Len(rounds[h])
      BY DEF TasksInv, TaskInv
    <3> QED BY <3>1, <3>2, <3>3
  <2> QED BY <2>1, <2>2 DEF XTypeOK
<1> QED BY <1>1, <1>2, <1>3, PTL DEF XSpec

-----------------------------------------------------------------------------
(***************************************************************************)
(* The commit of a hub.                                                    *)
(***************************************************************************)

\* A step of hub h touches no other hub's rounds and keeps what it committed to,
\* but for the row whose snapshot it was looking up.
KeepsRow(h) ==
    LET o == rounds'[h][live[h]]
    IN  \/ o.row = Live(h).row \/ o.final
        \/ \E t \in tasks[h] \ tasks'[h] :
              t.kind = "rebind" /\ t.at = live[h] /\ o.row = t.msg.row

CommitStep(h) ==
    /\ \A k \in Hubs \ {h} : rounds'[k] = rounds[k]
    /\ HasRound(h) /\ Live(h).commitSent /\ scenario.restamp = "none" => KeepsRow(h)

\* A step that leaves the round objects alone breaks no commitment.
LEMMA SameRoundsCommit ==
    ASSUME NEW h \in Hubs, UNCHANGED rounds
    PROVE  CommitStep(h)
  BY DEF CommitStep, KeepsRow, Live

\* Nor does one that keeps the row of the object it replaces.
LEMMA SetRoundCommit ==
    ASSUME RoundsInv, LiveInv, NEW h \in Hubs, NEW i \in 1..Len(rounds[h]), NEW o,
           o \in Round, o.row = rounds[h][i].row, SetRound(h, i, o)
    PROVE  CommitStep(h)
<1>1. rounds' = [rounds EXCEPT ![h] = [rounds[h] EXCEPT ![i] = o]] /\ rounds[h] \in Seq(Round)
      /\ rounds \in [Hubs -> Seq(Round)]
  BY DEF SetRound, RoundsInv
<1>2. \A k \in Hubs \ {h} : rounds'[k] = rounds[k]
  BY <1>1
<1>3. rounds'[h] = [rounds[h] EXCEPT ![i] = o]
  BY <1>1
<1>4. ASSUME HasRound(h) PROVE rounds'[h][live[h]].row = Live(h).row
  <2>1. live[h] \in 1..Len(rounds[h])
    BY <1>4, LiveObject
  <2>2. CASE live[h] = i
    BY <1>1, <1>3, <2>1, <2>2, OneObject DEF Live
  <2>3. CASE live[h] # i
    BY <1>1, <1>3, <2>1, <2>3, OneObject DEF Live
  <2> QED BY <2>2, <2>3
<1> QED BY <1>2, <1>4 DEF CommitStep, KeepsRow

\* What settling the live round does to the objects.
LEMMA SettleCommit ==
    ASSUME RoundsInv, LiveInv, NEW h \in Hubs, HasRound(h), NEW objs \in Seq(Round),
           Len(objs) = Len(rounds[h]), NEW o, o \in Round, Settle(h, objs, o)
    PROVE  /\ \A k \in Hubs \ {h} : rounds'[k] = rounds[k]
           /\ rounds'[h][live[h]] = o
<1>1. rounds' = [rounds EXCEPT ![h] = [objs EXCEPT ![live[h]] = o]]
      /\ rounds \in [Hubs -> Seq(Round)]
  BY DEF Settle, RoundsInv
<1>2. live[h] \in 1..Len(objs)
  BY LiveObject
<1>3. [objs EXCEPT ![live[h]] = o][live[h]] = o
  BY <1>2, OneObject
<1> QED BY <1>1, <1>3

\* The round object t.at has the row of o by then.
LEMMA CountInCommit ==
    ASSUME XInv, NEW h \in Hubs, NEW t \in tasks[h], NEW m \in Message, NEW o,
           ObjInv(scenario.restamp, o), m.sig = o.canon,
           NEW adopted, CountIn(h, t, m, o, adopted)
    PROVE  /\ \A k \in Hubs \ {h} : rounds'[k] = rounds[k]
           /\ HasRound(h) => rounds'[h][live[h]].row = IF live[h] = t.at THEN o.row ELSE Live(h).row
           /\ t \notin tasks'[h]
<1> USE DEF XInv
<1> DEFINE i == t.at
           counted == Counted(o, m, h)
           objs == [rounds[h] EXCEPT ![i] = counted]
<1>1. /\ IF HasRound(h)
         THEN Settle(h, objs, CheckPrepare(objs[live[h]], h))
         ELSE rounds' = [rounds EXCEPT ![h] = objs]
      /\ End(h, t, {})
  BY DEF CountIn
<1>2. i \in 1..Len(rounds[h]) /\ rounds[h] \in Seq(Round)
  BY DEF TasksInv, TaskInv, RoundsInv
<1>3. ObjInv(scenario.restamp, counted) /\ counted.row = o.row /\ counted \in Round
  BY CountedKeeps DEF ObjInv
<1> HIDE DEF counted
<1>4. /\ objs \in Seq(Round) /\ Len(objs) = Len(rounds[h]) /\ objs[i] = counted
      /\ \A j \in 1..Len(rounds[h]) : j # i => objs[j] = rounds[h][j]
  BY <1>2, <1>3, OneObject
<1> HIDE DEF objs
<1>5. \A k \in Hubs \ {h} : rounds'[k] = rounds[k]
  BY <1>1 DEF RoundsInv, Settle
<1>6. t \notin tasks'[h]
  <2>1. tasks' = [tasks EXCEPT ![h] = tasks[h] \ {t}]
    BY <1>1 DEF End
  <2> QED BY <2>1 DEF TasksInv
<1>7. ASSUME HasRound(h)
      PROVE  rounds'[h][live[h]].row = IF live[h] = i THEN o.row ELSE Live(h).row
  <2> DEFINE l == live[h]
             p == CheckPrepare(objs[l], h)
  <2>1. l \in 1..Len(rounds[h])
    BY <1>7, LiveObject
  <2>2. ObjInv(scenario.restamp, objs[l])
    <3>1. CASE l = i
      BY <1>3, <1>4, <3>1
    <3>2. CASE l # i
      BY <1>4, <2>1, <3>2 DEF RoundsInv
    <3> QED BY <3>1, <3>2
  <2>3. ObjStep(h, scenario.restamp, objs[l], p) /\ p.row = objs[l].row
    BY <2>2, CheckPrepareKeeps
  <2>4. p \in Round /\ Settle(h, objs, p)
    BY <1>1, <1>7, <2>3 DEF ObjStep, ObjInv
  <2> HIDE DEF p
  <2>5. rounds'[h][l] = p
    BY <1>4, <1>7, <2>4, SettleCommit
  <2>6. objs[l].row = IF l = i THEN o.row ELSE Live(h).row
    BY <1>3, <1>4, <2>1 DEF Live
  <2> QED BY <2>3, <2>5, <2>6
<1> QED BY <1>5, <1>6, <1>7

\* A validated proposal takes over no round that sent its COMMIT.
LEMMA ValidatedCommit ==
    ASSUME XInv, NEW h \in Hubs, Validated(h)
    PROVE  CommitStep(h)
<1> DEFINE o(t) == rounds[h][t.at]
<1>1. PICK t \in tasks[h] :
        /\ t.kind = "validate"
        /\ \/ t.msg.sig = o(t).canon /\ CountIn(h, t, t.msg, o(t), FALSE)
           \/ UNCHANGED rounds
           \/ /\ ~CommittedToOther(o(t), t.msg) /\ StillOpen(h, t.at)
              /\ CountIn(h, t, t.msg, Adopted(o(t), t.msg), TRUE)
  BY DEF Validated, Dismiss
<1>2. /\ t.msg \in Message /\ t.msg.row \in Row
      /\ o(t) \in Round /\ ObjInv(scenario.restamp, o(t))
      /\ t.msg.sig = Canon(t.msg.row, t.msg.view)
  BY <1>1, HeldMessage
<1>3. CASE t.msg.sig = o(t).canon /\ CountIn(h, t, t.msg, o(t), FALSE)
  <2>1. /\ \A k \in Hubs \ {h} : rounds'[k] = rounds[k]
        /\ HasRound(h) =>
             rounds'[h][live[h]].row = IF live[h] = t.at THEN o(t).row ELSE Live(h).row
    BY <1>2, <1>3, CountInCommit
  <2>2. HasRound(h) => rounds'[h][live[h]].row = Live(h).row
    BY <2>1 DEF Live
  <2> QED BY <2>1, <2>2 DEF CommitStep, KeepsRow
<1>4. CASE UNCHANGED rounds
  BY <1>4, SameRoundsCommit
<1>5. CASE /\ ~CommittedToOther(o(t), t.msg) /\ StillOpen(h, t.at)
           /\ CountIn(h, t, t.msg, Adopted(o(t), t.msg), TRUE)
  <2> DEFINE p == Adopted(o(t), t.msg)
  <2>1. ObjInv(scenario.restamp, p) /\ p.canon = t.msg.sig /\ p.row = t.msg.row
    BY <1>2, AdoptedKeeps
  <2>2. CountIn(h, t, t.msg, p, TRUE)
    BY <1>5
  <2> HIDE DEF p
  <2>3. /\ \A k \in Hubs \ {h} : rounds'[k] = rounds[k]
        /\ HasRound(h) =>
             rounds'[h][live[h]].row = IF live[h] = t.at THEN p.row ELSE Live(h).row
    BY <1>2, <2>1, <2>2, CountInCommit
  <2>4. ASSUME HasRound(h), Live(h).commitSent PROVE p.row = Live(h).row
    <3>1. Live(h) = o(t)
      BY <1>5 DEF StillOpen, Live
    <3>2. Canon(o(t).row, t.msg.view) = Canon(t.msg.row, t.msg.view)
      BY <1>5, <2>4, <3>1 DEF CommittedToOther
    <3>3. o(t).row = t.msg.row
      BY <3>2, CanonRow
    <3> QED BY <2>1, <3>1, <3>3
  <2> QED BY <2>3, <2>4 DEF CommitStep, KeepsRow
<1> QED BY <1>1, <1>3, <1>4, <1>5

\* Nor does a rebound one, but for the lookup that CommitHolds excepts.
LEMMA ReboundCommit ==
    ASSUME XInv, NEW h \in Hubs, Rebound(h)
    PROVE  CommitStep(h)
<1> DEFINE o(t) == rounds[h][t.at]
<1>1. PICK t \in tasks[h] :
        /\ t.kind = "rebind" /\ t.msg.type = "PROPOSE"
        /\ \/ CountIn(h, t, t.msg, Adopted(o(t), t.msg), TRUE)
           \/ UNCHANGED rounds
  BY DEF Rebound, Dismiss
<1>2. /\ t.msg \in Message /\ t.msg.row \in Row
      /\ o(t) \in Round /\ ObjInv(scenario.restamp, o(t))
      /\ t.msg.sig = Canon(t.msg.row, t.msg.view)
  BY <1>1, HeldMessage
<1>3. CASE UNCHANGED rounds
  BY <1>3, SameRoundsCommit
<1>4. CASE CountIn(h, t, t.msg, Adopted(o(t), t.msg), TRUE)
  <2> DEFINE p == Adopted(o(t), t.msg)
  <2>1. ObjInv(scenario.restamp, p) /\ p.canon = t.msg.sig /\ p.row = t.msg.row
    BY <1>2, AdoptedKeeps
  <2>2. CountIn(h, t, t.msg, p, TRUE)
    BY <1>4
  <2> HIDE DEF p
  <2>3. /\ \A k \in Hubs \ {h} : rounds'[k] = rounds[k]
        /\ HasRound(h) =>
             rounds'[h][live[h]].row = IF live[h] = t.at THEN p.row ELSE Live(h).row
        /\ t \notin tasks'[h]
    BY <1>2, <2>1, <2>2, CountInCommit
  <2>4. CASE live[h] = t.at
    BY <1>1, <2>1, <2>3, <2>4 DEF CommitStep, KeepsRow
  <2>5. CASE live[h] # t.at
    BY <2>3, <2>5 DEF CommitStep, KeepsRow
  <2> QED BY <2>4, <2>5
<1> QED BY <1>1, <1>3, <1>4

\* Votes change no row.
LEMMA VotesCommit ==
    ASSUME XInv, NEW h \in Hubs, handlePrepare(h) \/ handleCommit(h)
    PROVE  CommitStep(h)
<1> USE DEF XInv
<1> DEFINE prepared(m) == [Live(h) EXCEPT !.sigs = SetSig(@, m.from, m.sig),
                                          !.prepares = @ \cup {m.from}]
           committed(m) == [Live(h) EXCEPT !.sigs = SetSig(@, m.from, m.sig),
                                           !.commits = @ \cup {m.from}]
<1>1. PICK m \in xnet[h] :
        \/ UNCHANGED rounds
        \/ /\ HasRound(h) /\ VoteIn(h, m, Live(h))
           /\ \/ Settle(h, rounds[h], CheckPrepare(prepared(m), h))
              \/ Settle(h, rounds[h], CheckCommit(committed(m)))
  BY DEF handlePrepare, handleCommit, Drop, Early
<1>2. CASE UNCHANGED rounds
  BY <1>2, SameRoundsCommit
<1>3. ASSUME HasRound(h), VoteIn(h, m, Live(h)),
             \/ Settle(h, rounds[h], CheckPrepare(prepared(m), h))
             \/ Settle(h, rounds[h], CheckCommit(committed(m)))
      PROVE  CommitStep(h)
  <2>1. m \in Message
    BY DEF MessagesInv, NetInv
  <2>2. /\ ObjInv(scenario.restamp, prepared(m)) /\ prepared(m).row = Live(h).row
        /\ ObjInv(scenario.restamp, committed(m)) /\ committed(m).row = Live(h).row
    BY <1>3, <2>1, PeerVote
  <2> HIDE DEF prepared, committed
  <2>3. PICK p : p \in Round /\ p.row = Live(h).row /\ Settle(h, rounds[h], p)
    <3>1. /\ CheckPrepare(prepared(m), h) \in Round
          /\ CheckPrepare(prepared(m), h).row = Live(h).row
      BY <2>2, CheckPrepareKeeps DEF ObjStep, ObjInv
    <3>2. CheckCommit(committed(m)) \in Round /\ CheckCommit(committed(m)).row = Live(h).row
      BY <2>2, CheckCommitKeeps DEF ObjStep, ObjInv
    <3> QED BY <1>3, <3>1, <3>2
  <2>4. rounds[h] \in Seq(Round)
    BY DEF RoundsInv
  <2>5. /\ \A k \in Hubs \ {h} : rounds'[k] = rounds[k]
        /\ rounds'[h][live[h]] = p
    BY <1>3, <2>3, <2>4, SettleCommit
  <2> QED BY <2>3, <2>5 DEF CommitStep, KeepsRow
<1> QED BY <1>1, <1>2, <1>3

\* Votes for a view change no row.
LEMMA ViewVoteCommit ==
    ASSUME XInv, NEW h \in Hubs, HasRound(h), NEW by \in Hubs, NEW v \in Views,
           NEW o, ObjInv(scenario.restamp, o), o.row = Live(h).row,
           NEW net, NEW msgs, CountViewVote(h, by, v, o, net, msgs)
    PROVE  CommitStep(h)
<1> USE DEF XInv
<1>w. PICK w : w = [o EXCEPT !.vcs = @ \cup {[view |-> v, by |-> by]}]
  OBVIOUS
<1>2. ObjInv(scenario.restamp, w) /\ w.row = o.row
  BY <1>w, ViewVoteKeeps
<1>4. PICK a : LeadershipStep(h, w, v, a) /\ SetRound(h, live[h], a.obj)
  BY <1>w, ViewVoteOutcome
<1>5. PICK p : p = a.obj
  OBVIOUS
<1>6. p \in Round /\ (scenario.restamp = "none" => p.row = Live(h).row)
  BY <1>2, <1>4, <1>5 DEF LeadershipStep, ObjInv
<1>7. SetRound(h, live[h], p) /\ live[h] \in 1..Len(rounds[h])
  BY <1>4, <1>5, LiveObject
<1>8. CASE scenario.restamp = "none"
  BY <1>6, <1>7, <1>8, SetRoundCommit DEF Live
<1>9. CASE scenario.restamp # "none"
  BY <1>7, <1>9 DEF CommitStep, SetRound, RoundsInv
<1> QED BY <1>8, <1>9

\* View changes keep the row.
LEMMA ViewsCommit ==
    ASSUME XInv, NEW h \in Hubs, Timeout(h) \/ handleViewChange(h) \/ handleNewView(h)
    PROVE  CommitStep(h)
<1> USE DEF XInv
<1>1. CASE Timeout(h)
  <2>1. HasRound(h) /\ Live(h).view < scenario.views
    BY <1>1 DEF Timeout
  <2>2. Live(h) \in Round /\ ObjInv(scenario.restamp, Live(h))
    BY <2>1, LiveObject
  <2>3. PICK v \in Views : v = Live(h).view + 1
    <3>1. Live(h).view \in Views /\ scenario.views \in Views
      BY <2>2, RoundFields DEF ScenarioInv
    <3> QED BY <2>1, <3>1, XBoundsAssumption DEF Views
  <2>4. PICK o \in Round : o = [Live(h) EXCEPT !.view = v]
    BY <2>2 DEF Round
  <2>5. CountViewVote(h, h, v, o, xnet, {Control("VIEW_CHANGE", h, v)})
    BY <1>1, <2>3, <2>4 DEF Timeout
  <2>6. ObjInv(scenario.restamp, o) /\ o.row = Live(h).row
    BY <2>2, <2>4, ViewKeeps
  <2> QED BY <2>1, <2>5, <2>6, ViewVoteCommit
<1>2. CASE handleViewChange(h)
  <2>1. PICK m \in xnet[h] :
          \/ UNCHANGED rounds
          \/ HasRound(h) /\ CountViewVote(h, m.from, m.view, Live(h), Taken(h, m), {})
    BY <1>2 DEF handleViewChange, Drop, Early
  <2>2. m.from \in Hubs /\ m.view \in Views
    BY DEF MessagesInv, NetInv, Message
  <2>3. CASE UNCHANGED rounds
    BY <2>3, SameRoundsCommit
  <2>4. CASE HasRound(h) /\ CountViewVote(h, m.from, m.view, Live(h), Taken(h, m), {})
    <3>1. ObjInv(scenario.restamp, Live(h))
      BY <2>4, LiveObject
    <3> QED BY <2>2, <2>4, <3>1, ViewVoteCommit
  <2> QED BY <2>1, <2>3, <2>4
<1>3. CASE handleNewView(h)
  <2>1. PICK m \in xnet[h] :
          \/ UNCHANGED rounds
          \/ HasRound(h) /\ SetRound(h, live[h], [Live(h) EXCEPT !.view = m.view])
    BY <1>3 DEF handleNewView, Drop, Early
  <2>2. m.view \in Views
    BY DEF MessagesInv, NetInv, Message
  <2>3. CASE UNCHANGED rounds
    BY <2>3, SameRoundsCommit
  <2>4. CASE HasRound(h) /\ SetRound(h, live[h], [Live(h) EXCEPT !.view = m.view])
    <3>1. live[h] \in 1..Len(rounds[h]) /\ ObjInv(scenario.restamp, Live(h))
      BY <2>4, LiveObject
    <3>2. PICK p : p = [Live(h) EXCEPT !.view = m.view]
      OBVIOUS
    <3>3. p \in Round /\ p.row = Live(h).row
      BY <2>2, <3>1, <3>2, ViewKeeps DEF ObjInv
    <3> QED BY <2>4, <3>1, <3>2, <3>3, SetRoundCommit DEF Live
  <2> QED BY <2>1, <2>3, <2>4
<1> QED BY <1>1, <1>2, <1>3

\* Signing a proposal of its own keeps the row.
LEMMA SignsCommit ==
    ASSUME XInv, NEW h \in Hubs, FinalizeAlone(h) \/ broadcastPropose(h)
    PROVE  CommitStep(h)
<1> USE DEF XInv
<1> DEFINE o(t) == rounds[h][t.at]
           one(t) == [o(t) EXCEPT !.sigs = SetSig(@, h, o(t).canon)]
           two(t) == [o(t) EXCEPT !.sigs = SetSig(@, h, o(t).canon), !.prepares = @ \cup {h}]
<1>1. PICK t \in tasks[h] :
        \/ live[h] = t.at /\ Settle(h, rounds[h], Finalized(one(t)))
        \/ SetRound(h, t.at, one(t))
        \/ SetRound(h, t.at, two(t))
  BY DEF FinalizeAlone, broadcastPropose
<1>2. t.at \in 1..Len(rounds[h]) /\ rounds[h] \in Seq(Round)
  BY DEF TasksInv, TaskInv, RoundsInv
<1>3. ObjInv(scenario.restamp, o(t)) /\ o(t) \in Round
  BY <1>2 DEF RoundsInv, ObjInv
<1>4. one(t) \in Round /\ two(t) \in Round
  <2>1. ObjInv(scenario.restamp, one(t)) /\ ObjInv(scenario.restamp, two(t))
    BY <1>3, SignedKeeps
  <2> QED BY <2>1 DEF ObjInv
<1>5. one(t).row = o(t).row /\ two(t).row = o(t).row
  BY <1>3 DEF Round
<1> HIDE DEF one, two
<1>6. CASE live[h] = t.at /\ Settle(h, rounds[h], Finalized(one(t)))
  <2>1. HasRound(h)
    BY <1>2, <1>6 DEF HasRound
  <2>2. Finalized(one(t)) \in Round /\ Finalized(one(t)).final
    BY <1>4, FinalizedFields
  <2>3. /\ \A k \in Hubs \ {h} : rounds'[k] = rounds[k]
        /\ rounds'[h][live[h]] = Finalized(one(t))
    BY <1>2, <1>6, <2>1, <2>2, SettleCommit
  <2> QED BY <2>2, <2>3 DEF CommitStep, KeepsRow
<1>7. CASE SetRound(h, t.at, one(t))
  BY <1>2, <1>4, <1>5, <1>7, SetRoundCommit
<1>8. CASE SetRound(h, t.at, two(t))
  BY <1>2, <1>4, <1>5, <1>8, SetRoundCommit
<1> QED BY <1>1, <1>6, <1>7, <1>8

\* What a sync does to an object breaks no commitment.
LEMMA SyncCommit ==
    ASSUME XInv, NEW h \in Hubs, NEW i \in 1..Len(rounds[h]), NEW m \in Message, m.row \in Row,
           Sync(h, i, m)
    PROVE  CommitStep(h)
<1> USE DEF XInv
<1> DEFINE o == rounds[h][i]
<1>1. o \in Round /\ o.block = o.row.block /\ rounds[h] \in Seq(Round)
  BY DEF RoundsInv, ObjInv
<1>2. CASE StillOpen(h, i) /\ ProofHolds(m, m.row.block)
  <2>1. PICK p : p = CaughtUp(o, m, m.row.block)
    OBVIOUS
  <2>2. Settle(h, rounds[h], p) /\ HasRound(h) /\ ~o.final
    BY <1>1, <1>2, <2>1 DEF Sync, StillOpen, HasRound
  <2>3. ObjStep(h, scenario.restamp, o, p)
    BY <1>1, <1>2, <2>1, CaughtUpKeeps
  <2>4. p.final
    BY <2>1 DEF CaughtUp, Finalized
  <2>5. p \in Round
    BY <2>3 DEF ObjStep, ObjInv
  <2>6. /\ \A k \in Hubs \ {h} : rounds'[k] = rounds[k]
        /\ rounds'[h][live[h]] = p
    BY <1>1, <2>2, <2>5, SettleCommit
  <2> QED BY <2>4, <2>6 DEF CommitStep, KeepsRow
<1>3. CASE ~(StillOpen(h, i) /\ ProofHolds(m, m.row.block))
  <2>1. UNCHANGED rounds
    BY <1>1, <1>3 DEF Sync
  <2> QED BY <2>1, SameRoundsCommit
<1> QED BY <1>2, <1>3

\* FINAL_SYNC, at once or after the lookup.
LEMMA SyncsCommit ==
    ASSUME XInv, NEW h \in Hubs, handleFinalSync(h) \/ SyncRebound(h)
    PROVE  CommitStep(h)
<1> USE DEF XInv
<1>1. CASE handleFinalSync(h)
  <2>1. PICK m \in xnet[h] :
          /\ m.type = "FINAL_SYNC"
          /\ UNCHANGED rounds \/ (HasRound(h) /\ Sync(h, live[h], m))
    BY <1>1 DEF handleFinalSync, Drop
  <2>2. m \in Message /\ m.row \in Row
    BY <2>1 DEF MessagesInv, NetInv, MsgInv
  <2>3. CASE UNCHANGED rounds
    BY <2>3, SameRoundsCommit
  <2>4. CASE HasRound(h) /\ Sync(h, live[h], m)
    <3>1. live[h] \in 1..Len(rounds[h])
      BY <2>4, LiveObject
    <3> QED BY <2>2, <2>4, <3>1, SyncCommit
  <2> QED BY <2>1, <2>3, <2>4
<1>2. CASE SyncRebound(h)
  <2>1. PICK t \in tasks[h] :
          t.kind = "rebind" /\ (UNCHANGED rounds \/ Sync(h, t.at, t.msg))
    BY <1>2 DEF SyncRebound
  <2>2. t.msg \in Message /\ t.msg.row \in Row /\ t.at \in 1..Len(rounds[h])
    BY <2>1, HeldMessage
  <2> QED BY <2>1, <2>2, SyncCommit, SameRoundsCommit
<1> QED BY <1>1, <1>2

\* Restamping.
LEMMA RestampCommit ==
    ASSUME XInv, NEW h \in Hubs, RestampArrives(h)
    PROVE  CommitStep(h)
<1> USE DEF XInv
<1>1. PICK t \in tasks[h] : t.kind = "restamp" /\ \E o : SetRound(h, t.at, o)
  BY DEF RestampArrives
<1>2. scenario.restamp = "later"
  BY <1>1 DEF TasksInv, TaskInv
<1> QED BY <1>1, <1>2 DEF CommitStep, SetRound, RoundsInv

\* Opening a round.
LEMMA OpensCommit ==
    ASSUME XInv, NEW h \in Hubs, propose(h) \/ ProposeAlone(h)
    PROVE  CommitStep(h)
<1>1. PICK row : Opened(h, row)
  BY DEF propose, ProposeAlone
<1> QED BY <1>1 DEF CommitStep, Opened, XInv, RoundsInv

\* The remaining steps.
LEMMA OthersCommit ==
    ASSUME NEW h \in Hubs,
           \/ handlePropose(h) \/ AwaitFails(h) \/ Abandon(h) \/ forgetFinalized(h)
           \/ EvictFinalized(h) \/ Cleanup(h) \/ Restart(h)
    PROVE  CommitStep(h)
<1>1. UNCHANGED rounds
  BY DEF handlePropose, Drop, Early, AwaitFails, Abandon, forgetFinalized, EvictFinalized,
         Cleanup, Restart
<1> QED BY <1>1, SameRoundsCommit

\* On a rail that does not restamp, a hub that sent its COMMIT gives its round to
\* another row only if a quorum finalized that one, or it was looking up that row's
\* snapshot when the COMMIT left (committedToOtherValue): in every behaviour,
\* however many hubs, views and suspended handlers.
THEOREM CommitsHold == XSpec => CommitHolds
<1>1. XInit => XInv
  BY XInitInv
<1>2. XInv /\ [XNext]_xvars => XInv'
  BY XStepInv
<1> DEFINE Kept == \A h \in Hubs : scenario.restamp = "none" /\ Committed(h) =>
                      LET o == rounds'[h][live[h]]
                      IN  \/ o.row = Live(h).row \/ o.final
                          \/ \E t \in tasks[h] \ tasks'[h] :
                                t.kind = "rebind" /\ t.at = live[h] /\ o.row = t.msg.row
<1>3. XInv /\ [XNext]_xvars => [Kept]_xvars
  <2> SUFFICES ASSUME XInv, XNext, NEW h \in Hubs, scenario.restamp = "none", Committed(h)
               PROVE  KeepsRow(h)
    BY DEF KeepsRow
  <2>1. PICK k \in Hubs :
          \/ propose(k) \/ ProposeAlone(k) \/ FinalizeAlone(k) \/ broadcastPropose(k)
          \/ handlePropose(k) \/ Validated(k) \/ Rebound(k)
          \/ handlePrepare(k) \/ handleCommit(k)
          \/ Timeout(k) \/ handleViewChange(k) \/ handleNewView(k) \/ RestampArrives(k)
          \/ handleFinalSync(k) \/ SyncRebound(k)
          \/ AwaitFails(k) \/ Abandon(k) \/ forgetFinalized(k) \/ EvictFinalized(k)
          \/ Cleanup(k) \/ Restart(k)
    BY DEF XNext
  <2>2. CommitStep(k)
    BY <2>1, OpensCommit, SignsCommit, ValidatedCommit, ReboundCommit, VotesCommit,
       ViewsCommit, RestampCommit, SyncsCommit, OthersCommit
  <2>3. HasRound(h) /\ Live(h).commitSent
    BY DEF Committed, HasRound
  <2>4. CASE k = h
    BY <2>2, <2>3, <2>4 DEF CommitStep
  <2>5. CASE k # h
    BY <2>2, <2>5 DEF CommitStep, KeepsRow, Live
  <2> QED BY <2>4, <2>5
<1>4. XSpec => [][Kept]_xvars
  BY <1>1, <1>2, <1>3, PTL DEF XSpec
<1> QED BY <1>4 DEF CommitHolds
=============================================================================
