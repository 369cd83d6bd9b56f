------------------------- MODULE OracleRoundsProofs -------------------------
(***************************************************************************)
(* The proof stored with an oracle round is one, for any number of hubs,   *)
(* any leader, submissions, heights, timers and faults:                    *)
(*                                                                         *)
(*   SignaturesAreGenuine   each signature was made over the stored        *)
(*                          payload, in every behaviour                    *)
(*   StoredProofsHold       and they are a quorum, unless the price write  *)
(*                          fails as often as it is tried                  *)
(*                                                                         *)
(* A payload passes through proposals, votes, rounds that are overwritten, *)
(* and stores that outlive their round.  The invariant speaks of all of    *)
(* them in terms of `signed`, the payloads a hub ever signed, which a      *)
(* shutdown does not take back.                                            *)
(***************************************************************************)
EXTENDS OracleRounds, FiniteSetTheorems, TLAPS

\* What each hub has signed.
Ledger == [h \in OHubs |-> hub[h].signed]

\* In the following S is such a ledger.

\* The signatures of the hubs in proof over payload were made.
Genuine(S, payload, proof) == \A i \in proof : i \in DOMAIN S /\ payload \in S[i]

MsgOK(S, m) ==
    /\ m.type \in {"PROPOSE", "PREPARE", "COMMIT"}
    /\ m.from \in DOMAIN S /\ m.payload \in S[m.from]

MsgsOK(S, msgs) == \A m \in msgs : MsgOK(S, m)

\* A round a hub has open, under a payload that it signed itself.
RoundFields == {"payload", "prepares", "commits", "sigs", "sent", "final", "timer"}

RoundOK(S, h, p) ==
    /\ p = [f \in RoundFields |-> p[f]]
    /\ p.payload \in S[h]
    /\ Genuine(S, p.payload, p.sigs)

StoreShape(s) == s = [f \in {"payload", "proof", "attempt", "gap"} |-> s[f]]

StoresOK(S, stores) == \A s \in stores : StoreShape(s) /\ Genuine(S, s.payload, s.proof)

RowOK(S, row) == row # None /\ row.status = "finalized" => Genuine(S, row.payload, row.proof)

TaskShape(t) == t = [f \in {"msg", "locks", "stage"} |-> t[f]]

TasksOK(S, tasks) == \A t \in tasks : TaskShape(t) /\ MsgOK(S, t.msg)

HubFields ==
    {"seat", "view", "draft", "ready", "fallback", "round", "orphan", "stores", "early", "tasks",
     "finalized", "skipped", "watchdog", "skips", "row", "up", "signed"}

HubOK(S, h, c) ==
    /\ c = [f \in HubFields |-> c[f]]
    /\ c.signed = S[h]
    /\ c.round # None => RoundOK(S, h, c.round)
    /\ StoresOK(S, c.stores)
    /\ RowOK(S, c.row)
    /\ MsgsOK(S, c.early)
    /\ TasksOK(S, c.tasks)

HubsInv == hub = [h \in OHubs |-> hub[h]] /\ \A h \in OHubs : HubOK(Ledger, h, hub[h])

InboxInv == \A h \in OHubs : MsgsOK(Ledger, inbox[h])

SignInv == HubsInv /\ InboxInv /\ DOMAIN inbox = OHubs

-----------------------------------------------------------------------------

\* Nothing has been signed and nothing rests on it.
LEMMA InitSignInv == OInit => SignInv
<1> SUFFICES ASSUME OInit PROVE SignInv
  OBVIOUS
<1>1. OHubs = DOMAIN setting.views /\ \A h \in OHubs : hub[h] = InitialHub(setting.views[h])
  BY DEF OInit, OHubs
<1>2. ASSUME NEW h \in OHubs PROVE HubOK(Ledger, h, hub[h])
  <2> DEFINE c == InitialHub(setting.views[h])
  <2>1. /\ c = [f \in HubFields |-> c[f]] /\ c.signed = {} /\ c.round = None
        /\ c.stores = {} /\ c.row = None /\ c.early = {} /\ c.tasks = {}
    BY DEF InitialHub, HubFields
  <2>2. hub[h] = c
    BY <1>1
  <2> HIDE DEF c
  <2>3. Ledger[h] = {}
    BY <2>1, <2>2 DEF Ledger
  <2> QED
    BY <2>1, <2>2, <2>3 DEF HubOK, StoresOK, RowOK, MsgsOK, TasksOK
<1>3. inbox = [h \in OHubs |-> {}]
  BY <1>1 DEF OInit
<1> QED
  BY <1>1, <1>2, <1>3 DEF OInit, SignInv, HubsInv, InboxInv, MsgsOK, OHubs

\* T is S with what more has been signed since.
Grows(S, T) == DOMAIN T = DOMAIN S /\ \A i \in DOMAIN S : S[i] \subseteq T[i]

\* Signatures are not taken back.
LEMMA GenuineStays ==
    ASSUME NEW S, NEW T, Grows(S, T)
    PROVE  /\ \A p, proof : Genuine(S, p, proof) => Genuine(T, p, proof)
           /\ \A msgs : MsgsOK(S, msgs) => MsgsOK(T, msgs)
           /\ \A stores : StoresOK(S, stores) => StoresOK(T, stores)
           /\ \A row : RowOK(S, row) => RowOK(T, row)
           /\ \A tasks : TasksOK(S, tasks) => TasksOK(T, tasks)
           /\ \A h \in DOMAIN S : \A p : RoundOK(S, h, p) => RoundOK(T, h, p)
<1>1. \A p, proof : Genuine(S, p, proof) => Genuine(T, p, proof)
  BY DEF Grows, Genuine
<1>2. \A m : MsgOK(S, m) => MsgOK(T, m)
  BY DEF Grows, MsgOK
<1>3. \A h \in DOMAIN S : \A p : RoundOK(S, h, p) => RoundOK(T, h, p)
  BY <1>1 DEF Grows, RoundOK
<1>4. \A msgs : MsgsOK(S, msgs) => MsgsOK(T, msgs)
  BY <1>2 DEF MsgsOK
<1>5. \A stores : StoresOK(S, stores) => StoresOK(T, stores)
  BY <1>1 DEF StoresOK
<1>6. \A row : RowOK(S, row) => RowOK(T, row)
  BY <1>1 DEF RowOK
<1>7. \A tasks : TasksOK(S, tasks) => TasksOK(T, tasks)
  BY <1>2 DEF TasksOK
<1> QED
  BY <1>1, <1>3, <1>4, <1>5, <1>6, <1>7

-----------------------------------------------------------------------------
(***************************************************************************)
(* The steps of a hub.                                                     *)
(***************************************************************************)

\* Hub h has signed more, the others have not.
Adds(S, h, T) ==
    /\ T = [i \in DOMAIN S |-> T[i]]
    /\ \A i \in DOMAIN S : i # h => T[i] = S[i]
    /\ S[h] \subseteq T[h]

ResultOK(S, h, r) == HubOK(S, h, r.hub) /\ MsgsOK(S, r.sent) /\ MsgsOK(S, r.replayed)

\* What a step makes of hub h rests on what was signed by then.
Fine(h, r) == \E T : Adds(Ledger, h, T) /\ ResultOK(T, h, r)

\* A step that signs nothing.
LEMMA FineQuietly ==
    ASSUME NEW h \in OHubs, NEW r, ResultOK(Ledger, h, r)
    PROVE  Fine(h, r)
<1>1. Adds(Ledger, h, Ledger)
  BY DEF Adds, Ledger
<1> QED
  BY <1>1 DEF Fine

\* Becoming c, with nothing sent.
LEMMA FineBecomes ==
    ASSUME NEW h \in OHubs, NEW c, HubOK(Ledger, h, c)
    PROVE  Fine(h, Becomes(c))
<1>1. ResultOK(Ledger, h, Becomes(c))
  BY DEF ResultOK, Becomes, Result, MsgsOK
<1> QED
  BY <1>1, FineQuietly

\* What hub h becomes replaces what it was; the other hubs are as good as before.
LEMMA HubReplaced ==
    ASSUME SignInv, NEW h \in OHubs, NEW T, Adds(Ledger, h, T), NEW c, HubOK(T, h, c),
           hub' = [hub EXCEPT ![h] = c]
    PROVE  HubsInv' /\ Ledger' = T /\ OHubs' = OHubs /\ Grows(Ledger, T)
<1>1. OHubs' = OHubs /\ \A i \in OHubs : hub'[i] = IF i = h THEN c ELSE hub[i]
  BY DEF OHubs
<1>2. DOMAIN Ledger = OHubs /\ DOMAIN T = OHubs /\ \A i \in OHubs : Ledger[i] = hub[i].signed
  BY DEF Ledger, Adds
<1>3. Grows(Ledger, T)
  BY <1>2 DEF Grows, Adds
<1>4. \A i \in OHubs : hub'[i].signed = T[i]
  BY <1>1, <1>2 DEF Adds, HubOK
<1>5. Ledger' = T
  BY <1>1, <1>2, <1>4 DEF Ledger, Adds
<1>6. ASSUME NEW i \in OHubs PROVE HubOK(T, i, hub'[i])
  <2>1. CASE i = h
    BY <1>1, <2>1
  <2>2. CASE i # h
    <3>1. HubOK(Ledger, i, hub[i])
      BY DEF SignInv, HubsInv
    <3>2. T[i] = Ledger[i]
      BY <2>2, <1>2 DEF Adds
    <3>3. HubOK(T, i, hub[i])
      BY <3>1, <3>2, <1>2, <1>3, GenuineStays DEF HubOK
    <3> QED
      BY <3>3, <2>2, <1>1
  <2> QED
    BY <2>1, <2>2
<1>7. hub' = [i \in OHubs' |-> hub'[i]]
  BY DEF OHubs
<1>8. HubsInv'
  BY <1>1, <1>5, <1>6, <1>7 DEF HubsInv
<1> QED
  BY <1>1, <1>3, <1>5, <1>8

\* A step of a handler, a continuation or a timer.
LEMMA DoesKeeps ==
    ASSUME SignInv, NEW h \in OHubs, NEW r, NEW taken, Does(h, r, taken), Fine(h, r)
    PROVE  SignInv'
<1>1. PICK T : Adds(Ledger, h, T) /\ ResultOK(T, h, r)
  BY DEF Fine
<1>2. HubsInv' /\ Ledger' = T /\ OHubs' = OHubs /\ Grows(Ledger, T)
  <2>1. HubOK(T, h, r.hub) /\ hub' = [hub EXCEPT ![h] = r.hub]
    BY <1>1 DEF ResultOK, Does
  <2> QED
    BY <1>1, <2>1, HubReplaced
<1>3. ASSUME NEW i \in OHubs PROVE MsgsOK(T, inbox'[i])
  <2>1. MsgsOK(T, inbox[i])
    BY <1>2, GenuineStays DEF SignInv, InboxInv
  <2>2. inbox'[i] \subseteq inbox[i] \cup r.sent \cup r.replayed
    BY DEF Does
  <2> QED
    BY <2>1, <2>2, <1>1 DEF ResultOK, MsgsOK
<1>4. InboxInv' /\ DOMAIN inbox' = OHubs'
  BY <1>2, <1>3 DEF InboxInv, Does
<1> QED
  BY <1>2, <1>4 DEF SignInv

\* A step that fails.
LEMMA FailsKeeps ==
    ASSUME SignInv, NEW h \in OHubs, NEW k, NEW c, Fails(k, h, c), HubOK(Ledger, h, c)
    PROVE  SignInv'
<1>1. Adds(Ledger, h, Ledger)
  BY DEF Adds, Ledger
<1>2. HubsInv' /\ Ledger' = Ledger /\ OHubs' = OHubs
  BY <1>1, HubReplaced DEF Fails
<1>3. inbox' = inbox
  BY DEF Fails
<1> QED
  BY <1>2, <1>3 DEF SignInv, InboxInv

\* A hub that gives up its round, or parts of what it holds, or changes what no
\* signature depends on.
LEMMA Kept ==
    ASSUME NEW S, NEW h, NEW c, HubOK(S, h, c), NEW d, d = [f \in HubFields |-> d[f]],
           d.signed = c.signed, d.round \in {c.round, None}, d.stores \subseteq c.stores,
           d.row = c.row, d.early \subseteq c.early, d.tasks \subseteq c.tasks
    PROVE  HubOK(S, h, d)
  BY DEF HubOK, StoresOK, MsgsOK, TasksOK

\* An open round takes the place of the one there was.
LEMMA RoundReplaced ==
    ASSUME NEW S, NEW h, NEW c, HubOK(S, h, c), NEW p, p = None \/ RoundOK(S, h, p)
    PROVE  HubOK(S, h, [c EXCEPT !.round = p])
<1> DEFINE d == [c EXCEPT !.round = p]
<1>1. /\ d = [f \in HubFields |-> d[f]] /\ d.signed = c.signed /\ d.round = p
      /\ d.stores = c.stores /\ d.row = c.row /\ d.early = c.early /\ d.tasks = c.tasks
  BY DEF HubOK, HubFields
<1> HIDE DEF d
<1>2. HubOK(S, h, d)
  BY <1>1 DEF HubOK
<1> QED
  BY <1>2 DEF d

\* A committed round goes to the store with the signatures it holds.
LEMMA CheckCommitKeeps ==
    ASSUME NEW S, NEW h, NEW c, HubOK(S, h, c)
    PROVE  HubOK(S, h, checkCommitQuorum(c))
<1>1. CASE c.round = None \/ c.round.final \/ ~quorumMet(c.round, c.round.commits)
  BY <1>1 DEF checkCommitQuorum
<1>2. CASE ~(c.round = None \/ c.round.final \/ ~quorumMet(c.round, c.round.commits))
  <2> DEFINE s == [payload |-> c.round.payload, proof |-> c.round.sigs, attempt |-> 1, gap |-> FALSE]
             d == [c EXCEPT !.round.final = TRUE, !.round.timer = "off", !.stores = @ \cup {s}]
  <2>1. checkCommitQuorum(c) = d
    BY <1>2 DEF checkCommitQuorum
  <2>2. RoundOK(S, h, c.round) /\ c = [f \in HubFields |-> c[f]]
    BY <1>2 DEF HubOK
  <2>3. /\ d = [f \in HubFields |-> d[f]] /\ d.signed = c.signed
        /\ d.stores = c.stores \cup {s} /\ d.row = c.row /\ d.early = c.early /\ d.tasks = c.tasks
    BY <2>2 DEF HubFields
  <2>4. /\ d.round = [f \in RoundFields |-> d.round[f]]
        /\ d.round.payload = c.round.payload /\ d.round.sigs = c.round.sigs
    <3>1. d.round = [[c.round EXCEPT !.final = TRUE] EXCEPT !.timer = "off"]
      BY <2>2 DEF HubFields
    <3>2. c.round = [f \in RoundFields |-> c.round[f]]
      BY <2>2 DEF RoundOK
    <3> HIDE DEF d
    <3> QED
      BY <3>1, <3>2 DEF RoundFields
  <2>5. s.payload = c.round.payload /\ s.proof = c.round.sigs /\ StoreShape(s)
    BY DEF StoreShape
  <2> HIDE DEF d, s
  <2>6. RoundOK(S, h, d.round)
    BY <2>2, <2>4 DEF RoundOK
  <2>7. StoresOK(S, d.stores)
    BY <2>2, <2>3, <2>5 DEF RoundOK, StoresOK, HubOK
  <2> QED
    BY <2>1, <2>3, <2>6, <2>7 DEF HubOK
<1> QED
  BY <1>1, <1>2

\* After a vote: the hub's own COMMIT goes out when the round has its prepares.
LEMMA PreparedKeeps ==
    ASSUME NEW S, NEW h \in DOMAIN S, NEW c, HubOK(S, h, c),
           NEW sent, MsgsOK(S, sent), NEW replayed, MsgsOK(S, replayed)
    PROVE  ResultOK(S, h, Prepared(h, c, sent, replayed))
<1>1. CASE ~SendsCommit(c)
  <2>1. Prepared(h, c, sent, replayed) = Result(c, sent \cup {}, replayed)
    BY <1>1 DEF Prepared, checkPrepareQuorum, CommitOf
  <2> QED
    BY <2>1 DEF ResultOK, Result
<1>2. CASE SendsCommit(c)
  <2> DEFINE p == [c.round EXCEPT !.sent = TRUE, !.commits = @ \cup {h}, !.sigs = @ \cup {h}]
             m == [type |-> "COMMIT", from |-> h, payload |-> c.round.payload]
             d == [c EXCEPT !.round = p]
  <2>1. RoundOK(S, h, c.round) /\ c = [f \in HubFields |-> c[f]]
    BY <1>2 DEF HubOK, SendsCommit
  <2>2. p = [f \in RoundFields |-> p[f]] /\ p.payload = c.round.payload /\ p.sigs = c.round.sigs \cup {h}
    BY <2>1 DEF RoundOK, RoundFields
  <2>3. [c EXCEPT !.round.sent = TRUE, !.round.commits = @ \cup {h}, !.round.sigs = @ \cup {h}] = d
    BY <2>1 DEF RoundOK, RoundFields, HubFields
  <2>4. RoundOK(S, h, p)
    <3> HIDE DEF p
    <3> QED BY <2>1, <2>2 DEF RoundOK, Genuine
  <2>5. HubOK(S, h, d)
    <3> HIDE DEF p
    <3> QED BY <2>4, RoundReplaced
  <2>6. MsgOK(S, m)
    BY <2>1 DEF MsgOK, RoundOK
  <2>7. Prepared(h, c, sent, replayed) = Result(checkCommitQuorum(d), sent \cup {m}, replayed)
    BY <1>2, <2>3 DEF Prepared, checkPrepareQuorum, CommitOf
  <2> HIDE DEF d, m
  <2>8. HubOK(S, h, checkCommitQuorum(d))
    BY <2>5, CheckCommitKeeps
  <2>9. MsgsOK(S, sent \cup {m})
    BY <2>6 DEF MsgsOK
  <2> QED
    BY <2>7, <2>8, <2>9 DEF ResultOK, Result
<1> QED
  BY <1>1, <1>2

-----------------------------------------------------------------------------
(***************************************************************************)
(* Signing, as proposer, follower or only member.                          *)
(***************************************************************************)

\* The ledger once hub h has signed payload.
Signing(h, payload) == [Ledger EXCEPT ![h] = @ \cup {payload}]

\* Signing adds one payload to the ledger of one hub.
LEMMA SigningAdds ==
    ASSUME NEW h \in OHubs, NEW payload
    PROVE  /\ Adds(Ledger, h, Signing(h, payload)) /\ Grows(Ledger, Signing(h, payload))
           /\ Signing(h, payload)[h] = Ledger[h] \cup {payload}
           /\ h \in DOMAIN Ledger /\ DOMAIN Signing(h, payload) = DOMAIN Ledger
  BY DEF Signing, Adds, Grows, Ledger

\* A hub that signs payload, and what it holds then.
LEMMA SignerOK ==
    ASSUME NEW h \in OHubs, NEW c, HubOK(Ledger, h, c), NEW payload, NEW d,
           d = [f \in HubFields |-> d[f]], d.signed = c.signed \cup {payload},
           \/ d.round = c.round
           \/ RoundOK(Signing(h, payload), h, d.round),
           \/ d.row = c.row
           \/ RowOK(Signing(h, payload), d.row),
           \/ d.stores = c.stores
           \/ StoresOK(Signing(h, payload), d.stores),
           d.early \subseteq c.early, d.tasks \subseteq c.tasks
    PROVE  HubOK(Signing(h, payload), h, d)
<1> DEFINE T == Signing(h, payload)
<1>1. Grows(Ledger, T) /\ T[h] = Ledger[h] \cup {payload} /\ h \in DOMAIN Ledger
  BY SigningAdds
<1> HIDE DEF T
<1>2. /\ StoresOK(T, c.stores) /\ RowOK(T, c.row) /\ MsgsOK(T, c.early) /\ TasksOK(T, c.tasks)
      /\ c.round # None => RoundOK(T, h, c.round)
  BY <1>1, GenuineStays DEF HubOK
<1>3. d.signed = T[h]
  BY <1>1 DEF HubOK
<1>4. MsgsOK(T, d.early) /\ TasksOK(T, d.tasks)
  BY <1>2 DEF MsgsOK, TasksOK
<1>5. (d.round # None => RoundOK(T, h, d.round)) /\ RowOK(T, d.row) /\ StoresOK(T, d.stores)
  BY <1>2 DEF T
<1>6. HubOK(T, h, d)
  BY <1>2, <1>3, <1>4, <1>5 DEF HubOK
<1> QED
  BY <1>6 DEF T

\* A round of the signed payload with the signatures of its proposer and signer.
LEMMA FreshRoundOK ==
    ASSUME NEW h \in OHubs, NEW payload, NEW p, p = [f \in RoundFields |-> p[f]],
           p.payload = payload, \A i \in p.sigs : i = h \/ (i \in OHubs /\ payload \in Ledger[i])
    PROVE  RoundOK(Signing(h, payload), h, p)
<1>1. DOMAIN Ledger = OHubs
  BY DEF Ledger
<1>2. /\ Grows(Ledger, Signing(h, payload)) /\ payload \in Signing(h, payload)[h]
      /\ DOMAIN Signing(h, payload) = OHubs
  BY <1>1, SigningAdds
<1> QED
  BY <1>1, <1>2 DEF RoundOK, Genuine, Grows

\* openLeaderRound, over whatever the hub had open (propose.js).
LEMMA OpensLeaderFine ==
    ASSUME NEW h \in OHubs, NEW c, HubOK(Ledger, h, c)
    PROVE  Fine(h, OpensLeaderRound(h, c))
<1> DEFINE payload == PayloadOf(h, c.draft)
           p == [NewRound(payload, "lead") EXCEPT !.prepares = {h}, !.sigs = {h}]
           d == [c EXCEPT !.round = p,
                          !.orphan = IF c.round = None THEN @ ELSE @ \cup ({c.round.timer} \ {"off"}),
                          !.early = {}, !.draft = {}, !.signed = @ \cup {payload}]
           m == [type |-> "PROPOSE", from |-> h, payload |-> payload]
           T == Signing(h, payload)
<1>1. OpensLeaderRound(h, c) = Prepared(h, d, {m}, c.early)
  BY DEF OpensLeaderRound
<1>2. p = [f \in RoundFields |-> p[f]] /\ p.payload = payload /\ p.sigs = {h}
  BY DEF NewRound, RoundFields
<1>3. m.type = "PROPOSE" /\ m.from = h /\ m.payload = payload
  OBVIOUS
<1>4. /\ d = [f \in HubFields |-> d[f]] /\ d.signed = c.signed \cup {payload} /\ d.round = p
      /\ d.stores = c.stores /\ d.row = c.row /\ d.early = {} /\ d.tasks = c.tasks
  <2> HIDE DEF p, payload
  <2> QED BY DEF HubOK, HubFields
<1> HIDE DEF payload, p, d, m
<1>5. RoundOK(T, h, p)
  BY <1>2, FreshRoundOK
<1>6. HubOK(T, h, d)
  BY <1>4, <1>5, SignerOK
<1>7. /\ Adds(Ledger, h, T) /\ Grows(Ledger, T) /\ T[h] = Ledger[h] \cup {payload}
      /\ h \in DOMAIN T
  BY SigningAdds
<1>8. MsgsOK(T, {m})
  BY <1>3, <1>7 DEF MsgsOK, MsgOK
<1>9. MsgsOK(T, c.early)
  BY <1>7, GenuineStays DEF HubOK
<1>10. ResultOK(T, h, Prepared(h, d, {m}, c.early))
  BY <1>6, <1>7, <1>8, <1>9, PreparedKeeps
<1> QED
  BY <1>1, <1>7, <1>10 DEF Fine

\* proposeRound (propose.js).
LEMMA ProposesFine ==
    ASSUME NEW h \in OHubs, NEW c, HubOK(Ledger, h, c)
    PROVE  Fine(h, ProposesFrom(h, c))
<1> DEFINE d == [c EXCEPT !.draft = PricesOf(c.view)]
           skip == [c EXCEPT !.skips = @ \cup {"plain"}]
           proposing == [d EXCEPT !.seat = "proposing"]
<1>1. HubOK(Ledger, h, d) /\ HubOK(Ledger, h, skip)
  <2>1. /\ d = [f \in HubFields |-> d[f]] /\ d.signed = c.signed /\ d.round = c.round
        /\ d.stores = c.stores /\ d.row = c.row /\ d.early = c.early /\ d.tasks = c.tasks
    BY DEF HubOK, HubFields
  <2>2. /\ skip = [f \in HubFields |-> skip[f]] /\ skip.signed = c.signed /\ skip.round = c.round
        /\ skip.stores = c.stores /\ skip.row = c.row /\ skip.early = c.early /\ skip.tasks = c.tasks
    BY DEF HubOK, HubFields
  <2> HIDE DEF d, skip
  <2> QED BY <2>1, <2>2, Kept
<1>2. HubOK(Ledger, h, proposing)
  <2> HIDE DEF d
  <2>1. /\ proposing = [f \in HubFields |-> proposing[f]] /\ proposing.signed = d.signed
        /\ proposing.round = d.round /\ proposing.stores = d.stores /\ proposing.row = d.row
        /\ proposing.early = d.early /\ proposing.tasks = d.tasks
    BY <1>1 DEF HubOK, HubFields
  <2> HIDE DEF proposing
  <2> QED BY <2>1, <1>1, Kept
<1>3. ProposesFrom(h, c) \in {Becomes(skip), Becomes(proposing), OpensLeaderRound(h, d)}
  BY DEF ProposesFrom
<1> HIDE DEF d, skip, proposing
<1> QED
  BY <1>1, <1>2, <1>3, FineBecomes, OpensLeaderFine

\* The watchdog, and tracking, are no concern of signatures.
LEMMA WatchedOK ==
    ASSUME NEW S, NEW h, NEW c, HubOK(S, h, c)
    PROVE  HubOK(S, h, Watched(c)) /\ HubOK(S, h, Untracked(c))
<1> DEFINE d == [c EXCEPT !.watchdog = 0]
           u == [c EXCEPT !.ready = "no", !.fallback = "off", !.watchdog = None]
<1>1. /\ d = [f \in HubFields |-> d[f]] /\ d.signed = c.signed /\ d.round = c.round
      /\ d.stores = c.stores /\ d.row = c.row /\ d.early = c.early /\ d.tasks = c.tasks
  BY DEF HubOK, HubFields
<1>2. /\ u = [f \in HubFields |-> u[f]] /\ u.signed = c.signed /\ u.round = c.round
      /\ u.stores = c.stores /\ u.row = c.row /\ u.early = c.early /\ u.tasks = c.tasks
  BY DEF HubOK, HubFields
<1>3. Watched(c) \in {c, d} /\ Untracked(c) = u
  BY DEF Watched, Untracked
<1> HIDE DEF d, u
<1> QED
  BY <1>1, <1>2, <1>3, Kept

\* A lone hub signs its draft and stores it (finalize_round.js).
LEMMA AloneFine ==
    ASSUME NEW h \in OHubs, NEW c, HubOK(Ledger, h, c)
    PROVE  Fine(h, Becomes(SignsAlone(h, c)))
<1> DEFINE payload == PayloadOf(h, c.draft)
           T == Signing(h, payload)
           s == [payload |-> payload, proof |-> {h}, attempt |-> 1, gap |-> FALSE]
           d == [c EXCEPT !.draft = {}, !.signed = @ \cup {payload}, !.stores = @ \cup {s}]
<1>1. SignsAlone(h, c) = d
  BY DEF SignsAlone
<1>2. StoreShape(s) /\ s.payload = payload /\ s.proof = {h}
  BY DEF StoreShape
<1>3. /\ d = [f \in HubFields |-> d[f]] /\ d.signed = c.signed \cup {payload} /\ d.round = c.round
      /\ d.stores = c.stores \cup {s} /\ d.row = c.row /\ d.early = c.early /\ d.tasks = c.tasks
  <2> HIDE DEF s, payload
  <2> QED BY DEF HubOK, HubFields
<1> HIDE DEF s, d, payload
<1>4. /\ Adds(Ledger, h, T) /\ Grows(Ledger, T) /\ T[h] = Ledger[h] \cup {payload}
      /\ h \in DOMAIN T
  BY SigningAdds
<1>5. StoresOK(T, d.stores)
  <2>1. StoresOK(T, c.stores)
    BY <1>4, GenuineStays DEF HubOK
  <2>2. Genuine(T, s.payload, s.proof)
    BY <1>2, <1>4 DEF Genuine
  <2> QED
    BY <1>2, <1>3, <2>1, <2>2 DEF StoresOK
<1>6. HubOK(T, h, d)
  BY <1>3, <1>5, SignerOK
<1>7. ResultOK(T, h, Becomes(d))
  BY <1>6 DEF ResultOK, Becomes, Result, MsgsOK
<1> QED
  BY <1>1, <1>4, <1>7 DEF Fine

\* The only member's round, skipped, read for or signed (finalize_round.js).
LEMMA SoloFine ==
    ASSUME NEW h \in OHubs, NEW c, HubOK(Ledger, h, c)
    PROVE  Fine(h, Becomes(finalizeSoloRound(h, c)))
<1> DEFINE d == [c EXCEPT !.draft = PricesOf(c.view)]
           skip == [c EXCEPT !.skips = @ \cup {"plain"}]
           proposing == [d EXCEPT !.seat = "proposing"]
<1>1. finalizeSoloRound(h, c) \in {skip, proposing, SignsAlone(h, d)}
  BY DEF finalizeSoloRound
<1>2. HubOK(Ledger, h, skip) /\ HubOK(Ledger, h, d)
  <2>1. /\ skip = [f \in HubFields |-> skip[f]] /\ skip.signed = c.signed /\ skip.round = c.round
        /\ skip.stores = c.stores /\ skip.row = c.row /\ skip.early = c.early /\ skip.tasks = c.tasks
    BY DEF HubOK, HubFields
  <2>2. /\ d = [f \in HubFields |-> d[f]] /\ d.signed = c.signed /\ d.round = c.round
        /\ d.stores = c.stores /\ d.row = c.row /\ d.early = c.early /\ d.tasks = c.tasks
    BY DEF HubOK, HubFields
  <2> HIDE DEF skip, d
  <2> QED BY <2>1, <2>2, Kept
<1>3. HubOK(Ledger, h, proposing)
  <2> HIDE DEF d
  <2>1. /\ proposing = [f \in HubFields |-> proposing[f]] /\ proposing.signed = d.signed
        /\ proposing.round = d.round /\ proposing.stores = d.stores /\ proposing.row = d.row
        /\ proposing.early = d.early /\ proposing.tasks = d.tasks
    BY <1>2 DEF HubOK, HubFields
  <2> HIDE DEF proposing
  <2> QED BY <2>1, <1>2, Kept
<1> HIDE DEF skip, d, proposing
<1> QED
  BY <1>1, <1>2, <1>3, FineBecomes, AloneFine

\* Taking the seat of leader, fallback or follower (seats.js).
LEMMA SeatFine ==
    ASSUME NEW h \in OHubs, NEW c, HubOK(Ledger, h, c)
    PROVE  Fine(h, takeSeat(h, c))
<1> DEFINE w == Watched(c)
           a == AwaitsLeader(h, w)
<1>1. HubOK(Ledger, h, w)
  BY WatchedOK
<1>2. takeSeat(h, c) \in {Becomes(finalizeSoloRound(h, c)), ProposesFrom(h, w), Becomes(a)}
  BY DEF takeSeat
<1> HIDE DEF w
<1>3. HubOK(Ledger, h, a)
  <2>1. /\ a = [f \in HubFields |-> a[f]] /\ a.signed = w.signed /\ a.round = w.round
        /\ a.stores = w.stores /\ a.row = w.row /\ a.early = w.early /\ a.tasks = w.tasks
    BY <1>1 DEF HubOK, HubFields, AwaitsLeader
  <2> HIDE DEF a
  <2> QED BY <1>1, <2>1, Kept
<1> HIDE DEF a
<1> QED
  BY <1>1, <1>2, <1>3, SoloFine, ProposesFine, FineBecomes

\* prepareOnPropose: a follower opens a round and signs it (follower_round.js).
LEMMA CoSignFine ==
    ASSUME NEW h \in OHubs, NEW c, HubOK(Ledger, h, c), NEW t, MsgOK(Ledger, t.msg)
    PROVE  Fine(h, bindAndCoSign(h, c, t))
<1> DEFINE payload == t.msg.payload
           o == Opened(c, t)
           drained == IF o.round # c.round THEN c.early ELSE {}
           fresh == NewRound(payload, "follow")
           e == [c EXCEPT !.round = fresh, !.early = {}]
           sigs == verifyAndStoreSig(o.round, t.msg) \cup {h}
           voted == [o EXCEPT !.round.prepares = @ \cup {h, t.msg.from}, !.round.sigs = sigs,
                              !.signed = @ \cup {o.round.payload}]
           m == [type |-> "PREPARE", from |-> h, payload |-> o.round.payload]
<1>1. MsgsOK(Ledger, drained)
  BY DEF HubOK, MsgsOK
<1>2. CASE o = c
  <2>1. bindAndCoSign(h, c, t) = Result(c, {}, {}) \/
        /\ c.round # None
        /\ bindAndCoSign(h, c, t) = Result(o, {}, drained)
    BY <1>2 DEF bindAndCoSign
  <2>2. ResultOK(Ledger, h, Result(c, {}, {})) /\ ResultOK(Ledger, h, Result(o, {}, drained))
    BY <1>1, <1>2 DEF ResultOK, Result, MsgsOK
  <2> QED
    BY <2>1, <2>2, FineQuietly
<1>3. CASE c.round = None /\ o = Watched(e)
  <2>1. /\ fresh = [f \in RoundFields |-> fresh[f]] /\ fresh.payload = payload /\ fresh.sigs = {}
    BY DEF NewRound, RoundFields
  <2>2. /\ o = [f \in HubFields |-> o[f]] /\ o.signed = c.signed /\ o.round = fresh
        /\ o.stores = c.stores /\ o.row = c.row /\ o.early = {} /\ o.tasks = c.tasks
    <3> HIDE DEF fresh, o
    <3>1. /\ e = [f \in HubFields |-> e[f]] /\ e.signed = c.signed /\ e.round = fresh
          /\ e.stores = c.stores /\ e.row = c.row /\ e.early = {} /\ e.tasks = c.tasks
      BY DEF HubOK, HubFields
    <3> HIDE DEF e
    <3> QED BY <3>1, <1>3 DEF Watched, HubFields
  <2>3. CASE fresh = None
    <3>1. bindAndCoSign(h, c, t) = Result(o, {}, drained)
      <4>1. o.round = None
        BY <2>2, <2>3
      <4> QED BY <4>1, <1>3 DEF bindAndCoSign
    <3> HIDE DEF o, fresh, drained
    <3>2. HubOK(Ledger, h, o)
      BY <2>2, <2>3, Kept
    <3>3. ResultOK(Ledger, h, Result(o, {}, drained))
      BY <1>1, <3>2 DEF ResultOK, Result, MsgsOK
    <3> QED
      BY <3>1, <3>3, FineQuietly
  <2>4. CASE fresh # None
    <3>1. bindAndCoSign(h, c, t) = Prepared(h, voted, {m}, drained)
      <4>1. o.round # None /\ o.round.payload = payload
        BY <2>1, <2>2, <2>4
      <4> QED BY <4>1, <1>3 DEF bindAndCoSign
    <3>2. \A i \in sigs : i = h \/ (i \in OHubs /\ payload \in Ledger[i])
      BY <2>1, <2>2 DEF verifyAndStoreSig, MsgOK, Ledger
    <3>3. m.type = "PREPARE" /\ m.from = h /\ m.payload = payload
      BY <2>1, <2>2
    <3> HIDE DEF o, sigs
    <3>4. /\ voted = [f \in HubFields |-> voted[f]] /\ voted.signed = c.signed \cup {payload}
          /\ voted.stores = c.stores /\ voted.row = c.row /\ voted.early = {}
          /\ voted.tasks = c.tasks
          /\ voted.round = [[o.round EXCEPT !.prepares = @ \cup {h, t.msg.from}] EXCEPT !.sigs = sigs]
      <4> HIDE DEF fresh
      <4> QED BY <2>1, <2>2 DEF HubFields
    <3> HIDE DEF voted, fresh
    <3>5. /\ voted.round = [f \in RoundFields |-> voted.round[f]]
          /\ voted.round.payload = payload /\ voted.round.sigs = sigs
      BY <2>1, <2>2, <3>4 DEF RoundFields
    <3> HIDE DEF m, drained, payload
    <3>6. RoundOK(Signing(h, payload), h, voted.round)
      BY <3>2, <3>5, FreshRoundOK
    <3>7. HubOK(Signing(h, payload), h, voted)
      BY <3>4, <3>6, SignerOK
    <3>8. /\ Adds(Ledger, h, Signing(h, payload)) /\ Grows(Ledger, Signing(h, payload))
          /\ Signing(h, payload)[h] = Ledger[h] \cup {payload}
          /\ h \in DOMAIN Signing(h, payload)
      BY SigningAdds
    <3>9. MsgsOK(Signing(h, payload), {m}) /\ MsgsOK(Signing(h, payload), drained)
      BY <1>1, <3>3, <3>8, GenuineStays DEF MsgsOK, MsgOK
    <3>10. ResultOK(Signing(h, payload), h, Prepared(h, voted, {m}, drained))
      BY <3>7, <3>8, <3>9, PreparedKeeps
    <3> QED
      BY <3>1, <3>8, <3>10 DEF Fine
  <2> QED
    BY <2>3, <2>4
<1>4. o = c \/ (c.round = None /\ o = Watched(e))
  BY DEF Opened
<1> QED
  BY <1>2, <1>3, <1>4

\* The proposer and its prices are judged (handle_propose.js).
LEMMA JudgedFine ==
    ASSUME NEW h \in OHubs, NEW c, HubOK(Ledger, h, c), NEW t, MsgOK(Ledger, t.msg), TaskShape(t)
    PROVE  Fine(h, judgeProposer(h, c, t))
<1> DEFINE a == [t EXCEPT !.stage = "admit"]
           d == [c EXCEPT !.tasks = @ \cup {a}]
<1>1. a.msg = t.msg /\ TaskShape(a)
  BY DEF TaskShape
<1>2. judgeProposer(h, c, t) \in {Becomes(c), Becomes(d), bindAndCoSign(h, c, t)}
  BY DEF judgeProposer
<1> HIDE DEF a
<1>3. HubOK(Ledger, h, d)
  <2>1. /\ d = [f \in HubFields |-> d[f]] /\ d.signed = c.signed /\ d.round = c.round
        /\ d.stores = c.stores /\ d.row = c.row /\ d.early = c.early /\ d.tasks = c.tasks \cup {a}
    BY DEF HubOK, HubFields
  <2> HIDE DEF d
  <2> QED BY <1>1, <2>1 DEF HubOK, TasksOK
<1> HIDE DEF d
<1> QED
  BY <1>2, <1>3, FineBecomes, CoSignFine

-----------------------------------------------------------------------------
(***************************************************************************)
(* Messages.                                                               *)
(***************************************************************************)

\* A proposal, judged at once or once the snapshot is read.
LEMMA ProposeFine ==
    ASSUME SignInv, NEW h \in OHubs, NEW m, MsgOK(Ledger, m)
    PROVE  Fine(h, handlePropose(h, m))
<1> DEFINE t == [msg |-> m, locks |-> hub[h].round = None, stage |-> "snapshot"]
           c == hub[h]
           d == [c EXCEPT !.tasks = @ \cup {t}]
<1>1. HubOK(Ledger, h, c)
  BY DEF SignInv, HubsInv
<1>2. t.msg = m /\ TaskShape(t)
  BY DEF TaskShape
<1>3. handlePropose(h, m) \in {Becomes(c), Becomes(d), judgeProposer(h, c, t)}
  BY DEF handlePropose
<1> HIDE DEF t, c
<1>4. HubOK(Ledger, h, d)
  <2>1. /\ d = [f \in HubFields |-> d[f]] /\ d.signed = c.signed /\ d.round = c.round
        /\ d.stores = c.stores /\ d.row = c.row /\ d.early = c.early /\ d.tasks = c.tasks \cup {t}
    BY <1>1 DEF HubOK, HubFields
  <2> HIDE DEF d
  <2> QED BY <1>1, <1>2, <2>1 DEF HubOK, TasksOK
<1> HIDE DEF d
<1> QED
  BY <1>1, <1>2, <1>3, <1>4, FineBecomes, JudgedFine

\* A signature that comes with a vote is kept only if it is over the round's payload.
LEMMA VoteKept ==
    ASSUME NEW S, NEW h, NEW p, RoundOK(S, h, p), NEW m, MsgOK(S, m), NEW q,
           q = [f \in RoundFields |-> q[f]], q.payload = p.payload,
           q.sigs = verifyAndStoreSig(p, m)
    PROVE  RoundOK(S, h, q)
  BY DEF RoundOK, Genuine, MsgOK, verifyAndStoreSig

\* PREPARE and COMMIT (messages.js).
LEMMA VoteFine ==
    ASSUME SignInv, NEW h \in OHubs, NEW m, MsgOK(Ledger, m)
    PROVE  Fine(h, handlePrepare(h, m)) /\ Fine(h, handleCommit(h, m))
<1> DEFINE c == hub[h]
           p == [[c.round EXCEPT !.prepares = @ \cup {m.from}] EXCEPT
                    !.sigs = verifyAndStoreSig(c.round, m)]
           q == [[c.round EXCEPT !.commits = @ \cup {m.from}] EXCEPT
                    !.sigs = verifyAndStoreSig(c.round, m)]
           cp == [c EXCEPT !.round = p]
           cq == [c EXCEPT !.round = q]
           b == [c EXCEPT !.early = @ \cup {m}]
<1>1. HubOK(Ledger, h, c) /\ h \in DOMAIN Ledger
  BY DEF SignInv, HubsInv, Ledger
<1>2. HubOK(Ledger, h, Buffered(c, m))
  <2>1. Buffered(c, m) \in {c, b}
    BY DEF Buffered
  <2> HIDE DEF c
  <2>2. /\ b = [f \in HubFields |-> b[f]] /\ b.signed = c.signed /\ b.round = c.round
        /\ b.stores = c.stores /\ b.row = c.row /\ b.early = c.early \cup {m} /\ b.tasks = c.tasks
    BY <1>1 DEF HubOK, HubFields
  <2> HIDE DEF b
  <2>3. HubOK(Ledger, h, b)
    BY <1>1, <2>2 DEF HubOK, MsgsOK
  <2> QED
    BY <1>1, <2>1, <2>3
<1>3. CASE c.round = None
  BY <1>2, <1>3, FineBecomes DEF handlePrepare, handleCommit
<1>4. CASE c.round # None /\ c.round.payload.prices # m.payload.prices
  BY <1>1, <1>4, FineBecomes DEF handlePrepare, handleCommit
<1>5. CASE c.round # None /\ c.round.payload.prices = m.payload.prices
  <2>1. RoundOK(Ledger, h, c.round) /\ c = [f \in HubFields |-> c[f]]
    BY <1>1, <1>5 DEF HubOK
  <2>2. /\ p = [f \in RoundFields |-> p[f]] /\ p.payload = c.round.payload
        /\ p.sigs = verifyAndStoreSig(c.round, m)
        /\ q = [f \in RoundFields |-> q[f]] /\ q.payload = c.round.payload
        /\ q.sigs = verifyAndStoreSig(c.round, m)
    <3> HIDE DEF c
    <3> QED BY <2>1 DEF RoundOK, RoundFields
  <2>3. /\ [c EXCEPT !.round.prepares = @ \cup {m.from},
                     !.round.sigs = verifyAndStoreSig(c.round, m)] = cp
        /\ [c EXCEPT !.round.commits = @ \cup {m.from},
                     !.round.sigs = verifyAndStoreSig(c.round, m)] = cq
    <3> HIDE DEF c
    <3> QED BY <2>1 DEF RoundOK, RoundFields, HubFields
  <2>4. /\ handlePrepare(h, m) = Prepared(h, cp, {}, {})
        /\ handleCommit(h, m) = Becomes(checkCommitQuorum(cq))
    BY <1>5, <2>3 DEF handlePrepare, handleCommit
  <2> HIDE DEF c, p, q
  <2>5. HubOK(Ledger, h, cp) /\ HubOK(Ledger, h, cq)
    BY <1>1, <2>1, <2>2, VoteKept, RoundReplaced
  <2> HIDE DEF cp, cq
  <2>6. ResultOK(Ledger, h, Prepared(h, cp, {}, {}))
    BY <1>1, <2>5, PreparedKeeps DEF MsgsOK
  <2> QED
    BY <2>4, <2>5, <2>6, FineQuietly, FineBecomes, CheckCommitKeeps
<1> QED
  BY <1>3, <1>4, <1>5

\* Handling a message.
LEMMA MessageKeeps ==
    ASSUME SignInv, NEW h \in OHubs, NEW m, handleMessage(h, m)
    PROVE  SignInv'
<1> DEFINE r == CASE m.type = "PROPOSE" -> handlePropose(h, m)
                  [] m.type = "PREPARE" -> handlePrepare(h, m)
                  [] m.type = "COMMIT" -> handleCommit(h, m)
<1>1. MsgOK(Ledger, m) /\ Does(h, r, {m})
  BY DEF handleMessage, SignInv, InboxInv, MsgsOK
<1>2. Fine(h, r)
  BY <1>1, ProposeFine, VoteFine DEF MsgOK
<1> QED
  BY <1>1, <1>2, DoesKeeps

-----------------------------------------------------------------------------
(***************************************************************************)
(* Seats, suspended handlers, stores and timers.                           *)
(***************************************************************************)

\* The finalization timer and the ends of its awaits (finalize_round.js).
LEMMA SeatsKeep ==
    ASSUME SignInv, NEW h \in OHubs,
           finalizeRound(h) \/ finalizeOnSnapshot(h) \/ resolveRoundAdmitBlocks(h)
    PROVE  SignInv'
<1> DEFINE c == [hub[h] EXCEPT !.seat = "done"]
           l == [c EXCEPT !.seat = "locking"]
           n == [c EXCEPT !.draft = {}]
           skip(why) == [c EXCEPT !.skips = @ \cup {why}]
<1>1. HubOK(Ledger, h, c)
  <2> DEFINE b == hub[h]
  <2>1. HubOK(Ledger, h, b)
    BY DEF SignInv, HubsInv
  <2> HIDE DEF b
  <2>2. /\ c = [f \in HubFields |-> c[f]] /\ c.signed = b.signed /\ c.round = b.round
        /\ c.stores = b.stores /\ c.row = b.row /\ c.early = b.early /\ c.tasks = b.tasks
    BY <2>1 DEF HubOK, HubFields, b
  <2> HIDE DEF c
  <2> QED BY <2>1, <2>2, Kept
<1>2. HubOK(Ledger, h, l) /\ HubOK(Ledger, h, n) /\ \A why : HubOK(Ledger, h, skip(why))
  <2> HIDE DEF c
  <2>1. /\ l = [f \in HubFields |-> l[f]] /\ l.signed = c.signed /\ l.round = c.round
        /\ l.stores = c.stores /\ l.row = c.row /\ l.early = c.early /\ l.tasks = c.tasks
    BY <1>1 DEF HubOK, HubFields
  <2>2. /\ n = [f \in HubFields |-> n[f]] /\ n.signed = c.signed /\ n.round = c.round
        /\ n.stores = c.stores /\ n.row = c.row /\ n.early = c.early /\ n.tasks = c.tasks
    BY <1>1 DEF HubOK, HubFields
  <2>3. ASSUME NEW why PROVE HubOK(Ledger, h, skip(why))
    <3> DEFINE k == skip(why)
    <3>1. /\ k = [f \in HubFields |-> k[f]] /\ k.signed = c.signed /\ k.round = c.round
          /\ k.stores = c.stores /\ k.row = c.row /\ k.early = c.early /\ k.tasks = c.tasks
      BY <1>1 DEF HubOK, HubFields
    <3> HIDE DEF k
    <3>2. HubOK(Ledger, h, k)
      BY <1>1, <3>1, Kept
    <3> QED BY <3>2 DEF k
  <2> HIDE DEF l, n, skip
  <2> QED BY <1>1, <2>1, <2>2, <2>3, Kept
<1>3. PICK r : Does(h, r, {}) /\ r \in {Becomes(skip("anchor")), Becomes(skip("plain")), Becomes(c),
                   Becomes(l), Becomes(n), takeSeat(h, c), OpensLeaderRound(h, c),
                   Becomes(SignsAlone(h, c))}
  <2>1. CASE finalizeRound(h)
    BY <2>1 DEF finalizeRound
  <2>2. CASE finalizeOnSnapshot(h)
    BY <2>2 DEF finalizeOnSnapshot
  <2>3. CASE resolveRoundAdmitBlocks(h)
    BY <2>3 DEF resolveRoundAdmitBlocks
  <2> QED
    BY <2>1, <2>2, <2>3
<1> HIDE DEF c, l, n, skip
<1>4. Fine(h, r)
  BY <1>1, <1>2, <1>3, FineBecomes, SeatFine, OpensLeaderFine, AloneFine
<1> QED
  BY <1>3, <1>4, DoesKeeps

\* A handler of PROPOSE goes on (handle_propose.js).
LEMMA TasksKeep ==
    ASSUME SignInv, NEW h \in OHubs, NEW t \in hub[h].tasks,
           \/ lockProposeSnapshot(h, t) \/ checkProposedAdmit(h, t) \/ admissionRefused(h, t)
    PROVE  SignInv'
<1> DEFINE b == hub[h]
           c == [b EXCEPT !.tasks = @ \ {t}]
<1>1. HubOK(Ledger, h, b)
  BY DEF SignInv, HubsInv
<1>2. MsgOK(Ledger, t.msg) /\ TaskShape(t)
  BY <1>1 DEF HubOK, TasksOK
<1>3. HubOK(Ledger, h, c)
  <2> HIDE DEF b
  <2>1. /\ c = [f \in HubFields |-> c[f]] /\ c.signed = b.signed /\ c.round = b.round
        /\ c.stores = b.stores /\ c.row = b.row /\ c.early = b.early /\ c.tasks = b.tasks \ {t}
    BY <1>1 DEF HubOK, HubFields
  <2> HIDE DEF c
  <2> QED BY <1>1, <2>1, Kept
<1>4. \/ Does(h, judgeProposer(h, c, t), {}) \/ Does(h, bindAndCoSign(h, c, t), {})
      \/ Fails("tip", h, c)
  BY DEF lockProposeSnapshot, checkProposedAdmit, admissionRefused
<1> HIDE DEF c
<1>5. Fine(h, judgeProposer(h, c, t)) /\ Fine(h, bindAndCoSign(h, c, t))
  BY <1>2, <1>3, JudgedFine, CoSignFine
<1> QED
  BY <1>3, <1>4, <1>5, DoesKeeps, FailsKeeps

\* The round is written, or the write is tried again (commit.js, snapshot_store.js).
LEMMA StoresKeep ==
    ASSUME SignInv, NEW h \in OHubs, NEW s \in hub[h].stores,
           storeSnapshot(h, s) \/ nextAttempt(h, s) \/ storeFails(h, s)
    PROVE  SignInv'
<1> DEFINE b == hub[h]
           u == Untracked(b)
           d == [u EXCEPT !.row = FinalizedRow(s.payload, s.proof), !.stores = @ \ {s},
                          !.finalized = TRUE, !.skipped = FALSE, !.round = None]
           c == [b EXCEPT !.stores = @ \ {s}]
           on == [s EXCEPT !.gap = FALSE, !.attempt = @ + 1]
           gap == [s EXCEPT !.gap = TRUE]
           again(x) == [c EXCEPT !.stores = @ \cup {x}]
           retry == [c EXCEPT !.round.final = FALSE, !.round.timer = "retry"]
<1>1. HubOK(Ledger, h, b) /\ HubOK(Ledger, h, u)
  <2>1. HubOK(Ledger, h, b)
    BY DEF SignInv, HubsInv
  <2> HIDE DEF b
  <2> QED BY <2>1, WatchedOK
<1>2. StoreShape(s) /\ Genuine(Ledger, s.payload, s.proof)
  BY <1>1 DEF HubOK, StoresOK
<1>3. u.stores = b.stores
  BY <1>1 DEF Untracked, HubOK, HubFields
<1>4. \/ Does(h, Becomes(d), {}) \/ Does(h, Becomes(c), {}) \/ Does(h, Becomes(again(on)), {})
      \/ Fails("store", h, again(gap)) \/ Fails("store", h, c)
      \/ c.round # None /\ Fails("store", h, retry)
  BY DEF storeSnapshot, nextAttempt, storeFails, armFinalizeRetry
<1> HIDE DEF b, u
<1>5. HubOK(Ledger, h, d)
  <2>1. /\ d = [f \in HubFields |-> d[f]] /\ d.signed = u.signed /\ d.round = None
        /\ d.stores = u.stores \ {s} /\ d.row = FinalizedRow(s.payload, s.proof)
        /\ d.early = u.early /\ d.tasks = u.tasks
    BY <1>1 DEF HubOK, HubFields
  <2> HIDE DEF d
  <2>2. RowOK(Ledger, d.row)
    BY <1>2, <2>1 DEF RowOK, FinalizedRow
  <2>3. StoresOK(Ledger, d.stores)
    BY <1>1, <2>1 DEF HubOK, StoresOK
  <2> QED BY <1>1, <2>1, <2>2, <2>3 DEF HubOK
<1>6. HubOK(Ledger, h, c)
  <2>1. /\ c = [f \in HubFields |-> c[f]] /\ c.signed = b.signed /\ c.round = b.round
        /\ c.stores = b.stores \ {s} /\ c.row = b.row /\ c.early = b.early /\ c.tasks = b.tasks
    BY <1>1 DEF HubOK, HubFields
  <2> HIDE DEF c
  <2> QED BY <1>1, <2>1, Kept
<1> HIDE DEF c
<1>7. ASSUME NEW x, StoreShape(x), x.payload = s.payload, x.proof = s.proof
      PROVE  HubOK(Ledger, h, again(x))
  <2> DEFINE e == again(x)
  <2>1. /\ e = [f \in HubFields |-> e[f]] /\ e.signed = c.signed /\ e.round = c.round
        /\ e.stores = c.stores \cup {x} /\ e.row = c.row /\ e.early = c.early /\ e.tasks = c.tasks
    BY <1>6 DEF HubOK, HubFields
  <2> HIDE DEF e
  <2>2. StoresOK(Ledger, e.stores)
    BY <1>2, <1>6, <1>7, <2>1 DEF HubOK, StoresOK
  <2>3. HubOK(Ledger, h, e)
    BY <1>6, <2>1, <2>2 DEF HubOK
  <2> QED BY <2>3 DEF e
<1>8. /\ StoreShape(on) /\ on.payload = s.payload /\ on.proof = s.proof
      /\ StoreShape(gap) /\ gap.payload = s.payload /\ gap.proof = s.proof
  BY <1>2 DEF StoreShape
<1>9. ASSUME c.round # None PROVE HubOK(Ledger, h, retry)
  <2> DEFINE p == [[c.round EXCEPT !.final = FALSE] EXCEPT !.timer = "retry"]
  <2>1. RoundOK(Ledger, h, c.round) /\ c = [f \in HubFields |-> c[f]]
    BY <1>6, <1>9 DEF HubOK
  <2>2. retry = [c EXCEPT !.round = p]
    BY <2>1 DEF RoundOK, RoundFields, HubFields
  <2>3. RoundOK(Ledger, h, p)
    <3>1. p = [f \in RoundFields |-> p[f]] /\ p.payload = c.round.payload /\ p.sigs = c.round.sigs
      BY <2>1 DEF RoundOK, RoundFields
    <3> HIDE DEF p
    <3> QED BY <2>1, <3>1 DEF RoundOK
  <2> HIDE DEF p
  <2> QED BY <1>6, <2>2, <2>3, RoundReplaced
<1> HIDE DEF d, on, gap, again, retry
<1>10. HubOK(Ledger, h, again(on)) /\ HubOK(Ledger, h, again(gap))
  BY <1>7, <1>8
<1> QED
  BY <1>4, <1>5, <1>6, <1>9, <1>10, DoesKeeps, FailsKeeps, FineBecomes

\* The retry timer's callback stores a round anew, with the signatures it has by then.
LEMMA RedrivenOK ==
    ASSUME NEW S, NEW h, NEW b, HubOK(S, h, b)
    PROVE  HubOK(S, h, Redriven(b))
<1>1. CASE b.round = None \/ b.round.final \/ b.finalized
  BY <1>1 DEF Redriven
<1>2. CASE ~(b.round = None \/ b.round.final \/ b.finalized)
  <2> DEFINE q == [b.round EXCEPT !.final = TRUE]
             e == [b EXCEPT !.round = q]
             s == [payload |-> b.round.payload, proof |-> b.round.sigs, attempt |-> 1, gap |-> FALSE]
             d == [e EXCEPT !.stores = @ \cup {s}]
  <2>1. RoundOK(S, h, b.round) /\ b = [f \in HubFields |-> b[f]]
    BY <1>2 DEF HubOK
  <2>2. Redriven(b) = d
    <3>1. [b EXCEPT !.round.final = TRUE, !.stores = @ \cup {s}] = d
      <4> HIDE DEF s
      <4> QED BY <2>1 DEF HubFields
    <3> QED BY <1>2, <3>1 DEF Redriven
  <2>3. q = [f \in RoundFields |-> q[f]] /\ q.payload = b.round.payload /\ q.sigs = b.round.sigs
    BY <2>1 DEF RoundOK, RoundFields
  <2>4. StoreShape(s) /\ s.payload = b.round.payload /\ s.proof = b.round.sigs
    BY DEF StoreShape
  <2> HIDE DEF q, s
  <2>5. RoundOK(S, h, q)
    BY <2>1, <2>3 DEF RoundOK
  <2>6. HubOK(S, h, e)
    BY <2>5, RoundReplaced
  <2> HIDE DEF e
  <2>7. HubOK(S, h, d)
    <3>1. /\ d = [f \in HubFields |-> d[f]] /\ d.signed = e.signed /\ d.round = e.round
          /\ d.stores = e.stores \cup {s} /\ d.row = e.row /\ d.early = e.early /\ d.tasks = e.tasks
      BY <2>6 DEF HubOK, HubFields
    <3> HIDE DEF d
    <3>2. Genuine(S, s.payload, s.proof)
      BY <2>1, <2>4 DEF RoundOK
    <3>3. StoresOK(S, d.stores)
      BY <2>4, <2>6, <3>1, <3>2 DEF HubOK, StoresOK
    <3> QED BY <2>6, <3>1, <3>3 DEF HubOK
  <2> QED
    BY <2>2, <2>7
<1> QED
  BY <1>1, <1>2

\* The retry timer of the round that is there, or of one that was overwritten.
LEMMA RetryKeeps ==
    ASSUME SignInv, NEW h \in OHubs, finalizeRetry(h) \/ orphanRetry(h)
    PROVE  SignInv'
<1> DEFINE b == hub[h]
           p == [b.round EXCEPT !.timer = "off"]
           c == [b EXCEPT !.round = p]
           o == [b EXCEPT !.orphan = @ \ {"retry"}]
<1>1. HubOK(Ledger, h, b)
  BY DEF SignInv, HubsInv
<1>2. (b.round # None /\ Does(h, Becomes(Redriven(c)), {})) \/ Does(h, Becomes(Redriven(o)), {})
  <2>1. [b EXCEPT !.round.timer = "off"] = c
    BY <1>1 DEF HubOK, HubFields
  <2> QED
    BY <2>1 DEF finalizeRetry, orphanRetry
<1> HIDE DEF b
<1>3. ASSUME b.round # None PROVE HubOK(Ledger, h, c)
  <2>1. RoundOK(Ledger, h, b.round)
    BY <1>1, <1>3 DEF HubOK
  <2>2. p = [f \in RoundFields |-> p[f]] /\ p.payload = b.round.payload /\ p.sigs = b.round.sigs
    BY <2>1 DEF RoundOK, RoundFields
  <2> HIDE DEF p
  <2>3. RoundOK(Ledger, h, p)
    BY <2>1, <2>2 DEF RoundOK
  <2> QED BY <1>1, <2>3, RoundReplaced
<1>4. HubOK(Ledger, h, o)
  <2>1. /\ o = [f \in HubFields |-> o[f]] /\ o.signed = b.signed /\ o.round = b.round
        /\ o.stores = b.stores /\ o.row = b.row /\ o.early = b.early /\ o.tasks = b.tasks
    BY <1>1 DEF HubOK, HubFields
  <2> HIDE DEF o
  <2> QED BY <1>1, <2>1, Kept
<1> HIDE DEF c, o
<1> QED
  BY <1>2, <1>3, <1>4, RedrivenOK, DoesKeeps, FineBecomes

\* The skip marker, written or not (snapshot_store.js).
LEMMA SkipsKeep ==
    ASSUME SignInv, NEW h \in OHubs, NEW why, storeSkippedRound(h, why) \/ skipFails(h, why)
    PROVE  SignInv'
<1> DEFINE b == hub[h]
           u == Untracked(b)
           d == [u EXCEPT !.skips = @ \ {why}, !.row = IF @ = None THEN SkippedRow ELSE @,
                          !.skipped = @ \/ ~b.finalized]
           e == [b EXCEPT !.skips = @ \ {why}]
<1>1. HubOK(Ledger, h, b) /\ HubOK(Ledger, h, u)
  <2>1. HubOK(Ledger, h, b)
    BY DEF SignInv, HubsInv
  <2> HIDE DEF b
  <2> QED BY <2>1, WatchedOK
<1>2. Does(h, Becomes(Ended(d, why)), {}) \/ Fails("skip", h, b) \/ Fails("skip", h, Ended(e, why))
  BY DEF storeSkippedRound, skipFails
<1> HIDE DEF b, u
<1>3. HubOK(Ledger, h, d)
  <2>1. /\ d = [f \in HubFields |-> d[f]] /\ d.signed = u.signed /\ d.round = u.round
        /\ d.stores = u.stores /\ d.row \in {u.row, SkippedRow}
        /\ d.early = u.early /\ d.tasks = u.tasks
    BY <1>1 DEF HubOK, HubFields
  <2> HIDE DEF d
  <2>2. RowOK(Ledger, d.row)
    BY <1>1, <2>1 DEF HubOK, RowOK, SkippedRow
  <2> QED BY <1>1, <2>1, <2>2 DEF HubOK
<1>4. HubOK(Ledger, h, e)
  <2>1. /\ e = [f \in HubFields |-> e[f]] /\ e.signed = b.signed /\ e.round = b.round
        /\ e.stores = b.stores /\ e.row = b.row /\ e.early = b.early /\ e.tasks = b.tasks
    BY <1>1 DEF HubOK, HubFields
  <2> HIDE DEF e
  <2> QED BY <1>1, <2>1, Kept
<1> HIDE DEF d, e
<1>5. HubOK(Ledger, h, Ended(d, why)) /\ HubOK(Ledger, h, Ended(e, why))
  BY <1>3, <1>4, RoundReplaced DEF Ended
<1> QED
  BY <1>1, <1>2, <1>5, DoesKeeps, FailsKeeps, FineBecomes

\* The fallback's timer (seats.js).
LEMMA FallbackKeeps ==
    ASSUME SignInv, NEW h \in OHubs, fallbackTimer(h)
    PROVE  SignInv'
<1> DEFINE b == hub[h]
           c == [b EXCEPT !.fallback = "off"]
<1>1. HubOK(Ledger, h, b)
  BY DEF SignInv, HubsInv
<1>2. Does(h, Becomes(c), {}) \/ Does(h, ProposesFrom(h, c), {})
  BY DEF fallbackTimer
<1> HIDE DEF b
<1>3. HubOK(Ledger, h, c)
  <2>1. /\ c = [f \in HubFields |-> c[f]] /\ c.signed = b.signed /\ c.round = b.round
        /\ c.stores = b.stores /\ c.row = b.row /\ c.early = b.early /\ c.tasks = b.tasks
    BY <1>1 DEF HubOK, HubFields
  <2> HIDE DEF c
  <2> QED BY <1>1, <2>1, Kept
<1> HIDE DEF c
<1> QED
  BY <1>2, <1>3, DoesKeeps, FineBecomes, ProposesFine

\* Submissions that arrive, and the timers that only change the hub's own view.
LEMMA TimersKeep ==
    ASSUME SignInv, NEW h \in OHubs,
           \/ leaderTimeoutPasses(h) \/ finalizationTimeout(h) \/ orphanTimeout(h)
           \/ onRoundAbandoned(h) \/ noAdmissionTip(h) \/ \E s : receiveSubmission(h, s)
    PROVE  SignInv'
<1> DEFINE b == hub[h]
           Plain(d) == /\ d = [f \in HubFields |-> d[f]] /\ d.signed = b.signed
                       /\ d.round \in {b.round, None} /\ d.stores = b.stores /\ d.row = b.row
                       /\ d.early = b.early /\ d.tasks = b.tasks
           d1 == [b EXCEPT !.ready = "elapsed"]
           d2 == [b EXCEPT !.round = None]
           d3 == [b EXCEPT !.orphan = @ \ {"follow"}, !.round = None]
           d4 == [b EXCEPT !.watchdog = None]
           d5 == [b EXCEPT !.watchdog = @ + 1]
           d6 == [b EXCEPT !.watchdog = None, !.skips = @ \cup {"plain"}]
           d7 == [b EXCEPT !.seat = "done", !.draft = {}]
           d8(s) == [b EXCEPT !.view = @ \cup {s}]
           d9 == [b EXCEPT !.round.timer = "off"]
<1>1. HubOK(Ledger, h, b)
  BY DEF SignInv, HubsInv
<1>2. \/ \E d \in {d1, d2, d3, d4, d5, d6} : Does(h, Becomes(d), {})
      \/ Fails("tip", h, d7) \/ (\E s : Does(h, Becomes(d8(s)), {}))
      \/ b.round # None /\ Does(h, Becomes(d9), {})
  <2>1. leaderTimeoutPasses(h) => Does(h, Becomes(d1), {})
    BY DEF leaderTimeoutPasses
  <2>2. finalizationTimeout(h) => \/ Does(h, Becomes(d2), {})
                                  \/ b.round # None /\ Does(h, Becomes(d9), {})
    BY DEF finalizationTimeout
  <2>3. orphanTimeout(h) => Does(h, Becomes(d3), {})
    BY DEF orphanTimeout
  <2>4. onRoundAbandoned(h) =>
            Does(h, Becomes(d4), {}) \/ Does(h, Becomes(d5), {}) \/ Does(h, Becomes(d6), {})
    BY DEF onRoundAbandoned
  <2>5. noAdmissionTip(h) => Fails("tip", h, d7)
    BY DEF noAdmissionTip
  <2>6. \A s : receiveSubmission(h, s) => Does(h, Becomes(d8(s)), {})
    BY DEF receiveSubmission
  <2> HIDE DEF d1, d2, d3, d4, d5, d6, d7, d8, d9
  <2> QED
    BY <2>1, <2>2, <2>3, <2>4, <2>5, <2>6
<1> HIDE DEF b
<1>3. Plain(d1) /\ Plain(d2) /\ Plain(d3) /\ Plain(d4) /\ Plain(d5) /\ Plain(d6) /\ Plain(d7)
  BY <1>1 DEF HubOK, HubFields
<1>4. ASSUME NEW s PROVE Plain(d8(s))
  BY <1>1 DEF HubOK, HubFields
<1>5. b.round # None => HubOK(Ledger, h, d9)
  <2> DEFINE p == [b.round EXCEPT !.timer = "off"]
  <2> SUFFICES ASSUME b.round # None PROVE HubOK(Ledger, h, d9)
    OBVIOUS
  <2>1. RoundOK(Ledger, h, b.round) /\ b = [f \in HubFields |-> b[f]]
    BY <1>1 DEF HubOK
  <2>2. d9 = [b EXCEPT !.round = p]
    BY <2>1 DEF HubFields
  <2>3. p = [f \in RoundFields |-> p[f]] /\ p.payload = b.round.payload /\ p.sigs = b.round.sigs
    BY <2>1 DEF RoundOK, RoundFields
  <2> HIDE DEF p, d9
  <2>4. RoundOK(Ledger, h, p)
    BY <2>1, <2>3 DEF RoundOK
  <2> QED BY <1>1, <2>2, <2>4, RoundReplaced
<1> HIDE DEF d1, d2, d3, d4, d5, d6, d7, d8, d9
<1>6. \A d : Plain(d) => HubOK(Ledger, h, d)
  BY <1>1, Kept
<1>7. /\ \A d \in {d1, d2, d3, d4, d5, d6, d7} : HubOK(Ledger, h, d)
      /\ \A s : HubOK(Ledger, h, d8(s))
  BY <1>3, <1>4, <1>6
<1> QED
  BY <1>2, <1>5, <1>7, DoesKeeps, FailsKeeps, FineBecomes

\* What a hub that stops keeps: its row, its writes, its stray timers and what it signed.
StoppedAs(b, e) ==
    /\ e = [f \in HubFields |-> e[f]] /\ e.signed = b.signed /\ e.stores = b.stores
    /\ e.row = b.row /\ e.orphan = b.orphan /\ e.early = {} /\ e.tasks = {}
    /\ e.round = None \/ (b.round # None /\ e.round = [b.round EXCEPT !.timer = "off"])

\* A hub that stops keeps that.
LEMMA Stopped ==
    ASSUME NEW h \in OHubs, stop(h), hub[h] = [f \in HubFields |-> hub[h][f]]
    PROVE  \E e : hub' = [hub EXCEPT ![h] = e] /\ StoppedAs(hub[h], e)
<1> DEFINE b == hub[h]
           p == [b.round EXCEPT !.timer = "off"]
           inFlight == b.watchdog # None /\ ~b.finalized /\ ~b.skipped
           scheduled == b.seat = "waiting" \/ "anchor" \in b.skips
           skips == IF inFlight \/ scheduled THEN b.skips \cup {"stop"} ELSE b.skips
           round == IF b.round # None /\ inFlight THEN p ELSE None
           i == [b EXCEPT !.up = FALSE, !.seat = "done", !.draft = {}, !.ready = "no", !.fallback = "off"]
           e == [i EXCEPT !.early = {}, !.tasks = {}, !.watchdog = None, !.skips = skips, !.round = round]
<1>1. hub' = [hub EXCEPT ![h] = e]
  BY Zenon DEF stop
<1>2. round = None \/ (b.round # None /\ round = p)
  <2> HIDE DEF p
  <2> QED OBVIOUS
<1>21. b = [f \in HubFields |-> b[f]]
  OBVIOUS
<1> HIDE DEF b, skips, round, p
<1>3. /\ i = [f \in HubFields |-> i[f]] /\ i.signed = b.signed /\ i.stores = b.stores
      /\ i.row = b.row /\ i.orphan = b.orphan
  BY <1>21 DEF HubFields
<1> HIDE DEF i
<1>4. /\ e = [f \in HubFields |-> e[f]] /\ e.signed = i.signed /\ e.stores = i.stores
      /\ e.row = i.row /\ e.orphan = i.orphan /\ e.early = {} /\ e.tasks = {} /\ e.round = round
  BY <1>3 DEF HubFields
<1> HIDE DEF e
<1>5. StoppedAs(b, e)
  BY <1>2, <1>3, <1>4 DEF StoppedAs, p
<1> QED
  BY <1>1, <1>5 DEF b

\* A hub that stops keeps its row, its writes and what it signed.
LEMMA StopKeeps ==
    ASSUME SignInv, NEW h \in OHubs, stop(h)
    PROVE  SignInv'
<1> DEFINE b == hub[h]
           p == [b.round EXCEPT !.timer = "off"]
<1>1. HubOK(Ledger, h, b)
  BY DEF SignInv, HubsInv
<1>2. b = [f \in HubFields |-> b[f]]
  BY <1>1 DEF HubOK
<1>3. PICK e : hub' = [hub EXCEPT ![h] = e] /\ StoppedAs(b, e)
  BY <1>2, Stopped
<1> HIDE DEF b
<1>4. b.round # None => RoundOK(Ledger, h, p)
  <2>1. b.round # None => RoundOK(Ledger, h, b.round)
    BY <1>1 DEF HubOK
  <2>2. b.round # None => /\ p = [f \in RoundFields |-> p[f]]
                          /\ p.payload = b.round.payload /\ p.sigs = b.round.sigs
    BY <2>1 DEF RoundOK, RoundFields
  <2> HIDE DEF p
  <2> QED BY <2>1, <2>2 DEF RoundOK
<1>5. /\ hub' = [hub EXCEPT ![h] = e]
      /\ e = [f \in HubFields |-> e[f]] /\ e.signed = b.signed /\ e.stores = b.stores
      /\ e.row = b.row /\ e.early = {} /\ e.tasks = {}
      /\ e.round = None \/ (b.round # None /\ e.round = p)
  BY <1>3 DEF StoppedAs
<1> HIDE DEF p
<1>6. HubOK(Ledger, h, e)
  BY <1>1, <1>4, <1>5 DEF HubOK, MsgsOK, TasksOK
<1>7. Adds(Ledger, h, Ledger)
  BY DEF Adds, Ledger
<1>8. HubsInv' /\ Ledger' = Ledger /\ OHubs' = OHubs
  BY <1>5, <1>6, <1>7, HubReplaced
<1>9. inbox' = [inbox EXCEPT ![h] = {}]
  BY DEF stop
<1> QED
  BY <1>8, <1>9 DEF SignInv, InboxInv, MsgsOK

\* A message is lost.
LEMMA LossKeeps ==
    ASSUME SignInv, NEW h \in OHubs, NEW m, MessageLost(h, m)
    PROVE  SignInv'
<1>1. hub' = hub /\ inbox' = [inbox EXCEPT ![h] = @ \ {m}]
  BY DEF MessageLost
<1>2. HubsInv' /\ Ledger' = Ledger /\ OHubs' = OHubs
  BY <1>1 DEF SignInv, HubsInv, Ledger, OHubs
<1> QED
  BY <1>1, <1>2 DEF SignInv, InboxInv, MsgsOK

-----------------------------------------------------------------------------

\* Every step preserves the invariant.
LEMMA StepSignInv == SignInv /\ [ONext]_ovars => SignInv'
<1> SUFFICES ASSUME SignInv, [ONext]_ovars PROVE SignInv'
  OBVIOUS
<1>1. CASE UNCHANGED ovars
  BY <1>1 DEF ovars, SignInv, HubsInv, InboxInv, Ledger, OHubs
<1>2. CASE OSteps
  BY <1>2, SeatsKeep, MessageKeeps, TasksKeep, StoresKeep, RetryKeeps, SkipsKeep, FallbackKeeps,
     TimersKeep DEF OSteps
<1>3. CASE ONext /\ ~OSteps
  BY <1>3, TimersKeep, StoresKeep, SkipsKeep, LossKeeps, TasksKeep, StopKeeps DEF ONext
<1> QED
  BY <1>1, <1>2, <1>3

\* Every signature stored with a round was made, by a hub of the round, over exactly
\* the payload stored (verifyAndStoreSig in oracle/consensus), in every behaviour:
\* however proposals cross, rounds are overwritten and writes are retried.
THEOREM SignaturesAreGenuine == OSpec => []SignersBehindRow
<1>1. SignInv => SignersBehindRow
  BY DEF SignInv, HubsInv, HubOK, RowOK, Genuine, SignersBehindRow, Published, Ledger
<1> QED
  BY <1>1, InitSignInv, StepSignInv, PTL DEF OSpec

-----------------------------------------------------------------------------
(***************************************************************************)
(* Quorums.  A store is begun on a quorum, and keeps the signatures it was *)
(* begun with; only the retry timer takes a round to the store without     *)
(* counting, and it may find another round than the one that was counted.  *)
(***************************************************************************)

\* The price write does not fail as often as finalizeCommittedRound tries it.
WritesHold == \A plan \in RoundPlans : plan.budget["store"] < StoreAttempts

\* A hub that is alone holds the stake.
SoloHoldsStake ==
    \A plan \in RoundPlans :
        plan.tally = "weighted" /\ Cardinality(DOMAIN plan.views) = 1
        => meetsStakeThreshold(RoundSnapshot, DOMAIN plan.views)

PlanInv ==
    /\ setting \in RoundPlans /\ OHubs = DOMAIN setting.views
    /\ mishaps \in [{"store", "skip", "loss", "tip"} -> Nat]
    /\ mishaps["store"] <= setting.budget["store"]

\* The writes that have failed.
Failed == setting.budget["store"] - mishaps["store"]

Quorate(proof) ==
    /\ setting.tally = "signed" => Cardinality(proof) >= bftQuorum(Cardinality(OHubs))
    /\ setting.tally = "weighted" => meetsStakeThreshold(RoundSnapshot, proof)

\* A store after n failures.
Tallied(n, s) ==
    /\ Quorate(s.proof)
    /\ s.attempt \in Nat /\ s.attempt <= n + 1
    /\ s.gap => s.attempt <= n

Sound(n, c) ==
    /\ \A s \in c.stores : Tallied(n, s)
    /\ c.row # None /\ c.row.status = "finalized" => Quorate(c.row.proof)
    /\ c.round # None => c.round.timer # "retry"
    /\ "retry" \notin c.orphan

QuorumInv == PlanInv /\ \A h \in OHubs : Sound(Failed, hub[h])

\* What HubOK says of shapes.
Shaped(c) ==
    /\ c = [f \in HubFields |-> c[f]]
    /\ c.round # None => c.round = [f \in RoundFields |-> c.round[f]]

\* Every hub has its fields.
LEMMA HubsAreShaped ==
    ASSUME SignInv, NEW h \in OHubs
    PROVE  Shaped(hub[h])
  BY DEF SignInv, HubsInv, HubOK, RoundOK, Shaped

\* No store but the old ones, no row but the old one, no retry.
LEMMA SoundKept ==
    ASSUME NEW n, NEW c, Sound(n, c), NEW d, d.stores \subseteq c.stores, d.row = c.row,
           d.orphan \subseteq c.orphan,
           d.round # None => d.round = c.round \/ d.round.timer # "retry"
    PROVE  Sound(n, d)
  BY DEF Sound

\* A round is taken to the store on a quorum of its signatures (commit.js quorumMet).
LEMMA CheckCommitSound ==
    ASSUME NEW n \in Nat, NEW c, Shaped(c), Sound(n, c)
    PROVE  Sound(n, checkCommitQuorum(c)) /\ Shaped(checkCommitQuorum(c))
<1>1. CASE c.round = None \/ c.round.final \/ ~quorumMet(c.round, c.round.commits)
  BY <1>1 DEF checkCommitQuorum
<1>2. CASE ~(c.round = None \/ c.round.final \/ ~quorumMet(c.round, c.round.commits))
  <2> DEFINE s == [payload |-> c.round.payload, proof |-> c.round.sigs, attempt |-> 1, gap |-> FALSE]
             d == [c EXCEPT !.round.final = TRUE, !.round.timer = "off", !.stores = @ \cup {s}]
  <2>1. checkCommitQuorum(c) = d
    BY <1>2 DEF checkCommitQuorum
  <2>2. Quorate(c.round.sigs)
    BY <1>2 DEF quorumMet, Quorate
  <2>3. /\ d = [f \in HubFields |-> d[f]] /\ d.stores = c.stores \cup {s} /\ d.row = c.row
        /\ d.orphan = c.orphan
        /\ d.round = [[c.round EXCEPT !.final = TRUE] EXCEPT !.timer = "off"]
    BY DEF Shaped, HubFields
  <2>4. s.proof = c.round.sigs /\ s.attempt = 1 /\ s.gap = FALSE
    OBVIOUS
  <2> HIDE DEF d, s
  <2>5. d.round = [f \in RoundFields |-> d.round[f]] /\ d.round.timer = "off"
    BY <1>2, <2>3 DEF Shaped, RoundFields
  <2>6. Tallied(n, s)
    BY <2>2, <2>4 DEF Tallied
  <2>7. Sound(n, d)
    BY <2>3, <2>5, <2>6 DEF Sound
  <2> QED
    BY <2>1, <2>3, <2>5, <2>7 DEF Shaped
<1> QED
  BY <1>1, <1>2

\* A vote is tallied, and the COMMIT it may lead to.
LEMMA PreparedSound ==
    ASSUME NEW n \in Nat, NEW h, NEW c, Shaped(c), Sound(n, c), NEW sent, NEW replayed
    PROVE  Sound(n, Prepared(h, c, sent, replayed).hub)
<1>1. Prepared(h, c, sent, replayed).hub = checkPrepareQuorum(h, c)
  BY DEF Prepared, Result
<1>2. CASE ~SendsCommit(c)
  BY <1>1, <1>2 DEF checkPrepareQuorum
<1>3. CASE SendsCommit(c)
  <2> DEFINE p == [[[c.round EXCEPT !.sent = TRUE] EXCEPT !.commits = @ \cup {h}] EXCEPT
                      !.sigs = @ \cup {h}]
             d == [c EXCEPT !.round.sent = TRUE, !.round.commits = @ \cup {h},
                            !.round.sigs = @ \cup {h}]
  <2>1. checkPrepareQuorum(h, c) = checkCommitQuorum(d)
    BY <1>3 DEF checkPrepareQuorum
  <2>2. c.round # None /\ c.round = [f \in RoundFields |-> c.round[f]]
    BY <1>3 DEF SendsCommit, Shaped
  <2>3. d = [f \in HubFields |-> d[f]] /\ d.stores = c.stores /\ d.row = c.row /\ d.orphan = c.orphan /\ d.round = p
    BY <2>2 DEF Shaped, HubFields, RoundFields
  <2>4. p = [f \in RoundFields |-> p[f]] /\ p.timer = c.round.timer
    BY <2>2 DEF RoundFields
  <2> HIDE DEF d, p
  <2>5. Shaped(d) /\ Sound(n, d)
    BY <2>2, <2>3, <2>4 DEF Shaped, Sound
  <2> QED
    BY <1>1, <2>1, <2>5, CheckCommitSound
<1> QED
  BY <1>2, <1>3

\* A proposer opens its round.
LEMMA OpensLeaderSound ==
    ASSUME NEW n \in Nat, NEW h, NEW c, Shaped(c), Sound(n, c)
    PROVE  Sound(n, OpensLeaderRound(h, c).hub)
<1> DEFINE payload == PayloadOf(h, c.draft)
           p == [NewRound(payload, "lead") EXCEPT !.prepares = {h}, !.sigs = {h}]
           d == [c EXCEPT !.round = p,
                          !.orphan = IF c.round = None THEN @ ELSE @ \cup ({c.round.timer} \ {"off"}),
                          !.early = {}, !.draft = {}, !.signed = @ \cup {payload}]
           m == [type |-> "PROPOSE", from |-> h, payload |-> payload]
<1>1. OpensLeaderRound(h, c) = Prepared(h, d, {m}, c.early)
  BY DEF OpensLeaderRound
<1>2. p = [f \in RoundFields |-> p[f]] /\ p.timer = "lead"
  BY DEF NewRound, RoundFields
<1>3. /\ d = [f \in HubFields |-> d[f]] /\ d.round = p /\ d.stores = c.stores /\ d.row = c.row
      /\ d.orphan = IF c.round = None THEN c.orphan ELSE c.orphan \cup ({c.round.timer} \ {"off"})
  <2> HIDE DEF p, payload
  <2> QED BY DEF Shaped, HubFields
<1> HIDE DEF p, d, m
<1>4. Shaped(d) /\ Sound(n, d)
  BY <1>2, <1>3 DEF Shaped, Sound
<1> QED
  BY <1>1, <1>4, PreparedSound

\* A round is proposed, or skipped for want of prices.
LEMMA ProposesSound ==
    ASSUME NEW n \in Nat, NEW h, NEW c, Shaped(c), Sound(n, c)
    PROVE  Sound(n, ProposesFrom(h, c).hub)
<1> DEFINE d == [c EXCEPT !.draft = PricesOf(c.view)]
           skip == [c EXCEPT !.skips = @ \cup {"plain"}]
           proposing == [d EXCEPT !.seat = "proposing"]
<1>1. ProposesFrom(h, c).hub \in {skip, proposing, OpensLeaderRound(h, d).hub}
  BY DEF ProposesFrom, Becomes, Result
<1>2. /\ d = [f \in HubFields |-> d[f]] /\ d.round = c.round /\ d.stores = c.stores /\ d.row = c.row
      /\ d.orphan = c.orphan
      /\ skip.round = c.round /\ skip.stores = c.stores /\ skip.row = c.row /\ skip.orphan = c.orphan
      /\ proposing.round = c.round /\ proposing.stores = c.stores /\ proposing.row = c.row
      /\ proposing.orphan = c.orphan
  BY DEF Shaped, HubFields
<1> HIDE DEF d, skip, proposing
<1>3. Shaped(d) /\ Sound(n, d) /\ Sound(n, skip) /\ Sound(n, proposing)
  BY <1>2, SoundKept DEF Shaped
<1> QED
  BY <1>1, <1>3, OpensLeaderSound

\* Arming and clearing the watchdog.
LEMMA WatchedSound ==
    ASSUME NEW n, NEW c, Shaped(c), Sound(n, c)
    PROVE  /\ Shaped(Watched(c)) /\ Sound(n, Watched(c))
           /\ Shaped(Untracked(c)) /\ Sound(n, Untracked(c)) /\ Untracked(c).stores = c.stores
<1> DEFINE d == [c EXCEPT !.watchdog = 0]
           u == [c EXCEPT !.ready = "no", !.fallback = "off", !.watchdog = None]
<1>1. /\ d = [f \in HubFields |-> d[f]] /\ d.round = c.round /\ d.stores = c.stores /\ d.row = c.row
      /\ d.orphan = c.orphan
      /\ u = [f \in HubFields |-> u[f]] /\ u.round = c.round /\ u.stores = c.stores /\ u.row = c.row
      /\ u.orphan = c.orphan
  BY DEF Shaped, HubFields
<1>2. Watched(c) \in {c, d} /\ Untracked(c) = u
  BY DEF Watched, Untracked
<1> HIDE DEF d, u
<1> QED
  BY <1>1, <1>2, SoundKept DEF Shaped

\* A lone member is a quorum.
LEMMA AloneSound ==
    ASSUME PlanInv, SoloHoldsStake, Alone, NEW h \in OHubs,
           NEW n \in Nat, NEW c, Shaped(c), Sound(n, c)
    PROVE  Sound(n, SignsAlone(h, c))
<1> DEFINE payload == PayloadOf(h, c.draft)
           s == [payload |-> payload, proof |-> {h}, attempt |-> 1, gap |-> FALSE]
           d == [c EXCEPT !.draft = {}, !.signed = @ \cup {payload}, !.stores = @ \cup {s}]
<1>1. SignsAlone(h, c) = d
  BY DEF SignsAlone
<1>2. s.proof = {h} /\ s.attempt = 1 /\ s.gap = FALSE
  OBVIOUS
<1> HIDE DEF payload, s
<1>3. /\ d.round = c.round /\ d.stores = c.stores \cup {s} /\ d.row = c.row /\ d.orphan = c.orphan
  BY DEF Shaped, HubFields
<1>4. OHubs = {h}
  <2>1. IsFiniteSet(OHubs)
    BY RoundPlansAssumption DEF PlanInv
  <2> QED
    BY <2>1, FS_Singleton DEF Alone
<1>5. Quorate({h})
  <2>1. Cardinality({h}) = 1 /\ bftQuorum(1) = 1
    BY FS_Singleton DEF bftQuorum, Larger
  <2>2. setting.tally = "weighted" => meetsStakeThreshold(RoundSnapshot, {h})
    <3>1. setting \in RoundPlans /\ DOMAIN setting.views = {h}
      BY <1>4 DEF PlanInv
    <3> QED
      BY <2>1, <3>1 DEF SoloHoldsStake
  <2>3. Cardinality({h}) >= bftQuorum(Cardinality(OHubs))
    BY <1>4, <2>1
  <2> QED
    BY <2>2, <2>3 DEF Quorate
<1> HIDE DEF d
<1>6. Tallied(n, s)
  BY <1>2, <1>5 DEF Tallied
<1> QED
  BY <1>1, <1>3, <1>6 DEF Sound

\* The round of a lone member, with the tips it reads first in the admission era.
LEMMA SoloSound ==
    ASSUME PlanInv, SoloHoldsStake, Alone, NEW h \in OHubs,
           NEW n \in Nat, NEW c, Shaped(c), Sound(n, c)
    PROVE  Sound(n, finalizeSoloRound(h, c))
<1> DEFINE d == [c EXCEPT !.draft = PricesOf(c.view)]
           skip == [c EXCEPT !.skips = @ \cup {"plain"}]
           proposing == [d EXCEPT !.seat = "proposing"]
<1>1. finalizeSoloRound(h, c) \in {skip, proposing, SignsAlone(h, d)}
  BY DEF finalizeSoloRound
<1>2. /\ d = [f \in HubFields |-> d[f]]
      /\ d.round = c.round /\ d.stores = c.stores /\ d.row = c.row /\ d.orphan = c.orphan
      /\ skip.round = c.round /\ skip.stores = c.stores /\ skip.row = c.row
      /\ skip.orphan = c.orphan
      /\ proposing.round = c.round /\ proposing.stores = c.stores /\ proposing.row = c.row
      /\ proposing.orphan = c.orphan
  BY DEF Shaped, HubFields
<1> HIDE DEF d, skip, proposing
<1>3. Shaped(d) /\ Sound(n, d) /\ Sound(n, skip) /\ Sound(n, proposing)
  BY <1>2, SoundKept DEF Shaped
<1> QED
  BY <1>1, <1>3, AloneSound

\* A seat is taken (seats.js).
LEMMA SeatSound ==
    ASSUME PlanInv, SoloHoldsStake, NEW h \in OHubs,
           NEW n \in Nat, NEW c, Shaped(c), Sound(n, c)
    PROVE  Sound(n, takeSeat(h, c).hub)
<1> DEFINE w == Watched(c)
           a == AwaitsLeader(h, w)
<1>1. Shaped(w) /\ Sound(n, w)
  BY WatchedSound
<1>2. \/ Alone /\ takeSeat(h, c).hub = finalizeSoloRound(h, c)
      \/ takeSeat(h, c).hub \in {ProposesFrom(h, w).hub, a}
  BY DEF takeSeat, Becomes, Result
<1> HIDE DEF w
<1>3. a.round = w.round /\ a.stores = w.stores /\ a.row = w.row /\ a.orphan = w.orphan
  BY <1>1 DEF AwaitsLeader, Shaped, HubFields
<1> HIDE DEF a
<1> QED
  BY <1>1, <1>2, <1>3, SoundKept, ProposesSound, SoloSound

\* A follower opens a round and signs it (follower_round.js).
LEMMA CoSignSound ==
    ASSUME NEW n \in Nat, NEW h, NEW c, Shaped(c), Sound(n, c), NEW t
    PROVE  Sound(n, bindAndCoSign(h, c, t).hub)
<1> DEFINE payload == t.msg.payload
           o == Opened(c, t)
           fresh == NewRound(payload, "follow")
           e == [c EXCEPT !.round = fresh, !.early = {}]
           drained == IF o.round # c.round THEN c.early ELSE {}
           sigs == verifyAndStoreSig(o.round, t.msg) \cup {h}
           voted == [o EXCEPT !.round.prepares = @ \cup {h, t.msg.from}, !.round.sigs = sigs,
                              !.signed = @ \cup {o.round.payload}]
           m == [type |-> "PREPARE", from |-> h, payload |-> o.round.payload]
<1>1. Shaped(o) /\ Sound(n, o)
  <2>1. fresh = [f \in RoundFields |-> fresh[f]] /\ fresh.timer = "follow"
    BY DEF NewRound, RoundFields
  <2>2. o \in {c, Watched(e)}
    BY DEF Opened
  <2> HIDE DEF o, fresh
  <2>3. /\ e = [f \in HubFields |-> e[f]] /\ e.round = fresh /\ e.stores = c.stores /\ e.row = c.row
        /\ e.orphan = c.orphan
    BY DEF Shaped, HubFields
  <2> HIDE DEF e
  <2>4. Shaped(e) /\ Sound(n, e)
    BY <2>1, <2>3, SoundKept DEF Shaped
  <2> QED
    BY <2>2, <2>4, WatchedSound
<1>2. \/ bindAndCoSign(h, c, t).hub = o
      \/ o.round # None /\ bindAndCoSign(h, c, t).hub = Prepared(h, voted, {m}, drained).hub
  BY DEF bindAndCoSign, Result
<1>3. ASSUME o.round # None PROVE Shaped(voted) /\ Sound(n, voted)
  <2> DEFINE p == [[o.round EXCEPT !.prepares = @ \cup {h, t.msg.from}] EXCEPT !.sigs = sigs]
  <2> HIDE DEF o, sigs
  <2>1. /\ voted = [f \in HubFields |-> voted[f]] /\ voted.stores = o.stores /\ voted.row = o.row
        /\ voted.orphan = o.orphan
        /\ voted.round = p
    BY <1>1 DEF Shaped, HubFields
  <2>2. p = [f \in RoundFields |-> p[f]] /\ p.timer = o.round.timer
    BY <1>1, <1>3 DEF Shaped, RoundFields
  <2> HIDE DEF voted, p
  <2> QED
    BY <1>1, <1>3, <2>1, <2>2 DEF Shaped, Sound
<1> HIDE DEF o, voted, drained, m
<1> QED
  BY <1>1, <1>2, <1>3, PreparedSound

\* A proposal is judged (handle_propose.js).
LEMMA JudgedSound ==
    ASSUME NEW n \in Nat, NEW h, NEW c, Shaped(c), Sound(n, c), NEW t
    PROVE  Sound(n, judgeProposer(h, c, t).hub)
<1> DEFINE d == [c EXCEPT !.tasks = @ \cup {[t EXCEPT !.stage = "admit"]}]
<1>1. judgeProposer(h, c, t).hub \in {c, d, bindAndCoSign(h, c, t).hub}
  BY DEF judgeProposer, Becomes, Result
<1>2. d.round = c.round /\ d.stores = c.stores /\ d.row = c.row /\ d.orphan = c.orphan
  BY DEF Shaped, HubFields
<1> HIDE DEF d
<1> QED
  BY <1>1, <1>2, SoundKept, CoSignSound

\* The three kinds of message.
LEMMA MessageSound ==
    ASSUME NEW n \in Nat, NEW h, Shaped(hub[h]), Sound(n, hub[h]), NEW m
    PROVE  /\ Sound(n, handlePropose(h, m).hub)
           /\ Sound(n, handlePrepare(h, m).hub)
           /\ Sound(n, handleCommit(h, m).hub)
<1> DEFINE c == hub[h]
           t == [msg |-> m, locks |-> hub[h].round = None, stage |-> "snapshot"]
           d == [c EXCEPT !.tasks = @ \cup {t}]
           b == [c EXCEPT !.early = @ \cup {m}]
           sigs == verifyAndStoreSig(c.round, m)
           cp == [c EXCEPT !.round.prepares = @ \cup {m.from}, !.round.sigs = sigs]
           cq == [c EXCEPT !.round.commits = @ \cup {m.from}, !.round.sigs = sigs]
<1>1. handlePropose(h, m).hub \in {c, d, judgeProposer(h, c, t).hub}
  BY DEF handlePropose, Becomes, Result
<1>2. \/ handlePrepare(h, m).hub \in {c, b}
      \/ c.round # None /\ handlePrepare(h, m).hub = Prepared(h, cp, {}, {}).hub
  BY DEF handlePrepare, Buffered, Becomes, Result
<1>3. \/ handleCommit(h, m).hub \in {c, b}
      \/ c.round # None /\ handleCommit(h, m).hub = checkCommitQuorum(cq)
  BY DEF handleCommit, Buffered, Becomes, Result
<1> HIDE DEF c, t, sigs
<1>4. /\ d.round = c.round /\ d.stores = c.stores /\ d.row = c.row /\ d.orphan = c.orphan
      /\ b.round = c.round /\ b.stores = c.stores /\ b.row = c.row /\ b.orphan = c.orphan
  BY DEF Shaped, HubFields, c
<1>5. ASSUME c.round # None PROVE Shaped(cp) /\ Sound(n, cp) /\ Shaped(cq) /\ Sound(n, cq)
  <2> DEFINE p == [[c.round EXCEPT !.prepares = @ \cup {m.from}] EXCEPT !.sigs = sigs]
             q == [[c.round EXCEPT !.commits = @ \cup {m.from}] EXCEPT !.sigs = sigs]
  <2>1. Shaped(c) /\ Sound(n, c)
    BY DEF c
  <2>2. /\ cp = [f \in HubFields |-> cp[f]] /\ cp.stores = c.stores /\ cp.row = c.row /\ cp.orphan = c.orphan /\ cp.round = p
        /\ cq = [f \in HubFields |-> cq[f]] /\ cq.stores = c.stores /\ cq.row = c.row /\ cq.orphan = c.orphan /\ cq.round = q
    BY <2>1 DEF Shaped, HubFields
  <2>3. /\ p = [f \in RoundFields |-> p[f]] /\ p.timer = c.round.timer
        /\ q = [f \in RoundFields |-> q[f]] /\ q.timer = c.round.timer
    BY <1>5, <2>1 DEF Shaped, RoundFields
  <2> HIDE DEF cp, cq, p, q
  <2> QED
    BY <1>5, <2>1, <2>2, <2>3 DEF Shaped, Sound
<1>6. Shaped(c) /\ Sound(n, c)
  BY DEF c
<1> HIDE DEF d, b, cp, cq
<1>7. Sound(n, d) /\ Sound(n, b)
  BY <1>4, <1>6, SoundKept
<1> QED
  BY <1>1, <1>2, <1>3, <1>5, <1>6, <1>7, JudgedSound, PreparedSound, CheckCommitSound

\* A hub replaced by a sound one, with no more failures than there were.
LEMMA SoundReplaced ==
    ASSUME SignInv, QuorumInv, NEW h \in OHubs, NEW c, hub' = [hub EXCEPT ![h] = c],
           setting' = setting, PlanInv', NEW n, Failed' = n, Failed <= n, Sound(n, c)
    PROVE  QuorumInv'
<1>1. OHubs' = OHubs /\ \A i \in OHubs : hub'[i] = IF i = h THEN c ELSE hub[i]
  BY DEF OHubs
<1>2. \A proof : Quorate(proof)' = Quorate(proof)
  BY <1>1 DEF Quorate
<1>3. Failed \in Int /\ Failed' \in Int
  BY RoundPlansAssumption DEF QuorumInv, PlanInv, Failed
<1>4. ASSUME NEW i \in OHubs PROVE Sound(Failed', hub'[i])
  <2>1. CASE i = h
    BY <1>1, <2>1
  <2>2. CASE i # h
    <3>1. Sound(Failed, hub[i])
      BY DEF QuorumInv
    <3>2. \A s \in hub[i].stores : Tallied(Failed', s)
      BY <1>3, <3>1 DEF Sound, Tallied
    <3>3. Sound(Failed', hub[i])
      BY <3>1, <3>2 DEF Sound
    <3> QED
      BY <1>1, <2>2, <3>3
  <2> QED
    BY <2>1, <2>2
<1>5. ASSUME NEW i \in OHubs PROVE Sound(Failed, hub[i])'
  BY <1>2, <1>4 DEF Sound, Tallied
<1> QED
  BY <1>1, <1>5 DEF QuorumInv

\* A step of a hub whose result is sound.
LEMMA DoesSound ==
    ASSUME SignInv, QuorumInv, NEW h \in OHubs, NEW r, NEW taken, Does(h, r, taken),
           Sound(Failed, r.hub)
    PROVE  QuorumInv'
<1>1. /\ hub' = [hub EXCEPT ![h] = r.hub] /\ setting' = setting /\ mishaps' = mishaps
  BY DEF Does
<1>2. OHubs' = OHubs /\ Failed' = Failed
  BY <1>1 DEF OHubs, Failed
<1>3. PlanInv' /\ Failed \in Int
  BY <1>1, <1>2, RoundPlansAssumption DEF QuorumInv, PlanInv, Failed
<1>4. PICK n, c : n = Failed /\ c = r.hub
  OBVIOUS
<1>5. Failed' = n /\ Failed <= n /\ Sound(n, c) /\ hub' = [hub EXCEPT ![h] = c]
  BY <1>1, <1>2, <1>3, <1>4
<1> QED
  BY <1>1, <1>3, <1>5, SoundReplaced

\* A step that fails, and counts as a failed write if it was one.
LEMMA FailsSound ==
    ASSUME SignInv, QuorumInv, NEW h \in OHubs, NEW k \in {"store", "skip", "tip"}, NEW c,
           Fails(k, h, c), Sound(IF k = "store" THEN Failed + 1 ELSE Failed, c)
    PROVE  QuorumInv'
<1>1. /\ hub' = [hub EXCEPT ![h] = c] /\ setting' = setting
      /\ mishaps[k] > 0 /\ mishaps' = [mishaps EXCEPT ![k] = @ - 1]
  BY DEF Fails
<1>2. OHubs' = OHubs
  BY <1>1 DEF OHubs
<1>3. /\ mishaps \in [{"store", "skip", "loss", "tip"} -> Nat] /\ setting.budget["store"] \in Nat
      /\ mishaps["store"] <= setting.budget["store"]
  BY RoundPlansAssumption DEF QuorumInv, PlanInv
<1>4. /\ mishaps' \in [{"store", "skip", "loss", "tip"} -> Nat]
      /\ mishaps'["store"] = IF k = "store" THEN mishaps["store"] - 1 ELSE mishaps["store"]
  BY <1>1, <1>3
<1>5. PlanInv'
  BY <1>1, <1>2, <1>3, <1>4 DEF QuorumInv, PlanInv
<1>6. Failed' = (IF k = "store" THEN Failed + 1 ELSE Failed) /\ Failed \in Int
  BY <1>1, <1>3, <1>4 DEF Failed
<1>7. PICK n : n = IF k = "store" THEN Failed + 1 ELSE Failed
  OBVIOUS
<1>8. Failed' = n /\ Failed <= n /\ Sound(n, c)
  BY <1>6, <1>7
<1> QED
  BY <1>1, <1>5, <1>8, SoundReplaced

\* Every hub is in order, and the failures are a number.
LEMMA QuorumFacts ==
    ASSUME SignInv, QuorumInv
    PROVE  /\ Failed \in Nat
           /\ \A h \in OHubs : Shaped(hub[h]) /\ Sound(Failed, hub[h])
<1>1. Failed \in Nat
  BY RoundPlansAssumption DEF QuorumInv, PlanInv, Failed
<1> QED
  BY <1>1, HubsAreShaped DEF QuorumInv

\* The finalization timer and the ends of its awaits.
LEMMA SeatsSound ==
    ASSUME SignInv, QuorumInv, SoloHoldsStake, NEW h \in OHubs,
           finalizeRound(h) \/ finalizeOnSnapshot(h) \/ resolveRoundAdmitBlocks(h)
    PROVE  QuorumInv'
<1> DEFINE b == hub[h]
           c == [b EXCEPT !.seat = "done"]
           l == [c EXCEPT !.seat = "locking"]
           d == [c EXCEPT !.draft = {}]
           skip(why) == [c EXCEPT !.skips = @ \cup {why}]
<1>1. Failed \in Nat /\ Shaped(b) /\ Sound(Failed, b)
  BY QuorumFacts
<1>2. PICK r : /\ Does(h, r, {})
               /\ \/ r.hub \in {skip("anchor"), skip("plain"), c, l, d, takeSeat(h, c).hub,
                               OpensLeaderRound(h, c).hub}
                  \/ Alone /\ r.hub = SignsAlone(h, c)
  <2>1. PICK r : Does(h, r, {}) /\
                     \/ r \in {Becomes(skip("anchor")), Becomes(skip("plain")), Becomes(c),
                               Becomes(l), Becomes(d), takeSeat(h, c), OpensLeaderRound(h, c)}
                     \/ Alone /\ r = Becomes(SignsAlone(h, c))
    <3>1. CASE finalizeRound(h)
      BY <3>1 DEF finalizeRound
    <3>2. CASE finalizeOnSnapshot(h)
      BY <3>2 DEF finalizeOnSnapshot
    <3>3. CASE resolveRoundAdmitBlocks(h)
      BY <3>3 DEF resolveRoundAdmitBlocks
    <3> QED
      BY <3>1, <3>2, <3>3
  <2> HIDE DEF c, l, d, skip
  <2> QED
    BY <2>1 DEF Becomes, Result
<1> HIDE DEF b
<1>3. /\ c = [f \in HubFields |-> c[f]] /\ c.round = b.round /\ c.stores = b.stores /\ c.row = b.row
      /\ c.orphan = b.orphan
  BY <1>1 DEF Shaped, HubFields
<1> HIDE DEF c
<1>4. Shaped(c) /\ Sound(Failed, c)
  BY <1>1, <1>3, SoundKept DEF Shaped
<1>5. /\ l.round = c.round /\ l.stores = c.stores /\ l.row = c.row /\ l.orphan = c.orphan
      /\ d.round = c.round /\ d.stores = c.stores /\ d.row = c.row /\ d.orphan = c.orphan
      /\ \A why : /\ skip(why).round = c.round /\ skip(why).stores = c.stores
                  /\ skip(why).row = c.row /\ skip(why).orphan = c.orphan
  BY <1>4 DEF Shaped, HubFields
<1> HIDE DEF l, d, skip
<1>6. Sound(Failed, l) /\ Sound(Failed, d) /\ Sound(Failed, skip("anchor")) /\ Sound(Failed, skip("plain"))
  BY <1>4, <1>5, SoundKept
<1>7. /\ Sound(Failed, takeSeat(h, c).hub) /\ Sound(Failed, OpensLeaderRound(h, c).hub)
      /\ Alone => Sound(Failed, SignsAlone(h, c))
  BY <1>1, <1>4, SeatSound, OpensLeaderSound, AloneSound DEF QuorumInv
<1>8. Sound(Failed, r.hub)
  BY <1>2, <1>4, <1>6, <1>7
<1> QED
  BY <1>2, <1>8, DoesSound

\* Messages, and handlers of PROPOSE that go on.
LEMMA HandlersSound ==
    ASSUME SignInv, QuorumInv, NEW h \in OHubs,
           \/ \E m : handleMessage(h, m)
           \/ \E t : lockProposeSnapshot(h, t) \/ checkProposedAdmit(h, t) \/ admissionRefused(h, t)
    PROVE  QuorumInv'
<1>1. Failed \in Nat /\ Shaped(hub[h]) /\ Sound(Failed, hub[h])
  BY QuorumFacts
<1>2. ASSUME NEW m, handleMessage(h, m) PROVE QuorumInv'
  <2> DEFINE r == CASE m.type = "PROPOSE" -> handlePropose(h, m)
                    [] m.type = "PREPARE" -> handlePrepare(h, m)
                    [] m.type = "COMMIT" -> handleCommit(h, m)
  <2>1. m.type \in {"PROPOSE", "PREPARE", "COMMIT"} /\ Does(h, r, {m})
    BY <1>2 DEF handleMessage, SignInv, InboxInv, MsgsOK, MsgOK
  <2>2. /\ Sound(Failed, handlePropose(h, m).hub) /\ Sound(Failed, handlePrepare(h, m).hub)
        /\ Sound(Failed, handleCommit(h, m).hub)
    BY <1>1, MessageSound
  <2>3. Sound(Failed, r.hub)
    BY <2>1, <2>2
  <2> HIDE DEF r
  <2> QED
    BY <2>1, <2>3, DoesSound
<1>3. ASSUME NEW t,
             lockProposeSnapshot(h, t) \/ checkProposedAdmit(h, t) \/ admissionRefused(h, t)
      PROVE  QuorumInv'
  <2> DEFINE b == hub[h]
             c == [b EXCEPT !.tasks = @ \ {t}]
  <2>1. \/ Does(h, judgeProposer(h, c, t), {}) \/ Does(h, bindAndCoSign(h, c, t), {})
        \/ Fails("tip", h, c)
    BY <1>3 DEF lockProposeSnapshot, checkProposedAdmit, admissionRefused
  <2>2. Failed \in Nat /\ Shaped(b) /\ Sound(Failed, b)
    BY <1>1
  <2> HIDE DEF b
  <2>3. /\ c = [f \in HubFields |-> c[f]] /\ c.round = b.round /\ c.stores = b.stores /\ c.row = b.row
        /\ c.orphan = b.orphan
    BY <2>2 DEF Shaped, HubFields
  <2> HIDE DEF c
  <2>4. Shaped(c) /\ Sound(Failed, c)
    BY <2>2, <2>3, SoundKept DEF Shaped
  <2>5. Sound(Failed, judgeProposer(h, c, t).hub) /\ Sound(Failed, bindAndCoSign(h, c, t).hub)
    BY <2>2, <2>4, JudgedSound, CoSignSound
  <2> QED
    BY <2>1, <2>4, <2>5, DoesSound, FailsSound
<1> QED
  BY <1>2, <1>3

\* A write that fails is one of fewer than StoreAttempts, so the retry timer is
\* never armed.
LEMMA StoresSound ==
    ASSUME SignInv, QuorumInv, WritesHold, NEW h \in OHubs, NEW s \in hub[h].stores,
           storeSnapshot(h, s) \/ nextAttempt(h, s) \/ storeFails(h, s)
    PROVE  QuorumInv'
<1> DEFINE b == hub[h]
           u == Untracked(b)
           d == [u EXCEPT !.row = FinalizedRow(s.payload, s.proof), !.stores = @ \ {s},
                          !.finalized = TRUE, !.skipped = FALSE, !.round = None]
           c == [b EXCEPT !.stores = @ \ {s}]
           on == [s EXCEPT !.gap = FALSE, !.attempt = @ + 1]
           gap == [s EXCEPT !.gap = TRUE]
           again(x) == [c EXCEPT !.stores = @ \cup {x}]
<1>1. Failed \in Nat /\ Shaped(b) /\ Sound(Failed, b) /\ StoreShape(s) /\ Tallied(Failed, s)
  BY QuorumFacts DEF SignInv, HubsInv, HubOK, StoresOK, Sound
<1>2. storeFails(h, s) => s.attempt # StoreAttempts
  <2>1. setting.budget["store"] < StoreAttempts /\ StoreAttempts \in Nat
    BY RoundPlansAssumption DEF WritesHold, QuorumInv, PlanInv
  <2>2. storeFails(h, s) => mishaps["store"] > 0
    BY DEF storeFails, Fails
  <2>3. setting.budget["store"] \in Nat /\ mishaps["store"] \in Nat
    BY RoundPlansAssumption DEF QuorumInv, PlanInv
  <2> QED
    BY <1>1, <2>1, <2>2, <2>3 DEF Tallied, Failed
<1>3. \/ Does(h, Becomes(d), {}) \/ Does(h, Becomes(c), {}) \/ Fails("store", h, c)
      \/ s.gap /\ Does(h, Becomes(again(on)), {})
      \/ ~s.gap /\ Fails("store", h, again(gap))
  BY <1>2 DEF storeSnapshot, nextAttempt, storeFails
<1>4. Shaped(u) /\ Sound(Failed, u)
  <2> HIDE DEF b
  <2> QED BY <1>1, WatchedSound
<1> HIDE DEF b, u
<1>5. Sound(Failed, d)
  <2>1. /\ d.stores = u.stores \ {s} /\ d.row = FinalizedRow(s.payload, s.proof) /\ d.round = None
        /\ d.orphan = u.orphan
    BY <1>4 DEF Shaped, HubFields
  <2>2. d.row.proof = s.proof
    BY <2>1 DEF FinalizedRow
  <2> HIDE DEF d
  <2> QED BY <1>1, <1>4, <2>1, <2>2 DEF Sound, Tallied
<1>6. c = [f \in HubFields |-> c[f]] /\ c.round = b.round /\ c.stores = b.stores \ {s} /\ c.row = b.row
      /\ c.orphan = b.orphan
  BY <1>1 DEF Shaped, HubFields
<1> HIDE DEF c
<1>7. Sound(Failed, c) /\ Sound(Failed + 1, c)
  <2>1. \A x \in c.stores : Tallied(Failed + 1, x)
    BY <1>1, <1>6 DEF Sound, Tallied
  <2> QED BY <1>1, <1>6, <2>1 DEF Sound
<1>8. ASSUME NEW n, NEW x, Sound(n, c), Tallied(n, x) PROVE Sound(n, again(x))
  <2> DEFINE e == again(x)
  <2>1. e.stores = c.stores \cup {x} /\ e.row = c.row /\ e.orphan = c.orphan /\ e.round = c.round
    BY <1>6 DEF HubFields
  <2> HIDE DEF e
  <2>2. Sound(n, e)
    BY <1>8, <2>1 DEF Sound
  <2> QED BY <2>2 DEF e
<1>9. (s.gap => Tallied(Failed, on)) /\ (~s.gap => Tallied(Failed + 1, gap))
  <2>1. /\ on.proof = s.proof /\ on.gap = FALSE /\ on.attempt = s.attempt + 1
        /\ gap.proof = s.proof /\ gap.gap = TRUE /\ gap.attempt = s.attempt
    BY <1>1 DEF StoreShape
  <2> HIDE DEF on, gap
  <2> QED BY <1>1, <2>1 DEF Tallied
<1> HIDE DEF d, on, gap, again
<1>10. /\ Becomes(d).hub = d /\ Becomes(c).hub = c /\ Becomes(again(on)).hub = again(on)
  BY DEF Becomes, Result
<1>11. /\ s.gap => Sound(Failed, again(on))
       /\ ~s.gap => Sound(Failed + 1, again(gap))
  BY <1>7, <1>8, <1>9
<1> QED
  BY <1>3, <1>5, <1>7, <1>10, <1>11, DoesSound, FailsSound

\* The skip marker, written or not.
LEMMA SkipsSound ==
    ASSUME SignInv, QuorumInv, NEW h \in OHubs, NEW why, storeSkippedRound(h, why) \/ skipFails(h, why)
    PROVE  QuorumInv'
<1> DEFINE b == hub[h]
           u == Untracked(b)
           d == [u EXCEPT !.skips = @ \ {why}, !.row = IF @ = None THEN SkippedRow ELSE @,
                          !.skipped = @ \/ ~b.finalized]
           e == [b EXCEPT !.skips = @ \ {why}]
<1>1. Failed \in Nat /\ Shaped(b) /\ Sound(Failed, b)
  BY QuorumFacts
<1>2. Does(h, Becomes(Ended(d, why)), {}) \/ Fails("skip", h, b) \/ Fails("skip", h, Ended(e, why))
  BY DEF storeSkippedRound, skipFails
<1> HIDE DEF b
<1>3. Shaped(u) /\ Sound(Failed, u)
  BY <1>1, WatchedSound
<1> HIDE DEF u
<1>4. /\ d = [f \in HubFields |-> d[f]] /\ d.round = u.round /\ d.stores = u.stores
      /\ d.row \in {u.row, SkippedRow} /\ d.orphan = u.orphan
  BY <1>3 DEF Shaped, HubFields
<1>5. /\ e = [f \in HubFields |-> e[f]] /\ e.round = b.round /\ e.stores = b.stores
      /\ e.row = b.row /\ e.orphan = b.orphan
  BY <1>1 DEF Shaped, HubFields
<1> HIDE DEF d, e
<1>7. Sound(Failed, d) /\ Shaped(d)
  BY <1>3, <1>4 DEF Sound, SkippedRow, Shaped
<1>8. Sound(Failed, e) /\ Shaped(e)
  BY <1>1, <1>5, SoundKept DEF Shaped
<1>9. ASSUME NEW x, Sound(Failed, x), Shaped(x) PROVE Sound(Failed, Ended(x, why))
  <2> DEFINE y == [x EXCEPT !.round = None]
  <2>1. y.round = None /\ y.stores = x.stores /\ y.row = x.row /\ y.orphan = x.orphan
    BY <1>9 DEF Shaped, HubFields
  <2>2. Ended(x, why) \in {x, y}
    BY DEF Ended
  <2> HIDE DEF y
  <2> QED
    BY <1>9, <2>1, <2>2, SoundKept
<1>10. /\ Sound(Failed, Becomes(Ended(d, why)).hub) /\ Sound(Failed, Ended(e, why))
  BY <1>7, <1>8, <1>9 DEF Becomes, Result
<1> QED
  BY <1>1, <1>2, <1>10, DoesSound, FailsSound

\* Timers and submissions.
LEMMA TimersSound ==
    ASSUME SignInv, QuorumInv, NEW h \in OHubs,
           \/ leaderTimeoutPasses(h) \/ finalizationTimeout(h) \/ orphanTimeout(h) \/ fallbackTimer(h)
           \/ onRoundAbandoned(h) \/ noAdmissionTip(h) \/ \E s : receiveSubmission(h, s)
    PROVE  QuorumInv'
<1> DEFINE b == hub[h]
           c == [b EXCEPT !.fallback = "off"]
           Plain(d) == /\ d.round \in {b.round, None} /\ d.stores = b.stores /\ d.row = b.row
                       /\ d.orphan \subseteq b.orphan
           d1 == [b EXCEPT !.ready = "elapsed"]
           d2 == [b EXCEPT !.round = None]
           d3 == [b EXCEPT !.orphan = @ \ {"follow"}, !.round = None]
           d4 == [b EXCEPT !.watchdog = None]
           d5 == [b EXCEPT !.watchdog = @ + 1]
           d6 == [b EXCEPT !.watchdog = None, !.skips = @ \cup {"plain"}]
           d7 == [b EXCEPT !.seat = "done", !.draft = {}]
           d8(s) == [b EXCEPT !.view = @ \cup {s}]
           d9 == [b EXCEPT !.round.timer = "off"]
<1>1. Failed \in Nat /\ Shaped(b) /\ Sound(Failed, b)
  BY QuorumFacts
<1>2. \/ \E d \in {d1, d2, d3, d4, d5, d6} : Does(h, Becomes(d), {})
      \/ Fails("tip", h, d7) \/ (\E s : Does(h, Becomes(d8(s)), {}))
      \/ b.round # None /\ Does(h, Becomes(d9), {})
      \/ Does(h, Becomes(c), {}) \/ Does(h, ProposesFrom(h, c), {})
  <2>1. leaderTimeoutPasses(h) => Does(h, Becomes(d1), {})
    BY DEF leaderTimeoutPasses
  <2>2. finalizationTimeout(h) => \/ Does(h, Becomes(d2), {})
                                  \/ b.round # None /\ Does(h, Becomes(d9), {})
    BY DEF finalizationTimeout
  <2>3. orphanTimeout(h) => Does(h, Becomes(d3), {})
    BY DEF orphanTimeout
  <2>4. onRoundAbandoned(h) =>
            Does(h, Becomes(d4), {}) \/ Does(h, Becomes(d5), {}) \/ Does(h, Becomes(d6), {})
    BY DEF onRoundAbandoned
  <2>5. noAdmissionTip(h) => Fails("tip", h, d7)
    BY DEF noAdmissionTip
  <2>6. \A s : receiveSubmission(h, s) => Does(h, Becomes(d8(s)), {})
    BY DEF receiveSubmission
  <2>7. fallbackTimer(h) => Does(h, Becomes(c), {}) \/ Does(h, ProposesFrom(h, c), {})
    BY DEF fallbackTimer
  <2> HIDE DEF c, d1, d2, d3, d4, d5, d6, d7, d8, d9
  <2> QED
    BY <2>1, <2>2, <2>3, <2>4, <2>5, <2>6, <2>7
<1> HIDE DEF b
<1>3. /\ Plain(d1) /\ Plain(d2) /\ Plain(d3) /\ Plain(d4) /\ Plain(d5) /\ Plain(d6) /\ Plain(d7)
      /\ Plain(c) /\ c = [f \in HubFields |-> c[f]] /\ c.round = b.round
  BY <1>1 DEF Shaped, HubFields
<1>4. ASSUME NEW s PROVE Plain(d8(s))
  BY <1>1 DEF Shaped, HubFields
<1>5. b.round # None => Sound(Failed, d9)
  <2>1. b.round # None => /\ d9.stores = b.stores /\ d9.row = b.row /\ d9.orphan = b.orphan
                          /\ d9.round.timer = "off"
    BY <1>1 DEF Shaped, HubFields, RoundFields
  <2> HIDE DEF d9
  <2> QED BY <1>1, <2>1, SoundKept
<1> HIDE DEF c, d1, d2, d3, d4, d5, d6, d7, d8, d9
<1>6. \A d : Plain(d) => Sound(Failed, d)
  BY <1>1, SoundKept
<1>7. /\ \A d \in {c, d1, d2, d3, d4, d5, d6, d7} : Sound(Failed, d) /\ Becomes(d).hub = d
      /\ \A s : Sound(Failed, d8(s)) /\ Becomes(d8(s)).hub = d8(s)
      /\ Becomes(d9).hub = d9
  BY <1>3, <1>4, <1>6 DEF Becomes, Result
<1>8. Sound(Failed, ProposesFrom(h, c).hub)
  BY <1>1, <1>3, <1>7, ProposesSound DEF Shaped
<1> QED
  BY <1>2, <1>5, <1>7, <1>8, DoesSound, FailsSound

\* A hub stops.
LEMMA StopSound ==
    ASSUME SignInv, QuorumInv, NEW h \in OHubs, stop(h)
    PROVE  QuorumInv'
<1> DEFINE b == hub[h]
<1>1. Failed \in Nat /\ Shaped(b) /\ Sound(Failed, b)
  BY QuorumFacts
<1>2. PICK c : hub' = [hub EXCEPT ![h] = c] /\ StoppedAs(b, c)
  BY <1>1, Stopped DEF Shaped
<1> HIDE DEF b
<1>3. b.round # None => [b.round EXCEPT !.timer = "off"].timer = "off"
  BY <1>1 DEF Shaped, RoundFields
<1>4. /\ c.stores = b.stores /\ c.row = b.row /\ c.orphan = b.orphan
      /\ c.round # None => c.round.timer = "off"
  BY <1>2, <1>3 DEF StoppedAs
<1>5. Sound(Failed, c)
  BY <1>1, <1>4, SoundKept
<1>6. setting' = setting /\ mishaps' = mishaps
  BY DEF stop
<1>7. OHubs' = OHubs /\ Failed' = Failed
  BY <1>2, <1>6 DEF OHubs, Failed
<1>8. PlanInv'
  BY <1>6, <1>7 DEF QuorumInv, PlanInv
<1>9. PICK n : n = Failed
  OBVIOUS
<1>10. Failed' = n /\ Failed <= n /\ Sound(n, c) /\ hub' = [hub EXCEPT ![h] = c]
  BY <1>1, <1>2, <1>4, <1>5, <1>7, <1>9
<1> QED
  BY <1>6, <1>8, <1>10, SoundReplaced

\* A step that leaves the hubs alone.
LEMMA IdleSound ==
    ASSUME QuorumInv, hub' = hub, setting' = setting,
           mishaps' = mishaps \/ \E h, m : MessageLost(h, m)
    PROVE  QuorumInv'
<1>1. /\ mishaps' \in [{"store", "skip", "loss", "tip"} -> Nat]
      /\ mishaps'["store"] = mishaps["store"]
  BY DEF QuorumInv, PlanInv, MessageLost
<1>2. OHubs' = OHubs /\ Failed' = Failed
  BY <1>1 DEF OHubs, Failed
<1>3. PlanInv'
  BY <1>1, <1>2 DEF QuorumInv, PlanInv
<1>4. ASSUME NEW h \in OHubs PROVE Sound(Failed, hub[h])'
  <2>1. Sound(Failed, hub[h])
    BY DEF QuorumInv
  <2>2. \A proof : Quorate(proof)' = Quorate(proof)
    BY <1>2 DEF Quorate
  <2> QED
    BY <1>2, <2>1, <2>2 DEF Sound, Tallied
<1> QED
  BY <1>2, <1>3, <1>4 DEF QuorumInv

\* Every step preserves the invariant.
LEMMA StepQuorumInv ==
    ASSUME WritesHold, SoloHoldsStake
    PROVE  SignInv /\ QuorumInv /\ [ONext]_ovars => QuorumInv'
<1> SUFFICES ASSUME SignInv, QuorumInv, [ONext]_ovars PROVE QuorumInv'
  OBVIOUS
<1>1. CASE UNCHANGED ovars
  BY <1>1, IdleSound DEF ovars
<1>2. ASSUME NEW h \in OHubs, finalizeRetry(h) \/ orphanRetry(h) PROVE FALSE
  BY <1>2 DEF QuorumInv, Sound, finalizeRetry, orphanRetry
<1>3. CASE OSteps
  BY <1>2, <1>3, SeatsSound, HandlersSound, StoresSound, SkipsSound, TimersSound DEF OSteps
<1>4. ASSUME NEW h \in OHubs, NEW m, MessageLost(h, m) PROVE QuorumInv'
  BY <1>4, IdleSound DEF MessageLost
<1>5. CASE ONext /\ ~OSteps
  BY <1>4, <1>5, TimersSound, StoresSound, SkipsSound, HandlersSound, StopSound DEF ONext
<1> QED
  BY <1>1, <1>3, <1>5

\* No hub has stored anything.
LEMMA InitQuorumInv == OInit => QuorumInv
<1> SUFFICES ASSUME OInit PROVE QuorumInv
  OBVIOUS
<1>1. OHubs = DOMAIN setting.views /\ \A h \in OHubs : hub[h] = InitialHub(setting.views[h])
  BY DEF OInit, OHubs
<1>2. PlanInv
  BY <1>1, RoundPlansAssumption DEF OInit, PlanInv
<1>3. ASSUME NEW h \in OHubs PROVE Sound(Failed, hub[h])
  <2> DEFINE c == InitialHub(setting.views[h])
  <2>1. c.stores = {} /\ c.row = None /\ c.round = None /\ c.orphan = {}
    BY DEF InitialHub
  <2>2. hub[h] = c
    BY <1>1
  <2> HIDE DEF c
  <2> QED
    BY <2>1, <2>2 DEF Sound
<1> QED
  BY <1>2, <1>3 DEF QuorumInv

\* The proof stored with a round is one: its signatures were made over the payload
\* stored, and they are a quorum by count or by stake (commit.js quorumMet,
\* checkCommitQuorum), provided that the price write does not fail as often as it is
\* tried and that a hub which is alone in its snapshot holds the stake.
THEOREM StoredProofsHold ==
    ASSUME WritesHold, SoloHoldsStake
    PROVE  OSpec => []ProofBehindRow
<1>1. SignInv => SignersBehindRow
  BY DEF SignInv, HubsInv, HubOK, RowOK, Genuine, SignersBehindRow, Published, Ledger
<1>2. QuorumInv => CountBehindRow /\ StakeBehindRow
  BY DEF QuorumInv, Sound, Quorate, CountBehindRow, StakeBehindRow, Published
<1>3. SignInv /\ QuorumInv => ProofBehindRow
  BY <1>1, <1>2 DEF ProofBehindRow
<1>4. OInit => SignInv /\ QuorumInv
  BY InitSignInv, InitQuorumInv
<1>5. (SignInv /\ QuorumInv) /\ [ONext]_ovars => (SignInv /\ QuorumInv)'
  BY StepSignInv, StepQuorumInv
<1> QED
  BY <1>3, <1>4, <1>5, PTL DEF OSpec
=============================================================================
