--------------------------- MODULE DeletionPromise ---------------------------
(***************************************************************************)
(* What the retraction rail promises the indexers that mirror a hub: a     *)
(* deletion they are sent without signatures is one the hub's own indexer  *)
(* asked for, and one with signatures carries those of a quorum of hubs    *)
(* whose indexers all asked for it.  No hub deletes on another hub's word. *)
(***************************************************************************)
CONSTANTS
    Members,        \* the hubs
    Certifies(_, _) \* may a hub stream a set of signatures as a quorum

VARIABLES
    asked,          \* the hubs whose own indexer retracted the rows
    streams         \* deletions sent to the mirrors: [hub, by], by = {} unsigned

PromiseInit == asked = {} /\ streams = {}

Ask(h) == asked' = asked \cup {h} /\ UNCHANGED streams

StreamUnsigned(h) ==
    /\ h \in asked
    /\ streams' = streams \cup {[hub |-> h, by |-> {}]}
    /\ UNCHANGED asked

StreamSigned(h, by) ==
    /\ by \subseteq asked /\ Certifies(h, by)
    /\ streams' = streams \cup {[hub |-> h, by |-> by]}
    /\ UNCHANGED asked

PromiseNext ==
    \E h \in Members : Ask(h) \/ StreamUnsigned(h) \/ \E by \in SUBSET Members : StreamSigned(h, by)

Promise == PromiseInit /\ [][PromiseNext]_<<asked, streams>>
=============================================================================
