-------------------------- MODULE MCPricePublisher --------------------------
(***************************************************************************)
(* Instances of PricePublisher.  Windows of two rounds: rounds 4 and 5 are *)
(* window 2, which this hub leads; round 3 is the last of window 1, which  *)
(* another hub leads.                                                      *)
(***************************************************************************)
EXTENDS PricePublisher

\* Fault budgets: n faults of one kind and one of another.
Faults(kind, n, other) == [k \in FaultKinds |-> IF k = kind THEN n ELSE IF k = other THEN 1 ELSE 0]

\* A restart and a fault of another kind, two failed sends among them; or a
\* retraction and a failed query or send.
MCRestarts ==
    {Faults(k, 1, "crash") : k \in FaultKinds \ {"crash", "send", "retract"}}
    \cup {Faults("send", 2, "crash"), Faults("retract", 1, "db"), Faults("retract", 1, "send")}
=============================================================================
