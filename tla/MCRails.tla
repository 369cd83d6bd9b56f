------------------------------- MODULE MCRails -------------------------------
(***************************************************************************)
(* The two rails by which agreed rows leave a hub, in one run: a behaviour *)
(* is about the rounds of MCCrossChainPbft, the quorum rules behind them,  *)
(* or the publish rail of MCPricePublisher; the rest stands still.         *)
(***************************************************************************)
EXTENDS MCCrossChainPbft, MCPricePublisher

RailsInit ==
    \/ QuorumOrRounds /\ Init /\ budget = CHOOSE b \in Budgets : TRUE
    \/ /\ subject = "publisher" /\ Init
       /\ XInit /\ scenario = CHOOSE s \in Scenarios : TRUE
       /\ QuorumInit /\ ~snapshot.truncated

RailsNext ==
    \/ EitherNext /\ UNCHANGED vars
    \/ subject = "publisher" /\ Next /\ UNCHANGED <<xvars, snapshot, subject>>

RailsSpec == RailsInit /\ [][RailsNext]_<<vars, xvars, snapshot, subject>>
=============================================================================
