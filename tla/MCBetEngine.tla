---------------------------- MODULE MCBetEngine ----------------------------
(* Constants for model checking BetEngine. *)
EXTENDS BetEngine

MCDeltas == {-33}

\* For PayoutWidth.cfg: ten ids, used in ascending order, since any fresh one is
\* as good.
MCTenBets == 1 .. 10
MCIdsInOrder == \A b \in Bets : \A i \in 1 .. b : i \in Bets
=============================================================================
