---------------------------- MODULE MCTurnOwners ----------------------------
(* Two turns of one conversation: the cancelled one and the one that         *)
(* replaces it.  What is proved of TurnOwners holds for any number.          *)
EXTENDS TurnOwners

CONSTANTS l1, l2

MCTwoLeases == {l1, l2}
=============================================================================
