------------------------- MODULE MCTurnCoordinator --------------------------
(* TLC instance of TurnCoordinator. *)
EXTENDS TurnCoordinator

=============================================================================
