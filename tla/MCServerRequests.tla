-------------------------- MODULE MCServerRequests --------------------------
(* Instances of ServerRequests for TLC. *)
EXTENDS ServerRequests, TLC

RoutingSymmetry == Permutations(Conns) \cup Permutations(Requests) \cup Permutations(Ids)
=============================================================================
