--------------------------- MODULE MCProviderAuth ---------------------------
(* Instances of ProviderAuth for TLC. *)
EXTENDS ProviderAuth, TLC

CONSTANTS p1, p2, c1

\* Both processes use the credential; the user logs in and out in one of them.
OneUser == {<<p1, Refresher>>, <<p1, c1>>, <<p1, User>>, <<p2, c1>>}

=============================================================================
