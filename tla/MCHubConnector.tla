--------------------------- MODULE MCHubConnector ---------------------------
(* Instances of HubConnector for TLC. *)
EXTENDS HubConnector

CONSTANTS s1, s2, f1, f2

\* A forwarder for each session.
OneEach == [f \in {f1, f2} |-> IF f = f1 THEN s1 ELSE s2]

\* The first event of s2 is one the hub cannot parse.
OneUnparsable == {<<s2, 1>>}

OnlyFirst == {{s1}}

NoneUnparsable == {}

=============================================================================
