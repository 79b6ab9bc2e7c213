--------------------------- MODULE MCSeqWatermark ---------------------------
(* Instances of SeqWatermark for TLC. *)
EXTENDS SeqWatermark, TLC

\* Forwarder tasks are interchangeable.
ForwarderSymmetry == Permutations(Forwarders)
=============================================================================
