------------------------ MODULE MCDataAvailability ------------------------
(* Instances of DataAvailability for TLC: up to two object stores and a    *)
(* Celestia node.                                                          *)
EXTENDS DataAvailability

CONSTANTS fs, gcs, celestia

All == [kind |-> "all", n |-> 0]
Quorum == [kind |-> "quorum", n |-> 0]
MCCelestia == {celestia} \cap Server
=============================================================================
