-------------------------- MODULE MCTransportClient --------------------------
(* Instances of TransportClient for TLC.  A symmetry of the calls would not   *)
(* be sound for CloseEnds.                                                    *)
EXTENDS TransportClient
=============================================================================
