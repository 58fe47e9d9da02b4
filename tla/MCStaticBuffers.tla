--------------------------- MODULE MCStaticBuffers ---------------------------
(* An instance of StaticBuffers for TLC.  A symmetry of the clients would not *)
(* be sound for CallsReturn.                                                  *)
EXTENDS StaticBuffers
=============================================================================
