------------------------ MODULE MCZeroHeightExport ------------------------
(* Instances of ZeroHeightExport for TLC. *)
EXTENDS ZeroHeightExport
=============================================================================
