----------------------- MODULE MCExplorerDeployment -----------------------
(* ExplorerDeployment on small instances; the .cfg files choose the bounds. *)
EXTENDS ExplorerDeployment
===========================================================================
