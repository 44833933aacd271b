------------------------ MODULE MCHostCertificates ------------------------
(* HostCertificates on small instances; the .cfg chooses the bounds. *)
EXTENDS HostCertificates
=============================================================================
