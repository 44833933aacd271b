-------------------------- MODULE MCAppLifecycle --------------------------
(* AppLifecycle on small instances; the .cfg chooses the bounds. *)
EXTENDS AppLifecycle
=============================================================================
