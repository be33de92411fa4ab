---------------------------- MODULE MCAdapterIO ----------------------------
(* TLC instance of AdapterIO. *)
EXTENDS AdapterIO
=============================================================================
