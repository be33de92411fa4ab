---------------------------- MODULE MCHandshake ----------------------------
(* Handshake on small instances: one adapter, at most MaxFiles files.      *)
EXTENDS Handshake
============================================================================
