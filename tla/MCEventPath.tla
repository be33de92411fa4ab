---------------------------- MODULE MCEventPath ----------------------------
(* TLC instance of EventPath: two connections, chunks below and above the  *)
(* cap, which two of them together reach and three of them pass.           *)
EXTENDS EventPath
=============================================================================
