----------------------------- MODULE MCHostTree -----------------------------
(* The host tree over repeated updates of a few payloads.                 *)
EXTENDS HostTree

CONSTANTS t1, t2, t3
=============================================================================
