----------------------------- MODULE MCAmiCache -----------------------------
(* Instance of AmiCache for TLC. *)
EXTENDS AmiCache
=============================================================================
