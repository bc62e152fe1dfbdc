----------------------------- MODULE StatusSyncMC -----------------------------
(* One module of one host, requests q1 and q2.                                *)
EXTENDS StatusSync
=============================================================================
