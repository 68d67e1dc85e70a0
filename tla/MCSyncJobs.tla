----------------------------- MODULE MCSyncJobs -----------------------------
(***************************************************************************)
(* Two artifacts a server requires, both from the folder of an edge: one   *)
(* has been promoted to the bucket, the sole copy of the other is here.    *)
(***************************************************************************)
EXTENDS SyncJobs

=============================================================================
