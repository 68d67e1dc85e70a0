--------------------------- MODULE MCIngestBridge ---------------------------
(* Instances of IngestBridge for TLC.                                      *)
EXTENDS IngestBridge
=============================================================================
