-------------------------- MODULE MCKeyAuditExport --------------------------
(* The key-lifecycle stream for TLC: two sessions that append, two contents, *)
(* and the export beside them.                                               *)
EXTENDS KeyAuditExport

FairStreamSpec == Spec /\ Fairness
=============================================================================
