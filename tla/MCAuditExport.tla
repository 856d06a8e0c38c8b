---------------------------- MODULE MCAuditExport ----------------------------
(* The export beside two appending sessions, for TLC. *)
EXTENDS AuditExport
=============================================================================
