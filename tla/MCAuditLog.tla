----------------------------- MODULE MCAuditLog -----------------------------
(* AuditLog on small instances.                                              *)
EXTENDS AuditLog
=============================================================================
