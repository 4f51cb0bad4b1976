----------------------------- MODULE MCAuditLog -----------------------------
(* AuditLog on the small disks of its configurations. *)
EXTENDS AuditLog

=============================================================================
