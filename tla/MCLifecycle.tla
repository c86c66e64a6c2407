----------------------------- MODULE MCLifecycle -----------------------------
(* Lifecycle for TLC: every kind of audit backend.                         *)
EXTENDS Lifecycle

MCAuditModes == {"off", "blocking", "batch"}
=============================================================================
