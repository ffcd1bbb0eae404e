----------------------------- MODULE MCMailSync -----------------------------
(* Small instances of MailSync for TLC: one linked mailbox, its job and its cursor. *)
EXTENDS MailSync
=============================================================================
