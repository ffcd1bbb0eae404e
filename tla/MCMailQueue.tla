---------------------------- MODULE MCMailQueue -----------------------------
(* A small instance of MailQueue for TLC: two connections, two workers and a user. *)
EXTENDS MailQueue
=============================================================================
