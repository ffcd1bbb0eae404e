------------------------------ MODULE MCLedger ------------------------------
(* Small instances of Ledger for TLC: a payment that a notification n1 and a mail g1 both  *)
(* report, and another payment's mail g2.                                                  *)
EXTENDS Ledger

CONSTANTS n1, g1, g2

MCTwin == {<<n1, g1>>, <<g1, n1>>}

\* the notification says too little to be trusted, the mails are clear
MCConfidence == [s \in Signals |-> IF s = n1 THEN "low" ELSE "high"]
=============================================================================
