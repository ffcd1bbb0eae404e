------------------------------ MODULE MCBackup ------------------------------
(* Two connections that come due at different times while their users do nothing, or one  *)
(* whose user asks for things while the other is disconnected.                            *)
EXTENDS Backup, TLC

CONSTANTS c1, c2

Quiet == /\ clock = 0 /\ asks = [c \in Conns |-> MaxAsks] /\ conn[c1].next = 0 /\ conn[c2].next = 1
         /\ \A c \in Conns : creds[c] = "good"
Busy == /\ clock = 1 /\ asks = (c1 :> 0) @@ (c2 :> MaxAsks)
        /\ creds[c1] = "old" /\ conn[c1].next = 1
        /\ creds[c2] = "none" /\ conn[c2].next = 1

MCInit == Init /\ data[c1] = {} /\ data[c2] = Postings /\ (Quiet \/ Busy)
MCSpec == MCInit /\ [][Next]_vars /\ Fairness
=============================================================================
