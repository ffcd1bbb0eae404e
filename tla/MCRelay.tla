------------------------------ MODULE MCRelay -------------------------------
(* One provider: a confirmation, a payment and a link test.  A behaviour is one of the relay *)
(* itself or of its card, and the variables of the other stay where they begin.              *)
EXTENDS Relay, Card, TLC

VARIABLE part

M(a, k, kind, proof, t) ==
  [to |-> a, id |-> k, provider |-> "gmail", proof |-> proof, kind |-> kind, test |-> t]
FirstTest == [of |-> [alias |-> 1, provider |-> "gmail", n |-> 1], n |-> 1]

Confirm == M(1, 1, "verification", "strong", NoTest)
Pay == M(1, 2, "financial", "path", NoTest)
Prove == M(1, 3, "test", "path", FirstTest)

MCMails == {Confirm, Pay, Prove}
MCSymmetry == Permutations(Handlers) \cup Permutations(Calls)

PartInit ==
  /\ part \in {"relay", "card"} /\ Init /\ CardInit
  /\ part = "relay" => relay = NoRelay
PartNext ==
  \/ part = "relay" /\ Next /\ UNCHANGED <<part, relayCard>>
  \/ part = "card" /\ CardNext /\ UNCHANGED <<part, vars>>
PartSpec == PartInit /\ [][PartNext]_<<part, vars, relayCard>>
=============================================================================
