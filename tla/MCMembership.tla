---------------------------- MODULE MCMembership ----------------------------
(* An annual membership and a weekly one. *)
EXTENDS Membership, TLC

Ev(m, k, type, raw, i) == [of |-> m, n |-> k, type |-> type, raw |-> raw, interval |-> i]

MCMemberships == {"annual", "weekly"}
Bought == Ev("annual", 1, "membership.activated", "active", "annual")
Weekly == Ev("weekly", 1, "membership.activated", "completed", "weekly")
MCEvents == {Bought, Weekly}
MCSymmetry == Permutations(Ids) \cup Permutations(Handlers) \cup Permutations(Managers)
=============================================================================
