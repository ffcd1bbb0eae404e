----------------------------- MODULE LeaseQueue -----------------------------
(***************************************************************************)
(* What the mail queue promises, without rows, tokens or invocations'      *)
(* program counters: each connection has at most one piece of work, which  *)
(* is idle, queued or owned; only an owner whose lease has run out is      *)
(* replaced, and only the current owner completes the work.                *)
(***************************************************************************)
CONSTANTS Conns, Owners, Nobody

VARIABLES
  work,   \* "idle", "queued" or "owned"
  owner,  \* who completes owned work; Nobody when the owner is gone
  lease   \* the owner's lease still holds

qvars == <<work, owner, lease>>

Init ==
  /\ work \in [Conns -> {"idle", "owned"}]
  /\ owner = [c \in Conns |-> Nobody]
  /\ lease = [c \in Conns |-> work[c] = "owned"]

Set(c, w, o, l) ==
  /\ work' = [work EXCEPT ![c] = w]
  /\ owner' = [owner EXCEPT ![c] = o]
  /\ lease' = [lease EXCEPT ![c] = l]

Enqueue(c) == work[c] = "idle" /\ Set(c, "queued", Nobody, FALSE)

\* One claim call takes every connection of S for the same owner.
Take(S, o) ==
  /\ \A c \in S : work[c] = "queued" \/ (work[c] = "owned" /\ ~lease[c])
  /\ work' = [c \in Conns |-> IF c \in S THEN "owned" ELSE work[c]]
  /\ owner' = [c \in Conns |-> IF c \in S THEN o ELSE owner[c]]
  /\ lease' = [c \in Conns |-> IF c \in S THEN TRUE ELSE lease[c]]

Expire(c) == work[c] = "owned" /\ lease[c] /\ Set(c, "owned", owner[c], FALSE)

\* o forgets everything it owns; the leases stay until they expire
OwnerDies(o) ==
  /\ owner' = [c \in Conns |-> IF owner[c] = o THEN Nobody ELSE owner[c]]
  /\ UNCHANGED <<work, lease>>

Complete(c) == work[c] = "owned" /\ owner[c] \in Owners /\ Set(c, "idle", Nobody, FALSE)

\* the connection is deleted with its work
Drop(c) == Set(c, "idle", Nobody, FALSE)

Next ==
  \/ \E c \in Conns : Enqueue(c) \/ Expire(c) \/ Complete(c) \/ Drop(c)
  \/ \E S \in SUBSET Conns, o \in Owners : Take(S, o)
  \/ \E o \in Owners : OwnerDies(o)

Spec == Init /\ [][Next]_qvars
=============================================================================
