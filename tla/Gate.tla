-------------------------------- MODULE Gate --------------------------------
(***************************************************************************)
(* The door of the mail gateway.  The worker at the edge signs a mail with *)
(* the time and a nonce (workers/email-relay); the request may be repeated *)
(* and delayed on its way.  The gateway checks the signature and the time, *)
(* and then, in a call to the database of its own, claims the nonce and a  *)
(* place in the window of its alias.  Time passes between any two steps.   *)
(***************************************************************************)
EXTENDS Integers, FiniteSets

CONSTANTS
  Mails,      \* mails that reach the worker; a nonce is drawn for each
  Copies,     \* invocations of the gateway that a request may reach
  Tolerance,  \* EMAIL_RELAY_SIGNATURE_TOLERANCE_SECONDS
  Kept,       \* for how long after its timestamp a nonce is kept
  Skew,       \* how far the worker's clock may be off
  MaxRun,     \* external: how long an invocation may take from one check to the next
  Window, Limit, \* the window of the rate limit, and what it admits
  MaxTime     \* bound: the clock

ASSUME GateAssumption ==
  /\ {Tolerance, Kept, Skew, MaxRun, Limit, MaxTime} \subseteq Nat /\ Window \in Nat \ {0}
  /\ Tolerance + MaxRun <= Kept

VARIABLES
  time, signed,   \* the clock; the timestamp of each request, -1 before it is sent
  at, since,      \* where an invocation is, and since when
  replays, counts, \* nonces and when they expire (-1: no row); requests of each window
  entered         \* history: how often a mail got through

gate == <<time, signed, at, since, replays, counts, entered>>

\* sign: body, nonce and the worker's clock
Sign(m, ts) ==
  /\ signed[m] = -1 /\ ts \in (time - Skew)..(time + Skew) /\ ts >= 0
  /\ signed' = [signed EXCEPT ![m] = ts]
  /\ UNCHANGED <<time, at, since, replays, counts, entered>>

InTime(ts) == time - ts <= Tolerance /\ ts - time <= Tolerance

\* verifyRelaySignature
Verify(m, c) ==
  /\ signed[m] >= 0 /\ at[m][c] = "away" /\ InTime(signed[m])
  /\ at' = [at EXCEPT ![m][c] = "verified"]
  /\ since' = [since EXCEPT ![m][c] = time]
  /\ UNCHANGED <<time, signed, replays, counts, entered>>

\* mutant: a nonce is kept only as long as its timestamp is accepted
ExpiryAtTolerance(ts) == ts + Tolerance

Expiry(ts) == ts + Kept

\* service_claim_email_relay_replay: old nonces go first; one that is there is a replay
ClaimNonce(m, c) ==
  /\ at[m][c] = "verified"
  /\ LET left == [n \in Mails |-> IF replays[n] < time THEN -1 ELSE replays[n]]
         won == left[m] = -1
     IN /\ replays' = IF won THEN [left EXCEPT ![m] = Expiry(signed[m])] ELSE left
        /\ at' = [at EXCEPT ![m][c] = IF won THEN "claimed" ELSE "refused"]
  /\ UNCHANGED <<time, signed, since, counts, entered>>

\* service_take_email_relay_rate_limit, of the one alias the mails are for
TakeRate(m, c) ==
  /\ at[m][c] = "claimed"
  /\ LET bucket == time \div Window
         n == counts[bucket] + 1
     IN /\ counts' = [counts EXCEPT ![bucket] = n]
        /\ at' = [at EXCEPT ![m][c] = IF n <= Limit THEN "in" ELSE "refused"]
        /\ entered' = IF n <= Limit THEN [entered EXCEPT ![m] = @ + 1] ELSE entered
  /\ UNCHANGED <<time, signed, since, replays>>

\* The call fails, or the invocation is stopped; the worker rejects the mail.
GateFails(m, c) ==
  /\ at[m][c] \in {"verified", "claimed"}
  /\ at' = [at EXCEPT ![m][c] = "refused"]
  /\ UNCHANGED <<time, signed, since, replays, counts, entered>>

\* No invocation outlives MaxRun.
Pass ==
  /\ time < MaxTime /\ time' = time + 1
  /\ \A m \in Mails, c \in Copies : at[m][c] \in {"verified", "claimed"} => time - since[m][c] < MaxRun
  /\ UNCHANGED <<signed, at, since, replays, counts, entered>>

GateInit ==
  /\ time = 0 /\ signed = [m \in Mails |-> -1]
  /\ at = [m \in Mails |-> [c \in Copies |-> "away"]] /\ since = [m \in Mails |-> [c \in Copies |-> 0]]
  /\ replays = [m \in Mails |-> -1] /\ counts = [b \in 0..MaxTime |-> 0]
  /\ entered = [m \in Mails |-> 0]

GateNext ==
  \/ \E m \in Mails, ts \in 0..(MaxTime + Skew) : Sign(m, ts)
  \/ \E m \in Mails, c \in Copies : Verify(m, c) \/ ClaimNonce(m, c) \/ TakeRate(m, c) \/ GateFails(m, c)
  \/ Pass

GateSpec == GateInit /\ [][GateNext]_gate

-----------------------------------------------------------------------------
\* However often a signed request arrives, however late, and wherever its invocations pause,
\* it gets through once: a nonce is forgotten only when no invocation that has verified its
\* timestamp can still be about to claim it, so two invocations never hold it together.
\* (email-relay.ts verifyRelaySignature, service_claim_email_relay_replay)
AcceptedOnce ==
  /\ \A m \in Mails : entered[m] <= 1
  /\ \A m \in Mails, c, d \in Copies : c # d => {at[m][c], at[m][d]} # {"claimed"}
=============================================================================
