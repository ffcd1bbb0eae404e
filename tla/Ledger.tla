------------------------------- MODULE Ledger -------------------------------
(***************************************************************************)
(* How detected payments become transactions: ingestCandidate with its     *)
(* duplicate checks, applyCandidateAutomation, the user's decisions        *)
(* through transaction-confirm, the reprocessing of pending candidates and *)
(* the retention purge, for one user.                                      *)
(*                                                                         *)
(* A signal is one message or notification, identified by provider and     *)
(* fingerprint; a payment may be reported by several signals.  Rules,      *)
(* preferences, accounts and the subscription are read afresh by every     *)
(* automation and may change at any time, so what it reads is left open;   *)
(* only the parser's confidence in a signal is fixed.                      *)
(***************************************************************************)
EXTENDS Integers, FiniteSets

CONSTANTS
  Signals,    \* signals that may be ingested
  Twin,       \* pairs that nearby lookups match: another provider (or relay source), same
              \* kind, amount and currency, within 15 minutes, compatible merchants
  Confidence, \* of each signal: "low" (below auto_review_min_confidence, which the parser's
              \* own minimum, 0.795, is when the preference is set above it), "mid" or "high"
  Ingesters,  \* concurrent invocations that ingest signals
  Reviewers,  \* concurrent invocations of transaction-confirm and account-manage
  NoSignal,
  Target      \* calibration_target, 3 to 5 in the code

Procs == Ingesters \cup Reviewers

ASSUME LedgerAssumption ==
  /\ NoSignal \notin Signals
  /\ Twin \subseteq Signals \X Signals
  /\ \A s, t \in Signals : <<s, t>> \in Twin => <<t, s>> \in Twin
  /\ Confidence \in [Signals -> {"low", "mid", "high"}]
  /\ Ingesters \cap Reviewers = {}
  /\ Target \in Nat

VARIABLES
  status,      \* transaction_candidates.status; "none" before, "purged" after the row exists
  dupOf,       \* transaction_candidates.duplicate_of
  held,        \* signals whose review_reason is onboarding_calibration
  ledger,      \* signals with a row in public.transactions (source_candidate_id)
  posts,       \* history: transactions ever created for a signal
  confirmed,   \* onboarding_state.associations_confirmed
  calibrating, \* onboarding_state.completed_at is null
  pc,          \* where an invocation is
  sig,         \* the signal it is working on
  saw,         \* the cross-source match it found
  count,       \* the associations_confirmed it read
  todo         \* pending candidates it still has to reprocess

candVars == <<status, dupOf, held>>
txVars == <<ledger, posts>>
boardVars == <<confirmed, calibrating>>
procVars == <<pc, sig, saw, count, todo>>
vars == <<candVars, txVars, boardVars, procVars>>

Statuses == {"none", "pending", "accepted", "rejected", "duplicate", "expired", "purged"}
Decided == {"accepted", "rejected", "duplicate", "expired"}

Pending == {s \in Signals : status[s] = "pending"}

\* the candidates a nearby lookup for s may match
Live(s) == {t \in Signals : <<t, s>> \in Twin /\ status[t] \in {"pending", "accepted"}}

Goto(p, l) == pc' = [pc EXCEPT ![p] = l]

\* the invocation answers, or an error is thrown: its variables are gone
End(p) ==
  /\ Goto(p, "idle")
  /\ sig' = [sig EXCEPT ![p] = NoSignal]
  /\ saw' = [saw EXCEPT ![p] = NoSignal]
  /\ count' = [count EXCEPT ![p] = 0]
  /\ todo' = [todo EXCEPT ![p] = {}]

\* on to the next candidate of a reprocessing, if any
Proceed(p) ==
  \/ todo[p] = {} /\ End(p)
  \/ \E s \in todo[p] :
       /\ Goto(p, "automate")
       /\ sig' = [sig EXCEPT ![p] = s]
       /\ todo' = [todo EXCEPT ![p] = @ \ {s}]
       /\ UNCHANGED <<saw, count>>

-----------------------------------------------------------------------------
(* ingestCandidate. *)

\* A source hands over s, perhaps again: an overlapping sync, a retried batch.  A purged
\* candidate is too old for its source to report (Gmail lists 30 days back).
IngestStart(p, s) ==
  /\ pc[p] = "idle" /\ status[s] # "purged"
  /\ Goto(p, "lookup")
  /\ sig' = [sig EXCEPT ![p] = s]
  /\ UNCHANGED <<candVars, txVars, boardVars, saw, count, todo>>

\* a candidate with the signal's fingerprint exists: nothing more is done about it
Lookup(p) ==
  /\ pc[p] = "lookup"
  /\ IF status[sig[p]] = "none" THEN Goto(p, "nearby") /\ UNCHANGED <<sig, saw, count, todo>>
                                ELSE End(p)
  /\ UNCHANGED <<candVars, txVars, boardVars>>

\* mutant: candidates that were posted already are not looked at
NearbyPending(p) == Live(sig[p]) \cap Pending

NearbyMatches(p) == Live(sig[p])

Nearby(p) ==
  /\ pc[p] = "nearby"
  /\ \/ NearbyMatches(p) = {} /\ UNCHANGED saw
     \/ \E t \in NearbyMatches(p) : saw' = [saw EXCEPT ![p] = t]
  /\ Goto(p, "insert")
  /\ UNCHANGED <<candVars, txVars, boardVars, sig, count, todo>>

\* the row of another invocation, inserted since the lookup, wins by the unique index
Insert(p) ==
  LET s == sig[p] IN
    /\ pc[p] = "insert"
    /\ IF status[s] # "none" THEN End(p) /\ UNCHANGED <<status, dupOf>>
       ELSE IF saw[p] = NoSignal
         THEN /\ status' = [status EXCEPT ![s] = "pending"]
              /\ Goto(p, "automate")
              /\ UNCHANGED <<dupOf, sig, saw, count, todo>>
         ELSE /\ status' = [status EXCEPT ![s] = "duplicate"]
              /\ dupOf' = [dupOf EXCEPT ![s] = saw[p]]
              /\ End(p)
    /\ UNCHANGED <<held, txVars, boardVars>>

-----------------------------------------------------------------------------
(* applyCandidateAutomation, for an ingested or a reprocessed candidate. *)

\* decideAutomationPolicy: an account and a category decide with the confidence, hence only
\* what may happen is fixed
MayIgnore(s) == Confidence[s] = "low"
MayPost(s) == Confidence[s] = "high"

\* markReview: for want of a subscription, of permission, of an account, of confidence
MarkReview(p) ==
  /\ pc[p] = "automate"
  /\ held' = IF status[sig[p]] = "pending" THEN held \ {sig[p]} ELSE held
  /\ Proceed(p)
  /\ UNCHANGED <<status, dupOf, txVars, boardVars>>

\* mutant: the update does not ask for a pending candidate
IgnoreAny(s) == [status EXCEPT ![s] = "expired"]

IgnorePending(s) == [status EXCEPT ![s] = IF @ = "pending" THEN "expired" ELSE @]

\* confidence below the review threshold: the candidate is dropped.  The error of the
\* update is not looked at, so it may be lost.
Ignore(p) ==
  /\ pc[p] = "automate" /\ MayIgnore(sig[p])
  /\ \/ UNCHANGED <<status, held>>
     \/ /\ status' = IgnorePending(sig[p])
        /\ held' = IF status[sig[p]] = "pending" THEN held \ {sig[p]} ELSE held
  /\ Proceed(p)
  /\ UNCHANGED <<dupOf, txVars, boardVars>>

\* needsOnboardingCalibration and shouldHoldForCalibration
HoldForCalibration(s) ==
  /\ calibrating /\ confirmed < Target
  /\ s \in held \/ Cardinality(held \cap Pending) < Target - confirmed

\* The policy allows an automatic posting; calibration may need the example more.  Its
\* three reads are issued together and taken as one.
Calibrate(p) ==
  /\ pc[p] = "automate" /\ MayPost(sig[p])
  /\ Goto(p, IF HoldForCalibration(sig[p]) THEN "hold" ELSE "post")
  /\ UNCHANGED <<candVars, txVars, boardVars, sig, saw, count, todo>>

Hold(p) ==
  /\ pc[p] = "hold"
  /\ held' = IF status[sig[p]] = "pending" THEN held \cup {sig[p]} ELSE held
  /\ Proceed(p)
  /\ UNCHANGED <<status, dupOf, txVars, boardVars>>

\* the transaction and the accepted candidate, in one database transaction
Post(s) ==
  /\ status' = [status EXCEPT ![s] = "accepted"]
  /\ ledger' = ledger \cup {s}
  /\ posts' = [posts EXCEPT ![s] = @ + 1]

\* auto_post_transaction_candidate: idempotent while the transaction exists, otherwise
\* it raises, as it does for an account archived meanwhile, and the invocation ends
AutoPost(p) ==
  LET s == sig[p] IN
    /\ pc[p] = "post"
    /\ \/ status[s] = "pending" /\ Post(s) /\ held' = held \ {s} /\ Proceed(p)
       \/ status[s] # "pending" /\ s \in ledger /\ Proceed(p) /\ UNCHANGED <<status, held, txVars>>
       \/ s \notin ledger /\ End(p) /\ UNCHANGED <<status, held, txVars>>
    /\ UNCHANGED <<dupOf, boardVars>>

-----------------------------------------------------------------------------
(* transaction-confirm and account-manage. *)

\* mutant: a retry after the transaction was deleted posts it again
AcceptableAgain(s) == status[s] = "pending" \/ (status[s] = "accepted" /\ s \notin ledger)

Acceptable(s) == status[s] = "pending"

\* accept_transaction_candidate; a retry finds the transaction and goes on like the first
\* call, and every other call is refused
Accept(p, s) ==
  /\ pc[p] = "idle"
  /\ \/ Acceptable(s) /\ Post(s)
     \/ ~Acceptable(s) /\ status[s] = "accepted" /\ s \in ledger /\ UNCHANGED <<status, txVars>>
  /\ Goto(p, "record")
  /\ UNCHANGED <<dupOf, held, boardVars, sig, saw, count, todo>>

\* recordOnboardingAssociation reads the counter ...
RecordRead(p) ==
  /\ pc[p] = "record"
  /\ IF calibrating /\ confirmed < Target
       THEN Goto(p, "confirm") /\ count' = [count EXCEPT ![p] = confirmed]
       ELSE Goto(p, "list") /\ UNCHANGED count
  /\ UNCHANGED <<candVars, txVars, boardVars, sig, saw, todo>>

\* ... and writes what it read plus one
RecordWrite(p) ==
  /\ pc[p] = "confirm"
  /\ confirmed' = count[p] + 1
  /\ Goto(p, "list")
  /\ UNCHANGED <<candVars, txVars, calibrating, sig, saw, count, todo>>

\* reprocessPendingCandidates lists the pending candidates, and works through the list
Reprocess(p) ==
  /\ pc[p] = "list"
  /\ \/ Pending = {} /\ End(p)
     \/ \E s \in Pending :
          /\ Goto(p, "automate")
          /\ sig' = [sig EXCEPT ![p] = s]
          /\ todo' = [todo EXCEPT ![p] = Pending \ {s}]
          /\ UNCHANGED <<saw, count>>
  /\ UNCHANGED <<candVars, txVars, boardVars>>

\* account-manage created an account
AccountCreated(p) ==
  /\ pc[p] = "idle"
  /\ Goto(p, "list")
  /\ UNCHANGED <<candVars, txVars, boardVars, sig, saw, count, todo>>

\* the user rejects a pending candidate or marks it as a duplicate
Decline(s) ==
  /\ status[s] = "pending"
  /\ \E d \in {"rejected", "duplicate"} : status' = [status EXCEPT ![s] = d]
  /\ UNCHANGED <<dupOf, held, txVars, boardVars, procVars>>

-----------------------------------------------------------------------------
DeleteTransaction(s) ==
  /\ s \in ledger
  /\ ledger' = ledger \ {s}
  /\ UNCHANGED <<candVars, posts, boardVars, procVars>>

\* A backup is restored: every transaction is replaced by the backup's, which carry no
\* source_candidate_id; the candidates stay as they are.
Restore ==
  /\ ledger # {}
  /\ ledger' = {}
  /\ UNCHANGED <<candVars, posts, boardVars, procVars>>

CompleteOnboarding ==
  /\ calibrating
  /\ calibrating' = FALSE
  /\ UNCHANGED <<candVars, txVars, confirmed, procVars>>

\* service_purge_expired_data: rejected candidates after 30 days, duplicates and expired
\* ones after 90; duplicate_of is set to null where it named one of them
Purge ==
  /\ \E S \in SUBSET {s \in Signals : status[s] \in {"rejected", "duplicate", "expired"}} :
       /\ S # {}
       /\ status' = [s \in Signals |-> IF s \in S THEN "purged" ELSE status[s]]
       /\ dupOf' = [s \in Signals |->
                      IF s \in S \/ dupOf[s] \in S THEN NoSignal ELSE dupOf[s]]
       /\ held' = held \ S
  /\ UNCHANGED <<txVars, boardVars, procVars>>

\* an invocation dies, or throws, between two awaits; the source or the user may retry
Stop(p) ==
  /\ pc[p] # "idle"
  /\ End(p)
  /\ UNCHANGED <<candVars, txVars, boardVars>>

Init ==
  /\ status = [s \in Signals |-> "none"]
  /\ dupOf = [s \in Signals |-> NoSignal]
  /\ held = {}
  /\ ledger = {}
  /\ posts = [s \in Signals |-> 0]
  /\ confirmed = 0
  /\ calibrating \in BOOLEAN
  /\ pc = [p \in Procs |-> "idle"]
  /\ sig = [p \in Procs |-> NoSignal]
  /\ saw = [p \in Procs |-> NoSignal]
  /\ count = [p \in Procs |-> 0]
  /\ todo = [p \in Procs |-> {}]

Automate(p) == MarkReview(p) \/ Ignore(p) \/ Calibrate(p) \/ Hold(p) \/ AutoPost(p)

Next ==
  \/ \E p \in Ingesters : \/ \E s \in Signals : IngestStart(p, s)
                          \/ Lookup(p) \/ Nearby(p) \/ Insert(p)
  \/ \E p \in Reviewers : \/ \E s \in Signals : Accept(p, s)
                          \/ RecordRead(p) \/ RecordWrite(p) \/ Reprocess(p) \/ AccountCreated(p)
  \/ \E p \in Procs : Automate(p) \/ Stop(p)
  \/ \E s \in Signals : Decline(s) \/ DeleteTransaction(s)
  \/ Restore
  \/ CompleteOnboarding
  \/ Purge

Spec == Init /\ [][Next]_vars

-----------------------------------------------------------------------------
Places == {"idle", "lookup", "nearby", "insert", "automate", "hold", "post",
           "record", "confirm", "list"}
Working == {"lookup", "nearby", "insert", "automate", "hold", "post"}

DataTypes ==
  /\ status \in [Signals -> Statuses]
  /\ dupOf \in [Signals -> Signals \cup {NoSignal}]
  /\ held \subseteq Signals
  /\ ledger \subseteq Signals
  /\ posts \in [Signals -> Nat]
  /\ confirmed \in 0..Target
  /\ calibrating \in BOOLEAN

ProcTypes ==
  /\ pc \in [Procs -> Places]
  /\ sig \in [Procs -> Signals \cup {NoSignal}]
  /\ saw \in [Procs -> Signals \cup {NoSignal}]
  /\ count \in [Procs -> 0..Target]
  /\ todo \in [Procs -> SUBSET Signals]
  /\ \A p \in Procs : pc[p] \in Working => sig[p] \in Signals
  /\ \A p \in Procs : pc[p] = "confirm" => count[p] < Target

\* Types; the onboarding counter stays within its target although it is written from a
\* stale read.
TypeOK == DataTypes /\ ProcTypes

\* FR-LED-007: a signal is posted once when it is accepted and never otherwise, whoever
\* accepts it, however often the call is retried, and also after its transaction was
\* deleted by the user or replaced by a restore.
PostedOnce ==
  /\ \A s \in Signals : posts[s] = (IF status[s] = "accepted" THEN 1 ELSE 0)
  /\ \A s \in ledger : status[s] = "accepted"

\* A decision stands: an automation that read the candidate before the user decided, or
\* the user deciding while it is posted, never changes it; only retention removes it.
DecisionStands ==
  [][\A s \in Signals : status[s] \in Decided =>
       status'[s] = status[s] \/ (status'[s] = "purged" /\ status[s] # "accepted")]_vars

\* FR-CAN-006: of two signals that report the same payment from different sources, at most
\* one is posted.
NoTwinsPosted ==
  \A s, t \in Signals :
    <<s, t>> \in Twin /\ s # t => ~(status[s] = "accepted" /\ status[t] = "accepted")
=============================================================================
