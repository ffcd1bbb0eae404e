------------------------------- MODULE Client -------------------------------
(***************************************************************************)
(* The web application before any page: the session (useSession), the      *)
(* snapshots in local storage (cache.ts) and the gate that polls the       *)
(* subscription after a checkout (SubscriptionGate).  Every await is a     *)
(* place where the session may change, in this window or in another one.   *)
(***************************************************************************)
EXTENDS Integers, Sequences, FiniteSets, SequencesExt

CONSTANTS
  People,      \* users who sign in on this device
  Reads,       \* overlapping calls of cachedUserQuery
  PollMax,     \* CHECKOUT_POLL_ATTEMPTS
  MaxSwitches, \* bound: changes of the session
  MaxOutages   \* bound: calls that fail, time out or reach nobody

Nobody == "nobody"
ASSUME ClientAssumption ==
  Nobody \notin People /\ PollMax \in Nat /\ MaxSwitches \in Nat /\ MaxOutages \in Nat

VARIABLES
  session,  \* who is signed in, for the authentication client
  events,   \* auth events that are not delivered yet, oldest first
  boot,     \* the race of getSession with the timer: "asking", "answer", "late", "settled"
  bootUser, \* what getSession found
  handled, user, loading, startError, \* authEventHandled and the state of the hook
  snapshot, \* local storage: whose rows are filed under an owner
  query,    \* a cached query: where it is, for whom, whose rows it got
  paid,     \* the subscription is entitled, for the server
  gate,     \* the gate: its refresh, its poll and what it has set
  switches, outages, \* for the bounds
  lastEvent, mixed \* history: the last event delivered; owners whose query saw two sessions

auth == <<session, events, boot, bootUser, handled, user, loading, startError, lastEvent>>
gateVars == <<paid, gate>>
store == <<snapshot, query, mixed>>
client == <<auth, store, gateVars, switches, outages>>

Outage == outages < MaxOutages /\ outages' = outages + 1
NoGate == [refresh |-> "idle", poll |-> "idle", attempt |-> 0, seen |-> "unread",
            loading |-> FALSE, error |-> FALSE]
\* the poll runs when the address says that a checkout was completed
Mounted == {[NoGate EXCEPT !.refresh = "asked", !.poll = p, !.loading = TRUE] : p \in {"idle", "asked"}}

\* what the page becomes when the hook has a user: the gate is mounted, or gone
Shows(u) ==
  /\ user' = u
  /\ gate' \in IF u = Nobody THEN {NoGate} ELSE IF u = user THEN {gate} ELSE Mounted

\* signIn, signOut (here or in another window) and their event; the form to sign in is shown to
\* nobody who is signed in
Switch(u) ==
  /\ u # session /\ Nobody \in {u, session} /\ switches < MaxSwitches /\ switches' = switches + 1
  /\ session' = u /\ events' = Append(events, u)
  /\ UNCHANGED <<boot, bootUser, handled, user, loading, startError, lastEvent, store, gateVars, outages>>

\* signOut begins with clearFinancialCache, before it calls the server, which may fail
ClearSnapshots ==
  /\ session # Nobody /\ \E p \in People : snapshot[p] # Nobody
  /\ snapshot' = [p \in People |-> Nobody]
  /\ UNCHANGED <<auth, query, mixed, gateVars, switches, outages>>

\* the callback of onAuthStateChange
Deliver ==
  /\ events # <<>> /\ events' = Tail(events)
  /\ handled' = TRUE /\ loading' = FALSE /\ startError' = FALSE /\ lastEvent' = Head(events)
  /\ Shows(Head(events))
  /\ UNCHANGED <<session, boot, bootUser, store, paid, switches, outages>>

\* getSession answers the race, unless the timer has won it
GetSession ==
  /\ boot = "asking" /\ boot' = "answer" /\ bootUser' = session
  /\ UNCHANGED <<session, events, handled, user, loading, startError, lastEvent, store, gateVars, switches, outages>>
\* getSession fails, or ten seconds pass
BootFails ==
  /\ boot = "asking" /\ boot' = "late" /\ Outage
  /\ UNCHANGED <<session, events, bootUser, handled, user, loading, startError, lastEvent, store, gateVars, switches>>

\* mutant: the bootstrap does not ask whether an event was handled meanwhile
FirstWord(kept) == ~kept \/ kept

\* the callbacks of the race do nothing once an event was handled
MayDecide(kept) == ~kept

Bootstrap ==
  /\ boot \in {"answer", "late"} /\ boot' = "settled"
  /\ IF MayDecide(handled)
       THEN /\ Shows(IF boot = "answer" THEN bootUser ELSE Nobody)
            /\ startError' = (boot = "late") /\ loading' = FALSE
       ELSE UNCHANGED <<user, gate, startError, loading>>
  /\ UNCHANGED <<session, events, bootUser, handled, lastEvent, store, paid, switches, outages>>

AuthStep == Deliver \/ GetSession \/ Bootstrap

-----------------------------------------------------------------------------
NoQuery == [at |-> "idle", owner |-> Nobody, rows |-> Nobody]
PutQuery(r, q) == query' = [query EXCEPT ![r] = q]

\* cachedUserQuery: the owner is the session of now
BeginQuery(r) ==
  /\ query[r].at = "idle" /\ session # Nobody
  /\ PutQuery(r, [NoQuery EXCEPT !.at = "load", !.owner = session])
  /\ UNCHANGED <<auth, snapshot, mixed, gateVars, switches, outages>>

\* the loader asks with the session of its own moment: row level security answers for that one
Load(r) ==
  /\ query[r].at = "load" /\ session # Nobody
  /\ PutQuery(r, [query[r] EXCEPT !.at = "loaded", !.rows = session])
  /\ mixed' = mixed \cup ({query[r].owner} \ {session})
  /\ UNCHANGED <<auth, snapshot, gateVars, switches, outages>>

\* mutant: the snapshot is filed under whoever is signed in when it is written
OwnerNow(q) == session

Owner(q) == q.owner

\* writeEnvelope
File(r) ==
  /\ query[r].at = "loaded"
  /\ snapshot' = [p \in People |-> IF p = Owner(query[r]) THEN query[r].rows ELSE snapshot[p]]
  /\ PutQuery(r, NoQuery)
  /\ UNCHANGED <<auth, mixed, gateVars, switches, outages>>

\* the loader fails: the snapshot of the owner is shown, if there is one, and nothing is written
LoadFails(r) ==
  /\ query[r].at = "load" /\ Outage
  /\ PutQuery(r, NoQuery)
  /\ UNCHANGED <<auth, snapshot, mixed, gateVars, switches>>

-----------------------------------------------------------------------------
\* the webhook has applied the membership
Paid == ~paid /\ paid' = TRUE /\ UNCHANGED <<auth, store, gate, switches, outages>>

Seen == IF paid THEN "entitled" ELSE "none"

\* mutant: the loading screen is left when there is an answer, not whatever happens
EndedWell(g, failed) == [g EXCEPT !.refresh = "idle", !.loading = IF failed THEN @ ELSE FALSE]

\* refresh ends (finally)
Ended(g, failed) == [g EXCEPT !.refresh = "idle", !.loading = FALSE]

\* loadSubscription reads; its answer is applied later
RefreshReads ==
  /\ gate.refresh = "asked"
  /\ gate' = [gate EXCEPT !.refresh = Seen]
  /\ UNCHANGED <<auth, store, paid, switches, outages>>
RefreshEnds ==
  /\ gate.refresh \in {"none", "entitled"}
  /\ gate' = Ended([gate EXCEPT !.seen = gate.refresh], FALSE)
  /\ UNCHANGED <<auth, store, paid, switches, outages>>
RefreshFails ==
  /\ gate.refresh # "idle" /\ Outage
  /\ gate' = Ended([gate EXCEPT !.error = TRUE], TRUE)
  /\ UNCHANGED <<auth, store, paid, switches>>

PollReads ==
  /\ gate.poll = "asked"
  /\ gate' = [gate EXCEPT !.poll = Seen]
  /\ UNCHANGED <<auth, store, paid, switches, outages>>

\* every attempt counts, whatever came of it
LastAttempt == gate.attempt + 1 >= PollMax
NextAttempt(g) ==
  IF LastAttempt THEN [g EXCEPT !.poll = "idle", !.error = TRUE]
  ELSE [g EXCEPT !.poll = "timer", !.attempt = @ + 1]

\* poll: it ends when the subscription is entitled, or after CHECKOUT_POLL_ATTEMPTS
PollEnds ==
  /\ gate.poll \in {"none", "entitled"}
  /\ gate' = IF gate.poll = "entitled"
       THEN [gate EXCEPT !.poll = "idle", !.seen = "entitled", !.loading = FALSE, !.error = FALSE]
       ELSE NextAttempt([gate EXCEPT !.seen = "none", !.loading = FALSE, !.error = FALSE])
  /\ UNCHANGED <<auth, store, paid, switches, outages>>
PollFails ==
  /\ gate.poll # "idle" /\ gate.poll # "timer" /\ Outage
  /\ gate' = NextAttempt([gate EXCEPT !.error = TRUE])
  /\ UNCHANGED <<auth, store, paid, switches>>
PollTimer ==
  /\ gate.poll = "timer" /\ gate' = [gate EXCEPT !.poll = "asked"]
  /\ UNCHANGED <<auth, store, paid, switches, outages>>

\* Reintentar, or the button of SubscriptionPage
Refresh ==
  /\ user # Nobody /\ gate.refresh = "idle" /\ ~gate.loading /\ gate.seen # "entitled" /\ Outage
  /\ gate' = [gate EXCEPT !.refresh = "asked", !.loading = TRUE, !.error = FALSE]
  /\ UNCHANGED <<auth, store, paid, switches>>

GateStep == RefreshReads \/ RefreshEnds \/ PollReads \/ PollEnds \/ PollTimer

\* the authentication client may announce the session it begins with
ClientInit ==
  /\ session \in People \cup {Nobody} /\ events \in {<<>>, <<session>>}
  /\ boot = "asking" /\ bootUser = Nobody /\ handled = FALSE
  /\ user = Nobody /\ loading = TRUE /\ startError = FALSE /\ lastEvent = Nobody
  /\ snapshot = [p \in People |-> Nobody] /\ query = [r \in Reads |-> NoQuery] /\ mixed = {}
  /\ paid = FALSE /\ gate = NoGate /\ switches = 0 /\ outages = 0

Session == \E u \in People \cup {Nobody} : Switch(u)
AccessNext == Session \/ AuthStep \/ BootFails \/ Paid \/ GateStep \/ RefreshFails \/ PollFails \/ Refresh
StoreNext == Session \/ ClearSnapshots \/ \E r \in Reads : BeginQuery(r) \/ Load(r) \/ File(r) \/ LoadFails(r)
ClientNext == AccessNext \/ StoreNext

\* Calls end, timers fire and callbacks run.
ClientSpec == ClientInit /\ [][ClientNext]_client /\ WF_client(AuthStep) /\ WF_client(GateStep)

-----------------------------------------------------------------------------
\* Once an auth event was handled the application shows the user of the last event: neither
\* the answer of the bootstrap nor its timeout, which may both be late, takes it back.
EventsWin == handled => user = lastEvent /\ ~startError /\ ~loading

\* What is filed under an owner was read as that owner, also when the session changes while
\* a query is loading - unless it changes between the two awaits that read the session.
SnapshotOwned == \A p \in People : snapshot[p] \in {Nobody, p} \/ p \in mixed

\* No loading screen stays: the bootstrap ends in a user, the form to sign in or an error, and
\* the gate in an answer, with and without a membership; its poll ends, too.
ScreensSettle ==
  /\ loading ~> ~loading
  /\ gate.loading ~> ~gate.loading
  /\ gate.poll # "idle" ~> gate.poll = "idle"
=============================================================================
