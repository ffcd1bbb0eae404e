---------------------------- MODULE Membership -----------------------------
(***************************************************************************)
(* From a paid plan to the accounts it allows, for one user: whop-webhook  *)
(* with its claim of each event, the subscriptions it writes, the archival *)
(* of accounts on a downgrade, account-manage, the trigger that enforces   *)
(* the plan, and the part of a backup's restore that replaces accounts.    *)
(*                                                                         *)
(* A step is one database statement; the one transaction of several        *)
(* statements, service_apply_whop_membership, takes two steps, of which    *)
(* only the second makes its writes visible to others, as READ COMMITTED   *)
(* has it.  An event is a membership event of Whop that passed the         *)
(* signature and payload checks; the others leave no trace but their row.  *)
(***************************************************************************)
EXTENDS Integers, Sequences, FiniteSets

CONSTANTS
  Memberships, \* the user's memberships at Whop, weekly or annual
  Events,      \* [of: membership, n: order of emission, type, raw: data.status, interval]
  Ids,         \* account ids
  Handlers,    \* concurrent invocations of whop-webhook
  Managers,    \* concurrent invocations of account-manage and cloud-backup-restore
  NoEvent, NoId,
  MaxDocs,     \* bound: backups the user makes
  MaxFaults    \* bound: calls that fail, answers that get lost, handlers that are stopped

Types == {"membership.activated", "membership.deactivated", "membership.updated"}
Raws == {"trialing", "active", "past_due", "canceled", "expired", "unresolved", "completed", "none"}

ASSUME MembershipAssumption ==
  /\ Events \subseteq [of : Memberships, n : Nat, type : Types, raw : Raws,
                       interval : {"weekly", "annual"}]
  /\ NoEvent \notin Events
  /\ NoId \notin Ids
  /\ MaxDocs \in Nat /\ MaxFaults \in Nat

VARIABLES
  sent,     \* events Whop has emitted
  acked,    \* events Whop saw answered with 2xx, which it does not deliver again
  row,      \* private.webhook_events.status of each event, "none" without a row
  stale,    \* events whose row was received more than ten minutes ago
  faults,   \* number of faults so far
  hpc, hev, \* where a handler is, and its event
  arch,     \* the accounts its open transaction archives, and holds locked
  sub,      \* the event that public.subscriptions last took from, for each membership
  before,   \* pairs of memberships, by subscriptions.updated_at
  lapsed,   \* events whose current_period_end has passed
  accounts, \* public.accounts by created_at
  docs,     \* the accounts in each of the user's backups
  gpc, req  \* where a manager is, and what it has read and been asked for

whopVars == <<sent, acked>>
eventVars == <<row, stale>>
handlerVars == <<hpc, hev, arch>>
subVars == <<sub, before>>
accountVars == <<accounts, docs>>
managerVars == <<gpc, req>>
vars == <<whopVars, eventVars, faults, handlerVars, subVars, lapsed, accountVars, managerVars>>

-----------------------------------------------------------------------------
(* What a subscription grants. *)

\* mapStatus
Status(e) ==
  CASE e.type = "membership.deactivated" -> IF e.raw = "expired" THEN "expired" ELSE "canceled"
    [] e.type # "membership.deactivated" /\ e.raw \notin {"completed", "none"} -> e.raw
    [] e.type # "membership.deactivated" /\ e.raw = "completed" -> "active"
    [] OTHER -> IF e.type = "membership.activated" THEN "active" ELSE "unresolved"

Grants(e) == e # NoEvent /\ Status(e) \in {"active", "trialing"}

\* memberships that are active in the subscriptions s
Current(s) == {m \in Memberships : Grants(s[m]) /\ s[m] \notin lapsed}

\* private.active_subscription_interval, activeInterval
Plan(s) ==
  IF \E m \in Current(s) : s[m].interval = "annual" THEN "annual"
  ELSE IF Current(s) # {} THEN "weekly" ELSE "none"

\* assertEntitled and assertAnnualEntitled look at the latest row with an active status only
Entitled(ms) ==
  LET rows == {m \in ms : Grants(sub[m])}
  IN \E m \in rows \cap Current(sub) : \A k \in rows : <<m, k>> \notin before
AssertEntitled == Entitled(Memberships)
AssertAnnualEntitled == Entitled({m \in Memberships : sub[m] # NoEvent /\ sub[m].interval = "annual"})

-----------------------------------------------------------------------------
(* Accounts and the trigger enforce_account_plan_before_write. *)

Active(rows) == {i \in DOMAIN rows : ~rows[i].archived}
ActiveIds(rows) == {rows[i].id : i \in Active(rows)}
IdsOf(rows) == {rows[i].id : i \in DOMAIN rows}

\* unique index accounts_one_active_primary_uidx
OnePrimary(rows) ==
  \A i, j \in Active(rows) : rows[i].primary /\ rows[j].primary => i = j
\* archived_account_cannot_be_primary
NoArchivedPrimary(rows) == \A i \in DOMAIN rows : ~(rows[i].archived /\ rows[i].primary)

\* mutant: the first active account is not made the primary one
EnforcedWeekly(r, others, inserted) ==
  [r EXCEPT !.primary = r.primary \/ (Plan(sub) = "weekly" /\ ~r.archived)]

\* the row as the trigger writes it, when others accounts are active
Enforced(r, others, inserted) ==
  [r EXCEPT !.primary = \/ r.primary
                        \/ inserted /\ others = 0 /\ ~r.archived
                        \/ Plan(sub) = "weekly" /\ ~r.archived]

\* mutant: a user without an active subscription falls through
AdmittedUnpaid(r, others, wasActive) ==
  Plan(sub) = "weekly" /\ ~r.archived /\ others >= 1 => wasActive

\* a weekly plan has no second active account
Admitted(r, others, wasActive) ==
  /\ Plan(sub) # "none"
  /\ Plan(sub) = "weekly" /\ ~r.archived /\ others >= 1 => wasActive

\* rows inserted one after the other into an empty table: the trigger of each sees the
\* rows before it
Inserted(rows) ==
  [i \in DOMAIN rows |->
     Enforced(rows[i], Cardinality({j \in Active(rows) : j < i}), TRUE)]
Insertable(rows) ==
  /\ \A i \in DOMAIN rows :
       Admitted(rows[i], Cardinality({j \in Active(rows) : j < i}), FALSE)
  /\ OnePrimary(Inserted(rows)) /\ NoArchivedPrimary(Inserted(rows))

-----------------------------------------------------------------------------
(* whop-webhook. *)

\* Whop emits the events of a membership in their order
Emit(e) ==
  /\ e \notin sent
  /\ \A f \in Events : f.of = e.of /\ f.n < e.n => f \in sent
  /\ sent' = sent \cup {e}
  /\ UNCHANGED <<faults, acked, eventVars, handlerVars, subVars, lapsed, accountVars, managerVars>>

Fault == faults < MaxFaults /\ faults' = faults + 1

Leave(h) ==
  /\ hpc' = [hpc EXCEPT ![h] = "idle"]
  /\ hev' = [hev EXCEPT ![h] = NoEvent]
  /\ arch' = [arch EXCEPT ![h] = {}]

Goto(h, l) == hpc' = [hpc EXCEPT ![h] = l] /\ UNCHANGED <<hev, arch>>

\* mutant: a row that was received is taken over at once
RetakeAtOnce(e) == row[e] \in {"none", "failed", "received"}

Claimable(e) == row[e] \in {"none", "failed"} \/ (row[e] = "received" /\ e \in stale)

\* service_claim_webhook_event
Claim(h, e) ==
  /\ hpc[h] = "idle" /\ e \in sent \ acked /\ Claimable(e)
  /\ row' = [row EXCEPT ![e] = "received"]
  /\ stale' = stale \ {e}
  /\ hpc' = [hpc EXCEPT ![h] = "apply"]
  /\ hev' = [hev EXCEPT ![h] = e]
  /\ UNCHANGED <<faults, whopVars, arch, subVars, lapsed, accountVars, managerVars>>

\* another delivery has the event, or had it: 200, duplicate
Duplicate(e) ==
  /\ e \in sent \ acked /\ ~Claimable(e)
  /\ acked' = acked \cup {e}
  /\ UNCHANGED <<faults, sent, eventVars, handlerVars, subVars, lapsed, accountVars, managerVars>>

\* service_apply_whop_membership up to its commit: the upsert locks the row of the
\* membership, the plan is read from what others committed and from this write, and the
\* secondary accounts are archived when that leaves nothing but a weekly plan
Secondaries == {accounts[i].id : i \in {j \in Active(accounts) : ~accounts[j].primary}}

Apply(h) ==
  LET e == hev[h] IN
    /\ hpc[h] = "apply"
    /\ ~\E k \in Handlers : hpc[k] = "commit" /\ (hev[k].of = e.of \/ arch[k] # {})
    /\ hpc' = [hpc EXCEPT ![h] = "commit"]
    /\ arch' = [arch EXCEPT ![h] =
                  IF Plan([sub EXCEPT ![e.of] = e]) = "weekly" THEN Secondaries ELSE {}]
    /\ UNCHANGED <<faults, whopVars, eventVars, hev, subVars, lapsed, accountVars, managerVars>>

Commit(h) ==
  LET e == hev[h] IN
    /\ hpc[h] = "commit"
    /\ sub' = [sub EXCEPT ![e.of] = e]
    /\ before' = {p \in before : p[1] # e.of} \cup {<<m, e.of>> : m \in Memberships \ {e.of}}
    /\ accounts' = [i \in DOMAIN accounts |->
                      [accounts[i] EXCEPT !.archived = @ \/ accounts[i].id \in arch[h]]]
    /\ hpc' = [hpc EXCEPT ![h] = "mark"]
    /\ arch' = [arch EXCEPT ![h] = {}]
    /\ UNCHANGED <<faults, whopVars, eventVars, hev, lapsed, docs, managerVars>>

\* the audit events that precede it may fail too
MarkProcessed(h) ==
  /\ hpc[h] = "mark"
  /\ row' = [row EXCEPT ![hev[h]] = "processed"]
  /\ \/ Leave(h) /\ acked' = acked \cup {hev[h]} /\ UNCHANGED faults
     \/ Leave(h) /\ UNCHANGED acked /\ Fault           \* Whop does not see the answer
     \/ Goto(h, "fail") /\ UNCHANGED acked /\ Fault    \* nor the handler the database's
  /\ UNCHANGED <<sent, stale, subVars, lapsed, accountVars, managerVars>>

\* the call of any step fails
StepFails(h) ==
  /\ hpc[h] \in {"apply", "mark"}
  /\ Goto(h, "fail")
  /\ Fault
  /\ UNCHANGED <<whopVars, eventVars, subVars, lapsed, accountVars, managerVars>>

\* 5xx; the row may not be written either
MarkFailed(h) ==
  /\ hpc[h] = "fail"
  /\ \/ row' = [row EXCEPT ![hev[h]] = "failed"] /\ UNCHANGED faults
     \/ Fault /\ UNCHANGED row
  /\ Leave(h)
  /\ UNCHANGED <<whopVars, stale, subVars, lapsed, accountVars, managerVars>>

\* the invocation is stopped; a transaction it started ends all the same
Crash(h) ==
  /\ hpc[h] \notin {"idle", "commit"}
  /\ Leave(h)
  /\ Fault
  /\ UNCHANGED <<whopVars, eventVars, subVars, lapsed, accountVars, managerVars>>

\* Ten minutes after the claim.  The platform stops an invocation long before.
TenMinutes(e) ==
  /\ row[e] = "received" /\ e \notin stale
  /\ ~\E h \in Handlers : hev[h] = e
  /\ stale' = stale \cup {e}
  /\ UNCHANGED <<faults, whopVars, row, handlerVars, subVars, lapsed, accountVars, managerVars>>

\* now() stands still in a transaction
PeriodEnds(e) ==
  /\ e \in sent \ lapsed
  /\ \A h \in Handlers : hpc[h] # "commit"
  /\ lapsed' = lapsed \cup {e}
  /\ UNCHANGED <<faults, whopVars, eventVars, handlerVars, subVars, accountVars, managerVars>>

-----------------------------------------------------------------------------
(* account-manage and the backup. *)

Idle(g) == gpc[g] = "idle"
Step(g, l) == gpc' = [gpc EXCEPT ![g] = l]
NoReq == [plan |-> "none", first |-> FALSE, id |-> NoId, archive |-> FALSE, doc |-> <<>>]
Return(g) == Step(g, "idle") /\ req' = [req EXCEPT ![g] = NoReq]

Start(g) ==
  /\ Idle(g) /\ AssertEntitled
  /\ Step(g, "plan")
  /\ UNCHANGED <<faults, whopVars, eventVars, handlerVars, subVars, lapsed, accountVars, req>>

\* activeInterval, a second read of the subscriptions
ReadPlan(g) ==
  /\ gpc[g] = "plan" /\ Plan(sub) # "none"
  /\ Step(g, "request")
  /\ req' = [req EXCEPT ![g].plan = Plan(sub)]
  /\ UNCHANGED <<faults, whopVars, eventVars, handlerVars, subVars, lapsed, accountVars>>

\* decideAccountCreatePolicy on the number of active accounts
CountAccounts(g) ==
  /\ gpc[g] = "request"
  /\ Active(accounts) = {} \/ req[g].plan = "annual"
  /\ Step(g, "insert")
  /\ req' = [req EXCEPT ![g].first = Active(accounts) = {}]
  /\ UNCHANGED <<faults, whopVars, eventVars, handlerVars, subVars, lapsed, accountVars>>

InsertAccount(g) ==
  LET others == Cardinality(Active(accounts)) IN
    /\ gpc[g] = "insert"
    /\ \E i \in Ids \ IdsOf(accounts) :
         LET r == [id |-> i, archived |-> FALSE, primary |-> req[g].first]
             rows == Append(accounts, Enforced(r, others, TRUE)) IN
           /\ \A d \in docs : i \notin IdsOf(d)
           /\ accounts' = IF Admitted(r, others, FALSE) /\ OnePrimary(rows) THEN rows ELSE accounts
    /\ Return(g)
    /\ UNCHANGED <<faults, whopVars, eventVars, handlerVars, subVars, lapsed, docs>>

\* archive or restore: the account is read
FindAccount(g) ==
  /\ gpc[g] = "request" /\ req[g].plan = "annual"
  /\ \E i \in DOMAIN accounts, archive \in BOOLEAN :
       /\ ~accounts[i].primary
       /\ req' = [req EXCEPT ![g].id = accounts[i].id, ![g].archive = archive]
  /\ Step(g, "update")
  /\ UNCHANGED <<faults, whopVars, eventVars, handlerVars, subVars, lapsed, accountVars>>

\* ... and updated; the trigger may refuse, and the account may be gone
UpdateAccount(g) ==
  LET Target == {i \in DOMAIN accounts : accounts[i].id = req[g].id} IN
    /\ gpc[g] = "update"
    /\ ~\E h \in Handlers : req[g].id \in arch[h]
    /\ \/ Target = {} /\ UNCHANGED accounts
       \/ \E i \in Target :
            LET others == Cardinality(Active(accounts) \ {i})
                r == [accounts[i] EXCEPT !.archived = req[g].archive]
                rows == [accounts EXCEPT ![i] = Enforced(r, others, FALSE)]
            IN accounts' =
                 IF /\ Admitted(r, others, ~accounts[i].archived)
                    /\ OnePrimary(rows) /\ NoArchivedPrimary(rows)
                   THEN rows ELSE accounts
    /\ Return(g)
    /\ UNCHANGED <<faults, whopVars, eventVars, handlerVars, subVars, lapsed, docs>>

\* mutant: the latest account comes first
ListedLatest == [i \in DOMAIN accounts |-> accounts[Len(accounts) + 1 - i]]

\* service_build_user_backup lists the accounts by created_at
Listed == accounts

\* cloud-backup-create
Save ==
  /\ AssertAnnualEntitled
  /\ docs' = docs \cup {Listed} /\ Cardinality(docs') <= MaxDocs
  /\ UNCHANGED <<faults, whopVars, eventVars, handlerVars, subVars, lapsed, accounts, managerVars>>

RestoreStart(g) ==
  /\ Idle(g) /\ AssertAnnualEntitled
  /\ \E d \in docs : req' = [req EXCEPT ![g].doc = d]
  /\ Step(g, "restore")
  /\ UNCHANGED <<faults, whopVars, eventVars, handlerVars, subVars, lapsed, accountVars>>

\* restore_user_backup: the accounts are deleted and the document's inserted, or the
\* trigger refuses one of them and nothing is changed
RestoreAccounts(g) ==
  /\ gpc[g] = "restore"
  /\ \A h \in Handlers : arch[h] = {}
  /\ accounts' = IF Insertable(req[g].doc) THEN Inserted(req[g].doc) ELSE accounts
  /\ Return(g)
  /\ UNCHANGED <<faults, whopVars, eventVars, handlerVars, subVars, lapsed, docs>>

\* refused by a check, failed or stopped
GiveUp(g) ==
  /\ ~Idle(g)
  /\ Return(g)
  /\ UNCHANGED <<faults, whopVars, eventVars, handlerVars, subVars, lapsed, accountVars>>

Init ==
  /\ sent = {} /\ acked = {} /\ lapsed = {} /\ stale = {} /\ faults = 0
  /\ row = [e \in Events |-> "none"]
  /\ hpc = [h \in Handlers |-> "idle"]
  /\ hev = [h \in Handlers |-> NoEvent]
  /\ arch = [h \in Handlers |-> {}]
  /\ sub = [m \in Memberships |-> NoEvent]
  /\ before = {}
  /\ accounts = <<>>
  /\ docs = {}
  /\ gpc = [g \in Managers |-> "idle"]
  /\ req = [g \in Managers |-> NoReq]

Handle(h) ==
  \/ Apply(h) \/ Commit(h) \/ MarkProcessed(h)
  \/ StepFails(h) \/ MarkFailed(h) \/ Crash(h)

Manage(g) ==
  \/ Start(g) \/ ReadPlan(g) \/ CountAccounts(g) \/ InsertAccount(g)
  \/ FindAccount(g) \/ UpdateAccount(g)
  \/ RestoreStart(g) \/ RestoreAccounts(g) \/ GiveUp(g)

Next ==
  \/ \E e \in Events : Emit(e) \/ Duplicate(e) \/ TenMinutes(e) \/ PeriodEnds(e)
  \/ \E h \in Handlers, e \in Events : Claim(h, e)
  \/ \E h \in Handlers : Handle(h)
  \/ \E g \in Managers : Manage(g)
  \/ Save

Spec == Init /\ [][Next]_vars

-----------------------------------------------------------------------------
\* the check constraint of subscriptions.status, and of service_apply_whop_membership
Statuses == {"trialing", "active", "past_due", "canceled", "expired", "unresolved"}

Account == [id : Ids, archived : BOOLEAN, primary : BOOLEAN]
Request == [plan : {"none", "weekly", "annual"}, first : BOOLEAN, id : Ids \cup {NoId},
            archive : BOOLEAN, doc : Seq(Account)]

WebhookTypes ==
  /\ sent \subseteq Events /\ acked \subseteq sent /\ stale \subseteq Events
  /\ row \in [Events -> {"none", "received", "failed", "processed"}]
  /\ hpc \in [Handlers -> {"idle", "apply", "commit", "mark", "fail"}]
  /\ hev \in [Handlers -> Events \cup {NoEvent}]
  /\ \A h \in Handlers : hpc[h] = "idle" <=> hev[h] = NoEvent
  /\ arch \in [Handlers -> SUBSET Ids]
  /\ faults \in 0..MaxFaults

AccountTypes ==
  /\ sub \in [Memberships -> Events \cup {NoEvent}]
  /\ \A m \in Memberships : sub[m] # NoEvent => Status(sub[m]) \in Statuses
  /\ before \subseteq Memberships \X Memberships
  /\ lapsed \subseteq Events
  /\ accounts \in Seq(Account)
  /\ docs \subseteq Seq(Account)
  /\ gpc \in [Managers -> {"idle", "plan", "request", "insert", "update", "restore"}]
  /\ req \in [Managers -> Request]

\* Types; only a handler at work has an event; mapStatus gives no status the database refuses.
TypeOK == WebhookTypes /\ AccountTypes

\* FR-SUB-004: an event is processed by one delivery at a time although a claim carries no
\* token: the row says received, or was just marked, for as long as a handler is at work.
EventExclusive ==
  \A h, k \in Handlers : hev[h] = hev[k] /\ hev[h] # NoEvent => h = k

\* A user who has accounts has one active primary account, the oldest, through concurrent
\* creations, archivals, downgrades and restores (FR-ACC-001, FR-ACC-004).
MainAccount ==
  \A i \in DOMAIN accounts :
    (accounts[i].primary <=> i = 1) /\ (i = 1 => ~accounts[i].archived)
\* FR-SUB-006, FR-ACC-002: whatever plan and count account-manage read before, an account
\* becomes active only while an annual plan is active, or as the only one of a weekly plan.
GrowsWithinPlan ==
  [][\/ ActiveIds(accounts') \subseteq ActiveIds(accounts)
     \/ Plan(sub) = "annual"
     \/ Plan(sub) = "weekly" /\ Cardinality(Active(accounts')) = 1]_vars

\* FR-ACC-006: a restore brings back the accounts of the backup exactly.  The trigger, which
\* may promote the first row it sees, never alters one, and refuses one only if the annual
\* plan went while the restore was under way; nothing is changed then.
RestoreFaithful ==
  [][\A g \in Managers :
       RestoreAccounts(g) =>
         \/ accounts' = req[g].doc
         \/ accounts' = accounts /\ Plan(sub) # "annual"]_vars
=============================================================================
