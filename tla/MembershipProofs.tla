-------------------------- MODULE MembershipProofs --------------------------
(***************************************************************************)
(* Proofs about Membership, for any memberships, events, invocations,      *)
(* backups and faults: types, one delivery at a time, the main account,    *)
(* growth within the plan, and restores that alter nothing.                *)
(***************************************************************************)
EXTENDS Membership, TLAPS, FiniteSetTheorems, SequenceTheorems

(* What a handler works on is sent, received or just marked, and not ten minutes old.  That *)
(* is what makes the claim without a token safe.                                            *)
HandlerInv ==
  /\ \A h \in Handlers :
       hev[h] # NoEvent => /\ hev[h] \in sent \ stale
                           /\ row[hev[h]] \in {"received", "processed"}
  /\ \A h \in Handlers : hpc[h] # "commit" => arch[h] = {}
  /\ EventExclusive

(* mapStatus yields a status the table and service_apply_whop_membership accept. *)
LEMMA StatusAccepted == ASSUME NEW e \in Events PROVE Status(e) \in Statuses
<1>1. e.type \in Types /\ e.raw \in Raws BY MembershipAssumption
<1> QED BY <1>1 DEF Status, Statuses, Types, Raws

LEMMA EventParts == ASSUME NEW e \in Events PROVE e.of \in Memberships /\ e # NoEvent
BY MembershipAssumption

(* Managers, backups and the clock of a membership touch nothing of the webhook. *)
LEMMA OthersLeaveWebhook ==
  ASSUME (\E g \in Managers : Manage(g)) \/ Save \/ (\E e \in Events : PeriodEnds(e))
  PROVE  UNCHANGED <<faults, whopVars, eventVars, handlerVars>>
<1>1. ASSUME NEW g \in Managers, Manage(g)
      PROVE  UNCHANGED <<faults, whopVars, eventVars, handlerVars>>
  BY <1>1 DEF Manage, Start, ReadPlan, CountAccounts, InsertAccount, FindAccount,
              UpdateAccount, RestoreStart, RestoreAccounts, GiveUp
<1> QED BY <1>1 DEF Save, PeriodEnds

(* A step keeps the types of the webhook and the handlers' invariant. *)
LEMMA WebhookStep ==
  ASSUME WebhookTypes, AccountTypes, HandlerInv, [Next]_vars
  PROVE  WebhookTypes' /\ HandlerInv'
<1> USE MembershipAssumption
<1> USE DEF whopVars, eventVars, handlerVars
<1>1. ASSUME UNCHANGED <<faults, whopVars, eventVars, handlerVars>>
      PROVE  WebhookTypes' /\ HandlerInv'
  BY <1>1 DEF WebhookTypes, HandlerInv, EventExclusive
<1>2. ASSUME NEW e \in Events, Emit(e) \/ Duplicate(e) PROVE WebhookTypes' /\ HandlerInv'
  BY <1>2 DEF Emit, Duplicate, WebhookTypes, HandlerInv, EventExclusive
<1>3. ASSUME NEW e \in Events, TenMinutes(e) PROVE WebhookTypes' /\ HandlerInv'
  BY <1>3 DEF TenMinutes, WebhookTypes, HandlerInv, EventExclusive
<1>4. ASSUME NEW h \in Handlers, NEW e \in Events, Claim(h, e)
      PROVE  WebhookTypes' /\ HandlerInv'
  <2>1. WebhookTypes' BY <1>4, EventParts DEF Claim, WebhookTypes
  <2>2. \A k \in Handlers : hev[k] # e
    BY <1>4, EventParts DEF Claim, Claimable, HandlerInv
  <2>3. HandlerInv'
    BY <1>4, <2>2, EventParts DEF Claim, WebhookTypes, HandlerInv, EventExclusive
  <2> QED BY <2>1, <2>3
<1>5. ASSUME NEW h \in Handlers, Apply(h) PROVE WebhookTypes' /\ HandlerInv'
  <2>a. \A i \in DOMAIN accounts : accounts[i] \in Account BY DEF AccountTypes
  <2>1. Secondaries \in SUBSET Ids BY <2>a DEF Secondaries, Active, Account
  <2>2. WebhookTypes' BY <1>5, <2>1 DEF Apply, WebhookTypes
  <2>3. HandlerInv' BY <1>5 DEF Apply, WebhookTypes, HandlerInv, EventExclusive
  <2> QED BY <2>2, <2>3
<1>6. ASSUME NEW h \in Handlers, Commit(h) PROVE WebhookTypes' /\ HandlerInv'
  BY <1>6 DEF Commit, WebhookTypes, HandlerInv, EventExclusive
<1>7. ASSUME NEW h \in Handlers,
             MarkProcessed(h) \/ StepFails(h) \/ MarkFailed(h) \/ Crash(h)
      PROVE  WebhookTypes' /\ HandlerInv'
  <2>1. hev[h] \in Events /\ hev[h] \in sent /\ hpc[h] # "idle" /\ hpc[h] # "commit"
    BY <1>7 DEF MarkProcessed, StepFails, MarkFailed, Crash, WebhookTypes, HandlerInv
  <2>2. \A k \in Handlers \ {h} : hev[k] # hev[h]
    BY <2>1, EventParts DEF HandlerInv, EventExclusive
  <2>3. faults' \in 0..MaxFaults
    BY <1>7 DEF MarkProcessed, StepFails, MarkFailed, Crash, Fault, WebhookTypes
  <2>4. /\ row' \in [Events -> {"none", "received", "failed", "processed"}]
        /\ \A e \in Events \ {hev[h]} : row'[e] = row[e]
        /\ sent' = sent /\ stale' = stale /\ acked' \subseteq sent
    BY <1>7, <2>1 DEF MarkProcessed, StepFails, MarkFailed, Crash, WebhookTypes
  <2>5. CASE Leave(h)
    <3>1. WebhookTypes' BY <2>3, <2>4, <2>5 DEF Leave, WebhookTypes
    <3>2. HandlerInv'
      BY <2>2, <2>4, <2>5 DEF Leave, WebhookTypes, HandlerInv, EventExclusive
    <3> QED BY <3>1, <3>2
  <2>6. CASE Goto(h, "fail")
    <3>1. row'[hev[h]] \in {"received", "processed"}
      BY <1>7, <2>1, <2>6, EventParts
      DEF MarkProcessed, StepFails, MarkFailed, Crash, Leave, Goto, HandlerInv, WebhookTypes
    <3>2. WebhookTypes' BY <2>1, <2>3, <2>4, <2>6, EventParts DEF Goto, WebhookTypes
    <3>3. HandlerInv'
      BY <2>1, <2>4, <2>6, <3>1 DEF Goto, WebhookTypes, HandlerInv, EventExclusive
    <3> QED BY <3>2, <3>3
  <2> QED BY <1>7, <2>5, <2>6 DEF MarkProcessed, StepFails, MarkFailed, Crash
<1> QED
  BY <1>1, <1>2, <1>3, <1>4, <1>5, <1>6, <1>7, OthersLeaveWebhook DEF Next, Handle, vars

-----------------------------------------------------------------------------
(* Only some steps touch the subscriptions and the accounts. *)

(* Two rows of a list never have one id, and the first one is the primary and active. *)
Sound(rows) ==
  /\ \A i \in DOMAIN rows : (rows[i].primary <=> i = 1) /\ (i = 1 => ~rows[i].archived)
  /\ \A i, j \in DOMAIN rows : rows[i].id = rows[j].id => i = j

(* The accounts, every backup and what is being restored are sound, and no transaction is *)
(* about to archive the first account.                                                    *)
AccountInv ==
  /\ Sound(accounts)
  /\ \A d \in docs : Sound(d)
  /\ \A g \in Managers : Sound(req[g].doc)
  /\ \A h \in Handlers : arch[h] # {} => accounts # <<>> /\ accounts[1].id \notin arch[h]

(* The trigger may make a row primary and changes nothing else of it. *)
LEMMA EnforcedParts ==
  ASSUME NEW r \in Account, NEW n
  PROVE  /\ Enforced(r, n, TRUE) = r \/ Enforced(r, n, TRUE) = [r EXCEPT !.primary = TRUE]
         /\ Enforced(r, n, FALSE) = r \/ Enforced(r, n, FALSE) = [r EXCEPT !.primary = TRUE]
<1>1. /\ [r EXCEPT !.primary = r.primary \/ TRUE] = [r EXCEPT !.primary = TRUE]
      /\ [r EXCEPT !.primary = r.primary \/ FALSE] = r
  BY DEF Account
<1> QED BY <1>1 DEF Enforced

(* What the trigger lets through from a sound list is the list itself. *)
LEMMA InsertedIsSame ==
  ASSUME NEW rows \in Seq(Account), Sound(rows),
         OnePrimary(Inserted(rows)), NoArchivedPrimary(Inserted(rows))
  PROVE  Inserted(rows) = rows
<1>1. DOMAIN Inserted(rows) = DOMAIN rows BY DEF Inserted
<1>2. \A i \in DOMAIN rows : rows[i] \in Account OBVIOUS
<1>3. ASSUME NEW i \in DOMAIN rows
      PROVE  /\ Inserted(rows)[i] \in Account
             /\ Inserted(rows)[i].id = rows[i].id
             /\ Inserted(rows)[i].archived = rows[i].archived
             /\ rows[i].primary => Inserted(rows)[i].primary
             /\ (Inserted(rows)[i].primary => rows[i].primary) => Inserted(rows)[i] = rows[i]
  <2>1. rows[i] \in Account BY <1>2
  <2>2. Inserted(rows)[i] = rows[i] \/ Inserted(rows)[i] = [rows[i] EXCEPT !.primary = TRUE]
    BY <2>1, EnforcedParts DEF Inserted
  <2> QED BY <2>1, <2>2 DEF Account
<1>4. ASSUME NEW i \in DOMAIN rows PROVE Inserted(rows)[i] = rows[i]
  <2>2. 1 \in DOMAIN rows /\ rows[1].primary /\ ~rows[1].archived BY DEF Sound
  <2>3. Inserted(rows)[1].primary /\ ~Inserted(rows)[1].archived BY <1>3, <2>2
  <2>4. CASE Inserted(rows)[i].primary
    <3>1. ~Inserted(rows)[i].archived BY <1>1, <2>4 DEF NoArchivedPrimary
    <3>2. i = 1 BY <1>1, <2>2, <2>3, <2>4, <3>1 DEF OnePrimary, Active
    <3> QED BY <1>2, <1>3, <2>2, <2>4, <3>2 DEF Account
  <2>5. CASE ~Inserted(rows)[i].primary
    BY <1>2, <1>3, <2>5 DEF Account
  <2> QED BY <2>4, <2>5
<1>5. Inserted(rows) = [i \in DOMAIN rows |-> Inserted(rows)[i]] BY <1>1 DEF Inserted
<1>6. rows = [i \in DOMAIN rows |-> rows[i]] OBVIOUS
<1> QED BY <1>4, <1>5, <1>6

(* What every manager's step but the three that write leaves alone. *)
LEMMA ReadersLeaveAccounts ==
  ASSUME NEW g \in Managers, Start(g) \/ ReadPlan(g) \/ CountAccounts(g)
                             \/ FindAccount(g) \/ RestoreStart(g) \/ GiveUp(g)
  PROVE  UNCHANGED <<subVars, lapsed, accountVars, handlerVars>>
BY DEF Start, ReadPlan, CountAccounts, FindAccount, RestoreStart, GiveUp

(* An account that is appended, if the trigger and the indexes admit it. *)
LEMMA InsertSound ==
  ASSUME AccountTypes, AccountInv, NEW g \in Managers, InsertAccount(g)
  PROVE  /\ accounts' \in Seq(Account) /\ Sound(accounts')
         /\ accounts # <<>> => accounts' # <<>> /\ accounts'[1] = accounts[1]
<1> DEFINE n == Cardinality(Active(accounts))
<1>1. PICK i \in Ids \ IdsOf(accounts) :
        LET r == [id |-> i, archived |-> FALSE, primary |-> req[g].first]
            rows == Append(accounts, Enforced(r, n, TRUE)) IN
          accounts' = IF Admitted(r, n, FALSE) /\ OnePrimary(rows) THEN rows ELSE accounts
  BY DEF InsertAccount
<1> HIDE DEF n
<1> DEFINE r == [id |-> i, archived |-> FALSE, primary |-> req[g].first]
           e == Enforced(r, n, TRUE)
           rows == Append(accounts, e)
<1>2. accounts \in Seq(Account) /\ req[g] \in Request BY DEF AccountTypes
<1>3. r \in Account BY <1>2 DEF Request, Account
<1>4. e \in Account /\ e.id = i /\ ~e.archived
  <2>1. e = r \/ e = [r EXCEPT !.primary = TRUE] BY <1>3, EnforcedParts
  <2>2. r.id = i /\ ~r.archived OBVIOUS
  <2> HIDE DEF e, r
  <2> QED BY <1>3, <2>1, <2>2 DEF Account
<1>5. CASE accounts' = accounts BY <1>2, <1>5 DEF AccountInv
<1>6. CASE accounts' = rows /\ OnePrimary(rows)
  <2> HIDE DEF r, e
  <2>1. /\ rows \in Seq(Account) /\ Len(rows) = Len(accounts) + 1
        /\ rows[Len(accounts) + 1] = e
        /\ \A j \in 1..Len(accounts) : rows[j] = accounts[j]
        /\ DOMAIN accounts = 1..Len(accounts) /\ DOMAIN rows = 1..(Len(accounts) + 1)
        /\ Len(accounts) \in Nat
    BY <1>2, <1>4
  <2>2. \A j \in DOMAIN accounts : accounts[j].id # e.id BY <1>4 DEF IdsOf
  <2>3. \A j, k \in DOMAIN rows : rows[j].id = rows[k].id => j = k
    BY <2>1, <2>2 DEF AccountInv, Sound
  <2>4. CASE accounts = <<>>
    <3>1. e.primary
      <4>1. Active(accounts) = {} BY <2>4 DEF Active
      <4>2. n = 0 BY <4>1, FS_EmptySet DEF n
      <4>3. e = [r EXCEPT !.primary = TRUE]
        BY <4>2 DEF e, r, Enforced
      <4> QED BY <4>3, <1>3 DEF Account
    <3>2. Len(accounts) = 0 BY <2>4
    <3> QED BY <1>4, <1>6, <2>1, <2>3, <2>4, <3>1, <3>2 DEF Sound
  <2>5. CASE accounts # <<>>
    <3>1. 1 \in DOMAIN accounts /\ rows[1] = accounts[1] /\ 1 # Len(accounts) + 1
      BY <1>2, <2>1, <2>5
    <3>2. rows[1].primary /\ ~rows[1].archived BY <3>1 DEF AccountInv, Sound
    <3>3. ~e.primary
      BY <1>4, <1>6, <2>1, <3>1, <3>2 DEF OnePrimary, Active
    <3>4. \A j \in DOMAIN rows :
            (rows[j].primary <=> j = 1) /\ (j = 1 => ~rows[j].archived)
      BY <2>1, <3>1, <3>2, <3>3 DEF AccountInv, Sound
    <3> QED BY <1>6, <2>1, <2>3, <3>1, <3>4 DEF Sound
  <2> QED BY <2>4, <2>5
<1> QED BY <1>1, <1>5, <1>6

(* An account that is archived or restored: never the first one, and no second primary. *)
LEMMA UpdateSound ==
  ASSUME AccountTypes, AccountInv, NEW g \in Managers, UpdateAccount(g)
  PROVE  /\ accounts' \in Seq(Account) /\ Sound(accounts')
         /\ accounts # <<>> => accounts' # <<>> /\ accounts'[1].id = accounts[1].id
<1>1. CASE accounts' = accounts BY <1>1 DEF AccountTypes, AccountInv
<1>2. CASE accounts' # accounts
  <2>1. PICK i \in DOMAIN accounts :
          LET n == Cardinality(Active(accounts) \ {i})
              r == [accounts[i] EXCEPT !.archived = req[g].archive]
              rows == [accounts EXCEPT ![i] = Enforced(r, n, FALSE)]
          IN accounts' = rows /\ OnePrimary(rows) /\ NoArchivedPrimary(rows)
    BY <1>2 DEF UpdateAccount
  <2> DEFINE n == Cardinality(Active(accounts) \ {i})
             r == [accounts[i] EXCEPT !.archived = req[g].archive]
             e == Enforced(r, n, FALSE)
             rows == [accounts EXCEPT ![i] = e]
  <2>2. accounts \in Seq(Account) /\ req[g] \in Request /\ accounts[i] \in Account
    BY DEF AccountTypes
  <2>3. r \in Account /\ r.id = accounts[i].id /\ r.primary = accounts[i].primary
    BY <2>2 DEF Request, Account
  <2>4. e = r \/ e = [r EXCEPT !.primary = TRUE] BY <2>3, EnforcedParts
  <2>5. e \in Account /\ e.id = accounts[i].id /\ (accounts[i].primary => e.primary)
    BY <2>2, <2>3, <2>4 DEF Account
  <2>6. accounts' = rows /\ OnePrimary(rows) /\ NoArchivedPrimary(rows) BY <2>1
  <2> HIDE DEF e, r, n
  <2>7. /\ rows \in Seq(Account) /\ DOMAIN rows = DOMAIN accounts /\ rows[i] = e
        /\ \A j \in DOMAIN accounts \ {i} : rows[j] = accounts[j]
        /\ 1 \in DOMAIN accounts /\ Len(rows) = Len(accounts)
    BY <2>2, <2>5
  <2>8. \A j \in DOMAIN rows : rows[j].id = accounts[j].id BY <2>5, <2>7
  <2>9. rows[1].primary /\ ~rows[1].archived
    <3>1. rows[1].primary BY <2>5, <2>7 DEF AccountInv, Sound
    <3> QED BY <2>6, <2>7, <3>1 DEF NoArchivedPrimary
  <2>10. ASSUME NEW j \in DOMAIN rows, rows[j].primary PROVE j = 1
    <3>1. ~rows[j].archived BY <2>6, <2>10 DEF NoArchivedPrimary
    <3> QED BY <2>6, <2>7, <2>9, <2>10, <3>1 DEF OnePrimary, Active
  <2>11. Sound(rows) BY <2>7, <2>8, <2>9, <2>10 DEF AccountInv, Sound
  <2>12. rows # <<>> /\ rows[1].id = accounts[1].id BY <2>7, <2>8
  <2> QED BY <2>6, <2>7, <2>11, <2>12
<1> QED BY <1>1, <1>2

(* A restore leaves the accounts alone or makes them the document's. *)
LEMMA RestoreSame ==
  ASSUME AccountTypes, AccountInv, NEW g \in Managers, RestoreAccounts(g)
  PROVE  accounts' = accounts \/ (Insertable(req[g].doc) /\ accounts' = req[g].doc)
<1>1. req[g].doc \in Seq(Account) BY DEF AccountTypes, Request
<1>2. CASE Insertable(req[g].doc)
  <2>1. Inserted(req[g].doc) = req[g].doc
    BY <1>1, <1>2, InsertedIsSame DEF Insertable, AccountInv
  <2> QED BY <1>2, <2>1 DEF RestoreAccounts
<1> QED BY <1>2 DEF RestoreAccounts

(* A commit archives what its transaction read, and nothing else of the accounts. *)
LEMMA CommitKeeps ==
  ASSUME AccountTypes, NEW h \in Handlers, Commit(h)
  PROVE  /\ accounts' \in Seq(Account) /\ Len(accounts') = Len(accounts)
         /\ DOMAIN accounts' = DOMAIN accounts
         /\ \A i \in DOMAIN accounts :
              /\ accounts'[i].id = accounts[i].id
              /\ accounts'[i].primary = accounts[i].primary
              /\ accounts'[i].archived <=> accounts[i].archived \/ accounts[i].id \in arch[h]
<1> DEFINE n == Len(accounts)
<1>1. n \in Nat /\ DOMAIN accounts = 1..n /\ \A i \in 1..n : accounts[i] \in Account
  BY DEF AccountTypes
<1>2. /\ accounts' = [i \in 1..n |-> accounts'[i]]
      /\ \A i \in 1..n : accounts'[i] =
           [accounts[i] EXCEPT !.archived = accounts[i].archived \/ accounts[i].id \in arch[h]]
  BY <1>1 DEF Commit
<1>3. \A i \in 1..n :
        /\ accounts'[i] \in Account
        /\ accounts'[i].id = accounts[i].id /\ accounts'[i].primary = accounts[i].primary
        /\ accounts'[i].archived <=> accounts[i].archived \/ accounts[i].id \in arch[h]
  BY <1>1, <1>2 DEF Account
<1> HIDE DEF n
<1>4. accounts' \in [1..n -> Account] BY <1>2, <1>3
<1>5. accounts' \in Seq(Account) /\ Len(accounts') = n BY <1>1, <1>4
<1>6. DOMAIN accounts' = 1..n BY <1>2
<1> QED BY <1>1, <1>3, <1>5, <1>6 DEF n

(* What managers have read keeps its type, and what they restore stays sound. *)
LEMMA RequestStep ==
  ASSUME AccountTypes, AccountInv, NEW g \in Managers, Manage(g)
  PROVE  /\ gpc' \in [Managers -> {"idle", "plan", "request", "insert", "update", "restore"}]
         /\ req' \in [Managers -> Request]
         /\ \A k \in Managers : Sound(req'[k].doc)
<1>t. /\ gpc \in [Managers -> {"idle", "plan", "request", "insert", "update", "restore"}]
      /\ req \in [Managers -> Request]
      /\ \A k \in Managers : Sound(req[k].doc)
  BY DEF AccountTypes, AccountInv
<1>1. CASE Return(g)
  <2>1. <<>> \in Seq(Account) OBVIOUS
  <2>2. NoReq \in Request /\ Sound(NoReq.doc) BY <2>1 DEF NoReq, Request, Sound
  <2> HIDE DEF NoReq, Request
  <2>3. gpc' \in [Managers -> {"idle", "plan", "request", "insert", "update", "restore"}]
    BY <1>t, <1>1 DEF Return, Step
  <2> QED BY <1>t, <1>1, <2>2, <2>3 DEF Return
<1>2. CASE Start(g) BY <1>t, <1>2 DEF Start, Step
<1>3. CASE ReadPlan(g)
  <2>1. Plan(sub) \in {"none", "weekly", "annual"} BY DEF Plan
  <2>2. req' = [req EXCEPT ![g] = [req[g] EXCEPT !.plan = Plan(sub)]] BY <1>t, <1>3 DEF ReadPlan
  <2>3. [req[g] EXCEPT !.plan = Plan(sub)] \in Request BY <1>t, <2>1 DEF Request
  <2>4. [req[g] EXCEPT !.plan = Plan(sub)].doc = req[g].doc BY <1>t DEF Request
  <2> QED BY <1>t, <1>3, <2>2, <2>3, <2>4 DEF ReadPlan, Step
<1>4. CASE CountAccounts(g)
  <2> DEFINE b == Active(accounts) = {}
             q == [req[g] EXCEPT !.first = b]
  <2>1. b \in BOOLEAN OBVIOUS
  <2>2. req' = [req EXCEPT ![g] = q] BY <1>t, <1>4 DEF CountAccounts
  <2> HIDE DEF b
  <2>3. q \in Request /\ q.doc = req[g].doc BY <1>t, <2>1 DEF Request
  <2> QED BY <1>t, <1>4, <2>2, <2>3 DEF CountAccounts, Step
<1>5. CASE FindAccount(g)
  <2>1. PICK i \in DOMAIN accounts, a \in BOOLEAN :
          req' = [req EXCEPT ![g].id = accounts[i].id, ![g].archive = a]
    BY <1>5 DEF FindAccount
  <2> DEFINE q == [req[g] EXCEPT !.id = accounts[i].id, !.archive = a]
  <2>2. req' = [req EXCEPT ![g] = q] BY <1>t, <2>1
  <2>a. accounts[i] \in Account BY DEF AccountTypes
  <2>3. accounts[i].id \in Ids BY <2>a DEF Account
  <2>4. q \in Request /\ q.doc = req[g].doc BY <1>t, <2>3 DEF Request
  <2> QED BY <1>t, <1>5, <2>2, <2>4 DEF FindAccount, Step
<1>6. CASE RestoreStart(g)
  <2>1. PICK d \in docs : req' = [req EXCEPT ![g].doc = d] BY <1>6 DEF RestoreStart
  <2> DEFINE q == [req[g] EXCEPT !.doc = d]
  <2>2. req' = [req EXCEPT ![g] = q] BY <1>t, <2>1
  <2>3. d \in Seq(Account) /\ Sound(d) BY DEF AccountTypes, AccountInv
  <2>4. q \in Request /\ q.doc = d BY <1>t, <2>3 DEF Request
  <2> QED BY <1>t, <1>6, <2>2, <2>3, <2>4 DEF RestoreStart, Step
<1> QED
  BY <1>1, <1>2, <1>3, <1>4, <1>5, <1>6
  DEF Manage, InsertAccount, UpdateAccount, RestoreAccounts, GiveUp

(* A step keeps the types of the accounts and the invariant about them. *)
LEMMA AccountStep ==
  ASSUME WebhookTypes, AccountTypes, HandlerInv, AccountInv, [Next]_vars
  PROVE  AccountTypes' /\ AccountInv'
<1> USE MembershipAssumption
<1>1. ASSUME UNCHANGED <<subVars, lapsed, accountVars, managerVars, arch>>
      PROVE  AccountTypes' /\ AccountInv'
  BY <1>1 DEF AccountTypes, AccountInv, Sound, subVars, accountVars, managerVars
<1>2. ASSUME NEW e \in Events, PeriodEnds(e) PROVE AccountTypes' /\ AccountInv'
  BY <1>2 DEF PeriodEnds, AccountTypes, AccountInv, Sound, subVars, accountVars, managerVars,
              handlerVars
<1>3. CASE Save
  BY <1>3 DEF Save, Listed, AccountTypes, AccountInv, Sound, subVars, managerVars, handlerVars
<1>4. ASSUME NEW h \in Handlers, Apply(h) PROVE AccountTypes' /\ AccountInv'
  <2>1. UNCHANGED <<subVars, lapsed, accountVars, managerVars>> BY <1>4 DEF Apply
  <2>2. AccountTypes' BY <2>1 DEF AccountTypes, subVars, accountVars, managerVars
  <2>3. Secondaries # {} => accounts # <<>> /\ accounts[1].id \notin Secondaries
    BY DEF AccountTypes, AccountInv, Sound, Secondaries, Active
  <2>4. \A k \in Handlers :
          arch'[k] # {} => accounts # <<>> /\ accounts[1].id \notin arch'[k]
    BY <1>4, <2>3 DEF Apply, WebhookTypes, AccountInv
  <2> QED BY <2>1, <2>2, <2>4 DEF AccountInv, Sound, accountVars, managerVars
<1>5. ASSUME NEW h \in Handlers, Commit(h) PROVE AccountTypes' /\ AccountInv'
  <2>1. hev[h] \in Events BY <1>5 DEF Commit, WebhookTypes
  <2>2. Status(hev[h]) \in Statuses /\ hev[h].of \in Memberships
    BY <2>1, StatusAccepted, EventParts
  <2>3. /\ sub' \in [Memberships -> Events \cup {NoEvent}]
        /\ \A m \in Memberships : sub'[m] # NoEvent => Status(sub'[m]) \in Statuses
        /\ before' \subseteq Memberships \X Memberships
    BY <1>5, <2>1, <2>2 DEF Commit, AccountTypes
  <2>4. AccountTypes'
    BY <1>5, <2>3, CommitKeeps DEF Commit, AccountTypes, managerVars
  <2>5. \A k \in Handlers : arch'[k] = arch[k] \/ arch'[k] = {}
    BY <1>5 DEF Commit, WebhookTypes
  <2>6. arch[h] # {} => accounts[1].id \notin arch[h] BY DEF AccountInv
  <2>7. Sound(accounts') BY <1>5, <2>6, CommitKeeps DEF AccountInv, Sound
  <2>8. accounts # <<>> => accounts' # <<>> /\ accounts'[1].id = accounts[1].id
    BY <1>5, CommitKeeps DEF AccountTypes
  <2>9. docs' = docs /\ req' = req BY <1>5 DEF Commit, managerVars
  <2>10. \A k \in Handlers :
           arch'[k] # {} => accounts' # <<>> /\ accounts'[1].id \notin arch'[k]
    BY <2>5, <2>8 DEF AccountInv
  <2>11. (\A d \in docs' : Sound(d)) /\ \A g \in Managers : Sound(req'[g].doc)
    BY <2>9 DEF AccountInv
  <2> QED BY <2>4, <2>7, <2>10, <2>11 DEF AccountInv, Sound
<1>6. ASSUME NEW g \in Managers, Manage(g) PROVE AccountTypes' /\ AccountInv'
  <2>1. UNCHANGED <<subVars, lapsed, docs, arch>>
    BY <1>6 DEF Manage, Start, ReadPlan, CountAccounts, InsertAccount, FindAccount,
       UpdateAccount, RestoreStart, RestoreAccounts, GiveUp, accountVars, handlerVars
  <2>2. /\ accounts' \in Seq(Account) /\ Sound(accounts')
        /\ \/ accounts # <<>> => accounts' # <<>> /\ accounts'[1].id = accounts[1].id
           \/ \A h \in Handlers : arch[h] = {}
    <3>1. CASE InsertAccount(g) BY <3>1, InsertSound
    <3>2. CASE UpdateAccount(g) BY <3>2, UpdateSound
    <3>3. CASE RestoreAccounts(g)
      <4>1. req[g].doc \in Seq(Account) BY DEF AccountTypes, Request
      <4> QED BY <3>3, <4>1, RestoreSame DEF AccountTypes, AccountInv, RestoreAccounts
    <3>4. CASE accounts' = accounts BY <3>4 DEF AccountTypes, AccountInv
    <3> QED BY <1>6, <3>1, <3>2, <3>3, <3>4, ReadersLeaveAccounts DEF Manage, accountVars
  <2>3. AccountTypes' BY <1>6, <2>1, <2>2, RequestStep DEF AccountTypes, subVars
  <2>4. \A k \in Managers : Sound(req'[k].doc) BY <1>6, RequestStep
  <2>5. \A d \in docs' : Sound(d) BY <2>1 DEF AccountInv
  <2>6. \A h \in Handlers :
          arch'[h] # {} => accounts' # <<>> /\ accounts'[1].id \notin arch'[h]
    BY <2>1, <2>2 DEF AccountInv
  <2> HIDE DEF Sound
  <2>7. AccountInv'
    BY <2>2, <2>4, <2>5, <2>6 DEF AccountInv, Sound
  <2> QED BY <2>3, <2>7
<1>7. ASSUME (\E e \in Events : Emit(e) \/ Duplicate(e) \/ TenMinutes(e))
             \/ (\E h \in Handlers, e \in Events : Claim(h, e)) \/ UNCHANGED vars
      PROVE  UNCHANGED <<subVars, lapsed, accountVars, managerVars, arch>>
  BY <1>7 DEF Emit, Duplicate, TenMinutes, Claim, vars, handlerVars
<1>8. ASSUME NEW h \in Handlers,
             MarkProcessed(h) \/ StepFails(h) \/ MarkFailed(h) \/ Crash(h)
      PROVE  UNCHANGED <<subVars, lapsed, accountVars, managerVars, arch>>
  <2>1. arch[h] = {} /\ arch \in [Handlers -> SUBSET Ids]
    BY <1>8 DEF MarkProcessed, StepFails, MarkFailed, Crash, HandlerInv, WebhookTypes
  <2>2. arch' = arch \/ arch' = [arch EXCEPT ![h] = {}]
    BY <1>8 DEF MarkProcessed, StepFails, MarkFailed, Crash, Leave, Goto
  <2>3. arch' = arch BY <2>1, <2>2
  <2>4. UNCHANGED <<subVars, lapsed, accountVars, managerVars>>
    BY <1>8 DEF MarkProcessed, StepFails, MarkFailed, Crash
  <2> QED BY <2>3, <2>4
<1> QED
  BY <1>1, <1>2, <1>3, <1>4, <1>5, <1>6, <1>7, <1>8 DEF Next, Handle

-----------------------------------------------------------------------------
(* Everything above as one inductive invariant. *)
MembershipInv == WebhookTypes /\ AccountTypes /\ HandlerInv /\ AccountInv

LEMMA InitInv == Init => MembershipInv
<1> SUFFICES ASSUME Init PROVE MembershipInv OBVIOUS
<1> USE MembershipAssumption DEF Init
<1>1. <<>> \in Seq(Account) OBVIOUS
<1>2. NoReq \in Request /\ Sound(NoReq.doc) BY <1>1 DEF NoReq, Request, Sound
<1>3. WebhookTypes BY DEF WebhookTypes
<1> HIDE DEF NoReq
<1>4. AccountTypes BY <1>1, <1>2 DEF AccountTypes
<1>5. HandlerInv BY DEF HandlerInv, EventExclusive
<1>6. AccountInv BY <1>2 DEF AccountInv, Sound
<1> QED BY <1>3, <1>4, <1>5, <1>6 DEF MembershipInv

LEMMA InvStep == MembershipInv /\ [Next]_vars => MembershipInv'
BY WebhookStep, AccountStep DEF MembershipInv

(* The state is well-formed for any memberships, events, invocations and faults, and a     *)
(* subscription never gets a status the database would refuse.                             *)
THEOREM MembershipTypes == Spec => []TypeOK
<1>1. MembershipInv => TypeOK BY DEF MembershipInv, TypeOK
<1> QED BY InitInv, InvStep, <1>1, PTL DEF Spec

(* However deliveries, retries, failures and stops interleave, no two handlers work on one *)
(* event.                                                                                  *)
THEOREM OneDeliveryAtATime == Spec => []EventExclusive
<1>1. MembershipInv => EventExclusive BY DEF MembershipInv, HandlerInv
<1> QED BY InitInv, InvStep, <1>1, PTL DEF Spec

(* A user with accounts has exactly one active primary account, the oldest one. *)
THEOREM MainAccountStays == Spec => []MainAccount
<1>1. MembershipInv => MainAccount BY DEF MembershipInv, AccountInv, Sound, MainAccount
<1> QED BY InitInv, InvStep, <1>1, PTL DEF Spec

(* The rows of a list before one of them are a finite set. *)
LEMMA FiniteRows ==
  ASSUME NEW rows \in Seq(Account), NEW T \in SUBSET Active(rows)
  PROVE  IsFiniteSet(T) /\ Cardinality(T) \in Nat /\ (Cardinality(T) = 0 <=> T = {})
<1>1. Len(rows) \in Nat /\ T \in SUBSET (1..Len(rows)) BY DEF Active
<1>2. IsFiniteSet(1..Len(rows)) BY <1>1, FS_Interval
<1>3. IsFiniteSet(T) BY <1>1, <1>2, FS_Subset
<1> QED BY <1>3, FS_EmptySet, FS_CardinalityType

(* With an annual plan every sound list of accounts can be inserted. *)
LEMMA AnnualInsertable ==
  ASSUME NEW rows \in Seq(Account), Sound(rows), Plan(sub) = "annual"
  PROVE  Insertable(rows)
<1>1. ASSUME NEW i \in DOMAIN rows PROVE Inserted(rows)[i] = rows[i]
  <2> DEFINE n == Cardinality({j \in Active(rows) : j < i})
  <2>1. Inserted(rows)[i] = Enforced(rows[i], n, TRUE) BY DEF Inserted
  <2>2. rows[i] \in Account OBVIOUS
  <2>3. CASE i = 1
    <3>1. rows[i].primary BY <2>3 DEF Sound
    <3>2. [rows[i] EXCEPT !.primary = TRUE] = rows[i] BY <2>2, <3>1 DEF Account
    <3> QED BY <2>1, <2>2, <3>2, EnforcedParts
  <2>4. CASE i # 1
    <3>1. 1 \in {j \in Active(rows) : j < i} BY <2>4 DEF Active, Sound
    <3>2. n # 0 BY <3>1, FiniteRows
    <3>3. [rows[i] EXCEPT !.primary = rows[i].primary \/ FALSE] = rows[i] BY <2>2 DEF Account
    <3> HIDE DEF n
    <3>4. Enforced(rows[i], n, TRUE) = [rows[i] EXCEPT !.primary = rows[i].primary \/ FALSE]
      BY <3>2 DEF Enforced
    <3> QED BY <2>1, <3>3, <3>4
  <2> QED BY <2>3, <2>4
<1>2. Inserted(rows) = [i \in DOMAIN rows |-> Inserted(rows)[i]] BY DEF Inserted
<1>3. rows = [i \in DOMAIN rows |-> rows[i]] OBVIOUS
<1>4. Inserted(rows) = rows BY <1>1, <1>2, <1>3
<1>5. OnePrimary(rows) /\ NoArchivedPrimary(rows)
  BY DEF Sound, OnePrimary, NoArchivedPrimary, Active
<1>6. \A r, n : Admitted(r, n, FALSE) BY DEF Admitted
<1> QED BY <1>4, <1>5, <1>6 DEF Insertable

(* A restore brings back the accounts of the backup exactly, or changes nothing, which     *)
(* happens only when the annual plan went in the meantime.                                 *)
THEOREM RestoresAreFaithful == Spec => RestoreFaithful
<1>1. ASSUME MembershipInv, NEW g \in Managers, RestoreAccounts(g)
      PROVE  accounts' = req[g].doc \/ (accounts' = accounts /\ Plan(sub) # "annual")
  <2>a. req[g] \in Request /\ Sound(req[g].doc)
    BY <1>1 DEF MembershipInv, AccountTypes, AccountInv
  <2>1. req[g].doc \in Seq(Account) /\ Sound(req[g].doc) BY <2>a DEF Request
  <2>2. CASE Insertable(req[g].doc)
    <3>1. Inserted(req[g].doc) = req[g].doc
      BY <2>1, <2>2, InsertedIsSame DEF Insertable
    <3> QED BY <1>1, <2>2, <3>1 DEF RestoreAccounts
  <2>3. CASE ~Insertable(req[g].doc)
    <3>1. Plan(sub) # "annual" BY <2>1, <2>3, AnnualInsertable
    <3> QED BY <1>1, <2>3, <3>1 DEF RestoreAccounts
  <2> QED BY <2>2, <2>3
<1>2. MembershipInv => [\A g \in Managers : RestoreAccounts(g) =>
                          \/ accounts' = req[g].doc
                          \/ accounts' = accounts /\ Plan(sub) # "annual"]_vars
  BY <1>1
<1> QED BY InitInv, InvStep, <1>2, PTL DEF Spec, RestoreFaithful

-----------------------------------------------------------------------------
Grows ==
  \/ ActiveIds(accounts') \subseteq ActiveIds(accounts)
  \/ Plan(sub) = "annual"
  \/ Plan(sub) = "weekly" /\ Cardinality(Active(accounts')) = 1

(* An account created becomes active as the plan allows. *)
LEMMA InsertGrows ==
  ASSUME AccountTypes, NEW g \in Managers, InsertAccount(g)
  PROVE  Grows
<1> DEFINE n == Cardinality(Active(accounts))
<1>1. PICK i \in Ids \ IdsOf(accounts) :
        LET r == [id |-> i, archived |-> FALSE, primary |-> req[g].first]
            rows == Append(accounts, Enforced(r, n, TRUE)) IN
          accounts' = IF Admitted(r, n, FALSE) /\ OnePrimary(rows) THEN rows ELSE accounts
  BY DEF InsertAccount
<1> HIDE DEF n
<1> DEFINE r == [id |-> i, archived |-> FALSE, primary |-> req[g].first]
           e == Enforced(r, n, TRUE)
           rows == Append(accounts, e)
<1>2. accounts \in Seq(Account) /\ req[g] \in Request BY DEF AccountTypes
<1>3. CASE accounts' = accounts BY <1>3 DEF Grows
<1>4. CASE accounts' = rows /\ Admitted(r, n, FALSE) /\ Plan(sub) # "annual"
  <2>1. Plan(sub) = "weekly" BY <1>4 DEF Admitted, Plan
  <2>2. n \in Nat /\ (n = 0 <=> Active(accounts) = {}) BY <1>2, FiniteRows DEF n
  <2>3. Active(accounts) = {} BY <1>4, <2>1, <2>2 DEF Admitted
  <2>4. r \in Account /\ ~r.archived BY <1>2 DEF Request, Account
  <2> HIDE DEF r
  <2>5. e \in Account /\ ~e.archived BY <2>4, EnforcedParts DEF Account
  <2> HIDE DEF e
  <2>6. /\ DOMAIN rows = DOMAIN accounts \cup {Len(accounts) + 1}
        /\ Len(accounts) + 1 \notin DOMAIN accounts
        /\ rows[Len(accounts) + 1] = e
        /\ \A j \in DOMAIN accounts : rows[j] = accounts[j]
    BY <1>2, <2>5
  <2>7. Active(rows) = {Len(accounts) + 1} BY <2>3, <2>5, <2>6 DEF Active
  <2> QED BY <1>4, <2>1, <2>7, FS_Singleton DEF Grows
<1> QED BY <1>1, <1>3, <1>4 DEF Grows

(* An account restored from the archive becomes active as the plan allows. *)
LEMMA UpdateGrows ==
  ASSUME AccountTypes, NEW g \in Managers, UpdateAccount(g)
  PROVE  Grows
<1>1. CASE accounts' = accounts BY <1>1 DEF Grows
<1>2. CASE accounts' # accounts /\ Plan(sub) # "annual"
  <2>1. PICK i \in DOMAIN accounts :
          LET n == Cardinality(Active(accounts) \ {i})
              r == [accounts[i] EXCEPT !.archived = req[g].archive]
              rows == [accounts EXCEPT ![i] = Enforced(r, n, FALSE)]
          IN accounts' = rows /\ Admitted(r, n, ~accounts[i].archived)
    BY <1>2 DEF UpdateAccount
  <2> DEFINE n == Cardinality(Active(accounts) \ {i})
             r == [accounts[i] EXCEPT !.archived = req[g].archive]
             e == Enforced(r, n, FALSE)
             rows == [accounts EXCEPT ![i] = e]
             was == ~accounts[i].archived
  <2>2. accounts \in Seq(Account) /\ req[g] \in Request /\ accounts[i] \in Account
    BY DEF AccountTypes
  <2>3. r \in Account /\ r.id = accounts[i].id
    BY <2>2 DEF Request, Account
  <2>4. e = r \/ e = [r EXCEPT !.primary = TRUE] BY <2>3, EnforcedParts
  <2>5. n \in Nat /\ (n = 0 <=> Active(accounts) \ {i} = {}) BY <2>2, FiniteRows
  <2>6. accounts' = rows /\ Admitted(r, n, was) BY <2>1
  <2> HIDE DEF r, n, was
  <2>7. e \in Account /\ e.id = accounts[i].id /\ (e.archived <=> r.archived)
    BY <2>3, <2>4 DEF Account
  <2>8. Plan(sub) = "weekly" BY <1>2, <2>6 DEF Admitted, Plan
  <2>9. r.archived \/ n = 0 \/ was
    BY <2>5, <2>6, <2>8 DEF Admitted
  <2> HIDE DEF e
  <2>10. /\ DOMAIN rows = DOMAIN accounts /\ rows[i] = e
         /\ \A j \in DOMAIN accounts \ {i} : rows[j] = accounts[j]
    BY <2>2
  <2>11. CASE r.archived \/ was
    BY <2>6, <2>7, <2>10, <2>11 DEF Grows, ActiveIds, Active, was
  <2>12. CASE ~r.archived /\ n = 0
    <3>1. Active(accounts) \ {i} = {} BY <2>5, <2>12
    <3>2. Active(rows) = {i} BY <2>7, <2>10, <2>12, <3>1 DEF Active
    <3> QED BY <2>6, <2>8, <3>2, FS_Singleton DEF Grows
  <2> QED BY <2>9, <2>11, <2>12
<1> QED BY <1>1, <1>2 DEF Grows

(* Accounts inserted by a restore are active as the plan allows. *)
LEMMA RestoreGrows ==
  ASSUME AccountTypes, AccountInv, NEW g \in Managers, RestoreAccounts(g)
  PROVE  Grows
<1> DEFINE d == req[g].doc
<1>a. req[g] \in Request BY DEF AccountTypes
<1>1. d \in Seq(Account) /\ Sound(d) BY <1>a DEF AccountInv, Request
<1>2. CASE accounts' = accounts \/ Plan(sub) = "annual" BY <1>2 DEF Grows
<1>3. CASE Insertable(d) /\ accounts' = d /\ Plan(sub) # "annual"
  <2> HIDE DEF d
  <2>1. CASE d = <<>> BY <1>3, <2>1 DEF Grows, ActiveIds, Active
  <2>2. CASE d # <<>>
    <3>1. 1 \in DOMAIN d BY <1>1, <2>2
    <3>2. 1 \in Active(d) BY <1>1, <3>1 DEF Sound, Active
    <3>3. Plan(sub) = "weekly" BY <1>3, <3>1 DEF Insertable, Admitted, Plan
    <3>4. ASSUME NEW i \in Active(d) PROVE i = 1
      <4> DEFINE T == {j \in Active(d) : j < i}
      <4>1. i \in DOMAIN d /\ ~d[i].archived BY DEF Active
      <4>2. ~(Cardinality(T) >= 1) BY <1>3, <3>3, <4>1 DEF Insertable, Admitted
      <4>3. Cardinality(T) \in Nat /\ (Cardinality(T) = 0 <=> T = {}) BY <1>1, FiniteRows
      <4> HIDE DEF T
      <4>4. T = {} BY <4>2, <4>3
      <4>5. i \in Nat /\ i >= 1 BY <1>1, <4>1
      <4> QED BY <3>2, <4>4, <4>5 DEF T
    <3>5. Active(d) = {1} BY <3>2, <3>4
    <3> QED BY <1>3, <3>3, <3>5, FS_Singleton DEF Grows
  <2> QED BY <2>1, <2>2
<1> QED BY <1>2, <1>3, RestoreSame

(* Whatever a manager read before, an account becomes active only within the plan of the   *)
(* moment it is written.                                                                   *)
THEOREM AccountsGrowWithinPlan == Spec => GrowsWithinPlan
<1>1. ASSUME MembershipInv, [Next]_vars PROVE Grows \/ UNCHANGED vars
  <2>1. CASE accounts' = accounts BY <2>1 DEF Grows
  <2>2. ASSUME NEW h \in Handlers, Commit(h) PROVE Grows
    BY <1>1, <2>2, CommitKeeps DEF MembershipInv, Grows, ActiveIds, Active
  <2>3. ASSUME NEW g \in Managers, Manage(g) PROVE Grows
    <3>1. AccountTypes /\ AccountInv BY <1>1 DEF MembershipInv
    <3>2. CASE InsertAccount(g) BY <3>1, <3>2, InsertGrows
    <3>3. CASE UpdateAccount(g) BY <3>1, <3>3, UpdateGrows
    <3>4. CASE RestoreAccounts(g) BY <3>1, <3>4, RestoreGrows
    <3>5. CASE Start(g) \/ ReadPlan(g) \/ CountAccounts(g)
               \/ FindAccount(g) \/ RestoreStart(g) \/ GiveUp(g)
      <4>1. accounts' = accounts BY <3>5, ReadersLeaveAccounts DEF accountVars
      <4> QED BY <4>1 DEF Grows
    <3> QED BY <2>3, <3>2, <3>3, <3>4, <3>5 DEF Manage
  <2>4. CASE accounts' # accounts /\ ~UNCHANGED vars
    BY <1>1, <2>2, <2>3, <2>4
    DEF Next, Emit, Duplicate, TenMinutes, PeriodEnds, Claim, Handle, Apply, MarkProcessed,
        StepFails, MarkFailed, Crash, Save, accountVars
  <2> QED BY <2>1, <2>4
<1>2. MembershipInv /\ [Next]_vars => [Grows]_vars BY <1>1
<1> QED BY InitInv, InvStep, <1>2, PTL DEF Spec, GrowsWithinPlan, Grows
=============================================================================
