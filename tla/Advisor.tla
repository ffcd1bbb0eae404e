------------------------------ MODULE Advisor -------------------------------
(***************************************************************************)
(* The advisor: a form filled from the tracker and corrected by the user,  *)
(* the plan that the rules make of it (core/advisor/deterministic.ts), and *)
(* the explanation the service ai-advisor gives of a plan.  Snapshots and  *)
(* explanations are answers: they arrive when they arrive, one after       *)
(* another or in another order than they were asked for.                   *)
(***************************************************************************)
EXTENDS Integers, FiniteSets, SequencesExt, Lists

CONSTANTS
  Currencies,
  Snapshots,   \* what loadAdvisorSnapshot may find for a currency: forms
  UserGoals,   \* the goals of the user, in the order the service lists them
  Corrections, \* what the user may write in a field
  MaxEdits,    \* bound: corrections
  MaxAsks      \* bound: snapshots and explanations asked for

VARIABLES
  form, goals, include, \* the form, the goals on the page, whether they count
  plan, told,           \* the plan shown and the explanation shown with it
  snaps, ai,            \* currencies of the snapshots under way; the plan being explained
  page,                 \* "loading", "first" while the first snapshot is under way, "ready"
  edits, asks           \* for the bounds

advisor == <<form, goals, include, plan, told, snaps, ai, page, edits, asks>>

Fields == {"liquid", "income", "essentials", "discretionary", "reserve", "monthly", "months"}
Form == [liquid : Nat, income : Nat, essentials : Nat, discretionary : Nat, reserve : Nat,
         monthly : Nat, months : Nat, currency : Currencies]
UserGoal == [id : STRING, remaining : Nat, priority : Nat, date : Nat, currency : Currencies, active : BOOLEAN]

\* Amounts are never negative (validateAdvisorInput, and the fields of the page), and a goal
\* has an id of its own.
ASSUME AdvisorAssumption ==
  /\ "COP" \in Currencies /\ Snapshots \subseteq Form /\ UserGoals \in Seq(UserGoal)
  /\ Corrections \subseteq Nat /\ MaxEdits \in Nat /\ MaxAsks \in Nat
  /\ \A i, j \in DOMAIN UserGoals : UserGoals[i].id = UserGoals[j].id => i = j
  /\ \A i \in DOMAIN UserGoals : UserGoals[i].id \notin {"essentials", "reserve", "discretionary", "investment"}

\* what money goes to
Buckets == {"essentials", "reserve", "discretionary", "investment"} \cup {g.id : g \in Range(UserGoals)}
None == [lines |-> <<>>]

-----------------------------------------------------------------------------
(* The rules.                                                              *)

AtLeast0(n) == IF n > 0 THEN n ELSE 0

\* Higher priority first, then the earlier date, goals without a date last, then as listed.
Before(a, b) ==
  \/ a.priority > b.priority
  \/ a.priority = b.priority /\ a.date # 0 /\ (b.date = 0 \/ a.date < b.date)

Precedes(list, i, j) == Before(list[i], list[j]) \/ (~Before(list[j], list[i]) /\ i < j)

\* The goals of list at the places S; the k-th has k - 1 before it.
SortGoals(list, S) ==
  LET Rank(i) == Cardinality({j \in S : Precedes(list, j, i)}) + 1
  IN [k \in 1..Cardinality(S) |-> list[CHOOSE i \in S : Rank(i) = k]]

Request(bucket, amount) == [bucket |-> bucket, amount |-> amount]

\* mutant: the reserve gets what the goals leave.
RequestsGoalsFirst(f, sorted) ==
  <<Request("essentials", f.essentials)>>
  \o [k \in DOMAIN sorted |-> Request(sorted[k].id, sorted[k].remaining)]
  \o <<Request("reserve", AtLeast0(f.monthly * f.months - f.reserve)),
       Request("discretionary", f.discretionary), Request("investment", f.liquid + f.income)>>

\* What is asked for, in the order it is served; the rest is invested.
Requests(f, sorted) ==
  <<Request("essentials", f.essentials),
    Request("reserve", AtLeast0(f.monthly * f.months - f.reserve))>>
  \o [k \in DOMAIN sorted |-> Request(sorted[k].id, sorted[k].remaining)]
  \o <<Request("discretionary", f.discretionary), Request("investment", f.liquid + f.income)>>

\* As much as there is, and no line for nothing.
Allocate(m, r) ==
  LET amount == AtLeast0(IF m.left < r.amount THEN m.left ELSE r.amount)
  IN [left |-> m.left - amount,
      lines |-> IF amount > 0 THEN Append(m.lines, Request(r.bucket, amount)) ELSE m.lines]

Allocations(gross, asked) ==
  Running(LAMBDA m, k : Allocate(m, asked[k]), [left |-> gross, lines |-> <<>>], Len(asked))[Len(asked)]

AmountIn(lines, buckets) ==
  Running(LAMBDA n, k : IF lines[k].bucket \in buckets THEN n + lines[k].amount ELSE n, 0, Len(lines))[Len(lines)]
AmountOf(lines, bucket) == AmountIn(lines, {bucket})
Total(lines) == AmountIn(lines, Buckets)

BuildPlan(f, list, S) ==
  LET gross == f.liquid + f.income
      lines == Allocations(gross, Requests(f, SortGoals(list, S))).lines
      deficit == AtLeast0(f.essentials - AmountOf(lines, "essentials"))
  IN [currency |-> f.currency, lines |-> lines, deficit |-> deficit,
      available |-> AtLeast0(gross - deficit), from |-> f, goals |-> {list[i] : i \in S}]

\* The goals of the form's currency that are still active, by their places in the list.
Counted(list, currency) == {i \in DOMAIN list : list[i].active /\ list[i].currency = currency}

\* validateSafePlan of ai-advisor: the lines may not exceed what is available.
SafePlan(p) == Total(p.lines) <= p.available

-----------------------------------------------------------------------------
(* The page.                                                               *)

Blank(currency) ==
  [liquid |-> 1, income |-> 1, essentials |-> 1, discretionary |-> 1, reserve |-> 1, monthly |-> 1,
   months |-> 1, currency |-> currency]

\* setPlan(null) and setAiExplanation(null)
Reset == plan' = None /\ told' = None

\* The goals, the subscription and the profile have arrived.
GoalsArrive ==
  /\ page = "loading" /\ page' = "first"
  /\ goals' = UserGoals
  /\ UNCHANGED <<form, include, plan, told, snaps, ai, edits, asks>>

\* applySnapshot, of the first one.
FirstSnapshot(s) ==
  /\ page = "first" /\ page' = "ready"
  /\ form' = s /\ Reset
  /\ UNCHANGED <<goals, include, snaps, ai, edits, asks>>

\* It fails: only the currency changes, and a plan made meanwhile stays.
NoFirstSnapshot(currency) ==
  /\ page = "first" /\ page' = "ready"
  /\ form' = [form EXCEPT !.currency = currency]
  /\ UNCHANGED <<goals, include, plan, told, snaps, ai, edits, asks>>

Edit(field, amount) ==
  /\ edits < MaxEdits /\ edits' = edits + 1
  /\ form' = [form EXCEPT ![field] = amount] /\ Reset
  /\ UNCHANGED <<goals, include, snaps, ai, page, asks>>

Ask == asks < MaxAsks /\ asks' = asks + 1

\* A change of the currency asks for its figures; the button asks for them again, one at a time.
ChangeCurrency(currency) ==
  /\ Ask /\ currency # form.currency
  /\ form' = [form EXCEPT !.currency = currency] /\ Reset
  /\ snaps' = Append(snaps, currency)
  /\ UNCHANGED <<goals, include, ai, page, edits>>

RefreshSnapshot ==
  /\ Ask /\ snaps = <<>> /\ snaps' = <<form.currency>>
  /\ UNCHANGED <<form, goals, include, plan, told, ai, page, edits>>

\* The answer to the i-th, or its failure, which leaves everything as it is.
SnapshotArrives(i, s) ==
  /\ s.currency = snaps[i] /\ snaps' = RemoveAt(snaps, i)
  /\ form' = s /\ Reset
  /\ UNCHANGED <<goals, include, ai, page, edits, asks>>

SnapshotFails(i) ==
  /\ snaps' = RemoveAt(snaps, i)
  /\ UNCHANGED <<form, goals, include, plan, told, ai, page, edits, asks>>

ToggleGoals ==
  /\ Ask /\ include' = ~include /\ plan' = None
  /\ UNCHANGED <<form, goals, told, snaps, ai, page, edits>>

Calculate ==
  /\ plan' = BuildPlan(form, goals, IF include THEN Counted(goals, form.currency) ELSE {})
  /\ told' = None
  /\ UNCHANGED <<form, goals, include, snaps, ai, page, edits, asks>>

ExplainWithAi ==
  /\ Ask /\ plan # None /\ ai = None /\ ai' = plan
  /\ UNCHANGED <<form, goals, include, plan, told, snaps, page, edits>>

\* The service refuses a plan, or explains it; the page shows the explanation with whatever
\* plan it has by then.
Explained ==
  /\ ai # None /\ ai' = None
  /\ told' = IF SafePlan(ai) THEN ai ELSE told
  /\ UNCHANGED <<form, goals, include, plan, snaps, page, edits, asks>>

NotExplained ==
  /\ ai # None /\ ai' = None
  /\ UNCHANGED <<form, goals, include, plan, told, snaps, page, edits, asks>>

AdvisorInit ==
  /\ form = Blank("COP") /\ goals = <<>> /\ include = TRUE
  /\ plan = None /\ told = None /\ snaps = <<>> /\ ai = None
  /\ page = "loading" /\ edits = 0 /\ asks = 0

AdvisorNext ==
  \/ GoalsArrive
  \/ \E s \in Snapshots : FirstSnapshot(s) \/ \E i \in DOMAIN snaps : SnapshotArrives(i, s)
  \/ \E c \in Currencies : NoFirstSnapshot(c) \/ ChangeCurrency(c)
  \/ \E f \in Fields, n \in Corrections : Edit(f, n)
  \/ \E i \in DOMAIN snaps : SnapshotFails(i)
  \/ RefreshSnapshot \/ ToggleGoals \/ Calculate
  \/ ExplainWithAi \/ Explained \/ NotExplained

AdvisorSpec == AdvisorInit /\ [][AdvisorNext]_advisor

-----------------------------------------------------------------------------
\* Everything the form asks for before a line has been given in full.
ServedInOrder(p) ==
  \A later \in DOMAIN p.lines :
    /\ p.lines[later].bucket # "essentials" => p.deficit = 0
    /\ p.lines[later].bucket \notin {"essentials", "reserve"} =>
         AmountOf(p.lines, "reserve") = AtLeast0(p.from.monthly * p.from.months - p.from.reserve)
    /\ p.lines[later].bucket \in {"discretionary", "investment"} =>
         \A g \in p.goals : AmountOf(p.lines, g.id) = g.remaining
    /\ p.lines[later].bucket = "investment" => AmountOf(p.lines, "discretionary") = p.from.discretionary
    /\ \A g, h \in p.goals :
         Before(h, g) /\ p.lines[later].bucket = g.id => AmountOf(p.lines, h.id) = h.remaining

\* A plan gives away all the money and no more; what comes later in the order (essential
\* expenses, reserve, goals by priority and date, discretionary, investment) gets something
\* only if everything before it got all it needs; and once the page is ready, a plan that
\* was made since then is the plan of the figures and goals on the page, whatever snapshot
\* arrived late.  (deterministic.ts, AdvisorPage.tsx)
Waterfall ==
  plan # None =>
    /\ Total(plan.lines) = plan.from.liquid + plan.from.income
    /\ ServedInOrder(plan)
    /\ page = "ready" /\ plan.currency = form.currency => plan.from = form
=============================================================================
