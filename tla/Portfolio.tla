----------------------------- MODULE Portfolio ------------------------------
(***************************************************************************)
(* What the user keeps by hand: goals with their contributions and         *)
(* categories, and an investment with its cash flows and valuations.  The  *)
(* pages write through data.ts, some of them in several calls from what    *)
(* they showed when a form was opened, and two windows may be open.        *)
(***************************************************************************)
EXTENDS Integers, Sequences, FiniteSets, SequencesExt

CONSTANTS
  Goals,     \* goals, each named after itself
  Named,     \* categories of kind goal: those named like a goal, and others
  Windows,   \* open windows
  Amounts,   \* amounts in minor units that are entered
  MaxDay,    \* bound: the clock, and the dates that are entered
  GoalMax,   \* bound: targets of goals, and what is contributed to one
  MaxWrites  \* bound: rows written for the investment

ASSUME PortfolioAssumption ==
  /\ Goals \subseteq Named /\ Amounts \subseteq Nat /\ {MaxDay, GoalMax, MaxWrites} \subseteq Nat

VARIABLES
  goal,        \* goals: category, target, contributions, status
  categories,  \* categories that exist
  giving,      \* of a window: a contribution that is being inserted, and what its trigger read
  raced,       \* history: the goal's last contribution or edit was worked out from older figures
  day,         \* the clock
  contributed, \* sum of the cash flows in investment_transactions
  newest,      \* investment_valuations: the one that is shown, with its date
  writes,      \* rows of the investment, for the bound: 0 when it does not exist
  form,        \* a window's form: the statement it is at, what it was opened with, what it wants
  outside, overdrawn \* history: who wrote since a form was opened; more withdrawn than contributed

portfolio == <<goal, categories, giving, raced, day, contributed, newest, writes, form, outside, overdrawn>>
goalVars == <<goal, categories, giving, raced>>
investment == <<day, contributed, newest, writes, form, outside, overdrawn>>

Nothing == [goal |-> "none"]
NoGoal == [category |-> "none", target |-> 0, current |-> 0, status |-> "none"]
HasGoal(g) == goal[g] # NoGoal
InUse(c) == \E g \in Goals : goal[g].category = c

\* ensure_goal_category: without a choice it is the category of the goal's name
GoalCategory(g, c) == IF c = "none" THEN g ELSE c

PutGoal(g, r) == goal' = [goal EXCEPT ![g] = r]

CreateGoal(g, c, target) ==
  /\ ~HasGoal(g) /\ target > 0
  /\ PutGoal(g, [category |-> GoalCategory(g, c), target |-> target, current |-> 0, status |-> "active"])
  /\ categories' = categories \cup ({GoalCategory(g, c)} \ {"none"})
  /\ UNCHANGED <<giving, raced, investment>>

\* submitEdit of a card that may be out of date: a goal that was reached when it was shown is
\* completed, unless another status is chosen
EditGoal(g, c, target, status, shown) ==
  /\ HasGoal(g) /\ target > 0 /\ shown \in 0..goal[g].current
  /\ PutGoal(g, [goal[g] EXCEPT
       !.category = GoalCategory(g, c), !.target = target,
       !.status = IF shown >= target /\ status = "active" THEN "completed" ELSE status])
  /\ categories' = categories \cup ({GoalCategory(g, c)} \ {"none"})
  /\ raced' = [raced EXCEPT ![g] = shown # goal[g].current]
  /\ UNCHANGED <<giving, investment>>

\* contributeToGoal, from a card that may be out of date: one statement inserts a row, and its
\* trigger reads the sum (with this row, without those of statements that have not ended) and
\* the target ...
Contribute(w, g, amount) ==
  /\ giving[w] = Nothing /\ HasGoal(g) /\ amount > 0 /\ goal[g].current + amount <= GoalMax
  /\ giving' = [giving EXCEPT ![w] = [goal |-> g, amount |-> amount,
                                      total |-> goal[g].current + amount, target |-> goal[g].target]]
  /\ UNCHANGED <<goal, categories, raced, investment>>

\* mutant: a goal must be exceeded
RefreshedBeyond(status, total, target) ==
  IF status \in {"paused", "canceled"} THEN status ELSE IF total > target THEN "completed" ELSE "active"

\* refresh_goal_status
Refreshed(status, total, target) ==
  IF status \in {"paused", "canceled"} THEN status ELSE IF total >= target THEN "completed" ELSE "active"

\* ... and then waits for the goal's row, writes its status and commits
Contributed(w) ==
  LET c == giving[w] IN
  /\ c # Nothing /\ giving' = [giving EXCEPT ![w] = Nothing]
  /\ PutGoal(c.goal, [goal[c.goal] EXCEPT !.current = @ + c.amount, !.status = Refreshed(@, c.total, c.target)])
  /\ raced' = [raced EXCEPT ![c.goal] = c.total # goal'[c.goal].current \/ c.target # goal[c.goal].target]
  /\ UNCHANGED <<categories, investment>>

\* a row that refers to the goal makes the deletion wait
DeleteGoal(g) ==
  /\ HasGoal(g) /\ \A w \in Windows : giving[w].goal # g
  /\ PutGoal(g, NoGoal) /\ raced' = [raced EXCEPT ![g] = FALSE]
  /\ UNCHANGED <<categories, giving, investment>>

CreateCategory(c) ==
  c \notin categories /\ categories' = categories \cup {c} /\ UNCHANGED <<goal, giving, raced, investment>>

\* protect_category_mutation: a category that something refers to stays
DeleteCategory(c) ==
  /\ c \in categories /\ ~InUse(c)
  /\ categories' = categories \ {c}
  /\ UNCHANGED <<goal, giving, raced, investment>>

-----------------------------------------------------------------------------
\* investment_performance: the sum of the flows, never shown below zero, and the valuation with
\* the latest date, of those the one inserted last
Shown == [net |-> IF contributed > 0 THEN contributed ELSE 0, value |-> newest.value]

NoValue == [value |-> 0, at |-> -1]
Closed == [at |-> "closed", shown |-> [net |-> 0, value |-> 0], want |-> [net |-> 0, value |-> 0]]
Step(w, where) == form' = [form EXCEPT ![w].at = where]
Save(w) == form' = [form EXCEPT ![w] = [Closed EXCEPT !.at = "saved"]]
Wrote(w) == outside' = outside \cup (Windows \ {w})
Room == writes < MaxWrites /\ writes' = writes + 1

Value(v, date) == newest' = IF date >= newest.at THEN [value |-> v, at |-> date] ELSE newest

\* record_investment_cashflow, with the investment locked: the flow, and the newest value
\* moved by it but never below zero, both with the date that was entered
Cashflow(amount, date) ==
  LET v == newest.value + amount
  IN  /\ contributed' = contributed + amount /\ overdrawn' = (overdrawn \/ contributed' < 0)
      /\ Value(IF v > 0 THEN v ELSE 0, date)

\* createInvestment: the investment, its first contribution and its first valuation are three
\* calls; the page shows an investment as soon as its row is there
Create(w, want) ==
  /\ form[w].at = "closed" /\ writes = 0 /\ writes' = 1
  /\ form' = [form EXCEPT ![w] = [Closed EXCEPT !.at = "contribution", !.want = want]]
  /\ outside' = outside \ {w}
  /\ UNCHANGED <<goalVars, day, contributed, newest, overdrawn>>
CreateFlow(w) ==
  /\ form[w].at = "contribution" /\ Room
  /\ contributed' = contributed + form[w].want.net
  /\ Step(w, "valuation") /\ Wrote(w)
  /\ UNCHANGED <<goalVars, day, newest, overdrawn>>

\* submitUpdate: the form has a date, today or any other day
Update(w, date) ==
  /\ form[w].at = "closed" /\ writes > 0 /\ Room /\ Wrote(w)
  /\ \/ \E a \in Amounts \ {0} : Cashflow(a, date) \/ Cashflow(-a, date)
     \/ \E v \in Amounts : Value(v, date) /\ UNCHANGED <<contributed, overdrawn>>
  /\ UNCHANGED <<goalVars, day, form>>

\* openDetailsEditor shows what the page last loaded, submitDetails works from it
Edit(w, want) ==
  /\ form[w].at = "closed" /\ writes > 0
  /\ form' = [form EXCEPT ![w] = [at |-> "net", shown |-> Shown, want |-> want]]
  /\ outside' = outside \ {w}
  /\ UNCHANGED <<goalVars, day, contributed, newest, overdrawn, writes>>

\* mutant: the value is saved when its own field was changed
ValueFollowsOwn(f) == f.want.value # f.shown.value

\* submitDetails ends with a valuation when either field was changed
ValueFollows(f) == f.want # f.shown

\* the correction of the contributions is a cash flow of the difference, dated now
CorrectNet(w) ==
  /\ form[w].at = "net" /\ Room
  /\ LET f == form[w]
     IN  IF f.want.net = f.shown.net
           THEN UNCHANGED <<contributed, newest, overdrawn, outside>>
           ELSE Cashflow(f.want.net - f.shown.net, day) /\ Wrote(w)
  /\ IF ValueFollows(form[w]) THEN Step(w, "valuation") ELSE Save(w)
  /\ UNCHANGED <<goalVars, day>>

\* the valuation that ends both forms, dated now
FinalValue(w) ==
  /\ form[w].at = "valuation" /\ Room
  /\ Value(form[w].want.value, day) /\ Wrote(w) /\ Save(w)
  /\ UNCHANGED <<goalVars, day, contributed, overdrawn>>

\* the form closes when all is written, or as soon as a call fails
Close(w) ==
  /\ form[w].at # "closed"
  /\ form' = [form EXCEPT ![w] = Closed] /\ outside' = outside \ {w}
  /\ UNCHANGED <<goalVars, day, contributed, newest, overdrawn, writes>>

NextDay == day < MaxDay /\ day' = day + 1 /\ UNCHANGED <<goalVars, contributed, newest, overdrawn, writes, form, outside>>

PortfolioInit ==
  /\ goal = [g \in Goals |-> NoGoal] /\ categories = {}
  /\ giving = [w \in Windows |-> Nothing] /\ raced = [g \in Goals |-> FALSE]
  /\ day = 0 /\ contributed = 0 /\ newest = NoValue /\ writes = 0 /\ overdrawn = FALSE
  /\ form = [w \in Windows |-> Closed] /\ outside = {}

GoalNext ==
  \/ \E g \in Goals, c \in categories \cup {"none"}, t \in 1..GoalMax :
       \/ CreateGoal(g, c, t)
       \/ \E s \in {"active", "completed", "paused", "canceled"}, n \in 0..GoalMax : EditGoal(g, c, t, s, n)
  \/ \E g \in Goals : DeleteGoal(g) \/ \E w \in Windows, n \in 1..GoalMax : Contribute(w, g, n)
  \/ \E w \in Windows : Contributed(w)
  \/ \E c \in Named : CreateCategory(c) \/ DeleteCategory(c)

InvestmentNext ==
  \/ \E w \in Windows : CreateFlow(w) \/ CorrectNet(w) \/ FinalValue(w) \/ Close(w)
  \/ \E w \in Windows, want \in [net : Amounts, value : Amounts] : Create(w, want) \/ Edit(w, want)
  \/ \E w \in Windows, date \in 0..MaxDay : Update(w, date)
  \/ NextDay

PortfolioSpec == PortfolioInit /\ [][GoalNext \/ InvestmentNext]_portfolio

-----------------------------------------------------------------------------
\* A goal that is reached does not stay active, whatever is contributed, edited and deleted
\* from cards that are out of date - unless the last contribution or edit was worked out from
\* older figures: two contributions at once each miss the other, until the next one.
\* (refresh_goal_status, GoalCard submitEdit)
ReachedIsCompleted ==
  \A g \in Goals :
    HasGoal(g) /\ goal[g].current >= goal[g].target /\ ~raced[g] => goal[g].status # "active"

\* The editor is authoritative (InvestmentsPage, submitDetails): when a form has saved and
\* nothing else was written meanwhile, the page shows what was entered - unless a valuation
\* carries a later date, or more was withdrawn than contributed, which the page shows as 0.
EditorAuthoritative ==
  [][\A w \in Windows : form'[w].at = "saved" /\ form[w].at # "saved" /\ w \notin outside =>
       /\ newest'.value = form[w].want.value \/ newest'.at > day
       /\ Shown'.net = form[w].want.net \/ overdrawn']_portfolio
=============================================================================
