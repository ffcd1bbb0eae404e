----------------------------- MODULE Dashboard ------------------------------
(***************************************************************************)
(* The totals of the dashboard (data.ts loadDashboardSummary) and the      *)
(* service of exchange rates they are converted with (fx-rate): totals are *)
(* gathered by currency and converted one after another; a rate is asked   *)
(* for when it is first needed, and the service keeps rates for a while.   *)
(***************************************************************************)
EXTENDS Integers, Sequences, FiniteSets

CONSTANTS
  Foreign,     \* the currencies of the user beside the base currency
  Pages,       \* summaries loaded, each at its own pace
  KeptFor,     \* for how long the service keeps a rate
  MaxMoves     \* bound: moves of the market

ASSUME DashboardAssumption == IsFiniteSet(Foreign) /\ KeptFor \in Nat \ {0} /\ MaxMoves \in Nat

VARIABLES
  day,          \* the clock; a rate is known by the day the market gave it
  stored,       \* exchange_rates: when the rate kept was fetched, -1 without a row
  todo,         \* of a page: the conversions it still has to make
  rates,        \* of a page: the rates it knows, by the moment they were fetched, -1 unknown
  call,         \* of a page: its call of the service: "none", "sent", "fetched"
  got,          \* when that call was answered by the market
  used, left,   \* of a page: conversions made, with their rate; conversions left out
  warning,      \* of a page: what it says of its rates
  opened        \* history: when a page began its summary, -1 before

dashboard == <<day, stored, todo, rates, call, got, used, left, warning, opened>>

\* Income and expenses of each currency, then the balances of each.
Conversions(order) ==
  [i \in 1..(2 * Len(order)) |-> <<order[(i + 1) \div 2], IF i % 2 = 1 THEN "income" ELSE "expense">>]
  \o [i \in 1..Len(order) |-> <<order[i], "balance">>]

Current(p) == Head(todo[p])[1]

Open(p, order) ==
  /\ opened[p] = -1
  /\ todo' = [todo EXCEPT ![p] = Conversions(order)]
  /\ rates' = [rates EXCEPT ![p] = [c \in Foreign |-> -1]]
  /\ used' = [used EXCEPT ![p] = {}] /\ left' = [left EXCEPT ![p] = {}]
  /\ warning' = [warning EXCEPT ![p] = "none"] /\ opened' = [opened EXCEPT ![p] = day]
  /\ UNCHANGED <<day, stored, call, got>>

\* convert, once the rate is known; it is known for the rest of the summary.
Converted(p, at) ==
  /\ used' = [used EXCEPT ![p] = @ \cup {<<Head(todo[p]), at>>}]
  /\ todo' = [todo EXCEPT ![p] = Tail(@)]
  /\ call' = [call EXCEPT ![p] = "none"]
  /\ got' = [got EXCEPT ![p] = -1]
  /\ warning' = [warning EXCEPT ![p] = "reference"]

\* mutant: the rate is used and forgotten.
RememberNothing(p, at) == [rates EXCEPT ![p][Current(p)] = -1]

Remember(p, at) == [rates EXCEPT ![p][Current(p)] = at]

ConvertKnown(p) ==
  /\ todo[p] # <<>> /\ call[p] = "none" /\ rates[p][Current(p)] >= 0
  /\ Converted(p, rates[p][Current(p)])
  /\ UNCHANGED <<day, stored, rates, left, opened>>

AskRate(p) ==
  /\ todo[p] # <<>> /\ call[p] = "none" /\ rates[p][Current(p)] = -1
  /\ call' = [call EXCEPT ![p] = "sent"]
  /\ UNCHANGED <<day, stored, todo, rates, got, used, left, warning, opened>>

StillKept(c) == stored[c] >= 0 /\ stored[c] + KeptFor > day

\* getRate: the rate kept, while it has not expired
AnswerKept(p) ==
  /\ call[p] = "sent" /\ StillKept(Current(p))
  /\ rates' = Remember(p, stored[Current(p)])
  /\ Converted(p, stored[Current(p)])
  /\ UNCHANGED <<day, stored, left, opened>>

\* or the market's
FetchRate(p) ==
  /\ call[p] = "sent" /\ ~StillKept(Current(p))
  /\ call' = [call EXCEPT ![p] = "fetched"]
  /\ got' = [got EXCEPT ![p] = day]
  /\ UNCHANGED <<day, stored, todo, rates, used, left, warning, opened>>

\* which is kept and returned
KeepRate(p) ==
  /\ call[p] = "fetched"
  /\ stored' = [stored EXCEPT ![Current(p)] = got[p]]
  /\ rates' = Remember(p, got[p])
  /\ Converted(p, got[p])
  /\ UNCHANGED <<day, left, opened>>

\* The service, the market or the table fails: this conversion is left out, and the next
\* one of the currency asks again.
RateFails(p) ==
  /\ call[p] # "none"
  /\ left' = [left EXCEPT ![p] = @ \cup {Head(todo[p])}]
  /\ todo' = [todo EXCEPT ![p] = Tail(@)]
  /\ call' = [call EXCEPT ![p] = "none"] /\ got' = [got EXCEPT ![p] = -1]
  /\ warning' = [warning EXCEPT ![p] = "excluded"]
  /\ UNCHANGED <<day, stored, rates, used, opened>>

Move ==
  /\ day < MaxMoves /\ day' = day + 1
  /\ UNCHANGED <<stored, todo, rates, call, got, used, left, warning, opened>>

DashboardInit ==
  /\ day = 0 /\ stored = [c \in Foreign |-> -1]
  /\ todo = [p \in Pages |-> <<>>] /\ rates = [p \in Pages |-> [c \in Foreign |-> -1]]
  /\ call = [p \in Pages |-> "none"] /\ got = [p \in Pages |-> -1]
  /\ used = [p \in Pages |-> {}] /\ left = used
  /\ warning = call /\ opened = got

\* The order in which the movements name the currencies.
Orders == {o \in [1..Cardinality(Foreign) -> Foreign] : \A i, j \in DOMAIN o : o[i] = o[j] => i = j}

PageStep(p) ==
  \/ \E order \in Orders : Open(p, order)
  \/ ConvertKnown(p) \/ AskRate(p) \/ AnswerKept(p) \/ FetchRate(p) \/ KeepRate(p) \/ RateFails(p)

DashboardNext == Move \/ \E p \in Pages : PageStep(p)

DashboardSpec == DashboardInit /\ [][DashboardNext]_dashboard

-----------------------------------------------------------------------------
\* In one summary all amounts of a currency are converted with one rate, however the market
\* moves, whatever other pages make the service fetch and keep, and whichever calls fail;
\* that rate was the market's no earlier than the service keeps rates before the summary
\* began.
\* (data.ts loadDashboardSummary, fx-rate/index.ts getRate)
OneRate ==
  \A p \in Pages :
    /\ \A u, v \in used[p] : u[1][1] = v[1][1] => u[2] = v[2]
    /\ \A u \in used[p] : u[2] + KeptFor > opened[p]
=============================================================================
