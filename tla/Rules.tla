------------------------------- MODULE Rules --------------------------------
(***************************************************************************)
(* What a review teaches and what is done with it: the form of a detected  *)
(* payment, transaction-confirm with learnFromReview, and the resolution   *)
(* of account and category in applyCandidateAutomation, for payments that  *)
(* come in and for the pending ones that a review takes up again.          *)
(*                                                                         *)
(* A merchant is the set of its words, and confidences are counted in ten  *)
(* thousandths.  Duplicates, low confidences, calibration and deleted      *)
(* transactions are Ledger's.                                              *)
(***************************************************************************)
EXTENDS Integers, FiniteSets

CONSTANTS
  Detected,         \* payments a source may report
  Facts,            \* of each: source, merchant, kind, currency, confidence, time, and
                    \* whether its words suggest a system category
  AccountCurrency,  \* of each account
  Primary,          \* the account that is never archived
  Hands,            \* concurrent invocations
  Recent,           \* pending payments a review takes up again, 50 in the code
  AutoPostMin,      \* auto_post_min_confidence
  MaxTurns          \* bound: reviews, changes of accounts and permissions, and invocations
                    \* that stop, together

Unset == "unset"
Accounts == DOMAIN AccountCurrency

ASSUME RulesAssumption ==
  /\ Primary \in Accounts /\ Unset \notin Accounts \cup Detected
  /\ {Recent, AutoPostMin, MaxTurns} \subseteq Nat
  /\ \A c \in Detected : Facts[c].kind \in {"income", "expense"} /\ Facts[c].confidence \in Nat

VARIABLES
  state,      \* of each payment: "new", "pending", "accepted" or "rejected"
  taught,     \* account_assignment_rules: of a source and kind, one by the unique index
  texts,      \* categorization_rules: what there is one for, or several, text and kind
  live,       \* accounts that are not archived
  automatic,  \* subscription and preferences allow automatic posting
  turns,      \* how many so far
  hand        \* what each invocation is doing

learned == <<taught, texts>>
settings == <<live, automatic, turns>>
learning == <<state, learned, settings, hand>>

KeyFor(c) == <<Facts[c].source, Facts[c].kind>>
\* the accounts a payment may be posted to
Usable(c) == {a \in live : AccountCurrency[a] = Facts[c].currency}
Waiting == {c \in Detected : state[c] = "pending"}

Resting == [at |-> "idle", payment |-> Unset, account |-> Unset, weight |-> 0, todo |-> {},
            reviewed |-> Unset, lesson |-> Unset, category |-> Unset, found |-> FALSE,
            listed |-> {}, quiet |-> FALSE]

\* answered, failed or stopped
Leaves(p) == hand' = [hand EXCEPT ![p] = Resting]
Goes(p, place) == hand' = [hand EXCEPT ![p].at = place]
\* one payment is done with, on to the next
Done(p) == hand' = [hand EXCEPT ![p].at = "next", ![p].payment = Unset, ![p].account = Unset, ![p].weight = 0]

-----------------------------------------------------------------------------
(* decideAutomationPolicy. *)

LearnedAccount == 9950
OnlyAccount == 9600
LearnedCategory == 9900
SystemCategory == 8800
OtherCategory == 6200

\* mutant: a learned account weighs what the only one does
WeighedAlike(confidence, account, category) ==
  (7800 * confidence + 2000 * OnlyAccount + 200 * category + 5000) \div 10000

Weighed(confidence, account, category) ==
  (7800 * confidence + 2000 * account + 200 * category + 5000) \div 10000

Greater(m, n) == IF m > n THEN m ELSE n

PostsItself(confidence, account, category) ==
  /\ confidence >= Greater(8800, AutoPostMin - 500)
  /\ Weighed(confidence, account, category) >= AutoPostMin

-----------------------------------------------------------------------------
(* A review. *)

Turn == turns < MaxTurns /\ turns' = turns + 1

\* The form corrects kind and currency, and offers categories of the corrected kind and mixed ones.
\* Of a category its kind matters; for an account or a category whose box is cleared there
\* is no lesson, nor for a payment without a merchant.
Offered(c, kind) == IF Facts[c].merchant = {} THEN {Unset} ELSE {kind, "mixed", Unset}

\* accept_transaction_candidate, with an account of the corrected currency; a repeated call
\* finds the transaction and asks nothing about the account.
AcceptReview(p, c) ==
  /\ hand[p].at = "idle" /\ Turn
  /\ \E kind \in {"income", "expense"} : \E category \in Offered(c, kind), a \in Accounts \cup {Unset} :
       /\ state[c] = "accepted" \/ (state[c] = "pending" /\ a \in live \cup {Unset})
       /\ hand' = [hand EXCEPT ![p].at = "learn", ![p].reviewed = c, ![p].lesson = a, ![p].category = category]
  /\ state' = [state EXCEPT ![c] = "accepted"]
  /\ UNCHANGED <<learned, live, automatic>>

\* A user who does not want rules learned gets none.
LearnFromReview(p) ==
  /\ hand[p].at = "learn"
  /\ \/ Goes(p, "text")
     \/ hand' = [hand EXCEPT ![p] = [Resting EXCEPT !.at = "list"]]
  /\ UNCHANGED <<state, learned, settings>>

\* upsertCategoryRule: two statements, after which there is a rule.  It is for the kind that
\* was detected: a category of the corrected kind is refused (enforce_owned_references), and
\* the call fails, although the payment is posted.
TeachText(p) ==
  LET c == hand[p].reviewed IN
    /\ hand[p].at = "text"
    /\ IF hand[p].category \notin {Facts[c].kind, "mixed", Unset} THEN Leaves(p) /\ UNCHANGED texts
       ELSE /\ hand' = [hand EXCEPT ![p].at = "source", ![p].category = Unset]
            /\ texts' = IF hand[p].category = Unset THEN texts
                                                   ELSE texts \cup {<<Facts[c].merchant, Facts[c].kind>>}
    /\ UNCHANGED <<state, taught, settings>>

\* upsertAccountRule looks for a rule ...
FindSource(p) ==
  /\ hand[p].at = "source"
  /\ IF hand[p].lesson = Unset THEN Goes(p, "list")
     ELSE hand' = [hand EXCEPT ![p].at = "teach", ![p].found = taught[KeyFor(hand[p].reviewed)] # Unset]
  /\ UNCHANGED <<state, learned, settings>>

\* ... and updates it or inserts one, which the index refuses beside one that has appeared
\* since.
TeachSource(p) ==
  LET key == KeyFor(hand[p].reviewed) IN
    /\ hand[p].at = "teach"
    /\ IF ~hand[p].found /\ taught[key] # Unset THEN Leaves(p) /\ UNCHANGED taught
       ELSE /\ taught' = [taught EXCEPT ![key] = hand[p].lesson]
            /\ hand' = [q \in Hands |->
                 IF q = p THEN [hand[q] EXCEPT !.at = "list", !.found = FALSE, !.quiet = TRUE]
                          ELSE [hand[q] EXCEPT !.quiet = FALSE]]
    /\ UNCHANGED <<state, texts, settings>>

\* the newest of S, as many as one call takes up
Newest(S) == {c \in S : Cardinality({d \in S : Facts[d].time > Facts[c].time}) < Recent}

\* reprocessPendingCandidates
TakeUp(p) ==
  /\ hand[p].at = "list"
  /\ hand' = [hand EXCEPT ![p].at = "next", ![p].todo = Newest(Waiting), ![p].listed = Newest(Waiting)]
  /\ UNCHANGED <<state, learned, settings>>

TakeNext(p) ==
  /\ hand[p].at = "next"
  /\ \/ hand[p].todo = {} /\ Goes(p, "answered")
     \/ \E c \in hand[p].todo :
          /\ \A d \in hand[p].todo : Facts[d].time <= Facts[c].time
          /\ hand' = [hand EXCEPT ![p].at = "automate", ![p].payment = c, ![p].todo = @ \ {c}]
  /\ UNCHANGED <<state, learned, settings>>

Answer(p) == hand[p].at = "answered" /\ Leaves(p) /\ UNCHANGED <<state, learned, settings>>

-----------------------------------------------------------------------------
(* applyCandidateAutomation. *)

\* loadPreferences and hasActiveSubscription
MayAutomate(p) ==
  /\ hand[p].at = "automate"
  /\ IF automatic THEN Goes(p, "rules") ELSE Done(p)
  /\ UNCHANGED <<state, learned, settings>>

\* resolveCategory: a learned rule, what the words suggest, or Otros
CategoryWeight(c) ==
  IF \E r \in texts : r[1] \subseteq Facts[c].merchant /\ r[2] = Facts[c].kind THEN LearnedCategory
  ELSE IF Facts[c].suggested THEN SystemCategory ELSE OtherCategory

\* The rules of both kinds are read together.
ReadRules(p) ==
  LET c == hand[p].payment IN
    /\ hand[p].at = "rules"
    /\ hand' = [hand EXCEPT ![p].at = "accounts", ![p].account = taught[KeyFor(c)], ![p].weight = CategoryWeight(c)]
    /\ UNCHANGED <<state, learned, settings>>

\* resolveAccount: the account of the rule, or the only one there is of that currency
ResolvedAccount(p, c) ==
  CASE hand[p].account \in Usable(c) -> {[account |-> hand[p].account, weight |-> LearnedAccount]}
    [] hand[p].account \notin Usable(c) /\ Cardinality(Usable(c)) = 1 ->
         {[account |-> a, weight |-> OnlyAccount] : a \in Usable(c)}
    [] OTHER -> {}

\* what the policy does not post is marked for review, and stays pending
ReadAccounts(p) ==
  LET c == hand[p].payment
      postable == {r \in ResolvedAccount(p, c) : PostsItself(Facts[c].confidence, r.weight, hand[p].weight)} IN
    /\ hand[p].at = "accounts"
    /\ \/ postable = {} /\ Done(p)
       \/ \E r \in postable : hand' = [hand EXCEPT ![p].at = "post", ![p].account = r.account, ![p].weight = 0]
    /\ UNCHANGED <<state, learned, settings>>

\* auto_post_transaction_candidate raises for an account archived since, and for a payment
\* the user has rejected since; the invocation ends with it
PostResolved(p) ==
  LET c == hand[p].payment IN
    /\ hand[p].at = "post"
    /\ \/ /\ state[c] = "pending" /\ hand[p].account \in Usable(c)
          /\ state' = [state EXCEPT ![c] = "accepted"] /\ Done(p)
       \/ state[c] = "accepted" /\ Done(p) /\ UNCHANGED state
       \/ /\ state[c] = "rejected" \/ (state[c] = "pending" /\ hand[p].account \notin Usable(c))
          /\ Leaves(p) /\ UNCHANGED state
    /\ UNCHANGED <<learned, settings>>

-----------------------------------------------------------------------------
\* ingestCandidate
ComesIn(p, c) ==
  /\ hand[p].at = "idle" /\ state[c] = "new"
  /\ state' = [state EXCEPT ![c] = "pending"]
  /\ hand' = [hand EXCEPT ![p].at = "automate", ![p].payment = c]
  /\ UNCHANGED <<learned, settings>>

RejectReview(c) ==
  /\ Turn /\ state[c] = "pending"
  /\ state' = [state EXCEPT ![c] = "rejected"]
  /\ UNCHANGED <<learned, live, automatic, hand>>

Disturbed == hand' = [p \in Hands |-> [hand[p] EXCEPT !.quiet = FALSE]]

\* accounts are archived and restored, preferences and the subscription change
AccountChanges(a) ==
  /\ Turn /\ a # Primary
  /\ live' = IF a \in live THEN live \ {a} ELSE live \cup {a}
  /\ Disturbed /\ UNCHANGED <<state, learned, automatic>>
PermissionChanges ==
  Turn /\ automatic' = ~automatic /\ Disturbed /\ UNCHANGED <<state, learned, live>>

HandStops(p) ==
  /\ Turn /\ hand[p].at # "idle"
  /\ Leaves(p) /\ UNCHANGED <<state, learned, live, automatic>>

RulesInit ==
  /\ state \in [Detected -> {"new", "pending"}]
  /\ taught = [key \in {KeyFor(c) : c \in Detected} |-> Unset]
  /\ texts = {} /\ live = Accounts /\ automatic = TRUE
  /\ turns = 0
  /\ hand = [p \in Hands |-> Resting]

RulesNext ==
  \/ \E p \in Hands :
       \/ \E c \in Detected : ComesIn(p, c) \/ AcceptReview(p, c)
       \/ LearnFromReview(p) \/ TeachText(p) \/ FindSource(p) \/ TeachSource(p)
       \/ TakeUp(p) \/ TakeNext(p) \/ Answer(p)
       \/ MayAutomate(p) \/ ReadRules(p) \/ ReadAccounts(p) \/ PostResolved(p) \/ HandStops(p)
  \/ \E c \in Detected : RejectReview(c)
  \/ \E a \in Accounts : AccountChanges(a)
  \/ PermissionChanges

RulesSpec == RulesInit /\ [][RulesNext]_learning

-----------------------------------------------------------------------------
\* with the account learned and no better category than Otros
Decided(c) ==
  /\ Facts[c].confidence >= AutoPostMin - 500 /\ Facts[c].confidence >= 8800
  /\ 7800 * Facts[c].confidence + 2000 * 9950 + 200 * 6200 >= 10000 * AutoPostMin

\* A rule just learned resolves the other pending payments (docs/PRD.md, 26.2, US-016): when a
\* review has taught an account and is answered, none of the payments it took up again is
\* left pending that the rule decides, unless an account, a permission or that rule was
\* changed meanwhile - whatever other invocations learn, post and reject at the same time.
LearnedApplies ==
  \A p \in Hands :
    LET c == hand[p].reviewed
        a == hand[p].lesson IN
      hand[p].at = "answered" /\ hand[p].quiet /\ automatic =>
        \A d \in hand[p].listed :
          KeyFor(d) = KeyFor(c) /\ a \in Usable(d) /\ Decided(d) => state[d] # "pending"
=============================================================================
