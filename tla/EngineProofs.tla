---------------------------- MODULE EngineProofs ----------------------------
(***************************************************************************)
(* Proofs about Gate, Dashboard, MailAuth, Rules and Advisor, for any      *)
(* mails, pages, signatures, payments, figures and invocations: a signed   *)
(* mail is accepted once, a summary uses one rate of each currency, a      *)
(* proof of who forwarded a mail rests on signatures, a lesson is applied  *)
(* to what is pending, and a plan gives all the money, in order.           *)
(***************************************************************************)
EXTENDS Gate, Dashboard, MailAuth, Rules, Advisor, TextProofs

(***************************************************************************)
(* The door of the gateway.                                                *)
(***************************************************************************)
\* The door's variables have their types.
GateTypes ==
  /\ time \in Nat
  /\ signed \in [Mails -> Nat \cup {-1}]
  /\ at \in [Mails -> [Copies -> {"away", "verified", "claimed", "refused", "in"}]]
  /\ since \in [Mails -> [Copies -> Nat]]
  /\ replays \in [Mails -> Nat \cup {-1}]
  /\ counts \in [0..MaxTime -> Nat]
  /\ entered \in [Mails -> Nat]

\* An invocation that has verified a request is young enough for the nonce to be kept.
Young(m, c) ==
  at[m][c] = "verified" =>
    signed[m] >= 0 /\ since[m][c] <= signed[m] + Tolerance /\ time <= since[m][c] + MaxRun

\* A mail got through, or an invocation holds its nonce.
Held(m) == entered[m] # 0 \/ \E c \in Copies : at[m][c] = "claimed"

\* Whoever won the nonce left it in the table, until no one may claim it any more.
Guarded(m) == Held(m) => signed[m] >= 0 /\ (replays[m] = Expiry(signed[m]) \/ time > Expiry(signed[m]))

\* One invocation holds the nonce, and none once the mail got through.
OneHolder(m) ==
  /\ entered[m] <= 1
  /\ \A c, d \in Copies : at[m][c] = "claimed" => entered[m] = 0 /\ (at[m][d] = "claimed" => c = d)

\* The inductive invariant of the door.
GateInv ==
  /\ \A m \in Mails, c \in Copies : Young(m, c)
  /\ \A m \in Mails : Guarded(m) /\ OneHolder(m)

\* What is assumed of the door's constants, one by one.
LEMMA GateConstants ==
  /\ Tolerance \in Nat /\ Kept \in Nat /\ Skew \in Nat /\ MaxRun \in Nat /\ MaxTime \in Nat
  /\ Tolerance + MaxRun <= Kept
BY GateAssumption

\* The door begins with its invariant,
LEMMA GateStarts == GateInit => GateTypes /\ GateInv
BY GateConstants DEF GateInit, GateTypes, GateInv, Young, Held, Guarded, OneHolder

\* keeps its types,
LEMMA GateTyped == GateTypes /\ [GateNext]_gate => GateTypes'
<1> SUFFICES ASSUME GateTypes, [GateNext]_gate PROVE GateTypes'
  OBVIOUS
<1> USE GateConstants DEF GateTypes
<1>1. ASSUME NEW m \in Mails, NEW ts \in 0..(MaxTime + Skew), Sign(m, ts) PROVE GateTypes'
  BY <1>1 DEF Sign
<1>2. ASSUME NEW m \in Mails, NEW c \in Copies, Verify(m, c) PROVE GateTypes'
  BY <1>2 DEF Verify
<1>3. ASSUME NEW m \in Mails, NEW c \in Copies, ClaimNonce(m, c) PROVE GateTypes'
  <2>1. Expiry(signed[m]) \in Nat \cup {-1}
    <3>1. signed[m] \in Nat \cup {-1}
      OBVIOUS
    <3>2. signed[m] + Kept \in Nat \cup {-1}
      BY <3>1
    <3> QED BY <3>2 DEF Expiry
  <2>2. [n \in Mails |-> IF replays[n] < time THEN -1 ELSE replays[n]] \in [Mails -> Nat \cup {-1}]
    OBVIOUS
  <2>3. replays' \in [Mails -> Nat \cup {-1}]
    BY <1>3, <2>1, <2>2 DEF ClaimNonce
  <2> QED BY <1>3, <2>3 DEF ClaimNonce
<1>4. ASSUME NEW m \in Mails, NEW c \in Copies, TakeRate(m, c) PROVE GateTypes'
  <2>1. PICK b, n : n = counts[b] + 1 /\ counts' = [counts EXCEPT ![b] = n]
    BY <1>4 DEF TakeRate
  <2>2. b \in 0..MaxTime => n \in Nat
    BY <2>1
  <2>3. counts' \in [0..MaxTime -> Nat]
    BY <2>1, <2>2
  <2> QED BY <1>4, <2>3 DEF TakeRate
<1>5. ASSUME NEW m \in Mails, NEW c \in Copies, GateFails(m, c) PROVE GateTypes'
  BY <1>5 DEF GateFails
<1>6. CASE Pass
  BY <1>6 DEF Pass
<1>7. CASE UNCHANGED gate
  BY <1>7 DEF gate
<1> QED BY <1>1, <1>2, <1>3, <1>4, <1>5, <1>6, <1>7 DEF GateNext

\* and keeps its invariant: an invocation that may still claim a nonce finds it claimed.
LEMMA GateKept == GateTypes /\ GateTypes' /\ GateInv /\ [GateNext]_gate => GateInv'
<1> SUFFICES ASSUME GateTypes, GateTypes', GateInv, [GateNext]_gate PROVE GateInv'
  OBVIOUS
<1> USE GateConstants DEF GateInv
<1>1. ASSUME NEW m \in Mails, NEW ts \in 0..(MaxTime + Skew), Sign(m, ts) PROVE GateInv'
  <2>1. ASSUME NEW n \in Mails, NEW d \in Copies PROVE Young(n, d)'
    BY <1>1 DEF GateTypes, Sign, Young
  <2>2. ASSUME NEW n \in Mails PROVE Guarded(n)' /\ OneHolder(n)'
    BY <1>1 DEF GateTypes, Sign, Held, Guarded, OneHolder, Expiry
  <2> QED BY <2>1, <2>2
<1>2. ASSUME NEW m \in Mails, NEW c \in Copies, Verify(m, c) PROVE GateInv'
  <2>1. ASSUME NEW n \in Mails, NEW d \in Copies PROVE Young(n, d)'
    <3>1. CASE n = m /\ d = c
      <4>1. signed[m] \in Int /\ time \in Int /\ since' = [since EXCEPT ![m][c] = time]
        BY <1>2 DEF GateTypes, Verify
      <4>2. since'[m][c] = time
        BY <4>1 DEF GateTypes
      <4> QED BY <1>2, <3>1, <4>1, <4>2 DEF GateTypes, Verify, InTime, Young
    <3>2. CASE ~(n = m /\ d = c)
      BY <1>2, <3>2 DEF GateTypes, Verify, Young
    <3> QED BY <3>1, <3>2
  <2>2. ASSUME NEW n \in Mails PROVE Guarded(n)' /\ OneHolder(n)'
    BY <1>2 DEF GateTypes, Verify, Held, Guarded, OneHolder, Expiry
  <2> QED BY <2>1, <2>2
<1>3. ASSUME NEW m \in Mails, NEW c \in Copies, ClaimNonce(m, c) PROVE GateInv'
  <2> DEFINE fresh == [n \in Mails |-> IF replays[n] < time THEN -1 ELSE replays[n]]
             won == fresh[m] = -1
  <2>1. signed[m] >= 0 /\ time <= Expiry(signed[m])
    <3>1. at[m][c] = "verified"
      BY <1>3 DEF ClaimNonce
    <3>2. signed[m] >= 0 /\ since[m][c] <= signed[m] + Tolerance /\ time <= since[m][c] + MaxRun
      BY <3>1 DEF Young
    <3>3. signed[m] \in Int /\ since[m][c] \in Int /\ time \in Int
      BY DEF GateTypes
    <3> QED BY <3>2, <3>3 DEF Expiry
  <2>2. Held(m) => ~won
    <3>0. signed[m] \in Nat \cup {-1}
      BY DEF GateTypes
    <3>1. Expiry(signed[m]) \in Nat
      BY <2>1, <3>0 DEF Expiry
    <3>2. time \in Nat
      BY DEF GateTypes
    <3> QED BY <2>1, <3>1, <3>2 DEF Guarded
  <2>3. /\ replays' = (IF won THEN [fresh EXCEPT ![m] = Expiry(signed[m])] ELSE fresh)
        /\ at' = [at EXCEPT ![m][c] = IF won THEN "claimed" ELSE "refused"]
        /\ UNCHANGED <<time, signed, since, counts, entered>>
    BY <1>3 DEF ClaimNonce
  <2>4. ASSUME NEW n \in Mails, NEW d \in Copies PROVE Young(n, d)'
    BY <2>3 DEF GateTypes, Young
  <2>5. ASSUME NEW n \in Mails PROVE Guarded(n)' /\ OneHolder(n)'
    <3>1. CASE n = m /\ won
      BY <2>1, <2>2, <2>3, <3>1 DEF GateTypes, Held, Guarded, OneHolder, Expiry
    <3>2. CASE n # m \/ ~won
      <4>1. \A d \in Copies : at'[n][d] = "claimed" => at[n][d] = "claimed"
        BY <2>3, <3>2 DEF GateTypes
      <4>2. Held(n)' => Held(n)
        BY <2>3, <4>1 DEF Held
      <4>3. replays[n] = Expiry(signed[n]) => replays'[n] = Expiry(signed[n]) \/ time > Expiry(signed[n])
        BY <2>3, <3>2 DEF GateTypes
      <4>4. Guarded(n)'
        BY <2>3, <4>2, <4>3 DEF Guarded, Expiry
      <4>5. OneHolder(n)'
        BY <2>3, <4>1 DEF OneHolder
      <4> QED BY <4>4, <4>5
    <3> QED BY <3>1, <3>2
  <2> QED BY <2>4, <2>5
<1>4. ASSUME NEW m \in Mails, NEW c \in Copies, TakeRate(m, c) PROVE GateInv'
  <2>1. ASSUME NEW n \in Mails, NEW d \in Copies PROVE Young(n, d)'
    BY <1>4 DEF GateTypes, TakeRate, Young
  <2>2. Held(m) /\ entered[m] = 0 /\ \A d \in Copies : at[m][d] = "claimed" => d = c
    BY <1>4 DEF TakeRate, Held, OneHolder
  <2>3. PICK in \in BOOLEAN :
          /\ at' = [at EXCEPT ![m][c] = IF in THEN "in" ELSE "refused"]
          /\ entered' = IF in THEN [entered EXCEPT ![m] = @ + 1] ELSE entered
    BY <1>4 DEF TakeRate
  <2>4. UNCHANGED <<time, signed, since, replays>>
    BY <1>4 DEF TakeRate
  <2>5. ASSUME NEW n \in Mails PROVE Guarded(n)' /\ OneHolder(n)'
    <3>1. CASE n = m
      BY <2>2, <2>3, <2>4, <3>1 DEF GateTypes, Held, Guarded, OneHolder, Expiry
    <3>2. CASE n # m
      BY <2>3, <2>4, <3>2 DEF GateTypes, Held, Guarded, OneHolder, Expiry
    <3> QED BY <3>1, <3>2
  <2> QED BY <2>1, <2>5
<1>5. ASSUME NEW m \in Mails, NEW c \in Copies, GateFails(m, c) PROVE GateInv'
  <2>1. ASSUME NEW n \in Mails, NEW d \in Copies PROVE Young(n, d)'
    BY <1>5 DEF GateTypes, GateFails, Young
  <2>2. ASSUME NEW n \in Mails PROVE Guarded(n)' /\ OneHolder(n)'
    BY <1>5 DEF GateTypes, GateFails, Held, Guarded, OneHolder, Expiry
  <2> QED BY <2>1, <2>2
<1>6. CASE Pass
  <2>1. ASSUME NEW n \in Mails, NEW d \in Copies PROVE Young(n, d)'
    BY <1>6 DEF GateTypes, Pass, Young
  <2>2. ASSUME NEW n \in Mails PROVE Guarded(n)' /\ OneHolder(n)'
    BY <1>6 DEF GateTypes, Pass, Held, Guarded, OneHolder, Expiry
  <2> QED BY <2>1, <2>2
<1>7. CASE UNCHANGED gate
  BY <1>7 DEF gate, Young, Held, Guarded, OneHolder, Expiry
<1> QED BY <1>1, <1>2, <1>3, <1>4, <1>5, <1>6, <1>7 DEF GateNext

\* A mail that was signed once gets through at most once, for any tolerance, any time that a
\* nonce is kept and any run of an invocation that fit together (AcceptedOnce).
THEOREM GateAccepts == GateSpec => []AcceptedOnce
<1>1. GateTypes /\ GateInv => AcceptedOnce
  <2> SUFFICES ASSUME GateInv PROVE AcceptedOnce
    OBVIOUS
  <2>1. \A m \in Mails : entered[m] <= 1
    BY DEF GateInv, OneHolder
  <2>2. ASSUME NEW m \in Mails, NEW c \in Copies, NEW d \in Copies, c # d
        PROVE  {at[m][c], at[m][d]} # {"claimed"}
    BY <2>2 DEF GateInv, OneHolder
  <2> QED BY <2>1, <2>2 DEF AcceptedOnce
<1> QED BY <1>1, GateStarts, GateTyped, GateKept, PTL DEF GateSpec

(***************************************************************************)
(* The totals of the dashboard.                                            *)
(***************************************************************************)
\* What is converted of each currency.
Kinds == {"income", "expense", "balance"}

\* The dashboard's variables have their types.
DashboardTypes ==
  /\ day \in Nat
  /\ stored \in [Foreign -> Nat \cup {-1}]
  /\ todo \in [Pages -> Seq(Foreign \X Kinds)]
  /\ rates \in [Pages -> [Foreign -> Nat \cup {-1}]]
  /\ call \in [Pages -> {"none", "sent", "fetched"}]
  /\ got \in [Pages -> Nat \cup {-1}]
  /\ used \in [Pages -> SUBSET ((Foreign \X Kinds) \X Nat)]
  /\ left \in [Pages -> SUBSET (Foreign \X Kinds)]
  /\ warning \in [Pages -> {"none", "reference", "excluded"}]
  /\ opened \in [Pages -> Nat \cup {-1}]

\* A page that has not begun has nothing to do, and its clock is not ahead of the day.
Begun(p) == opened[p] <= day /\ (opened[p] = -1 => todo[p] = <<>>)

\* A call is for a conversion whose rate the page does not know, and what it brings is fresh.
Calling(p) ==
  /\ call[p] # "none" => todo[p] # <<>> /\ rates[p][Current(p)] = -1
  /\ call[p] = "fetched" => got[p] \in Nat /\ got[p] + KeptFor > opened[p]

\* Every conversion was made with the rate the page knows, and the rates it knows are fresh.
Remembered(p) ==
  /\ \A u \in used[p] : u[2] = rates[p][u[1][1]]
  /\ \A c \in Foreign : rates[p][c] # -1 => rates[p][c] + KeptFor > opened[p]

\* The inductive invariant of the dashboard.
DashboardInv == \A p \in Pages : Begun(p) /\ Calling(p) /\ Remembered(p)

\* The conversions of a summary are a sequence, whatever the order of the currencies.
LEMMA ConversionsTyped ==
  ASSUME NEW order \in Orders
  PROVE  Conversions(order) \in Seq(Foreign \X Kinds)
<1>1. Cardinality(Foreign) \in Nat
  BY DashboardAssumption, FS_CardinalityType
<1>2. PICK n \in Nat : n = Cardinality(Foreign) /\ order \in [1..n -> Foreign]
  BY <1>1 DEF Orders
<1>3. Len(order) = n
  BY <1>2
<1>4. ASSUME NEW i \in 1..(2 * n) PROVE (i + 1) \div 2 \in 1..n
  BY <1>2, <1>4
<1>5. [i \in 1..(2 * n) |-> <<order[(i + 1) \div 2], IF i % 2 = 1 THEN "income" ELSE "expense">>]
        \in Seq(Foreign \X Kinds)
  <2>1. ASSUME NEW i \in 1..(2 * n)
        PROVE  <<order[(i + 1) \div 2], IF i % 2 = 1 THEN "income" ELSE "expense">> \in Foreign \X Kinds
    BY <1>2, <1>4 DEF Kinds
  <2>2. 2 * n \in Nat
    BY <1>2
  <2> QED BY <2>1, <2>2
<1>6. [i \in 1..n |-> <<order[i], "balance">>] \in Seq(Foreign \X Kinds)
  BY <1>2 DEF Kinds
<1> QED BY <1>3, <1>5, <1>6 DEF Conversions

\* The dashboard begins with its invariant,
LEMMA DashboardStarts == DashboardInit => DashboardTypes /\ DashboardInv
BY DashboardAssumption DEF DashboardInit, DashboardTypes, DashboardInv, Begun, Calling, Remembered

\* What a conversion leaves, whatever rate it used.
LEMMA ConvertedTyped ==
  ASSUME DashboardTypes, NEW p \in Pages, todo[p] # <<>>, NEW rate \in Nat, Converted(p, rate)
  PROVE  /\ todo' \in [Pages -> Seq(Foreign \X Kinds)]
         /\ used' \in [Pages -> SUBSET ((Foreign \X Kinds) \X Nat)]
         /\ call' \in [Pages -> {"none", "sent", "fetched"}]
         /\ got' \in [Pages -> Nat \cup {-1}]
         /\ warning' \in [Pages -> {"none", "reference", "excluded"}]
<1>1. Head(todo[p]) \in Foreign \X Kinds /\ Tail(todo[p]) \in Seq(Foreign \X Kinds)
  BY DEF DashboardTypes
<1> QED BY <1>1 DEF DashboardTypes, Converted

\* The conversion at hand, and those after it.
LEMMA CurrentTyped ==
  ASSUME DashboardTypes, NEW p \in Pages, todo[p] # <<>>
  PROVE  Current(p) \in Foreign /\ Head(todo[p]) \in Foreign \X Kinds /\ Tail(todo[p]) \in Seq(Foreign \X Kinds)
<1>1. Head(todo[p]) \in Foreign \X Kinds /\ Tail(todo[p]) \in Seq(Foreign \X Kinds)
  BY DEF DashboardTypes
<1> QED BY <1>1 DEF Current

\* The dashboard keeps its types,
LEMMA DashboardTyped == DashboardTypes /\ DashboardInv /\ [DashboardNext]_dashboard => DashboardTypes'
<1> SUFFICES ASSUME DashboardTypes, DashboardInv, [DashboardNext]_dashboard PROVE DashboardTypes'
  OBVIOUS
<1> USE DashboardAssumption
<1>1. CASE Move
  BY <1>1 DEF DashboardTypes, Move
<1>2. ASSUME NEW p \in Pages, NEW order \in Orders, Open(p, order) PROVE DashboardTypes'
  <2>1. todo' \in [Pages -> Seq(Foreign \X Kinds)]
    BY <1>2, ConversionsTyped DEF DashboardTypes, Open
  <2> QED BY <1>2, <2>1 DEF DashboardTypes, Open
<1>3. ASSUME NEW p \in Pages, ConvertKnown(p) PROVE DashboardTypes'
  <2>1. todo[p] # <<>> /\ rates[p][Current(p)] \in Nat
    BY <1>3, CurrentTyped DEF DashboardTypes, ConvertKnown
  <2> QED BY <1>3, <2>1, ConvertedTyped DEF DashboardTypes, ConvertKnown
<1>4. ASSUME NEW p \in Pages, AskRate(p) PROVE DashboardTypes'
  BY <1>4 DEF DashboardTypes, AskRate
<1>5. ASSUME NEW p \in Pages, AnswerKept(p) PROVE DashboardTypes'
  <2>1. todo[p] # <<>>
    BY <1>5 DEF DashboardInv, Calling, AnswerKept
  <2>2. Current(p) \in Foreign /\ stored[Current(p)] \in Nat
    BY <1>5, <2>1, CurrentTyped DEF DashboardTypes, AnswerKept, StillKept
  <2> QED BY <1>5, <2>1, <2>2, ConvertedTyped DEF DashboardTypes, AnswerKept, Remember
<1>6. ASSUME NEW p \in Pages, FetchRate(p) PROVE DashboardTypes'
  BY <1>6 DEF DashboardTypes, FetchRate
<1>7. ASSUME NEW p \in Pages, KeepRate(p) PROVE DashboardTypes'
  <2>1. todo[p] # <<>> /\ got[p] \in Nat
    BY <1>7 DEF DashboardInv, Calling, KeepRate
  <2>2. Current(p) \in Foreign
    BY <2>1, CurrentTyped
  <2> QED BY <1>7, <2>1, <2>2, ConvertedTyped DEF DashboardTypes, KeepRate, Remember
<1>8. ASSUME NEW p \in Pages, RateFails(p) PROVE DashboardTypes'
  <2>1. todo[p] # <<>>
    BY <1>8 DEF DashboardInv, Calling, RateFails
  <2> QED BY <1>8, <2>1, CurrentTyped DEF DashboardTypes, RateFails
<1>9. CASE UNCHANGED dashboard
  BY <1>9 DEF DashboardTypes, dashboard
<1> QED BY <1>1, <1>2, <1>3, <1>4, <1>5, <1>6, <1>7, <1>8, <1>9 DEF DashboardNext, PageStep

\* A conversion with the rate the page then knows keeps its books.
LEMMA ConvertedKept ==
  ASSUME DashboardTypes, DashboardTypes', DashboardInv,
         NEW p \in Pages, todo[p] # <<>>, NEW rate \in Nat, Converted(p, rate),
         rate + KeptFor > opened[p],
         rates' = [rates EXCEPT ![p][Current(p)] = rate],
         rates[p][Current(p)] \in {-1, rate},
         UNCHANGED <<day, opened>>
  PROVE  DashboardInv'
<1> USE DashboardAssumption
<1>1. Current(p) \in Foreign
  BY CurrentTyped
<1>2. ASSUME NEW q \in Pages PROVE Begun(q)'
  BY DEF DashboardInv, Begun, DashboardTypes, Converted
<1>3. ASSUME NEW q \in Pages PROVE Calling(q)'
  <2>1. CASE q = p
    BY <2>1 DEF Calling, DashboardTypes, Converted
  <2>2. CASE q # p
    BY <2>2 DEF DashboardInv, Calling, DashboardTypes, Converted, Current
  <2> QED BY <2>1, <2>2
<1>4. ASSUME NEW q \in Pages PROVE Remembered(q)'
  <2>1. CASE q = p
    <3>1. rates'[p] = [rates[p] EXCEPT ![Current(p)] = rate]
      BY DEF DashboardTypes
    <3>2. ASSUME NEW u \in used'[p] PROVE u[2] = rates'[p][u[1][1]]
      <4>1. CASE u = <<Head(todo[p]), rate>>
        BY <1>1, <3>1, <4>1 DEF Current, DashboardTypes
      <4>2. CASE u \in used[p]
        <5>1. u[1][1] \in Foreign /\ u[2] \in Nat /\ u[2] = rates[p][u[1][1]]
          BY <4>2 DEF DashboardTypes, DashboardInv, Remembered
        <5>2. CASE u[1][1] = Current(p)
          BY <1>1, <3>1, <5>1, <5>2 DEF DashboardTypes
        <5>3. CASE u[1][1] # Current(p)
          BY <1>1, <3>1, <5>1, <5>3 DEF DashboardTypes
        <5> QED BY <5>2, <5>3
      <4> QED BY <3>2, <4>1, <4>2 DEF Converted, DashboardTypes
    <3>3. ASSUME NEW c \in Foreign, rates'[p][c] # -1 PROVE rates'[p][c] + KeptFor > opened'[p]
      BY <1>1, <3>1, <3>3 DEF DashboardTypes, DashboardInv, Remembered
    <3> QED BY <2>1, <3>2, <3>3 DEF Remembered
  <2>2. CASE q # p
    BY <2>2 DEF DashboardInv, Remembered, DashboardTypes, Converted
  <2> QED BY <2>1, <2>2
<1> QED BY <1>2, <1>3, <1>4 DEF DashboardInv

\* and every step keeps the books of every page.
LEMMA DashboardKept ==
  DashboardTypes /\ DashboardTypes' /\ DashboardInv /\ [DashboardNext]_dashboard => DashboardInv'
<1> SUFFICES ASSUME DashboardTypes, DashboardTypes', DashboardInv, [DashboardNext]_dashboard
             PROVE  DashboardInv'
  OBVIOUS
<1> USE DashboardAssumption
<1>1. CASE Move
  BY <1>1 DEF DashboardTypes, DashboardInv, Begun, Calling, Remembered, Current, Move
<1>2. ASSUME NEW p \in Pages, NEW order \in Orders, Open(p, order) PROVE DashboardInv'
  <2>1. call[p] = "none"
    BY <1>2 DEF DashboardTypes, DashboardInv, Begun, Calling, Open
  <2>2. ASSUME NEW q \in Pages, q = p PROVE Begun(q)' /\ Calling(q)' /\ Remembered(q)'
    BY <1>2, <2>1, <2>2 DEF DashboardTypes, Begun, Calling, Remembered, Open
  <2>3. ASSUME NEW q \in Pages, q # p PROVE Begun(q)' /\ Calling(q)' /\ Remembered(q)'
    BY <1>2, <2>3 DEF DashboardTypes, DashboardInv, Begun, Calling, Remembered, Open, Current
  <2> QED BY <2>2, <2>3 DEF DashboardInv
<1>3. ASSUME NEW p \in Pages, ConvertKnown(p) PROVE DashboardInv'
  <2> DEFINE rate == rates[p][Current(p)]
  <2>1. todo[p] # <<>> /\ Current(p) \in Foreign
    BY <1>3, CurrentTyped DEF ConvertKnown
  <2>2. rate \in Nat /\ rate + KeptFor > opened[p]
    BY <1>3, <2>1 DEF DashboardTypes, DashboardInv, Remembered, ConvertKnown
  <2>3. rates' = [rates EXCEPT ![p][Current(p)] = rate]
    BY <1>3, <2>1 DEF DashboardTypes, ConvertKnown
  <2> QED BY <1>3, <2>1, <2>2, <2>3, ConvertedKept DEF ConvertKnown
<1>4. ASSUME NEW p \in Pages, AskRate(p) PROVE DashboardInv'
  BY <1>4 DEF DashboardTypes, DashboardInv, Begun, Calling, Remembered, Current, AskRate
<1>5. ASSUME NEW p \in Pages, AnswerKept(p) PROVE DashboardInv'
  <2> DEFINE rate == stored[Current(p)]
  <2>1. todo[p] # <<>> /\ rates[p][Current(p)] = -1 /\ opened[p] <= day
    BY <1>5 DEF DashboardInv, Calling, Begun, AnswerKept
  <2>2. Current(p) \in Foreign
    BY <2>1, CurrentTyped
  <2>3. rate \in Nat /\ rate + KeptFor > opened[p]
    <3>1. rate \in Nat \cup {-1} /\ rate >= 0 /\ rate + KeptFor > day
      BY <1>5, <2>2 DEF DashboardTypes, AnswerKept, StillKept
    <3>2. opened[p] \in Int /\ day \in Int
      BY DEF DashboardTypes
    <3> HIDE DEF rate
    <3> QED BY <2>1, <3>1, <3>2
  <2> QED BY <1>5, <2>1, <2>3, ConvertedKept DEF AnswerKept, Remember
<1>6. ASSUME NEW p \in Pages, FetchRate(p) PROVE DashboardInv'
  BY <1>6 DEF DashboardTypes, DashboardInv, Begun, Calling, Remembered, Current, FetchRate
<1>7. ASSUME NEW p \in Pages, KeepRate(p) PROVE DashboardInv'
  <2>1. todo[p] # <<>> /\ rates[p][Current(p)] = -1 /\ got[p] \in Nat /\ got[p] + KeptFor > opened[p]
    BY <1>7 DEF DashboardInv, Calling, KeepRate
  <2> QED BY <1>7, <2>1, ConvertedKept DEF KeepRate, Remember
<1>8. ASSUME NEW p \in Pages, RateFails(p) PROVE DashboardInv'
  <2>1. opened[p] # -1
    BY <1>8 DEF DashboardInv, Begun, Calling, RateFails
  <2>2. ASSUME NEW q \in Pages, q = p PROVE Begun(q)' /\ Calling(q)' /\ Remembered(q)'
    BY <1>8, <2>1, <2>2 DEF DashboardTypes, DashboardInv, Begun, Calling, Remembered, RateFails
  <2>3. ASSUME NEW q \in Pages, q # p PROVE Begun(q)' /\ Calling(q)' /\ Remembered(q)'
    BY <1>8, <2>3 DEF DashboardTypes, DashboardInv, Begun, Calling, Remembered, RateFails, Current
  <2> QED BY <2>2, <2>3 DEF DashboardInv
<1>9. CASE UNCHANGED dashboard
  BY <1>9 DEF DashboardInv, Begun, Calling, Remembered, Current, dashboard
<1> QED BY <1>1, <1>2, <1>3, <1>4, <1>5, <1>6, <1>7, <1>8, <1>9 DEF DashboardNext, PageStep

\* A summary converts each currency with one rate, which was fresh when it began, for any
\* currencies, pages, market and lifetime of a rate (OneRate).
THEOREM DashboardOneRate == DashboardSpec => []OneRate
<1>1. DashboardTypes /\ DashboardInv => OneRate
  <2> SUFFICES ASSUME DashboardTypes, DashboardInv, NEW p \in Pages
               PROVE  /\ \A u, v \in used[p] : u[1][1] = v[1][1] => u[2] = v[2]
                      /\ \A u \in used[p] : u[2] + KeptFor > opened[p]
    BY DEF OneRate
  <2>1. \A u \in used[p] : u[2] = rates[p][u[1][1]] /\ u[1][1] \in Foreign /\ u[2] \in Nat
    BY DEF DashboardTypes, DashboardInv, Remembered
  <2>2. \A c \in Foreign : rates[p][c] # -1 => rates[p][c] + KeptFor > opened[p]
    BY DEF DashboardInv, Remembered
  <2> QED BY <2>1, <2>2
<1> QED BY <1>1, DashboardStarts, DashboardTyped, DashboardKept, PTL DEF DashboardSpec

(***************************************************************************)
(* Who forwarded a mail.                                                   *)
(***************************************************************************)
\* The variables of a verification have their types.
MailAuthTypes ==
  /\ letter \in Letters
  /\ stage \in {"dkim", "arc", "done", "read"}
  /\ asked \in [1..RowMax -> {"no", "waits", "has", "fails"}]
  /\ cache \in [KeyNames -> {"no", "flying", "has"}]
  /\ lookups \in Nat
  /\ flights \in [KeyNames -> Nat]

\* A request is under way for a name exactly while its promise is open.
OneFlight == \A n \in KeyNames : flights[n] = IF cache[n] = "flying" THEN 1 ELSE 0

\* What a signature was answered, the resolver has; what was not asked for was not answered.
Answered ==
  \A i \in 1..RowMax : asked[i] # "no" =>
    i \in DOMAIN SignaturesOf(stage) /\ (asked[i] = "has" => cache[KeyOf(i)] = "has")

\* The signatures that were found sound are, by keys the resolver has.
SoundRow(i) == i \in DOMAIN letter.rows /\ letter.rows[i].sound /\ cache[letter.rows[i].key] = "has"
SoundRows == \A i \in dkim : SoundRow(i)

\* There is a proof at the end only, and it is made of those signatures.
Evidence ==
  /\ proof.mechanism # "none" => stage \in {"done", "read"}
  /\ proof.level = "strong" => proof.mechanism \in {"dkim", "arc"}
  /\ proof.mechanism = "dkim" => proof.row \in DirectRows
  /\ proof.mechanism = "arc" => \A i \in 1..2 : letter.chain[i].sound /\ Google(letter.chain[i].domain)

\* What is offered was read in a proven mail, and its link, if any, is safe.
OfferProven ==
  offer # NoOffer =>
    /\ stage = "read" /\ proof.mechanism \in {"dkim", "arc"}
    /\ \E link, code :
         /\ link = NoLink \/ SafeLink(link)
         /\ offer = [kind |-> Kind(link, code), link |-> link, code |-> code]

\* The inductive invariant of a verification.
MailAuthInv == OneFlight /\ Answered /\ SoundRows /\ Evidence /\ OfferProven

\* Every signature of the stage has a name, and there are four at most.
LEMMA SignaturesTyped ==
  ASSUME letter \in Letters
  PROVE  /\ DOMAIN SignaturesOf(stage) \subseteq 1..RowMax
         /\ \A i \in DOMAIN SignaturesOf(stage) : SignaturesOf(stage)[i] \in Signature
         /\ DOMAIN letter.rows \subseteq 1..RowMax
         /\ \A i \in DOMAIN letter.rows : letter.rows[i] \in Signature
<1>1. ASSUME NEW s, Signatures(s) PROVE DOMAIN s \subseteq 1..RowMax /\ \A i \in DOMAIN s : s[i] \in Signature
  <2>1. s \in Seq(Signature) /\ Len(s) \in Nat /\ Len(s) <= RowMax
    BY <1>1 DEF Signatures
  <2> QED BY <2>1, MailAuthAssumption
<1>2. Signatures(letter.rows) /\ Signatures(letter.chain)
  BY MailAuthAssumption
<1>3. Signatures(SignaturesOf(stage))
  BY <1>2 DEF SignaturesOf
<1> QED BY <1>1, <1>2, <1>3

\* A signature asks for a name.
LEMMA KeyTyped ==
  ASSUME letter \in Letters, NEW i \in DOMAIN SignaturesOf(stage)
  PROVE  KeyOf(i) \in KeyNames
BY SignaturesTyped DEF KeyOf, Signature

\* A verification begins with its invariant,
LEMMA MailAuthStarts == MailAuthInit => MailAuthTypes /\ MailAuthInv
BY MailAuthAssumption DEF MailAuthInit, MailAuthTypes, MailAuthInv, OneFlight, Answered, SoundRows, Evidence, OfferProven, Unasked, Unproven

\* keeps its types,
LEMMA MailAuthTyped == MailAuthTypes /\ MailAuthInv /\ [MailAuthNext]_mailAuth => MailAuthTypes'
<1> SUFFICES ASSUME MailAuthTypes, MailAuthInv, [MailAuthNext]_mailAuth PROVE MailAuthTypes'
  OBVIOUS
<1>1. ASSUME NEW i \in DOMAIN SignaturesOf(stage), AskKey(i) PROVE MailAuthTypes'
  <2>1. i \in 1..RowMax /\ KeyOf(i) \in KeyNames
    BY SignaturesTyped, KeyTyped DEF MailAuthTypes
  <2> QED BY <1>1, <2>1 DEF MailAuthTypes, AskKey, Remembers
<1>2. ASSUME NEW n \in KeyNames, NEW found \in BOOLEAN, Served(n, found) PROVE MailAuthTypes'
  <2>1. flights' \in [KeyNames -> Nat]
    BY <1>2 DEF MailAuthTypes, Served
  <2> QED BY <1>2, <2>1 DEF MailAuthTypes, Served
<1>3. CASE ToArc
  BY <1>3 DEF MailAuthTypes, ToArc, Unasked
<1>4. CASE Conclude
  BY <1>4 DEF MailAuthTypes, Conclude, Unasked
<1>5. CASE CannotVerify
  BY <1>5 DEF MailAuthTypes, CannotVerify, Unasked
<1>6. CASE UNCHANGED mailAuth
  BY <1>6 DEF MailAuthTypes, mailAuth
<1>7. ASSUME NEW c \in Contents, Reads(c) PROVE MailAuthTypes'
  BY <1>7 DEF MailAuthTypes, Reads
<1> QED BY <1>1, <1>2, <1>3, <1>4, <1>5, <1>6, <1>7 DEF MailAuthNext

\* What the resolver has it keeps, and then rows and evidence stand.
LEMMA EvidenceStands ==
  ASSUME MailAuthTypes, SoundRows, Evidence, OfferProven,
         UNCHANGED <<letter, stage, dkim, proof, offer>>,
         \A n \in KeyNames : cache[n] = "has" => cache'[n] = "has"
  PROVE  SoundRows' /\ Evidence' /\ OfferProven'
<1>1. SoundRows'
  <2> SUFFICES ASSUME NEW i \in dkim PROVE SoundRow(i)'
    BY DEF SoundRows
  <2>1. SoundRow(i) /\ letter.rows[i].key \in KeyNames
    BY SignaturesTyped DEF MailAuthTypes, SoundRows, SoundRow, Signature
  <2> QED BY <2>1 DEF SoundRow
<1>2. Evidence'
  BY DEF Evidence, DirectRows
<1>3. OfferProven'
  BY DEF OfferProven
<1> QED BY <1>1, <1>2, <1>3

\* and keeps its invariant, however the keys arrive.
LEMMA MailAuthKept ==
  MailAuthTypes /\ MailAuthTypes' /\ MailAuthInv /\ [MailAuthNext]_mailAuth => MailAuthInv'
<1> SUFFICES ASSUME MailAuthTypes, MailAuthTypes', MailAuthInv, [MailAuthNext]_mailAuth
             PROVE  MailAuthInv'
  OBVIOUS
<1>1. ASSUME NEW i \in DOMAIN SignaturesOf(stage), AskKey(i) PROVE MailAuthInv'
  <2>1. i \in 1..RowMax /\ KeyOf(i) \in KeyNames
    BY SignaturesTyped, KeyTyped DEF MailAuthTypes
  <2>2. OneFlight'
    BY <1>1, <2>1 DEF MailAuthTypes, MailAuthInv, OneFlight, AskKey, Remembers
  <2>3. \A n \in KeyNames : cache[n] = "has" => cache'[n] = "has"
    BY <1>1, <2>1 DEF MailAuthTypes, AskKey, Remembers
  <2>4. Answered'
    <3> SUFFICES ASSUME NEW j \in 1..RowMax, asked'[j] # "no"
                 PROVE  j \in DOMAIN SignaturesOf(stage) /\ (asked'[j] = "has" => cache'[KeyOf(j)] = "has")
      BY <1>1 DEF Answered, AskKey, SignaturesOf, KeyOf
    <3>1. CASE j = i
      BY <1>1, <2>1, <2>3, <3>1 DEF MailAuthTypes, AskKey
    <3>2. CASE j # i
      <4>1. asked'[j] = asked[j]
        BY <1>1, <3>2 DEF MailAuthTypes, AskKey
      <4>2. j \in DOMAIN SignaturesOf(stage) /\ (asked[j] = "has" => cache[KeyOf(j)] = "has")
        BY <4>1 DEF MailAuthInv, Answered
      <4> QED BY <2>3, <4>1, <4>2, KeyTyped DEF MailAuthTypes
    <3> QED BY <3>1, <3>2
  <2> QED BY <1>1, <2>2, <2>3, <2>4, EvidenceStands DEF MailAuthInv, AskKey
<1>2. ASSUME NEW n \in KeyNames, NEW found \in BOOLEAN, Served(n, found) PROVE MailAuthInv'
  <2>1. cache[n] = "flying" /\ flights[n] = 1
    BY <1>2 DEF MailAuthInv, OneFlight, Served
  <2>2. OneFlight'
    BY <1>2, <2>1 DEF MailAuthTypes, MailAuthInv, OneFlight, Served
  <2>3. \A k \in KeyNames : cache[k] = "has" => cache'[k] = "has"
    BY <1>2, <2>1 DEF MailAuthTypes, Served
  <2>4. Answered'
    <3> SUFFICES ASSUME NEW j \in 1..RowMax, asked'[j] # "no"
                 PROVE  j \in DOMAIN SignaturesOf(stage) /\ (asked'[j] = "has" => cache'[KeyOf(j)] = "has")
      BY <1>2 DEF Answered, Served, SignaturesOf, KeyOf
    <3>1. asked[j] # "no"
      BY <1>2 DEF MailAuthTypes, Served
    <3>2. j \in DOMAIN SignaturesOf(stage) /\ (asked[j] = "has" => cache[KeyOf(j)] = "has")
      BY <3>1 DEF MailAuthInv, Answered
    <3>3. KeyOf(j) \in KeyNames
      BY <3>2, KeyTyped DEF MailAuthTypes
    <3>4. asked'[j] = "has" => asked[j] = "has" \/ (KeyOf(j) = n /\ found)
      BY <1>2 DEF MailAuthTypes, Served
    <3>5. found => cache'[n] = "has"
      BY <1>2 DEF MailAuthTypes, Served
    <3> QED BY <2>3, <3>2, <3>3, <3>4, <3>5
  <2> QED BY <1>2, <2>2, <2>3, <2>4, EvidenceStands DEF MailAuthInv, Served
<1>3. CASE ToArc
  <2>1. OneFlight' /\ Answered'
    BY <1>3 DEF MailAuthInv, OneFlight, Answered, ToArc, Unasked
  <2>2. SoundRows'
    <3> SUFFICES ASSUME NEW i \in Sound PROVE SoundRow(i)'
      BY <1>3 DEF SoundRows, ToArc
    <3>1. i \in DOMAIN letter.rows /\ i \in 1..RowMax /\ asked[i] = "has" /\ letter.rows[i].sound
      BY <1>3, SignaturesTyped DEF MailAuthTypes, Sound, ToArc, SignaturesOf
    <3>2. cache[letter.rows[i].key] = "has"
      BY <1>3, <3>1 DEF MailAuthInv, Answered, KeyOf, SignaturesOf, ToArc
    <3> QED BY <1>3, <3>1, <3>2 DEF SoundRow, ToArc
  <2>3. Evidence' /\ OfferProven'
    BY <1>3 DEF MailAuthInv, Evidence, OfferProven, ToArc
  <2> QED BY <2>1, <2>2, <2>3 DEF MailAuthInv
<1>4. CASE Conclude
  <2>1. OneFlight' /\ Answered' /\ SoundRows'
    BY <1>4 DEF MailAuthInv, OneFlight, Answered, SoundRows, SoundRow, Conclude, Unasked
  <2>2. DirectRows' = DirectRows
    BY <1>4 DEF DirectRows, Conclude
  <2>6. OfferProven'
    BY <1>4 DEF MailAuthInv, OfferProven, Conclude
  <2>3. CASE ArcProof
    <3>1. proof' = [level |-> "strong", mechanism |-> "arc", row |-> 0]
      BY <1>4, <2>3 DEF Conclude
    <3>2. \A i \in 1..2 : letter.chain[i].sound /\ Google(letter.chain[i].domain)
      BY <1>4, <2>3 DEF Conclude, ArcProof, Sound, SignaturesOf
    <3> QED BY <1>4, <2>1, <2>6, <3>1, <3>2 DEF MailAuthInv, Evidence, Conclude
  <2>4. CASE ~ArcProof /\ DirectRows # {}
    <3>1. proof' = [level |-> "strong", mechanism |-> "dkim", row |-> Min(DirectRows)]
      BY <1>4, <2>4 DEF Conclude
    <3>2. DirectRows \subseteq 1..RowMax
      BY SignaturesTyped DEF MailAuthTypes, MailAuthInv, SoundRows, SoundRow, DirectRows
    <3>3. Min(DirectRows) \in DirectRows
      BY <2>4, <3>2, LeastOf, MailAuthAssumption
    <3> QED BY <1>4, <2>1, <2>2, <2>6, <3>1, <3>3 DEF MailAuthInv, Evidence, Conclude
  <2>5. CASE ~ArcProof /\ DirectRows = {}
    <3>1. proof' = Unproven
      BY <1>4, <2>5 DEF Conclude
    <3> QED BY <2>1, <2>6, <3>1 DEF MailAuthInv, Evidence, Unproven
  <2> QED BY <2>3, <2>4, <2>5
<1>5. CASE CannotVerify
  BY <1>5 DEF MailAuthInv, OneFlight, Answered, SoundRows, SoundRow, Evidence, OfferProven, CannotVerify,
              Unasked, Unproven
<1>6. CASE UNCHANGED mailAuth
  BY <1>6 DEF MailAuthInv, OneFlight, Answered, SoundRows, SoundRow, Evidence, OfferProven, SignaturesOf, KeyOf,
              DirectRows, mailAuth
<1>7. ASSUME NEW c \in Contents, Reads(c) PROVE MailAuthInv'
  <2>1. OneFlight' /\ Answered' /\ SoundRows'
    BY <1>7 DEF MailAuthTypes, MailAuthInv, OneFlight, Answered, SoundRows, SoundRow, SignaturesOf, KeyOf, Reads
  <2>2. Evidence' /\ (proof.level = "strong" => proof.mechanism \in {"dkim", "arc"}) /\ offer = NoOffer
    BY <1>7 DEF MailAuthInv, Evidence, OfferProven, DirectRows, Reads
  <2>3. CASE proof.level = "strong" /\ \E link \in {NoLink} \cup Range(Candidates(c)) :
               Action(c, link) /\ offer' = Keeps(link, c.code)
    <3>1. PICK link : Action(c, link) /\ offer' = Keeps(link, c.code)
      BY <2>3
    <3>2. link = NoLink \/ SafeLink(link)
      BY <3>1 DEF Action
    <3>3. offer' # NoOffer => offer' = [kind |-> Kind(link, c.code), link |-> link, code |-> c.code]
      BY <3>1 DEF Keeps
    <3> QED BY <1>7, <2>1, <2>2, <2>3, <3>2, <3>3 DEF MailAuthInv, OfferProven, Reads
  <2>4. CASE UNCHANGED offer
    BY <2>1, <2>2, <2>4 DEF MailAuthInv, OfferProven
  <2> QED BY <1>7, <2>3, <2>4 DEF Reads
<1> QED BY <1>1, <1>2, <1>3, <1>4, <1>5, <1>6, <1>7 DEF MailAuthNext

\* A proof rests on signatures whose keys the resolver has, and no name is asked for twice at
\* a time, for any mails, names and limits (ProvenBySignature).
THEOREM MailAuthProves == MailAuthSpec => []ProvenBySignature
<1>1. MailAuthTypes /\ MailAuthInv => ProvenBySignature
  <2> SUFFICES ASSUME MailAuthTypes, MailAuthInv PROVE ProvenBySignature
    OBVIOUS
  <2>1. \A n \in KeyNames : flights[n] <= 1 /\ (cache[n] = "has" => flights[n] = 0)
    BY DEF MailAuthInv, OneFlight
  <2>2. ASSUME NEW i \in DirectRows
        PROVE  LET row == letter.rows[i]
               IN row.sound /\ Google(row.domain) /\ row.system /\ row.recipient /\ cache[row.key] = "has"
    BY DEF MailAuthInv, SoundRows, SoundRow, DirectRows
  <2>3. ASSUME offer # NoOffer
        PROVE  /\ proof.mechanism \in {"dkim", "arc"} /\ Displayed = offer
               /\ offer.link # NoLink => SafeLink(offer.link)
    <3>1. PICK link, code : /\ link = NoLink \/ SafeLink(link)
                            /\ offer = [kind |-> Kind(link, code), link |-> link, code |-> code]
      BY <2>3 DEF MailAuthInv, OfferProven
    <3>2. offer.link = link /\ offer.code = code /\ offer.kind = Kind(link, code)
      BY <3>1
    <3>3. ~SafeLink(NoLink)
      BY DEF SafeLink, NoLink
    <3> QED BY <2>3, <3>1, <3>2, <3>3 DEF MailAuthInv, OfferProven, Displayed
  <2> QED BY <2>1, <2>2, <2>3 DEF ProvenBySignature, MailAuthInv, Evidence
<1> QED BY <1>1, MailAuthStarts, MailAuthTyped, MailAuthKept, PTL DEF MailAuthSpec

(***************************************************************************)
(* What a review teaches.                                                  *)
(***************************************************************************)
\* What a rule of an account is for.
Sources == {KeyFor(c) : c \in Detected}
\* Where an invocation may be.
Places == {"idle", "learn", "text", "source", "teach", "list", "next", "answered",
           "automate", "rules", "accounts", "post"}
\* What an invocation holds.
HandType ==
  [at : Places, payment : Detected \cup {Unset}, account : Accounts \cup {Unset}, weight : Nat,
   todo : SUBSET Detected, reviewed : Detected \cup {Unset}, lesson : Accounts \cup {Unset},
   category : {"income", "expense", "mixed", Unset}, found : BOOLEAN,
   listed : SUBSET Detected, quiet : BOOLEAN]

\* The variables have their types.
RulesTypes ==
  /\ state \in [Detected -> {"new", "pending", "accepted", "rejected"}]
  /\ taught \in [Sources -> Accounts \cup {Unset}]
  /\ live \subseteq Accounts /\ automatic \in BOOLEAN /\ turns \in Nat
  /\ hand \in [Hands -> HandType]

\* An invocation has what its place needs.
Equipped(h) ==
  /\ h.at \in {"learn", "text", "source", "teach"} => h.reviewed \in Detected
  /\ h.at = "teach" => h.lesson \in Accounts
  /\ h.at \in {"automate", "rules", "accounts", "post"} => h.payment \in Detected
  /\ h.at = "answered" => h.todo = {}

\* A payment the rule of the review decides.
Due(h, d) == KeyFor(d) = KeyFor(h.reviewed) /\ h.lesson \in Usable(d) /\ Decided(d)

\* It is the one in hand, and on its way to the account that was learned.
InHand(h, d) ==
  /\ h.at \in {"automate", "rules", "accounts", "post"} /\ h.payment = d
  /\ h.at = "accounts" => h.account = h.lesson /\ h.weight \in {LearnedCategory, SystemCategory, OtherCategory}
  /\ h.at = "post" => h.account = h.lesson

\* A payment that is posted or rejected.
Over(d) == state[d] \in {"accepted", "rejected"}

\* While nothing is changed by others the rule stands, and each payment it decides is posted,
\* rejected, still to do or in hand.
Applying(h) ==
  h.quiet =>
    /\ h.at \in {"list", "next", "answered", "automate", "rules", "accounts", "post"}
    /\ h.reviewed \in Detected /\ h.lesson \in Accounts
    /\ taught[KeyFor(h.reviewed)] = h.lesson
    /\ automatic /\ h.at # "list" =>
         \A d \in h.listed : Due(h, d) => Over(d) \/ d \in h.todo \/ InHand(h, d)

\* The inductive invariant.
RulesInv == \A p \in Hands : Equipped(hand[p]) /\ Applying(hand[p])

\* What is assumed of the constants.
LEMMA RulesConstants ==
  /\ Unset \notin Accounts /\ Unset \notin Detected
  /\ AutoPostMin \in Nat
  /\ \A c \in Detected : Facts[c].confidence \in Nat /\ Facts[c].kind \in {"income", "expense"}
BY RulesAssumption

\* An invocation at rest.
LEMMA RestingTyped == Resting \in HandType /\ Equipped(Resting) /\ ~Resting.quiet
BY DEF Resting, HandType, Places, Equipped

\* A rule stands while the rules, the accounts and the permission do, and no payment is taken
\* back.
LEMMA Standing ==
  ASSUME NEW h \in HandType, Applying(h), UNCHANGED <<taught, live, automatic>>,
         \A d \in Detected : Over(d) => Over(d)'
  PROVE  Applying(h)'
<1>1. \A d \in h.listed : d \in Detected
  BY DEF HandType
<1> QED BY <1>1 DEF Applying, Due, Usable, InHand, Decided

\* One invocation moves on.
LEMMA OneMoves ==
  ASSUME RulesTypes, RulesInv, NEW p \in Hands, NEW h \in HandType,
         hand' = [hand EXCEPT ![p] = h], Equipped(h), Applying(h)',
         UNCHANGED <<taught, live, automatic>>, turns' \in Nat,
         state' \in [Detected -> {"new", "pending", "accepted", "rejected"}],
         \A d \in Detected : Over(d) => Over(d)'
  PROVE  RulesTypes' /\ RulesInv'
<1>1. RulesTypes'
  BY DEF RulesTypes
<1>2. ASSUME NEW q \in Hands PROVE Equipped(hand[q])' /\ Applying(hand[q])'
  <2>1. CASE q = p
    <3>1. hand'[q] = h
      BY <2>1 DEF RulesTypes
    <3> QED BY <3>1 DEF Equipped, Applying, Due, InHand
  <2>2. CASE q # p
    <3>1. PICK g \in HandType : g = hand[q] /\ g = hand'[q]
      BY <2>2 DEF RulesTypes
    <3>2. Equipped(g) /\ Applying(g)'
      BY <3>1, Standing DEF RulesInv
    <3> QED BY <3>1, <3>2 DEF Equipped, Applying, Due, InHand
  <2> QED BY <2>1, <2>2
<1> QED BY <1>1, <1>2 DEF RulesInv

\* The invariant holds where learning begins.
LEMMA RulesStarts == RulesInit => RulesTypes /\ RulesInv
<1> SUFFICES ASSUME RulesInit PROVE RulesTypes /\ RulesInv
  OBVIOUS
<1>1. RulesTypes
  BY RestingTyped DEF RulesInit, RulesTypes, Sources
<1>2. RulesInv
  BY RestingTyped DEF RulesInit, RulesInv, Applying
<1> QED BY <1>1, <1>2

\* An invocation that rests or begins anew has no rule to apply.
LEMMA Quiet ==
  ASSUME NEW h, ~h.quiet
  PROVE  Applying(h) /\ Applying(h)'
BY DEF Applying

\* An invocation ends.
LEMMA LeavesKept ==
  ASSUME RulesTypes, RulesInv, NEW p \in Hands, Leaves(p),
         UNCHANGED <<taught, live, automatic>>, turns' \in Nat,
         state' \in [Detected -> {"new", "pending", "accepted", "rejected"}],
         \A d \in Detected : Over(d) => Over(d)'
  PROVE  RulesTypes' /\ RulesInv'
<1>1. hand' = [hand EXCEPT ![p] = Resting]
  BY DEF Leaves
<1> QED BY <1>1, RestingTyped, Quiet, OneMoves

\* The steps of a review up to its lesson: no rule is in force yet.
LEMMA ReviewKept ==
  ASSUME RulesTypes, RulesInv, NEW p \in Hands,
         \/ \E c \in Detected : ComesIn(p, c) \/ AcceptReview(p, c)
         \/ LearnFromReview(p) \/ TeachText(p) \/ FindSource(p)
  PROVE  RulesTypes' /\ RulesInv'
<1> DEFINE g == hand[p]
<1>t. g \in HandType /\ Equipped(g) /\ Applying(g)
  BY DEF RulesTypes, RulesInv
<1>u. \A d \in Detected : state' = state => (Over(d) => Over(d)')
  BY DEF Over
<1>1. ASSUME NEW c \in Detected, ComesIn(p, c) PROVE RulesTypes' /\ RulesInv'
  <2> DEFINE h == [g EXCEPT !.at = "automate", !.payment = c]
  <2>1. h \in HandType /\ Equipped(h) /\ ~h.quiet
    BY <1>t, <1>1 DEF HandType, Places, Equipped, Applying, ComesIn
  <2>2. hand' = [hand EXCEPT ![p] = h]
    BY <1>1 DEF RulesTypes, ComesIn
  <2>3. /\ state' \in [Detected -> {"new", "pending", "accepted", "rejected"}]
        /\ \A d \in Detected : Over(d) => Over(d)'
    BY <1>1 DEF RulesTypes, ComesIn, Over
  <2>4. UNCHANGED <<taught, live, automatic, turns>>
    BY <1>1 DEF ComesIn, learned, settings
  <2> HIDE DEF h
  <2> QED BY <2>1, <2>2, <2>3, <2>4, Quiet, OneMoves DEF RulesTypes
<1>2. ASSUME NEW c \in Detected, AcceptReview(p, c) PROVE RulesTypes' /\ RulesInv'
  <2>0. PICK kind \in {"income", "expense"} : \E category \in Offered(c, kind), a \in Accounts \cup {Unset} :
          hand' = [hand EXCEPT ![p].at = "learn", ![p].reviewed = c, ![p].lesson = a, ![p].category = category]
    BY <1>2 DEF AcceptReview
  <2>1. PICK category \in Offered(c, kind), a \in Accounts \cup {Unset} :
          hand' = [hand EXCEPT ![p].at = "learn", ![p].reviewed = c, ![p].lesson = a, ![p].category = category]
    BY <2>0
  <2> DEFINE h == [g EXCEPT !.at = "learn", !.reviewed = c, !.lesson = a, !.category = category]
  <2>2. category \in {"income", "expense", "mixed", Unset}
    BY DEF Offered
  <2>3. g.at = "idle"
    BY <1>2 DEF AcceptReview
  <2>4. h \in HandType /\ Equipped(h) /\ ~h.quiet
    BY <1>t, <2>2, <2>3 DEF HandType, Places, Equipped, Applying
  <2>5. hand' = [hand EXCEPT ![p] = h]
    BY <2>1 DEF RulesTypes
  <2>6. /\ state' \in [Detected -> {"new", "pending", "accepted", "rejected"}]
        /\ \A d \in Detected : Over(d) => Over(d)'
    BY <1>2 DEF RulesTypes, AcceptReview, Over
  <2>7. UNCHANGED <<taught, live, automatic>> /\ turns' \in Nat
    <3>1. turns \in Nat /\ turns' = turns + 1
      BY <1>2 DEF RulesTypes, AcceptReview, Turn
    <3>2. UNCHANGED <<taught, live, automatic>>
      BY <1>2 DEF AcceptReview, learned
    <3> QED BY <3>1, <3>2
  <2> HIDE DEF h
  <2> QED BY <2>4, <2>5, <2>6, <2>7, Quiet, OneMoves
<1>3. ASSUME LearnFromReview(p) PROVE RulesTypes' /\ RulesInv'
  <2>1. UNCHANGED <<state, taught, live, automatic, turns>>
    BY <1>3 DEF LearnFromReview, learned, settings
  <2>2. CASE Goes(p, "text")
    <3> DEFINE h == [g EXCEPT !.at = "text"]
    <3>1. h \in HandType /\ Equipped(h) /\ ~h.quiet
      BY <1>t, <1>3 DEF HandType, Places, Equipped, Applying, LearnFromReview
    <3>2. hand' = [hand EXCEPT ![p] = h]
      BY <2>2 DEF Goes
    <3> HIDE DEF h
    <3> QED BY <1>u, <2>1, <3>1, <3>2, Quiet, OneMoves DEF RulesTypes
  <2>3. CASE hand' = [hand EXCEPT ![p] = [Resting EXCEPT !.at = "list"]]
    <3> DEFINE h == [Resting EXCEPT !.at = "list"]
    <3>1. h \in HandType /\ Equipped(h) /\ ~h.quiet
      BY DEF HandType, Places, Equipped, Resting
    <3> HIDE DEF h
    <3> QED BY <1>u, <2>1, <2>3, <3>1, Quiet, OneMoves DEF RulesTypes, h
  <2> QED BY <1>3, <2>2, <2>3 DEF LearnFromReview
<1>4. ASSUME TeachText(p) PROVE RulesTypes' /\ RulesInv'
  <2>1. UNCHANGED <<state, taught, live, automatic, turns>>
    BY <1>4 DEF TeachText, settings
  <2>2. CASE Leaves(p)
    BY <1>u, <2>1, <2>2, LeavesKept DEF RulesTypes
  <2>3. CASE hand' = [hand EXCEPT ![p].at = "source", ![p].category = Unset]
    <3> DEFINE h == [g EXCEPT !.at = "source", !.category = Unset]
    <3>1. h \in HandType /\ Equipped(h) /\ ~h.quiet
      BY <1>t, <1>4 DEF HandType, Places, Equipped, Applying, TeachText
    <3>2. hand' = [hand EXCEPT ![p] = h]
      BY <2>3 DEF RulesTypes
    <3> HIDE DEF h
    <3> QED BY <1>u, <2>1, <3>1, <3>2, Quiet, OneMoves DEF RulesTypes
  <2> QED BY <1>4, <2>2, <2>3 DEF TeachText
<1>5. ASSUME FindSource(p) PROVE RulesTypes' /\ RulesInv'
  <2>1. UNCHANGED <<state, taught, live, automatic, turns>>
    BY <1>5 DEF FindSource, learned, settings
  <2>2. CASE hand[p].lesson = Unset
    <3> DEFINE h == [g EXCEPT !.at = "list"]
    <3>1. h \in HandType /\ Equipped(h) /\ ~h.quiet
      BY <1>t, <1>5 DEF HandType, Places, Equipped, Applying, FindSource
    <3>2. hand' = [hand EXCEPT ![p] = h]
      BY <1>5, <2>2 DEF FindSource, Goes
    <3> HIDE DEF h
    <3> QED BY <1>u, <2>1, <3>1, <3>2, Quiet, OneMoves DEF RulesTypes
  <2>3. CASE hand[p].lesson # Unset
    <3> DEFINE h == [g EXCEPT !.at = "teach", !.found = taught[KeyFor(g.reviewed)] # Unset]
    <3>1. h \in HandType /\ Equipped(h) /\ ~h.quiet
      BY <1>t, <1>5, <2>3 DEF HandType, Places, Equipped, Applying, FindSource
    <3>2. hand' = [hand EXCEPT ![p] = h]
      BY <1>5, <2>3 DEF RulesTypes, FindSource
    <3> HIDE DEF h
    <3> QED BY <1>u, <2>1, <3>1, <3>2, Quiet, OneMoves DEF RulesTypes
  <2> QED BY <2>2, <2>3
<1> QED BY <1>1, <1>2, <1>3, <1>4, <1>5

\* The lesson: the rule of the source is now the one taught, and whoever else applied one
\* is disturbed.
LEMMA TeachKept ==
  ASSUME RulesTypes, RulesInv, NEW p \in Hands, TeachSource(p)
  PROVE  RulesTypes' /\ RulesInv'
<1> DEFINE key == KeyFor(hand[p].reviewed)
<1>1. UNCHANGED <<state, live, automatic, turns>>
  BY DEF TeachSource, settings
<1>2. hand[p] \in HandType /\ hand[p].lesson \in Accounts /\ hand[p].reviewed \in Detected
  BY DEF RulesTypes, RulesInv, Equipped, TeachSource
<1>3. CASE Leaves(p) /\ UNCHANGED taught
  BY <1>1, <1>3, LeavesKept DEF RulesTypes, Over
<1>4. CASE /\ taught' = [taught EXCEPT ![key] = hand[p].lesson]
           /\ hand' = [q \in Hands |->
                 IF q = p THEN [hand[q] EXCEPT !.at = "list", !.found = FALSE, !.quiet = TRUE]
                          ELSE [hand[q] EXCEPT !.quiet = FALSE]]
  <2>1. key \in Sources
    BY <1>2 DEF Sources
  <2>2. taught' \in [Sources -> Accounts \cup {Unset}] /\ taught'[key] = hand[p].lesson
    BY <1>2, <1>4, <2>1 DEF RulesTypes
  <2>3. ASSUME NEW g \in HandType
        PROVE  /\ [g EXCEPT !.at = "list", !.found = FALSE, !.quiet = TRUE] \in HandType
               /\ [g EXCEPT !.quiet = FALSE] \in HandType
    BY DEF HandType, Places
  <2>4. hand' \in [Hands -> HandType]
    BY <1>4, <2>3 DEF RulesTypes
  <2>5. ASSUME NEW q \in Hands PROVE Equipped(hand[q])' /\ Applying(hand[q])'
    <3>1. CASE q = p
      <4> DEFINE h == [hand[p] EXCEPT !.at = "list", !.found = FALSE, !.quiet = TRUE]
      <4>1. hand'[q] = h
        BY <1>4, <3>1
      <4>2. h.at = "list" /\ h.lesson = hand[p].lesson /\ h.reviewed = hand[p].reviewed
        BY <1>2 DEF HandType
      <4> HIDE DEF h
      <4> QED BY <1>2, <2>2, <4>1, <4>2 DEF Equipped, Applying
    <3>2. CASE q # p
      <4> DEFINE h == [hand[q] EXCEPT !.quiet = FALSE]
      <4>1. hand'[q] = h
        BY <1>4, <3>2
      <4>2. Equipped(h) /\ ~h.quiet
        BY DEF RulesTypes, HandType, RulesInv, Equipped
      <4> HIDE DEF h
      <4> QED BY <4>1, <4>2 DEF Equipped, Applying
    <3> QED BY <3>1, <3>2
  <2> QED BY <1>1, <2>2, <2>4, <2>5 DEF RulesTypes, RulesInv
<1> QED BY <1>3, <1>4 DEF TeachSource

\* What decides alone: the policy posts what the rule decides.
LEMMA DecidedPosts ==
  ASSUME NEW d \in Detected, Decided(d),
         NEW weight \in {LearnedCategory, SystemCategory, OtherCategory}
  PROVE  PostsItself(Facts[d].confidence, LearnedAccount, weight)
<1> DEFINE c == Facts[d].confidence
           x == 7800 * c + 2000 * 9950 + 200 * weight + 5000
<1>1. c \in Nat /\ AutoPostMin \in Nat /\ weight \in Nat /\ weight >= 6200
  BY RulesConstants DEF LearnedCategory, SystemCategory, OtherCategory
<1>2. c >= AutoPostMin - 500 /\ c >= 8800 /\ 7800 * c + 2000 * 9950 + 200 * 6200 >= 10000 * AutoPostMin
  BY DEF Decided
<1> HIDE DEF c
<1>3. x \in Nat /\ x >= 10000 * AutoPostMin
  BY <1>1, <1>2
<1>4. x \div 10000 >= AutoPostMin
  <2> HIDE DEF x
  <2> QED BY <1>1, <1>3
<1>5. c >= Greater(8800, AutoPostMin - 500)
  BY <1>2 DEF Greater
<1> QED BY <1>4, <1>5 DEF PostsItself, Weighed, LearnedAccount, c

\* The steps that apply rules to the payments taken up.
LEMMA TakeKept ==
  ASSUME RulesTypes, RulesInv, NEW p \in Hands, TakeUp(p) \/ TakeNext(p) \/ MayAutomate(p) \/ ReadRules(p)
  PROVE  RulesTypes' /\ RulesInv'
<1> DEFINE g == hand[p]
<1>t. g \in HandType /\ Equipped(g) /\ Applying(g)
  BY DEF RulesTypes, RulesInv
<1>u. /\ UNCHANGED <<state, taught, live, automatic, turns>>
      /\ state' \in [Detected -> {"new", "pending", "accepted", "rejected"}]
      /\ \A d \in Detected : Over(d) => Over(d)'
      /\ turns' \in Nat
  BY DEF TakeUp, TakeNext, MayAutomate, ReadRules, learned, settings, RulesTypes, Over
<1>s. ASSUME NEW h \in HandType, Applying(h) PROVE Applying(h)'
  BY <1>s, <1>u, Standing
<1>1. CASE TakeUp(p)
  <2> DEFINE h == [g EXCEPT !.at = "next", !.todo = Newest(Waiting), !.listed = Newest(Waiting)]
  <2>1. Newest(Waiting) \subseteq Detected
    BY DEF Newest, Waiting
  <2>2. h \in HandType /\ Equipped(h)
    BY <1>t, <2>1 DEF HandType, Places, Equipped
  <2>3. hand' = [hand EXCEPT ![p] = h]
    BY <1>1 DEF RulesTypes, TakeUp
  <2>4. Applying(h)
    BY <1>t DEF HandType, Applying
  <2> HIDE DEF h
  <2> QED BY <1>u, <1>s, <2>2, <2>3, <2>4, OneMoves
<1>2. CASE TakeNext(p)
  <2>1. ASSUME hand[p].todo = {}, Goes(p, "answered") PROVE RulesTypes' /\ RulesInv'
    <3> DEFINE h == [g EXCEPT !.at = "answered"]
    <3>1. h \in HandType /\ Equipped(h)
      BY <1>t, <2>1 DEF HandType, Places, Equipped
    <3>2. hand' = [hand EXCEPT ![p] = h]
      BY <2>1 DEF Goes
    <3>3. Applying(h)
      BY <1>t, <1>2, <2>1 DEF HandType, Applying, Due, InHand, TakeNext
    <3> HIDE DEF h
    <3> QED BY <1>u, <1>s, <3>1, <3>2, <3>3, OneMoves
  <2>2. ASSUME NEW c \in hand[p].todo,
               hand' = [hand EXCEPT ![p].at = "automate", ![p].payment = c, ![p].todo = @ \ {c}]
        PROVE  RulesTypes' /\ RulesInv'
    <3> DEFINE h == [g EXCEPT !.at = "automate", !.payment = c, !.todo = @ \ {c}]
    <3>1. h \in HandType /\ Equipped(h)
      BY <1>t DEF HandType, Places, Equipped
    <3>2. hand' = [hand EXCEPT ![p] = h]
      BY <2>2 DEF RulesTypes
    <3>3. Applying(h)
      <4> SUFFICES ASSUME h.quiet PROVE Applying(h)
        BY Quiet
      <4>1. h.at = "automate" /\ h.payment = c /\ h.todo = g.todo \ {c} /\ h.listed = g.listed
            /\ h.reviewed = g.reviewed /\ h.lesson = g.lesson /\ h.quiet = g.quiet
        BY <1>t DEF HandType
      <4>2. g.at = "next"
        BY <1>2 DEF TakeNext
      <4>3. ASSUME NEW d \in h.listed, Due(h, d), automatic PROVE Over(d) \/ d \in h.todo \/ InHand(h, d)
        <5>1. Due(g, d)
          BY <4>1, <4>3 DEF Due
        <5>2. Over(d) \/ d \in g.todo
          BY <1>t, <4>1, <4>2, <4>3, <5>1 DEF Applying, InHand
        <5> QED BY <4>1, <5>2 DEF InHand
      <4> HIDE DEF h
      <4> QED BY <1>t, <4>1, <4>3 DEF Applying
    <3> HIDE DEF h
    <3> QED BY <1>u, <1>s, <3>1, <3>2, <3>3, OneMoves
  <2> QED BY <1>2, <2>1, <2>2 DEF TakeNext
<1>3. CASE MayAutomate(p)
  <2>1. CASE automatic
    <3> DEFINE h == [g EXCEPT !.at = "rules"]
    <3>1. h \in HandType /\ Equipped(h)
      BY <1>t, <1>3 DEF HandType, Places, Equipped, MayAutomate
    <3>2. hand' = [hand EXCEPT ![p] = h]
      BY <1>3, <2>1 DEF MayAutomate, Goes
    <3>3. Applying(h)
      BY <1>t, <1>3 DEF HandType, Applying, Due, InHand, MayAutomate
    <3> HIDE DEF h
    <3> QED BY <1>u, <1>s, <3>1, <3>2, <3>3, OneMoves
  <2>2. CASE ~automatic
    <3> DEFINE h == [g EXCEPT !.at = "next", !.payment = Unset, !.account = Unset, !.weight = 0]
    <3>1. h \in HandType /\ Equipped(h)
      BY <1>t DEF HandType, Places, Equipped
    <3>2. hand' = [hand EXCEPT ![p] = h]
      BY <1>3, <2>2 DEF RulesTypes, MayAutomate, Done
    <3>3. Applying(h)
      BY <1>t, <2>2 DEF HandType, Applying
    <3> HIDE DEF h
    <3> QED BY <1>u, <1>s, <3>1, <3>2, <3>3, OneMoves
  <2> QED BY <2>1, <2>2
<1>4. CASE ReadRules(p)
  <2> DEFINE c == g.payment
             h == [g EXCEPT !.at = "accounts", !.account = taught[KeyFor(c)], !.weight = CategoryWeight(c)]
  <2>1. c \in Detected
    BY <1>t, <1>4 DEF ReadRules, Equipped
  <2>2. /\ taught[KeyFor(c)] \in Accounts \cup {Unset}
        /\ CategoryWeight(c) \in {LearnedCategory, SystemCategory, OtherCategory}
    BY <2>1 DEF RulesTypes, Sources, CategoryWeight
  <2>3. CategoryWeight(c) \in Nat
    BY <2>2 DEF LearnedCategory, SystemCategory, OtherCategory
  <2>4. h \in HandType /\ Equipped(h)
    BY <1>t, <2>1, <2>2, <2>3 DEF HandType, Places, Equipped
  <2>5. hand' = [hand EXCEPT ![p] = h]
    BY <1>4 DEF RulesTypes, ReadRules
  <2>6. Applying(h)
    <3> SUFFICES ASSUME h.quiet PROVE Applying(h)
      BY Quiet
    <3>1. h.at = "accounts" /\ h.payment = c /\ h.todo = g.todo /\ h.listed = g.listed
          /\ h.reviewed = g.reviewed /\ h.lesson = g.lesson /\ h.quiet = g.quiet
          /\ h.account = taught[KeyFor(c)] /\ h.weight = CategoryWeight(c)
      BY <1>t DEF HandType
    <3>2. g.at = "rules"
      BY <1>4 DEF ReadRules
    <3>3. ASSUME NEW d \in h.listed, Due(h, d), automatic PROVE Over(d) \/ d \in h.todo \/ InHand(h, d)
      <4>1. Due(g, d)
        BY <3>1, <3>3 DEF Due
      <4>2. Over(d) \/ d \in g.todo \/ d = c
        BY <1>t, <3>1, <3>2, <3>3, <4>1 DEF Applying, InHand
      <4>3. d = c => h.account = h.lesson
        BY <1>t, <3>1, <3>3 DEF Applying, Due
      <4> HIDE DEF h
      <4> QED BY <2>2, <3>1, <4>2, <4>3 DEF InHand
    <3> HIDE DEF h
    <3> QED BY <1>t, <3>1, <3>3 DEF Applying
  <2> HIDE DEF h
  <2> QED BY <1>u, <1>s, <2>4, <2>5, <2>6, OneMoves
<1> QED BY <1>1, <1>2, <1>3, <1>4

\* What an invocation finds at the accounts for a payment the rule decides: the account of
\* the rule, and enough weight to post it.
LEMMA DueIsPostable ==
  ASSUME NEW h \in HandType, NEW p \in Hands, hand[p] = h,
         NEW d \in Detected, Due(h, d), h.lesson \in Accounts, InHand(h, d), h.at = "accounts"
  PROVE  {r \in ResolvedAccount(p, d) : PostsItself(Facts[d].confidence, r.weight, h.weight)}
           = {[account |-> h.lesson, weight |-> LearnedAccount]}
<1>1. h.account = h.lesson /\ h.lesson \in Usable(d) /\ Decided(d)
  BY DEF InHand, Due
<1>2. ResolvedAccount(p, d) = {[account |-> h.lesson, weight |-> LearnedAccount]}
  BY <1>1 DEF ResolvedAccount
<1>3. PostsItself(Facts[d].confidence, LearnedAccount, h.weight)
  BY <1>1, DecidedPosts DEF InHand
<1> QED BY <1>2, <1>3

\* The steps that post.
LEMMA PostKept ==
  ASSUME RulesTypes, RulesInv, NEW p \in Hands, ReadAccounts(p) \/ PostResolved(p)
  PROVE  RulesTypes' /\ RulesInv'
<1>g. PICK g \in HandType : g = hand[p]
  BY DEF RulesTypes
<1>c. PICK c \in Detected : c = hand[p].payment
  BY DEF RulesInv, Equipped, ReadAccounts, PostResolved
<1>t. Equipped(g) /\ Applying(g) /\ c = g.payment
  BY <1>g, <1>c DEF RulesInv
<1>u. /\ UNCHANGED <<taught, live, automatic, turns>>
      /\ turns' \in Nat
  BY DEF ReadAccounts, PostResolved, learned, settings, RulesTypes
<1>e. PICK done \in HandType :
        done = [g EXCEPT !.at = "next", !.payment = Unset, !.account = Unset, !.weight = 0]
  BY DEF HandType, Places
<1>d. /\ Equipped(done)
      /\ done.at = "next" /\ done.todo = g.todo /\ done.listed = g.listed
      /\ done.reviewed = g.reviewed /\ done.lesson = g.lesson /\ done.quiet = g.quiet
      /\ Done(p) => hand' = [hand EXCEPT ![p] = done]
  BY <1>g, <1>t, <1>e DEF HandType, Equipped, Done, RulesTypes
<1>1. CASE ReadAccounts(p)
  <2> DEFINE postable == {r \in ResolvedAccount(p, c) : PostsItself(Facts[c].confidence, r.weight, g.weight)}
  <2>s. state' = state /\ g.at = "accounts"
    BY <1>1, <1>g DEF ReadAccounts
  <2>p. ASSUME g.quiet, automatic, NEW d \in g.listed, Due(g, d), ~Over(d), d \notin g.todo
        PROVE  d = c /\ postable = {[account |-> g.lesson, weight |-> LearnedAccount]}
    <3>1. InHand(g, d) /\ g.lesson \in Accounts
      BY <1>t, <2>s, <2>p DEF Applying
    <3>2. d = c
      BY <1>t, <3>1 DEF InHand
    <3> QED BY <1>g, <1>t, <2>s, <2>p, <3>1, <3>2, DueIsPostable
  <2>1. CASE postable = {} /\ Done(p)
    <3>1. ASSUME NEW d \in done.listed, done.quiet, Due(done, d), automatic
          PROVE  Over(d) \/ d \in done.todo \/ InHand(done, d)
      <4>1. Due(g, d)
        BY <1>d, <3>1 DEF Due
      <4> QED BY <1>d, <2>1, <2>p, <3>1, <4>1
    <3>2. Applying(done)
      BY <1>t, <1>d, <2>s, <3>1 DEF Applying
    <3>3. Applying(done)'
      BY <1>d, <1>u, <2>s, <3>2, Standing DEF Over
    <3>4. \A d \in Detected : Over(d) => Over(d)'
      BY <2>s DEF Over
    <3> QED BY <1>d, <1>u, <2>1, <2>s, <3>3, <3>4, OneMoves DEF RulesTypes
  <2>2. ASSUME NEW r \in postable,
               hand' = [hand EXCEPT ![p].at = "post", ![p].account = r.account, ![p].weight = 0]
        PROVE  RulesTypes' /\ RulesInv'
    <3>1. r.account \in Accounts
      <4>1. \A k \in ResolvedAccount(p, c) : k.account \in Usable(c)
        BY DEF ResolvedAccount
      <4> QED BY <4>1 DEF Usable, RulesTypes
    <3>2. PICK h \in HandType : h = [g EXCEPT !.at = "post", !.account = r.account, !.weight = 0]
      BY <3>1 DEF HandType, Places
    <3>3. hand' = [hand EXCEPT ![p] = h]
      BY <1>g, <2>2, <3>2 DEF RulesTypes
    <3>4. /\ h.at = "post" /\ h.payment = c /\ h.todo = g.todo /\ h.listed = g.listed
          /\ h.reviewed = g.reviewed /\ h.lesson = g.lesson /\ h.quiet = g.quiet
          /\ h.account = r.account /\ Equipped(h)
      BY <1>t, <3>1, <3>2 DEF HandType, Equipped
    <3>5. ASSUME NEW d \in h.listed, h.quiet, Due(h, d), automatic
          PROVE  Over(d) \/ d \in h.todo \/ InHand(h, d)
      <4>1. Due(g, d)
        BY <3>4, <3>5 DEF Due
      <4>2. CASE Over(d) \/ d \in g.todo
        BY <3>4, <4>2
      <4>3. CASE ~Over(d) /\ d \notin g.todo
        <5>1. d = c /\ postable = {[account |-> g.lesson, weight |-> LearnedAccount]}
          BY <2>p, <3>4, <3>5, <4>1, <4>3
        <5>2. r.account = g.lesson
          BY <5>1
        <5> QED BY <3>4, <5>1, <5>2 DEF InHand
      <4> QED BY <4>2, <4>3
    <3>6. Applying(h)
      BY <1>t, <2>s, <3>4, <3>5 DEF Applying
    <3>7. Applying(h)'
      BY <1>u, <2>s, <3>6, Standing DEF Over
    <3>8. \A d \in Detected : Over(d) => Over(d)'
      BY <2>s DEF Over
    <3> QED BY <1>u, <2>s, <3>3, <3>4, <3>7, <3>8, OneMoves DEF RulesTypes
  <2> QED BY <1>1, <1>g, <1>c, <2>1, <2>2 DEF ReadAccounts
<1>2. CASE PostResolved(p)
  <2>g. g.at = "post"
    BY <1>2, <1>g DEF PostResolved
  <2>1. ASSUME \/ state[c] = "pending" /\ state' = [state EXCEPT ![c] = "accepted"]
               \/ state[c] = "accepted" /\ UNCHANGED state,
               Done(p)
        PROVE  RulesTypes' /\ RulesInv'
    <3>1. /\ state' \in [Detected -> {"new", "pending", "accepted", "rejected"}]
          /\ \A d \in Detected : Over(d) => Over(d)'
          /\ Over(c)'
      BY <1>t, <2>1 DEF RulesTypes, Over
    <3>2. ASSUME NEW d \in done.listed, done.quiet, Due(done, d), automatic
          PROVE  Over(d)' \/ d \in done.todo
      <4>1. Due(g, d)
        BY <1>d, <3>2 DEF Due
      <4>2. d \in g.listed /\ d \in Detected
        BY <1>t, <1>d, <3>2 DEF HandType
      <4>3. Over(d) \/ d \in g.todo \/ d = c
        BY <1>t, <1>d, <2>g, <3>2, <4>1, <4>2 DEF Applying, InHand
      <4> QED BY <1>d, <3>1, <4>2, <4>3
    <3>3. \A d : Due(done, d)' => Due(done, d)
      BY <1>u DEF Due, Usable, Decided
    <3>4. Applying(done)'
      BY <1>t, <1>u, <1>d, <2>g, <3>2, <3>3 DEF Applying
    <3> QED BY <1>d, <1>u, <2>1, <3>1, <3>4, OneMoves
  <2>2. CASE Leaves(p) /\ UNCHANGED state
    BY <1>u, <2>2, LeavesKept DEF RulesTypes, Over
  <2> QED BY <1>2, <1>c, <2>1, <2>2 DEF PostResolved
<1> QED BY <1>1, <1>2

\* Accounts and permissions change, and whoever applies a rule is disturbed.
LEMMA DisturbedKept ==
  ASSUME RulesTypes, RulesInv, Disturbed, UNCHANGED <<state, taught>>,
         live' \subseteq Accounts, automatic' \in BOOLEAN, turns' \in Nat
  PROVE  RulesTypes' /\ RulesInv'
<1>1. ASSUME NEW q \in Hands
      PROVE  hand'[q] \in HandType /\ Equipped(hand[q])' /\ ~hand'[q].quiet
  <2> DEFINE h == [hand[q] EXCEPT !.quiet = FALSE]
  <2>1. h \in HandType /\ Equipped(h) /\ ~h.quiet
    BY DEF RulesTypes, RulesInv, HandType, Equipped
  <2>2. hand'[q] = h
    BY DEF Disturbed
  <2> HIDE DEF h
  <2> QED BY <2>1, <2>2 DEF Equipped
<1>2. hand' \in [Hands -> HandType]
  BY <1>1 DEF Disturbed
<1> QED BY <1>1, <1>2 DEF RulesTypes, RulesInv, Applying

\* Every step keeps the invariant.
LEMMA RulesKept == RulesTypes /\ RulesInv /\ [RulesNext]_learning => RulesTypes' /\ RulesInv'
<1> SUFFICES ASSUME RulesTypes, RulesInv, [RulesNext]_learning PROVE RulesTypes' /\ RulesInv'
  OBVIOUS
<1>n. Turn => turns' \in Nat
  <2>1. turns \in Nat
    BY DEF RulesTypes
  <2> QED BY <2>1 DEF Turn
<1>1. ASSUME NEW p \in Hands, Answer(p) PROVE RulesTypes' /\ RulesInv'
  BY <1>1, LeavesKept DEF Answer, RulesTypes, Over, learned, settings
<1>2. ASSUME NEW p \in Hands, HandStops(p) PROVE RulesTypes' /\ RulesInv'
  BY <1>2, <1>n, LeavesKept DEF HandStops, RulesTypes, Over, learned
<1>3. ASSUME NEW c \in Detected, RejectReview(c) PROVE RulesTypes' /\ RulesInv'
  <2>1. /\ state' \in [Detected -> {"new", "pending", "accepted", "rejected"}]
        /\ \A d \in Detected : Over(d) => Over(d)'
    BY <1>3 DEF RejectReview, RulesTypes, Over
  <2>2. UNCHANGED <<taught, live, automatic, hand>>
    BY <1>3 DEF RejectReview, learned
  <2>3. RulesTypes'
    BY <1>3, <1>n, <2>1, <2>2 DEF RejectReview, RulesTypes
  <2>4. ASSUME NEW q \in Hands PROVE Equipped(hand[q])' /\ Applying(hand[q])'
    <3>1. PICK h \in HandType : h = hand[q] /\ h = hand'[q]
      BY <2>2 DEF RulesTypes
    <3>2. Equipped(h) /\ Applying(h)'
      BY <2>1, <2>2, <3>1, Standing DEF RulesInv
    <3> QED BY <3>1, <3>2 DEF Equipped, Applying, Due, InHand
  <2> QED BY <2>3, <2>4 DEF RulesInv
<1>4. ASSUME NEW a \in Accounts, AccountChanges(a) PROVE RulesTypes' /\ RulesInv'
  <2>1. live' \subseteq Accounts
    BY <1>4 DEF AccountChanges, RulesTypes
  <2> QED BY <1>4, <1>n, <2>1, DisturbedKept DEF AccountChanges, RulesTypes, learned
<1>5. CASE PermissionChanges
  BY <1>5, <1>n, DisturbedKept DEF PermissionChanges, RulesTypes, learned
<1>6. CASE UNCHANGED learning
  BY <1>6 DEF RulesTypes, RulesInv, Equipped, Applying, Due, InHand, Usable, Over, learning, learned, settings
<1> QED BY <1>1, <1>2, <1>3, <1>4, <1>5, <1>6, ReviewKept, TeachKept, TakeKept, PostKept DEF RulesNext

\* A lesson is applied to every pending payment it decides, for any payments, accounts and
\* number of invocations (LearnedApplies).
THEOREM RulesLearn == RulesSpec => []LearnedApplies
<1>1. RulesTypes /\ RulesInv => LearnedApplies
  <2> SUFFICES ASSUME RulesTypes, RulesInv, NEW p \in Hands,
                      hand[p].at = "answered", hand[p].quiet, automatic,
                      NEW d \in hand[p].listed,
                      KeyFor(d) = KeyFor(hand[p].reviewed), hand[p].lesson \in Usable(d), Decided(d)
               PROVE  state[d] # "pending"
    BY DEF LearnedApplies
  <2>1. hand[p].todo = {}
    BY DEF RulesInv, Equipped
  <2>2. Over(d)
    BY <2>1 DEF RulesInv, Applying, Due, InHand
  <2> QED BY <2>2 DEF Over
<1> QED BY <1>1, RulesStarts, RulesKept, PTL DEF RulesSpec

(***************************************************************************)
(* The advisor's plan.                                                     *)
(***************************************************************************)
\* What an induction along a loop shows of its last value.
LEMMA LoopEnds ==
  ASSUME NEW V, NEW base \in V, NEW n \in Nat, NEW step, NEW f, Loops(f, V, base, step, n),
         NEW G, <<0, base>> \in G,
         \A k \in 1..n, v \in V : <<k - 1, v>> \in G => <<k, step[<<v, k>>]>> \in G
  PROVE  <<n, f[n]>> \in G
<1> DEFINE T == {m \in Nat : m <= n => <<m, f[m]>> \in G}
<1>1. 0 \in T
  BY DEF Loops
<1>2. ASSUME NEW m \in Nat, m \in T PROVE m + 1 \in T
  <2> SUFFICES ASSUME m + 1 <= n PROVE <<m + 1, f[m + 1]>> \in G
    OBVIOUS
  <2>1. <<m, f[m]>> \in G /\ f[m] \in V /\ m + 1 \in 1..n /\ (m + 1) - 1 = m
    BY <1>2 DEF Loops
  <2>2. f[m + 1] = step[<<f[m], m + 1>>]
    BY <2>1 DEF Loops
  <2> QED BY <2>1, <2>2
<1>3. n \in T
  <2> HIDE DEF T
  <2> QED BY <1>1, <1>2, Induction
<1> QED BY <1>3

LineType == [bucket : Buckets, amount : Nat]

\* What a line adds to the amount of some buckets
Share(l, buckets) == IF l.bucket \in buckets THEN l.amount ELSE 0

\* The amount of some buckets in a list of lines, line by line.
LEMMA AmountWorks ==
  ASSUME NEW lines \in Seq(LineType), NEW buckets
  PROVE  \E f : /\ f \in [0..Len(lines) -> Nat] /\ f[0] = 0
                /\ \A k \in 1..Len(lines) : f[k] = f[k - 1] + Share(lines[k], buckets)
                /\ AmountIn(lines, buckets) = f[Len(lines)]
<1> DEFINE n == Len(lines)
           step == [x \in Nat \X (1..n) |-> x[1] + Share(lines[x[2]], buckets)]
           F(f) == [k \in 0..n |-> IF k = 0 THEN 0 ELSE IF lines[k].bucket \in buckets
                                                     THEN f[k - 1] + lines[k].amount ELSE f[k - 1]]
           chosen == CHOOSE f : f = F(f)
<1>1. n \in Nat /\ \A k \in 1..n : lines[k] \in LineType
  OBVIOUS
<1>2. step \in [Nat \X (1..n) -> Nat]
  <2>1. \A k \in 1..n : Share(lines[k], buckets) \in Nat
    BY <1>1 DEF Share, LineType
  <2> QED BY <2>1
<1>3. PICK f : Loops(f, Nat, 0, step, n)
  <2> HIDE DEF step, n
  <2> QED BY <1>1, <1>2, LoopExists
<1>4. ASSUME NEW g, g = F(g) PROVE DOMAIN g = 0..n /\ g[0] = 0 /\ \A k \in 1..n : g[k] = F(g)[k]
  <2>1. DOMAIN F(g) = 0..n /\ F(g)[0] = 0
    OBVIOUS
  <2>2. g[0] = F(g)[0] /\ DOMAIN g = DOMAIN F(g) /\ \A k \in 1..n : g[k] = F(g)[k]
    <3> HIDE DEF F
    <3> QED BY <1>4
  <2> QED BY <2>1, <2>2
<1>5. f = F(f)
  <2>1. ASSUME NEW k \in 1..n PROVE f[k] = F(f)[k]
    <3>1. f[k] = step[<<f[k - 1], k>>] /\ f[k - 1] \in Nat
      <4>1. k - 1 \in 0..n
        BY <1>1
      <4> HIDE DEF step, n, F
      <4> QED BY <1>3, <4>1 DEF Loops
    <3>2. f[k] = f[k - 1] + Share(lines[k], buckets)
      BY <3>1
    <3>3. F(f)[k] = IF lines[k].bucket \in buckets THEN f[k - 1] + lines[k].amount ELSE f[k - 1]
      BY <1>1
    <3> HIDE DEF F, step
    <3> QED BY <3>1, <3>2, <3>3 DEF Share
  <2>2. f \in [0..n -> Nat] /\ f[0] = 0
    BY <1>3 DEF Loops
  <2>3. F(f)[0] = 0 /\ DOMAIN F(f) = 0..n /\ F(f) = [k \in 0..n |-> F(f)[k]]
    BY <1>1
  <2>4. \A k \in 0..n : k = 0 \/ k \in 1..n
    BY <1>1
  <2> HIDE DEF F, n
  <2> QED BY <2>1, <2>2, <2>3, <2>4
<1>6. chosen = F(chosen)
  <2> HIDE DEF F
  <2> QED BY <1>5
<1>7. AmountIn(lines, buckets) = chosen[n]
  BY DEF AmountIn, Running
<1> HIDE DEF chosen
<1>8. ASSUME NEW k \in 1..n, chosen[k - 1] \in Nat
      PROVE  chosen[k] = chosen[k - 1] + Share(lines[k], buckets) /\ chosen[k] \in Nat
  <2>1. F(chosen)[k] = IF lines[k].bucket \in buckets THEN chosen[k - 1] + lines[k].amount ELSE chosen[k - 1]
    BY <1>1
  <2>2. lines[k].amount \in Nat
    BY <1>1 DEF LineType
  <2>3. chosen[k] = F(chosen)[k]
    <3> HIDE DEF F
    <3> QED BY <1>6, <1>4
  <2> HIDE DEF F
  <2> QED BY <1>8, <2>1, <2>2, <2>3 DEF Share
<1>9. \A k \in 0..n : chosen[k] \in Nat
  <2> DEFINE T == {k \in Nat : k <= n => chosen[k] \in Nat}
  <2>1. 0 \in T
    <3>1. chosen[0] = 0
      <4> HIDE DEF F
      <4> QED BY <1>6, <1>4
    <3> QED BY <3>1
  <2>2. ASSUME NEW k \in Nat, k \in T PROVE k + 1 \in T
    <3> SUFFICES ASSUME k + 1 <= n PROVE chosen[k + 1] \in Nat
      OBVIOUS
    <3>1. k + 1 \in 1..n /\ (k + 1) - 1 = k /\ chosen[k] \in Nat
      BY <1>1, <2>2
    <3> QED BY <3>1, <1>8
  <2>3. Nat \subseteq T
    <3> HIDE DEF T
    <3> QED BY <2>1, <2>2, Induction
  <2> QED BY <2>3, <1>1
<1>10. chosen[0] = 0 /\ DOMAIN chosen = 0..n
  <2> HIDE DEF F
  <2> QED BY <1>6, <1>4
<1>11. chosen = [k \in 0..n |-> chosen[k]]
  <2>1. F(chosen) = [k \in 0..n |-> F(chosen)[k]]
    OBVIOUS
  <2> HIDE DEF F, n
  <2> QED BY <1>6, <2>1
<1>12. chosen \in [0..n -> Nat]
  <2> HIDE DEF n
  <2> QED BY <1>9, <1>11
<1>13. \A k \in 1..n : chosen[k] = chosen[k - 1] + Share(lines[k], buckets)
  <2>1. \A k \in 1..n : chosen[k - 1] \in Nat
    BY <1>9, <1>1
  <2> QED BY <1>8, <2>1
<1> HIDE DEF F, step
<1> QED BY <1>7, <1>10, <1>12, <1>13

\* Nothing is in an empty list,
LEMMA AmountOfNothing == ASSUME NEW buckets PROVE AmountIn(<<>>, buckets) = 0
<1>1. <<>> \in Seq(LineType) /\ Len(<<>>) = 0
  OBVIOUS
<1> QED BY <1>1, AmountWorks

\* and a line adds what it gives to the bucket.
LEMMA AmountGrows ==
  ASSUME NEW lines \in Seq(LineType), NEW l \in LineType, NEW buckets
  PROVE  /\ AmountIn(lines, buckets) \in Nat
         /\ AmountIn(Append(lines, l), buckets) = AmountIn(lines, buckets) + Share(l, buckets)
<1> DEFINE n == Len(lines)
           more == Append(lines, l)
<1>1. n \in Nat /\ more \in Seq(LineType) /\ Len(more) = n + 1 /\ more[n + 1] = l
  OBVIOUS
<1>2. \A k \in 1..n : more[k] = lines[k]
  OBVIOUS
<1> HIDE DEF more
<1>3. PICK f : /\ f \in [0..n -> Nat] /\ f[0] = 0
               /\ \A k \in 1..n : f[k] = f[k - 1] + Share(lines[k], buckets)
               /\ AmountIn(lines, buckets) = f[n]
  BY AmountWorks
<1> HIDE DEF n
<1>4. PICK g : /\ g \in [0..(n + 1) -> Nat] /\ g[0] = 0
               /\ \A k \in 1..(n + 1) : g[k] = g[k - 1] + Share(more[k], buckets)
               /\ AmountIn(more, buckets) = g[n + 1]
  <2>1. PICK g : /\ g \in [0..Len(more) -> Nat] /\ g[0] = 0
                 /\ \A k \in 1..Len(more) : g[k] = g[k - 1] + Share(more[k], buckets)
                 /\ AmountIn(more, buckets) = g[Len(more)]
    BY <1>1, AmountWorks
  <2> QED BY <1>1, <2>1
<1> DEFINE T == {k \in Nat : k <= n => f[k] = g[k]}
<1>5. 0 \in T
  BY <1>3, <1>4
<1>6. ASSUME NEW k \in Nat, k \in T PROVE k + 1 \in T
  <2> SUFFICES ASSUME k + 1 <= n PROVE f[k + 1] = g[k + 1]
    OBVIOUS
  <2>1. k + 1 \in 1..n /\ k + 1 \in 1..(n + 1) /\ (k + 1) - 1 = k /\ f[k] = g[k]
    BY <1>1, <1>6
  <2>2. f[k + 1] = f[k] + Share(lines[k + 1], buckets)
    BY <1>3, <2>1
  <2>3. g[k + 1] = g[k] + Share(more[k + 1], buckets)
    BY <1>4, <2>1
  <2> QED BY <1>2, <2>1, <2>2, <2>3
<1>7. f[n] = g[n]
  <2>1. Nat \subseteq T
    <3> HIDE DEF T
    <3> QED BY <1>5, <1>6, Induction
  <2> QED BY <1>1, <2>1
<1>8. g[n + 1] = g[n] + Share(l, buckets)
  <2>1. n + 1 \in 1..(n + 1) /\ (n + 1) - 1 = n
    BY <1>1
  <2> QED BY <1>1, <1>4, <2>1
<1>9. f[n] \in Nat
  BY <1>1, <1>3
<1> QED BY <1>3, <1>4, <1>7, <1>8, <1>9 DEF more

(***************************************************************************)
(* What each request gets.                                                 *)
(***************************************************************************)
\* A list of requests is in order if no two are for one bucket.
Orderly(wanted) ==
  /\ wanted \in Seq(LineType)
  /\ \A i, j \in 1..Len(wanted) : wanted[i].bucket = wanted[j].bucket => i = j

\* The i-th request got all it asked for.
Full(m, wanted, i) == AmountOf(m.lines, wanted[i].bucket) = wanted[i].amount

\* What holds of the money and the lines when k requests were served: they add up to what
\* there was; while there is money each of them is full, and asked for no more than is gone; and
\* a line is for one of them, and all before it are full.
ServedSoFar(gross, wanted, k, m) ==
  /\ m.left \in Nat /\ m.lines \in Seq(LineType)
  /\ m.left + Total(m.lines) = gross
  /\ m.left > 0 => \A i \in 1..k : Full(m, wanted, i) /\ wanted[i].amount + m.left <= gross
  /\ \A i \in 1..Len(wanted) : i > k => AmountOf(m.lines, wanted[i].bucket) = 0
  /\ \A l \in 1..Len(m.lines) :
       \E j \in 1..k : m.lines[l].bucket = wanted[j].bucket /\ \A i \in 1..(j - 1) : Full(m, wanted, i)

Money == [left : Nat, lines : Seq(LineType)]

\* A request is given what there is, and has a line if it is given anything.
LEMMA AllocateGives ==
  ASSUME NEW m \in Money, NEW r \in LineType
  PROVE  \E n \in Nat :
           /\ n <= r.amount /\ n <= m.left /\ (n = r.amount \/ n = m.left)
           /\ Allocate(m, r) = [left |-> m.left - n,
                                lines |-> IF n > 0 THEN Append(m.lines, Request(r.bucket, n)) ELSE m.lines]
<1>1. m.left \in Nat /\ r.amount \in Nat
  BY DEF Money, LineType
<1> DEFINE n == AtLeast0(IF m.left < r.amount THEN m.left ELSE r.amount)
<1>2. n \in Nat /\ n <= r.amount /\ n <= m.left /\ (n = r.amount \/ n = m.left)
  BY <1>1 DEF AtLeast0
<1>3. Allocate(m, r) = [left |-> m.left - n, lines |-> IF n > 0 THEN Append(m.lines, Request(r.bucket, n)) ELSE m.lines]
  BY DEF Allocate
<1> HIDE DEF n
<1> QED BY <1>2, <1>3

LEMMA AllocateTyped ==
  ASSUME NEW m \in Money, NEW r \in LineType
  PROVE  Allocate(m, r) \in Money
<1>1. PICK n \in Nat :
         /\ n <= r.amount /\ n <= m.left /\ (n = r.amount \/ n = m.left)
         /\ Allocate(m, r) = [left |-> m.left - n,
                              lines |-> IF n > 0 THEN Append(m.lines, Request(r.bucket, n)) ELSE m.lines]
  BY AllocateGives
<1>2. m.left - n \in Nat /\ Request(r.bucket, n) \in LineType /\ m.lines \in Seq(LineType)
  BY <1>1 DEF Money, LineType, Request
<1>3. Append(m.lines, Request(r.bucket, n)) \in Seq(LineType)
  BY <1>2
<1> QED BY <1>1, <1>2, <1>3 DEF Money

\* The step of the waterfall.
LEMMA AllocateServes ==
  ASSUME NEW gross \in Nat, NEW wanted, Orderly(wanted), NEW k \in 1..Len(wanted),
         NEW m \in Money, ServedSoFar(gross, wanted, k - 1, m)
  PROVE  ServedSoFar(gross, wanted, k, Allocate(m, wanted[k]))
<1> DEFINE N == Len(wanted)
           r == wanted[k]
           new == Allocate(m, r)
<1>1. N \in Nat /\ k \in Nat /\ \A i \in 1..N : wanted[i] \in LineType /\ wanted[i].bucket \in Buckets /\ wanted[i].amount \in Nat
  <2>1. wanted \in Seq(LineType)
    BY DEF Orderly
  <2>2. N \in Nat /\ k \in Nat /\ \A i \in 1..N : wanted[i] \in LineType
    BY <2>1
  <2>3. \A x \in LineType : x.bucket \in Buckets /\ x.amount \in Nat
    BY DEF LineType
  <2> QED BY <2>2, <2>3
<1>2. r \in LineType /\ r.bucket \in Buckets /\ r.amount \in Nat
  BY <1>1
<1> HIDE DEF r
<1>3. PICK n \in Nat :
         /\ n <= r.amount /\ n <= m.left /\ (n = r.amount \/ n = m.left)
         /\ new = [left |-> m.left - n,
                   lines |-> IF n > 0 THEN Append(m.lines, Request(r.bucket, n)) ELSE m.lines]
  BY <1>2, AllocateGives
<1>4. new \in Money
  BY <1>2, AllocateTyped
<1> DEFINE l == Request(r.bucket, n)
<1>5. l \in LineType /\ l.bucket = r.bucket /\ l.amount = n
  BY <1>2 DEF Request, LineType
<1> HIDE DEF l, new
<1>6. m.left \in Nat /\ m.lines \in Seq(LineType) /\ new.left \in Nat /\ new.lines \in Seq(LineType)
  BY <1>4 DEF Money
<1>7. new.left = m.left - n /\ new.lines = IF n > 0 THEN Append(m.lines, l) ELSE m.lines
  BY <1>3 DEF l
<1>8. \A b : AmountIn(m.lines, b) \in Nat /\ AmountIn(new.lines, b) = AmountIn(m.lines, b) + IF r.bucket \in b THEN n ELSE 0
  <2> TAKE b
  <2>1. AmountIn(m.lines, b) \in Nat /\ AmountIn(Append(m.lines, l), b) = AmountIn(m.lines, b) + Share(l, b)
    BY <1>5, <1>6, AmountGrows
  <2>2. Share(l, b) = IF r.bucket \in b THEN n ELSE 0
    BY <1>5 DEF Share
  <2> QED BY <1>3, <1>7, <2>1, <2>2
<1>9. Total(new.lines) = Total(m.lines) + n /\ Total(m.lines) \in Nat
  BY <1>2, <1>8 DEF Total
<1>10. \A i \in 1..N : AmountOf(new.lines, wanted[i].bucket) = AmountOf(m.lines, wanted[i].bucket) + IF i = k THEN n ELSE 0
  <2> TAKE i \in 1..N
  <2>1. r.bucket \in {wanted[i].bucket} <=> i = k
    BY DEF Orderly, r
  <2>2. AmountIn(m.lines, {wanted[i].bucket}) \in Nat
    BY <1>8
  <2> QED BY <1>8, <2>1, <2>2 DEF AmountOf
<1>11. AmountOf(m.lines, r.bucket) = 0
  <2>1. k > k - 1
    BY <1>1
  <2> QED BY <2>1 DEF ServedSoFar, r
<1>12. AmountOf(new.lines, r.bucket) = n
  <2>1. AmountOf(new.lines, r.bucket) = AmountOf(m.lines, r.bucket) + n
    BY <1>10 DEF r
  <2> QED BY <1>11, <2>1
<1>13. \A i \in 1..N : i # k => (Full(m, wanted, i) <=> Full(new, wanted, i))
  <2>1. \A i \in 1..N : AmountOf(m.lines, wanted[i].bucket) \in Nat
    BY <1>8 DEF AmountOf
  <2>2. \A i \in 1..N : i # k => AmountOf(new.lines, wanted[i].bucket) = AmountOf(m.lines, wanted[i].bucket)
    BY <1>10, <2>1
  <2> QED BY <2>2 DEF Full
<1>14. new.left + Total(new.lines) = gross
  <2>1. m.left + Total(m.lines) = gross
    BY DEF ServedSoFar
  <2> QED BY <1>3, <1>6, <1>7, <1>9, <2>1
<1>15. ASSUME new.left > 0, NEW i \in 1..k PROVE Full(new, wanted, i) /\ wanted[i].amount + new.left <= gross
  <2>1. m.left > 0 /\ n = r.amount /\ new.left <= m.left
    BY <1>2, <1>3, <1>6, <1>7, <1>15
  <2>2. CASE i = k
    <3>1. r.amount + new.left <= gross
      BY <1>2, <1>3, <1>6, <1>7, <1>9, <1>14, <2>1
    <3> QED BY <1>12, <2>1, <2>2, <3>1 DEF Full, r
  <2>3. CASE i # k
    <3>1. i \in 1..(k - 1) /\ i \in 1..N
      BY <1>1, <2>3
    <3>2. Full(m, wanted, i) /\ wanted[i].amount + m.left <= gross
      BY <2>1, <3>1 DEF ServedSoFar
    <3>3. wanted[i].amount + new.left <= gross
      BY <1>1, <1>6, <2>1, <3>1, <3>2
    <3> QED BY <1>13, <2>3, <3>1, <3>2, <3>3
  <2> QED BY <2>2, <2>3
<1>16. ASSUME NEW i \in 1..N, i > k PROVE AmountOf(new.lines, wanted[i].bucket) = 0
  <2>1. i # k /\ i > k - 1
    BY <1>1, <1>16
  <2>2. AmountOf(m.lines, wanted[i].bucket) = 0
    BY <2>1 DEF ServedSoFar
  <2> QED BY <1>10, <2>1, <2>2
<1>17. ASSUME NEW x \in 1..Len(new.lines)
       PROVE  \E j \in 1..k : new.lines[x].bucket = wanted[j].bucket /\ \A i \in 1..(j - 1) : Full(new, wanted, i)
  <2>1. Len(m.lines) \in Nat
    BY <1>6
  <2>2. CASE x \in 1..Len(m.lines)
    <3>1. PICK j \in 1..(k - 1) : m.lines[x].bucket = wanted[j].bucket /\ \A i \in 1..(j - 1) : Full(m, wanted, i)
      BY <2>2 DEF ServedSoFar
    <3>2. new.lines[x] = m.lines[x]
      BY <1>5, <1>6, <1>7, <2>2
    <3>3. j \in 1..k /\ \A i \in 1..(j - 1) : i \in 1..N /\ i # k
      BY <1>1
    <3> QED BY <1>13, <3>1, <3>2, <3>3
  <2>3. CASE x \notin 1..Len(m.lines)
    <3>1. n > 0 /\ x = Len(m.lines) + 1 /\ new.lines[x] = l
      BY <1>5, <1>6, <1>7, <2>1, <2>3
    <3>2. m.left > 0
      BY <1>3, <1>6, <3>1
    <3>3. \A i \in 1..(k - 1) : i \in 1..N /\ i # k /\ Full(m, wanted, i)
      BY <1>1, <3>2 DEF ServedSoFar
    <3>4. k \in 1..k
      BY <1>1
    <3> QED BY <1>5, <1>13, <3>1, <3>3, <3>4 DEF r
  <2> QED BY <2>2, <2>3
<1>18. ServedSoFar(gross, wanted, k, new)
  BY <1>6, <1>14, <1>15, <1>16, <1>17 DEF ServedSoFar
<1> QED BY <1>18 DEF new, r

\* So the lines of all requests are such.
LEMMA AllocationsServe ==
  ASSUME NEW gross \in Nat, NEW wanted, Orderly(wanted)
  PROVE  Allocations(gross, wanted) \in Money /\ ServedSoFar(gross, wanted, Len(wanted), Allocations(gross, wanted))
<1> DEFINE n == Len(wanted)
           base == [left |-> gross, lines |-> <<>>]
           step == [x \in Money \X (1..n) |-> Allocate(x[1], wanted[x[2]])]
           F(f) == [k \in 0..n |-> IF k = 0 THEN base ELSE Allocate(f[k - 1], wanted[k])]
           chosen == CHOOSE f : f = F(f)
<1>1. n \in Nat /\ \A k \in 1..n : wanted[k] \in LineType
  BY DEF Orderly
<1>2. base \in Money /\ step \in [Money \X (1..n) -> Money]
  <2>1. base \in Money
    BY DEF Money
  <2>2. \A m \in Money, k \in 1..n : Allocate(m, wanted[k]) \in Money
    BY <1>1, AllocateTyped
  <2>3. \A x \in Money \X (1..n) : Allocate(x[1], wanted[x[2]]) \in Money
    BY <2>2
  <2> HIDE DEF n, base
  <2> QED BY <2>1, <2>3
<1>3. PICK f : Loops(f, Money, base, step, n)
  <2> HIDE DEF step, n, base
  <2> QED BY <1>1, <1>2, LoopExists
<1>4. f = F(f)
  <2>1. ASSUME NEW k \in 1..n PROVE f[k] = F(f)[k]
    <3>1. f[k] = step[<<f[k - 1], k>>] /\ f[k - 1] \in Money
      <4>1. k - 1 \in 0..n
        BY <1>1
      <4> HIDE DEF step, n, F, base
      <4> QED BY <1>3, <4>1 DEF Loops
    <3>2. f[k] = Allocate(f[k - 1], wanted[k])
      BY <3>1
    <3>3. F(f)[k] = Allocate(f[k - 1], wanted[k])
      BY <1>1
    <3> QED BY <3>2, <3>3, Zenon
  <2>2. f \in [0..n -> Money] /\ f[0] = base
    BY <1>3 DEF Loops
  <2>3. F(f)[0] = base /\ DOMAIN F(f) = 0..n /\ F(f) = [k \in 0..n |-> F(f)[k]]
    BY <1>1
  <2>4. \A k \in 0..n : k = 0 \/ k \in 1..n
    BY <1>1
  <2> HIDE DEF F, n, base
  <2> QED BY <2>1, <2>2, <2>3, <2>4
<1>5. chosen = F(chosen)
  <2> HIDE DEF F
  <2> QED BY <1>4
<1>6. Allocations(gross, wanted) = chosen[n]
  BY DEF Allocations, Running
<1> HIDE DEF chosen
<1>7. chosen[0] = base /\ \A k \in 1..n : chosen[k] = Allocate(chosen[k - 1], wanted[k])
  <2>1. F(chosen)[0] = base /\ \A k \in 1..n : F(chosen)[k] = Allocate(chosen[k - 1], wanted[k])
    BY <1>1
  <2>2. chosen[0] = F(chosen)[0] /\ \A k \in 1..n : chosen[k] = F(chosen)[k]
    <3> HIDE DEF F
    <3> QED BY <1>5, Zenon
  <2> HIDE DEF F
  <2> QED BY <2>1, <2>2, Zenon
<1> DEFINE Good(k) == chosen[k] \in Money /\ ServedSoFar(gross, wanted, k, chosen[k])
           T == {k \in Nat : k <= n => Good(k)}
<1>8. Good(0)
  <2>1. base.left = gross /\ base.lines = <<>>
    OBVIOUS
  <2>2. Total(base.lines) = 0 /\ \A b : AmountOf(base.lines, b) = 0
    BY <2>1, AmountOfNothing DEF Total, AmountOf
  <2>3. base.lines \in Seq(LineType) /\ Len(base.lines) = 0
    BY <2>1
  <2> HIDE DEF base
  <2>4. ServedSoFar(gross, wanted, 0, base)
    BY <2>1, <2>2, <2>3 DEF ServedSoFar
  <2> QED BY <1>2, <1>7, <2>4
<1>9. ASSUME NEW k \in Nat, k \in T PROVE k + 1 \in T
  <2> SUFFICES ASSUME k + 1 <= n PROVE Good(k + 1)
    OBVIOUS
  <2>1. Good(k) /\ k + 1 \in 1..n /\ (k + 1) - 1 = k
    BY <1>1, <1>9
  <2>2. chosen[k + 1] = Allocate(chosen[k], wanted[k + 1])
    BY <1>7, <2>1
  <2>3. chosen[k + 1] \in Money
    BY <1>1, <2>1, <2>2, AllocateTyped
  <2>4. ServedSoFar(gross, wanted, (k + 1) - 1, chosen[k])
    BY <2>1
  <2>5. ServedSoFar(gross, wanted, k + 1, chosen[k + 1])
    BY <2>1, <2>2, <2>4, AllocateServes
  <2> QED BY <2>3, <2>5
<1>10. Good(n)
  <2>1. 0 \in T
    BY <1>8
  <2>2. Nat \subseteq T
    <3> HIDE DEF T
    <3> QED BY <1>9, <2>1, Induction
  <2> HIDE DEF Good
  <2> QED BY <1>1, <2>2
<1> QED BY <1>6, <1>10

(***************************************************************************)
(* The order of the goals.                                                 *)
(***************************************************************************)
Rank(list, S, i) == Cardinality({j \in S : Precedes(list, j, i)}) + 1

\* One of two goals precedes the other, and none itself.
LEMMA PrecedesOrders ==
  ASSUME NEW list \in Seq(UserGoal)
  PROVE  /\ \A i \in DOMAIN list : ~Precedes(list, i, i)
         /\ \A i, j \in DOMAIN list : i = j \/ Precedes(list, i, j) \/ Precedes(list, j, i)
         /\ \A i, j, k \in DOMAIN list : Precedes(list, i, j) /\ Precedes(list, j, k) => Precedes(list, i, k)
         /\ \A i, j \in DOMAIN list : Before(list[i], list[j]) => Precedes(list, i, j)
<1>1. \A i \in DOMAIN list : i \in Nat /\ list[i].priority \in Nat /\ list[i].date \in Nat
  <2>1. \A i \in DOMAIN list : i \in Nat /\ list[i] \in UserGoal
    OBVIOUS
  <2>2. \A g \in UserGoal : g.priority \in Nat /\ g.date \in Nat
    BY DEF UserGoal
  <2> QED BY <2>1, <2>2
<1>2. \A i \in DOMAIN list : ~Precedes(list, i, i)
  BY <1>1 DEF Precedes, Before
<1>3. \A i, j \in DOMAIN list : i = j \/ Precedes(list, i, j) \/ Precedes(list, j, i)
  BY <1>1 DEF Precedes
<1>4. ASSUME NEW i \in DOMAIN list, NEW j \in DOMAIN list, NEW k \in DOMAIN list,
             Precedes(list, i, j), Precedes(list, j, k)
      PROVE  Precedes(list, i, k)
  <2> DEFINE a == list[i]
             b == list[j]
             c == list[k]
  <2>1. /\ Before(a, b) \/ (~Before(b, a) /\ i < j)
        /\ Before(b, c) \/ (~Before(c, b) /\ j < k)
    BY <1>4 DEF Precedes
  <2>2. /\ a.priority \in Nat /\ b.priority \in Nat /\ c.priority \in Nat
        /\ a.date \in Nat /\ b.date \in Nat /\ c.date \in Nat
        /\ i \in Nat /\ j \in Nat /\ k \in Nat
    BY <1>1
  <2> HIDE DEF a, b, c
  <2>3. Before(a, c) \/ (~Before(c, a) /\ i < k)
    BY <2>1, <2>2 DEF Before
  <2> QED BY <2>3 DEF Precedes, a, b, c
<1>5. \A i, j \in DOMAIN list : Before(list[i], list[j]) => Precedes(list, i, j)
  BY DEF Precedes
<1> QED BY <1>2, <1>3, <1>4, <1>5

\* So each goal has a rank of its own, and each rank a goal.
LEMMA RanksMatch ==
  ASSUME NEW list \in Seq(UserGoal), NEW S \in SUBSET DOMAIN list
  PROVE  /\ Cardinality(S) \in Nat
         /\ \A i \in S : Rank(list, S, i) \in 1..Cardinality(S)
         /\ \A i, j \in S : Precedes(list, i, j) => Rank(list, S, i) < Rank(list, S, j)
         /\ \A k \in 1..Cardinality(S) : \E i \in S : Rank(list, S, i) = k
         /\ \A i, j \in S : Rank(list, S, i) = Rank(list, S, j) => i = j
<1> DEFINE First(i) == {j \in S : Precedes(list, j, i)}
           n == Cardinality(S)
<1>1. IsFiniteSet(S) /\ n \in Nat
  <2>1. Len(list) \in Nat /\ DOMAIN list = 1..Len(list)
    OBVIOUS
  <2>2. IsFiniteSet(1..Len(list))
    BY <2>1, FS_Interval
  <2>3. IsFiniteSet(S)
    BY <2>1, <2>2, FS_Subset
  <2> QED BY <2>3, FS_CardinalityType
<1>2. ASSUME NEW i \in S
      PROVE  IsFiniteSet(First(i)) /\ Cardinality(First(i)) \in Nat /\ Rank(list, S, i) \in 1..n
  <2>1. First(i) \in SUBSET (S \ {i})
    BY PrecedesOrders
  <2>2. IsFiniteSet(S \ {i}) /\ Cardinality(S \ {i}) = n - 1
    BY <1>1, FS_RemoveElement
  <2> HIDE DEF First
  <2>3. IsFiniteSet(First(i)) /\ Cardinality(First(i)) <= n - 1
    BY <2>1, <2>2, FS_Subset
  <2>4. Cardinality(First(i)) \in Nat
    BY <2>3, FS_CardinalityType
  <2>5. Rank(list, S, i) = Cardinality(First(i)) + 1
    BY DEF Rank, First
  <2> QED BY <1>1, <2>3, <2>4, <2>5
<1>3. ASSUME NEW i \in S, NEW j \in S, Precedes(list, i, j)
      PROVE  Rank(list, S, i) < Rank(list, S, j)
  <2>1. First(i) \cup {i} \in SUBSET First(j)
    BY <1>3, PrecedesOrders
  <2>2. i \notin First(i)
    BY PrecedesOrders
  <2>3. Rank(list, S, i) = Cardinality(First(i)) + 1 /\ Rank(list, S, j) = Cardinality(First(j)) + 1
    BY DEF Rank
  <2> HIDE DEF First
  <2>4. Cardinality(First(i) \cup {i}) = Cardinality(First(i)) + 1
    BY <1>2, <2>2, FS_AddElement
  <2>5. Cardinality(First(i) \cup {i}) <= Cardinality(First(j))
    BY <1>2, <2>1, FS_Subset
  <2>6. Cardinality(First(i)) \in Nat /\ Cardinality(First(j)) \in Nat
    BY <1>2
  <2> QED BY <2>3, <2>4, <2>5, <2>6
<1>4. ASSUME NEW i \in S, NEW j \in S, Rank(list, S, i) = Rank(list, S, j)
      PROVE  i = j
  <2>1. Rank(list, S, i) \in 1..n
    BY <1>2
  <2>2. ~Precedes(list, i, j) /\ ~Precedes(list, j, i)
    BY <1>3, <1>4, <2>1
  <2> QED BY <2>2, PrecedesOrders
<1>5. ASSUME NEW k \in 1..n PROVE \E i \in S : Rank(list, S, i) = k
  <2> DEFINE f == [i \in S |-> Rank(list, S, i)]
  <2>1. f \in [S -> 1..n]
    BY <1>2
  <2>2. \A i, j \in S : f[i] = f[j] => i = j
    BY <1>4
  <2> HIDE DEF f
  <2>3. f \in Injection(S, 1..n)
    BY <2>1, <2>2 DEF Injection, IsInjective
  <2>4. IsFiniteSet(1..n) /\ Cardinality(1..n) = n
    <3>1. n = 0 \/ n >= 1
      BY <1>1
    <3> QED BY <1>1, <3>1, FS_Interval
  <2>5. f \in Surjection(S, 1..n)
    BY <2>3, <2>4, FS_Injection
  <2>6. \E i \in S : f[i] = k
    BY <2>5 DEF Surjection
  <2> QED BY <2>6 DEF f
<1> QED BY <1>1, <1>2, <1>3, <1>4, <1>5

\* The sorted list has each goal at its rank.
LEMMA SortedByRank ==
  ASSUME NEW list \in Seq(UserGoal), NEW S \in SUBSET DOMAIN list
  PROVE  /\ SortGoals(list, S) \in Seq(UserGoal) /\ Len(SortGoals(list, S)) = Cardinality(S)
         /\ \A k \in 1..Cardinality(S) : \E i \in S : Rank(list, S, i) = k /\ SortGoals(list, S)[k] = list[i]
         /\ \A i \in S : SortGoals(list, S)[Rank(list, S, i)] = list[i]
<1> DEFINE n == Cardinality(S)
           place(k) == CHOOSE i \in S : Rank(list, S, i) = k
           sorted == [k \in 1..n |-> list[place(k)]]
<1>1. n \in Nat
  BY RanksMatch
<1>2. SortGoals(list, S) = sorted
  BY DEF SortGoals, Rank
<1>3. ASSUME NEW k \in 1..n PROVE place(k) \in S /\ Rank(list, S, place(k)) = k
  BY RanksMatch
<1>4. \A i \in S : list[i] \in UserGoal
  OBVIOUS
<1>5. ASSUME NEW k \in 1..n PROVE sorted[k] \in UserGoal /\ \E i \in S : Rank(list, S, i) = k /\ sorted[k] = list[i]
  <2>1. sorted[k] = list[place(k)]
    OBVIOUS
  <2> HIDE DEF place, sorted
  <2> QED BY <1>3, <1>4, <2>1
<1>6. ASSUME NEW i \in S PROVE sorted[Rank(list, S, i)] = list[i]
  <2>1. Rank(list, S, i) \in 1..n
    BY RanksMatch
  <2>2. place(Rank(list, S, i)) = i
    <3>1. place(Rank(list, S, i)) \in S /\ Rank(list, S, place(Rank(list, S, i))) = Rank(list, S, i)
      <4> HIDE DEF place
      <4> QED BY <1>3, <2>1
    <3> HIDE DEF place
    <3> QED BY <3>1, RanksMatch
  <2>3. sorted[Rank(list, S, i)] = list[place(Rank(list, S, i))]
    <3> HIDE DEF place
    <3> QED BY <2>1
  <2> HIDE DEF place, sorted
  <2> QED BY <2>2, <2>3
<1>7. sorted \in Seq(UserGoal) /\ Len(sorted) = n
  <2>1. sorted \in [1..n -> UserGoal]
    <3>1. DOMAIN sorted = 1..n /\ sorted = [k \in 1..n |-> sorted[k]]
      OBVIOUS
    <3> HIDE DEF sorted
    <3> QED BY <1>5, <3>1
  <2> HIDE DEF sorted
  <2> QED BY <1>1, <2>1
<1> HIDE DEF place, sorted
<1> QED BY <1>2, <1>5, <1>6, <1>7

\* The list of a plan's goals: as the page got it, or none.
ListOf(list) == list \in {<<>>, UserGoals}

LEMMA ListTyped ==
  ASSUME NEW list, ListOf(list)
  PROVE  /\ list \in Seq(UserGoal)
         /\ \A i \in DOMAIN list : list[i].id \in Buckets \ {"essentials", "reserve", "discretionary", "investment"}
         /\ \A i, j \in DOMAIN list : list[i].id = list[j].id => i = j
<1>1. CASE list = <<>>
  BY <1>1
<1>2. CASE list = UserGoals
  BY <1>2, AdvisorAssumption DEF Buckets, Range
<1> QED BY <1>1, <1>2 DEF ListOf

\* What a plan's requests are, one by one.
Listed(wanted, f, sorted, n) ==
  /\ Len(wanted) = n + 4 /\ DOMAIN wanted = 1..(n + 4) /\ \E T : wanted \in Seq(T)
  /\ wanted[1] = Request("essentials", f.essentials)
  /\ wanted[2] = Request("reserve", AtLeast0(f.monthly * f.months - f.reserve))
  /\ \A k \in 1..n : wanted[k + 2] = Request(sorted[k].id, sorted[k].remaining)
  /\ wanted[n + 3] = Request("discretionary", f.discretionary)
  /\ wanted[n + 4] = Request("investment", f.liquid + f.income)
  /\ \A i \in 1..(n + 4) : i \in {1, 2, n + 3, n + 4} \/ \E k \in 1..n : i = k + 2

LEMMA RequestsListed ==
  ASSUME NEW f, NEW sorted \in Seq(UserGoal)
  PROVE  Listed(Requests(f, sorted), f, sorted, Len(sorted))
<1> DEFINE n == Len(sorted)
           a == <<Request("essentials", f.essentials), Request("reserve", AtLeast0(f.monthly * f.months - f.reserve))>>
           b == [k \in 1..n |-> Request(sorted[k].id, sorted[k].remaining)]
           c == <<Request("discretionary", f.discretionary), Request("investment", f.liquid + f.income)>>
           T == {a[1], a[2], c[1], c[2]} \cup {b[k] : k \in 1..n}
           wanted == (a \o b) \o c
<1>1. n \in Nat /\ DOMAIN sorted = 1..n
  OBVIOUS
<1>2. Requests(f, sorted) = wanted
  BY <1>1 DEF Requests
<1>3. /\ Len(a) = 2 /\ Len(c) = 2 /\ a \in Seq(T) /\ c \in Seq(T)
      /\ a[1] = Request("essentials", f.essentials)
      /\ a[2] = Request("reserve", AtLeast0(f.monthly * f.months - f.reserve))
      /\ c[1] = Request("discretionary", f.discretionary) /\ c[2] = Request("investment", f.liquid + f.income)
  OBVIOUS
<1>4. /\ b \in Seq(T) /\ Len(b) = n
      /\ \A k \in 1..n : b[k] = Request(sorted[k].id, sorted[k].remaining)
  <2>1. b \in [1..n -> T]
    OBVIOUS
  <2>2. \A k \in 1..n : b[k] = Request(sorted[k].id, sorted[k].remaining)
    OBVIOUS
  <2> HIDE DEF b, T
  <2> QED BY <1>1, <2>1, <2>2
<1> HIDE DEF a, b, c, T, n
<1>5. /\ a \o b \in Seq(T) /\ Len(a \o b) = n + 2
      /\ (a \o b)[1] = a[1] /\ (a \o b)[2] = a[2]
      /\ \A k \in 1..n : (a \o b)[k + 2] = b[k]
  <2>1. 1 \in 1..2 /\ 2 \in 1..2
    OBVIOUS
  <2>2. /\ a \o b \in Seq(T) /\ Len(a \o b) = 2 + n
        /\ \A i \in 1..2 : (a \o b)[i] = a[i]
        /\ \A i \in 1..n : (a \o b)[i + 2] = b[i]
    <3>1. a \in Seq(T) /\ b \in Seq(T) /\ Len(a) = 2 /\ Len(b) = n
      BY <1>3, <1>4
    <3>2. a \o b \in Seq(T) /\ Len(a \o b) = Len(a) + Len(b)
      BY <3>1, JoinedAt
    <3>3. \A i \in 1..Len(a) : (a \o b)[i] = a[i]
      BY <3>1, JoinedAt
    <3>4. \A i \in 1..Len(b) : (a \o b)[i + Len(a)] = b[i]
      <4>1. a \in Seq(T) /\ b \in Seq(T)
        BY <3>1
      <4> QED BY <4>1, JoinedAt
    <3> QED BY <3>1, <3>2, <3>3, <3>4, Zenon
  <2> QED BY <1>1, <2>1, <2>2
<1> DEFINE d == a \o b
<1> HIDE DEF d
<1>6. /\ d \o c \in Seq(T) /\ Len(d \o c) = n + 4
      /\ \A i \in 1..(n + 2) : (d \o c)[i] = d[i]
      /\ (d \o c)[n + 3] = c[1] /\ (d \o c)[n + 4] = c[2]
  <2>1. d \in Seq(T) /\ Len(d) = n + 2
    BY <1>5 DEF d
  <2>2. /\ d \o c \in Seq(T) /\ Len(d \o c) = (n + 2) + 2
        /\ \A i \in 1..(n + 2) : (d \o c)[i] = d[i]
        /\ \A i \in 1..2 : (d \o c)[i + (n + 2)] = c[i]
    <3>1. d \in Seq(T) /\ c \in Seq(T) /\ Len(d) = n + 2 /\ Len(c) = 2
      BY <1>3, <2>1
    <3>2. d \o c \in Seq(T) /\ Len(d \o c) = Len(d) + Len(c)
      BY <3>1, JoinedAt
    <3>3. \A i \in 1..Len(d) : (d \o c)[i] = d[i]
      BY <3>1, JoinedAt
    <3>4. \A i \in 1..Len(c) : (d \o c)[i + Len(d)] = c[i]
      <4>1. d \in Seq(T) /\ c \in Seq(T)
        BY <3>1
      <4> QED BY <4>1, JoinedAt
    <3> QED BY <3>1, <3>2, <3>3, <3>4, Zenon
  <2>3. 1 \in 1..2 /\ 2 \in 1..2 /\ 1 + (n + 2) = n + 3 /\ 2 + (n + 2) = n + 4 /\ (n + 2) + 2 = n + 4
    BY <1>1
  <2> QED BY <2>2, <2>3
<1>7. d \o c = wanted
  BY DEF d
<1>8. \A k \in 1..n : k + 2 \in 1..(n + 2)
  BY <1>1
<1>9. 1 \in 1..(n + 2) /\ 2 \in 1..(n + 2)
  BY <1>1
<1>10. \A k \in 1..n : wanted[k + 2] = Request(sorted[k].id, sorted[k].remaining)
  BY <1>4, <1>5, <1>6, <1>7, <1>8 DEF d
<1>11. wanted[1] = a[1] /\ wanted[2] = a[2] /\ wanted[n + 3] = c[1] /\ wanted[n + 4] = c[2]
  BY <1>5, <1>6, <1>7, <1>9 DEF d
<1>12. Len(wanted) = n + 4 /\ DOMAIN wanted = 1..(n + 4) /\ wanted \in Seq(T)
  BY <1>6, <1>7
<1>13. \A i \in 1..(n + 4) : i \in {1, 2, n + 3, n + 4} \/ \E k \in 1..n : i = k + 2
  <2> TAKE i \in 1..(n + 4)
  <2>1. i \in {1, 2, n + 3, n + 4} \/ i - 2 \in 1..n
    BY <1>1
  <2>2. i = (i - 2) + 2
    BY <1>1
  <2> QED BY <2>1, <2>2
<1> HIDE DEF wanted, n
<1>14. Listed(wanted, f, sorted, n)
  BY <1>3, <1>10, <1>11, <1>12, <1>13 DEF Listed
<1> QED BY <1>2, <1>14 DEF n

\* So no two of them are for one bucket.
LEMMA RequestsOrderly ==
  ASSUME NEW f \in Form, NEW list, ListOf(list), NEW S \in SUBSET DOMAIN list
  PROVE  Orderly(Requests(f, SortGoals(list, S)))
<1> DEFINE n == Cardinality(S)
           sorted == SortGoals(list, S)
           wanted == Requests(f, sorted)
<1>1. /\ sorted \in Seq(UserGoal) /\ Len(sorted) = n /\ n \in Nat
      /\ \A k \in 1..n : \E i \in S : Rank(list, S, i) = k /\ sorted[k] = list[i]
  BY ListTyped, SortedByRank, RanksMatch
<1> HIDE DEF sorted, n
<1>2. Listed(wanted, f, sorted, n)
  BY <1>1, RequestsListed
<1> HIDE DEF wanted
<1>3. /\ wanted[1].bucket = "essentials" /\ wanted[2].bucket = "reserve"
      /\ wanted[n + 3].bucket = "discretionary" /\ wanted[n + 4].bucket = "investment"
      /\ \A k \in 1..n : wanted[k + 2].bucket = sorted[k].id
  <2>1. \A b, x : Request(b, x).bucket = b
    BY DEF Request
  <2> QED BY <1>2, <2>1 DEF Listed
<1>4. \A k \in 1..n : sorted[k].id \in Buckets \ {"essentials", "reserve", "discretionary", "investment"}
  BY <1>1, ListTyped
<1>5. ASSUME NEW j \in 1..n, NEW k \in 1..n, sorted[j].id = sorted[k].id PROVE j = k
  <2>1. PICK x \in S : Rank(list, S, x) = j /\ sorted[j] = list[x]
    BY <1>1
  <2>2. PICK y \in S : Rank(list, S, y) = k /\ sorted[k] = list[y]
    BY <1>1
  <2>3. x = y
    BY <1>5, <2>1, <2>2, ListTyped
  <2> QED BY <2>1, <2>2, <2>3
<1>6. ASSUME NEW i \in 1..(n + 4), NEW j \in 1..(n + 4), wanted[i].bucket = wanted[j].bucket PROVE i = j
  <2>1. CASE i \in {1, 2, n + 3, n + 4}
    <3>1. CASE j \in {1, 2, n + 3, n + 4}
      BY <1>3, <1>6, <2>1, <3>1
    <3>2. CASE \E k \in 1..n : j = k + 2
      BY <1>3, <1>4, <1>6, <2>1, <3>2
    <3> QED BY <1>2, <3>1, <3>2 DEF Listed
  <2>2. CASE \E k \in 1..n : i = k + 2
    <3>1. CASE j \in {1, 2, n + 3, n + 4}
      BY <1>3, <1>4, <1>6, <2>2, <3>1
    <3>2. CASE \E k \in 1..n : j = k + 2
      BY <1>3, <1>5, <1>6, <2>2, <3>2
    <3> QED BY <1>2, <3>1, <3>2 DEF Listed
  <2> QED BY <1>2, <2>1, <2>2 DEF Listed
<1>7. wanted \in Seq(LineType)
  <2>1. \A x \in Nat, y \in Nat, z \in Nat : AtLeast0(x * y - z) \in Nat
    BY DEF AtLeast0
  <2>2. /\ f.essentials \in Nat /\ f.discretionary \in Nat /\ f.liquid + f.income \in Nat
        /\ AtLeast0(f.monthly * f.months - f.reserve) \in Nat
    BY <2>1 DEF Form
  <2>3. /\ wanted[1] \in LineType /\ wanted[2] \in LineType /\ wanted[n + 3] \in LineType /\ wanted[n + 4] \in LineType
    BY <1>2, <2>2 DEF LineType, Request, Buckets, Listed
  <2>4. \A k \in 1..n : sorted[k].remaining \in Nat
    <3>1. \A k \in 1..n : sorted[k] \in UserGoal
      BY <1>1
    <3> QED BY <3>1 DEF UserGoal
  <2>5. ASSUME NEW k \in 1..n PROVE wanted[k + 2] \in LineType
    <3>1. wanted[k + 2] = Request(sorted[k].id, sorted[k].remaining)
      BY <1>2 DEF Listed
    <3>2. sorted[k].id \in Buckets /\ sorted[k].remaining \in Nat
      BY <1>4, <2>4
    <3> QED BY <3>1, <3>2 DEF LineType, Request
  <2>6. \A i \in 1..(n + 4) : wanted[i] \in LineType
    BY <1>2, <2>3, <2>5 DEF Listed
  <2> QED BY <1>1, <1>2, <2>6 DEF Listed
<1> QED BY <1>2, <1>6, <1>7 DEF Orderly, Listed, wanted, sorted

\* A plan is a waterfall: it gives away all the money, in order.
LEMMA PlanServes ==
  ASSUME NEW f \in Form, NEW list, ListOf(list), NEW S \in SUBSET DOMAIN list
  PROVE  LET p == BuildPlan(f, list, S)
         IN p.from = f /\ p.currency = f.currency /\ Total(p.lines) = f.liquid + f.income /\ ServedInOrder(p)
<1> DEFINE n == Cardinality(S)
           sorted == SortGoals(list, S)
           wanted == Requests(f, sorted)
           gross == f.liquid + f.income
           m == Allocations(gross, wanted)
           p == BuildPlan(f, list, S)
<1>1. /\ f.essentials \in Nat /\ f.discretionary \in Nat /\ gross \in Nat
      /\ AtLeast0(f.monthly * f.months - f.reserve) \in Nat
  <2>1. \A x \in Nat, y \in Nat, z \in Nat : AtLeast0(x * y - z) \in Nat
    BY DEF AtLeast0
  <2> QED BY <2>1 DEF Form
<1>2. /\ p.from = f /\ p.currency = f.currency /\ p.goals = {list[i] : i \in S} /\ p.lines = m.lines
      /\ p.deficit = AtLeast0(f.essentials - AmountOf(m.lines, "essentials"))
  BY DEF BuildPlan
<1>3. /\ Len(sorted) = n /\ n \in Nat
      /\ \A i \in S : Rank(list, S, i) \in 1..n /\ sorted[Rank(list, S, i)] = list[i]
  BY ListTyped, SortedByRank, RanksMatch
<1>4. Listed(wanted, f, sorted, n)
  BY <1>3, ListTyped, SortedByRank, RequestsListed
<1>5. Orderly(wanted)
  BY RequestsOrderly
<1> HIDE DEF n, sorted, wanted
<1>6. m \in Money /\ ServedSoFar(gross, wanted, n + 4, m)
  <2>1. Len(wanted) = n + 4
    BY <1>4 DEF Listed
  <2> HIDE DEF gross
  <2> QED BY <1>1, <1>5, <2>1, AllocationsServe
<1> HIDE DEF m, p, gross
<1>7. m.left \in Nat /\ m.lines \in Seq(LineType)
  BY <1>6 DEF Money
<1>8. m.left = 0
  <2> SUFFICES ASSUME m.left > 0 PROVE FALSE
    BY <1>7
  <2>1. n + 4 \in 1..(n + 4)
    BY <1>3
  <2>2. wanted[n + 4].amount + m.left <= gross
    BY <1>6, <2>1 DEF ServedSoFar
  <2>3. wanted[n + 4].amount = gross
    BY <1>4 DEF Listed, Request, gross
  <2> QED BY <1>1, <1>7, <2>2, <2>3
<1>9. Total(m.lines) = gross
  <2>1. Total(m.lines) \in Nat
    BY <1>7, AmountWorks DEF Total
  <2> QED BY <1>1, <1>6, <1>8, <2>1 DEF ServedSoFar
<1>10. \A i \in S : wanted[Rank(list, S, i) + 2] = Request(list[i].id, list[i].remaining)
  BY <1>3, <1>4 DEF Listed
<1>11. \A b, x : Request(b, x).bucket = b /\ Request(b, x).amount = x
  BY DEF Request
<1>12. \A i \in S : list[i].id \notin {"essentials", "reserve", "discretionary", "investment"}
  BY ListTyped
<1>13. ASSUME NEW l \in DOMAIN m.lines
       PROVE  /\ m.lines[l].bucket # "essentials" => p.deficit = 0
              /\ m.lines[l].bucket \notin {"essentials", "reserve"} =>
                   AmountOf(m.lines, "reserve") = AtLeast0(f.monthly * f.months - f.reserve)
              /\ m.lines[l].bucket \in {"discretionary", "investment"} =>
                   \A g \in p.goals : AmountOf(m.lines, g.id) = g.remaining
              /\ m.lines[l].bucket = "investment" => AmountOf(m.lines, "discretionary") = f.discretionary
              /\ \A g, h \in p.goals :
                   Before(h, g) /\ m.lines[l].bucket = g.id => AmountOf(m.lines, h.id) = h.remaining
  <2>1. PICK j \in 1..(n + 4) : m.lines[l].bucket = wanted[j].bucket /\ \A i \in 1..(j - 1) : Full(m, wanted, i)
    <3>1. l \in 1..Len(m.lines)
      BY <1>7, <1>13
    <3> QED BY <1>6, <3>1 DEF ServedSoFar
  <2>2. ASSUME NEW i \in Nat, 1 <= i, i < j, NEW b, NEW x, wanted[i] = Request(b, x) PROVE AmountOf(m.lines, b) = x
    <3>1. i \in 1..(j - 1)
      BY <1>3, <2>2
    <3>2. Full(m, wanted, i)
      BY <2>1, <3>1
    <3> QED BY <1>11, <2>2, <3>2 DEF Full
  <2>3. /\ wanted[1].bucket = "essentials" /\ wanted[2].bucket = "reserve"
        /\ wanted[n + 3].bucket = "discretionary" /\ wanted[n + 4].bucket = "investment"
    BY <1>4, <1>11 DEF Listed
  <2>4. \A i \in 1..(n + 4), k \in 1..(n + 4) : wanted[i].bucket = wanted[k].bucket => i = k
    BY <1>4, <1>5 DEF Orderly, Listed
  <2>5. ASSUME m.lines[l].bucket # "essentials" PROVE p.deficit = 0
    <3>1. j # 1
      BY <2>1, <2>3, <2>5
    <3>2. AmountOf(m.lines, "essentials") = f.essentials
      <4>1. 1 < j
        BY <1>3, <3>1
      <4> QED BY <1>4, <2>2, <4>1 DEF Listed
    <3> QED BY <1>1, <1>2, <3>2 DEF AtLeast0
  <2>6. ASSUME m.lines[l].bucket \notin {"essentials", "reserve"}
        PROVE  AmountOf(m.lines, "reserve") = AtLeast0(f.monthly * f.months - f.reserve)
    <3>1. j # 1 /\ j # 2
      BY <2>1, <2>3, <2>6
    <3>2. 2 < j
      BY <1>3, <3>1
    <3> QED BY <1>4, <2>2, <3>2 DEF Listed
  <2>7. ASSUME m.lines[l].bucket \in {"discretionary", "investment"}, NEW i \in S
        PROVE  AmountOf(m.lines, list[i].id) = list[i].remaining
    <3>1. j = n + 3 \/ j = n + 4
      <4>1. n + 3 \in 1..(n + 4) /\ n + 4 \in 1..(n + 4)
        BY <1>3
      <4> QED BY <2>1, <2>3, <2>4, <2>7, <4>1
    <3>2. Rank(list, S, i) + 2 < j /\ Rank(list, S, i) + 2 \in Nat /\ 1 <= Rank(list, S, i) + 2
      BY <1>3, <3>1
    <3> QED BY <1>10, <2>2, <3>2
  <2>8. ASSUME m.lines[l].bucket = "investment" PROVE AmountOf(m.lines, "discretionary") = f.discretionary
    <3>1. j = n + 4
      <4>1. n + 4 \in 1..(n + 4)
        BY <1>3
      <4> QED BY <2>1, <2>3, <2>4, <2>8, <4>1
    <3>2. n + 3 < j /\ n + 3 \in Nat /\ 1 <= n + 3
      BY <1>3, <3>1
    <3> QED BY <1>4, <2>2, <3>2 DEF Listed
  <2>9. ASSUME NEW x \in S, NEW y \in S, Before(list[y], list[x]), m.lines[l].bucket = list[x].id
        PROVE  AmountOf(m.lines, list[y].id) = list[y].remaining
    <3>1. j = Rank(list, S, x) + 2
      <4>1. wanted[Rank(list, S, x) + 2].bucket = wanted[j].bucket
        BY <1>10, <1>11, <2>1, <2>9
      <4>2. Rank(list, S, x) + 2 \in 1..(n + 4)
        BY <1>3
      <4> QED BY <2>4, <4>1, <4>2
    <3>2. Precedes(list, y, x)
      BY <2>9, ListTyped, PrecedesOrders
    <3>3. Rank(list, S, y) < Rank(list, S, x)
      BY <3>2, ListTyped, RanksMatch
    <3>4. Rank(list, S, y) + 2 < j /\ Rank(list, S, y) + 2 \in Nat /\ 1 <= Rank(list, S, y) + 2
      BY <1>3, <3>1, <3>3
    <3> QED BY <1>10, <2>2, <3>4
  <2>10. \A g \in p.goals : \E i \in S : g = list[i]
    BY <1>2
  <2> QED BY <2>5, <2>6, <2>7, <2>8, <2>9, <2>10
<1>14. ServedInOrder(p)
  BY <1>2, <1>13 DEF ServedInOrder
<1> QED BY <1>2, <1>9, <1>14 DEF p, gross

(***************************************************************************)
(* The page.                                                               *)
(***************************************************************************)
\* The figures are amounts, the goals are as they were listed or not there yet.
AdvisorTypes == form \in Form /\ ListOf(goals)

\* A plan is the waterfall of the figures it was made from; they are those on the page, or
\* of another currency since the first snapshot failed.
PlanTrue ==
  plan # None =>
    /\ Total(plan.lines) = plan.from.liquid + plan.from.income /\ ServedInOrder(plan)
    /\ plan.currency = plan.from.currency
    /\ plan.from = form \/ (page = "ready" /\ plan.currency # form.currency)
AdvisorInv == AdvisorTypes /\ PlanTrue

LEMMA AdvisorStarts == AdvisorInit => AdvisorInv
BY AdvisorAssumption DEF AdvisorInit, AdvisorInv, AdvisorTypes, PlanTrue, Blank, Form, ListOf

LEMMA AdvisorKept == AdvisorInv /\ [AdvisorNext]_advisor => AdvisorInv'
<1> SUFFICES ASSUME AdvisorInv, [AdvisorNext]_advisor PROVE AdvisorInv'
  OBVIOUS
<1> USE DEF AdvisorInv
<1>1. ASSUME plan' = None, form' \in Form, goals' = goals PROVE AdvisorInv'
  BY <1>1 DEF AdvisorTypes, PlanTrue, ListOf
<1>2. ASSUME UNCHANGED <<form, plan, page>>, ListOf(goals') PROVE AdvisorInv'
  BY <1>2 DEF AdvisorTypes, PlanTrue, ServedInOrder
<1>3. CASE GoalsArrive
  <2>1. ListOf(goals') /\ form' = form /\ plan' = plan /\ page = "loading"
    BY <1>3 DEF GoalsArrive, ListOf
  <2>2. plan # None => plan.from = form
    BY <2>1 DEF PlanTrue
  <2> QED BY <2>1, <2>2 DEF AdvisorTypes, PlanTrue
<1>4. ASSUME NEW s \in Snapshots, FirstSnapshot(s) \/ \E i \in DOMAIN snaps : SnapshotArrives(i, s) PROVE AdvisorInv'
  BY <1>1, <1>4, AdvisorAssumption DEF FirstSnapshot, SnapshotArrives, Reset
<1>5. ASSUME NEW c \in Currencies, NoFirstSnapshot(c) PROVE AdvisorInv'
  <2>1. form' \in Form /\ form'.currency = c /\ (c = form.currency => form' = form)
    BY <1>5 DEF NoFirstSnapshot, AdvisorTypes, Form
  <2>2. goals' = goals /\ plan' = plan /\ page' = "ready" /\ page = "first"
    BY <1>5 DEF NoFirstSnapshot
  <2>3. plan # None => plan.from = form
    BY <2>2 DEF PlanTrue
  <2> QED BY <2>1, <2>2, <2>3 DEF AdvisorTypes, PlanTrue, ListOf
<1>6. ASSUME NEW c \in Currencies, ChangeCurrency(c) PROVE AdvisorInv'
  <2>1. form' \in Form
    BY <1>6 DEF ChangeCurrency, AdvisorTypes, Form
  <2> QED BY <1>1, <1>6, <2>1 DEF ChangeCurrency, Reset
<1>7. ASSUME NEW field \in Fields, NEW n \in Corrections, Edit(field, n) PROVE AdvisorInv'
  <2>1. n \in Nat /\ form' = [form EXCEPT ![field] = n]
    BY <1>7, AdvisorAssumption DEF Edit
  <2>2. form' \in Form
    <3>1. field \in {"liquid", "income", "essentials", "discretionary", "reserve", "monthly", "months"}
      BY DEF Fields
    <3>2. form \in Form
      BY DEF AdvisorTypes
    <3>3. CASE field = "liquid"
      BY <2>1, <3>2, <3>3 DEF Form
    <3>4. CASE field = "income"
      BY <2>1, <3>2, <3>4 DEF Form
    <3>5. CASE field = "essentials"
      BY <2>1, <3>2, <3>5 DEF Form
    <3>6. CASE field = "discretionary"
      BY <2>1, <3>2, <3>6 DEF Form
    <3>7. CASE field = "reserve"
      BY <2>1, <3>2, <3>7 DEF Form
    <3>8. CASE field = "monthly"
      BY <2>1, <3>2, <3>8 DEF Form
    <3>9. CASE field = "months"
      BY <2>1, <3>2, <3>9 DEF Form
    <3> QED BY <3>1, <3>3, <3>4, <3>5, <3>6, <3>7, <3>8, <3>9
  <2> QED BY <1>1, <1>7, <2>2 DEF Edit, Reset
<1>8. CASE ToggleGoals
  BY <1>1, <1>8 DEF ToggleGoals, AdvisorTypes
<1>9. CASE Calculate
  <2> DEFINE S == IF include THEN Counted(goals, form.currency) ELSE {}
  <2>1. S \in SUBSET DOMAIN goals
    BY DEF Counted
  <2>2. plan' = BuildPlan(form, goals, S) /\ form' = form /\ goals' = goals
    BY <1>9 DEF Calculate
  <2> HIDE DEF S
  <2>3. /\ plan'.from = form /\ plan'.currency = form.currency
        /\ Total(plan'.lines) = form.liquid + form.income /\ ServedInOrder(plan')
    BY <2>1, <2>2, PlanServes DEF AdvisorTypes
  <2> QED BY <2>2, <2>3 DEF AdvisorTypes, PlanTrue
<1>10. ASSUME \/ \E i \in DOMAIN snaps : SnapshotFails(i)
              \/ RefreshSnapshot \/ ExplainWithAi \/ Explained \/ NotExplained \/ UNCHANGED advisor
       PROVE  AdvisorInv'
  <2>1. UNCHANGED <<form, plan, page>> /\ goals' = goals
    BY <1>10 DEF SnapshotFails, RefreshSnapshot, ExplainWithAi, Explained, NotExplained, advisor
  <2> QED BY <1>2, <2>1 DEF AdvisorTypes
<1> QED BY <1>3, <1>4, <1>5, <1>6, <1>7, <1>8, <1>9, <1>10 DEF AdvisorNext

\* For any figures, goals, corrections and order of answers, a plan gives away all the money
\* and no more, in the order of what it is for, and is the plan of what is on the page.
\* (deterministic.ts, AdvisorPage.tsx)
THEOREM AdvisorWaterfall == AdvisorSpec => []Waterfall
<1>1. AdvisorInv => Waterfall
  BY DEF AdvisorInv, PlanTrue, Waterfall
<1> QED BY <1>1, AdvisorStarts, AdvisorKept, PTL DEF AdvisorSpec

=============================================================================
