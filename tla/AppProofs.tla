------------------------------ MODULE AppProofs ------------------------------
(***************************************************************************)
(* Proofs about Phone, Import, Portfolio and Client, for any signals,      *)
(* files, goals and people: the phone forgets nothing it should keep, the  *)
(* summary of an import is the truth, a goal that is reached is completed, *)
(* the editor of an investment is authoritative, and the application shows *)
(* the user of the last event and files snapshots under their owner.       *)
(***************************************************************************)
EXTENDS Phone, Import, Portfolio, Client, WellFoundedInduction, TLAPS

(***************************************************************************)
(* Lists, by induction on their length.                                    *)
(***************************************************************************)
\* The order of the numbers, as a relation,
Below == {p \in Nat \X Nat : p[1] < p[2]}
\* has no infinite descent: every set of numbers has a least one.
LEMMA BelowFounded == IsWellFoundedOn(Below, Nat)
BY NatLessThanWellFounded, Zenon DEF OpToRel, Below

\* A set of numbers that has zero, and with a number the next one, has all.
LEMMA Induction ==
  ASSUME NEW S, 0 \in S, \A n \in Nat : n \in S => n + 1 \in S
  PROVE  Nat \subseteq S
<1> SUFFICES ASSUME Nat \ S # {} PROVE FALSE
  OBVIOUS
<1>1. PICK x \in Nat \ S : \A y \in Nat \ S : <<y, x>> \notin Below
  <2> DEFINE T == Nat \ S
  <2>1. T \subseteq Nat /\ T # {}
    OBVIOUS
  <2> HIDE DEF T
  <2>2. \E x \in T : \A y \in T : <<y, x>> \notin Below
    BY <2>1, BelowFounded, WFMin, Zenon
  <2> QED BY <2>2 DEF T
<1>2. x - 1 \in Nat /\ <<x - 1, x>> \in Below
  BY <1>1 DEF Below
<1>3. x - 1 \in S
  BY <1>1, <1>2
<1>4. (x - 1) + 1 = x
  BY <1>1
<1> QED BY <1>1, <1>2, <1>3, <1>4

\* What Without works out on its way: the first n of a list without those that are gone.
Steps(q, gone, n, f) ==
  [i \in 0..n |-> IF i = 0 THEN <<>> ELSE IF q[i] \in gone THEN f[i - 1] ELSE Append(f[i - 1], q[i])]

\* There is such a function, of any length,
LEMMA StageExists ==
  ASSUME NEW q, NEW gone, NEW n \in Nat
  PROVE  \E f : f = Steps(q, gone, n, f)
<1> DEFINE F(f, m) == [i \in 0..m |-> IF i = 0 THEN <<>> ELSE IF q[i] \in gone THEN f[i - 1] ELSE Append(f[i - 1], q[i])]
           S == {m \in Nat : \E f : f = F(f, m)}
<1>1. 0 \in S
  <2>1. [i \in 0..0 |-> <<>>] = F([i \in 0..0 |-> <<>>], 0)
    OBVIOUS
  <2> HIDE DEF F
  <2> QED BY <2>1
<1>2. ASSUME NEW m \in Nat, m \in S PROVE m + 1 \in S
  <2>1. PICK f : f = F(f, m)
    BY <1>2
  <2> DEFINE g == [i \in 0..(m + 1) |-> IF i = m + 1 THEN (IF q[m + 1] \in gone THEN f[m] ELSE Append(f[m], q[m + 1])) ELSE f[i]]
  <2>2. ASSUME NEW i \in 0..(m + 1)
        PROVE  g[i] = IF i = 0 THEN <<>> ELSE IF q[i] \in gone THEN g[i - 1] ELSE Append(g[i - 1], q[i])
    <3>1. CASE i = 0
      BY <2>1, <3>1
    <3>2. CASE i = m + 1
      BY <3>2
    <3>3. CASE i \in 1..m
      <4>1. f[i] = IF q[i] \in gone THEN f[i - 1] ELSE Append(f[i - 1], q[i])
        <5>1. F(f, m)[i] = IF q[i] \in gone THEN f[i - 1] ELSE Append(f[i - 1], q[i])
          BY <3>3
        <5>2. f[i] = F(f, m)[i]
          <6> HIDE DEF F
          <6> QED BY <2>1
        <5> QED BY <5>1, <5>2, Zenon
      <4>2. g[i] = f[i] /\ g[i - 1] = f[i - 1] /\ i # 0
        BY <3>3
      <4> HIDE DEF g
      <4> QED BY <4>1, <4>2
    <3> QED BY <3>1, <3>2, <3>3
  <2>3. g = F(g, m + 1)
    <3>1. DOMAIN g = 0..(m + 1) /\ g = [i \in 0..(m + 1) |-> g[i]]
      OBVIOUS
    <3> HIDE DEF g
    <3> QED BY <2>2, <3>1
  <2> HIDE DEF g, F
  <2> QED BY <2>3
<1>3. Nat \subseteq S
  <2> HIDE DEF S
  <2> QED BY <1>1, <1>2, Induction
<1>4. n \in S
  BY <1>3
<1>5. \E f : f = F(f, n)
  BY <1>4
<1>6. \A f : F(f, n) = Steps(q, gone, n, f)
  BY DEF Steps
<1> HIDE DEF F
<1> QED BY <1>5, <1>6

\* so Without is the list of what is not gone.
LEMMA WithoutItems ==
  ASSUME NEW S, NEW q \in Seq(S), NEW gone
  PROVE  Without(q, gone) \in Seq(S) /\ ToSet(Without(q, gone)) = ToSet(q) \ gone
<1> DEFINE F(f) == Steps(q, gone, Len(q), f)
           kept == CHOOSE f : f = F(f)
<1>1. kept = F(kept) 
  <2>1. \E f : f = F(f)
    <3>1. Len(q) \in Nat
      OBVIOUS
    <3> QED BY <3>1, StageExists, Zenon
  <2> HIDE DEF F
  <2> QED BY <2>1
<1>2. Without(q, gone) = kept[Len(q)]
  BY DEF Without, Steps
<1> HIDE DEF kept
<1>8. /\ kept[0] = <<>>
      /\ \A i \in 1..Len(q) : kept[i] = IF q[i] \in gone THEN kept[i - 1] ELSE Append(kept[i - 1], q[i])
  <2>1. \A i \in 0..Len(q) : kept[i] = F(kept)[i]
    <3> HIDE DEF F
    <3> QED BY <1>1, Zenon
  <2>2. /\ F(kept)[0] = <<>>
        /\ \A i \in 1..Len(q) : F(kept)[i] = IF q[i] \in gone THEN kept[i - 1] ELSE Append(kept[i - 1], q[i])
    BY DEF Steps
  <2>3. 0 \in 0..Len(q) /\ \A i \in 1..Len(q) : i \in 0..Len(q)
    OBVIOUS
  <2> HIDE DEF F
  <2> QED BY <2>1, <2>2, <2>3, Zenon
<1> DEFINE T == {n \in Nat : n <= Len(q) => kept[n] \in Seq(S) /\ ToSet(kept[n]) = {q[i] : i \in 1..n} \ gone}
<1>3. 0 \in T
  <2>1. {q[i] : i \in 1..0} = {} /\ ToSet(<<>>) = {}
    BY DEF ToSet
  <2>2. <<>> \in Seq(S)
    OBVIOUS
  <2>3. kept[0] \in Seq(S) /\ ToSet(kept[0]) = {q[i] : i \in 1..0} \ gone
    BY <1>8, <2>1, <2>2, Zenon
  <2> QED BY <2>3
<1>4. ASSUME NEW n \in Nat, n \in T PROVE n + 1 \in T
  <2> SUFFICES ASSUME n + 1 <= Len(q)
               PROVE  kept[n + 1] \in Seq(S) /\ ToSet(kept[n + 1]) = {q[i] : i \in 1..(n + 1)} \ gone
    OBVIOUS
  <2>1. kept[n] \in Seq(S) /\ ToSet(kept[n]) = {q[i] : i \in 1..n} \ gone
    BY <1>4
  <2>2. kept[n + 1] = IF q[n + 1] \in gone THEN kept[n] ELSE Append(kept[n], q[n + 1])
    <3>1. n + 1 \in 1..Len(q) /\ (n + 1) - 1 = n
      OBVIOUS
    <3> QED BY <1>8, <3>1
  <2>3. {q[i] : i \in 1..(n + 1)} = {q[i] : i \in 1..n} \cup {q[n + 1]} /\ q[n + 1] \in S
    OBVIOUS
  <2>4. ASSUME NEW s \in Seq(S), NEW x \in S PROVE Append(s, x) \in Seq(S) /\ ToSet(Append(s, x)) = ToSet(s) \cup {x}
    <3>1. Append(s, x) \in Seq(S) /\ Len(Append(s, x)) = Len(s) + 1 /\ Len(s) \in Nat
      OBVIOUS
    <3>2. (\A i \in 1..Len(s) : Append(s, x)[i] = s[i]) /\ Append(s, x)[Len(s) + 1] = x
      OBVIOUS
    <3>3. \A i : i \in 1..(Len(s) + 1) <=> i \in 1..Len(s) \/ i = Len(s) + 1
      BY <3>1
    <3> DEFINE r == Append(s, x)
    <3>4. DOMAIN r = 1..(Len(s) + 1) /\ DOMAIN s = 1..Len(s)
      BY <3>1
    <3> HIDE DEF r
    <3>5. ToSet(r) = ToSet(s) \cup {x}
      BY <3>2, <3>3, <3>4 DEF ToSet, r
    <3> QED BY <3>1, <3>5 DEF r
  <2>5. CASE q[n + 1] \in gone
    BY <2>1, <2>2, <2>3, <2>5
  <2>6. CASE q[n + 1] \notin gone
    BY <2>1, <2>2, <2>3, <2>4, <2>6
  <2> QED BY <2>5, <2>6
<1>5. Nat \subseteq T
  <2> HIDE DEF T
  <2> QED BY <1>3, <1>4, Induction
<1>6. Len(q) \in T
  <2>1. Len(q) \in Nat
    OBVIOUS
  <2> HIDE DEF T
  <2> QED BY <1>5, <2>1
<1>7. ToSet(q) = {q[i] : i \in 1..Len(q)}
  BY DEF ToSet
<1> QED BY <1>2, <1>6, <1>7


\* What FlattenSeq works out on its way.
Build(s, n, f) == [i \in 1..n |-> IF i = 1 THEN s[i] ELSE f[i - 1] \o s[i]]

\* There is such a function, of any length,
LEMMA BuildExists ==
  ASSUME NEW s, NEW n \in Nat
  PROVE  \E f : f = Build(s, n, f)
<1> DEFINE F(f, m) == [i \in 1..m |-> IF i = 1 THEN s[i] ELSE f[i - 1] \o s[i]]
           S == {m \in Nat : \E f : f = F(f, m)}
<1>1. 0 \in S
  <2>1. [i \in 1..0 |-> <<>>] = F([i \in 1..0 |-> <<>>], 0)
    OBVIOUS
  <2> HIDE DEF F
  <2> QED BY <2>1
<1>2. ASSUME NEW m \in Nat, m \in S PROVE m + 1 \in S
  <2>1. PICK f : f = F(f, m)
    BY <1>2
  <2> DEFINE g == [i \in 1..(m + 1) |-> IF i = m + 1 THEN (IF m = 0 THEN s[1] ELSE f[m] \o s[m + 1]) ELSE f[i]]
  <2>2. ASSUME NEW i \in 1..(m + 1)
        PROVE  g[i] = IF i = 1 THEN s[i] ELSE g[i - 1] \o s[i]
    <3>1. CASE i = m + 1
      BY <3>1
    <3>2. CASE i \in 1..m
      <4>1. f[i] = IF i = 1 THEN s[i] ELSE f[i - 1] \o s[i]
        <5>1. F(f, m)[i] = IF i = 1 THEN s[i] ELSE f[i - 1] \o s[i]
          BY <3>2
        <5>2. f[i] = F(f, m)[i]
          <6> HIDE DEF F
          <6> QED BY <2>1
        <5> QED BY <5>1, <5>2, Zenon
      <4>2. g[i] = f[i] /\ (i # 1 => g[i - 1] = f[i - 1])
        BY <3>2
      <4> HIDE DEF g
      <4> QED BY <4>1, <4>2
    <3> QED BY <3>1, <3>2
  <2>3. g = F(g, m + 1)
    <3>1. DOMAIN g = 1..(m + 1) /\ g = [i \in 1..(m + 1) |-> g[i]]
      OBVIOUS
    <3> HIDE DEF g
    <3> QED BY <2>2, <3>1
  <2> HIDE DEF g, F
  <2> QED BY <2>3
<1>3. Nat \subseteq S
  <2> HIDE DEF S
  <2> QED BY <1>1, <1>2, Induction
<1>4. n \in S
  BY <1>3
<1>5. \E f : f = F(f, n)
  BY <1>4
<1>6. \A f : F(f, n) = Build(s, n, f)
  BY DEF Build
<1> HIDE DEF F
<1> QED BY <1>5, <1>6

\* The first n chunks of a file as one sequence.
Prefix(s, n) == IF n = 0 THEN <<>> ELSE (CHOOSE f : f = Build(s, Len(s), f))[n]

\* so each chunk adds its rows, and FlattenSeq has them all.
LEMMA PrefixGrows ==
  ASSUME NEW S, NEW s \in Seq(Seq(S)), s # <<>>
  PROVE  /\ Prefix(s, 0) = <<>>
         /\ \A n \in 0..Len(s) : Prefix(s, n) \in Seq(S)
         /\ \A n \in 1..Len(s) :
              /\ Len(Prefix(s, n)) = Len(Prefix(s, n - 1)) + Len(s[n])
              /\ ToSet(Prefix(s, n)) = ToSet(Prefix(s, n - 1)) \cup ToSet(s[n])
         /\ FlattenSeq(s) = Prefix(s, Len(s))
<1> DEFINE F(f) == Build(s, Len(s), f)
           flatten == CHOOSE f : f = F(f)
<1>0. Len(s) \in Nat \ {0}
  OBVIOUS
<1>1. flatten = F(flatten)
  <2>1. \E f : f = F(f)
    BY <1>0, BuildExists, Zenon
  <2> HIDE DEF F
  <2> QED BY <2>1
<1>2. FlattenSeq(s) = flatten[Len(s)]
  BY <1>0 DEF FlattenSeq, Build
<1>3. Prefix(s, 0) = <<>> /\ \A n \in 1..Len(s) : Prefix(s, n) = flatten[n]
  BY DEF Prefix
<1> HIDE DEF flatten
<1>4. /\ flatten[1] = s[1]
      /\ \A i \in 2..Len(s) : flatten[i] = flatten[i - 1] \o s[i]
  <2>1. \A i \in 1..Len(s) : flatten[i] = F(flatten)[i]
    <3> HIDE DEF F
    <3> QED BY <1>1, Zenon
  <2>2. /\ F(flatten)[1] = s[1]
        /\ \A i \in 2..Len(s) : F(flatten)[i] = flatten[i - 1] \o s[i]
    <3>1. \A i \in 1..Len(s) : F(flatten)[i] = IF i = 1 THEN s[i] ELSE flatten[i - 1] \o s[i]
      BY DEF Build
    <3>2. 1 \in 1..Len(s) /\ \A i \in 2..Len(s) : i \in 1..Len(s) /\ i # 1
      BY <1>0
    <3> HIDE DEF F
    <3> QED BY <3>1, <3>2
  <2>3. 1 \in 1..Len(s) /\ \A i \in 2..Len(s) : i \in 1..Len(s)
    BY <1>0
  <2> HIDE DEF F
  <2> QED BY <2>1, <2>2, <2>3, Zenon
<1>5. ASSUME NEW p \in Seq(S), NEW q \in Seq(S)
      PROVE  p \o q \in Seq(S) /\ Len(p \o q) = Len(p) + Len(q) /\ ToSet(p \o q) = ToSet(p) \cup ToSet(q)
  <2>1. p \o q \in Seq(S) /\ Len(p \o q) = Len(p) + Len(q)
    OBVIOUS
  <2>2. ToSet(p \o q) \subseteq ToSet(p) \cup ToSet(q)
    BY DEF ToSet
  <2>3. \A i \in 1..Len(p) : (p \o q)[i] = p[i] /\ i \in 1..(Len(p) + Len(q))
    OBVIOUS
  <2>4. \A i \in 1..Len(q) : (p \o q)[Len(p) + i] = q[i] /\ Len(p) + i \in 1..(Len(p) + Len(q))
    OBVIOUS
  <2>5. ToSet(p) \cup ToSet(q) \subseteq ToSet(p \o q)
    <3> DEFINE r == p \o q
    <3>1. DOMAIN r = 1..(Len(p) + Len(q)) /\ DOMAIN p = 1..Len(p) /\ DOMAIN q = 1..Len(q)
      BY <2>1
    <3>2. \A i \in 1..Len(p) : i \in DOMAIN r /\ r[i] = p[i]
      BY <2>3, <3>1
    <3>3. \A i \in 1..Len(q) : \E j \in DOMAIN r : r[j] = q[i]
      BY <2>4, <3>1
    <3> HIDE DEF r
    <3>4. ToSet(p) \cup ToSet(q) \subseteq ToSet(r)
      BY <3>1, <3>2, <3>3 DEF ToSet
    <3> QED BY <3>4 DEF r
  <2> QED BY <2>1, <2>2, <2>5
<1>6. /\ Prefix(s, 1) = s[1] /\ s[1] \in Seq(S)
      /\ \A n \in 2..Len(s) : Prefix(s, n) = Prefix(s, n - 1) \o s[n] /\ s[n] \in Seq(S)
  <2>1. \A n \in 2..Len(s) : n - 1 \in 1..Len(s) /\ n \in 1..Len(s)
    OBVIOUS
  <2>2. 1 \in 1..Len(s) /\ \A n \in 1..Len(s) : s[n] \in Seq(S)
    BY <1>0
  <2> QED BY <1>3, <1>4, <2>1, <2>2, Zenon
<1>7. \A n \in 0..Len(s) : Prefix(s, n) \in Seq(S)
  <2> DEFINE T == {n \in Nat : n <= Len(s) => Prefix(s, n) \in Seq(S)}
  <2>1. 0 \in T
    <3>1. <<>> \in Seq(S)
      OBVIOUS
    <3>2. Prefix(s, 0) \in Seq(S)
      BY <1>3, <3>1
    <3> QED BY <3>2
  <2>2. ASSUME NEW n \in Nat, n \in T PROVE n + 1 \in T
    <3>1. CASE n = 0
      BY <1>6, <3>1
    <3>2. CASE n # 0 /\ n + 1 <= Len(s)
      <4>1. n + 1 \in 2..Len(s) /\ (n + 1) - 1 = n /\ n <= Len(s)
        BY <1>0, <3>2
      <4>2. Prefix(s, n + 1) = Prefix(s, n) \o s[n + 1] /\ s[n + 1] \in Seq(S) /\ Prefix(s, n) \in Seq(S)
        BY <1>6, <2>2, <4>1
      <4>3. Prefix(s, n + 1) \in Seq(S)
        BY <1>5, <4>2
      <4> QED BY <4>3
    <3>3. CASE ~(n + 1 <= Len(s))
      BY <3>3
    <3> QED BY <3>1, <3>2, <3>3
  <2>3. Nat \subseteq T
    <3> HIDE DEF T
    <3> QED BY <2>1, <2>2, Induction
  <2> QED BY <1>0, <2>3
<1>8. ASSUME NEW n \in 1..Len(s)
      PROVE  /\ Len(Prefix(s, n)) = Len(Prefix(s, n - 1)) + Len(s[n])
             /\ ToSet(Prefix(s, n)) = ToSet(Prefix(s, n - 1)) \cup ToSet(s[n])
  <2>1. CASE n = 1
    <3>1. ToSet(<<>>) = {} /\ Len(s[1]) \in Nat
      BY <1>6 DEF ToSet
    <3> QED BY <1>3, <1>6, <2>1, <3>1
  <2>2. CASE n # 1
    <3>1. n \in 2..Len(s) /\ n - 1 \in 0..Len(s)
      BY <2>2
    <3> QED BY <1>5, <1>6, <1>7, <3>1
  <2> QED BY <2>1, <2>2
<1>9. Len(s) \in 1..Len(s)
  BY <1>0
<1> QED BY <1>2, <1>3, <1>7, <1>8, <1>9

(***************************************************************************)
(* The queue of the phone.                                                 *)
(***************************************************************************)
\* What the phone keeps of a list.
LEMMA PhoneWithout ==
  ASSUME NEW q \in Seq(Signals), NEW gone
  PROVE  Without(q, gone) \in Seq(Signals) /\ Items(Without(q, gone)) = Items(q) \ gone
<1>1. \A s \in Seq(Signals) : Items(s) = ToSet(s)
  BY DEF Items, ToSet
<1> QED BY <1>1, WithoutItems

\* The phone's variables have their types.
PhoneTypes ==
  /\ queue \in Seq(Signals) /\ arriving \in Seq(Signals) /\ disk \in Seq(Signals)
  /\ cloudHas \subseteq Signals
  /\ up \in [Uploads -> {"idle", "send", "server", "orphan", "ack"}]
  /\ seen \in [Uploads -> Seq(Signals)] /\ todo \in [Uploads -> Seq(Signals)]
  /\ acks \in [Uploads -> SUBSET Signals]
  /\ posts \in Nat /\ losses \in Nat

\* What was taken is with the server, and one acknowledgement is under way at a time.
TakenIsThere == \A s \in Uploads : acks[s] \subseteq cloudHas
OneAck == \A s, t \in Uploads : up[s] = "ack" /\ up[t] = "ack" => s = t

\* A list holds what a set has, unless the server has it or the list is full.
Covers(q, S) == Len(q) = QueueMax \/ S \subseteq Items(q) \cup cloudHas

\* The list that is about to be stored covers the queue, and what an acknowledgement has read.
ArrivingCovers == arriving # <<>> => Covers(arriving, Items(queue))
ReadCovered ==
  \A s \in Uploads : up[s] = "ack" =>
    /\ Covers(queue, Items(seen[s]))
    /\ arriving # <<>> => Covers(arriving, Items(seen[s]))

\* The inductive invariant of the phone.
PhoneInv == TakenIsThere /\ OneAck /\ ArrivingCovers /\ ReadCovered

\* A candidate that comes in.
LEMMA EnqueuedCovers ==
  ASSUME queue \in Seq(Signals), NEW x \in Signals
  PROVE  /\ Enqueued(x) \in Seq(Signals)
         /\ Len(Enqueued(x)) = QueueMax \/ (Items(queue) \subseteq Items(Enqueued(x)) /\ Len(queue) # QueueMax)
<1> DEFINE q == Append(queue, x)
<1>0. QueueMax \in Nat \ {0}
  BY PhoneAssumption
<1>1. q \in Seq(Signals) /\ Len(q) = Len(queue) + 1 /\ \A i \in 1..Len(queue) : q[i] = queue[i]
  OBVIOUS
<1>2. Len(queue) \in Nat
  OBVIOUS
<1> HIDE DEF q
<1>3. CASE Len(q) <= QueueMax
  <2>1. Enqueued(x) = q
    BY <1>3 DEF Enqueued, q
  <2>2. \A i \in 1..Len(queue) : i \in 1..Len(q)
    BY <1>1, <1>2
  <2>3. Items(queue) \subseteq Items(q)
    BY <1>1, <2>2 DEF Items
  <2>4. Len(queue) # QueueMax
    BY <1>0, <1>1, <1>2, <1>3
  <2> QED BY <1>1, <2>1, <2>3, <2>4
<1>4. CASE ~(Len(q) <= QueueMax)
  <2>1. Enqueued(x) = SubSeq(q, Len(q) - QueueMax + 1, Len(q))
    BY <1>4 DEF Enqueued, q
  <2>2. Len(q) \in Nat /\ Len(q) - QueueMax + 1 \in 1..Len(q)
    BY <1>0, <1>1, <1>2, <1>4
  <2>3. SubSeq(q, Len(q) - QueueMax + 1, Len(q)) \in Seq(Signals)
    BY <1>1, <2>2
  <2>4. Len(SubSeq(q, Len(q) - QueueMax + 1, Len(q))) = QueueMax
    BY <1>0, <1>1, <2>2
  <2> DEFINE r == SubSeq(q, Len(q) - QueueMax + 1, Len(q))
  <2> HIDE DEF r
  <2>5. Enqueued(x) = r /\ r \in Seq(Signals) /\ Len(r) = QueueMax
    BY <2>1, <2>3, <2>4 DEF r
  <2> QED BY <2>5
<1> QED BY <1>3, <1>4

\* The phone begins with its invariant,
LEMMA PhoneStarts == PhoneInit => PhoneTypes /\ PhoneInv
BY DEF PhoneInit, PhoneTypes, PhoneInv, TakenIsThere, OneAck, ArrivingCovers, ReadCovered

\* keeps its types,
LEMMA PhoneTyped == PhoneTypes /\ [PhoneNext]_phone => PhoneTypes'
<1> SUFFICES ASSUME PhoneTypes, [PhoneNext]_phone PROVE PhoneTypes'
  OBVIOUS
<1>l. Lossy => losses' \in Nat
  BY DEF Lossy, PhoneTypes
<1>1. ASSUME NEW x \in Signals, Notify(x) PROVE PhoneTypes'
  <2>1. Enqueued(x) \in Seq(Signals)
    BY EnqueuedCovers DEF PhoneTypes
  <2> QED BY <1>1, <2>1 DEF PhoneTypes, Notify, uploads
<1>2. ASSUME NEW s \in Uploads, Peek(s) PROVE PhoneTypes'
  BY <1>2 DEF PhoneTypes, Peek
<1>3. ASSUME NEW s \in Uploads, Receive(s) PROVE PhoneTypes'
  <2>1. seen' \in [Uploads -> Seq(Signals)] /\ todo' \in [Uploads -> Seq(Signals)]
    <3>1. <<>> \in Seq(Signals) /\ seen' = [seen EXCEPT ![s] = <<>>]
      BY <1>3 DEF Receive
    <3>2. seen' \in [Uploads -> Seq(Signals)]
      BY <3>1 DEF PhoneTypes
    <3>3. todo' = todo \/ todo' = [todo EXCEPT ![s] = seen[s]]
      BY <1>3 DEF Receive
    <3> QED BY <3>2, <3>3 DEF PhoneTypes
  <2>2. up' \in [Uploads -> {"idle", "send", "server", "orphan", "ack"}]
    BY <1>3 DEF PhoneTypes, Receive, Leave
  <2>3. acks' \in [Uploads -> SUBSET Signals]
    BY <1>3 DEF PhoneTypes, Receive
  <2> QED BY <1>3, <2>1, <2>2, <2>3 DEF PhoneTypes, Receive
<1>4. ASSUME NEW s \in Uploads, Ingest(s) PROVE PhoneTypes'
  <2>1. Head(todo[s]) \in Signals /\ Tail(todo[s]) \in Seq(Signals)
    BY <1>4 DEF PhoneTypes, Ingest
  <2>2. acks' \in [Uploads -> SUBSET Signals] /\ cloudHas' \subseteq Signals
    BY <1>4, <2>1 DEF PhoneTypes, Ingest, Taken
  <2>3. todo' \in [Uploads -> Seq(Signals)]
    BY <1>4, <2>1 DEF PhoneTypes, Ingest
  <2> QED BY <1>4, <2>2, <2>3 DEF PhoneTypes, Ingest
<1>5. ASSUME NEW s \in Uploads, Answered(s) PROVE PhoneTypes'
  BY <1>5 DEF PhoneTypes, Answered, Leave
<1>6. ASSUME NEW s \in Uploads, Acknowledge(s) PROVE PhoneTypes'
  <2>1. Without(seen[s], acks[s]) \in Seq(Signals)
    BY PhoneWithout DEF PhoneTypes
  <2> QED BY <1>6, <2>1 DEF PhoneTypes, Acknowledge, Leave
<1>7. ASSUME NEW s \in Uploads, FailUpload(s) PROVE PhoneTypes'
  <2>1. losses' \in Nat
    BY <1>7, <1>l DEF FailUpload
  <2>2. up' \in [Uploads -> {"idle", "send", "server", "orphan", "ack"}]
    BY <1>7 DEF PhoneTypes, FailUpload, Leave
  <2>3. <<>> \in Seq(Signals) /\ {} \in SUBSET Signals
    OBVIOUS
  <2>4. seen' \in [Uploads -> Seq(Signals)] /\ todo' \in [Uploads -> Seq(Signals)] /\ acks' \in [Uploads -> SUBSET Signals]
    BY <1>7, <2>3 DEF PhoneTypes, FailUpload
  <2> QED BY <1>7, <2>1, <2>2, <2>4 DEF PhoneTypes, FailUpload
<1>8. CASE Store \/ Flush
  <2>1. queue' \in Seq(Signals) /\ arriving' \in Seq(Signals) /\ disk' \in Seq(Signals)
    <3>1. <<>> \in Seq(Signals)
      OBVIOUS
    <3> QED BY <1>8, <3>1 DEF PhoneTypes, Store, Flush
  <2>2. UNCHANGED <<cloudHas, up, seen, todo, acks, posts, losses>>
    BY <1>8 DEF Store, Flush, uploads
  <2> QED BY <2>1, <2>2 DEF PhoneTypes
<1>9. CASE Kill
  BY <1>9, <1>l DEF PhoneTypes, Kill
<1>10. CASE UNCHANGED phone
  BY <1>10 DEF PhoneTypes, phone, uploads
<1> QED BY <1>1, <1>2, <1>3, <1>4, <1>5, <1>6, <1>7, <1>8, <1>9, <1>10 DEF PhoneNext, UploadStep

\* and keeps its invariant.
LEMMA PhoneKept == PhoneTypes /\ PhoneTypes' /\ PhoneInv /\ [PhoneNext]_phone => PhoneInv'
<1> SUFFICES ASSUME PhoneTypes, PhoneTypes', PhoneInv, [PhoneNext]_phone PROVE PhoneInv'
  OBVIOUS
<1> USE DEF PhoneInv
<1>1. ASSUME NEW x \in Signals, Notify(x) PROVE PhoneInv'
  <2>1. TakenIsThere' /\ OneAck'
    BY <1>1 DEF TakenIsThere, OneAck, Notify, uploads
  <2>2. arriving' # <<>> => arriving' = Enqueued(x)
    BY <1>1 DEF Notify
  <2>3. UNCHANGED <<queue, cloudHas, up, seen>>
    BY <1>1 DEF Notify, uploads
  <2>4. Len(Enqueued(x)) = QueueMax \/ (Items(queue) \subseteq Items(Enqueued(x)) /\ Len(queue) # QueueMax)
    BY EnqueuedCovers DEF PhoneTypes
  <2>5. ArrivingCovers'
    BY <2>2, <2>3, <2>4 DEF ArrivingCovers, Covers
  <2>6. ReadCovered'
    BY <2>2, <2>3, <2>4 DEF ReadCovered, Covers
  <2> QED BY <2>1, <2>5, <2>6
<1>2. ASSUME NEW s \in Uploads, Peek(s) PROVE PhoneInv'
  <2>1. UNCHANGED <<queue, arriving, cloudHas, acks>> /\ \A t \in Uploads : up'[t] # "ack"
    BY <1>2 DEF Peek, PluginFree, PhoneTypes
  <2> QED BY <2>1 DEF TakenIsThere, OneAck, ArrivingCovers, ReadCovered, Covers
<1>3. ASSUME NEW s \in Uploads, Receive(s) \/ FailUpload(s) PROVE PhoneInv'
  <2>1. UNCHANGED <<queue, arriving, cloudHas>>
    BY <1>3 DEF Receive, FailUpload
  <2>2. \A t \in Uploads : acks'[t] \subseteq acks[t]
    BY <1>3 DEF Receive, FailUpload, PhoneTypes
  <2>3. \A t \in Uploads : up'[t] = "ack" => up[t] = "ack" /\ seen'[t] = seen[t]
    BY <1>3 DEF Receive, FailUpload, Leave, PhoneTypes
  <2> QED BY <2>1, <2>2, <2>3 DEF TakenIsThere, OneAck, ArrivingCovers, ReadCovered, Covers
<1>4. ASSUME NEW s \in Uploads, Ingest(s) PROVE PhoneInv'
  <2>1. UNCHANGED <<queue, arriving, up, seen>> /\ cloudHas \subseteq cloudHas'
    BY <1>4 DEF Ingest
  <2>2. TakenIsThere'
    BY <1>4 DEF Ingest, TakenIsThere, Taken, PhoneTypes
  <2> QED BY <2>1, <2>2 DEF OneAck, ArrivingCovers, ReadCovered, Covers
<1>5. ASSUME NEW s \in Uploads, Answered(s) PROVE PhoneInv'
  <2>1. UNCHANGED <<queue, arriving, cloudHas>> /\ \A t \in Uploads : acks'[t] \subseteq acks[t]
    BY <1>5 DEF Answered, PhoneTypes
  <2>2. CASE up[s] = "orphan" \/ acks[s] = {}
    <3>1. \A t \in Uploads : up'[t] = "ack" => up[t] = "ack" /\ seen'[t] = seen[t]
      BY <1>5, <2>2 DEF Answered, Leave, PhoneTypes
    <3> QED BY <2>1, <3>1 DEF TakenIsThere, OneAck, ArrivingCovers, ReadCovered, Covers
  <2>3. CASE ~(up[s] = "orphan" \/ acks[s] = {})
    <3>1. \A t \in Uploads : up'[t] = "ack" => t = s /\ seen'[t] = queue
      BY <1>5, <2>3 DEF Answered, Leave, PluginFree, PhoneTypes
    <3> QED BY <2>1, <3>1 DEF TakenIsThere, OneAck, ArrivingCovers, ReadCovered, Covers
  <2> QED BY <2>2, <2>3
<1>6. ASSUME NEW s \in Uploads, Acknowledge(s) PROVE PhoneInv'
  <2>1. UNCHANGED <<arriving, cloudHas>> /\ \A t \in Uploads : acks'[t] \subseteq acks[t]
    BY <1>6 DEF Acknowledge, PhoneTypes
  <2>2. \A t \in Uploads : up'[t] # "ack"
    BY <1>6 DEF Acknowledge, Leave, OneAck, PhoneTypes
  <2>3. Items(queue') \subseteq Items(seen[s])
    BY <1>6, PhoneWithout DEF Acknowledge, PhoneTypes
  <2>4. arriving # <<>> => Covers(arriving, Items(seen[s]))
    BY <1>6 DEF Acknowledge, ReadCovered
  <2> QED BY <2>1, <2>2, <2>3, <2>4 DEF TakenIsThere, OneAck, ArrivingCovers, ReadCovered, Covers
<1>7. CASE Store
  BY <1>7 DEF Store, uploads, TakenIsThere, OneAck, ArrivingCovers, ReadCovered, Covers
<1>8. CASE Flush \/ UNCHANGED phone
  BY <1>8 DEF Flush, phone, uploads, TakenIsThere, OneAck, ArrivingCovers, ReadCovered, Covers
<1>9. CASE Kill
  <2>1. arriving' = <<>> /\ cloudHas' = cloudHas /\ \A t \in Uploads : up'[t] # "ack" /\ acks'[t] \subseteq acks[t]
    BY <1>9 DEF Kill, PhoneTypes
  <2> QED BY <2>1 DEF TakenIsThere, OneAck, ArrivingCovers, ReadCovered
<1> QED BY <1>1, <1>2, <1>3, <1>4, <1>5, <1>6, <1>7, <1>8, <1>9 DEF PhoneNext, UploadStep

\* A signal leaves the queue only when the server has it, when newer ones push it out, with a kill
\* or under an acknowledgement that had read the queue before it came, for any number of signals,
\* uploads and losses and any limits (NothingForgotten).
THEOREM PhoneForgetsNothing == PhoneSpec => NothingForgotten
<1> DEFINE Ways == \A x \in Items(queue) \ Items(queue') :
                      x \in cloudHas \/ PushedOut(x) \/ Killed(x) \/ Overwritten(x)
<1>1. ASSUME PhoneTypes, PhoneInv, [PhoneNext]_phone PROVE [Ways]_phone
  <2> USE <1>1
  <2> SUFFICES ASSUME NEW x \in Items(queue), x \notin Items(queue')
               PROVE  x \in cloudHas \/ PushedOut(x) \/ Killed(x) \/ Overwritten(x)
    OBVIOUS
  <2>0. queue' # queue
    OBVIOUS
  <2>1. CASE Store
    BY <2>1 DEF Store, PhoneInv, ArrivingCovers, Covers, PushedOut
  <2>2. CASE Kill
    BY <2>2 DEF Kill, Lossy, Killed, PhoneTypes
  <2>3. ASSUME NEW s \in Uploads, Acknowledge(s)
        PROVE  x \in cloudHas \/ Overwritten(x)
    <3>1. Items(queue') = Items(seen[s]) \ acks[s]
      BY <2>3, PhoneWithout DEF Acknowledge, PhoneTypes
    <3>2. up[s] = "ack" /\ up'[s] = "idle"
      BY <2>3 DEF Acknowledge, Leave, PhoneTypes
    <3> QED BY <3>1, <3>2 DEF Overwritten, PhoneInv, TakenIsThere
  <2>4. queue' = queue \/ Store \/ Kill \/ \E s \in Uploads : Acknowledge(s)
    BY <1>1 DEF PhoneNext, UploadStep, Notify, Peek, Receive, Ingest, Answered, FailUpload, Flush, phone
  <2> QED BY <2>0, <2>1, <2>2, <2>3, <2>4
<1> QED BY <1>1, PhoneStarts, PhoneTyped, PhoneKept, PTL DEF PhoneSpec, NothingForgotten

(***************************************************************************)
(* The summary of an import.                                               *)
(***************************************************************************)
\* The categories that rows name.
Categories == {CategoryOf[k] : k \in Keys}
\* A row of data_imports,
ImportType == [status : {"none", "processing", "completed"}, seen : Int, imported : Int, duplicate : Int, rejected : Int]
\* a request,
RequestType == [at : {"idle", "categories", "rows", "insert", "stats", "answer"}, record : ImportType,
                known : SUBSET Categories, row : Nat, valid : Seq(Keys), insert : Seq(Keys),
                rejected : Nat, inserted : Nat]

\* and the variables of an import have their types; what is in the ledger was posted.
ImportTypes ==
  /\ file \in [Attempts -> Files]
  /\ page \in [Attempts -> {"ready", "waiting", "done", "stopped"}]
  /\ chunk \in [Attempts -> Nat] /\ \A a \in Attempts : chunk[a] \in 1..Len(file[a])
  /\ import \in [Attempts -> ImportType] /\ req \in [Attempts -> RequestType]
  /\ names \subseteq Categories /\ DOMAIN written = Attempts
  /\ refused \in [Attempts -> SUBSET Keys]
  /\ InLedger \subseteq everPosted

\* A row of data_imports counts the first n chunks of a file, and each of their rows is accounted for.
Counted(s, n, m, T) ==
  /\ m.seen = Len(Prefix(s, n)) /\ m.seen = m.imported + m.duplicate + m.rejected
  /\ ToSet(Prefix(s, n)) \subseteq T

\* What is true of an attempt whose request is at a statement: its file s, its chunk n, its page p,
\* its row m of data_imports, its request r, what it has written w and turned down R, and what was
\* ever posted E.
Phase(s, n, p, m, r, w, R, E) ==
  /\ r.at = "idle" /\ p = "ready" =>
       Counted(s, n - 1, m, R \cup E) /\ m.imported = w /\ m.status # "completed" /\ (n = 1 => w = 0)
  /\ r.at = "idle" /\ p # "ready" /\ m.status = "completed" =>
       n = Len(s) /\ Counted(s, n, m, R \cup E) /\ m.imported = w
  /\ r.at # "idle" => p \in {"waiting", "stopped"}
  /\ r.at \in {"categories", "rows", "insert", "stats"} =>
       r.record = m /\ m.status = "processing" /\ Counted(s, n - 1, m, R \cup E)
  /\ r.at \in {"categories", "rows", "insert"} => m.imported = w /\ r.inserted = 0
  /\ r.at \in {"categories", "rows"} => r.insert = <<>>
  /\ r.at = "categories" => r.valid = <<>> /\ r.rejected = 0
  /\ r.at = "rows" =>
       /\ r.row \in 1..(Len(s[n]) + 1) /\ Len(r.valid) + r.rejected = r.row - 1
       /\ \A i \in 1..(r.row - 1) : s[n][i] \in R \cup ToSet(r.valid)
  /\ r.at \in {"insert", "stats"} => Len(r.valid) + r.rejected = Len(s[n])
  /\ r.at = "insert" => ToSet(s[n]) \subseteq R \cup ToSet(r.valid) /\ ToSet(r.valid) \subseteq E \cup ToSet(r.insert)
  /\ r.at = "stats" => ToSet(s[n]) \subseteq R \cup E /\ w = m.imported + r.inserted /\ r.inserted = Len(r.insert)
  /\ r.at = "answer" =>
       (m.status = "completed" <=> n = Len(s)) /\ Counted(s, n, m, R \cup E) /\ m.imported = w

\* What is true of an attempt.
AttemptTrue(a) == Phase(file[a], chunk[a], page[a], import[a], req[a], written[a], refused[a], everPosted)

\* The inductive invariant of imports.
ImportInv == ImportTypes /\ \A a \in Attempts : AttemptTrue(a)

\* A file is a sequence of chunks.
LEMMA FileRead ==
  ASSUME ImportTypes, NEW a \in Attempts
  PROVE  /\ file[a] \in Seq(Seq(Keys)) /\ file[a] # <<>> /\ Len(file[a]) \in Nat
         /\ Rows(a) = file[a][chunk[a]] /\ Rows(a) \in Seq(Keys) /\ Len(Rows(a)) \in Nat
BY ImportAssumption DEF ImportTypes, Rows

\* What others post does not harm.
LEMMA PhaseGrows ==
  ASSUME NEW s, NEW n, NEW p, NEW m, NEW r, NEW w, NEW R, NEW E, NEW F, E \subseteq F,
         Phase(s, n, p, m, r, w, R, E)
  PROVE  Phase(s, n, p, m, r, w, R, F)
<1>1. \A k : Counted(s, k, m, R \cup E) => Counted(s, k, m, R \cup F)
  BY DEF Counted
<1> QED BY <1>1 DEF Phase

\* An attempt that stands while others run.
LEMMA AttemptStands ==
  ASSUME NEW a \in Attempts, AttemptTrue(a), everPosted \subseteq everPosted',
         file'[a] = file[a], chunk'[a] = chunk[a], page'[a] = page[a], import'[a] = import[a], req'[a] = req[a],
         written'[a] = written[a], refused'[a] = refused[a]
  PROVE  AttemptTrue(a)'
BY PhaseGrows DEF AttemptTrue

\* What an import and a request begin as.
LEMMA NothingTyped ==
  /\ NoImport \in ImportType /\ NoImport.status = "none" /\ NoImport.imported = 0
  /\ NoRequest \in RequestType /\ NoRequest.at = "idle"
<1>1. NoImport \in ImportType /\ NoImport.status = "none" /\ NoImport.imported = 0
  BY DEF NoImport, ImportType
<1> QED BY <1>1 DEF NoRequest, RequestType

\* Imports begin with their invariant.
LEMMA ImportStarts == ImportInit => ImportInv
<1> SUFFICES ASSUME ImportInit PROVE ImportInv
  OBVIOUS
<1>1. NoImport \in ImportType /\ NoImport.status = "none" /\ NoImport.imported = 0
  BY NothingTyped
<1>2. NoRequest \in RequestType /\ NoRequest.at = "idle"
  BY NothingTyped
<1>3. ImportTypes
  <2>1. \A f \in Files : 1 \in 1..Len(f)
    BY ImportAssumption
  <2>2. file \in [Attempts -> Files] /\ \A a \in Attempts : chunk[a] = 1
    BY DEF ImportInit
  <2>3. InLedger = {}
    BY DEF ImportInit, InLedger
  <2> QED BY <1>1, <1>2, <2>1, <2>2, <2>3 DEF ImportInit, ImportTypes
<1>4. ASSUME NEW a \in Attempts PROVE AttemptTrue(a)
  <2>1. /\ chunk[a] = 1 /\ page[a] = "ready" /\ import[a] = NoImport /\ req[a] = NoRequest
        /\ written[a] = 0
    BY DEF ImportInit
  <2>2. Counted(file[a], 0, NoImport, refused[a] \cup everPosted)
    BY DEF Counted, Prefix, NoImport, ToSet
  <2> QED BY <1>1, <1>2, <2>1, <2>2 DEF AttemptTrue, Phase
<1> QED BY <1>3, <1>4 DEF ImportInv

\* The chunk is opened: by a new row of data_imports, or by the one of the chunks before.
LEMMA OpenKept ==
  ASSUME ImportInv, NEW a \in Attempts, Open(a)
  PROVE  ImportInv'
<1> USE DEF ImportInv
<1>1. PICK m \in ImportType : /\ m = IF chunk[a] = 1 THEN [NoImport EXCEPT !.status = "processing"] ELSE import[a]
                              /\ chunk[a] = 1 => m.seen = 0 /\ m.imported = 0 /\ m.duplicate = 0 /\ m.rejected = 0
  <2>1. [NoImport EXCEPT !.status = "processing"] \in ImportType
    BY DEF NoImport, ImportType
  <2>2. /\ [NoImport EXCEPT !.status = "processing"].seen = 0 /\ [NoImport EXCEPT !.status = "processing"].imported = 0
        /\ [NoImport EXCEPT !.status = "processing"].duplicate = 0 /\ [NoImport EXCEPT !.status = "processing"].rejected = 0
    BY DEF NoImport
  <2>3. import[a] \in ImportType
    BY DEF ImportTypes
  <2> QED BY <2>1, <2>2, <2>3
<1>2. /\ page[a] = "ready" /\ req[a].at = "idle" /\ m.status = "processing"
      /\ import' = [import EXCEPT ![a] = m] /\ page' = [page EXCEPT ![a] = "waiting"]
      /\ UNCHANGED <<file, chunk, ledger, names, written, refused, everPosted>>
  BY <1>1 DEF Open, At, Show
<1>3. PICK h \in RequestType : h = [NoRequest EXCEPT !.at = "categories", !.record = m]
  BY NothingTyped DEF RequestType
<1>4. /\ h.at = "categories" /\ h.record = m /\ h.inserted = 0 /\ h.insert = <<>>
      /\ h.valid = <<>> /\ h.rejected = 0
  BY <1>3 DEF NoRequest
<1>5. req' = [req EXCEPT ![a] = h]
  BY <1>1, <1>3 DEF Open, Put
<1>6. ImportTypes'
  BY <1>2, <1>5 DEF ImportTypes, InLedger
<1>7. \A b \in Attempts \ {a} : AttemptTrue(b)'
  <2> SUFFICES ASSUME NEW b \in Attempts, b # a PROVE AttemptTrue(b)'
    OBVIOUS
  <2>1. import'[b] = import[b] /\ page'[b] = page[b] /\ req'[b] = req[b]
    BY <1>2, <1>5 DEF ImportTypes
  <2> QED BY <1>2, <2>1, AttemptStands
<1>8. AttemptTrue(a)'
  <2>1. import'[a] = m /\ page'[a] = "waiting" /\ req'[a] = h
    BY <1>2, <1>5 DEF ImportTypes
  <2>2. /\ Counted(file[a], chunk[a] - 1, import[a], refused[a] \cup everPosted)
        /\ import[a].imported = written[a] /\ (chunk[a] = 1 => written[a] = 0)
    BY <1>2 DEF AttemptTrue, Phase
  <2>3. Counted(file[a], chunk[a] - 1, m, refused[a] \cup everPosted) /\ m.imported = written[a]
    <3>1. CASE chunk[a] = 1
      <4>1. chunk[a] - 1 = 0 /\ Prefix(file[a], 0) = <<>> /\ ToSet(<<>>) = {}
        BY <3>1 DEF Prefix, ToSet
      <4> QED BY <1>1, <2>2, <3>1, <4>1 DEF Counted
    <3>2. CASE chunk[a] # 1
      BY <1>1, <2>2, <3>2
    <3> QED BY <3>1, <3>2
  <2> QED BY <1>2, <1>4, <2>1, <2>3 DEF AttemptTrue, Phase
<1> QED BY <1>6, <1>7, <1>8

\* A step of a request that only moves on in its own variables, and turns rows down.
LEMMA RequestMoves ==
  ASSUME ImportInv, NEW a \in Attempts, NEW h \in RequestType, req' = [req EXCEPT ![a] = h],
         UNCHANGED <<file, page, chunk, import, ledger, written, everPosted>>,
         names' \subseteq Categories, refused' \in [Attempts -> SUBSET Keys],
         \A b \in Attempts \ {a} : refused'[b] = refused[b],
         Phase(file[a], chunk[a], page[a], import[a], h, written[a], refused'[a], everPosted)
  PROVE  ImportInv'
<1>1. ImportTypes'
  BY DEF ImportInv, ImportTypes, InLedger
<1>2. req'[a] = h /\ \A b \in Attempts \ {a} : req'[b] = req[b]
  BY DEF ImportInv, ImportTypes
<1>3. \A b \in Attempts \ {a} : AttemptTrue(b)'
  BY <1>2, AttemptStands DEF ImportInv
<1>4. AttemptTrue(a)'
  BY <1>2 DEF AttemptTrue
<1> QED BY <1>1, <1>3, <1>4 DEF ImportInv

\* The categories are read.
LEMMA ReadKept ==
  ASSUME ImportInv, NEW a \in Attempts, ReadCategories(a)
  PROVE  ImportInv'
<1>1. /\ req[a].at = "categories" /\ req[a] \in RequestType
      /\ UNCHANGED <<file, page, chunk, import, ledger, names, written, refused, everPosted>>
  BY DEF ReadCategories, At, ImportInv, ImportTypes
<1>2. PICK h \in RequestType : h = [req[a] EXCEPT !.at = "rows", !.known = names, !.row = 1]
  BY <1>1 DEF RequestType, ImportInv, ImportTypes
<1>3. /\ h.at = "rows" /\ h.row = 1 /\ h.record = req[a].record /\ h.valid = req[a].valid
      /\ h.insert = req[a].insert /\ h.rejected = req[a].rejected /\ h.inserted = req[a].inserted
  BY <1>1, <1>2 DEF RequestType
<1>4. req' = [req EXCEPT ![a] = h]
  BY <1>2 DEF ReadCategories, Put
<1>5. Phase(file[a], chunk[a], page[a], import[a], req[a], written[a], refused[a], everPosted)
  BY DEF ImportInv, AttemptTrue
<1>6. 1 \in 1..(Len(file[a][chunk[a]]) + 1)
  BY FileRead DEF ImportInv
<1>7. h.row \in 1..(Len(file[a][chunk[a]]) + 1) /\ h.row - 1 = 0 /\ Len(h.valid) + h.rejected = 0
  BY <1>1, <1>3, <1>5, <1>6 DEF Phase
<1>8. Phase(file[a], chunk[a], page[a], import[a], h, written[a], refused[a], everPosted)
  BY <1>1, <1>3, <1>5, <1>7 DEF Phase
<1> QED BY <1>1, <1>4, <1>8, RequestMoves DEF ImportInv, ImportTypes

\* A row that is turned down.
LEMMA RejectKept ==
  ASSUME ImportInv, NEW a \in Attempts, req[a].at = "rows", req[a].row <= Len(Rows(a)), Rejected(a),
         UNCHANGED <<file, page, chunk, import, ledger, names, written, everPosted>>
  PROVE  ImportInv'
<1>1. req[a] \in RequestType /\ req[a].row \in Nat /\ req[a].rejected \in Nat /\ req[a].valid \in Seq(Keys)
  BY DEF ImportInv, ImportTypes, RequestType
<1>n. PICK n \in Nat : n = req[a].row + 1
  BY <1>1
<1>d. PICK d \in Nat : d = req[a].rejected + 1
  BY <1>1
<1>2. PICK h \in RequestType : h = [req[a] EXCEPT !.row = n, !.rejected = d]
  BY <1>1 DEF RequestType
<1>3. /\ h.at = "rows" /\ h.row = n /\ h.record = req[a].record /\ h.valid = req[a].valid
      /\ h.insert = req[a].insert /\ h.rejected = d /\ h.inserted = req[a].inserted
  BY <1>1, <1>2 DEF RequestType
<1>4. req' = [req EXCEPT ![a] = h] /\ refused' = [refused EXCEPT ![a] = refused[a] \cup {Row(a)}]
  BY <1>n, <1>d, <1>2 DEF Rejected, Put
<1>5. Phase(file[a], chunk[a], page[a], import[a], req[a], written[a], refused[a], everPosted)
  BY DEF ImportInv, AttemptTrue
<1>6. PICK t \in Seq(Keys) : t = file[a][chunk[a]] /\ Row(a) = t[req[a].row] /\ Rows(a) = t /\ Len(t) \in Nat
  BY FileRead DEF ImportInv, Row
<1>7. req[a].row \in 1..Len(t) /\ Row(a) \in Keys
  BY <1>1, <1>5, <1>6 DEF Phase
<1>8. /\ refused'[a] = refused[a] \cup {Row(a)} /\ refused' \in [Attempts -> SUBSET Keys]
      /\ \A b \in Attempts \ {a} : refused'[b] = refused[b]
  BY <1>4, <1>7 DEF ImportInv, ImportTypes
<1>9. /\ h.row \in 1..(Len(t) + 1) /\ Len(h.valid) + h.rejected = h.row - 1
      /\ \A i \in 1..(h.row - 1) : t[i] \in refused'[a] \cup ToSet(h.valid)
  <2>1. Len(req[a].valid) + req[a].rejected = req[a].row - 1 /\ Len(req[a].valid) \in Nat
    BY <1>1, <1>5 DEF Phase
  <2>2. h.row \in 1..(Len(t) + 1) /\ Len(h.valid) + h.rejected = h.row - 1
    <3>0. Len(t) \in Nat /\ req[a].row \in 1..Len(t) /\ req[a].rejected \in Nat
      BY <1>1, <1>6, <1>7
    <3>2. PICK lt, l, r, j \in Nat : lt = Len(t) /\ l = Len(req[a].valid) /\ r = req[a].row /\ j = req[a].rejected
      BY <1>1, <2>1, <3>0
    <3>3. r \in 1..lt /\ l + j = r - 1 /\ n = r + 1 /\ d = j + 1
      BY <1>n, <1>d, <2>1, <3>0, <3>2
    <3>4. n \in 1..(lt + 1) /\ l + d = n - 1
      BY <3>3
    <3>1. n \in 1..(Len(t) + 1) /\ Len(req[a].valid) + d = n - 1
      BY <3>2, <3>4
    <3> QED BY <1>3, <3>1
  <2>3. \A i \in 1..(req[a].row - 1) : t[i] \in refused[a] \cup ToSet(req[a].valid)
    BY <1>5, <1>6 DEF Phase
  <2>4. \A i \in 1..(h.row - 1) : i \in 1..(req[a].row - 1) \/ i = req[a].row
    BY <1>1, <1>n, <1>3
  <2> QED BY <1>3, <1>6, <1>8, <2>2, <2>3, <2>4
<1>10. \A k : Counted(file[a], k, import[a], refused[a] \cup everPosted)
              => Counted(file[a], k, import[a], refused'[a] \cup everPosted)
  BY <1>8 DEF Counted
<1>11. Phase(file[a], chunk[a], page[a], import[a], h, written[a], refused'[a], everPosted)
  BY <1>3, <1>5, <1>6, <1>9, <1>10 DEF Phase
<1> QED BY <1>4, <1>8, <1>11, RequestMoves DEF ImportInv, ImportTypes

\* A row that is taken.
LEMMA AcceptKept ==
  ASSUME ImportInv, NEW a \in Attempts, req[a].at = "rows", req[a].row <= Len(Rows(a)), Row(a) \notin Bad,
         NextRow(a)
  PROVE  ImportInv'
<1>1. req[a] \in RequestType /\ req[a].row \in Nat /\ req[a].rejected \in Nat /\ req[a].valid \in Seq(Keys)
  BY DEF ImportInv, ImportTypes, RequestType
<1>5. Phase(file[a], chunk[a], page[a], import[a], req[a], written[a], refused[a], everPosted)
  BY DEF ImportInv, AttemptTrue
<1>6. PICK t \in Seq(Keys) : t = file[a][chunk[a]] /\ Row(a) = t[req[a].row] /\ Rows(a) = t /\ Len(t) \in Nat
  BY FileRead DEF ImportInv, Row
<1>7. req[a].row \in 1..Len(t) /\ Row(a) \in Keys
  BY <1>1, <1>5, <1>6 DEF Phase
<1>8. names' \subseteq Categories /\ req[a].known \cup (names' \ names) \subseteq Categories
  <2>1. CategoryOf[Row(a)] \in Categories
    BY <1>7 DEF Categories
  <2>2. names \subseteq Categories /\ req[a].known \subseteq Categories
    BY <1>1 DEF ImportInv, ImportTypes, RequestType
  <2>3. names' = names \/ names' = names \cup {CategoryOf[Row(a)]}
    BY DEF NextRow
  <2> QED BY <2>1, <2>2, <2>3
<1>9. PICK v \in Seq(Keys) : v = Append(req[a].valid, Row(a)) /\ Len(v) = Len(req[a].valid) + 1
                             /\ Row(a) \in ToSet(v) /\ ToSet(req[a].valid) \subseteq ToSet(v)
  <2> DEFINE v == Append(req[a].valid, Row(a))
             q == req[a].valid
  <2>1. v \in Seq(Keys) /\ Len(v) = Len(q) + 1 /\ Len(q) \in Nat /\ v[Len(q) + 1] = Row(a) /\ \A i \in 1..Len(q) : v[i] = q[i]
    BY <1>1, <1>7
  <2>2. DOMAIN v = 1..(Len(q) + 1) /\ DOMAIN q = 1..Len(q)
    BY <1>1, <2>1
  <2>3. Len(q) + 1 \in DOMAIN v /\ \A i \in DOMAIN q : i \in DOMAIN v /\ v[i] = q[i]
    BY <2>1, <2>2
  <2> HIDE DEF v, q
  <2>4. Row(a) \in ToSet(v) /\ ToSet(q) \subseteq ToSet(v)
    BY <2>1, <2>3 DEF ToSet
  <2> QED BY <2>1, <2>4 DEF v, q
<1>n. PICK n \in Nat : n = req[a].row + 1
  BY <1>1
<1>10. PICK h \in RequestType : h = [req[a] EXCEPT !.row = n, !.valid = v,
                                                  !.known = req[a].known \cup (names' \ names)]
  BY <1>1, <1>8 DEF RequestType
<1>3. /\ h.at = "rows" /\ h.row = n /\ h.record = req[a].record /\ h.valid = v
      /\ h.insert = req[a].insert /\ h.rejected = req[a].rejected /\ h.inserted = req[a].inserted
  BY <1>1, <1>10 DEF RequestType
<1>4. req' = [req EXCEPT ![a] = h] /\ UNCHANGED <<file, page, chunk, import, ledger, written, refused, everPosted>>
  <2>1. req' = [req EXCEPT ![a] = [req[a] EXCEPT !.row = req[a].row + 1, !.valid = Append(req[a].valid, Row(a)),
                                                !.known = req[a].known \cup (names' \ names)]]
    BY DEF NextRow, Accepted, Put
  <2> QED BY <1>n, <1>9, <1>10, <2>1 DEF NextRow
<1>11. /\ h.row \in 1..(Len(t) + 1) /\ Len(h.valid) + h.rejected = h.row - 1
       /\ \A i \in 1..(h.row - 1) : t[i] \in refused[a] \cup ToSet(h.valid)
  <2>1. Len(req[a].valid) + req[a].rejected = req[a].row - 1 /\ Len(req[a].valid) \in Nat
    BY <1>1, <1>5 DEF Phase
  <2>2. h.row \in 1..(Len(t) + 1) /\ Len(h.valid) + h.rejected = h.row - 1
    <3>0. Len(t) \in Nat /\ req[a].row \in 1..Len(t) /\ req[a].rejected \in Nat /\ Len(v) = Len(req[a].valid) + 1
      BY <1>1, <1>6, <1>7, <1>9
    <3>2. PICK lt, l, r, j \in Nat : lt = Len(t) /\ l = Len(req[a].valid) /\ r = req[a].row /\ j = req[a].rejected
      BY <1>1, <2>1, <3>0
    <3>3. r \in 1..lt /\ l + j = r - 1 /\ n = r + 1 /\ Len(v) = l + 1
      BY <1>n, <2>1, <3>0, <3>2
    <3>4. n \in 1..(lt + 1) /\ l + 1 + j = n - 1
      BY <3>3
    <3>1. n \in 1..(Len(t) + 1) /\ Len(v) + req[a].rejected = n - 1
      BY <3>2, <3>3, <3>4
    <3> QED BY <1>3, <3>1
  <2>3. \A i \in 1..(req[a].row - 1) : t[i] \in refused[a] \cup ToSet(req[a].valid)
    BY <1>5, <1>6 DEF Phase
  <2>4. \A i \in 1..(h.row - 1) : i \in 1..(req[a].row - 1) \/ i = req[a].row
    BY <1>1, <1>n, <1>3
  <2> QED BY <1>3, <1>6, <1>9, <2>2, <2>3, <2>4
<1>12. Phase(file[a], chunk[a], page[a], import[a], h, written[a], refused[a], everPosted)
  BY <1>3, <1>5, <1>6, <1>11 DEF Phase
<1> QED BY <1>4, <1>8, <1>12, RequestMoves DEF ImportInv, ImportTypes

\* What is not in the ledger is left to insert.
LEMMA CompareKept ==
  ASSUME ImportInv, NEW a \in Attempts, Compare(a)
  PROVE  ImportInv'
<1>1. /\ req[a].at = "rows" /\ req[a].row > Len(Rows(a)) /\ req[a] \in RequestType /\ req[a].valid \in Seq(Keys)
      /\ req[a].row \in Nat
      /\ UNCHANGED <<file, page, chunk, import, ledger, names, written, refused, everPosted>>
  BY DEF Compare, At, ImportInv, ImportTypes, RequestType
<1>2. PICK new \in Seq(Keys) : new = Without(req[a].valid, InLedger) /\ ToSet(new) = ToSet(req[a].valid) \ InLedger
  BY <1>1, WithoutItems
<1>3. PICK w \in {"stats", "insert"} : w = IF new = <<>> THEN "stats" ELSE "insert"
  OBVIOUS
<1>4. PICK h \in RequestType : h = [req[a] EXCEPT !.insert = new, !.at = w]
  BY <1>1 DEF RequestType
<1>5. /\ h.at = w /\ h.record = req[a].record /\ h.valid = req[a].valid /\ h.insert = new
      /\ h.rejected = req[a].rejected /\ h.inserted = req[a].inserted
  BY <1>1, <1>4 DEF RequestType
<1>6. req' = [req EXCEPT ![a] = h]
  BY <1>2, <1>3, <1>4 DEF Compare, Put
<1>7. Phase(file[a], chunk[a], page[a], import[a], req[a], written[a], refused[a], everPosted)
  BY DEF ImportInv, AttemptTrue
<1>8. PICK t \in Seq(Keys) : t = file[a][chunk[a]] /\ Rows(a) = t /\ Len(t) \in Nat
  BY FileRead DEF ImportInv
<1>9. req[a].row = Len(t) + 1
  BY <1>1, <1>7, <1>8 DEF Phase
<1>10. Len(h.valid) + h.rejected = Len(t) /\ ToSet(t) \subseteq refused[a] \cup ToSet(h.valid)
  <2>1. /\ Len(req[a].valid) + req[a].rejected = req[a].row - 1
        /\ \A i \in 1..(req[a].row - 1) : t[i] \in refused[a] \cup ToSet(req[a].valid)
    BY <1>1, <1>7, <1>8 DEF Phase
  <2>2. req[a].row - 1 = Len(t)
    BY <1>8, <1>9
  <2>3. Len(req[a].valid) + req[a].rejected = Len(t) /\ \A i \in 1..Len(t) : t[i] \in refused[a] \cup ToSet(req[a].valid)
    BY <2>1, <2>2
  <2> QED BY <1>5, <1>8, <2>3 DEF ToSet
<1>11. ToSet(h.valid) \subseteq everPosted \cup ToSet(h.insert)
  BY <1>2, <1>5 DEF ImportInv, ImportTypes
<1>12. w = "stats" => ToSet(t) \subseteq refused[a] \cup everPosted /\ Len(h.insert) = 0
  <2>1. ToSet(<<>>) = {} /\ Len(<<>>) = 0
    BY DEF ToSet
  <2> QED BY <1>3, <1>5, <1>10, <1>11, <2>1
<1>13. import[a] \in ImportType /\ import[a].imported \in Int
  BY DEF ImportInv, ImportTypes, ImportType
<1>14. Phase(file[a], chunk[a], page[a], import[a], h, written[a], refused[a], everPosted)
  BY <1>1, <1>3, <1>5, <1>7, <1>8, <1>10, <1>11, <1>12, <1>13 DEF Phase
<1> QED BY <1>1, <1>6, <1>14, RequestMoves DEF ImportInv, ImportTypes

\* Keys that an attempt posts.
LEMMA PostKept ==
  ASSUME ImportTypes, NEW a \in Attempts, NEW keys, Post(a, keys)
  PROVE  /\ InLedger' \subseteq everPosted' /\ everPosted' = everPosted \cup keys
         /\ DOMAIN written' = Attempts /\ written'[a] = written[a] + Cardinality(keys)
         /\ \A b \in Attempts \ {a} : written'[b] = written[b]
<1>1. InLedger' \subseteq InLedger \cup keys
  BY DEF Post, InLedger
<1>2. everPosted' = everPosted \cup keys
  BY DEF Post
<1>3. written' = [written EXCEPT ![a] = written[a] + Cardinality(keys)] /\ DOMAIN written = Attempts
  BY DEF Post, ImportTypes
<1> QED BY <1>1, <1>2, <1>3 DEF ImportTypes

\* The attempt is given up: its request is gone and its import is not completed.
LEMMA GivenUp ==
  ASSUME ImportInv, NEW a \in Attempts, req[a].at \in {"categories", "rows", "insert", "stats"},
         req' = [req EXCEPT ![a] = NoRequest], page' = [page EXCEPT ![a] = "stopped"],
         UNCHANGED <<file, chunk, import, names, refused>>,
         InLedger' \subseteq everPosted', everPosted \subseteq everPosted', DOMAIN written' = Attempts,
         \A b \in Attempts \ {a} : written'[b] = written[b]
  PROVE  ImportInv'
<1>1. ImportTypes'
  BY NothingTyped DEF ImportInv, ImportTypes
<1>2. /\ req'[a] = NoRequest /\ page'[a] = "stopped"
      /\ \A b \in Attempts \ {a} : req'[b] = req[b] /\ page'[b] = page[b]
  BY DEF ImportInv, ImportTypes
<1>3. \A b \in Attempts \ {a} : AttemptTrue(b)'
  BY <1>2, AttemptStands DEF ImportInv
<1>4. import[a].status = "processing"
  BY DEF ImportInv, AttemptTrue, Phase
<1>5. AttemptTrue(a)'
  BY <1>2, <1>4, NothingTyped DEF AttemptTrue, Phase
<1> QED BY <1>1, <1>3, <1>5 DEF ImportInv

\* The chunk is inserted, or refused as a whole.
LEMMA InsertKept ==
  ASSUME ImportInv, NEW a \in Attempts, Insert(a)
  PROVE  ImportInv'
<1>1. /\ req[a].at = "insert" /\ req[a] \in RequestType /\ req[a].insert \in Seq(Keys)
      /\ UNCHANGED <<file, chunk, import, names, refused>>
  BY DEF Insert, At, ImportInv, ImportTypes, RequestType
<1> DEFINE keys == ToSet(req[a].insert)
<1>2. CASE keys \cap InLedger = {} /\ Cardinality(keys) = Len(req[a].insert)
  <2>1. PICK l \in Nat : l = Len(req[a].insert)
    BY <1>1
  <2>2. PICK h \in RequestType : h = [req[a] EXCEPT !.at = "stats", !.inserted = l]
    BY <1>1 DEF RequestType
  <2>3. /\ h.at = "stats" /\ h.record = req[a].record /\ h.valid = req[a].valid /\ h.insert = req[a].insert
        /\ h.rejected = req[a].rejected /\ h.inserted = l
    BY <1>1, <2>2 DEF RequestType
  <2>4. req' = [req EXCEPT ![a] = h] /\ page' = page /\ Post(a, keys)
    BY <1>2, <2>1, <2>2 DEF Insert, Put
  <2>5. /\ InLedger' \subseteq everPosted' /\ everPosted' = everPosted \cup keys
        /\ DOMAIN written' = Attempts /\ written'[a] = written[a] + l
        /\ \A b \in Attempts \ {a} : written'[b] = written[b]
    BY <1>2, <2>1, <2>4, PostKept DEF ImportInv
  <2>6. ImportTypes'
    BY <1>1, <2>4, <2>5 DEF ImportInv, ImportTypes
  <2>7. req'[a] = h /\ \A b \in Attempts \ {a} : req'[b] = req[b]
    BY <2>4 DEF ImportInv, ImportTypes
  <2>8. \A b \in Attempts \ {a} : AttemptTrue(b)'
    BY <1>1, <2>4, <2>5, <2>7, AttemptStands DEF ImportInv
  <2>9. Phase(file[a], chunk[a], page[a], import[a], req[a], written[a], refused[a], everPosted')
    BY <2>5, PhaseGrows DEF ImportInv, AttemptTrue
  <2>10. ToSet(file[a][chunk[a]]) \subseteq refused[a] \cup everPosted'
    BY <1>1, <2>5, <2>9 DEF Phase
  <2>11. Phase(file[a], chunk[a], page[a], import[a], h, written'[a], refused[a], everPosted')
    BY <1>1, <2>1, <2>3, <2>5, <2>9, <2>10 DEF Phase
  <2>12. AttemptTrue(a)'
    BY <1>1, <2>4, <2>7, <2>11 DEF AttemptTrue
  <2> QED BY <2>6, <2>8, <2>12 DEF ImportInv
<1>3. CASE ~(keys \cap InLedger = {} /\ Cardinality(keys) = Len(req[a].insert))
  <2>1. /\ req' = [req EXCEPT ![a] = NoRequest] /\ page' = [page EXCEPT ![a] = "stopped"]
        /\ UNCHANGED <<ledger, written, everPosted>>
    BY <1>3 DEF Insert, Put, Show
  <2>2. InLedger' \subseteq everPosted' /\ DOMAIN written' = Attempts
    BY <2>1 DEF ImportInv, ImportTypes, InLedger
  <2> QED BY <1>1, <2>1, <2>2, GivenUp
<1> QED BY <1>2, <1>3

\* The request fails.
LEMMA FailKept ==
  ASSUME ImportInv, NEW a \in Attempts, FailRequest(a)
  PROVE  ImportInv'
<1>1. req[a].at \in {"categories", "rows", "insert", "stats"}
  BY DEF FailRequest, ImportInv, ImportTypes, RequestType
<1>2. /\ req' = [req EXCEPT ![a] = NoRequest] /\ page' = [page EXCEPT ![a] = "stopped"]
      /\ UNCHANGED <<file, chunk, import, names, refused>>
  BY DEF FailRequest, Put, Show
<1>3. CASE UNCHANGED <<ledger, written, everPosted>>
  <2>1. InLedger' \subseteq everPosted' /\ DOMAIN written' = Attempts
    BY <1>3 DEF ImportInv, ImportTypes, InLedger
  <2> QED BY <1>1, <1>2, <1>3, <2>1, GivenUp
<1>4. CASE Post(a, ToSet(req[a].insert))
  <2>1. /\ InLedger' \subseteq everPosted' /\ everPosted \subseteq everPosted' /\ DOMAIN written' = Attempts
        /\ \A b \in Attempts \ {a} : written'[b] = written[b]
    BY <1>4, PostKept DEF ImportInv
  <2> QED BY <1>1, <1>2, <2>1, GivenUp
<1> QED BY <1>3, <1>4 DEF FailRequest

\* The counts of the chunk are written.
LEMMA StatsKept ==
  ASSUME ImportInv, NEW a \in Attempts, Stats(a)
  PROVE  ImportInv'
<1>1. /\ req[a].at = "stats" /\ req[a] \in RequestType /\ import[a] \in ImportType /\ req[a].record = import[a]
      /\ import[a].status = "processing"
      /\ UNCHANGED <<file, page, chunk, ledger, names, written, refused, everPosted>>
  BY DEF Stats, At, ImportInv, ImportTypes, AttemptTrue, Phase
<1>2. Phase(file[a], chunk[a], page[a], import[a], req[a], written[a], refused[a], everPosted)
  BY DEF ImportInv, AttemptTrue
<1>3. PICK t \in Seq(Keys) : t = file[a][chunk[a]] /\ Rows(a) = t /\ Len(t) \in Nat
  BY FileRead DEF ImportInv
<1>4. PICK lt, lv, li, rj \in Nat : /\ lt = Len(t) /\ lv = Len(req[a].valid) /\ li = Len(req[a].insert)
                                     /\ rj = req[a].rejected /\ li = req[a].inserted /\ lv + rj = lt
  BY <1>1, <1>2, <1>3 DEF Phase, RequestType
<1>5. PICK sn, im, du, re \in Int : /\ sn = import[a].seen /\ im = import[a].imported
                                     /\ du = import[a].duplicate /\ re = import[a].rejected
  BY <1>1 DEF ImportType
<1>6. PICK st \in {"processing", "completed"} : st = IF Final(a) THEN "completed" ELSE import[a].status
  BY <1>1
<1>s. PICK s1, i1, d1, r1 \in Int : s1 = sn + lt /\ i1 = im + li /\ d1 = du + lv - li /\ r1 = re + rj
  OBVIOUS
<1>7. PICK m \in ImportType : m = [status |-> st, seen |-> s1, imported |-> i1, duplicate |-> d1, rejected |-> r1]
  BY DEF ImportType
<1>8. m.status = st /\ m.seen = s1 /\ m.imported = i1 /\ m.duplicate = d1 /\ m.rejected = r1
  BY <1>7
<1>9. import' = [import EXCEPT ![a] = m]
  BY <1>1, <1>3, <1>4, <1>5, <1>6, <1>s, <1>7 DEF Stats
<1>10. PICK h \in RequestType : h = [NoRequest EXCEPT !.at = "answer"] /\ h.at = "answer"
  <2>1. [NoRequest EXCEPT !.at = "answer"] \in RequestType
    BY NothingTyped DEF RequestType
  <2>2. [NoRequest EXCEPT !.at = "answer"].at = "answer"
    BY DEF NoRequest
  <2> QED BY <2>1, <2>2
<1>11. req' = [req EXCEPT ![a] = h]
  BY <1>10 DEF Stats, Put
<1>12. ImportTypes'
  BY <1>1, <1>9, <1>11 DEF ImportInv, ImportTypes, InLedger
<1>13. /\ req'[a] = h /\ import'[a] = m
       /\ \A b \in Attempts \ {a} : req'[b] = req[b] /\ import'[b] = import[b]
  BY <1>9, <1>11 DEF ImportInv, ImportTypes
<1>14. \A b \in Attempts \ {a} : AttemptTrue(b)'
  BY <1>1, <1>13, AttemptStands DEF ImportInv
<1>15. /\ Len(Prefix(file[a], chunk[a])) = Len(Prefix(file[a], chunk[a] - 1)) + lt
       /\ ToSet(Prefix(file[a], chunk[a])) = ToSet(Prefix(file[a], chunk[a] - 1)) \cup ToSet(t)
  <2>1. chunk[a] \in 1..Len(file[a])
    BY DEF ImportInv, ImportTypes
  <2>2. file[a] \in Seq(Seq(Keys)) /\ file[a] # <<>>
    BY FileRead DEF ImportInv
  <2>3. /\ Len(Prefix(file[a], chunk[a])) = Len(Prefix(file[a], chunk[a] - 1)) + Len(file[a][chunk[a]])
        /\ ToSet(Prefix(file[a], chunk[a])) = ToSet(Prefix(file[a], chunk[a] - 1)) \cup ToSet(file[a][chunk[a]])
    BY <2>1, <2>2, PrefixGrows
  <2> QED BY <1>3, <1>4, <2>3
<1>16. Counted(file[a], chunk[a] - 1, import[a], refused[a] \cup everPosted)
  BY <1>1, <1>2 DEF Phase
<1>17. Counted(file[a], chunk[a], m, refused[a] \cup everPosted)
  <2>1. ToSet(t) \subseteq refused[a] \cup everPosted
    BY <1>1, <1>2, <1>3 DEF Phase
  <2>2. sn = Len(Prefix(file[a], chunk[a] - 1)) /\ sn = im + du + re
    BY <1>5, <1>16 DEF Counted
  <2>3. s1 = i1 + d1 + r1
    <3>1. lv + rj = lt
      BY <1>4
    <3> QED BY <1>s, <2>2, <3>1
  <2> QED BY <1>s, <1>8, <1>15, <1>16, <2>1, <2>2, <2>3 DEF Counted
<1>18. m.imported = written[a]
  BY <1>1, <1>2, <1>4, <1>5, <1>s, <1>8 DEF Phase
<1>19. m.status = "completed" <=> chunk[a] = Len(file[a])
  BY <1>1, <1>6, <1>8 DEF Final
<1>20. page[a] \in {"waiting", "stopped"}
  BY <1>1, <1>2 DEF Phase
<1>21. AttemptTrue(a)'
  BY <1>1, <1>10, <1>13, <1>17, <1>18, <1>19, <1>20 DEF AttemptTrue, Phase
<1> QED BY <1>12, <1>14, <1>21 DEF ImportInv

\* The answer, for a page that waits or has given up.
LEMMA AnswerKept ==
  ASSUME ImportInv, NEW a \in Attempts, Answer(a)
  PROVE  ImportInv'
<1>1. /\ req[a].at = "answer" /\ req' = [req EXCEPT ![a] = NoRequest]
      /\ UNCHANGED <<file, import, ledger, names, written, refused, everPosted>>
  BY DEF Answer, At, Put
<1>2. Phase(file[a], chunk[a], page[a], import[a], req[a], written[a], refused[a], everPosted)
  BY DEF ImportInv, AttemptTrue
<1>3. chunk[a] \in 1..Len(file[a]) /\ page[a] \in {"ready", "waiting", "done", "stopped"} /\ Len(file[a]) \in Nat
  BY FileRead DEF ImportInv, ImportTypes
<1>4. PICK n \in 1..Len(file[a]), p \in {"ready", "done", "stopped"} :
        /\ chunk' = [chunk EXCEPT ![a] = n] /\ page' = [page EXCEPT ![a] = p]
        /\ \/ p \in {"done", "stopped"} /\ n = chunk[a]
           \/ p = "ready" /\ n = chunk[a] + 1 /\ chunk[a] # Len(file[a])
  <2>1. CASE page[a] # "waiting"
    <3>1. chunk' = [chunk EXCEPT ![a] = chunk[a]] /\ page' = [page EXCEPT ![a] = "stopped"] /\ page[a] = "stopped"
      BY <1>1, <1>2, <2>1 DEF Answer, Phase, ImportInv, ImportTypes
    <3> QED BY <1>3, <3>1
  <2>2. CASE page[a] = "waiting" /\ Final(a)
    <3>1. chunk' = [chunk EXCEPT ![a] = chunk[a]] /\ page' = [page EXCEPT ![a] = "done"]
      BY <2>2 DEF Answer, Show, ImportInv, ImportTypes
    <3> QED BY <1>3, <3>1
  <2>3. CASE page[a] = "waiting" /\ ~Final(a)
    <3>1. chunk' = [chunk EXCEPT ![a] = chunk[a] + 1] /\ page' = [page EXCEPT ![a] = "ready"] /\ chunk[a] # Len(file[a])
      BY <2>3 DEF Answer, Show, Final
    <3>2. chunk[a] + 1 \in 1..Len(file[a])
      BY <1>3, <3>1
    <3> QED BY <3>1, <3>2
  <2> QED BY <2>1, <2>2, <2>3
<1>5. ImportTypes'
  BY <1>1, <1>3, <1>4, NothingTyped DEF ImportInv, ImportTypes, InLedger
<1>6. /\ req'[a] = NoRequest /\ chunk'[a] = n /\ page'[a] = p
      /\ \A b \in Attempts \ {a} : req'[b] = req[b] /\ chunk'[b] = chunk[b] /\ page'[b] = page[b]
  BY <1>1, <1>4 DEF ImportInv, ImportTypes
<1>7. \A b \in Attempts \ {a} : AttemptTrue(b)'
  BY <1>1, <1>6, AttemptStands DEF ImportInv
<1>8. /\ Counted(file[a], chunk[a], import[a], refused[a] \cup everPosted) /\ import[a].imported = written[a]
      /\ (import[a].status = "completed" <=> chunk[a] = Len(file[a]))
  BY <1>1, <1>2 DEF Phase
<1>9. Phase(file[a], n, p, import[a], NoRequest, written[a], refused[a], everPosted)
  <2>1. CASE p \in {"done", "stopped"} /\ n = chunk[a]
    BY <1>8, <2>1, NothingTyped DEF Phase
  <2>2. CASE p = "ready" /\ n = chunk[a] + 1 /\ chunk[a] # Len(file[a])
    <3>1. n - 1 = chunk[a] /\ n # 1
      BY <1>3, <2>2
    <3> QED BY <1>8, <2>2, <3>1, NothingTyped DEF Phase
  <2> QED BY <1>4, <2>1, <2>2
<1>10. AttemptTrue(a)'
  BY <1>1, <1>6, <1>9 DEF AttemptTrue
<1> QED BY <1>5, <1>7, <1>10 DEF ImportInv

\* The page gives up while the request runs on.
LEMMA LoseKept ==
  ASSUME ImportInv, NEW a \in Attempts, LoseAnswer(a)
  PROVE  ImportInv'
<1>1. /\ page[a] = "waiting" /\ page' = [page EXCEPT ![a] = "stopped"]
      /\ UNCHANGED <<file, chunk, import, req, ledger, names, written, refused, everPosted>>
  BY DEF LoseAnswer, Show
<1>2. ImportTypes'
  BY <1>1 DEF ImportInv, ImportTypes, InLedger
<1>3. page'[a] = "stopped" /\ \A b \in Attempts \ {a} : page'[b] = page[b]
  BY <1>1 DEF ImportInv, ImportTypes
<1>4. \A b \in Attempts \ {a} : AttemptTrue(b)'
  BY <1>1, <1>3, AttemptStands DEF ImportInv
<1>5. AttemptTrue(a)'
  BY <1>1, <1>3 DEF ImportInv, AttemptTrue, Phase
<1> QED BY <1>2, <1>4, <1>5 DEF ImportInv

\* Every step keeps the invariant of imports.
LEMMA ImportKept == ImportInv /\ [ImportNext]_importing => ImportInv'
<1> SUFFICES ASSUME ImportInv, [ImportNext]_importing PROVE ImportInv'
  OBVIOUS
<1>1. ASSUME NEW a \in Attempts, NextRow(a) PROVE ImportInv'
  <2>1. req[a].at = "rows" /\ req[a].row <= Len(Rows(a))
    BY <1>1 DEF NextRow, At
  <2>2. CASE Row(a) \in Bad
    BY <1>1, <2>1, <2>2, RejectKept DEF NextRow
  <2> QED BY <1>1, <2>1, <2>2, AcceptKept
<1>2. ASSUME NEW a \in Attempts, CategoryFails(a) PROVE ImportInv'
  BY <1>2, RejectKept DEF CategoryFails, At
<1>3. ASSUME NEW k \in Keys, DeleteImported(k) PROVE ImportInv'
  <2>1. UNCHANGED <<file, page, chunk, import, req, names, written, refused, everPosted>>
    BY <1>3 DEF DeleteImported
  <2>2. InLedger' \subseteq InLedger
    BY <1>3 DEF DeleteImported, InLedger
  <2> QED BY <2>1, <2>2, AttemptStands DEF ImportInv, ImportTypes
<1>4. CASE UNCHANGED importing
  <2>1. UNCHANGED <<file, page, chunk, import, req, ledger, names, written, refused, everPosted>>
    BY <1>4 DEF importing
  <2>2. InLedger' = InLedger
    BY <2>1 DEF InLedger
  <2> QED BY <2>1, <2>2, AttemptStands DEF ImportInv, ImportTypes
<1> QED BY <1>1, <1>2, <1>3, <1>4, OpenKept, ReadKept, CompareKept, InsertKept, FailKept, StatsKept, AnswerKept, LoseKept
        DEF ImportNext, RequestStep

\* The summary of a completed import counts every row of its file once and says how many were
\* written, for any files, rows and number of imports, failures and deletions (SummaryTrue).
THEOREM ImportSummary == ImportSpec => []SummaryTrue
<1>1. ImportInv => SummaryTrue
  <2> SUFFICES ASSUME ImportInv, NEW a \in Attempts, import[a].status = "completed"
               PROVE  /\ import[a].seen = Len(FlattenSeq(file[a]))
                      /\ import[a].seen = import[a].imported + import[a].duplicate + import[a].rejected
                      /\ import[a].imported = written[a]
                      /\ ToSet(FlattenSeq(file[a])) \subseteq refused[a] \cup everPosted
    BY DEF SummaryTrue
  <2>1. req[a].at \in {"idle", "categories", "rows", "insert", "stats", "answer"}
    BY DEF ImportInv, ImportTypes, RequestType
  <2>2. /\ chunk[a] = Len(file[a]) /\ Counted(file[a], chunk[a], import[a], refused[a] \cup everPosted)
        /\ import[a].imported = written[a]
    BY <2>1 DEF ImportInv, AttemptTrue, Phase
  <2>3. FlattenSeq(file[a]) = Prefix(file[a], chunk[a])
    BY <2>2, FileRead, PrefixGrows DEF ImportInv
  <2> QED BY <2>2, <2>3 DEF Counted
<1> QED BY <1>1, ImportStarts, ImportKept, PTL DEF ImportSpec

(***************************************************************************)
(* Goals and investments.                                                  *)
(***************************************************************************)
\* What a goal and a contribution that is under way are made of.
GoalType == [category : Named \cup {"none"}, target : Nat, current : Nat,
             status : {"none", "active", "completed", "paused", "canceled"}]
\* A contribution that is under way.
GivingType == [goal : Goals, amount : Nat, total : Nat, target : Nat]

\* The variables of goals have their types.
GoalTypes ==
  /\ goal \in [Goals -> GoalType] /\ categories \subseteq Named
  /\ giving \in [Windows -> GivingType \cup {Nothing}]
  /\ raced \in [Goals -> BOOLEAN]

\* Goals begin with their invariant.
LEMMA GoalStarts == PortfolioInit => GoalTypes /\ ReachedIsCompleted
BY DEF PortfolioInit, GoalTypes, GoalType, NoGoal, ReachedIsCompleted, HasGoal

\* A goal that is written keeps it when the goal does not stay active after it was reached,
LEMMA GoalPut ==
  ASSUME GoalTypes, ReachedIsCompleted, NEW g \in Goals, NEW h \in GoalType, goal' = [goal EXCEPT ![g] = h],
         \A f \in Goals \ {g} : raced'[f] = raced[f],
         h # NoGoal /\ h.current >= h.target /\ ~raced'[g] => h.status # "active"
  PROVE  ReachedIsCompleted'
<1> SUFFICES ASSUME NEW f \in Goals, goal'[f] # NoGoal, goal'[f].current >= goal'[f].target, ~raced'[f]
             PROVE  goal'[f].status # "active"
  BY DEF ReachedIsCompleted, HasGoal
<1>1. CASE f = g
  BY <1>1 DEF GoalTypes
<1>2. CASE f # g
  BY <1>2 DEF GoalTypes, ReachedIsCompleted, HasGoal
<1> QED BY <1>1, <1>2

\* as every step on goals sees to,
LEMMA GoalKept == GoalTypes /\ ReachedIsCompleted /\ GoalNext => GoalTypes' /\ ReachedIsCompleted'
<1> SUFFICES ASSUME GoalTypes, ReachedIsCompleted, GoalNext PROVE GoalTypes' /\ ReachedIsCompleted'
  OBVIOUS
<1>0. Goals \subseteq Named /\ GoalMax \in Nat
  BY PortfolioAssumption
<1>1. ASSUME NEW g \in Goals, NEW c \in categories \cup {"none"}, NEW t \in 1..GoalMax, CreateGoal(g, c, t)
      PROVE  GoalTypes' /\ ReachedIsCompleted'
  <2>1. GoalCategory(g, c) \in Named /\ t \in Nat /\ t > 0
    BY <1>0 DEF GoalCategory, GoalTypes
  <2>2. PICK h \in GoalType : h = [category |-> GoalCategory(g, c), target |-> t, current |-> 0, status |-> "active"]
    BY <2>1 DEF GoalType
  <2>3. goal' = [goal EXCEPT ![g] = h] /\ UNCHANGED raced
    BY <1>1, <2>2 DEF CreateGoal, PutGoal
  <2>4. ~(h.current >= h.target)
    BY <2>1, <2>2
  <2>5. ReachedIsCompleted'
    BY <2>3, <2>4, GoalPut
  <2>6. categories' \subseteq Named /\ giving' = giving
    BY <1>1, <2>1 DEF CreateGoal, GoalTypes
  <2> QED BY <2>3, <2>5, <2>6 DEF GoalTypes
<1>2. ASSUME NEW g \in Goals, NEW c \in categories \cup {"none"}, NEW t \in 1..GoalMax,
             NEW s \in {"active", "completed", "paused", "canceled"}, NEW n \in 0..GoalMax, EditGoal(g, c, t, s, n)
      PROVE  GoalTypes' /\ ReachedIsCompleted'
  <2>1. GoalCategory(g, c) \in Named /\ t \in Nat /\ n \in Nat /\ goal[g] \in GoalType
    BY <1>0 DEF GoalCategory, GoalTypes
  <2>2. PICK st \in {"active", "completed", "paused", "canceled"} :
          st = IF n >= t /\ s = "active" THEN "completed" ELSE s
    OBVIOUS
  <2>3. PICK h \in GoalType : h = [goal[g] EXCEPT !.category = GoalCategory(g, c), !.target = t, !.status = st]
    BY <2>1, <2>2 DEF GoalType
  <2>4. h.current = goal[g].current /\ h.target = t /\ h.status = st
    BY <2>1, <2>3 DEF GoalType
  <2>5. goal' = [goal EXCEPT ![g] = h]
    BY <1>2, <2>2, <2>3 DEF EditGoal, PutGoal
  <2>6. raced' = [raced EXCEPT ![g] = n # goal[g].current]
    BY <1>2 DEF EditGoal
  <2>7. raced' \in [Goals -> BOOLEAN] /\ raced'[g] = (n # goal[g].current) /\ \A f \in Goals \ {g} : raced'[f] = raced[f]
    BY <2>6, Zenon DEF GoalTypes
  <2>8. h.current >= h.target /\ ~raced'[g] => h.status # "active"
    BY <2>2, <2>4, <2>7
  <2>9. ReachedIsCompleted'
    BY <2>5, <2>7, <2>8, GoalPut
  <2>10. categories' \subseteq Named /\ giving' = giving
    BY <1>2, <2>1 DEF EditGoal, GoalTypes
  <2> QED BY <2>5, <2>7, <2>9, <2>10 DEF GoalTypes
<1>3. ASSUME NEW g \in Goals, DeleteGoal(g) PROVE GoalTypes' /\ ReachedIsCompleted'
  <2>1. NoGoal \in GoalType
    BY DEF NoGoal, GoalType
  <2>2. goal' = [goal EXCEPT ![g] = NoGoal] /\ raced' = [raced EXCEPT ![g] = FALSE] /\ UNCHANGED <<categories, giving>>
    BY <1>3 DEF DeleteGoal, PutGoal
  <2>3. raced' \in [Goals -> BOOLEAN] /\ \A f \in Goals \ {g} : raced'[f] = raced[f]
    BY <2>2 DEF GoalTypes
  <2>4. ReachedIsCompleted'
    BY <2>1, <2>2, <2>3, GoalPut
  <2> QED BY <2>1, <2>2, <2>3, <2>4 DEF GoalTypes
<1>4. ASSUME NEW g \in Goals, NEW w \in Windows, NEW n \in 1..GoalMax, Contribute(w, g, n)
      PROVE  GoalTypes' /\ ReachedIsCompleted'
  <2>1. goal[g] \in GoalType /\ n \in Nat
    BY <1>0 DEF GoalTypes
  <2>2. goal[g].current + n \in Nat /\ goal[g].target \in Nat
    BY <2>1 DEF GoalType
  <2>3. PICK h \in GivingType : h = [goal |-> g, amount |-> n, total |-> goal[g].current + n, target |-> goal[g].target]
    BY <2>1, <2>2 DEF GivingType
  <2>4. giving' = [giving EXCEPT ![w] = h] /\ UNCHANGED <<goal, categories, raced>>
    BY <1>4, <2>3 DEF Contribute
  <2> QED BY <2>4 DEF GoalTypes, ReachedIsCompleted, HasGoal
<1>5. ASSUME NEW w \in Windows, Contributed(w) PROVE GoalTypes' /\ ReachedIsCompleted'
  <2>1. PICK c \in GivingType : c = giving[w]
    BY <1>5 DEF Contributed, GoalTypes
  <2>2. c.goal \in Goals /\ c.amount \in Nat /\ c.total \in Nat /\ c.target \in Nat /\ goal[c.goal] \in GoalType
    BY <2>1 DEF GivingType, GoalTypes
  <2>3. PICK n \in Nat : n = goal[c.goal].current + c.amount
    BY <2>2 DEF GoalType
  <2>4. PICK st \in {"none", "active", "completed", "paused", "canceled"} :
          st = Refreshed(goal[c.goal].status, c.total, c.target)
    BY <2>2 DEF Refreshed, GoalType
  <2>5. PICK h \in GoalType : h = [goal[c.goal] EXCEPT !.current = n, !.status = st]
    BY <2>2 DEF GoalType
  <2>6. h.current = n /\ h.status = st /\ h.target = goal[c.goal].target /\ h.target \in Nat
    BY <2>2, <2>5 DEF GoalType
  <2>7. goal' = [goal EXCEPT ![c.goal] = h]
    <3>1. goal' = [goal EXCEPT ![c.goal] = [goal[c.goal] EXCEPT !.current = goal[c.goal].current + c.amount,
                                            !.status = Refreshed(goal[c.goal].status, c.total, c.target)]]
      BY <1>5, <2>1 DEF Contributed, PutGoal
    <3> QED BY <2>3, <2>4, <2>5, <3>1
  <2>8. goal'[c.goal].current = n
    BY <2>2, <2>6, <2>7 DEF GoalTypes
  <2>9. raced' = [raced EXCEPT ![c.goal] = c.total # n \/ c.target # goal[c.goal].target]
    BY <1>5, <2>1, <2>8 DEF Contributed
  <2>10. /\ raced' \in [Goals -> BOOLEAN] /\ \A f \in Goals \ {c.goal} : raced'[f] = raced[f]
         /\ raced'[c.goal] = (c.total # n \/ c.target # goal[c.goal].target)
    BY <2>2, <2>9, Zenon DEF GoalTypes
  <2>11. h.current >= h.target /\ ~raced'[c.goal] => h.status # "active"
    BY <2>2, <2>4, <2>6, <2>10 DEF Refreshed
  <2>12. ReachedIsCompleted'
    BY <2>2, <2>7, <2>10, <2>11, GoalPut
  <2>13. categories' = categories /\ giving' = [giving EXCEPT ![w] = Nothing]
    BY <1>5 DEF Contributed
  <2>14. giving' \in [Windows -> GivingType \cup {Nothing}]
    BY <2>13 DEF GoalTypes
  <2> QED BY <2>2, <2>7, <2>10, <2>12, <2>13, <2>14 DEF GoalTypes
<1>6. ASSUME NEW c \in Named, CreateCategory(c) \/ DeleteCategory(c) PROVE GoalTypes' /\ ReachedIsCompleted'
  BY <1>6 DEF CreateCategory, DeleteCategory, GoalTypes, ReachedIsCompleted, HasGoal
<1> QED BY <1>1, <1>2, <1>3, <1>4, <1>5, <1>6 DEF GoalNext

\* and other steps leave goals alone.
LEMMA GoalsStand == GoalTypes /\ ReachedIsCompleted /\ UNCHANGED goalVars => GoalTypes' /\ ReachedIsCompleted'
BY DEF GoalTypes, ReachedIsCompleted, HasGoal, goalVars

\* The two figures of an investment,
Pair == [net : Nat, value : Nat]
\* a form,
FormType == [at : {"closed", "contribution", "valuation", "net", "saved"}, shown : Pair, want : Pair]

\* and the variables of the investment have their types.
InvestmentTypes ==
  /\ day \in Nat /\ contributed \in Int /\ writes \in Nat
  /\ newest \in [value : Nat, at : Int]
  /\ form \in [Windows -> FormType]

\* Whoever wrote nothing has contributed nothing; less than nothing was noticed.
FlowsKnown == (writes = 0 => contributed = 0) /\ (contributed < 0 => overdrawn)

\* A form nobody has written beside shows what the page shows, and half of it is done in its
\* second step.
FormTrue(w) ==
  w \notin outside =>
    /\ form[w].at = "contribution" => contributed = 0
    /\ form[w].at = "net" => form[w].shown.net = Shown.net /\ form[w].shown.value = newest.value
    /\ form[w].at = "valuation" => Shown.net = form[w].want.net \/ overdrawn

\* The inductive invariant of the investment.
InvestmentInv == InvestmentTypes /\ FlowsKnown /\ \A w \in Windows : FormTrue(w)

\* What a form that has saved sees, in a step (EditorAuthoritative).
Saved(w) ==
  form'[w].at = "saved" /\ form[w].at # "saved" /\ w \notin outside =>
       /\ newest'.value = form[w].want.value \/ newest'.at > day
       /\ Shown'.net = form[w].want.net \/ overdrawn'

\* What the page shows.
LEMMA NetShown ==
  /\ Shown.net = IF contributed > 0 THEN contributed ELSE 0
  /\ Shown'.net = IF contributed' > 0 THEN contributed' ELSE 0
  /\ Shown.value = newest.value
BY DEF Shown

\* The investment begins with its invariant.
LEMMA InvestmentStarts == PortfolioInit => InvestmentInv
<1> SUFFICES ASSUME PortfolioInit PROVE InvestmentInv
  OBVIOUS
<1>1. Closed \in FormType /\ Closed.at = "closed"
  BY DEF Closed, FormType, Pair
<1>2. form = [w \in Windows |-> Closed] /\ day = 0 /\ contributed = 0 /\ writes = 0 /\ overdrawn = FALSE /\ newest = NoValue
  BY DEF PortfolioInit
<1>3. NoValue \in [value : Nat, at : Int]
  BY DEF NoValue
<1>4. InvestmentTypes /\ FlowsKnown
  BY <1>1, <1>2, <1>3 DEF InvestmentTypes, FlowsKnown
<1>5. ASSUME NEW w \in Windows PROVE FormTrue(w)
  BY <1>1, <1>2 DEF FormTrue
<1> QED BY <1>4, <1>5 DEF InvestmentInv

\* A valuation is typed, and it is the newest one unless there is a later one.
LEMMA Valued ==
  ASSUME newest \in [value : Nat, at : Int], NEW v \in Nat, NEW date \in Nat, Value(v, date)
  PROVE  newest' \in [value : Nat, at : Int] /\ (newest'.value = v \/ newest'.at > date)
<1>1. CASE date >= newest.at
  <2>1. newest' = [value |-> v, at |-> date]
    BY <1>1 DEF Value
  <2> QED BY <2>1
<1>2. CASE ~(date >= newest.at)
  <2>1. newest' = newest /\ newest.at \in Int
    BY <1>2 DEF Value
  <2> QED BY <1>2, <2>1
<1> QED BY <1>1, <1>2

\* A cash flow, and what it does to the value.
LEMMA Flowed ==
  ASSUME InvestmentTypes, FlowsKnown, NEW a \in Int, NEW date \in Nat, Cashflow(a, date)
  PROVE  /\ newest' \in [value : Nat, at : Int]
         /\ contributed' = contributed + a
         /\ (overdrawn => overdrawn') /\ (contributed' < 0 => overdrawn')
<1>1. newest.value \in Nat /\ newest \in [value : Nat, at : Int]
  BY DEF InvestmentTypes
<1>2. PICK v \in Nat : v = IF newest.value + a > 0 THEN newest.value + a ELSE 0
  BY <1>1
<1>3. Value(v, date)
  BY <1>2 DEF Cashflow
<1>4. overdrawn' = (overdrawn \/ contributed' < 0) /\ contributed' = contributed + a
  BY DEF Cashflow
<1>5. (overdrawn => overdrawn') /\ (contributed' < 0 => overdrawn')
  BY <1>4, Zenon
<1> QED BY <1>1, <1>3, <1>4, <1>5, Valued

\* A form that stands, and nothing was written beside it.
LEMMA FormStands ==
  ASSUME NEW w \in Windows, FormTrue(w), form'[w] = form[w], w \notin outside' => w \notin outside,
         contributed' = contributed, newest' = newest, overdrawn' = overdrawn
  PROVE  FormTrue(w)'
BY NetShown DEF FormTrue

\* What one window writes, the others see as written beside them.
LEMMA FormWritten ==
  ASSUME NEW w \in Windows, NEW v \in Windows, v # w, Wrote(w)
  PROVE  FormTrue(v)'
BY DEF FormTrue, Wrote

\* A form that is closed promises nothing.
LEMMA ClosedForm ==
  ASSUME NEW w \in Windows, form'[w].at \in {"closed", "saved"}
  PROVE  FormTrue(w)'
BY DEF FormTrue

\* A form with another place is a form.
LEMMA Stepped ==
  ASSUME NEW f \in FormType, NEW p \in {"closed", "contribution", "valuation", "net", "saved"}
  PROVE  /\ [f EXCEPT !.at = p] \in FormType
         /\ [f EXCEPT !.at = p].at = p /\ [f EXCEPT !.at = p].shown = f.shown /\ [f EXCEPT !.at = p].want = f.want
BY DEF FormType

\* Every step on the investment keeps its invariant, and what saves sees what was entered.
LEMMA InvestmentKept ==
  InvestmentInv /\ InvestmentNext => InvestmentInv' /\ \A w \in Windows : Saved(w)
<1> SUFFICES ASSUME InvestmentInv, InvestmentNext PROVE InvestmentInv' /\ \A w \in Windows : Saved(w)
  OBVIOUS
<1> USE DEF InvestmentInv
<1>0. Amounts \subseteq Nat /\ MaxDay \in Nat /\ MaxWrites \in Nat
  BY PortfolioAssumption
<1>c. Closed \in FormType /\ Closed.at = "closed"
  BY DEF Closed, FormType, Pair
<1>1. ASSUME NEW w \in Windows, NEW want \in [net : Amounts, value : Amounts], Create(w, want)
      PROVE  InvestmentInv' /\ \A v \in Windows : Saved(v)
  <2>1. want \in Pair /\ Closed.shown \in Pair
    BY <1>0, <1>c DEF Pair, FormType
  <2>2. PICK h \in FormType : h = [Closed EXCEPT !.at = "contribution", !.want = want]
    BY <1>c, <2>1 DEF FormType
  <2>3. h.at = "contribution"
    BY <1>c, <2>2 DEF FormType
  <2>4. form' = [form EXCEPT ![w] = h] /\ contributed = 0
    BY <1>1, <2>2 DEF Create, FlowsKnown
  <2>5. form' \in [Windows -> FormType] /\ form'[w] = h /\ \A v \in Windows \ {w} : form'[v] = form[v]
    BY <2>4 DEF InvestmentTypes
  <2>6. UNCHANGED <<day, contributed, newest, overdrawn>> /\ writes' = 1 /\ outside' = outside \ {w}
    BY <1>1 DEF Create
  <2>7. \A v \in Windows \ {w} : FormTrue(v)'
    BY <2>5, <2>6, FormStands
  <2>8. FormTrue(w)'
    BY <2>3, <2>4, <2>5, <2>6 DEF FormTrue
  <2>9. InvestmentTypes' /\ FlowsKnown'
    BY <2>5, <2>6 DEF InvestmentTypes, FlowsKnown
  <2> QED BY <2>3, <2>5, <2>7, <2>8, <2>9 DEF Saved
<1>2. ASSUME NEW w \in Windows, CreateFlow(w) PROVE InvestmentInv' /\ \A v \in Windows : Saved(v)
  <2>1. form[w] \in FormType /\ form[w].at = "contribution" /\ form[w].want.net \in Nat
    BY <1>2 DEF CreateFlow, InvestmentTypes, FormType, Pair
  <2>2. PICK h \in FormType : h = [form[w] EXCEPT !.at = "valuation"] /\ h.at = "valuation" /\ h.want = form[w].want
    BY <2>1, Stepped
  <2>3. form' = [form EXCEPT ![w] = h]
    BY <1>2, <2>2 DEF CreateFlow, Step
  <2>4. form' \in [Windows -> FormType] /\ form'[w] = h /\ \A v \in Windows \ {w} : form'[v] = form[v]
    BY <2>3 DEF InvestmentTypes
  <2>5. /\ UNCHANGED <<day, newest, overdrawn>> /\ writes' = writes + 1
        /\ contributed' = contributed + form[w].want.net /\ Wrote(w)
    BY <1>2 DEF CreateFlow, Room
  <2>6. \A v \in Windows \ {w} : FormTrue(v)'
    BY <2>5, FormWritten
  <2>7. FormTrue(w)'
    <3> SUFFICES ASSUME w \notin outside PROVE Shown'.net = h.want.net
      BY <2>2, <2>4, <2>5 DEF FormTrue, Wrote
    <3>1. contributed = 0
      BY <2>1 DEF FormTrue
    <3> QED BY <2>1, <2>2, <2>5, <3>1, NetShown
  <2>8. InvestmentTypes' /\ FlowsKnown'
    BY <2>1, <2>4, <2>5 DEF InvestmentTypes, FlowsKnown
  <2> QED BY <2>2, <2>4, <2>6, <2>7, <2>8 DEF Saved
<1>3. ASSUME NEW w \in Windows, NEW date \in 0..MaxDay, Update(w, date)
      PROVE  InvestmentInv' /\ \A v \in Windows : Saved(v)
  <2>1. date \in Nat
    BY <1>0
  <2>2. UNCHANGED <<day, form>> /\ writes' = writes + 1 /\ Wrote(w) /\ form[w].at = "closed"
    BY <1>3 DEF Update, Room
  <2>3. /\ newest' \in [value : Nat, at : Int] /\ contributed' \in Int
        /\ (contributed' < 0 => overdrawn')
    <3>1. ASSUME NEW v \in Amounts, Value(v, date), UNCHANGED <<contributed, overdrawn>>
          PROVE  newest' \in [value : Nat, at : Int] /\ contributed' \in Int /\ (contributed' < 0 => overdrawn')
      BY <1>0, <2>1, <3>1, Valued DEF InvestmentTypes, FlowsKnown
    <3>2. ASSUME NEW a \in Int, Cashflow(a, date)
          PROVE  newest' \in [value : Nat, at : Int] /\ contributed' \in Int /\ (contributed' < 0 => overdrawn')
      <4>1. newest' \in [value : Nat, at : Int] /\ contributed' = contributed + a /\ (contributed' < 0 => overdrawn')
        BY <2>1, <3>2, Flowed
      <4> QED BY <4>1 DEF InvestmentTypes
    <3>3. \A a \in Amounts : a \in Int /\ -a \in Int
      BY <1>0
    <3> QED BY <1>3, <3>1, <3>2, <3>3 DEF Update
  <2>4. \A v \in Windows \ {w} : FormTrue(v)'
    BY <2>2, FormWritten
  <2>5. FormTrue(w)'
    BY <2>2, ClosedForm
  <2>6. InvestmentTypes' /\ FlowsKnown'
    BY <2>2, <2>3 DEF InvestmentTypes, FlowsKnown
  <2> QED BY <2>2, <2>4, <2>5, <2>6 DEF Saved
<1>4. ASSUME NEW w \in Windows, NEW want \in [net : Amounts, value : Amounts], Edit(w, want)
      PROVE  InvestmentInv' /\ \A v \in Windows : Saved(v)
  <2>1. want \in Pair /\ Shown \in Pair
    <3>1. PICK n \in Nat : n = IF contributed > 0 THEN contributed ELSE 0
      BY DEF InvestmentTypes
    <3>2. Shown = [net |-> n, value |-> newest.value] /\ newest.value \in Nat
      BY <3>1 DEF Shown, InvestmentTypes
    <3> QED BY <1>0, <3>2 DEF Pair
  <2>2. PICK h \in FormType : h = [at |-> "net", shown |-> Shown, want |-> want]
    BY <2>1 DEF FormType
  <2>3. h.at = "net" /\ h.shown = Shown
    BY <2>2
  <2>4. form' = [form EXCEPT ![w] = h]
    BY <1>4, <2>2 DEF Edit
  <2>5. form' \in [Windows -> FormType] /\ form'[w] = h /\ \A v \in Windows \ {w} : form'[v] = form[v]
    BY <2>4 DEF InvestmentTypes
  <2>6. UNCHANGED <<day, contributed, newest, overdrawn, writes>> /\ outside' = outside \ {w}
    BY <1>4 DEF Edit
  <2>7. \A v \in Windows \ {w} : FormTrue(v)'
    BY <2>5, <2>6, FormStands
  <2>8. FormTrue(w)'
    BY <2>3, <2>5, <2>6, NetShown DEF FormTrue
  <2>9. InvestmentTypes' /\ FlowsKnown'
    BY <2>5, <2>6 DEF InvestmentTypes, FlowsKnown
  <2> QED BY <2>3, <2>5, <2>7, <2>8, <2>9 DEF Saved
<1>5. ASSUME NEW w \in Windows, CorrectNet(w) PROVE InvestmentInv' /\ \A v \in Windows : Saved(v)
  <2>1. form[w] \in FormType /\ form[w].at = "net" /\ form[w].want \in Pair /\ form[w].shown \in Pair
    BY <1>5 DEF CorrectNet, InvestmentTypes, FormType
  <2>2. PICK wn, wv, sn, sv \in Nat : /\ wn = form[w].want.net /\ wv = form[w].want.value
                                       /\ sn = form[w].shown.net /\ sv = form[w].shown.value
    BY <2>1 DEF Pair
  <2>3. PICK h \in FormType : /\ form' = [form EXCEPT ![w] = h]
                              /\ \/ h.at = "valuation" /\ h.want = form[w].want
                                 \/ h.at = "saved" /\ form[w].want = form[w].shown
    <3>1. CASE ValueFollows(form[w])
      BY <1>5, <2>1, <3>1, Stepped DEF CorrectNet, Step
    <3>2. CASE ~ValueFollows(form[w])
      BY <1>5, <1>c, <3>2, Stepped DEF CorrectNet, Save, ValueFollows
    <3> QED BY <3>1, <3>2
  <2>4. form' \in [Windows -> FormType] /\ form'[w] = h /\ \A v \in Windows \ {w} : form'[v] = form[v]
    BY <2>3 DEF InvestmentTypes
  <2>5. day' = day /\ writes' = writes + 1 /\ day \in Nat
    BY <1>5 DEF CorrectNet, Room, InvestmentTypes
  <2>6. CASE wn = sn
    <3>1. UNCHANGED <<contributed, newest, overdrawn, outside>>
      BY <1>5, <2>2, <2>6 DEF CorrectNet
    <3>2. \A v \in Windows \ {w} : FormTrue(v)'
      BY <2>4, <3>1, FormStands
    <3>3. w \notin outside => Shown'.net = wn /\ newest.value = sv
      BY <2>1, <2>2, <2>6, <3>1, NetShown DEF FormTrue
    <3>4. FormTrue(w)'
      BY <2>2, <2>3, <2>4, <3>1, <3>3 DEF FormTrue
    <3>5. InvestmentTypes' /\ FlowsKnown'
      BY <2>4, <2>5, <3>1 DEF InvestmentTypes, FlowsKnown
    <3>6. Saved(w)
      BY <2>2, <2>3, <2>4, <3>1, <3>3 DEF Saved
    <3> QED BY <2>4, <3>2, <3>4, <3>5, <3>6 DEF Saved
  <2>7. CASE wn # sn
    <3>1. Cashflow(wn - sn, day) /\ Wrote(w)
      BY <1>5, <2>2, <2>7 DEF CorrectNet
    <3>2. /\ newest' \in [value : Nat, at : Int] /\ contributed' = contributed + (wn - sn)
          /\ (overdrawn => overdrawn') /\ (contributed' < 0 => overdrawn')
      BY <2>5, <3>1, Flowed
    <3>3. \A v \in Windows \ {w} : FormTrue(v)'
      BY <3>1, FormWritten
    <3>4. h.at = "valuation" /\ h.want = form[w].want
      BY <2>2, <2>3, <2>7
    <3>5. w \notin outside => Shown'.net = wn \/ overdrawn'
      <4>1. w \notin outside => sn = IF contributed > 0 THEN contributed ELSE 0
        BY <2>1, <2>2, NetShown DEF FormTrue
      <4>2. contributed \in Int /\ (contributed < 0 => overdrawn) /\ Shown'.net = IF contributed' > 0 THEN contributed' ELSE 0
        BY NetShown DEF InvestmentTypes, FlowsKnown
      <4> QED BY <3>2, <4>1, <4>2
    <3>6. FormTrue(w)'
      BY <2>2, <2>4, <3>1, <3>4, <3>5 DEF FormTrue, Wrote
    <3>7. contributed' \in Int /\ (contributed' < 0 => overdrawn')
      BY <3>2 DEF InvestmentTypes
    <3>8. InvestmentTypes' /\ FlowsKnown'
      BY <2>4, <2>5, <3>2, <3>7 DEF InvestmentTypes, FlowsKnown
    <3> QED BY <2>4, <3>3, <3>4, <3>6, <3>8 DEF Saved
  <2> QED BY <2>6, <2>7
<1>6. ASSUME NEW w \in Windows, FinalValue(w) PROVE InvestmentInv' /\ \A v \in Windows : Saved(v)
  <2>1. form[w] \in FormType /\ form[w].at = "valuation" /\ form[w].want.value \in Nat /\ day \in Nat
    BY <1>6 DEF FinalValue, InvestmentTypes, FormType, Pair
  <2>2. PICK h \in FormType : form' = [form EXCEPT ![w] = h] /\ h.at = "saved"
    BY <1>6, <1>c, Stepped DEF FinalValue, Save
  <2>3. form' \in [Windows -> FormType] /\ form'[w] = h /\ \A v \in Windows \ {w} : form'[v] = form[v]
    BY <2>2 DEF InvestmentTypes
  <2>4. UNCHANGED <<day, contributed, overdrawn>> /\ writes' = writes + 1 /\ Wrote(w) /\ Value(form[w].want.value, day)
    BY <1>6 DEF FinalValue, Room
  <2>5. newest' \in [value : Nat, at : Int] /\ (newest'.value = form[w].want.value \/ newest'.at > day)
    BY <2>1, <2>4, Valued DEF InvestmentTypes
  <2>6. \A v \in Windows \ {w} : FormTrue(v)'
    BY <2>4, FormWritten
  <2>7. FormTrue(w)'
    BY <2>2, <2>3, ClosedForm
  <2>8. InvestmentTypes' /\ FlowsKnown'
    BY <2>3, <2>4, <2>5 DEF InvestmentTypes, FlowsKnown
  <2>9. w \notin outside => Shown'.net = form[w].want.net \/ overdrawn'
    BY <2>1, <2>4, NetShown DEF FormTrue
  <2> QED BY <2>3, <2>5, <2>6, <2>7, <2>8, <2>9 DEF Saved
<1>7. ASSUME NEW w \in Windows, Close(w) PROVE InvestmentInv' /\ \A v \in Windows : Saved(v)
  <2>1. form' = [form EXCEPT ![w] = Closed] /\ outside' = outside \ {w} /\ UNCHANGED <<day, contributed, newest, overdrawn, writes>>
    BY <1>7 DEF Close
  <2>2. form' \in [Windows -> FormType] /\ form'[w] = Closed /\ \A v \in Windows \ {w} : form'[v] = form[v]
    BY <1>c, <2>1 DEF InvestmentTypes
  <2>3. \A v \in Windows \ {w} : FormTrue(v)'
    BY <2>1, <2>2, FormStands
  <2>4. FormTrue(w)'
    BY <1>c, <2>2, ClosedForm
  <2>5. InvestmentTypes' /\ FlowsKnown'
    BY <2>1, <2>2 DEF InvestmentTypes, FlowsKnown
  <2> QED BY <1>c, <2>2, <2>3, <2>4, <2>5 DEF Saved
<1>8. CASE NextDay
  <2>1. UNCHANGED <<contributed, newest, overdrawn, writes, form, outside>> /\ day' = day + 1
    BY <1>8 DEF NextDay
  <2>2. \A v \in Windows : FormTrue(v)'
    BY <2>1, FormStands
  <2>3. InvestmentTypes' /\ FlowsKnown'
    BY <2>1 DEF InvestmentTypes, FlowsKnown
  <2> QED BY <2>1, <2>2, <2>3 DEF Saved
<1> QED BY <1>1, <1>2, <1>3, <1>4, <1>5, <1>6, <1>7, <1>8 DEF InvestmentNext

\* Other steps leave it alone.
LEMMA InvestmentStands ==
  InvestmentInv /\ UNCHANGED investment => InvestmentInv' /\ \A w \in Windows : Saved(w)
<1> SUFFICES ASSUME InvestmentInv, UNCHANGED investment PROVE InvestmentInv' /\ \A w \in Windows : Saved(w)
  OBVIOUS
<1>1. UNCHANGED <<day, contributed, newest, writes, form, outside, overdrawn>>
  BY DEF investment
<1>2. \A v \in Windows : FormTrue(v)'
  BY <1>1, FormStands DEF InvestmentInv
<1> QED BY <1>1, <1>2 DEF InvestmentInv, InvestmentTypes, FlowsKnown, Saved

\* Both invariants, always.
LEMMA PortfolioSafe == PortfolioSpec => [](GoalTypes /\ ReachedIsCompleted /\ InvestmentInv)
<1>1. ASSUME GoalTypes, ReachedIsCompleted, InvestmentInv, [GoalNext \/ InvestmentNext]_portfolio
      PROVE  GoalTypes' /\ ReachedIsCompleted' /\ InvestmentInv'
  <2>1. GoalNext => UNCHANGED investment
    BY DEF GoalNext, CreateGoal, EditGoal, Contribute, Contributed, DeleteGoal, CreateCategory, DeleteCategory
  <2>2. InvestmentNext => UNCHANGED goalVars
    BY DEF InvestmentNext, Create, CreateFlow, Update, Edit, CorrectNet, FinalValue, Close, NextDay
  <2>3. UNCHANGED portfolio => UNCHANGED goalVars /\ UNCHANGED investment
    BY DEF portfolio, goalVars, investment
  <2> QED BY <1>1, <2>1, <2>2, <2>3, GoalKept, GoalsStand, InvestmentKept, InvestmentStands
<1> QED BY <1>1, GoalStarts, InvestmentStarts, PTL DEF PortfolioSpec

\* A goal that is reached does not stay active, for any goals, categories, windows and amounts
\* (ReachedIsCompleted).
THEOREM PortfolioGoals == PortfolioSpec => []ReachedIsCompleted
BY PortfolioSafe, PTL

\* The page shows what a form has saved, for any windows, amounts and dates (EditorAuthoritative).
THEOREM PortfolioEditor == PortfolioSpec => EditorAuthoritative
<1>1. ASSUME InvestmentInv, [GoalNext \/ InvestmentNext]_portfolio
      PROVE  [\A w \in Windows : form'[w].at = "saved" /\ form[w].at # "saved" /\ w \notin outside =>
                /\ newest'.value = form[w].want.value \/ newest'.at > day
                /\ Shown'.net = form[w].want.net \/ overdrawn']_portfolio
  <2>1. GoalNext => UNCHANGED investment
    BY DEF GoalNext, CreateGoal, EditGoal, Contribute, Contributed, DeleteGoal, CreateCategory, DeleteCategory
  <2> QED BY <1>1, <2>1, InvestmentKept, InvestmentStands DEF Saved
<1> QED BY <1>1, PortfolioSafe, PTL DEF PortfolioSpec, EditorAuthoritative

(***************************************************************************)
(* The session and its snapshots.                                          *)
(***************************************************************************)
\* A cached query.
QueryType == [at : {"idle", "load", "loaded"}, owner : People \cup {Nobody}, rows : People \cup {Nobody}]

\* The variables of the session and its queries have their types.
SessionTypes ==
  /\ session \in People \cup {Nobody}
  /\ query \in [Reads -> QueryType]
  /\ snapshot \in [People -> People \cup {Nobody}]

\* What was read for an owner is the owner's, unless the session changed between the two reads.
QueryOwned ==
  \A r \in Reads :
    /\ query[r].at # "idle" => query[r].owner \in People
    /\ query[r].at = "loaded" => query[r].rows = query[r].owner \/ query[r].owner \in mixed

\* The inductive invariant of the application.
ClientInv == EventsWin /\ SnapshotOwned /\ QueryOwned

\* The application begins with its invariant.
LEMMA ClientStarts == ClientInit => SessionTypes /\ ClientInv
BY DEF ClientInit, SessionTypes, QueryType, ClientInv, EventsWin, SnapshotOwned, QueryOwned, NoQuery

\* A step of the bootstrap or of the gate leaves session, queries and snapshots alone.
LEMMA StoreStands ==
  ASSUME SessionTypes, SnapshotOwned, QueryOwned, UNCHANGED <<session, store>>
  PROVE  SessionTypes' /\ SnapshotOwned' /\ QueryOwned'
BY DEF SessionTypes, SnapshotOwned, QueryOwned, store

\* A step that decides nothing leaves what the last event has set.
LEMMA EventStands ==
  ASSUME EventsWin, UNCHANGED <<handled, user, lastEvent, startError, loading>>
  PROVE  EventsWin'
BY DEF EventsWin

\* What an event sets.
LEMMA DeliverKept ==
  ASSUME SessionTypes, ClientInv, Deliver
  PROVE  SessionTypes' /\ ClientInv'
<1>1. EventsWin'
  BY DEF Deliver, Shows, EventsWin
<1> QED BY <1>1, StoreStands DEF Deliver, ClientInv

\* The bootstrap decides only where no event has.
LEMMA BootstrapKept ==
  ASSUME SessionTypes, ClientInv, Bootstrap
  PROVE  SessionTypes' /\ ClientInv'
<1>1. EventsWin'
  <2>1. CASE handled
    BY <2>1 DEF Bootstrap, MayDecide, ClientInv, EventsWin
  <2>2. CASE ~handled
    BY <2>2 DEF Bootstrap, EventsWin
  <2> QED BY <2>1, <2>2
<1> QED BY <1>1, StoreStands DEF Bootstrap, ClientInv

\* Every step of the session and of the gate keeps it,
LEMMA AccessKept ==
  ASSUME SessionTypes, ClientInv, AuthStep \/ BootFails \/ Paid \/ GateStep \/ RefreshFails \/ PollFails \/ Refresh
  PROVE  SessionTypes' /\ ClientInv'
<1>1. CASE Deliver
  BY <1>1, DeliverKept
<1>2. CASE Bootstrap
  BY <1>2, BootstrapKept
<1>3. CASE GetSession \/ BootFails
  BY <1>3, StoreStands, EventStands DEF GetSession, BootFails, ClientInv, store, gateVars
<1>4. CASE Paid \/ GateStep \/ RefreshFails \/ PollFails \/ Refresh
  BY <1>4, StoreStands, EventStands
     DEF Paid, GateStep, RefreshReads, RefreshEnds, RefreshFails, PollReads, PollEnds, PollTimer, PollFails,
         Refresh, ClientInv, auth, store
<1> QED BY <1>1, <1>2, <1>3, <1>4 DEF AuthStep

\* and every step of the session and of its snapshots.
LEMMA StoreKept ==
  ASSUME SessionTypes, ClientInv, StoreNext
  PROVE  SessionTypes' /\ ClientInv'
<1> USE DEF ClientInv
<1>1. ASSUME NEW u \in People \cup {Nobody}, Switch(u) PROVE SessionTypes' /\ ClientInv'
  <2>1. EventsWin'
    BY <1>1, EventStands DEF Switch
  <2> QED BY <1>1, <2>1 DEF SessionTypes, SnapshotOwned, QueryOwned, Switch, store
<1>2. CASE ClearSnapshots
  <2>1. EventsWin'
    BY <1>2, EventStands DEF ClearSnapshots, auth
  <2> QED BY <1>2, <2>1 DEF SessionTypes, SnapshotOwned, QueryOwned, ClearSnapshots, auth
<1>3. ASSUME NEW r \in Reads, BeginQuery(r) PROVE SessionTypes' /\ ClientInv'
  <2>1. EventsWin'
    BY <1>3, EventStands DEF BeginQuery, auth
  <2>2. session \in People /\ UNCHANGED <<session, snapshot, mixed>>
    BY <1>3 DEF BeginQuery, SessionTypes, auth
  <2>3. PICK h \in QueryType : h = [NoQuery EXCEPT !.at = "load", !.owner = session]
    BY <2>2 DEF NoQuery, QueryType
  <2>4. h.at = "load" /\ h.owner = session
    BY <2>3 DEF NoQuery
  <2>5. query' = [query EXCEPT ![r] = h]
    BY <1>3, <2>3 DEF BeginQuery, PutQuery
  <2> QED BY <2>1, <2>2, <2>4, <2>5 DEF SessionTypes, SnapshotOwned, QueryOwned
<1>4. ASSUME NEW r \in Reads, Load(r) PROVE SessionTypes' /\ ClientInv'
  <2>1. EventsWin'
    BY <1>4, EventStands DEF Load, auth
  <2>2. session \in People /\ query[r].at = "load" /\ UNCHANGED <<session, snapshot>>
    BY <1>4 DEF Load, SessionTypes, auth
  <2>3. PICK h \in QueryType : h = [query[r] EXCEPT !.at = "loaded", !.rows = session]
    BY <2>2 DEF SessionTypes, QueryType
  <2>4. h.at = "loaded" /\ h.owner = query[r].owner /\ h.rows = session
    BY <2>3 DEF SessionTypes, QueryType
  <2>5. query' = [query EXCEPT ![r] = h]
    BY <1>4, <2>3 DEF Load, PutQuery
  <2>6. mixed' = mixed \cup ({query[r].owner} \ {session})
    BY <1>4 DEF Load
  <2> QED BY <2>1, <2>2, <2>4, <2>5, <2>6 DEF SessionTypes, SnapshotOwned, QueryOwned
<1>5. ASSUME NEW r \in Reads, File(r) PROVE SessionTypes' /\ ClientInv'
  <2>1. EventsWin'
    BY <1>5, EventStands DEF File, auth
  <2>2. query[r].at = "loaded" /\ UNCHANGED <<session, mixed>>
    BY <1>5 DEF File, auth
  <2>3. query' = [query EXCEPT ![r] = [at |-> "idle", owner |-> Nobody, rows |-> Nobody]]
    BY <1>5 DEF File, PutQuery, NoQuery
  <2>4. snapshot' = [p \in People |-> IF p = query[r].owner THEN query[r].rows ELSE snapshot[p]]
    BY <1>5 DEF File, Owner
  <2> QED BY <2>1, <2>2, <2>3, <2>4 DEF SessionTypes, QueryType, SnapshotOwned, QueryOwned
<1>6. ASSUME NEW r \in Reads, LoadFails(r) PROVE SessionTypes' /\ ClientInv'
  <2>1. EventsWin'
    BY <1>6, EventStands DEF LoadFails, auth
  <2>2. UNCHANGED <<session, snapshot, mixed>>
    BY <1>6 DEF LoadFails, auth
  <2>3. query' = [query EXCEPT ![r] = [at |-> "idle", owner |-> Nobody, rows |-> Nobody]]
    BY <1>6 DEF LoadFails, PutQuery, NoQuery
  <2> QED BY <2>1, <2>2, <2>3 DEF SessionTypes, QueryType, SnapshotOwned, QueryOwned
<1> QED BY <1>1, <1>2, <1>3, <1>4, <1>5, <1>6 DEF StoreNext, Session

\* The invariant, always.
LEMMA ClientSafe == ClientSpec => [](SessionTypes /\ ClientInv)
<1>1. SessionTypes /\ ClientInv /\ [ClientNext]_client => SessionTypes' /\ ClientInv'
  <2> SUFFICES ASSUME SessionTypes, ClientInv, [ClientNext]_client PROVE SessionTypes' /\ ClientInv'
    OBVIOUS
  <2>1. CASE UNCHANGED client
    BY <2>1, StoreStands, EventStands DEF client, auth, ClientInv, store
  <2> QED BY <2>1, AccessKept, StoreKept DEF ClientNext, AccessNext, StoreNext
<1> QED BY <1>1, ClientStarts, PTL DEF ClientSpec

\* Once an event was handled the application shows the user of the last one, for any people and
\* any order of events, answers and timeouts (EventsWin).
THEOREM ClientEvents == ClientSpec => []EventsWin
BY ClientSafe, PTL DEF ClientInv

\* What is filed under an owner was read as that owner, unless two sessions met in the query, for
\* any people and overlapping queries (SnapshotOwned).
THEOREM ClientSnapshots == ClientSpec => []SnapshotOwned
BY ClientSafe, PTL DEF ClientInv
=============================================================================
