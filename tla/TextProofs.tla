----------------------------- MODULE TextProofs -----------------------------
(***************************************************************************)
(* Proofs about Amounts and ImportText, for any messages, tables and rows: *)
(* the readers of amounts agree, a table that another application has      *)
(* written is read back cell by cell, and a row says the same after it is  *)
(* normalised.                                                             *)
(***************************************************************************)
EXTENDS ImportText, FiniteSetTheorems, WellFoundedInduction, TLAPS

(***************************************************************************)
(* Numbers and lists.                                                      *)
(***************************************************************************)
\* The order of the natural numbers is well founded,
Below == {p \in Nat \X Nat : p[1] < p[2]}
LEMMA BelowFounded == IsWellFoundedOn(Below, Nat)
BY NatLessThanWellFounded, Zenon DEF OpToRel, Below

\* so that the least number of a set of them is one of the set.
LEMMA LeastOf ==
  ASSUME NEW S \in SUBSET Nat, S # {}
  PROVE  Min(S) \in S /\ \A y \in S : Min(S) <= y
<1>1. PICK x \in S : \A y \in S : <<y, x>> \notin Below
  BY BelowFounded, WFMin, Zenon
<1>2. ASSUME NEW y \in S PROVE x <= y
  <2>1. <<y, x>> \in Nat \X Nat /\ <<y, x>> \notin Below
    BY <1>1
  <2> QED BY <2>1 DEF Below
<1> QED BY <1>2 DEF Min

\* A set of numbers that has zero, and with a number the next one, has all.
LEMMA Induction ==
  ASSUME NEW S, 0 \in S, \A n \in Nat : n \in S => n + 1 \in S
  PROVE  Nat \subseteq S
<1> SUFFICES ASSUME Nat \ S # {} PROVE FALSE
  OBVIOUS
<1>1. PICK x \in Nat \ S : \A y \in Nat \ S : <<y, x>> \notin Below
  <2> DEFINE T == Nat \ S
  <2>1. T \subseteq Nat /\ T # {}
    OBVIOUS
  <2> HIDE DEF T
  <2>2. \E x \in T : \A y \in T : <<y, x>> \notin Below
    BY <2>1, BelowFounded, WFMin, Zenon
  <2> QED BY <2>2 DEF T
<1>2. x - 1 \in Nat /\ <<x - 1, x>> \in Below
  BY <1>1 DEF Below
<1>3. x - 1 \in S
  BY <1>1, <1>2
<1>4. (x - 1) + 1 = x
  BY <1>1
<1> QED BY <1>1, <1>2, <1>3, <1>4

\* f is what a loop goes through from base, in n steps.
Loops(f, V, base, step, n) ==
  /\ f \in [0..n -> V] /\ f[0] = base
  /\ \A k \in 1..n : f[k] = step[<<f[k - 1], k>>]

\* A loop whose steps stay among the values V goes through values of V.
LEMMA LoopExists ==
  ASSUME NEW V, NEW base \in V, NEW n \in Nat, NEW step \in [V \X (1..n) -> V]
  PROVE  \E f : Loops(f, V, base, step, n)
<1> DEFINE T == {m \in Nat : m <= n => \E f : Loops(f, V, base, step, m)}
<1>1. 0 \in T
  <2>1. Loops([k \in 0..0 |-> base], V, base, step, 0)
    BY DEF Loops
  <2> QED BY <2>1
<1>2. ASSUME NEW m \in Nat, m \in T PROVE m + 1 \in T
  <2> SUFFICES ASSUME m + 1 <= n PROVE \E f : Loops(f, V, base, step, m + 1)
    OBVIOUS
  <2>1. PICK f : Loops(f, V, base, step, m)
    BY <1>2
  <2>2. f[m] \in V /\ m + 1 \in 1..n
    BY <2>1 DEF Loops
  <2> DEFINE new == step[<<f[m], m + 1>>]
             g == [k \in 0..(m + 1) |-> IF k = m + 1 THEN new ELSE f[k]]
  <2>3. new \in V
    BY <2>2
  <2> HIDE DEF new
  <2>4. g \in [0..(m + 1) -> V] /\ g[0] = base
    BY <2>1, <2>3 DEF Loops
  <2>5. ASSUME NEW k \in 1..(m + 1) PROVE g[k] = step[<<g[k - 1], k>>]
    <3>1. CASE k = m + 1
      <4>1. g[k] = new /\ g[k - 1] = f[m]
        BY <3>1
      <4> HIDE DEF g
      <4> QED BY <3>1, <4>1 DEF new
    <3>2. CASE k \in 1..m
      <4>1. g[k] = f[k] /\ g[k - 1] = f[k - 1]
        BY <3>2
      <4> HIDE DEF g
      <4> QED BY <2>1, <3>2, <4>1 DEF Loops
    <3> QED BY <3>1, <3>2
  <2> HIDE DEF g
  <2> QED BY <2>4, <2>5 DEF Loops
<1>3. n \in T
  <2> HIDE DEF T
  <2> QED BY <1>1, <1>2, Induction
<1> QED BY <1>3

\* What stands where in one list after another.
LEMMA JoinedAt ==
  ASSUME NEW T, NEW s \in Seq(T), NEW t \in Seq(T)
  PROVE  /\ s \o t \in Seq(T) /\ Len(s \o t) = Len(s) + Len(t)
         /\ \A i \in 1..Len(s) : (s \o t)[i] = s[i]
         /\ \A i \in 1..Len(t) : (s \o t)[i + Len(s)] = t[i]
<1>1. s \o t \in Seq(T) /\ Len(s \o t) = Len(s) + Len(t)
  OBVIOUS
<1>2. \A i \in 1..Len(s) : (s \o t)[i] = s[i]
  OBVIOUS
<1>3. \A i \in 1..Len(t) : (s \o t)[i + Len(s)] = t[i]
  OBVIOUS
<1> QED BY <1>1, <1>2, <1>3

\* A list of members of a set is one of members of a larger set,
LEMMA LargerLists ==
  ASSUME NEW S, NEW T, \A x \in S : x \in T, NEW w \in Seq(S)
  PROVE  w \in Seq(T)
<1>1. \A i \in 1..Len(w) : w[i] \in T
  OBVIOUS
<1>2. Len(w) \in Nat /\ w = [i \in 1..Len(w) |-> w[i]]
  OBVIOUS
<1> DEFINE n == Len(w)
<1>3. ASSUME NEW m \in Nat, m = n, \A i \in 1..m : w[i] \in T PROVE [i \in 1..m |-> w[i]] \in Seq(T)
  BY <1>3
<1> QED BY <1>1, <1>2, <1>3

\* What is used of lists.
LEMMA ListFacts ==
  ASSUME NEW T, NEW s \in Seq(T)
  PROVE  /\ Len(s) \in Nat /\ DOMAIN s = 1..Len(s) /\ (s # <<>> <=> Len(s) >= 1)
         /\ \A i \in 1..Len(s) : s[i] \in T
         /\ Len(s) >= 1 => Last(s) = s[Len(s)] /\ Last(s) \in T
BY DEF Last

\* What FlattenSeq goes through.
LEMMA FlattenWorks ==
  ASSUME NEW S, NEW lists \in Seq(Seq(S))
  PROVE  \E f : /\ f \in [0..Len(lists) -> Seq(S)] /\ f[0] = <<>>
                /\ \A k \in 1..Len(lists) : f[k] = f[k - 1] \o lists[k]
                /\ FlattenSeq(lists) = f[Len(lists)]
<1> DEFINE n == Len(lists)
           L == Seq(S)
           step == [x \in L \X (1..n) |-> x[1] \o lists[x[2]]]
           F(f) == [k \in 1..n |-> IF k = 1 THEN lists[k] ELSE f[k - 1] \o lists[k]]
           chosen == CHOOSE f : f = F(f)
<1>1. n \in Nat /\ (\A k \in 1..n : lists[k] \in L) /\ <<>> \in L
  OBVIOUS
<1>2. step \in [L \X (1..n) -> L]
  <2>1. \A s, t \in L : s \o t \in L
    OBVIOUS
  <2> HIDE DEF L, n
  <2> QED BY <1>1, <2>1
<1>3. PICK f : Loops(f, L, <<>>, step, n)
  <2> HIDE DEF step, n, L
  <2> QED BY <1>1, <1>2, LoopExists
<1>4. f \in [0..n -> L] /\ f[0] = <<>>
  <2> HIDE DEF L, n, step
  <2> QED BY <1>3 DEF Loops
<1>5. ASSUME NEW k \in 1..n PROVE f[k] = f[k - 1] \o lists[k]
  <2>1. f[k] = step[<<f[k - 1], k>>] /\ f[k - 1] \in L
    <3>1. k - 1 \in 0..n
      BY <1>1
    <3> HIDE DEF step, n, L
    <3> QED BY <1>3, <1>4, <3>1 DEF Loops
  <2> HIDE DEF n, L
  <2> QED BY <2>1
<1>12. ASSUME 1 \in 1..n PROVE f[1] = <<>> \o lists[1] /\ lists[1] \in L
  <2> HIDE DEF L, n
  <2>1. 1 - 1 = 0
    OBVIOUS
  <2>2. f[1] = f[0] \o lists[1]
    BY <1>5, <1>12, <2>1
  <2> QED BY <1>1, <1>4, <1>12, <2>2
<1>6. ASSUME NEW g, g = F(g), NEW k \in 1..n PROVE g[k] = IF k = 1 THEN lists[k] ELSE g[k - 1] \o lists[k]
  <2>1. F(g)[k] = IF k = 1 THEN lists[k] ELSE g[k - 1] \o lists[k]
    <3> HIDE DEF n
    <3> QED OBVIOUS
  <2> HIDE DEF F, n
  <2> QED BY <1>6, <2>1
<1>7. \E g : g = F(g)
  <2> DEFINE g == [k \in 1..n |-> f[k]]
  <2>1. ASSUME NEW k \in 1..n PROVE g[k] = IF k = 1 THEN lists[k] ELSE g[k - 1] \o lists[k]
    <3>1. CASE k = 1
      <4>1. f[1] = <<>> \o lists[1] /\ lists[1] \in L
        BY <1>12, <3>1
      <4>2. \A s \in L : <<>> \o s = s
        OBVIOUS
      <4>3. g[k] = f[1]
        BY <3>1
      <4> HIDE DEF g, L
      <4> QED BY <3>1, <4>1, <4>2, <4>3
    <3>2. CASE k # 1
      <4>1. k - 1 \in 1..n
        BY <1>1, <3>2
      <4>2. g[k] = f[k] /\ g[k - 1] = f[k - 1]
        BY <4>1
      <4> HIDE DEF g, n
      <4> QED BY <1>5, <3>2, <4>2
    <3> QED BY <3>1, <3>2
  <2>2. g = [k \in 1..n |-> g[k]]
    OBVIOUS
  <2> HIDE DEF g
  <2>3. g = F(g)
    <3> HIDE DEF n
    <3> QED BY <2>1, <2>2
  <2> HIDE DEF F
  <2> QED BY <2>3
<1>8. chosen = F(chosen)
  <2> HIDE DEF F
  <2> QED BY <1>7
<1> HIDE DEF chosen
<1>9. ASSUME NEW k \in 1..n PROVE chosen[k] = IF k = 1 THEN lists[k] ELSE chosen[k - 1] \o lists[k]
  <2> HIDE DEF F, n
  <2> QED BY <1>6, <1>8
<1>10. ASSUME NEW k \in Nat, k <= n PROVE k = 0 \/ chosen[k] = f[k]
  <2> DEFINE T == {m \in Nat : m <= n => m = 0 \/ chosen[m] = f[m]}
  <2>1. 0 \in T
    OBVIOUS
  <2>2. ASSUME NEW m \in Nat, m \in T PROVE m + 1 \in T
    <3> SUFFICES ASSUME m + 1 <= n PROVE chosen[m + 1] = f[m + 1]
      OBVIOUS
    <3>1. m + 1 \in 1..n /\ (m + 1) - 1 = m /\ (m # 0 => chosen[m] = f[m])
      BY <1>1, <2>2
    <3>2. chosen[m + 1] = IF m + 1 = 1 THEN lists[m + 1] ELSE chosen[m] \o lists[m + 1]
      BY <1>9, <3>1
    <3>3. f[m + 1] = f[m] \o lists[m + 1]
      BY <1>5, <3>1
    <3>4. CASE m = 0
      <4>1. lists[1] \in L /\ f[1] = <<>> \o lists[1] /\ chosen[1] = lists[1]
        <5> HIDE DEF L, n
        <5> QED BY <1>12, <3>1, <3>2, <3>4
      <4>2. \A s \in L : <<>> \o s = s
        OBVIOUS
      <4> HIDE DEF L
      <4> QED BY <3>4, <4>1, <4>2
    <3>5. CASE m # 0
      <4>1. m + 1 # 1
        BY <3>5
      <4> HIDE DEF n
      <4> QED BY <3>1, <3>2, <3>3, <3>5, <4>1
    <3> QED BY <3>4, <3>5
  <2>3. Nat \subseteq T
    <3> HIDE DEF T
    <3> QED BY <2>1, <2>2, Induction
  <2> QED BY <1>10, <2>3
<1>11. FlattenSeq(lists) = f[n]
  <2>1. CASE n = 0
    BY <1>4, <2>1 DEF FlattenSeq
  <2>2. CASE n # 0
    <3>1. FlattenSeq(lists) = chosen[n]
      BY <2>2 DEF FlattenSeq, chosen
    <3> QED BY <1>1, <1>10, <2>2, <3>1
  <2> QED BY <2>1, <2>2
<1> HIDE DEF F, step, n, L
<1> QED BY <1>4, <1>5, <1>11 DEF n, L

(***************************************************************************)
(* The readers of amounts.                                                 *)
(***************************************************************************)
\* The value of some digits, digit by digit.
LEMMA NumeralWorks ==
  ASSUME NEW digits \in Seq(Nat)
  PROVE  \E f : /\ f \in [0..Len(digits) -> Nat] /\ f[0] = 0
                /\ \A k \in 1..Len(digits) : f[k] = 10 * f[k - 1] + digits[k]
                /\ Numeral(digits) = f[Len(digits)]
<1> DEFINE n == Len(digits)
           step == [x \in Nat \X (1..n) |-> 10 * x[1] + digits[x[2]]]
           F(f) == [k \in 0..n |-> IF k = 0 THEN 0 ELSE 10 * f[k - 1] + digits[k]]
           chosen == CHOOSE f : f = F(f)
<1>1. n \in Nat /\ \A k \in 1..n : digits[k] \in Nat
  OBVIOUS
<1>2. step \in [Nat \X (1..n) -> Nat]
  BY <1>1
<1>3. PICK f : Loops(f, Nat, 0, step, n)
  <2> HIDE DEF step, n
  <2> QED BY <1>1, <1>2, LoopExists
<1>4. ASSUME NEW g, g = F(g)
      PROVE  DOMAIN g = 0..n /\ g[0] = 0 /\ \A k \in 1..n : g[k] = 10 * g[k - 1] + digits[k]
  <2>1. DOMAIN F(g) = 0..n /\ F(g)[0] = 0 /\ \A k \in 1..n : F(g)[k] = 10 * g[k - 1] + digits[k]
    BY <1>1
  <2> HIDE DEF F, n
  <2> QED BY <1>4, <2>1
<1>5. f = F(f)
  <2>1. ASSUME NEW k \in 1..n PROVE f[k] = F(f)[k]
    <3>1. f[k] = step[<<f[k - 1], k>>] /\ f[k - 1] \in Nat
      <4>1. k - 1 \in 0..n
        BY <1>1
      <4> HIDE DEF step, n, F
      <4> QED BY <1>3, <4>1 DEF Loops
    <3>2. f[k] = 10 * f[k - 1] + digits[k]
      BY <3>1
    <3>3. F(f)[k] = 10 * f[k - 1] + digits[k]
      BY <1>1
    <3> HIDE DEF F, step
    <3> QED BY <3>2, <3>3
  <2>2. f \in [0..n -> Nat] /\ f[0] = 0
    BY <1>3 DEF Loops
  <2>3. F(f)[0] = 0 /\ DOMAIN F(f) = 0..n /\ F(f) = [k \in 0..n |-> F(f)[k]]
    BY <1>1
  <2>4. \A k \in 0..n : k = 0 \/ k \in 1..n
    BY <1>1
  <2> HIDE DEF F, n
  <2> QED BY <2>1, <2>2, <2>3, <2>4
<1>6. chosen = F(chosen)
  <2> HIDE DEF F
  <2> QED BY <1>5
<1>7. Numeral(digits) = chosen[n]
  BY DEF Numeral, Running
<1> HIDE DEF chosen
<1>8. DOMAIN chosen = 0..n /\ chosen[0] = 0 /\ \A k \in 1..n : chosen[k] = 10 * chosen[k - 1] + digits[k]
  <2> HIDE DEF F, n
  <2> QED BY <1>6, <1>4
<1>9. \A k \in 0..n : chosen[k] \in Nat
  <2> DEFINE T == {k \in Nat : k <= n => chosen[k] \in Nat}
  <2>1. 0 \in T
    BY <1>8
  <2>2. ASSUME NEW k \in Nat, k \in T PROVE k + 1 \in T
    <3> SUFFICES ASSUME k + 1 <= n PROVE chosen[k + 1] \in Nat
      OBVIOUS
    <3>1. k + 1 \in 1..n /\ (k + 1) - 1 = k /\ chosen[k] \in Nat
      BY <1>1, <2>2
    <3>2. chosen[k + 1] = 10 * chosen[k] + digits[k + 1] /\ digits[k + 1] \in Nat
      BY <1>1, <1>8, <3>1
    <3> QED BY <3>1, <3>2
  <2>3. Nat \subseteq T
    <3> HIDE DEF T
    <3> QED BY <2>1, <2>2, Induction
  <2> QED BY <2>3, <1>1
<1>10. chosen = [k \in 0..n |-> chosen[k]]
  <2>1. F(chosen) = [k \in 0..n |-> F(chosen)[k]]
    OBVIOUS
  <2> HIDE DEF F, n
  <2> QED BY <1>6, <2>1
<1>11. chosen \in [0..n -> Nat]
  <2> HIDE DEF n
  <2> QED BY <1>9, <1>10
<1> HIDE DEF F, step
<1> QED BY <1>7, <1>8, <1>11

\* Whatever goes from 0 by these steps ends at the value.
LEMMA NumeralIs ==
  ASSUME NEW digits \in Seq(Nat), NEW g, g[0] = 0,
         \A k \in 1..Len(digits) : g[k] = 10 * g[k - 1] + digits[k]
  PROVE  Numeral(digits) = g[Len(digits)] /\ Numeral(digits) \in Nat
<1> DEFINE n == Len(digits)
<1>1. n \in Nat
  OBVIOUS
<1>2. PICK f : /\ f \in [0..n -> Nat] /\ f[0] = 0
               /\ \A k \in 1..n : f[k] = 10 * f[k - 1] + digits[k]
               /\ Numeral(digits) = f[n]
  BY NumeralWorks
<1> DEFINE T == {k \in Nat : k <= n => f[k] = g[k]}
<1> HIDE DEF n
<1>3. 0 \in T
  BY <1>2
<1>4. ASSUME NEW k \in Nat, k \in T PROVE k + 1 \in T
  <2> SUFFICES ASSUME k + 1 <= n PROVE f[k + 1] = g[k + 1]
    OBVIOUS
  <2>1. k + 1 \in 1..n /\ (k + 1) - 1 = k /\ f[k] = g[k]
    BY <1>1, <1>4
  <2> QED BY <1>2, <2>1 DEF n
<1>5. Nat \subseteq T
  <2> HIDE DEF T
  <2> QED BY <1>3, <1>4, Induction
<1>6. f[n] = g[n] /\ f[n] \in Nat
  BY <1>1, <1>2, <1>5
<1> QED BY <1>2, <1>6 DEF n

\* Nothing is worth nothing,
LEMMA NumeralOfNothing == Numeral(<<>>) = 0
<1>1. <<>> \in Seq(Nat) /\ Len(<<>>) = 0
  OBVIOUS
<1> QED BY <1>1, NumeralWorks

\* and a digit more makes it ten times as much, and that digit.
LEMMA NumeralGrows ==
  ASSUME NEW digits \in Seq(Nat), NEW d \in Nat
  PROVE  Numeral(Append(digits, d)) = 10 * Numeral(digits) + d /\ Numeral(digits) \in Nat
<1> DEFINE n == Len(digits)
           more == Append(digits, d)
<1>1. n \in Nat /\ more \in Seq(Nat) /\ Len(more) = n + 1 /\ more[n + 1] = d
  OBVIOUS
<1>2. \A k \in 1..n : more[k] = digits[k]
  OBVIOUS
<1> HIDE DEF more
<1>3. PICK f : /\ f \in [0..n -> Nat] /\ f[0] = 0
               /\ \A k \in 1..n : f[k] = 10 * f[k - 1] + digits[k]
               /\ Numeral(digits) = f[n]
  BY NumeralWorks
<1> HIDE DEF n
<1> DEFINE g == [k \in 0..(n + 1) |-> IF k = n + 1 THEN 10 * f[n] + d ELSE f[k]]
<1>4. g[0] = 0
  BY <1>1, <1>3
<1>5. ASSUME NEW k \in 1..(n + 1) PROVE g[k] = 10 * g[k - 1] + more[k]
  <2>1. CASE k = n + 1
    <3>1. g[k] = 10 * f[n] + d /\ g[k - 1] = f[n]
      BY <1>1, <2>1
    <3> HIDE DEF g
    <3> QED BY <1>1, <2>1, <3>1
  <2>2. CASE k \in 1..n
    <3>1. g[k] = f[k] /\ g[k - 1] = f[k - 1]
      BY <1>1, <2>2
    <3> HIDE DEF g
    <3> QED BY <1>2, <1>3, <2>2, <3>1
  <2> QED BY <1>1, <2>1, <2>2
<1>6. g[n + 1] = 10 * f[n] + d
  BY <1>1
<1> HIDE DEF g
<1>7. Numeral(more) = g[n + 1]
  <2>1. \A k \in 1..Len(more) : g[k] = 10 * g[k - 1] + more[k]
    BY <1>1, <1>5
  <2>2. Numeral(more) = g[Len(more)]
    BY <1>1, <1>4, <2>1, NumeralIs
  <2> QED BY <1>1, <2>2
<1>8. f[n] \in Nat
  BY <1>1, <1>3
<1> QED BY <1>3, <1>6, <1>7, <1>8 DEF more

\* The digits of some groups are digits.
LEMMA JoinedTyped ==
  ASSUME NEW groups \in Seq(Seq(Digit))
  PROVE  Joined(groups) \in Seq(Digit)
<1>1. Len(groups) \in Nat
  OBVIOUS
<1>2. Len(groups) \in 0..Len(groups)
  BY <1>1
<1>3. PICK f : f \in [0..Len(groups) -> Seq(Digit)] /\ Joined(groups) = f[Len(groups)]
  BY FlattenWorks DEF Joined
<1> QED BY <1>2, <1>3

\* Those of one group are the group.
LEMMA JoinedOne ==
  ASSUME NEW digits \in Seq(Digit)
  PROVE  Joined(<<digits>>) = digits
<1> DEFINE groups == <<digits>>
<1>1. groups \in Seq(Seq(Digit)) /\ Len(groups) = 1 /\ groups[1] = digits
  OBVIOUS
<1> HIDE DEF groups
<1>2. PICK f : /\ f[0] = <<>> /\ \A k \in 1..1 : f[k] = f[k - 1] \o groups[k]
               /\ Joined(groups) = f[1]
  <2>1. PICK f : /\ f[0] = <<>> /\ \A k \in 1..Len(groups) : f[k] = f[k - 1] \o groups[k]
                 /\ Joined(groups) = f[Len(groups)]
    BY <1>1, FlattenWorks DEF Joined
  <2> QED BY <1>1, <2>1
<1>3. f[1] = f[0] \o groups[1]
  <2>1. 1 \in 1..1 /\ 1 - 1 = 0
    OBVIOUS
  <2> QED BY <1>2, <2>1
<1>4. <<>> \o digits = digits
  OBVIOUS
<1> QED BY <1>1, <1>2, <1>3, <1>4 DEF groups

(***************************************************************************)
(* Division.                                                               *)
(***************************************************************************)
\* What a quotient is,
LEMMA DivBounds ==
  ASSUME NEW n \in Nat, NEW d \in Nat \ {0}
  PROVE  n \div d \in Nat /\ d * (n \div d) <= n /\ n < d * (n \div d) + d
OBVIOUS

\* which is the only number with these bounds,
LEMMA DivIs ==
  ASSUME NEW n \in Nat, NEW q \in Nat, NEW d \in Nat \ {0}, d * q <= n, n < d * q + d
  PROVE  n \div d = q
OBVIOUS

\* and what a quotient by ten is.
LEMMA DivTen ==
  ASSUME NEW n \in Nat, NEW a \in Nat \ {0}
  PROVE  (n \div a) \div 10 = n \div (10 * a)
<1> DEFINE x == n \div a
           y == x \div 10
<1>1. x \in Nat /\ a * x <= n /\ n < a * x + a
  BY DivBounds
<1>2. y \in Nat /\ 10 * y <= x /\ x < 10 * y + 10
  BY <1>1
<1> HIDE DEF x, y
<1>3. a * (10 * y) <= a * x /\ a * (x + 1) <= a * (10 * y + 10)
  <2>1. \A b \in Nat, c \in Nat : b <= c => a * b <= a * c
    OBVIOUS
  <2>2. x + 1 <= 10 * y + 10
    BY <1>1, <1>2
  <2> QED BY <1>1, <1>2, <2>1, <2>2
<1>4. (10 * a) * y <= n /\ n < (10 * a) * y + 10 * a
  <2>1. a * (10 * y) = (10 * a) * y /\ a * (x + 1) = a * x + a /\ a * (10 * y + 10) = (10 * a) * y + 10 * a
    BY <1>1, <1>2
  <2>2. a * x \in Nat /\ (10 * a) * y \in Nat
    BY <1>1, <1>2
  <2> QED BY <1>1, <1>3, <2>1, <2>2
<1>5. 10 * a \in Nat \ {0}
  OBVIOUS
<1>6. n \div (10 * a) = y
  BY <1>2, <1>4, <1>5, DivIs
<1> QED BY <1>6 DEF x, y

\* The powers of ten that amounts need.
LEMMA Powers ==
  /\ 10 ^ 0 = 1 /\ 10 ^ 1 = 10 /\ 10 ^ 2 = 100
  /\ \A j \in 0..MaxDigits : 10 ^ j \in Nat \ {0}
  /\ \A j \in 0..(MaxDigits - 1) : 10 ^ (j + 1) = 10 * 10 ^ j
<1>1. /\ 10 ^ 0 = 1 /\ 10 ^ 1 = 10 /\ 10 ^ 2 = 100 /\ 10 ^ 3 = 1000 /\ 10 ^ 4 = 10000
      /\ 10 ^ 5 = 100000 /\ 10 ^ 6 = 1000000 /\ 10 ^ 7 = 10000000 /\ 10 ^ 8 = 100000000
      /\ 10 ^ 9 = 1000000000
  OBVIOUS
<1>2. \A j \in 0..9 : j \in {0, 1, 2, 3, 4, 5, 6, 7, 8, 9}
  OBVIOUS
<1>3. \A j \in 0..8 : j \in {0, 1, 2, 3, 4, 5, 6, 7, 8}
  OBVIOUS
<1>4. MaxDigits = 9 /\ MaxDigits - 1 = 8
  BY DEF MaxDigits
<1>5. ASSUME NEW j \in 0..9 PROVE 10 ^ j \in Nat \ {0}
  <2>1. j = 0 => 10 ^ j = 1
    BY <1>1
  <2>2. j = 1 => 10 ^ j = 10
    BY <1>1
  <2>3. j = 2 => 10 ^ j = 100
    BY <1>1
  <2>4. j = 3 => 10 ^ j = 1000
    BY <1>1
  <2>5. j = 4 => 10 ^ j = 10000
    BY <1>1
  <2>6. j = 5 => 10 ^ j = 100000
    BY <1>1
  <2>7. j = 6 => 10 ^ j = 1000000
    BY <1>1
  <2>8. j = 7 => 10 ^ j = 10000000
    BY <1>1
  <2>9. j = 8 => 10 ^ j = 100000000
    BY <1>1
  <2>10. j = 9 => 10 ^ j = 1000000000
    BY <1>1
  <2> QED BY <1>2, <2>1, <2>2, <2>3, <2>4, <2>5, <2>6, <2>7, <2>8, <2>9, <2>10
<1>6. ASSUME NEW j \in 0..8 PROVE 10 ^ (j + 1) = 10 * 10 ^ j
  <2>1. j = 0 => 10 ^ j = 1 /\ 10 ^ (j + 1) = 10
    <3>1. j = 0 => j + 1 = 1
      OBVIOUS
    <3> QED BY <1>1, <3>1
  <2>2. j = 1 => 10 ^ j = 10 /\ 10 ^ (j + 1) = 100
    <3>1. j = 1 => j + 1 = 2
      OBVIOUS
    <3> QED BY <1>1, <3>1
  <2>3. j = 2 => 10 ^ j = 100 /\ 10 ^ (j + 1) = 1000
    <3>1. j = 2 => j + 1 = 3
      OBVIOUS
    <3> QED BY <1>1, <3>1
  <2>4. j = 3 => 10 ^ j = 1000 /\ 10 ^ (j + 1) = 10000
    <3>1. j = 3 => j + 1 = 4
      OBVIOUS
    <3> QED BY <1>1, <3>1
  <2>5. j = 4 => 10 ^ j = 10000 /\ 10 ^ (j + 1) = 100000
    <3>1. j = 4 => j + 1 = 5
      OBVIOUS
    <3> QED BY <1>1, <3>1
  <2>6. j = 5 => 10 ^ j = 100000 /\ 10 ^ (j + 1) = 1000000
    <3>1. j = 5 => j + 1 = 6
      OBVIOUS
    <3> QED BY <1>1, <3>1
  <2>7. j = 6 => 10 ^ j = 1000000 /\ 10 ^ (j + 1) = 10000000
    <3>1. j = 6 => j + 1 = 7
      OBVIOUS
    <3> QED BY <1>1, <3>1
  <2>8. j = 7 => 10 ^ j = 10000000 /\ 10 ^ (j + 1) = 100000000
    <3>1. j = 7 => j + 1 = 8
      OBVIOUS
    <3> QED BY <1>1, <3>1
  <2>9. j = 8 => 10 ^ j = 100000000 /\ 10 ^ (j + 1) = 1000000000
    <3>1. j = 8 => j + 1 = 9
      OBVIOUS
    <3> QED BY <1>1, <3>1
  <2> QED BY <1>3, <2>1, <2>2, <2>3, <2>4, <2>5, <2>6, <2>7, <2>8, <2>9
<1> QED BY <1>1, <1>4, <1>5, <1>6

\* and one of digits of natural numbers.
LEMMA DigitsAreNumbers ==
  ASSUME NEW w \in Seq(Digit)
  PROVE  w \in Seq(Nat)
<1>1. \A d \in Digit : d \in Nat
  BY DEF Digit
<1> QED BY <1>1, LargerLists, Zenon

\* What is written of a number reads as that number: its first digits are what is left of it
\* when the others are cut off.
LEMMA DigitsRead ==
  ASSUME NEW n \in Nat, n < 10 ^ MaxDigits
  PROVE  Digits(n) \in Seq(Digit) /\ Numeral(Digits(n)) = n
<1> DEFINE Enough(k) == 10 ^ k > n /\ (k > 1 => 10 ^ (k - 1) <= n)
           k == CHOOSE j \in 1..MaxDigits : Enough(j)
<1>0. MaxDigits \in Nat /\ MaxDigits >= 1
  BY DEF MaxDigits
<1>1. \E j \in 1..MaxDigits : Enough(j)
  <2> DEFINE S == {j \in 1..MaxDigits : 10 ^ j > n}
  <2>1. MaxDigits \in S
    <3>1. 10 ^ MaxDigits \in Nat /\ MaxDigits \in 1..MaxDigits
      BY <1>0, Powers
    <3> QED BY <3>1
  <2>2. S \subseteq Nat /\ S # {}
    BY <1>0, <2>1
  <2>3. PICK j \in S : \A i \in S : j <= i
    <3> HIDE DEF S
    <3>1. Min(S) \in S /\ \A i \in S : Min(S) <= i
      BY <2>2, LeastOf
    <3> QED BY <3>1
  <2>4. j > 1 => 10 ^ (j - 1) <= n
    <3> SUFFICES ASSUME j > 1 PROVE 10 ^ (j - 1) <= n
      OBVIOUS
    <3>1. j - 1 \in 1..MaxDigits /\ j - 1 \in 0..MaxDigits /\ ~(j <= j - 1)
      BY <1>0, <2>3
    <3>2. ~(10 ^ (j - 1) > n)
      BY <2>3, <3>1
    <3>3. 10 ^ (j - 1) \in Nat
      BY <3>1, Powers
    <3> QED BY <3>2, <3>3
  <2> QED BY <2>3, <2>4
<1>2. k \in 1..MaxDigits /\ 10 ^ k > n
  <2> HIDE DEF Enough
  <2>1. k \in 1..MaxDigits /\ Enough(k)
    BY <1>1
  <2> QED BY <2>1 DEF Enough
<1> DEFINE digits == [i \in 1..k |-> (n \div 10 ^ (k - i)) % 10]
<1>3. Digits(n) = digits
  BY DEF Digits
<1> HIDE DEF k, Enough
<1>4. k \in Nat /\ k >= 1 /\ k <= MaxDigits
  BY <1>0, <1>2
<1>5. ASSUME NEW i \in 0..k
      PROVE  10 ^ (k - i) \in Nat \ {0} /\ n \div 10 ^ (k - i) \in Nat
  <2>1. k - i \in 0..MaxDigits
    BY <1>0, <1>4
  <2>2. 10 ^ (k - i) \in Nat \ {0}
    BY <2>1, Powers
  <2> QED BY <2>2, DivBounds
<1>6. \A i \in 1..k : (n \div 10 ^ (k - i)) % 10 \in Digit
  <2>1. \A x \in Nat : x % 10 \in 0..9
    OBVIOUS
  <2>2. \A i \in 1..k : i \in 0..k
    BY <1>4
  <2> QED BY <1>5, <2>1, <2>2 DEF Digit
<1>7. digits \in Seq(Digit) /\ Len(digits) = k
  BY <1>4, <1>6
<1>8. digits \in Seq(Nat)
  <2> HIDE DEF digits
  <2> QED BY <1>7, DigitsAreNumbers
<1>9. \A i \in 1..k : digits[i] = (n \div 10 ^ (k - i)) % 10
  OBVIOUS
<1> HIDE DEF digits
<1> DEFINE g == [i \in 0..k |-> n \div 10 ^ (k - i)]
<1>10. g[0] = 0
  <2>1. g[0] = n \div 10 ^ k
    BY <1>4
  <2>2. 10 ^ k \in Nat \ {0}
    BY <1>0, <1>4, Powers
  <2>3. \A p \in Nat \ {0} : p > n => n \div p = 0
    OBVIOUS
  <2> HIDE DEF g
  <2> QED BY <1>2, <2>1, <2>2, <2>3
<1>11. ASSUME NEW i \in 1..k PROVE g[i] = 10 * g[i - 1] + digits[i]
  <2>1. i \in 0..k /\ i - 1 \in 0..k /\ k - i \in 0..(MaxDigits - 1) /\ k - (i - 1) = (k - i) + 1
    BY <1>0, <1>4
  <2> DEFINE p == 10 ^ (k - i)
  <2>2. 10 ^ (k - (i - 1)) = 10 * p
    BY <2>1, Powers
  <2>3. p \in Nat \ {0} /\ n \div p \in Nat
    BY <1>5, <2>1
  <2>4. g[i] = n \div p /\ g[i - 1] = n \div (10 * p)
    BY <2>1, <2>2
  <2>5. digits[i] = (n \div p) % 10
    BY <1>9
  <2> HIDE DEF p, g
  <2>6. (n \div p) \div 10 = n \div (10 * p)
    BY <2>3, DivTen
  <2>7. \A x \in Nat : x = 10 * (x \div 10) + (x % 10)
    OBVIOUS
  <2> QED BY <2>3, <2>4, <2>5, <2>6, <2>7
<1>12. g[k] = n
  <2>1. g[k] = n \div 10 ^ (k - k) /\ k - k = 0
    BY <1>4
  <2>2. n \div 1 = n
    OBVIOUS
  <2> HIDE DEF g
  <2> QED BY <2>1, <2>2, Powers
<1> HIDE DEF g
<1>13. Numeral(digits) = g[Len(digits)]
  BY <1>7, <1>8, <1>10, <1>11, NumeralIs
<1> QED BY <1>3, <1>7, <1>12, <1>13

\* A number without cents, in a currency with cents and in one without,
LEMMA MinorWhole ==
  ASSUME NEW w \in Seq(Digit)
  PROVE  /\ Numeral(w) \in Nat
         /\ Minor(w, <<>>, 0) = Numeral(w) /\ Minor(w, <<>>, 2) = 100 * Numeral(w)
<1>1. w \in Seq(Nat)
  BY DigitsAreNumbers
<1>2. w \o <<>> = w /\ Len(<<>>) = 0
  OBVIOUS
<1> DEFINE x == Numeral(w)
<1>3. x \in Nat
  BY <1>1, NumeralGrows
<1>4. /\ Minor(w, <<>>, 0) = (2 * (x * 10 ^ 0) + 10 ^ 0) \div (2 * 10 ^ 0)
      /\ Minor(w, <<>>, 2) = (2 * (x * 10 ^ 2) + 10 ^ 0) \div (2 * 10 ^ 0)
  BY <1>2 DEF Minor
<1> HIDE DEF x
<1>5. (2 * (x * 1) + 1) \div (2 * 1) = x /\ (2 * (x * 100) + 1) \div (2 * 1) = 100 * x
  BY <1>3
<1>6. 10 ^ 0 = 1 /\ 10 ^ 2 = 100
  BY Powers
<1> QED BY <1>3, <1>4, <1>5, <1>6 DEF x

\* and one with one or two digits of cents.
LEMMA MinorCents ==
  ASSUME NEW w \in Seq(Digit), NEW a \in Digit, NEW b \in Digit
  PROVE  /\ Minor(w, <<a>>, 2) = 100 * Numeral(w) + 10 * a
         /\ Minor(w, <<a, b>>, 2) = 100 * Numeral(w) + 10 * a + b
<1>1. w \in Seq(Nat) /\ a \in Nat /\ b \in Nat
  BY DigitsAreNumbers DEF Digit
<1> DEFINE x == Numeral(w)
           wa == Append(w, a)
<1>2. w \o <<a>> = wa /\ w \o <<a, b>> = Append(wa, b) /\ wa \in Seq(Nat) /\ Len(<<a>>) = 1 /\ Len(<<a, b>>) = 2
  BY <1>1
<1> HIDE DEF wa
<1>3. Numeral(wa) = 10 * x + a /\ x \in Nat
  BY <1>1, NumeralGrows DEF wa
<1>4. Numeral(Append(wa, b)) = 10 * (10 * x + a) + b
  BY <1>1, <1>2, <1>3, NumeralGrows
<1>5. /\ Minor(w, <<a>>, 2) = (2 * ((10 * x + a) * 10 ^ 2) + 10 ^ 1) \div (2 * 10 ^ 1)
      /\ Minor(w, <<a, b>>, 2) = (2 * ((10 * (10 * x + a) + b) * 10 ^ 2) + 10 ^ 2) \div (2 * 10 ^ 2)
  BY <1>2, <1>3, <1>4 DEF Minor
<1> HIDE DEF x
<1>6. (2 * ((10 * x + a) * 100) + 10) \div (2 * 10) = 100 * x + 10 * a
  BY <1>1, <1>3
<1>7. (2 * ((10 * (10 * x + a) + b) * 100) + 100) \div (2 * 100) = 100 * x + 10 * a + b
  BY <1>1, <1>3
<1>8. 10 ^ 1 = 10 /\ 10 ^ 2 = 100
  BY Powers
<1> QED BY <1>5, <1>6, <1>7, <1>8 DEF x

(***************************************************************************)
(* What each reader finds in one number.                                   *)
(***************************************************************************)
\* The first of two is all but the last.
LEMMA FrontOfTwo ==
  ASSUME NEW T, NEW a \in T, NEW b \in T
  PROVE  Front(<<a, b>>) = <<a>>
<1> DEFINE s == <<a, b>>
           f == SubSeq(s, 1, 1)
<1>1. s \in Seq(T) /\ Len(s) = 2 /\ s[1] = a
  OBVIOUS
<1> HIDE DEF s
<1>2. f \in Seq(T) /\ Len(f) = 1 /\ f[1] = a
  BY <1>1
<1>3. Front(s) = f
  BY <1>1 DEF Front
<1> HIDE DEF f
<1>4. f = <<a>>
  BY <1>2
<1> QED BY <1>3, <1>4 DEF s

\* What is used of it: its digits, the width of its last group, and its separators.
LEMMA NumberParts ==
  ASSUME NEW t, Wellformed(t)
  PROVE  /\ t.groups \in Seq(Seq(Digit)) /\ t.seps \in Seq({".", ","}) /\ t.worth \in Nat
         /\ Len(t.seps) \in Nat /\ (t.seps # <<>> <=> Len(t.seps) >= 1)
         /\ LastWidth(t) \in Nat /\ Joined(t.groups) \in Seq(Digit)
<1>1. t.groups \in Seq(Seq(Digit)) /\ t.seps \in Seq({".", ","}) /\ t.worth \in Nat
  <2>1. t.groups \in Seq(Seq(Digit) \ {<<>>}) /\ t.seps \in Seq({".", ","}) /\ t.worth \in Nat
    BY DEF Wellformed, Number
  <2>2. t.groups \in Seq(Seq(Digit))
    BY <2>1, LargerLists, Zenon
  <2> QED BY <2>1, <2>2
<1>2. Len(t.seps) \in Nat /\ (t.seps # <<>> <=> Len(t.seps) >= 1)
  BY <1>1, ListFacts, Zenon
<1>3. LastWidth(t) \in Nat
  <2>1. Len(t.groups) >= 1
    BY <1>2 DEF Wellformed
  <2>2. Last(t.groups) \in Seq(Digit)
    BY <1>1, <2>1, ListFacts, Zenon
  <2>3. Len(Last(t.groups)) \in Nat
    BY <2>2, ListFacts, Zenon
  <2> QED BY <2>3 DEF LastWidth
<1> QED BY <1>1, <1>2, <1>3, JoinedTyped

\* If all separators are of one kind and the last of them is not repeated, it is the only one.
LEMMA OneSeparator ==
  ASSUME NEW t, Wellformed(t), ~Mixed(t), t.seps # <<>>, ~Repeated(t)
  PROVE  Len(t.seps) = 1
<1> DEFINE s == t.seps
           same == {i \in DOMAIN s : s[i] = Last(s)}
<1>1. PICK n \in Nat : n = Len(s)
  BY NumberParts
<1>2. n >= 1
  BY <1>1, NumberParts
<1>3. n \in 1..n
  BY <1>2
<1>4. /\ DOMAIN s = 1..n /\ s[n] = Last(s)
      /\ \A i \in 1..n : s[i] \in {".", ","}
  <2>1. s \in Seq({".", ","})
    BY NumberParts
  <2> HIDE DEF s
  <2> QED BY <1>1, <1>2, <2>1, ListFacts, Zenon
<1>5. ASSUME NEW i \in 1..n PROVE s[i] = Last(s)
  <2>1. s[i] \in {".", ","} /\ s[n] \in {".", ","}
    BY <1>3, <1>4
  <2>2. s[i] \in Range(s) /\ s[n] \in Range(s)
    BY <1>3, <1>4 DEF Range
  <2> QED BY <1>4, <2>1, <2>2 DEF Mixed
<1>6. same = 1..n
  BY <1>4, <1>5
<1>7. Cardinality(1..n) = n
  BY FS_Interval
<1>8. ~(n > 1)
  BY <1>6, <1>7 DEF Repeated
<1>9. n = 1
  BY <1>2, <1>8
<1> QED BY <1>1, <1>9

\* In a currency with cents every reader finds what a customary number means,
LEMMA MeantIsRead ==
  ASSUME NEW t, Wellformed(t), Customary(t)
  PROVE  /\ FormAmount(t, 2) = Meant(t) /\ MailAmount(t, 2) = Meant(t)
         /\ PhoneAmount(t, 2) = Meant(t) /\ ImportAmount(t) = Meant(t)
<1>1. LastWidth(t) \in Nat /\ Len(t.seps) \in Nat /\ (t.seps # <<>> <=> Len(t.seps) >= 1)
  BY NumberParts
<1>2. CASE Mixed(t)
  <2>1. t.seps # <<>> /\ LastWidth(t) <= 2 /\ ~Repeated(t)
    <3>1. t.seps # <<>>
      <4>1. "." \in Range(t.seps)
        BY <1>2 DEF Mixed
      <4> QED BY <4>1 DEF Range
    <3> QED BY <1>2, <3>1 DEF Customary
  <2>2. ReadMixed(t, 2) = WithCents(t, 2)
    BY <1>1, <2>1 DEF ReadMixed
  <2> QED BY <1>2, <2>1, <2>2 DEF FormAmount, MailAmount, PhoneAmount, ImportAmount, Meant
<1>3. CASE ~Mixed(t) /\ t.seps # <<>> /\ LastWidth(t) <= 2
  <2>1. Len(t.seps) = 1
    BY <1>3, OneSeparator DEF Customary
  <2> QED BY <1>3, <2>1 DEF FormAmount, MailAmount, PhoneAmount, ImportAmount, Meant
<1>4. CASE ~Mixed(t) /\ ~(t.seps # <<>> /\ LastWidth(t) <= 2)
  <2>1. Meant(t) = Whole(t, 2)
    BY <1>4 DEF Meant
  <2>2. FormAmount(t, 2) = Whole(t, 2)
    BY <1>4 DEF FormAmount
  <2>3. MailAmount(t, 2) = Whole(t, 2)
    BY <1>1, <1>4 DEF MailAmount
  <2>4. ImportAmount(t) = Whole(t, 2)
    BY <1>4 DEF ImportAmount
  <2> QED BY <2>1, <2>2, <2>3, <2>4 DEF PhoneAmount
<1> QED BY <1>2, <1>3, <1>4

\* and in one without them the number that all its digits make.
LEMMA WholeIsRead ==
  ASSUME NEW t
  PROVE  FormAmount(t, 0) = Whole(t, 0) /\ MailAmount(t, 0) = Whole(t, 0) /\ PhoneAmount(t, 0) = Whole(t, 0)
<1>1. ReadMixed(t, 0) = Whole(t, 0)
  BY DEF ReadMixed
<1> QED BY <1>1 DEF FormAmount, MailAmount, PhoneAmount

\* The form reads what an editor shows.
LEMMA ShownIsRead ==
  ASSUME NEW minor \in Nat, minor < 10 ^ MaxDigits, NEW e \in {0, 2}
  PROVE  FormAmount(Shown(minor, e), e) = minor
<1> DEFINE whole == Digits(minor \div 10 ^ e)
           cents == minor % 10 ^ e
<1>1. \A x \in Nat, y \in Nat : x < y => x \div 100 \in Nat /\ x \div 100 < y
  OBVIOUS
<1>2. 10 ^ MaxDigits \in Nat /\ 10 ^ 0 = 1 /\ 10 ^ 2 = 100
  <2>1. MaxDigits \in 0..MaxDigits
    BY DEF MaxDigits
  <2> QED BY <2>1, Powers
<1>3. CASE e = 0
  <2>1. cents = 0 /\ minor \div 10 ^ e = minor
    BY <1>2, <1>3
  <2>2. whole \in Seq(Digit) /\ Numeral(whole) = minor
    BY <2>1, DigitsRead
  <2> DEFINE t == [groups |-> <<whole>>, seps |-> <<>>]
  <2>3. Shown(minor, e) = t
    BY <2>1 DEF Shown
  <2> HIDE DEF whole
  <2>4. FormAmount(t, 0) = Minor(Joined(<<whole>>), <<>>, 0)
    BY WholeIsRead DEF Whole
  <2>5. Joined(<<whole>>) = whole
    BY <2>2, JoinedOne
  <2> QED BY <1>3, <2>2, <2>3, <2>4, <2>5, MinorWhole
<1>4. CASE e = 2
  <2> DEFINE rest == minor \div 100
  <2>1. cents = minor % 100 /\ minor \div 10 ^ e = rest
    BY <1>2, <1>4
  <2>2. rest \in Nat /\ rest < 10 ^ MaxDigits /\ minor = 100 * rest + (minor % 100) /\ minor % 100 \in 0..99
    BY <1>1, <1>2
  <2>3. whole \in Seq(Digit) /\ Numeral(whole) = rest
    <3> HIDE DEF rest
    <3> QED BY <2>1, <2>2, DigitsRead
  <2>4. Joined(<<whole>>) = whole
    <3> HIDE DEF whole
    <3> QED BY <2>3, JoinedOne
  <2> HIDE DEF rest, whole, cents
  <2>5. CASE cents = 0
    <3> DEFINE t == [groups |-> <<whole>>, seps |-> <<>>]
    <3>1. Shown(minor, e) = t
      BY <2>5 DEF Shown, whole, cents
    <3>2. FormAmount(t, 2) = Minor(Joined(<<whole>>), <<>>, 2)
      <4>1. t.seps = <<>> /\ t.groups = <<whole>>
        OBVIOUS
      <4>2. ~Mixed(t)
        BY <4>1 DEF Mixed, Range
      <4> HIDE DEF t
      <4> QED BY <4>1, <4>2 DEF FormAmount, Whole
    <3>3. minor = 100 * rest
      BY <2>1, <2>2, <2>5
    <3> HIDE DEF t
    <3> QED BY <1>4, <2>3, <2>4, <3>1, <3>2, <3>3, MinorWhole
  <2>6. ASSUME NEW last \in Seq(Digit), Len(last) <= 2,
               Shown(minor, e) = [groups |-> <<whole, last>>, seps |-> <<".">>]
        PROVE  FormAmount(Shown(minor, e), e) = Minor(whole, last, 2)
    <3> DEFINE t == [groups |-> <<whole, last>>, seps |-> <<".">>]
    <3>1. t.groups = <<whole, last>> /\ t.seps = <<".">> /\ t.seps # <<>>
      OBVIOUS
    <3>2. Front(t.groups) = <<whole>> /\ Last(t.groups) = last
      <4>1. Front(<<whole, last>>) = <<whole>>
        BY <2>3, <2>6, FrontOfTwo, Zenon
      <4>2. Last(<<whole, last>>) = last
        BY DEF Last
      <4> QED BY <3>1, <4>1, <4>2
    <3> HIDE DEF t
    <3>3. ~Mixed(t)
      <4>1. "," \notin Range(<<".">>)
        <5>1. \A i \in DOMAIN <<".">> : <<".">>[i] = "."
          OBVIOUS
        <5> QED BY <5>1 DEF Range
      <4> QED BY <3>1, <4>1 DEF Mixed
    <3>4. LastWidth(t) <= 2
      BY <2>6, <3>2 DEF LastWidth
    <3>5. FormAmount(t, 2) = WithCents(t, 2)
      BY <3>1, <3>3, <3>4 DEF FormAmount
    <3>6. WithCents(t, 2) = Minor(whole, last, 2)
      BY <2>4, <3>2 DEF WithCents
    <3> QED BY <1>4, <2>6, <3>5, <3>6 DEF t
  <2>7. CASE cents # 0 /\ cents % 10 = 0
    <3> DEFINE a == cents \div 10
    <3>1. a \in Digit /\ 10 * a = cents
      BY <2>1, <2>2, <2>7 DEF Digit
    <3>2. Shown(minor, e) = [groups |-> <<whole, <<a>>>>, seps |-> <<".">>]
      BY <2>7 DEF Shown, whole, cents
    <3> HIDE DEF a
    <3>3. <<a>> \in Seq(Digit) /\ Len(<<a>>) <= 2
      BY <3>1
    <3>4. FormAmount(Shown(minor, e), e) = Minor(whole, <<a>>, 2)
      BY <2>6, <3>2, <3>3
    <3>5. Minor(whole, <<a>>, 2) = 100 * rest + 10 * a
      <4>1. 0 \in Digit
        BY DEF Digit
      <4> QED BY <2>3, <3>1, <4>1, MinorCents
    <3> QED BY <2>1, <2>2, <3>1, <3>4, <3>5
  <2>8. CASE cents # 0 /\ cents % 10 # 0
    <3> DEFINE a == cents \div 10
               b == cents % 10
    <3>1. a \in Digit /\ b \in Digit /\ 10 * a + b = cents
      BY <2>1, <2>2 DEF Digit
    <3>2. Shown(minor, e) = [groups |-> <<whole, <<a, b>>>>, seps |-> <<".">>]
      BY <2>8 DEF Shown, whole, cents
    <3> HIDE DEF a, b
    <3>3. <<a, b>> \in Seq(Digit) /\ Len(<<a, b>>) <= 2
      BY <3>1
    <3>4. FormAmount(Shown(minor, e), e) = Minor(whole, <<a, b>>, 2)
      BY <2>6, <3>2, <3>3
    <3>5. Minor(whole, <<a, b>>, 2) = 100 * rest + 10 * a + b
      BY <2>3, <3>1, MinorCents
    <3> QED BY <2>1, <2>2, <3>1, <3>4, <3>5 DEF Digit
  <2> QED BY <2>5, <2>7, <2>8
<1> QED BY <1>3, <1>4

\* So the readers agree on a customary number.
LEMMA NumbersAgree ==
  ASSUME NEW t, Wellformed(t), Customary(t)
  PROVE  NumberAgrees(t)
<1>1. {FormAmount(t, 2), MailAmount(t, 2), PhoneAmount(t, 2), ImportAmount(t)} = {t.worth}
  BY MeantIsRead DEF Wellformed
<1>2. ASSUME t.worth % 100 = 0 /\ (t.seps = <<>> \/ LastWidth(t) = 3)
      PROVE  {FormAmount(t, 0), MailAmount(t, 0), PhoneAmount(t, 0)} = {t.worth \div 100}
  <2> DEFINE x == Numeral(Joined(t.groups))
  <2>1. Meant(t) = Whole(t, 2)
    BY <1>2 DEF Meant
  <2>2. x \in Nat /\ Whole(t, 0) = x /\ Whole(t, 2) = 100 * x
    BY NumberParts, MinorWhole DEF Whole
  <2> HIDE DEF x
  <2>3. t.worth \div 100 = x
    BY <2>1, <2>2 DEF Wellformed
  <2> QED BY <2>2, <2>3, WholeIsRead
<1>3. \A e \in {0, 2} : FormAmount(Shown(t.worth, e), e) = t.worth
  BY NumberParts, ShownIsRead DEF Wellformed
<1> QED BY <1>1, <1>2, <1>3 DEF NumberAgrees

(***************************************************************************)
(* What each parser makes of one message.                                  *)
(***************************************************************************)
\* The numbers of a message are wellformed.
LEMMA MessageParts ==
  ASSUME NEW text, Message(text)
  PROVE  /\ \A i \in DOMAIN text.numbers : Wellformed(text.numbers[i].amount)
         /\ text.out.single \in Nat /\ text.out.phrase \in Nat
         /\ text.in.single \in Nat /\ text.in.phrase \in Nat
<1> DEFINE R == [amount : Number, marked : BOOLEAN, sign : BOOLEAN, worded : BOOLEAN]
           W == [single : Nat, phrase : Nat]
<1>1. text.numbers \in Seq(R) /\ text.out \in W /\ text.in \in W
  BY DEF Message
<1>2. ASSUME NEW i \in DOMAIN text.numbers
      PROVE  Wellformed(text.numbers[i].amount)
  <2>1. text.numbers[i] \in R
    <3> HIDE DEF R
    <3>1. \A j \in 1..Len(text.numbers) : text.numbers[j] \in R
      BY <1>1, ListFacts, Zenon
    <3>2. DOMAIN text.numbers = 1..Len(text.numbers)
      BY <1>1, ListFacts, Zenon
    <3> QED BY <3>1, <3>2
  <2>2. \A r \in R : r.amount \in Number
    OBVIOUS
  <2>3. text.numbers[i].amount \in Number
    BY <2>1, <2>2
  <2> QED BY DEF Message
<1>3. \A w \in W : w.single \in Nat /\ w.phrase \in Nat
  OBVIOUS
<1> HIDE DEF W
<1> QED BY <1>1, <1>2, <1>3

\* If the numbers are customary, and no amount with cents has the size of a year, the mail's
\* parser and the phone's find the same value in each of them, and both or none take it for a year.
LEMMA MoneyAgrees ==
  ASSUME NEW text, Message(text), ~CentsOfAYear(text),
         \A i \in DOMAIN text.numbers : Customary(text.numbers[i].amount)
  PROVE  MailMoney(text) = PhoneMoney(text)
<1> DEFINE e == Exponent(CurrencyOf(text))
           D == DOMAIN text.numbers
           N(i) == text.numbers[i]
           mail == [i \in D |-> MailAmount(N(i).amount, e)]
           phone == [i \in D |-> PhoneAmount(N(i).amount, e)]
           mailYear == [i \in DOMAIN mail |-> MailYear(N(i), mail[i], e)]
           phoneYear == [i \in DOMAIN phone |-> PhoneYear(N(i), phone[i], e)]
<1>1. e \in {0, 2}
  BY DEF Exponent
<1> HIDE DEF e
<1>2. ASSUME NEW i \in D
      PROVE  /\ MailAmount(N(i).amount, e) = PhoneAmount(N(i).amount, e)
             /\ MailAmount(N(i).amount, e) \in Nat
             /\ e = 2 => MailAmount(N(i).amount, e) = N(i).amount.worth
  <2> DEFINE t == N(i).amount
  <2>1. Wellformed(t) /\ Customary(t) /\ t.worth = Meant(t)
    BY MessageParts DEF Wellformed
  <2> HIDE DEF t
  <2>2. MailAmount(t, 2) = t.worth /\ PhoneAmount(t, 2) = t.worth /\ t.worth \in Nat
    BY <2>1, MeantIsRead, NumberParts
  <2>3. MailAmount(t, 0) = PhoneAmount(t, 0) /\ MailAmount(t, 0) \in Nat
    <3>1. Joined(t.groups) \in Seq(Digit)
      BY <2>1, NumberParts
    <3>2. Whole(t, 0) \in Nat
      BY <3>1, MinorWhole DEF Whole
    <3> QED BY <3>2, WholeIsRead
  <2>4. /\ MailAmount(t, e) = PhoneAmount(t, e) /\ MailAmount(t, e) \in Nat
        /\ e = 2 => MailAmount(t, e) = t.worth
    BY <1>1, <2>2, <2>3
  <2> QED BY <2>4 DEF t
<1>3. mail = phone
  <2> HIDE DEF D
  <2> QED BY <1>2
<1>4. ASSUME NEW i \in D
      PROVE  MailYear(N(i), mail[i], e) = PhoneYear(N(i), mail[i], e)
  <2> DEFINE x == MailAmount(N(i).amount, e)
  <2>1. mail[i] = x
    OBVIOUS
  <2>2. ASSUME Between(x, e) PROVE x % 10 ^ e = 0
    <3>1. CASE e = 0
      <4>1. x \in Nat
        BY <1>2
      <4> HIDE DEF x
      <4>2. x % 1 = 0
        BY <4>1
      <4> QED BY <3>1, <4>2, Powers
    <3>2. CASE e = 2
      <4>1. x = N(i).amount.worth
        BY <1>2, <3>2
      <4>2. Between(N(i).amount.worth, 2)
        BY <2>2, <3>2, <4>1
      <4>3. ~(N(i).amount.worth % 100 # 0)
        BY <4>2 DEF CentsOfAYear
      <4> HIDE DEF x
      <4> QED BY <3>2, <4>1, <4>3, Powers
    <3> QED BY <1>1, <3>1, <3>2
  <2> HIDE DEF x, mail
  <2> QED BY <2>1, <2>2 DEF MailYear, PhoneYear
<1>5. mailYear = phoneYear
  <2>1. DOMAIN mail = D /\ DOMAIN phone = D
    OBVIOUS
  <2> HIDE DEF mail, phone, D
  <2> QED BY <1>3, <1>4, <2>1
<1>6. MailMoney(text) = Chosen(text, mail, mailYear) /\ PhoneMoney(text) = Chosen(text, phone, phoneYear)
  BY DEF MailMoney, PhoneMoney, e
<1> QED
  <2> HIDE DEF mail, phone, mailYear, phoneYear
  <2> QED BY <1>3, <1>5, <1>6

\* Of words of one direction both make that direction, however they weigh them.
LEMMA KindsAgree ==
  ASSUME NEW text, Message(text), OneSided(text)
  PROVE  MailKind(text) = PhoneKind(text)
<1> DEFINE a == text.out.single
           b == text.out.phrase
           c == text.in.single
           d == text.in.phrase
<1>1. a \in Nat /\ b \in Nat /\ c \in Nat /\ d \in Nat
  BY MessageParts
<1>2. a + b = 0 \/ c + d = 0
  BY DEF OneSided
<1>3. /\ MailKind(text) = CASE a + b > c + d -> "expense" [] c + d > a + b -> "income" [] OTHER -> "none"
      /\ PhoneKind(text) = CASE 2 * a + 3 * b > 2 * c + 3 * d -> "expense"
                             [] 2 * c + 3 * d > 2 * a + 3 * b -> "income" [] OTHER -> "none"
  BY DEF MailKind, PhoneKind
<1> HIDE DEF a, b, c, d
<1>4. /\ (a + b > c + d) <=> (2 * a + 3 * b > 2 * c + 3 * d)
      /\ (c + d > a + b) <=> (2 * c + 3 * d > 2 * a + 3 * b)
      /\ ~(a + b > c + d /\ c + d > a + b)
  BY <1>1, <1>2
<1>5. CASE a + b > c + d
  BY <1>3, <1>4, <1>5
<1>6. CASE c + d > a + b
  BY <1>3, <1>4, <1>6
<1>7. CASE ~(a + b > c + d) /\ ~(c + d > a + b)
  BY <1>3, <1>4, <1>7
<1> QED BY <1>5, <1>6, <1>7

\* What was heard is a message and what each parser makes of it, or nothing yet.
AmountsInv ==
  \/ heard = Unread
  \/ \E text \in Texts :
       heard = [text |-> text, mail |-> MailCandidate(text), phone |-> PhoneCandidate(text)]

\* The readers of amounts find in any customary number, of any length, what it means; an editor's
\* text is read back; and one payment told by a mail and a notification is one candidate twice.
\* (financial-parser.ts, NotificationCandidateParser.java, money.ts, importing/index.ts)
THEOREM AmountsAgree == AmountsSpec => []ReadersAgree
<1>1. AmountsInit => AmountsInv
  BY DEF AmountsInit, AmountsInv
<1>2. AmountsInv /\ [AmountsNext]_heard => AmountsInv'
  <2> SUFFICES ASSUME AmountsInv, [AmountsNext]_heard PROVE AmountsInv'
    OBVIOUS
  <2>1. CASE UNCHANGED heard
    BY <2>1 DEF AmountsInv
  <2>2. ASSUME NEW text \in Texts, Hear(text) PROVE AmountsInv'
    BY <2>2 DEF Hear, AmountsInv
  <2> QED BY <2>1, <2>2 DEF AmountsNext
<1>3. AmountsInv => ReadersAgree
  <2> DEFINE amounts == {heard.text.numbers[i].amount : i \in DOMAIN heard.text.numbers}
  <2>1. CASE heard = Unread
    <3>1. heard.text.numbers = <<>>
      BY <2>1 DEF Unread
    <3>2. amounts = {}
      BY <3>1
    <3> HIDE DEF amounts
    <3> QED BY <2>1, <3>2 DEF ReadersAgree, amounts
  <2>2. ASSUME NEW text \in Texts,
               heard = [text |-> text, mail |-> MailCandidate(text), phone |-> PhoneCandidate(text)]
        PROVE  ReadersAgree
    <3>1. Message(text)
      BY AmountsAssumption
    <3>2. heard.text = text /\ heard.mail = MailCandidate(text) /\ heard.phone = PhoneCandidate(text)
      BY <2>2
    <3>3. ASSUME NEW t \in amounts, Customary(t) PROVE NumberAgrees(t)
      <4>1. PICK i \in DOMAIN text.numbers : t = text.numbers[i].amount
        BY <3>2
      <4>2. Wellformed(t)
        BY <3>1, <4>1, MessageParts
      <4> QED BY <3>3, <4>2, NumbersAgree
    <3>4. ASSUME \A t \in amounts : Customary(t), OneSided(text), ~CentsOfAYear(text)
          PROVE  heard.mail = heard.phone
      <4>1. \A i \in DOMAIN text.numbers : Customary(text.numbers[i].amount)
        BY <3>2, <3>4
      <4>2. MailMoney(text) = PhoneMoney(text)
        BY <3>1, <3>4, <4>1, MoneyAgrees
      <4>3. MailKind(text) = PhoneKind(text)
        BY <3>1, <3>4, KindsAgree
      <4> QED BY <3>2, <4>2, <4>3 DEF MailCandidate, PhoneCandidate
    <3> QED BY <3>2, <3>3, <3>4 DEF ReadersAgree
  <2> QED BY <2>1, <2>2 DEF AmountsInv
<1> QED BY <1>1, <1>2, <1>3, PTL DEF AmountsSpec
(***************************************************************************)
(* Lists one after another.                                                *)
(***************************************************************************)
\* Each list stands where the lists before it end.
Ends(off, lists) ==
  /\ off \in [0..Len(lists) -> Nat] /\ off[0] = 0
  /\ \A k \in 1..Len(lists) : off[k] = off[k - 1] + Len(lists[k])

\* Lists of lists; and where each of some lists stands in a text made of all.
ListsOf(S) == Seq(Seq(S))
Laid(off, lists, text, S) ==
  /\ Ends(off, lists) /\ text \in Seq(S) /\ Len(text) = off[Len(lists)]
  /\ \A k \in 1..Len(lists) : \A j \in 1..Len(lists[k]) : text[off[k - 1] + j] = lists[k][j]

\* So stand the lists that FlattenSeq puts together.
LEMMA Segments ==
  ASSUME NEW S, NEW lists \in ListsOf(S)
  PROVE  \E off : Laid(off, lists, FlattenSeq(lists), S)
<1>0. lists \in Seq(Seq(S))
  BY DEF ListsOf
<1>1. PICK f : /\ f \in [0..Len(lists) -> Seq(S)] /\ f[0] = <<>>
               /\ \A k \in 1..Len(lists) : f[k] = f[k - 1] \o lists[k]
               /\ FlattenSeq(lists) = f[Len(lists)]
  BY <1>0, FlattenWorks
<1> DEFINE n == Len(lists)
           off == [k \in 0..n |-> Len(f[k])]
<1>2. n \in Nat /\ \A k \in 1..n : lists[k] \in Seq(S)
  BY <1>0
<1>3. ASSUME NEW k \in 0..n PROVE f[k] \in Seq(S) /\ off[k] = Len(f[k]) /\ off[k] \in Nat
  <2>1. f[k] \in Seq(S)
    BY <1>1
  <2>2. Len(f[k]) \in Nat
    BY <2>1, ListFacts, Zenon
  <2>3. off[k] = Len(f[k])
    <3> HIDE DEF n
    <3> QED OBVIOUS
  <2> QED BY <2>1, <2>2, <2>3
<1>4. ASSUME NEW k \in 1..n
      PROVE  /\ off[k] = off[k - 1] + Len(lists[k])
             /\ \A i \in 1..off[k - 1] : f[k][i] = f[k - 1][i]
             /\ \A j \in 1..Len(lists[k]) : f[k][off[k - 1] + j] = lists[k][j]
  <2>1. k \in 0..n /\ k - 1 \in 0..n
    BY <1>2
  <2>2. f[k - 1] \in Seq(S) /\ lists[k] \in Seq(S)
    BY <1>2, <1>3, <2>1
  <2>3. f[k] = f[k - 1] \o lists[k]
    BY <1>1
  <2>4. /\ Len(f[k]) = Len(f[k - 1]) + Len(lists[k])
        /\ \A i \in 1..Len(f[k - 1]) : f[k][i] = f[k - 1][i]
        /\ \A i \in 1..Len(lists[k]) : f[k][i + Len(f[k - 1])] = lists[k][i]
    <3> DEFINE a == f[k - 1]
               b == lists[k]
    <3>1. a \in Seq(S) /\ b \in Seq(S) /\ f[k] = a \o b
      BY <2>2, <2>3
    <3> HIDE DEF a, b
    <3>2. /\ Len(a \o b) = Len(a) + Len(b)
          /\ \A i \in 1..Len(a) : (a \o b)[i] = a[i]
          /\ \A i \in 1..Len(b) : (a \o b)[i + Len(a)] = b[i]
      BY <3>1, JoinedAt
    <3>3. /\ Len(f[k]) = Len(a) + Len(b)
          /\ \A i \in 1..Len(a) : f[k][i] = a[i]
          /\ \A i \in 1..Len(b) : f[k][i + Len(a)] = b[i]
      BY <3>1, <3>2, Zenon
    <3> QED BY <3>3 DEF a, b
  <2>5. off[k] = Len(f[k]) /\ off[k - 1] = Len(f[k - 1]) /\ off[k - 1] \in Nat
    BY <1>3, <2>1
  <2> HIDE DEF off, n
  <2>6. \A j \in 1..Len(lists[k]) : off[k - 1] + j = j + off[k - 1]
    BY <2>5
  <2> QED BY <2>4, <2>5, <2>6
<1>5. off[0] = 0 /\ off \in [0..n -> Nat]
  <2>1. Len(<<>>) = 0
    OBVIOUS
  <2>2. off[0] = 0
    BY <1>1, <1>2, <2>1
  <2> QED BY <1>3, <2>2
<1> HIDE DEF off
<1> DEFINE Placed(m) ==
             \A k \in 1..m : \A j \in 1..Len(lists[k]) :
               off[k - 1] + j \in 1..off[m] /\ f[m][off[k - 1] + j] = lists[k][j]
           T == {m \in Nat : m <= n => Placed(m)}
<1>6. 0 \in T
  OBVIOUS
<1>7. ASSUME NEW m \in Nat, m \in T PROVE m + 1 \in T
  <2> SUFFICES ASSUME m + 1 <= n, NEW k \in 1..(m + 1), NEW j \in 1..Len(lists[k])
               PROVE  off[k - 1] + j \in 1..off[m + 1] /\ f[m + 1][off[k - 1] + j] = lists[k][j]
    OBVIOUS
  <2>1. m + 1 \in 1..n /\ (m + 1) - 1 = m /\ m \in 0..n /\ m + 1 \in 0..n
    BY <1>2
  <2>2. off[m + 1] = off[m] + Len(lists[m + 1]) /\ off[m] \in Nat /\ Len(lists[m + 1]) \in Nat
    <3>1. Len(lists[m + 1]) \in Nat
      BY <1>2, <2>1
    <3> QED BY <1>3, <1>4, <2>1, <3>1
  <2>3. CASE k = m + 1
    <3>1. f[k][off[k - 1] + j] = lists[k][j]
      BY <1>4, <2>1, <2>3
    <3>2. off[m] + j \in 1..off[m + 1]
      BY <2>2, <2>3
    <3> QED BY <2>1, <2>3, <3>1, <3>2
  <2>4. CASE k \in 1..m
    <3>1. off[k - 1] + j \in 1..off[m] /\ f[m][off[k - 1] + j] = lists[k][j]
      BY <1>7, <2>1, <2>4
    <3>2. f[m + 1][off[k - 1] + j] = f[m][off[k - 1] + j]
      BY <1>4, <2>1, <3>1
    <3>3. off[k - 1] + j \in 1..off[m + 1]
      BY <2>2, <3>1
    <3> QED BY <3>1, <3>2, <3>3
  <2> QED BY <2>3, <2>4
<1>8. Nat \subseteq T
  <2> HIDE DEF T
  <2> QED BY <1>6, <1>7, Induction
<1>9. Placed(n)
  <2>1. n \in T
    <3> HIDE DEF T
    <3> QED BY <1>2, <1>8
  <2>2. n <= n
    BY <1>2
  <2> HIDE DEF Placed
  <2> QED BY <2>1, <2>2
<1>10. n \in 0..n
  BY <1>2
<1>11. Len(FlattenSeq(lists)) = off[n] /\ FlattenSeq(lists) \in Seq(S)
  BY <1>1, <1>3, <1>10
<1>12. Ends(off, lists)
  BY <1>4, <1>5 DEF Ends
<1> DEFINE text == FlattenSeq(lists)
<1>13. text = f[n]
  BY <1>1
<1> HIDE DEF text
<1>14. \A k \in 1..n : \A j \in 1..Len(lists[k]) : text[off[k - 1] + j] = lists[k][j]
  BY <1>9, <1>13
<1>15. text \in Seq(S) /\ Len(text) = off[n]
  BY <1>11 DEF text
<1>16. Laid(off, lists, text, S)
  BY <1>12, <1>14, <1>15 DEF Laid
<1> QED BY <1>16 DEF text


(***************************************************************************)
(* The scanner of tables, from state to state.                             *)
(***************************************************************************)
\* The states of the scanner: outside a quoted part of a cell, within one, and there at the second
\* of two quotes.
Bare(rows, row, cell) == [rows |-> rows, row |-> row, cell |-> cell, quoted |-> FALSE, skip |-> FALSE]
Within(rows, row, cell) == [rows |-> rows, row |-> row, cell |-> cell, quoted |-> TRUE, skip |-> FALSE]
Twice(rows, row, cell) == [rows |-> rows, row |-> row, cell |-> cell, quoted |-> TRUE, skip |-> TRUE]

\* Characters, those the scanner knows among them
Char == STRING \cup {Quote, "NL", "CR"} \cup Range(Delimiters)

\* All but the last of a list are a list,
LEMMA FrontIs ==
  ASSUME NEW T, NEW s \in Seq(T), Len(s) >= 1
  PROVE  /\ Front(s) \in Seq(T) /\ Len(Front(s)) = Len(s) - 1
         /\ \A i \in 1..(Len(s) - 1) : Front(s)[i] = s[i]
         /\ Last(s) \in T /\ Last(s) = s[Len(s)]
<1>1. PICK n \in Nat : Len(s) = n /\ n >= 1
  OBVIOUS
<1> DEFINE f == SubSeq(s, 1, n - 1)
<1>2. f \in Seq(T) /\ Len(f) = n - 1
  BY <1>1
<1>3. \A i \in 1..(n - 1) : f[i] = s[i]
  BY <1>1
<1>4. Last(s) \in T /\ Last(s) = s[Len(s)]
  BY <1>1, ListFacts
<1>5. Front(s) = f
  BY <1>1 DEF Front
<1> HIDE DEF f
<1> QED BY <1>1, <1>2, <1>3, <1>4, <1>5

\* and so is a cell without its carriage return.
LEMMA NoCarriageTyped == ASSUME NEW T, NEW c \in Seq(T) PROVE NoCarriage(c) \in Seq(T)
<1>1. CASE c = <<>>
  BY <1>1 DEF NoCarriage
<1>2. CASE c # <<>>
  <2>1. Len(c) >= 1
    BY <1>2, ListFacts
  <2>2. Front(c) \in Seq(T)
    BY <2>1, FrontIs, Zenon
  <2> QED BY <2>2 DEF NoCarriage
<1> QED BY <1>1, <1>2

\* A list with one more at its end.
LEMMA AppendTyped ==
  ASSUME NEW T, NEW s \in Seq(T), NEW x \in T
  PROVE  /\ Append(s, x) \in Seq(T) /\ Len(Append(s, x)) = Len(s) + 1
         /\ Append(s, x)[Len(s) + 1] = x /\ \A i \in 1..Len(s) : Append(s, x)[i] = s[i]
OBVIOUS

\* A delimiter is none of the other two characters that the scanner knows, and an ordinary one
\* none of the three.
Delimits(d) == d # Quote /\ d # "NL"
Ordinary(c, d) == c # Quote /\ c # d /\ c # "NL"

\* What a step makes of a state: the second of two quotes is left out,
LEMMA ScanSkips ==
  \A rows, row, cell, c, next, d :
    Scan(Twice(rows, row, cell), c, next, d) =
      Within(rows, row, cell)
<1> SUFFICES ASSUME NEW rows, NEW row, NEW cell, NEW c, NEW next, NEW d
             PROVE  Scan(Twice(rows, row, cell), c, next, d) = Within(rows, row, cell)
  OBVIOUS
<1> QED BY DEF Scan, Quoted, Take, EndCell, EndRow, Bare, Within, Twice

\* the first of two, in a quoted part, stands for one,
LEMMA ScanDoubles ==
  \A rows, row, cell, d :
    Scan(Within(rows, row, cell), Quote, Quote, d) =
      Twice(rows, row, Append(cell, Quote))
<1> SUFFICES ASSUME NEW rows, NEW row, NEW cell, NEW d
             PROVE  Scan(Within(rows, row, cell), Quote, Quote, d) = Twice(rows, row, Append(cell, Quote))
  OBVIOUS
<1> QED BY DEF Scan, Quoted, Take, EndCell, EndRow, Bare, Within, Twice

\* and a quote with no other after it ends the quoted part,
LEMMA ScanCloses ==
  \A next : next # Quote =>
    \A rows, row, cell, d :
      Scan(Within(rows, row, cell), Quote, next, d) =
        Bare(rows, row, cell)
<1> SUFFICES ASSUME NEW rows, NEW row, NEW cell, NEW next, NEW d, next # Quote
             PROVE  Scan(Within(rows, row, cell), Quote, next, d) = Bare(rows, row, cell)
  OBVIOUS
<1> QED BY DEF Scan, Quoted, Take, EndCell, EndRow, Bare, Within, Twice

\* in which every other character is taken.
LEMMA ScanKeeps ==
  \A c : c # Quote =>
    \A rows, row, cell, next, d :
      Scan(Within(rows, row, cell), c, next, d) =
        Within(rows, row, Append(cell, c))
<1> SUFFICES ASSUME NEW rows, NEW row, NEW cell, NEW c, NEW next, NEW d, c # Quote
             PROVE  Scan(Within(rows, row, cell), c, next, d) = Within(rows, row, Append(cell, c))
  OBVIOUS
<1> QED BY DEF Scan, Quoted, Take, EndCell, EndRow, Bare, Within, Twice

\* A quote at the start of a cell begins a quoted part;
LEMMA ScanOpens ==
  \A d, cell : Delimits(d) /\ cell = <<>> =>
    \A rows, row, next :
      Scan(Bare(rows, row, cell), Quote, next, d) =
        Within(rows, row, cell)
<1> SUFFICES ASSUME NEW rows, NEW row, NEW cell, NEW next, NEW d, cell = <<>>, Delimits(d)
             PROVE  Scan(Bare(rows, row, cell), Quote, next, d) = Within(rows, row, cell)
  OBVIOUS
<1> QED BY DEF Scan, Quoted, Take, EndCell, EndRow, Bare, Within, Twice, Quote, Delimits

\* a delimiter ends a cell,
LEMMA ScanEndsCell ==
  \A d : Delimits(d) =>
    \A rows, row, cell, next :
      Scan(Bare(rows, row, cell), d, next, d) =
        Bare(rows, Append(row, cell), <<>>)
<1> SUFFICES ASSUME NEW rows, NEW row, NEW cell, NEW next, NEW d, Delimits(d)
             PROVE  Scan(Bare(rows, row, cell), d, next, d) = Bare(rows, Append(row, cell), <<>>)
  OBVIOUS
<1> QED BY DEF Scan, Quoted, Take, EndCell, EndRow, Bare, Within, Twice, Delimits

\* the end of a line a row,
LEMMA ScanEndsRow ==
  \A d : Delimits(d) =>
    \A rows, row, cell, next :
      Scan(Bare(rows, row, cell), "NL", next, d) =
        Bare(Append(rows, Append(row, NoCarriage(cell))), <<>>, <<>>)
<1> SUFFICES ASSUME NEW rows, NEW row, NEW cell, NEW next, NEW d, Delimits(d)
             PROVE  Scan(Bare(rows, row, cell), "NL", next, d) = Bare(Append(rows, Append(row, NoCarriage(cell))), <<>>, <<>>)
  OBVIOUS
<1> QED BY DEF Scan, Quoted, Take, EndCell, EndRow, Bare, Within, Twice, Quote, Delimits

\* and any other character is taken.
LEMMA ScanTakes ==
  \A c, d : Ordinary(c, d) =>
    \A rows, row, cell, next :
      Scan(Bare(rows, row, cell), c, next, d) =
        Bare(rows, row, Append(cell, c))
<1> SUFFICES ASSUME NEW rows, NEW row, NEW cell, NEW c, NEW next, NEW d, Ordinary(c, d)
             PROVE  Scan(Bare(rows, row, cell), c, next, d) = Bare(rows, row, Append(cell, c))
  OBVIOUS
<1> QED BY DEF Scan, Quoted, Take, EndCell, EndRow, Bare, Within, Twice, Ordinary

\* f is what the scanner goes through on a text.
Scans(f, text, d) ==
  f[0] = Start /\ \A k \in 1..Len(text) : f[k] = Scan(f[k - 1], text[k], At(text, k + 1), d)

\* A table is what the scanner has when it went through all of the text.
LEMMA ScanWorks ==
  ASSUME NEW text, Len(text) \in Nat, NEW d
  PROVE  \E f : /\ Scans(f, text, d)
                /\ Matrix(text, d) = LET m == f[Len(text)] IN
                     IF m.cell # <<>> \/ m.row # <<>> THEN EndRow(m).rows ELSE m.rows
<1> DEFINE n == Len(text)
           Step(m, k) == Scan(m, text[k], At(text, k + 1), d)
           F(f, m) == [k \in 0..m |-> IF k = 0 THEN Start ELSE Step(f[k - 1], k)]
           chosen == CHOOSE f : f = F(f, n)
           T == {m \in Nat : \E f : f = F(f, m)}
<1> HIDE DEF Step
<1>1. 0 \in T
  <2> DEFINE f == [k \in 0..0 |-> Start]
  <2>1. f = F(f, 0)
    OBVIOUS
  <2> HIDE DEF F, f
  <2> QED BY <2>1
<1>2. ASSUME NEW m \in Nat, m \in T PROVE m + 1 \in T
  <2>1. PICK f : f = F(f, m)
    BY <1>2
  <2> DEFINE g == [k \in 0..(m + 1) |-> IF k = m + 1 THEN Step(f[m], m + 1) ELSE f[k]]
  <2>2. g[0] = Start
    <3>1. F(f, m)[0] = Start
      OBVIOUS
    <3>2. f[0] = Start
      <4> HIDE DEF F
      <4> QED BY <2>1, <3>1
    <3> QED BY <3>2
  <2>3. ASSUME NEW k \in 1..(m + 1) PROVE g[k] = Step(g[k - 1], k)
    <3>1. CASE k = m + 1
      BY <3>1
    <3>2. CASE k \in 1..m
      <4>1. F(f, m)[k] = Step(f[k - 1], k)
        BY <3>2
      <4>2. f[k] = Step(f[k - 1], k)
        <5> HIDE DEF F
        <5> QED BY <2>1, <4>1
      <4>3. g[k] = f[k] /\ g[k - 1] = f[k - 1]
        BY <3>2
      <4> HIDE DEF g
      <4> QED BY <4>2, <4>3
    <3> QED BY <3>1, <3>2
  <2>4. g = [k \in 0..(m + 1) |-> g[k]] /\ \A k \in 0..(m + 1) : k = 0 \/ k \in 1..(m + 1)
    OBVIOUS
  <2> HIDE DEF g
  <2>5. g = F(g, m + 1)
    BY <2>2, <2>3, <2>4
  <2> HIDE DEF F
  <2> QED BY <2>5
<1>3. n \in T
  <2> HIDE DEF T
  <2> QED BY <1>1, <1>2, Induction
<1>4. chosen = F(chosen, n)
  <2> HIDE DEF F
  <2> QED BY <1>3
<1> HIDE DEF chosen
<1>5. F(chosen, n)[0] = Start /\ \A k \in 1..n : F(chosen, n)[k] = Step(chosen[k - 1], k)
  <2>1. 0 \in 0..n /\ \A k \in 1..n : k \in 0..n /\ k # 0
    OBVIOUS
  <2> HIDE DEF n
  <2> QED BY <2>1
<1>6. Scans(chosen, text, d)
  <2> HIDE DEF F
  <2> QED BY <1>4, <1>5 DEF Scans, Step
<1>7. Matrix(text, d) = LET m == chosen[n] IN
        IF m.cell # <<>> \/ m.row # <<>> THEN EndRow(m).rows ELSE m.rows
  BY DEF Matrix, Running, chosen, Step
<1> HIDE DEF F
<1> QED BY <1>6, <1>7

(***************************************************************************)
(* A cell is read back, in quotes or without.                              *)
(***************************************************************************)
\* A delimiter is no other character the scanner knows.
LEMMA DelimiterIs ==
  ASSUME NEW d \in Range(Delimiters)
  PROVE  d \in Char /\ d # Quote /\ d # "NL" /\ d # "CR"
<1>1. d \in Char
  BY DEF Char
<1>2. Range(Delimiters) = {",", ";", "TAB", "|"}
  <2>1. DOMAIN Delimiters = {1, 2, 3, 4}
    <3>1. \A a, b, c, e : DOMAIN <<a, b, c, e>> = 1..4
      OBVIOUS
    <3>2. 1..4 = {1, 2, 3, 4}
      OBVIOUS
    <3> QED BY <3>1, <3>2, Zenon DEF Delimiters
  <2>2. Delimiters[1] = "," /\ Delimiters[2] = ";" /\ Delimiters[3] = "TAB" /\ Delimiters[4] = "|"
    BY DEF Delimiters
  <2> QED BY <2>1, <2>2 DEF Range
<1>3. d # Quote /\ d # "NL" /\ d # "CR"
  BY <1>2 DEF Quote
<1> QED BY <1>1, <1>3

\* The first characters of a text, and one more.
LEMMA OneMore ==
  ASSUME NEW T, NEW s \in Seq(T)
  PROVE  /\ SubSeq(s, 1, 0) = <<>> /\ SubSeq(s, 1, Len(s)) = s
         /\ \A k \in 0..Len(s) : SubSeq(s, 1, k) \in Seq(T) /\ Len(SubSeq(s, 1, k)) = k
         /\ \A k \in 0..(Len(s) - 1) : SubSeq(s, 1, k + 1) = Append(SubSeq(s, 1, k), s[k + 1])
<1>1. PICK n \in Nat : n = Len(s)
  OBVIOUS
<1>2. SubSeq(s, 1, 0) = <<>> /\ SubSeq(s, 1, n) = s
  BY <1>1
<1>3. \A k \in 0..n : SubSeq(s, 1, k) \in Seq(T) /\ Len(SubSeq(s, 1, k)) = k
  BY <1>1
<1>4. ASSUME NEW k \in 0..(n - 1) PROVE SubSeq(s, 1, k + 1) = Append(SubSeq(s, 1, k), s[k + 1])
  BY <1>1
<1> QED BY <1>1, <1>2, <1>3, <1>4

\* In a cell without quotes every character is taken.
LEMMA PlainRead ==
  ASSUME NEW f, NEW text, Len(text) \in Nat, NEW d, Scans(f, text, d),
         NEW p \in Nat, NEW rows, NEW row, NEW c \in Seq(Char), p + Len(c) <= Len(text),
         f[p] = Bare(rows, row, <<>>),
         \A j \in 1..Len(c) : text[p + j] = c[j] /\ c[j] \notin {Quote, d, "NL"}
  PROVE  f[p + Len(c)] = Bare(rows, row, c)
<1>0. PICK n \in Nat : n = Len(c)
  BY ListFacts, Zenon
<1> DEFINE Read(m) == f[p + m] = Bare(rows, row, SubSeq(c, 1, m))
           T == {m \in Nat : m <= n => Read(m)}
<1> HIDE DEF Read
<1>1. 0 \in T
  <2>1. SubSeq(c, 1, 0) = <<>>
    BY OneMore, Zenon
  <2>2. p + 0 = p
    OBVIOUS
  <2>3. Read(0)
    BY <2>1, <2>2 DEF Read
  <2> QED BY <2>3
<1>2. ASSUME NEW m \in Nat, m \in T PROVE m + 1 \in T
  <2> SUFFICES ASSUME m + 1 <= n PROVE Read(m + 1)
    OBVIOUS
  <2>1. m \in 0..(n - 1) /\ m + 1 \in 1..n /\ m <= n /\ p + (m + 1) \in 1..Len(text) /\ (p + (m + 1)) - 1 = p + m
    BY <1>0
  <2>2. f[p + m] = Bare(rows, row, SubSeq(c, 1, m))
    BY <1>2, <2>1 DEF Read
  <2>3. SubSeq(c, 1, m + 1) = Append(SubSeq(c, 1, m), c[m + 1])
    BY <1>0, <2>1, OneMore, Zenon
  <2>4. text[p + (m + 1)] = c[m + 1] /\ c[m + 1] # Quote /\ c[m + 1] # d /\ c[m + 1] # "NL"
    BY <1>0, <2>1
  <2>5. f[p + (m + 1)] = Scan(f[p + m], text[p + (m + 1)], At(text, (p + (m + 1)) + 1), d)
    BY <2>1, Zenon DEF Scans
  <2>6. f[p + (m + 1)] = Bare(rows, row, SubSeq(c, 1, m + 1))
    <3> DEFINE x == SubSeq(c, 1, m)
               y == c[m + 1]
    <3>1. /\ f[p + m] = Bare(rows, row, x) /\ SubSeq(c, 1, m + 1) = Append(x, y)
          /\ text[p + (m + 1)] = y
      BY <2>2, <2>3, <2>4
    <3>3. Ordinary(y, d)
      BY <2>4 DEF Ordinary
    <3> HIDE DEF x, y
    <3>2. \A next : Scan(Bare(rows, row, x), y, next, d) = Bare(rows, row, Append(x, y))
      BY <3>3, ScanTakes
    <3> QED BY <2>5, <3>1, <3>2, Zenon
  <2> QED BY <2>6 DEF Read
<1>3. n \in T
  <2> HIDE DEF T
  <2> QED BY <1>1, <1>2, Induction
<1>4. SubSeq(c, 1, n) = c
  BY <1>0, OneMore, Zenon
<1>5. Read(n)
  BY <1>3
<1> HIDE DEF T
<1> QED BY <1>0, <1>4, <1>5 DEF Read

\* A cell as it is written in quotes.
InQuotes(c) == <<Quote>> \o FlattenSeq(Doubled(c)) \o <<Quote>>

\* Where the characters of a cell, n of them, stand when it is written in quotes.
Placed(off, c, n, w) ==
  /\ off \in [0..n -> Nat] /\ off[0] = 0
  /\ \A k \in 1..n : off[k] = off[k - 1] + (IF c[k] = Quote THEN 2 ELSE 1)
  /\ Len(w) = off[n] + 2 /\ w[1] = Quote /\ w[off[n] + 2] = Quote
  /\ \A k \in 1..n : w[off[k - 1] + 2] = c[k] /\ (c[k] = Quote => w[off[k - 1] + 3] = Quote)

\* A cell is written so.
LEMMA QuotedParts ==
  ASSUME NEW S, Quote \in S, NEW c \in Seq(S)
  PROVE  InQuotes(c) \in Seq(S) /\ \E off : Placed(off, c, Len(c), InQuotes(c))
<1> DEFINE D == Doubled(c)
           w == FlattenSeq(D)
<1>0. PICK n \in Nat : n = Len(c) /\ DOMAIN c = 1..n
  BY ListFacts, Zenon
<1>1. ASSUME NEW k \in 1..n
      PROVE  /\ D[k] = IF c[k] = Quote THEN <<Quote, Quote>> ELSE <<c[k]>>
             /\ D[k] \in Seq(S)
  <2>1. c[k] \in S
    BY <1>0
  <2>2. D[k] = IF c[k] = Quote THEN <<Quote, Quote>> ELSE <<c[k]>>
    BY <1>0 DEF Doubled
  <2>3. <<Quote, Quote>> \in Seq(S) /\ <<c[k]>> \in Seq(S)
    BY <2>1
  <2> QED BY <2>2, <2>3
<1>2. D \in Seq(Seq(S)) /\ Len(D) = n
  <2>1. D = [k \in 1..n |-> D[k]]
    BY <1>0 DEF Doubled
  <2> HIDE DEF D
  <2>2. \A k \in 1..n : D[k] \in Seq(S)
    BY <1>1
  <2> QED BY <2>1, <2>2
<1>3. PICK off : /\ Ends(off, D) /\ w \in Seq(S) /\ Len(w) = off[n]
                 /\ \A k \in 1..n : \A j \in 1..Len(D[k]) : w[off[k - 1] + j] = D[k][j]
  <2> HIDE DEF D
  <2>1. D \in ListsOf(S)
    BY <1>2 DEF ListsOf
  <2>2. \E off : Laid(off, D, FlattenSeq(D), S)
    BY <2>1, Segments
  <2> QED BY <1>2, <2>2 DEF w, Laid
<1>4. off \in [0..n -> Nat] /\ off[0] = 0 /\ off[n] \in Nat
  BY <1>0, <1>2, <1>3 DEF Ends
<1>5. ASSUME NEW k \in 1..n
      PROVE  /\ off[k] = off[k - 1] + (IF c[k] = Quote THEN 2 ELSE 1)
             /\ off[k - 1] \in Nat /\ off[k - 1] + 1 \in 1..off[k] /\ off[k] \in Nat
             /\ w[off[k - 1] + 1] = c[k] /\ (c[k] = Quote => w[off[k - 1] + 2] = Quote)
  <2>1. off[k] = off[k - 1] + Len(D[k])
    BY <1>2, <1>3 DEF Ends
  <2>2. off[k - 1] \in Nat /\ off[k] \in Nat
    <3>1. k - 1 \in 0..n /\ k \in 0..n
      BY <1>0
    <3> QED BY <1>4, <3>1
  <2>3. CASE c[k] = Quote
    <3>1. Len(<<Quote, Quote>>) = 2 /\ <<Quote, Quote>>[1] = Quote /\ <<Quote, Quote>>[2] = Quote
      OBVIOUS
    <3>2. Len(D[k]) = 2 /\ D[k][1] = Quote /\ D[k][2] = Quote
      <4> HIDE DEF D
      <4> QED BY <1>1, <2>3, <3>1
    <3> HIDE DEF D, w
    <3>3. 1 \in 1..Len(D[k]) /\ 2 \in 1..Len(D[k])
      BY <3>2
    <3>4. w[off[k - 1] + 1] = c[k] /\ w[off[k - 1] + 2] = Quote
      BY <1>3, <2>3, <3>2, <3>3
    <3> QED BY <2>1, <2>2, <2>3, <3>2, <3>4
  <2>4. CASE c[k] # Quote
    <3>1. Len(<<c[k]>>) = 1 /\ <<c[k]>>[1] = c[k]
      OBVIOUS
    <3>2. Len(D[k]) = 1 /\ D[k][1] = c[k]
      <4> HIDE DEF D
      <4> QED BY <1>1, <2>4, <3>1
    <3> HIDE DEF D, w
    <3>3. 1 \in 1..Len(D[k])
      BY <3>2
    <3>4. w[off[k - 1] + 1] = c[k]
      BY <1>3, <2>4, <3>2, <3>3
    <3> QED BY <2>1, <2>2, <2>4, <3>2, <3>4
  <2> QED BY <2>3, <2>4
<1>6. DEFINE q == <<Quote>>
<1>7. q \in Seq(S) /\ Len(q) = 1 /\ q[1] = Quote
  OBVIOUS
<1> HIDE DEF D, w, q
<1>8. /\ q \o w \in Seq(S) /\ Len(q \o w) = 1 + off[n] /\ (q \o w)[1] = Quote
      /\ \A i \in 1..off[n] : (q \o w)[i + 1] = w[i]
  <2>1. /\ q \o w \in Seq(S) /\ Len(q \o w) = Len(q) + Len(w)
        /\ \A i \in 1..Len(q) : (q \o w)[i] = q[i]
        /\ \A i \in 1..Len(w) : (q \o w)[i + Len(q)] = w[i]
    <3>1. q \in Seq(S) /\ w \in Seq(S)
      BY <1>3, <1>7
    <3> QED BY <3>1, JoinedAt
  <2> QED BY <1>3, <1>7, <2>1
<1> DEFINE v == q \o w
<1> HIDE DEF v
<1>9. /\ v \o q \in Seq(S) /\ Len(v \o q) = off[n] + 2 /\ (v \o q)[1] = Quote
      /\ \A i \in 1..off[n] : (v \o q)[i + 1] = w[i]
      /\ (v \o q)[off[n] + 2] = Quote
  <2>1. v \in Seq(S) /\ Len(v) = 1 + off[n] /\ v[1] = Quote /\ \A i \in 1..off[n] : v[i + 1] = w[i]
    BY <1>8 DEF v
  <2>2. /\ v \o q \in Seq(S) /\ Len(v \o q) = Len(v) + Len(q)
        /\ \A i \in 1..Len(v) : (v \o q)[i] = v[i]
        /\ \A i \in 1..Len(q) : (v \o q)[i + Len(v)] = q[i]
    <3>1. q \in Seq(S) /\ v \in Seq(S)
      BY <1>7, <2>1
    <3> QED BY <3>1, JoinedAt
  <2>3. 1 \in 1..Len(v) /\ 1 \in 1..Len(q) /\ 1 + Len(v) = off[n] + 2 /\ \A i \in 1..off[n] : i + 1 \in 1..Len(v)
    BY <1>4, <1>7, <2>1
  <2>4. (v \o q)[1 + Len(v)] = Quote
    BY <1>7, <2>2, <2>3
  <2>5. \A i \in 1..off[n] : (v \o q)[i + 1] = w[i]
    BY <2>1, <2>2, <2>3
  <2>6. Len(v \o q) = off[n] + 2
    BY <1>4, <1>7, <2>1, <2>2
  <2>7. (v \o q)[off[n] + 2] = Quote
    BY <2>3, <2>4
  <2> QED BY <2>1, <2>2, <2>3, <2>5, <2>6, <2>7
<1>10. InQuotes(c) = v \o q
  BY DEF InQuotes, v, q, w, D
<1>11. ASSUME NEW k \in 1..n
       PROVE  /\ InQuotes(c)[off[k - 1] + 2] = c[k]
              /\ c[k] = Quote => InQuotes(c)[off[k - 1] + 3] = Quote
  <2>1. off[k] <= off[n]
    <3> DEFINE U == {m \in Nat : k + m <= n => off[k] <= off[k + m]}
    <3>1. 0 \in U
      BY <1>5
    <3>2. ASSUME NEW m \in Nat, m \in U PROVE m + 1 \in U
      <4> SUFFICES ASSUME k + (m + 1) <= n PROVE off[k] <= off[k + (m + 1)]
        OBVIOUS
      <4>0. off[k] <= off[k + m]
        BY <3>2
      <4>1. k + (m + 1) \in 1..n /\ (k + (m + 1)) - 1 = k + m /\ k + m <= n
        BY <1>0
      <4>2. off[k + m] <= off[k + (m + 1)] /\ off[k + m] \in Nat /\ off[k + (m + 1)] \in Nat
        BY <1>5, <4>1
      <4>3. off[k] \in Nat
        BY <1>5
      <4> QED BY <4>0, <4>2, <4>3
    <3>3. n - k \in U
      <4>1. n - k \in Nat
        BY <1>0
      <4> HIDE DEF U
      <4> QED BY <3>1, <3>2, <4>1, Induction
    <3>4. k + (n - k) = n /\ n <= n
      BY <1>0
    <3> QED BY <3>3, <3>4
  <2>2. off[k - 1] + 1 \in 1..off[n] /\ (c[k] = Quote => off[k - 1] + 2 \in 1..off[n])
    <3>1. off[k - 1] \in Nat /\ off[k] \in Nat /\ off[n] \in Nat
      BY <1>4, <1>5
    <3>2. off[k] = off[k - 1] + (IF c[k] = Quote THEN 2 ELSE 1)
      BY <1>5
    <3> QED BY <2>1, <3>1, <3>2
  <2>3. (off[k - 1] + 1) + 1 = off[k - 1] + 2 /\ (off[k - 1] + 2) + 1 = off[k - 1] + 3
    BY <1>5
  <2> QED BY <1>5, <1>9, <1>10, <2>2, <2>3
<1>12. /\ InQuotes(c) \in Seq(S) /\ Len(InQuotes(c)) = off[n] + 2
       /\ InQuotes(c)[1] = Quote /\ InQuotes(c)[off[n] + 2] = Quote
  BY <1>9, <1>10
<1>13. Placed(off, c, n, InQuotes(c))
  BY <1>4, <1>5, <1>11, <1>12 DEF Placed
<1> QED BY <1>0, <1>12, <1>13

\* A text stands in another, after p characters.
Stands(w, text, p) == p + Len(w) <= Len(text) /\ \A j \in 1..Len(w) : text[p + j] = w[j]

\* A step of the scanner, and the character after the one that it reads.
LEMMA Stepped ==
  ASSUME NEW f, NEW text \in Seq(Char), NEW d, Scans(f, text, d), NEW k \in Nat, k + 1 <= Len(text)
  PROVE  f[k + 1] = Scan(f[k], text[k + 1], At(text, k + 2), d)
<1>1. Len(text) \in Nat
  BY ListFacts, Zenon
<1>2. k + 1 \in 1..Len(text) /\ (k + 1) - 1 = k /\ (k + 1) + 1 = k + 2
  BY <1>1
<1> QED BY <1>2, Zenon DEF Scans

\* The character at a place of a text.
LEMMA AtIs ==
  ASSUME NEW text \in Seq(Char), NEW i \in 1..Len(text)
  PROVE  At(text, i) = text[i]
<1>1. DOMAIN text = 1..Len(text)
  BY ListFacts, Zenon
<1> QED BY <1>1, Zenon DEF At

\* What is left to read, of z characters in quotes after p others, where those up to the last but
\* the one read next take a places.
LEMMA Further ==
  ASSUME NEW p \in Nat, NEW a \in Nat, NEW b \in Nat, NEW z \in Nat, NEW N \in Nat, p + z + 2 <= N, b <= z,
         NEW w \in Nat, w = z + 2
  PROVE  /\ p + 1 + a \in Nat /\ p + (a + 2) = (p + 1 + a) + 1 /\ p + (a + 3) = (p + 1 + a) + 2
         /\ b \in {a + 1, a + 2} =>
              a + 2 \in 1..w /\ (p + 1 + a) + 2 <= N /\ (p + 1 + a) + 1 <= N
         /\ b = a + 1 => p + 1 + b = (p + 1 + a) + 1
         /\ b = a + 2 => a + 3 \in 1..w /\ p + 1 + b = (p + 1 + a) + 2
OBVIOUS

\* In a cell with quotes every character is taken that stands for one.
LEMMA QuotedRead ==
  ASSUME NEW f, NEW text \in Seq(Char), NEW d, Scans(f, text, d), Delimits(d),
         NEW p \in Nat, NEW rows, NEW row, NEW c \in Seq(Char), Stands(InQuotes(c), text, p),
         f[p] = Bare(rows, row, <<>>),
         At(text, p + Len(InQuotes(c)) + 1) # Quote
  PROVE  f[p + Len(InQuotes(c))] = Bare(rows, row, c)
<1>0. PICK n \in Nat : n = Len(c)
  BY ListFacts, Zenon
<1>1. PICK off : Placed(off, c, n, InQuotes(c))
  <2>1. Quote \in Char
    BY DEF Char
  <2>2. \E off : Placed(off, c, Len(c), InQuotes(c))
    BY <2>1, QuotedParts
  <2> QED BY <1>0, <2>2
<1> DEFINE w == InQuotes(c)
           N == Len(text)
<1>2. /\ off \in [0..n -> Nat] /\ off[0] = 0 /\ off[n] \in Nat /\ Len(w) = off[n] + 2 /\ N \in Nat
      /\ \A k \in 1..n : off[k] = off[k - 1] + (IF c[k] = Quote THEN 2 ELSE 1)
      /\ w[1] = Quote /\ w[off[n] + 2] = Quote
      /\ \A k \in 1..n : w[off[k - 1] + 2] = c[k] /\ (c[k] = Quote => w[off[k - 1] + 3] = Quote)
  <2>1. N \in Nat
    BY ListFacts, Zenon
  <2> QED BY <1>1, <2>1 DEF Placed
<1>14. p + Len(w) <= N /\ \A j \in 1..Len(w) : text[p + j] = w[j]
  BY DEF Stands
<1>15. off[n] \in Nat /\ Len(w) = off[n] + 2 /\ p + Len(w) <= N /\ N \in Nat
  BY <1>2, <1>14
<1> HIDE DEF w
<1>3. ASSUME NEW k \in 0..n
      PROVE  off[k] \in Nat /\ off[k] <= off[n]
  <2> DEFINE U == {m \in Nat : k + m <= n => off[k] <= off[k + m]}
  <2>0. off[k] \in Nat
    BY <1>2
  <2>1. 0 \in U
    BY <2>0
  <2>2. ASSUME NEW m \in Nat, m \in U PROVE m + 1 \in U
    <3> SUFFICES ASSUME k + (m + 1) <= n PROVE off[k] <= off[k + (m + 1)]
      OBVIOUS
    <3>1. k + (m + 1) \in 1..n /\ (k + (m + 1)) - 1 = k + m /\ k + m \in 0..n
      BY <1>0
    <3>2. off[k] <= off[k + m]
      BY <2>2, <3>1
    <3>3. off[k + (m + 1)] = off[k + m] + (IF c[k + (m + 1)] = Quote THEN 2 ELSE 1) /\ off[k + m] \in Nat
      BY <1>2, <3>1
    <3> QED BY <2>0, <3>2, <3>3
  <2>3. n - k \in U
    <3>1. n - k \in Nat
      BY <1>0
    <3> HIDE DEF U
    <3> QED BY <2>1, <2>2, <3>1, Induction
  <2>4. k + (n - k) = n /\ n <= n
    BY <1>0
  <2> QED BY <2>0, <2>3, <2>4
<1> DEFINE Read(m) == f[p + 1 + off[m]] = Within(rows, row, SubSeq(c, 1, m))
           T == {m \in Nat : m <= n => Read(m)}
<1> HIDE DEF Read
<1>4. 0 \in T
  <2>1. SubSeq(c, 1, 0) = <<>>
    BY OneMore, Zenon
  <2>2. 1 \in 1..Len(w) /\ p + 1 <= N
    BY <1>2, <1>14
  <2>3. text[p + 1] = Quote
    BY <1>2, <1>14, <2>2
  <2>4. f[p + 1] = Scan(f[p], text[p + 1], At(text, p + 2), d)
    BY <2>2, Stepped
  <2>5. f[p + 1] = Within(rows, row, <<>>)
    BY <2>3, <2>4, ScanOpens
  <2>6. p + 1 + off[0] = p + 1
    BY <1>2
  <2>7. Read(0)
    BY <2>1, <2>5, <2>6 DEF Read
  <2> QED BY <2>7
<1>5. ASSUME NEW m \in Nat, m \in T PROVE m + 1 \in T
  <2> SUFFICES ASSUME m + 1 <= n PROVE Read(m + 1)
    OBVIOUS
  <2>1. m \in 0..n /\ m + 1 \in 1..n /\ m + 1 \in 0..n /\ (m + 1) - 1 = m /\ m \in 0..(n - 1)
    BY <1>0
  <2> DEFINE b == p + 1 + off[m]
             s == SubSeq(c, 1, m)
             x == c[m + 1]
  <2>2. f[b] = Within(rows, row, s)
    BY <1>5, <2>1 DEF Read
  <2>3. SubSeq(c, 1, m + 1) = Append(s, x)
    BY <1>0, <2>1, OneMore, Zenon
  <2>4. /\ off[m] \in Nat /\ off[m + 1] \in Nat /\ off[m + 1] <= off[n]
        /\ off[m + 1] = off[m] + (IF x = Quote THEN 2 ELSE 1)
        /\ w[off[m] + 2] = x /\ (x = Quote => w[off[m] + 3] = Quote)
    <3>1. off[m] \in Nat /\ off[m + 1] \in Nat /\ off[m + 1] <= off[n]
      BY <1>3, <2>1
    <3>2. off[m + 1] = off[m] + (IF c[m + 1] = Quote THEN 2 ELSE 1)
      BY <1>2, <2>1
    <3>3. w[off[m] + 2] = c[m + 1] /\ (c[m + 1] = Quote => w[off[m] + 3] = Quote)
      BY <1>2, <2>1
    <3> QED BY <3>1, <3>2, <3>3
  <2>5. /\ b \in Nat /\ b + 1 <= N /\ b + 2 <= N /\ off[m] + 2 \in 1..Len(w)
        /\ p + (off[m] + 2) = b + 1 /\ p + (off[m] + 3) = b + 2
        /\ (x = Quote => off[m] + 3 \in 1..Len(w) /\ p + 1 + off[m + 1] = b + 2)
        /\ (x # Quote => p + 1 + off[m + 1] = b + 1)
    <3>1. /\ off[m] \in Nat /\ off[m + 1] \in Nat /\ off[m + 1] <= off[n]
          /\ off[m + 1] = off[m] + (IF x = Quote THEN 2 ELSE 1)
      BY <2>4
    <3>2. off[m + 1] = off[m] + 2 <=> x = Quote
      BY <3>1
    <3>3. off[m + 1] = off[m] + 1 <=> x # Quote
      BY <3>1
    <3>4. p + off[n] + 2 <= N /\ off[n] \in Nat /\ N \in Nat /\ Len(w) \in Nat /\ Len(w) = off[n] + 2
      BY <1>15
    <3> DEFINE g == off[m]
               h == off[m + 1]
               z == off[n]
               v == Len(w)
    <3>5. g \in Nat /\ h \in Nat /\ z \in Nat /\ N \in Nat /\ p + z + 2 <= N /\ h <= z /\ v \in Nat /\ v = z + 2
      BY <3>1, <3>4
    <3> HIDE DEF x, N, g, h, z, v
    <3>6. /\ p + 1 + g \in Nat /\ p + (g + 2) = (p + 1 + g) + 1 /\ p + (g + 3) = (p + 1 + g) + 2
          /\ h \in {g + 1, g + 2} => g + 2 \in 1..v /\ (p + 1 + g) + 2 <= N /\ (p + 1 + g) + 1 <= N
          /\ h = g + 1 => p + 1 + h = (p + 1 + g) + 1
          /\ h = g + 2 => g + 3 \in 1..v /\ p + 1 + h = (p + 1 + g) + 2
      BY <3>5, Further
    <3>7. (h = g + 2 <=> x = Quote) /\ (h = g + 1 <=> x # Quote)
      BY <3>2, <3>3 DEF g, h
    <3> QED BY <3>6, <3>7 DEF g, h, v
  <2> HIDE DEF b, s, x
  <2>6. text[b + 1] = x
    BY <1>2, <1>14, <2>4, <2>5
  <2>7. f[b + 1] = Scan(f[b], text[b + 1], At(text, b + 2), d)
    BY <2>5, Stepped
  <2>8. CASE x = Quote
    <3>1. text[b + 2] = Quote
      BY <1>2, <1>14, <2>4, <2>5, <2>8
    <3>2. At(text, b + 2) = Quote
      <4>1. b + 2 \in 1..Len(text)
        <5>1. b \in Nat /\ b + 2 <= N /\ N \in Nat
          BY <1>2, <2>5
        <5> QED BY <5>1
      <4> QED BY <3>1, <4>1, AtIs
    <3>3. f[b + 1] = Twice(rows, row, Append(s, Quote))
      BY <2>2, <2>6, <2>7, <2>8, <3>2, ScanDoubles
    <3>4. f[(b + 1) + 1] = Scan(f[b + 1], text[(b + 1) + 1], At(text, (b + 1) + 2), d)
      <4>1. b + 1 \in Nat /\ (b + 1) + 1 <= Len(text)
        BY <1>2, <2>5
      <4> QED BY <4>1, Stepped
    <3>5. f[(b + 1) + 1] = Within(rows, row, Append(s, Quote))
      BY <3>3, <3>4, ScanSkips
    <3>6. (b + 1) + 1 = p + 1 + off[m + 1]
      BY <2>5, <2>8
    <3> QED BY <2>3, <2>8, <3>5, <3>6 DEF Read
  <2>9. CASE x # Quote
    <3>1. f[b + 1] = Within(rows, row, Append(s, x))
      BY <2>2, <2>6, <2>7, <2>9, ScanKeeps
    <3>2. b + 1 = p + 1 + off[m + 1]
      BY <2>5, <2>9
    <3> QED BY <2>3, <3>1, <3>2 DEF Read
  <2> QED BY <2>8, <2>9
<1>6. n \in T
  <2> HIDE DEF T
  <2> QED BY <1>4, <1>5, Induction
<1>7. f[p + 1 + off[n]] = Within(rows, row, c)
  <2>1. SubSeq(c, 1, n) = c
    BY <1>0, OneMore, Zenon
  <2>2. Read(n)
    BY <1>6
  <2> QED BY <2>1, <2>2 DEF Read
<1> DEFINE e == p + 1 + off[n]
<1>8. e \in Nat /\ e + 1 = p + Len(w) /\ e + 2 = p + Len(w) + 1 /\ e + 1 <= N /\ p + (off[n] + 2) = e + 1 /\ off[n] + 2 \in 1..Len(w)
  BY <1>15
<1> HIDE DEF e
<1>9. text[e + 1] = Quote
  BY <1>2, <1>8, <1>14
<1>10. f[e + 1] = Scan(f[e], text[e + 1], At(text, e + 2), d)
  BY <1>8, Stepped
<1>11. At(text, e + 2) # Quote
  BY <1>8 DEF w
<1>12. f[e] = Within(rows, row, c)
  BY <1>7 DEF e
<1>13. f[e + 1] = Bare(rows, row, c)
  BY <1>9, <1>10, <1>11, <1>12, ScanCloses
<1> QED BY <1>8, <1>13 DEF w

\* What is written of a cell is not longer without quotes, and is read back.
LEMMA CellRead ==
  ASSUME NEW f, NEW text \in Seq(Char), NEW d, Scans(f, text, d), Delimits(d),
         NEW p \in Nat, NEW rows, NEW row, NEW c \in Seq(Char), Stands(Cell(c, d), text, p),
         f[p] = Bare(rows, row, <<>>),
         At(text, p + Len(Cell(c, d)) + 1) # Quote
  PROVE  f[p + Len(Cell(c, d))] = Bare(rows, row, c)
<1>1. CASE Plain(c, d)
  <2>1. Cell(c, d) = c
    BY <1>1 DEF Cell
  <2>2. DOMAIN c = 1..Len(c)
    BY ListFacts, Zenon
  <2>3. \A j \in 1..Len(c) : c[j] \notin {Quote, d, "NL"}
    BY <1>1, <2>2 DEF Plain, Range
  <2>4. Len(text) \in Nat
    BY ListFacts, Zenon
  <2>5. \A j \in 1..Len(c) : text[p + j] = c[j] /\ c[j] \notin {Quote, d, "NL"}
    BY <2>1, <2>3 DEF Stands
  <2>6. p + Len(c) <= Len(text)
    BY <2>1 DEF Stands
  <2>7. f[p + Len(c)] = Bare(rows, row, c)
    BY <2>4, <2>5, <2>6, PlainRead
  <2> QED BY <2>1, <2>7
<1>2. CASE ~Plain(c, d)
  <2>1. Cell(c, d) = InQuotes(c)
    BY <1>2 DEF Cell, InQuotes
  <2>2. Stands(InQuotes(c), text, p) /\ At(text, p + Len(InQuotes(c)) + 1) # Quote
    BY <2>1
  <2>4. f[p + Len(InQuotes(c))] = Bare(rows, row, c)
    BY <2>2, QuotedRead
  <2> QED BY <2>1, <2>4
<1> QED BY <1>1, <1>2

(***************************************************************************)
(* A row is read back, and a file of rows.                                 *)
(***************************************************************************)
\* What stands in a text that stands in another.
LEMMA StandsWithin ==
  ASSUME NEW w, NEW v, NEW text, NEW p \in Nat, NEW q \in Nat, Len(w) \in Nat, Len(v) \in Nat, Len(text) \in Nat,
         Stands(w, v, q), Stands(v, text, p)
  PROVE  Stands(w, text, p + q)
<1>1. q + Len(w) <= Len(v) /\ p + Len(v) <= Len(text)
  BY DEF Stands
<1>2. (p + q) + Len(w) <= Len(text)
  BY <1>1
<1>3. ASSUME NEW j \in 1..Len(w) PROVE text[(p + q) + j] = w[j]
  <2>1. q + j \in 1..Len(v) /\ p + (q + j) = (p + q) + j
    BY <1>1
  <2>2. v[q + j] = w[j]
    BY DEF Stands
  <2>3. text[p + (q + j)] = v[q + j]
    BY <2>1, Zenon DEF Stands
  <2> QED BY <2>1, <2>2, <2>3
<1> QED BY <1>2, <1>3 DEF Stands

\* What is written of a cell is a text.
LEMMA CellTyped ==
  ASSUME NEW S, Quote \in S, NEW c \in Seq(S), NEW d
  PROVE  Cell(c, d) \in Seq(S) /\ Len(Cell(c, d)) \in Nat
<1>1. InQuotes(c) \in Seq(S)
  BY QuotedParts
<1>2. Cell(c, d) = c \/ Cell(c, d) = InQuotes(c)
  BY DEF Cell, InQuotes
<1>3. Cell(c, d) \in Seq(S)
  BY <1>1, <1>2
<1> QED BY <1>3, ListFacts, Zenon

\* Where the cells of a row stand in the line that is written of it.
Rowed(at, row, d, body) ==
  /\ at \in [1..Len(row) -> Nat] /\ at[1] = 0
  /\ \A i \in 1..Len(row) : Stands(Cell(row[i], d), body, at[i])
  /\ \A i \in 1..(Len(row) - 1) :
       at[i + 1] = at[i] + Len(Cell(row[i], d)) + 1 /\ at[i + 1] <= Len(body) /\ body[at[i + 1]] = d
  /\ Len(body) = at[Len(row)] + Len(Cell(row[Len(row)], d))

\* What is written of a row is a text in which they stand so.
LEMMA RowParts ==
  ASSUME NEW S, Quote \in S, NEW d \in S, NEW row \in Seq(Seq(S)), Len(row) >= 1
  PROVE  FlattenSeq(Cells(row, d)) \in Seq(S) /\ \E at : Rowed(at, row, d, FlattenSeq(Cells(row, d)))
<1> DEFINE n == Len(row)
           pre == [i \in 1..n |-> IF i = 1 THEN <<>> ELSE <<d>>]
           w == [i \in 1..n |-> Cell(row[i], d)]
           lists == Cells(row, d)
           body == FlattenSeq(lists)
<1>1. n \in Nat /\ n >= 1 /\ DOMAIN row = 1..n /\ \A i \in 1..n : row[i] \in Seq(S)
  BY ListFacts, Zenon
<1>2. ASSUME NEW i \in 1..n
      PROVE  /\ pre[i] = (IF i = 1 THEN <<>> ELSE <<d>>) /\ w[i] = Cell(row[i], d)
             /\ pre[i] \in Seq(S) /\ w[i] \in Seq(S) /\ Len(w[i]) \in Nat
             /\ Len(pre[i]) = (IF i = 1 THEN 0 ELSE 1) /\ (i # 1 => pre[i][1] = d) /\ Len(pre[i]) \in Nat
  <2>1. pre[i] = (IF i = 1 THEN <<>> ELSE <<d>>) /\ w[i] = Cell(row[i], d)
    OBVIOUS
  <2>2. w[i] \in Seq(S) /\ Len(w[i]) \in Nat
    <3>1. row[i] \in Seq(S)
      BY <1>1
    <3>2. Cell(row[i], d) \in Seq(S) /\ Len(Cell(row[i], d)) \in Nat
      BY <3>1, CellTyped
    <3> HIDE DEF w
    <3> QED BY <2>1, <3>2
  <2>3. <<>> \in Seq(S) /\ <<d>> \in Seq(S) /\ Len(<<>>) = 0 /\ Len(<<d>>) = 1 /\ <<d>>[1] = d
    OBVIOUS
  <2> HIDE DEF pre, w
  <2> QED BY <2>1, <2>2, <2>3
<1> HIDE DEF pre, w
<1>3. ASSUME NEW i \in 1..n
      PROVE  /\ lists[i] = pre[i] \o w[i] /\ lists[i] \in Seq(S)
             /\ Len(lists[i]) = Len(pre[i]) + Len(w[i])
             /\ \A j \in 1..Len(pre[i]) : lists[i][j] = pre[i][j]
             /\ \A j \in 1..Len(w[i]) : lists[i][j + Len(pre[i])] = w[i][j]
  <2>1. lists[i] = pre[i] \o w[i]
    BY <1>1, <1>2 DEF Cells
  <2> DEFINE a == pre[i]
             b == w[i]
  <2>2. a \in Seq(S) /\ b \in Seq(S)
    BY <1>2
  <2> HIDE DEF a, b, lists
  <2>3. /\ a \o b \in Seq(S) /\ Len(a \o b) = Len(a) + Len(b)
        /\ \A j \in 1..Len(a) : (a \o b)[j] = a[j]
        /\ \A j \in 1..Len(b) : (a \o b)[j + Len(a)] = b[j]
    BY <2>2, JoinedAt
  <2>4. lists[i] = a \o b
    BY <2>1 DEF a, b
  <2>5. /\ lists[i] = a \o b /\ lists[i] \in Seq(S) /\ Len(lists[i]) = Len(a) + Len(b)
        /\ \A j \in 1..Len(a) : lists[i][j] = a[j]
        /\ \A j \in 1..Len(b) : lists[i][j + Len(a)] = b[j]
    BY <2>3, <2>4, Zenon
  <2> QED BY <2>5 DEF a, b
<1>4. lists \in Seq(Seq(S)) /\ Len(lists) = n
  <2>1. lists = [i \in 1..n |-> lists[i]]
    BY <1>1 DEF Cells
  <2> HIDE DEF lists, n
  <2>2. \A i \in 1..n : lists[i] \in Seq(S)
    BY <1>3
  <2>3. n \in Nat
    BY <1>1
  <2>4. ASSUME NEW s, s = [i \in 1..n |-> lists[i]] PROVE s \in Seq(Seq(S)) /\ Len(s) = n
    BY <2>2, <2>3, <2>4
  <2> QED BY <2>1, <2>4
<1>5. PICK off : /\ Ends(off, lists) /\ body \in Seq(S) /\ Len(body) = off[Len(lists)]
                 /\ \A k \in 1..Len(lists) : \A j \in 1..Len(lists[k]) : body[off[k - 1] + j] = lists[k][j]
  <2> HIDE DEF lists
  <2>1. \E off : Laid(off, lists, FlattenSeq(lists), S)
    <3>1. lists \in ListsOf(S)
      BY <1>4 DEF ListsOf
    <3> HIDE DEF n
    <3> QED BY <3>1, Segments
  <2> QED BY <2>1 DEF Laid
<1> HIDE DEF body
<1>6. /\ off \in [0..n -> Nat] /\ off[0] = 0 /\ Len(body) = off[n]
      /\ \A k \in 1..n : off[k] = off[k - 1] + Len(lists[k])
      /\ \A k \in 1..n : \A j \in 1..Len(lists[k]) : body[off[k - 1] + j] = lists[k][j]
  <2> HIDE DEF lists, n
  <2> QED BY <1>4, <1>5 DEF Ends
<1> DEFINE at == [i \in 1..n |-> off[i - 1] + Len(pre[i])]
<1>7. ASSUME NEW i \in 1..n
      PROVE  /\ at[i] = off[i - 1] + Len(pre[i]) /\ off[i - 1] \in Nat /\ off[i] \in Nat /\ at[i] \in Nat
             /\ off[i] = at[i] + Len(w[i])
  <2> HIDE DEF n
  <2>1. at[i] = off[i - 1] + Len(pre[i])
    OBVIOUS
  <2>2. i - 1 \in 0..n /\ i \in 0..n
    BY <1>1
  <2>3. off[i - 1] \in Nat /\ off[i] \in Nat
    BY <1>6, <2>2
  <2>4. off[i] = off[i - 1] + Len(lists[i]) /\ Len(lists[i]) = Len(pre[i]) + Len(w[i])
    BY <1>3, <1>6
  <2>5. Len(pre[i]) \in Nat /\ Len(w[i]) \in Nat
    BY <1>2
  <2> HIDE DEF at
  <2>6. at[i] \in Nat /\ off[i] = at[i] + Len(w[i])
    <3> DEFINE a == at[i]
               b == off[i - 1]
               e == Len(pre[i])
               g == Len(w[i])
               h == Len(lists[i])
               z == off[i]
    <3>1. a = b + e /\ b \in Nat /\ z = b + h /\ h = e + g /\ e \in Nat /\ g \in Nat
      BY <2>1, <2>3, <2>4, <2>5
    <3> HIDE DEF a, b, e, g, h, z
    <3>2. a \in Nat /\ z = a + g
      BY <3>1
    <3> QED BY <3>2 DEF a, g, z
  <2> QED BY <2>1, <2>3, <2>6
<1> HIDE DEF at, lists
<1>8. ASSUME NEW m \in Nat, NEW i \in 1..n, i + m <= n PROVE off[i] <= off[i + m]
  <2> DEFINE U == {k \in Nat : i + k <= n => off[i] <= off[i + k]}
  <2>1. 0 \in U
    BY <1>7
  <2>2. ASSUME NEW k \in Nat, k \in U PROVE k + 1 \in U
    <3> SUFFICES ASSUME i + (k + 1) <= n PROVE off[i] <= off[i + (k + 1)]
      OBVIOUS
    <3>1. i + (k + 1) \in 1..n /\ (i + (k + 1)) - 1 = i + k /\ i + k \in 1..n
      BY <1>1
    <3>2. off[i] <= off[i + k]
      BY <2>2, <3>1
    <3>3. off[i + (k + 1)] = off[i + k] + Len(lists[i + (k + 1)]) /\ off[i + k] \in Nat /\ off[i + (k + 1)] \in Nat
      BY <1>6, <1>7, <3>1
    <3>4. Len(lists[i + (k + 1)]) \in Nat
      BY <1>3, <3>1, ListFacts, Zenon
    <3>5. off[i] \in Nat
      BY <1>7
    <3> QED BY <3>2, <3>3, <3>4, <3>5
  <2>3. m \in U
    <3> HIDE DEF U
    <3> QED BY <2>1, <2>2, Induction
  <2> QED BY <1>8, <2>3
<1>9. ASSUME NEW i \in 1..n PROVE off[i] <= off[n] /\ off[n] \in Nat
  <2>1. n - i \in Nat /\ i + (n - i) = n /\ i + (n - i) <= n /\ n \in 1..n
    BY <1>1
  <2>2. off[i] <= off[i + (n - i)]
    BY <1>8, <2>1
  <2> HIDE DEF n
  <2> QED BY <1>7, <2>1, <2>2
<1>10. ASSUME NEW i \in 1..n PROVE Stands(w[i], body, at[i])
  <2>1. at[i] + Len(w[i]) <= Len(body)
    BY <1>2, <1>6, <1>7, <1>9
  <2>2. ASSUME NEW j \in 1..Len(w[i]) PROVE body[at[i] + j] = w[i][j]
    <3>1. Len(pre[i]) \in Nat /\ Len(w[i]) \in Nat /\ Len(lists[i]) = Len(pre[i]) + Len(w[i])
      <4>1. Len(pre[i]) \in Nat /\ Len(w[i]) \in Nat
        BY <1>2
      <4>2. Len(lists[i]) = Len(pre[i]) + Len(w[i])
        BY <1>3
      <4> QED BY <4>1, <4>2
    <3>2. j + Len(pre[i]) \in 1..Len(lists[i])
      <4> DEFINE a == Len(pre[i])
                 b == Len(w[i])
                 z == Len(lists[i])
      <4>1. a \in Nat /\ b \in Nat /\ z = a + b /\ j \in 1..b
        BY <3>1
      <4> HIDE DEF a, b, z
      <4>2. j + a \in 1..z
        BY <4>1
      <4> QED BY <4>2 DEF a, z
    <3>3. body[off[i - 1] + (j + Len(pre[i]))] = lists[i][j + Len(pre[i])]
      BY <1>6, <3>2
    <3>4. off[i - 1] + (j + Len(pre[i])) = at[i] + j
      <4> DEFINE x == off[i - 1]
                 y == Len(pre[i])
                 z == at[i]
      <4>1. x \in Nat /\ y \in Nat /\ z = x + y /\ j \in Nat
        BY <1>7, <3>1
      <4> HIDE DEF x, y, z
      <4>2. x + (j + y) = z + j
        BY <4>1
      <4> QED BY <4>2 DEF x, y, z
    <3>5. lists[i][j + Len(pre[i])] = w[i][j]
      BY <1>3
    <3> QED BY <3>3, <3>4, <3>5
  <2> QED BY <2>1, <2>2 DEF Stands
<1>11. ASSUME NEW i \in 1..(n - 1)
       PROVE  at[i + 1] = at[i] + Len(w[i]) + 1 /\ at[i + 1] <= Len(body) /\ body[at[i + 1]] = d
  <2>1. i \in 1..n /\ i + 1 \in 1..n /\ (i + 1) - 1 = i /\ i + 1 # 1
    BY <1>1
  <2>2. Len(pre[i + 1]) = 1 /\ pre[i + 1][1] = d
    BY <1>2, <2>1
  <2>3. at[i + 1] = off[i] + 1 /\ off[i] = at[i] + Len(w[i]) /\ off[i] \in Nat /\ at[i] \in Nat /\ at[i + 1] \in Nat
    BY <1>7, <2>1, <2>2
  <2>4. Len(w[i]) \in Nat /\ Len(w[i + 1]) \in Nat /\ Len(lists[i + 1]) = 1 + Len(w[i + 1])
    BY <1>2, <1>3, <2>1, <2>2
  <2>5. lists[i + 1][1] = d
    <3>1. 1 \in 1..Len(pre[i + 1])
      BY <2>2
    <3> QED BY <1>3, <2>1, <2>2, <3>1
  <2>6. 1 \in 1..Len(lists[i + 1])
    BY <2>4
  <2>7. body[off[i] + 1] = d
    BY <1>6, <2>1, <2>5, <2>6
  <2>8. at[i + 1] <= Len(body)
    <3>1. off[i + 1] = at[i + 1] + Len(w[i + 1]) /\ off[i + 1] <= off[n] /\ off[n] = Len(body) /\ off[n] \in Nat
      BY <1>6, <1>7, <1>9, <2>1
    <3> QED BY <2>3, <2>4, <3>1
  <2>9. at[i + 1] = at[i] + Len(w[i]) + 1
    BY <2>3, <2>4
  <2> QED BY <2>3, <2>7, <2>8, <2>9
<1>12. at \in [1..n -> Nat] /\ at[1] = 0 /\ Len(body) = at[n] + Len(w[n])
  <2>1. 1 \in 1..n /\ n \in 1..n /\ 1 - 1 = 0
    BY <1>1
  <2>2. at = [i \in 1..n |-> at[i]]
    BY DEF at
  <2>3. at \in [1..n -> Nat]
    <3> HIDE DEF n
    <3> QED BY <1>7, <2>2
  <2>4. at[1] = off[0] + Len(pre[1]) /\ Len(pre[1]) = 0
    BY <1>2, <1>7, <2>1
  <2>5. off[n] = at[n] + Len(w[n])
    BY <1>7, <2>1
  <2> QED BY <1>6, <2>3, <2>4, <2>5
<1>13. \A i \in 1..n : w[i] = Cell(row[i], d)
  BY <1>2
<1>14. n \in 1..n /\ \A i \in 1..(n - 1) : i \in 1..n
  BY <1>1
<1>15. Rowed(at, row, d, body)
  <2>1. \A i \in 1..n : Stands(Cell(row[i], d), body, at[i])
    BY <1>10, <1>13
  <2>2. \A i \in 1..(n - 1) :
          at[i + 1] = at[i] + Len(Cell(row[i], d)) + 1 /\ at[i + 1] <= Len(body) /\ body[at[i + 1]] = d
    BY <1>11, <1>13, <1>14
  <2>3. Len(body) = at[n] + Len(Cell(row[n], d))
    BY <1>12, <1>13, <1>14
  <2> QED BY <1>12, <2>1, <2>2, <2>3 DEF Rowed
<1> QED BY <1>5, <1>15 DEF body, lists

\* What is read back of a row: its last cell loses a carriage return where none is written after it.
Back(row, ending) ==
  Append(SubSeq(row, 1, Len(row) - 1), IF ending = <<"NL">> THEN NoCarriage(row[Len(row)]) ELSE row[Len(row)])

\* A carriage return that was added is cut off.
LEMMA NoCarriageOf ==
  ASSUME NEW T, "CR" \in T, NEW c \in Seq(T)
  PROVE  NoCarriage(Append(c, "CR")) = c
<1> DEFINE s == Append(c, "CR")
<1>1. PICK n \in Nat : n = Len(c)
  OBVIOUS
<1>2. s \in Seq(T) /\ Len(s) = n + 1 /\ s[n + 1] = "CR" /\ \A i \in 1..n : s[i] = c[i]
  BY <1>1, AppendTyped
<1> HIDE DEF s
<1>3. s # <<>> /\ Last(s) = "CR"
  <2>1. Len(s) >= 1
    BY <1>1, <1>2
  <2> QED BY <1>2, <2>1, ListFacts
<1>4. Front(s) \in Seq(T) /\ Len(Front(s)) = n /\ \A i \in 1..n : Front(s)[i] = s[i]
  <2>1. Len(s) >= 1
    BY <1>1, <1>2
  <2>2. Front(s) \in Seq(T) /\ Len(Front(s)) = Len(s) - 1 /\ \A i \in 1..(Len(s) - 1) : Front(s)[i] = s[i]
    BY <1>2, <2>1, FrontIs
  <2>3. Len(s) - 1 = n
    BY <1>1, <1>2
  <2> QED BY <2>2, <2>3
<1>5. Front(s) = c
  <2> DEFINE t == Front(s)
  <2>1. t \in Seq(T) /\ c \in Seq(T) /\ Len(t) = Len(c) /\ \A i \in 1..Len(c) : t[i] = c[i]
    BY <1>1, <1>2, <1>4
  <2> HIDE DEF t
  <2>2. t = c
    BY <2>1
  <2> QED BY <2>2 DEF t
<1>6. NoCarriage(s) = c
  BY <1>3, <1>5 DEF NoCarriage
<1> QED BY <1>6 DEF s

\* The ends that a line may have, and the line that is written of a row.
Endings == {<<"NL">>, <<"CR", "NL">>}
LineOf(row, d, ending) == FlattenSeq(Cells(row, d)) \o ending

\* From the start of a row, the scanner comes to the start of the next with the row read.
LEMMA RowRead ==
  ASSUME NEW f, NEW text \in Seq(Char), NEW d \in Range(Delimiters), Scans(f, text, d),
         NEW p \in Nat, NEW rows, NEW row \in ListsOf(Char), Len(row) >= 1,
         NEW ending \in Endings, f[p] = Bare(rows, <<>>, <<>>),
         Stands(LineOf(row, d, ending), text, p)
  PROVE  f[p + Len(LineOf(row, d, ending))] = Bare(Append(rows, Back(row, ending)), <<>>, <<>>)
<1> USE DEF ListsOf, Endings
<1> DEFINE n == Len(row)
           N == Len(text)
           body == FlattenSeq(Cells(row, d))
           line == LineOf(row, d, ending)
           z == Len(body)
<1>1. /\ n \in Nat /\ n >= 1 /\ N \in Nat /\ \A i \in 1..n : row[i] \in Seq(Char)
      /\ d \in Char /\ Delimits(d) /\ d # "CR" /\ Quote \in Char /\ "CR" \in Char /\ "NL" \in Char
  <2>1. n \in Nat /\ N \in Nat /\ \A i \in 1..n : row[i] \in Seq(Char)
    BY ListFacts, Zenon
  <2>2. d \in Char /\ Delimits(d) /\ d # "CR"
    BY DelimiterIs DEF Delimits
  <2>3. Quote \in Char /\ "CR" \in Char /\ "NL" \in Char
    BY DEF Char
  <2> QED BY <2>1, <2>2, <2>3
<1>2. body \in Seq(Char) /\ \E at : Rowed(at, row, d, body)
  <2> HIDE DEF n
  <2> QED BY <1>1, RowParts DEF n
<1>3. PICK at : Rowed(at, row, d, body)
  BY <1>2
<1>7. p + Len(line) <= N /\ \A j \in 1..Len(line) : text[p + j] = line[j]
  BY Zenon DEF Stands
<1>0. line = body \o ending
  BY Zenon DEF LineOf
<1> HIDE DEF body
<1>4. /\ at \in [1..n -> Nat] /\ at[1] = 0 /\ z = at[n] + Len(Cell(row[n], d))
      /\ \A i \in 1..n : Stands(Cell(row[i], d), body, at[i])
      /\ \A i \in 1..(n - 1) : at[i + 1] = at[i] + Len(Cell(row[i], d)) + 1 /\ at[i + 1] <= z /\ body[at[i + 1]] = d
  BY <1>3 DEF Rowed
<1>5. ending \in Seq(Char) /\ Len(ending) \in {1, 2} /\ ending[1] \in {"NL", "CR"}
  <2>1. <<"NL">> \in Seq(Char) /\ Len(<<"NL">>) = 1 /\ <<"NL">>[1] = "NL"
    BY <1>1
  <2>2. <<"CR", "NL">> \in Seq(Char) /\ Len(<<"CR", "NL">>) = 2 /\ <<"CR", "NL">>[1] = "CR"
    BY <1>1
  <2> QED BY <2>1, <2>2
<1>6. /\ line \in Seq(Char) /\ Len(line) = z + Len(ending) /\ z \in Nat
      /\ \A i \in 1..z : line[i] = body[i]
      /\ \A i \in 1..Len(ending) : line[i + z] = ending[i]
  <2>1. z \in Nat
    BY <1>2, ListFacts, Zenon
  <2> HIDE DEF z, line
  <2>2. /\ body \o ending \in Seq(Char) /\ Len(body \o ending) = Len(body) + Len(ending)
        /\ \A i \in 1..Len(body) : (body \o ending)[i] = body[i]
        /\ \A i \in 1..Len(ending) : (body \o ending)[i + Len(body)] = ending[i]
    BY <1>2, <1>5, JoinedAt
  <2>3. \A x, y : x = y => Len(x) = Len(y) /\ \A i : x[i] = y[i]
    OBVIOUS
  <2> QED BY <1>0, <2>1, <2>2, <2>3, Zenon DEF z
<1> HIDE DEF line, z
<1>8. ASSUME NEW j \in 1..z PROVE p + j \in 1..N /\ text[p + j] = body[j] /\ At(text, p + j) = body[j]
  <2>1. j \in 1..Len(line) /\ p + j \in 1..N
    BY <1>1, <1>5, <1>6, <1>7
  <2>2. text[p + j] = body[j]
    BY <1>6, <1>7, <2>1
  <2> QED BY <2>1, <2>2, AtIs
<1>9. ASSUME NEW j \in 1..Len(ending)
      PROVE  p + z + j \in 1..N /\ text[p + z + j] = ending[j] /\ At(text, p + z + j) = ending[j]
  <2>1. j + z \in 1..Len(line) /\ p + (j + z) \in 1..N /\ p + (j + z) = p + z + j
    BY <1>1, <1>5, <1>6, <1>7
  <2>2. text[p + (j + z)] = ending[j]
    BY <1>6, <1>7, <2>1
  <2> QED BY <2>1, <2>2, AtIs
<1>10. Stands(body, text, p)
  <2>1. p + z <= N
    BY <1>5, <1>6, <1>7
  <2> QED BY <1>8, <2>1 DEF Stands, z
<1> DEFINE w(i) == Cell(row[i], d)
<1>11. ASSUME NEW i \in 1..n PROVE w(i) \in Seq(Char) /\ Len(w(i)) \in Nat /\ at[i] \in Nat
  <2>1. row[i] \in Seq(Char) /\ Quote \in Char
    BY <1>1
  <2>2. at[i] \in Nat
    BY <1>4
  <2> QED BY <2>1, <2>2, CellTyped
\* After a cell comes a delimiter or the end of the line.
<1>12. ASSUME NEW i \in 1..n PROVE At(text, p + at[i] + Len(w(i)) + 1) # Quote
  <2>1. CASE i = n
    <3>0. z = at[i] + Len(w(i)) /\ Len(w(i)) \in Nat /\ at[i] \in Nat
      BY <1>4, <1>11, <2>1
    <3>1. 1 \in 1..Len(ending) /\ p + at[i] + Len(w(i)) + 1 = p + z + 1
      <4> DEFINE a == at[i]
                 b == Len(w(i))
      <4>1. a \in Nat /\ b \in Nat /\ z = a + b
        BY <3>0
      <4> HIDE DEF a, b
      <4>2. p + a + b + 1 = p + z + 1
        BY <4>1
      <4> QED BY <1>5, <4>2 DEF a, b
    <3>2. At(text, p + z + 1) = ending[1]
      BY <1>9, <3>1
    <3>3. ending[1] # Quote
      BY <1>5 DEF Quote
    <3> QED BY <3>1, <3>2, <3>3
  <2>2. CASE i # n
    <3>1. i \in 1..(n - 1) /\ i + 1 \in 1..n
      BY <1>1, <2>2
    <3>2. at[i + 1] = at[i] + Len(w(i)) + 1 /\ at[i + 1] <= z /\ body[at[i + 1]] = d
      BY <1>4, <3>1
    <3>3. at[i + 1] \in 1..z /\ p + at[i + 1] = p + at[i] + Len(w(i)) + 1
      <4> DEFINE a == at[i]
                 b == Len(w(i))
                 g == at[i + 1]
      <4>1. a \in Nat /\ b \in Nat /\ g = a + b + 1 /\ g <= z /\ z \in Nat
        BY <1>6, <1>11, <3>2
      <4> HIDE DEF a, b, g
      <4>2. g \in 1..z /\ p + g = p + a + b + 1
        BY <4>1
      <4> QED BY <4>2 DEF a, b, g
    <3>4. At(text, p + at[i + 1]) = d
      BY <1>8, <3>2, <3>3
    <3> QED BY <1>1, <3>3, <3>4 DEF Delimits
  <2> QED BY <2>1, <2>2
<1>13. ASSUME NEW i \in 1..n, NEW before, f[p + at[i]] = Bare(rows, before, <<>>)
       PROVE  f[p + at[i] + Len(w(i))] = Bare(rows, before, row[i])
  <2>1. Stands(w(i), text, p + at[i])
    <3>1. Stands(w(i), body, at[i]) /\ Len(body) \in Nat
      BY <1>4, <1>6 DEF z
    <3> HIDE DEF w
    <3> QED BY <1>1, <1>10, <1>11, <3>1, StandsWithin
  <2>2. p + at[i] \in Nat /\ row[i] \in Seq(Char)
    BY <1>1, <1>11
  <2> DEFINE q == p + at[i]
             c == row[i]
  <2>3. /\ q \in Nat /\ c \in Seq(Char) /\ Stands(Cell(c, d), text, q) /\ f[q] = Bare(rows, before, <<>>)
        /\ At(text, q + Len(Cell(c, d)) + 1) # Quote
    BY <1>12, <1>13, <2>1, <2>2
  <2> HIDE DEF q, c
  <2>4. f[q + Len(Cell(c, d))] = Bare(rows, before, c)
    BY <1>1, <2>3, CellRead
  <2> QED BY <2>4 DEF q, c
<1> DEFINE WithNext(m) == f[p + at[m + 1]] = Bare(rows, SubSeq(row, 1, m), <<>>)
           T == {m \in Nat : m + 1 <= n => WithNext(m)}
<1> HIDE DEF WithNext
<1>14. 0 \in T
  <2>1. SubSeq(row, 1, 0) = <<>>
    BY OneMore, Zenon
  <2>2. p + at[0 + 1] = p
    BY <1>4
  <2>3. WithNext(0)
    BY <2>1, <2>2 DEF WithNext
  <2> QED BY <2>3
<1>15. ASSUME NEW m \in Nat, m \in T PROVE m + 1 \in T
  <2> SUFFICES ASSUME (m + 1) + 1 <= n PROVE WithNext(m + 1)
    OBVIOUS
  <2> DEFINE i == m + 1
             q == p + at[i] + Len(w(i))
             s == SubSeq(row, 1, m)
  <2>1. i \in 1..n /\ i \in 1..(n - 1) /\ m \in 0..(n - 1) /\ i + 1 \in 1..n
    BY <1>1
  <2>2. f[p + at[i]] = Bare(rows, s, <<>>)
    BY <1>15, <2>1 DEF WithNext
  <2>3. f[q] = Bare(rows, s, row[i])
    BY <1>13, <2>1, <2>2
  <2>4. SubSeq(row, 1, i) = Append(s, row[i])
    BY <2>1, OneMore, Zenon
  <2>5. at[i + 1] = at[i] + Len(w(i)) + 1 /\ at[i + 1] <= z /\ body[at[i + 1]] = d
    BY <1>4, <2>1
  <2>6. at[i + 1] \in 1..z /\ p + at[i + 1] = q + 1 /\ q \in Nat
    <3> DEFINE a == at[i]
               b == Len(w(i))
               g == at[i + 1]
    <3>1. a \in Nat /\ b \in Nat /\ g = a + b + 1 /\ g <= z /\ z \in Nat
      BY <1>6, <1>11, <2>1, <2>5
    <3> HIDE DEF a, b, g
    <3>2. g \in 1..z /\ p + g = (p + a + b) + 1 /\ p + a + b \in Nat
      BY <3>1
    <3> QED BY <3>2 DEF a, b, g
  <2> HIDE DEF q, s, i
  <2>7. text[q + 1] = d /\ q + 1 <= N
    BY <1>8, <2>5, <2>6
  <2>8. f[q + 1] = Scan(f[q], text[q + 1], At(text, q + 2), d)
    BY <2>6, <2>7, Stepped
  <2>9. f[q + 1] = Bare(rows, Append(s, row[i]), <<>>)
    BY <1>1, <2>3, <2>7, <2>8, ScanEndsCell
  <2>10. f[p + at[i + 1]] = Bare(rows, SubSeq(row, 1, i), <<>>)
    BY <2>4, <2>6, <2>9
  <2> QED BY <2>10 DEF WithNext, i
<1>16. n - 1 \in T
  <2>1. n - 1 \in Nat
    BY <1>1
  <2> HIDE DEF T
  <2> QED BY <1>14, <1>15, <2>1, Induction
<1> DEFINE s == SubSeq(row, 1, n - 1)
           c == row[n]
           e == p + z
<1>17. f[e] = Bare(rows, s, c) /\ e \in Nat /\ c \in Seq(Char)
  <2>1. n \in 1..n /\ (n - 1) + 1 = n /\ n <= n
    BY <1>1
  <2>2. WithNext(n - 1)
    BY <1>16, <2>1
  <2>3. f[p + at[n]] = Bare(rows, s, <<>>)
    BY <2>1, <2>2 DEF WithNext
  <2>4. f[p + at[n] + Len(w(n))] = Bare(rows, s, row[n])
    BY <1>13, <2>1, <2>3
  <2>5. p + at[n] + Len(w(n)) = p + z /\ p + z \in Nat
    <3> DEFINE a == at[n]
               b == Len(w(n))
    <3>1. a \in Nat /\ b \in Nat /\ z = a + b
      BY <1>4, <1>11, <2>1
    <3> HIDE DEF a, b
    <3>2. p + a + b = p + z /\ p + z \in Nat
      BY <3>1
    <3> QED BY <3>2 DEF a, b
  <2> QED BY <1>1, <2>1, <2>4, <2>5
<1> HIDE DEF s, c, e
<1>18. e + 1 = p + z + 1 /\ e + 2 = p + z + 2 /\ e + 1 <= N
  <2>1. 1 \in 1..Len(ending)
    BY <1>5
  <2>2. p + z + 1 \in 1..N
    BY <1>9, <2>1
  <2> QED BY <1>6, <2>2 DEF e
<1>19. f[e + 1] = Scan(f[e], text[e + 1], At(text, e + 2), d)
  BY <1>17, <1>18, Stepped
<1>20. CASE ending = <<"NL">>
  <2>1. Len(ending) = 1 /\ ending[1] = "NL"
    BY <1>20
  <2>2. text[e + 1] = "NL" /\ e + 1 = p + Len(line)
    <3>1. 1 \in 1..Len(ending)
      BY <2>1
    <3>2. text[p + z + 1] = "NL"
      BY <1>9, <2>1, <3>1
    <3>3. p + Len(line) = p + z + 1
      BY <1>6, <2>1
    <3> QED BY <1>18, <3>2, <3>3
  <2>3. f[e + 1] = Bare(Append(rows, Append(s, NoCarriage(c))), <<>>, <<>>)
    BY <1>1, <1>17, <1>19, <2>2, ScanEndsRow
  <2>4. Append(s, NoCarriage(c)) = Back(row, ending)
    BY <1>20 DEF Back, s, c
  <2> QED BY <2>2, <2>3, <2>4 DEF line, body
<1>21. CASE ending = <<"CR", "NL">>
  <2>1. Len(ending) = 2 /\ ending[1] = "CR" /\ ending[2] = "NL" /\ ending # <<"NL">>
    BY <1>21
  <2>2. /\ text[e + 1] = "CR" /\ text[e + 2] = "NL" /\ e + 2 = p + Len(line) /\ e + 2 <= N
        /\ (e + 1) + 1 = e + 2 /\ (e + 1) + 2 = e + 3 /\ e + 1 \in Nat
    <3>1. 1 \in 1..Len(ending) /\ 2 \in 1..Len(ending)
      BY <2>1
    <3>2. text[p + z + 1] = "CR" /\ text[p + z + 2] = "NL" /\ p + z + 2 \in 1..N
      BY <1>9, <2>1, <3>1
    <3>3. p + Len(line) = p + z + 2
      BY <1>6, <2>1
    <3>4. (e + 1) + 1 = e + 2 /\ (e + 1) + 2 = e + 3 /\ e + 1 \in Nat
      BY <1>17
    <3> QED BY <1>1, <1>18, <3>2, <3>3, <3>4
  <2>3. f[e + 1] = Bare(rows, s, Append(c, "CR"))
    <3>1. Ordinary("CR", d)
      BY <1>1 DEF Ordinary, Quote
    <3> QED BY <1>17, <1>19, <2>2, <3>1, ScanTakes
  <2>4. f[e + 2] = Scan(f[e + 1], text[e + 2], At(text, e + 3), d)
    <3>1. (e + 1) + 1 <= N
      BY <2>2
    <3>2. f[(e + 1) + 1] = Scan(f[e + 1], text[(e + 1) + 1], At(text, (e + 1) + 2), d)
      BY <2>2, <3>1, Stepped
    <3> QED BY <2>2, <3>2
  <2>5. f[e + 2] = Bare(Append(rows, Append(s, NoCarriage(Append(c, "CR")))), <<>>, <<>>)
    BY <1>1, <2>2, <2>3, <2>4, ScanEndsRow
  <2>6. NoCarriage(Append(c, "CR")) = c
    BY <1>1, <1>17, NoCarriageOf
  <2>7. Append(s, c) = Back(row, ending)
    BY <2>1 DEF Back, s, c
  <2> QED BY <2>2, <2>5, <2>6, <2>7 DEF line, body
<1> QED BY <1>20, <1>21

\* It has as many cells as the row, each of them the row's, or that without a carriage return.
LEMMA BackIs ==
  ASSUME NEW row \in Seq(Seq(Char)), Len(row) >= 1, NEW ending
  PROVE  /\ Back(row, ending) \in Seq(Seq(Char)) /\ Len(Back(row, ending)) = Len(row)
         /\ \A i \in 1..Len(row) : Back(row, ending)[i] \in {row[i], NoCarriage(row[i])}
<1> DEFINE n == Len(row)
           s == SubSeq(row, 1, n - 1)
           c == IF ending = <<"NL">> THEN NoCarriage(row[n]) ELSE row[n]
<1>1. n \in Nat /\ n >= 1 /\ n - 1 \in 0..n
  <2>1. n \in Nat
    BY ListFacts, Zenon
  <2> QED BY <2>1
<1>2. s \in Seq(Seq(Char)) /\ Len(s) = n - 1
  BY <1>1, OneMore, Zenon
<1>3. \A i \in 1..(n - 1) : s[i] = row[i]
  BY <1>1
<1>4. c \in Seq(Char) /\ c \in {row[n], NoCarriage(row[n])}
  <2>1. row[n] \in Seq(Char)
    BY <1>1, ListFacts
  <2> QED BY <2>1, NoCarriageTyped
<1>5. Back(row, ending) = Append(s, c)
  BY Zenon DEF Back
<1> HIDE DEF s, c, n
<1>6. /\ Append(s, c) \in Seq(Seq(Char)) /\ Len(Append(s, c)) = Len(s) + 1
      /\ Append(s, c)[Len(s) + 1] = c /\ \A i \in 1..Len(s) : Append(s, c)[i] = s[i]
  BY <1>2, <1>4, AppendTyped
<1>7. (n - 1) + 1 = n /\ \A i \in 1..n : i = n \/ i \in 1..(n - 1)
  BY <1>1
<1>8. \A i \in 1..n : Append(s, c)[i] \in {row[i], NoCarriage(row[i])}
  BY <1>2, <1>3, <1>4, <1>6, <1>7
<1>9. Len(Append(s, c)) = n
  BY <1>2, <1>6, <1>7
<1> QED BY <1>5, <1>6, <1>8, <1>9 DEF n

\* The lines of a file, and the file.
LEMMA ExportTyped ==
  ASSUME NEW s, Export(s)
  PROVE  /\ s.matrix \in Seq(Seq(Seq(Char))) /\ Len(s.matrix) \in Nat /\ Len(s.matrix) >= 1
         /\ DOMAIN s.matrix = 1..Len(s.matrix)
         /\ \A k \in 1..Len(s.matrix) :
              /\ s.matrix[k] \in Seq(Seq(STRING)) /\ s.matrix[k] \in Seq(Seq(Char))
              /\ Len(s.matrix[k]) = Len(s.matrix[1]) /\ Len(s.matrix[k]) >= 1
         /\ s.delimiter \in Range(Delimiters) /\ s.ending \in {<<"NL">>, <<"CR", "NL">>}
<1>1. s.matrix \in Seq(Seq(Seq(STRING))) /\ s.matrix # <<>> /\ s.matrix[1] # <<>>
  BY DEF Export
<1>2. \A x \in Seq(STRING) : x \in Seq(Char)
  <2>1. \A c \in STRING : c \in Char
    BY DEF Char
  <2> QED BY <2>1, LargerLists, Zenon
<1>3. \A x \in Seq(Seq(STRING)) : x \in Seq(Seq(Char))
  BY <1>2, LargerLists, Zenon
<1>4. s.matrix \in Seq(Seq(Seq(Char)))
  BY <1>1, <1>3, LargerLists, Zenon
<1>5. /\ Len(s.matrix) \in Nat /\ Len(s.matrix) >= 1 /\ DOMAIN s.matrix = 1..Len(s.matrix)
      /\ \A k \in 1..Len(s.matrix) : s.matrix[k] \in Seq(Seq(STRING))
  BY <1>1, ListFacts, Zenon
<1>6. 1 \in 1..Len(s.matrix)
  BY <1>5
<1>7. Len(s.matrix[1]) >= 1
  BY <1>1, <1>5, <1>6, ListFacts, Zenon
<1>8. \A k \in 1..Len(s.matrix) : Len(s.matrix[k]) = Len(s.matrix[1])
  BY <1>5, Zenon DEF Export
<1>9. s.delimiter \in Range(Delimiters) /\ s.ending \in {<<"NL">>, <<"CR", "NL">>}
  BY Zenon DEF Export
<1>10. \A k \in 1..Len(s.matrix) : s.matrix[k] \in Seq(Seq(Char)) /\ Len(s.matrix[k]) >= 1
  BY <1>3, <1>5, <1>7, <1>8
<1> QED BY <1>4, <1>5, <1>8, <1>9, <1>10

\* The lines of a file are texts.
LEMMA LinesTyped ==
  ASSUME NEW s, Export(s)
  PROVE  /\ [i \in DOMAIN s.matrix |-> Line(s.matrix[i], s)] \in Seq(Seq(Char))
         /\ Len([i \in DOMAIN s.matrix |-> Line(s.matrix[i], s)]) = Len(s.matrix)
<1> DEFINE n == Len(s.matrix)
<1>1. n \in Nat /\ DOMAIN s.matrix = 1..n
  BY ExportTyped
<1>2. s.ending \in Seq(Char)
  <2>1. "NL" \in Char /\ "CR" \in Char
    BY DEF Char
  <2>2. <<"NL">> \in Seq(Char) /\ <<"CR", "NL">> \in Seq(Char)
    BY <2>1
  <2> QED BY <2>2, ExportTyped
<1>3. ASSUME NEW i \in 1..n PROVE Line(s.matrix[i], s) \in Seq(Char)
  <2>1. s.matrix[i] \in Seq(Seq(Char)) /\ Len(s.matrix[i]) >= 1
    BY <1>1, ExportTyped
  <2>2. s.delimiter \in Char /\ Quote \in Char
    BY ExportTyped, DelimiterIs DEF Char
  <2> DEFINE body == FlattenSeq(Cells(s.matrix[i], s.delimiter))
             e == s.ending
  <2>3. body \in Seq(Char) /\ e \in Seq(Char)
    BY <1>2, <2>1, <2>2, RowParts
  <2> HIDE DEF body, e
  <2>4. body \o e \in Seq(Char)
    BY <2>3, JoinedAt
  <2> QED BY <2>4 DEF Line, body, e
<1> DEFINE lists == [i \in 1..n |-> Line(s.matrix[i], s)]
<1>4. lists \in Seq(Seq(Char)) /\ Len(lists) = n
  <2> HIDE DEF n
  <2> QED BY <1>1, <1>3
<1> QED BY <1>1, <1>4, Zenon

\* A file is read row by row.
LEMMA MatrixRead ==
  ASSUME NEW s, Export(s)
  PROVE  Matrix(Written(s), s.delimiter) = [k \in 1..Len(s.matrix) |-> Back(s.matrix[k], s.ending)]
<1> DEFINE n == Len(s.matrix)
           d == s.delimiter
           lists == [i \in DOMAIN s.matrix |-> Line(s.matrix[i], s)]
           text == Written(s)
           M == [k \in 1..n |-> Back(s.matrix[k], s.ending)]
<1>1. /\ n \in Nat /\ n >= 1 /\ DOMAIN s.matrix = 1..n /\ d \in Range(Delimiters)
      /\ s.ending \in {<<"NL">>, <<"CR", "NL">>}
      /\ \A k \in 1..n : s.matrix[k] \in Seq(Seq(Char)) /\ Len(s.matrix[k]) >= 1
  BY ExportTyped
<1>2. lists \in Seq(Seq(Char)) /\ Len(lists) = n
  BY LinesTyped
<1>3. \A k \in 1..n : lists[k] = FlattenSeq(Cells(s.matrix[k], d)) \o s.ending /\ lists[k] \in Seq(Char)
  <2>1. \A k \in 1..n : lists[k] = FlattenSeq(Cells(s.matrix[k], d)) \o s.ending
    BY <1>1 DEF Line
  <2> HIDE DEF lists
  <2> QED BY <1>2, <2>1, ListFacts
<1>4. PICK off : /\ Ends(off, lists) /\ text \in Seq(Char) /\ Len(text) = off[n]
                 /\ \A k \in 1..n : \A j \in 1..Len(lists[k]) : text[off[k - 1] + j] = lists[k][j]
  <2>1. text = FlattenSeq(lists)
    BY DEF Written
  <2>2. lists \in Seq(Seq(Char)) /\ Len(lists) = n
    BY <1>2
  <2> HIDE DEF lists, text, n
  <2>3. lists \in ListsOf(Char)
    BY <2>2 DEF ListsOf
  <2>4. PICK off : Laid(off, lists, FlattenSeq(lists), Char)
    BY <2>3, Segments
  <2> QED BY <2>1, <2>2, <2>4 DEF Laid
<1> HIDE DEF lists, text
<1>5. /\ off \in [0..n -> Nat] /\ off[0] = 0 /\ Len(text) = off[n]
      /\ \A k \in 1..n : off[k] = off[k - 1] + Len(lists[k])
  <2> HIDE DEF n
  <2> QED BY <1>2, <1>4 DEF Ends
<1> HIDE DEF n, d
<1>6. ASSUME NEW k \in 1..n
      PROVE  off[k - 1] \in Nat /\ off[k] \in Nat /\ Len(lists[k]) \in Nat /\ off[k] = off[k - 1] + Len(lists[k])
  <2>1. k - 1 \in 0..n /\ k \in 0..n
    BY <1>1
  <2>2. Len(lists[k]) \in Nat
    BY <1>3, ListFacts, Zenon
  <2> QED BY <1>5, <2>1, <2>2
<1>7. ASSUME NEW m \in Nat, NEW i \in 1..n, i + m <= n PROVE off[i] <= off[i + m]
  <2> DEFINE U == {k \in Nat : i + k <= n => off[i] <= off[i + k]}
  <2>1. 0 \in U
    BY <1>6
  <2>2. ASSUME NEW k \in Nat, k \in U PROVE k + 1 \in U
    <3> SUFFICES ASSUME i + (k + 1) <= n PROVE off[i] <= off[i + (k + 1)]
      OBVIOUS
    <3>1. i + (k + 1) \in 1..n /\ (i + (k + 1)) - 1 = i + k /\ i + k \in 1..n
      BY <1>1
    <3>2. off[i] <= off[i + k] /\ off[i] \in Nat
      BY <1>6, <2>2, <3>1
    <3>3. /\ off[i + (k + 1)] = off[i + k] + Len(lists[i + (k + 1)])
          /\ off[i + k] \in Nat /\ Len(lists[i + (k + 1)]) \in Nat
      BY <1>6, <3>1
    <3> QED BY <3>2, <3>3
  <2>3. m \in U
    <3> HIDE DEF U
    <3> QED BY <2>1, <2>2, Induction
  <2> QED BY <1>7, <2>3
<1>8. ASSUME NEW k \in 1..n PROVE Stands(lists[k], text, off[k - 1])
  <2>1. n - k \in Nat /\ k + (n - k) = n /\ k + (n - k) <= n
    BY <1>1
  <2>2. off[k] <= off[n]
    BY <1>7, <2>1
  <2>3. off[k - 1] + Len(lists[k]) <= Len(text)
    BY <1>5, <1>6, <2>2
  <2> QED BY <1>4, <2>3 DEF Stands
<1>9. PICK f : /\ Scans(f, text, d)
               /\ Matrix(text, d) = LET m == f[Len(text)] IN
                    IF m.cell # <<>> \/ m.row # <<>> THEN EndRow(m).rows ELSE m.rows
  <2>1. Len(text) \in Nat
    BY <1>4, ListFacts, Zenon
  <2> QED BY <2>1, ScanWorks
<1>10. M \in Seq(Seq(Seq(Char))) /\ Len(M) = n /\ \A k \in 1..n : M[k] = Back(s.matrix[k], s.ending)
  <2>1. \A k \in 1..n : Back(s.matrix[k], s.ending) \in Seq(Seq(Char))
    BY <1>1, BackIs
  <2> QED BY <1>1, <2>1
<1> HIDE DEF M
<1> DEFINE Read(k) == f[off[k]] = Bare(SubSeq(M, 1, k), <<>>, <<>>)
           T == {k \in Nat : k <= n => Read(k)}
<1> HIDE DEF Read
<1>11. 0 \in T
  <2>1. SubSeq(M, 1, 0) = <<>>
    BY <1>10, OneMore, Zenon
  <2>2. f[0] = Bare(<<>>, <<>>, <<>>)
    BY <1>9 DEF Scans, Start, Bare
  <2>3. Read(0)
    BY <1>5, <2>1, <2>2 DEF Read
  <2> QED BY <2>3
<1>12. ASSUME NEW k \in Nat, k \in T PROVE k + 1 \in T
  <2> SUFFICES ASSUME k + 1 <= n PROVE Read(k + 1)
    OBVIOUS
  <2>1. k + 1 \in 1..n /\ (k + 1) - 1 = k /\ k \in 0..(n - 1)
    BY <1>1
  <2> DEFINE row == s.matrix[k + 1]
             p == off[k]
             e == s.ending
             rows == SubSeq(M, 1, k)
  <2>2. f[p] = Bare(rows, <<>>, <<>>)
    <3>1. k <= n
      BY <1>1, <2>1
    <3>2. Read(k)
      BY <1>12, <3>1
    <3> QED BY <3>2 DEF Read
  <2>3. row \in Seq(Seq(Char)) /\ Len(row) >= 1 /\ p \in Nat /\ e \in {<<"NL">>, <<"CR", "NL">>}
    BY <1>1, <1>6, <2>1
  <2>4. lists[k + 1] = LineOf(row, d, e)
    BY <1>3, <2>1 DEF LineOf
  <2>5. Stands(lists[k + 1], text, p)
    BY <1>8, <2>1
  <2>6. SubSeq(M, 1, k + 1) = Append(rows, Back(row, e))
    <3>1. SubSeq(M, 1, k + 1) = Append(rows, M[k + 1])
      BY <1>10, <2>1, OneMore, Zenon
    <3> QED BY <1>10, <2>1, <3>1
  <2>7. off[k + 1] = p + Len(lists[k + 1])
    BY <1>6, <2>1
  <2> HIDE DEF row, p, e, rows
  <2>8. f[p + Len(lists[k + 1])] = Bare(Append(rows, Back(row, e)), <<>>, <<>>)
    <3>1. text \in Seq(Char) /\ d \in Range(Delimiters) /\ Scans(f, text, d)
      BY <1>1, <1>4, <1>9
    <3>2. row \in ListsOf(Char) /\ e \in Endings
      BY <2>3 DEF ListsOf, Endings
    <3> DEFINE line == LineOf(row, d, e)
    <3>3. Stands(line, text, p) /\ Len(row) >= 1 /\ p \in Nat /\ f[p] = Bare(rows, <<>>, <<>>)
      BY <2>2, <2>3, <2>4, <2>5
    <3>4. f[p + Len(line)] = Bare(Append(rows, Back(row, e)), <<>>, <<>>)
      BY <3>1, <3>2, <3>3, RowRead
    <3> QED BY <2>4, <3>4
  <2> QED BY <2>6, <2>7, <2>8 DEF Read
<1>13. n \in T
  <2> HIDE DEF T
  <2> QED BY <1>1, <1>11, <1>12, Induction
<1>14. f[Len(text)] = Bare(M, <<>>, <<>>)
  <2>1. SubSeq(M, 1, n) = M
    BY <1>10, OneMore, Zenon
  <2>2. Read(n)
    BY <1>1, <1>13
  <2> QED BY <1>5, <2>1, <2>2 DEF Read
<1>15. Matrix(text, d) = M
  <2> DEFINE m == Bare(M, <<>>, <<>>)
  <2>1. m.cell = <<>> /\ m.row = <<>> /\ m.rows = M
    BY DEF Bare
  <2> HIDE DEF m
  <2>2. f[Len(text)] = m
    BY <1>14 DEF m
  <2> QED BY <1>9, <2>1, <2>2, Zenon
<1> QED BY <1>15, Zenon DEF text, d, M, n

(***************************************************************************)
(* The guess of the delimiter: what its loops go through.                  *)
(***************************************************************************)
\* f is what the cut into lines goes through.
Cuts(f, text) == f[0] = <<<<>>>> /\ \A k \in 1..Len(text) : f[k] = AddTo(f[k - 1], text[k])

\* The lines of a text are what it ends with.
LEMMA LinesWork ==
  ASSUME NEW text, Len(text) \in Nat
  PROVE  \E f : Cuts(f, text) /\ Lines(text) = f[Len(text)]
<1> DEFINE n == Len(text)
           Step(m, k) == AddTo(m, text[k])
           F(f, m) == [k \in 0..m |-> IF k = 0 THEN <<<<>>>> ELSE Step(f[k - 1], k)]
           chosen == CHOOSE f : f = F(f, n)
           T == {m \in Nat : \E f : f = F(f, m)}
<1> HIDE DEF Step
<1>1. 0 \in T
  <2> DEFINE f == [k \in 0..0 |-> <<<<>>>>]
  <2>1. f = F(f, 0)
    OBVIOUS
  <2> HIDE DEF F, f
  <2> QED BY <2>1
<1>2. ASSUME NEW m \in Nat, m \in T PROVE m + 1 \in T
  <2>1. PICK f : f = F(f, m)
    BY <1>2
  <2> DEFINE g == [k \in 0..(m + 1) |-> IF k = m + 1 THEN Step(f[m], m + 1) ELSE f[k]]
  <2>2. g[0] = <<<<>>>>
    <3>1. F(f, m)[0] = <<<<>>>>
      OBVIOUS
    <3>2. f[0] = <<<<>>>>
      <4> HIDE DEF F
      <4> QED BY <2>1, <3>1
    <3> QED BY <3>2
  <2>3. ASSUME NEW k \in 1..(m + 1) PROVE g[k] = Step(g[k - 1], k)
    <3>1. CASE k = m + 1
      BY <3>1
    <3>2. CASE k \in 1..m
      <4>1. F(f, m)[k] = Step(f[k - 1], k)
        BY <3>2
      <4>2. f[k] = Step(f[k - 1], k)
        <5> HIDE DEF F
        <5> QED BY <2>1, <4>1
      <4>3. g[k] = f[k] /\ g[k - 1] = f[k - 1]
        BY <3>2
      <4> HIDE DEF g
      <4> QED BY <4>2, <4>3
    <3> QED BY <3>1, <3>2
  <2>4. g = [k \in 0..(m + 1) |-> g[k]] /\ \A k \in 0..(m + 1) : k = 0 \/ k \in 1..(m + 1)
    OBVIOUS
  <2> HIDE DEF g
  <2>5. g = F(g, m + 1)
    BY <2>2, <2>3, <2>4
  <2> HIDE DEF F
  <2> QED BY <2>5
<1>3. n \in T
  <2> HIDE DEF T
  <2> QED BY <1>1, <1>2, Induction
<1>4. chosen = F(chosen, n)
  <2> HIDE DEF F
  <2> QED BY <1>3
<1> HIDE DEF chosen
<1>5. F(chosen, n)[0] = <<<<>>>> /\ \A k \in 1..n : F(chosen, n)[k] = Step(chosen[k - 1], k)
  <2>1. 0 \in 0..n /\ \A k \in 1..n : k \in 0..n /\ k # 0
    OBVIOUS
  <2> HIDE DEF n
  <2> QED BY <2>1
<1>6. Cuts(chosen, text)
  <2> HIDE DEF F
  <2> QED BY <1>4, <1>5 DEF Cuts, Step
<1>7. Lines(text) = chosen[n]
  BY DEF Lines, Running, chosen, Step
<1> HIDE DEF F
<1> QED BY <1>6, <1>7

\* f is what the count of a delimiter goes through.
Tallies(f, line, e) ==
  f[0] = [quoted |-> FALSE, count |-> 0] /\ \A k \in 1..Len(line) : f[k] = Count(f[k - 1], line[k], e)

\* The number counted on a line is what it ends with.
LEMMA CountWorks ==
  ASSUME NEW line, Len(line) \in Nat, NEW e
  PROVE  \E f : Tallies(f, line, e) /\ CountOutsideQuotes(line, e) = f[Len(line)].count
<1> DEFINE n == Len(line)
           Step(m, k) == Count(m, line[k], e)
           F(f, m) == [k \in 0..m |-> IF k = 0 THEN [quoted |-> FALSE, count |-> 0] ELSE Step(f[k - 1], k)]
           chosen == CHOOSE f : f = F(f, n)
           T == {m \in Nat : \E f : f = F(f, m)}
<1> HIDE DEF Step
<1>1. 0 \in T
  <2> DEFINE f == [k \in 0..0 |-> [quoted |-> FALSE, count |-> 0]]
  <2>1. f = F(f, 0)
    OBVIOUS
  <2> HIDE DEF F, f
  <2> QED BY <2>1
<1>2. ASSUME NEW m \in Nat, m \in T PROVE m + 1 \in T
  <2>1. PICK f : f = F(f, m)
    BY <1>2
  <2> DEFINE g == [k \in 0..(m + 1) |-> IF k = m + 1 THEN Step(f[m], m + 1) ELSE f[k]]
  <2>2. g[0] = [quoted |-> FALSE, count |-> 0]
    <3>1. F(f, m)[0] = [quoted |-> FALSE, count |-> 0]
      OBVIOUS
    <3>2. f[0] = [quoted |-> FALSE, count |-> 0]
      <4> HIDE DEF F
      <4> QED BY <2>1, <3>1
    <3> QED BY <3>2
  <2>3. ASSUME NEW k \in 1..(m + 1) PROVE g[k] = Step(g[k - 1], k)
    <3>1. CASE k = m + 1
      BY <3>1
    <3>2. CASE k \in 1..m
      <4>1. F(f, m)[k] = Step(f[k - 1], k)
        BY <3>2
      <4>2. f[k] = Step(f[k - 1], k)
        <5> HIDE DEF F
        <5> QED BY <2>1, <4>1
      <4>3. g[k] = f[k] /\ g[k - 1] = f[k - 1]
        BY <3>2
      <4> HIDE DEF g
      <4> QED BY <4>2, <4>3
    <3> QED BY <3>1, <3>2
  <2>4. g = [k \in 0..(m + 1) |-> g[k]] /\ \A k \in 0..(m + 1) : k = 0 \/ k \in 1..(m + 1)
    OBVIOUS
  <2> HIDE DEF g
  <2>5. g = F(g, m + 1)
    BY <2>2, <2>3, <2>4
  <2> HIDE DEF F
  <2> QED BY <2>5
<1>3. n \in T
  <2> HIDE DEF T
  <2> QED BY <1>1, <1>2, Induction
<1>4. chosen = F(chosen, n)
  <2> HIDE DEF F
  <2> QED BY <1>3
<1> HIDE DEF chosen
<1>5. F(chosen, n)[0] = [quoted |-> FALSE, count |-> 0] /\ \A k \in 1..n : F(chosen, n)[k] = Step(chosen[k - 1], k)
  <2>1. 0 \in 0..n /\ \A k \in 1..n : k \in 0..n /\ k # 0
    OBVIOUS
  <2> HIDE DEF n
  <2> QED BY <2>1
<1>6. Tallies(chosen, line, e)
  <2> HIDE DEF F
  <2> QED BY <1>4, <1>5 DEF Tallies, Step
<1>7. CountOutsideQuotes(line, e) = chosen[n].count
  BY DEF CountOutsideQuotes, Running, chosen, Step
<1> HIDE DEF F
<1> QED BY <1>6, <1>7

\* f is what a filter goes through.
Picks(f, q, places) ==
  f[0] = <<>> /\ \A k \in 1..Len(q) : f[k] = (IF k \in places THEN Append(f[k - 1], q[k]) ELSE f[k - 1])

\* What is kept of a list is what it ends with.
LEMMA OnlyWorks ==
  ASSUME NEW q, Len(q) \in Nat, NEW places
  PROVE  \E f : Picks(f, q, places) /\ Only(q, places) = f[Len(q)]
<1> DEFINE n == Len(q)
           Step(m, k) == IF k \in places THEN Append(m, q[k]) ELSE m
           F(f, m) == [k \in 0..m |-> IF k = 0 THEN <<>> ELSE Step(f[k - 1], k)]
           chosen == CHOOSE f : f = F(f, n)
           T == {m \in Nat : \E f : f = F(f, m)}
<1> HIDE DEF Step
<1>1. 0 \in T
  <2> DEFINE f == [k \in 0..0 |-> <<>>]
  <2>1. f = F(f, 0)
    OBVIOUS
  <2> HIDE DEF F, f
  <2> QED BY <2>1
<1>2. ASSUME NEW m \in Nat, m \in T PROVE m + 1 \in T
  <2>1. PICK f : f = F(f, m)
    BY <1>2
  <2> DEFINE g == [k \in 0..(m + 1) |-> IF k = m + 1 THEN Step(f[m], m + 1) ELSE f[k]]
  <2>2. g[0] = <<>>
    <3>1. F(f, m)[0] = <<>>
      OBVIOUS
    <3>2. f[0] = <<>>
      <4> HIDE DEF F
      <4> QED BY <2>1, <3>1
    <3> QED BY <3>2
  <2>3. ASSUME NEW k \in 1..(m + 1) PROVE g[k] = Step(g[k - 1], k)
    <3>1. CASE k = m + 1
      BY <3>1
    <3>2. CASE k \in 1..m
      <4>1. F(f, m)[k] = Step(f[k - 1], k)
        BY <3>2
      <4>2. f[k] = Step(f[k - 1], k)
        <5> HIDE DEF F
        <5> QED BY <2>1, <4>1
      <4>3. g[k] = f[k] /\ g[k - 1] = f[k - 1]
        BY <3>2
      <4> HIDE DEF g
      <4> QED BY <4>2, <4>3
    <3> QED BY <3>1, <3>2
  <2>4. g = [k \in 0..(m + 1) |-> g[k]] /\ \A k \in 0..(m + 1) : k = 0 \/ k \in 1..(m + 1)
    OBVIOUS
  <2> HIDE DEF g
  <2>5. g = F(g, m + 1)
    BY <2>2, <2>3, <2>4
  <2> HIDE DEF F
  <2> QED BY <2>5
<1>3. n \in T
  <2> HIDE DEF T
  <2> QED BY <1>1, <1>2, Induction
<1>4. chosen = F(chosen, n)
  <2> HIDE DEF F
  <2> QED BY <1>3
<1> HIDE DEF chosen
<1>5. F(chosen, n)[0] = <<>> /\ \A k \in 1..n : F(chosen, n)[k] = Step(chosen[k - 1], k)
  <2>1. 0 \in 0..n /\ \A k \in 1..n : k \in 0..n /\ k # 0
    OBVIOUS
  <2> HIDE DEF n
  <2> QED BY <2>1
<1>6. Picks(chosen, q, places)
  <2> HIDE DEF F
  <2> QED BY <1>4, <1>5 DEF Picks, Step
<1>7. Only(q, places) = chosen[n]
  BY DEF Only, Running, chosen, Step
<1> HIDE DEF F
<1> QED BY <1>6, <1>7

\* A character is added to the last line.
LEMMA AddChar ==
  ASSUME NEW T, NEW s \in Seq(Seq(T)), NEW x \in Seq(T), NEW y \in T, y # "NL"
  PROVE  AddTo(Append(s, x), y) = Append(s, Append(x, y))
<1> DEFINE L == Append(s, x)
           v == Append(x, y)
           R == Append(s, v)
<1>1. PICK n \in Nat : n = Len(s)
  BY ListFacts, Zenon
<1>2. L \in Seq(Seq(T)) /\ Len(L) = n + 1 /\ L[n + 1] = x /\ \A i \in 1..n : L[i] = s[i]
  BY <1>1, AppendTyped
<1>3. v \in Seq(T)
  BY AppendTyped
<1>4. R \in Seq(Seq(T)) /\ Len(R) = n + 1 /\ R[n + 1] = v /\ \A i \in 1..n : R[i] = s[i]
  <2> HIDE DEF v
  <2> QED BY <1>1, <1>3, AppendTyped
<1>5. AddTo(L, y) = [L EXCEPT ![Len(L)] = Append(@, y)]
  BY DEF AddTo
<1>6. L[Len(L)] = x
  BY <1>2
<1> HIDE DEF L
<1>7. [L EXCEPT ![Len(L)] = Append(@, y)] = [i \in DOMAIN L |-> IF i = Len(L) THEN v ELSE L[i]]
  BY <1>6
<1> HIDE DEF R, v
<1>8. DOMAIN L = 1..(n + 1) /\ DOMAIN R = 1..(n + 1) /\ R = [i \in DOMAIN R |-> R[i]]
  BY <1>2, <1>4
<1>9. \A i \in 1..(n + 1) : i = n + 1 \/ i \in 1..n
  BY <1>1
<1>10. \A i \in 1..(n + 1) : R[i] = IF i = Len(L) THEN v ELSE L[i]
  BY <1>1, <1>2, <1>4, <1>9
<1>11. AddTo(L, y) = R
  BY <1>5, <1>7, <1>8, <1>10
<1> QED BY <1>11 DEF L, R, v

\* The characters of one line.
OneLine == Char \ {"NL"}

\* The lines so far, and the one begun.
WithNext(s) == Append(s, <<>>)

\* A line is cut off at its end.
LEMMA LineCut ==
  ASSUME NEW f, NEW text \in Seq(Char), Cuts(f, text), NEW p \in Nat, NEW s \in ListsOf(Char),
         NEW c \in Seq(OneLine), Stands(Append(c, "NL"), text, p), f[p] = WithNext(s)
  PROVE  f[p + Len(c) + 1] = WithNext(Append(s, c))
<1>1. PICK n \in Nat : n = Len(c)
  BY ListFacts, Zenon
<1>2. c \in Seq(Char) /\ "NL" \in Char /\ \A j \in 1..n : c[j] \in Char /\ c[j] # "NL"
  <2>1. \A x \in OneLine : x \in Char
    BY DEF OneLine
  <2>2. c \in Seq(Char)
    BY <2>1, LargerLists, Zenon
  <2>3. "NL" \in Char
    BY DEF Char
  <2>4. \A j \in 1..n : c[j] \in OneLine
    BY <1>1, ListFacts
  <2> QED BY <2>2, <2>3, <2>4 DEF OneLine
<1> DEFINE w == Append(c, "NL")
           N == Len(text)
<1>3. Len(w) = n + 1 /\ w[n + 1] = "NL" /\ (\A j \in 1..n : w[j] = c[j]) /\ N \in Nat
  <2>1. N \in Nat
    BY ListFacts, Zenon
  <2> QED BY <1>1, <1>2, <2>1, AppendTyped
<1>4. p + Len(w) <= N /\ \A j \in 1..Len(w) : text[p + j] = w[j]
  BY DEF Stands
<1> HIDE DEF w
<1>5. ASSUME NEW j \in 1..(n + 1) PROVE f[p + j] = AddTo(f[p + (j - 1)], w[j])
  <2>1. p + j \in 1..N /\ (p + j) - 1 = p + (j - 1)
    BY <1>1, <1>3, <1>4
  <2>2. f[p + j] = AddTo(f[(p + j) - 1], text[p + j])
    BY <2>1, Zenon DEF Cuts
  <2>3. text[p + j] = w[j]
    BY <1>3, <1>4
  <2> QED BY <2>1, <2>2, <2>3
<1>6. s \in Seq(Seq(Char))
  BY DEF ListsOf
<1> DEFINE Read(j) == f[p + j] = Append(s, SubSeq(c, 1, j))
           T == {j \in Nat : j <= n => Read(j)}
<1> HIDE DEF Read
<1>7. 0 \in T
  <2>1. SubSeq(c, 1, 0) = <<>>
    BY <1>2, OneMore, Zenon
  <2>2. p + 0 = p
    OBVIOUS
  <2>3. Read(0)
    BY <2>1, <2>2 DEF Read, WithNext
  <2> QED BY <2>3
<1>8. ASSUME NEW j \in Nat, j \in T PROVE j + 1 \in T
  <2> SUFFICES ASSUME j + 1 <= n PROVE Read(j + 1)
    OBVIOUS
  <2>1. j + 1 \in 1..n /\ (j + 1) - 1 = j /\ j \in 0..n /\ j \in 0..(n - 1) /\ j + 1 \in 1..(n + 1)
    BY <1>1
  <2> DEFINE x == SubSeq(c, 1, j)
             y == c[j + 1]
  <2>2. f[p + j] = Append(s, x)
    <3>1. Read(j)
      BY <1>8, <2>1
    <3> QED BY <3>1 DEF Read
  <2>3. SubSeq(c, 1, j + 1) = Append(x, y) /\ x \in Seq(Char)
    BY <1>1, <1>2, <2>1, OneMore, Zenon
  <2>4. w[j + 1] = y /\ y \in Char /\ y # "NL"
    BY <1>2, <1>3, <2>1
  <2>5. f[p + (j + 1)] = AddTo(f[p + j], w[j + 1])
    BY <1>5, <2>1
  <2> HIDE DEF x, y
  <2>6. AddTo(Append(s, x), y) = Append(s, Append(x, y))
    BY <1>6, <2>3, <2>4, AddChar
  <2>7. f[p + (j + 1)] = Append(s, SubSeq(c, 1, j + 1))
    BY <2>2, <2>3, <2>4, <2>5, <2>6
  <2> QED BY <2>7 DEF Read
<1>9. f[p + n] = Append(s, c)
  <2>1. n \in T
    <3> HIDE DEF T
    <3> QED BY <1>7, <1>8, Induction
  <2>2. Read(n)
    BY <1>1, <2>1
  <2>3. SubSeq(c, 1, n) = c
    BY <1>1, OneMore, Zenon
  <2> QED BY <2>2, <2>3 DEF Read
<1>10. f[p + (n + 1)] = AddTo(f[p + n], "NL")
  <2>1. n + 1 \in 1..(n + 1) /\ (n + 1) - 1 = n
    BY <1>1
  <2> QED BY <1>3, <1>5, <2>1
<1>11. f[p + (n + 1)] = Append(Append(s, c), <<>>)
  BY <1>9, <1>10 DEF AddTo
<1>12. p + (n + 1) = p + Len(c) + 1
  BY <1>1
<1> QED BY <1>11, <1>12 DEF WithNext

\* A text is cut into its lines, and what follows the last of them, nothing.
LEMMA LinesCut ==
  ASSUME NEW w \in ListsOf(OneLine), NEW lists \in ListsOf(Char), Len(lists) = Len(w),
         \A k \in 1..Len(w) : lists[k] = Append(w[k], "NL")
  PROVE  Lines(FlattenSeq(lists)) = Append(w, <<>>)
<1>1. PICK n \in Nat : n = Len(w)
  BY ListFacts, Zenon DEF ListsOf
<1> DEFINE text == FlattenSeq(lists)
<1>2. PICK off : Laid(off, lists, text, Char)
  BY Segments
<1>3. /\ off \in [0..n -> Nat] /\ off[0] = 0 /\ text \in Seq(Char) /\ Len(text) = off[n] /\ Len(text) \in Nat
      /\ \A k \in 1..n : off[k] = off[k - 1] + Len(lists[k])
      /\ \A k \in 1..n : \A j \in 1..Len(lists[k]) : text[off[k - 1] + j] = lists[k][j]
  <2> HIDE DEF text
  <2>1. text \in Seq(Char)
    BY <1>2 DEF Laid
  <2>2. Len(text) \in Nat
    BY <2>1, ListFacts, Zenon
  <2> QED BY <1>1, <1>2, <2>1, <2>2 DEF Laid, Ends
<1> HIDE DEF text
<1>4. w \in Seq(Seq(OneLine)) /\ w \in Seq(Seq(Char))
  <2>1. w \in Seq(Seq(OneLine))
    BY DEF ListsOf
  <2>2. \A x \in OneLine : x \in Char
    BY DEF OneLine
  <2>3. \A x \in Seq(OneLine) : x \in Seq(Char)
    BY <2>2, LargerLists, Zenon
  <2> QED BY <2>1, <2>3, LargerLists, Zenon
<1>5. ASSUME NEW k \in 1..n
      PROVE  /\ w[k] \in Seq(OneLine) /\ lists[k] = Append(w[k], "NL") /\ Len(lists[k]) = Len(w[k]) + 1
             /\ Len(w[k]) \in Nat /\ off[k - 1] \in Nat /\ off[k] \in Nat /\ off[k] = off[k - 1] + Len(w[k]) + 1
  <2>1. w[k] \in Seq(OneLine) /\ lists[k] = Append(w[k], "NL")
    BY <1>1, <1>4, ListFacts
  <2>2. w[k] \in Seq(Char)
    BY <1>1, <1>4, ListFacts
  <2>3. "NL" \in Char
    BY DEF Char
  <2> DEFINE c == w[k]
  <2>4. c \in Seq(Char) /\ lists[k] = Append(c, "NL")
    BY <2>1, <2>2
  <2> HIDE DEF c
  <2>5. Len(lists[k]) = Len(c) + 1 /\ Len(c) \in Nat
    BY <2>3, <2>4, AppendTyped, ListFacts
  <2>6. k - 1 \in 0..n /\ k \in 0..n
    BY <1>1
  <2>7. off[k - 1] \in Nat /\ off[k] \in Nat /\ off[k] = off[k - 1] + Len(lists[k])
    BY <1>3, <2>6
  <2>8. off[k] = off[k - 1] + Len(c) + 1
    <3> DEFINE a == off[k - 1]
               b == Len(c)
               v == Len(lists[k])
    <3>1. a \in Nat /\ b \in Nat /\ v = b + 1 /\ off[k] = a + v
      BY <2>5, <2>7
    <3> HIDE DEF a, b, v
    <3>2. off[k] = a + b + 1
      BY <3>1
    <3> QED BY <3>2 DEF a, b
  <2> QED BY <2>1, <2>5, <2>7, <2>8 DEF c
<1>6. ASSUME NEW m \in Nat, NEW i \in 1..n, i + m <= n PROVE off[i] <= off[i + m]
  <2> DEFINE U == {k \in Nat : i + k <= n => off[i] <= off[i + k]}
  <2>1. 0 \in U
    BY <1>5
  <2>2. ASSUME NEW k \in Nat, k \in U PROVE k + 1 \in U
    <3> SUFFICES ASSUME i + (k + 1) <= n PROVE off[i] <= off[i + (k + 1)]
      OBVIOUS
    <3>1. i + (k + 1) \in 1..n /\ (i + (k + 1)) - 1 = i + k /\ i + k \in 1..n
      BY <1>1
    <3>2. off[i] <= off[i + k] /\ off[i] \in Nat
      BY <1>5, <2>2, <3>1
    <3>3. /\ off[i + (k + 1)] = off[i + k] + Len(w[i + (k + 1)]) + 1
          /\ off[i + k] \in Nat /\ Len(w[i + (k + 1)]) \in Nat
      BY <1>5, <3>1
    <3> QED BY <3>2, <3>3
  <2>3. m \in U
    <3> HIDE DEF U
    <3> QED BY <2>1, <2>2, Induction
  <2> QED BY <1>6, <2>3
<1>7. ASSUME NEW k \in 1..n PROVE Stands(Append(w[k], "NL"), text, off[k - 1])
  <2>1. n - k \in Nat /\ k + (n - k) = n /\ k + (n - k) <= n
    BY <1>1
  <2>2. off[k] <= off[n]
    BY <1>6, <2>1
  <2>3. off[k - 1] + Len(lists[k]) <= Len(text)
    <3>1. off[k] = off[k - 1] + Len(lists[k])
      BY <1>3
    <3> QED BY <1>3, <2>2, <3>1
  <2>4. Stands(lists[k], text, off[k - 1])
    BY <1>3, <2>3 DEF Stands
  <2> QED BY <1>5, <2>4
<1>8. PICK f : Cuts(f, text) /\ Lines(text) = f[Len(text)]
  BY <1>3, LinesWork
<1> DEFINE Read(k) == f[off[k]] = WithNext(SubSeq(w, 1, k))
           T == {k \in Nat : k <= n => Read(k)}
<1> HIDE DEF Read
<1>9. 0 \in T
  <2>1. SubSeq(w, 1, 0) = <<>>
    BY <1>4, OneMore, Zenon
  <2>2. f[0] = <<<<>>>>
    BY <1>8, Zenon DEF Cuts
  <2>3. <<<<>>>> = Append(<<>>, <<>>)
    OBVIOUS
  <2>4. Read(0)
    BY <1>3, <2>1, <2>2, <2>3 DEF Read, WithNext
  <2> QED BY <2>4
<1>10. ASSUME NEW k \in Nat, k \in T PROVE k + 1 \in T
  <2> SUFFICES ASSUME k + 1 <= n PROVE Read(k + 1)
    OBVIOUS
  <2>1. k + 1 \in 1..n /\ (k + 1) - 1 = k /\ k \in 0..n /\ k \in 0..(n - 1) /\ k <= n
    BY <1>1
  <2> DEFINE s == SubSeq(w, 1, k)
             c == w[k + 1]
             p == off[k]
  <2>2. f[p] = WithNext(s)
    <3>1. Read(k)
      BY <1>10, <2>1
    <3> QED BY <3>1 DEF Read
  <2>3. SubSeq(w, 1, k + 1) = Append(s, c) /\ s \in Seq(Seq(Char))
    BY <1>1, <1>4, <2>1, OneMore, Zenon
  <2>4. c \in Seq(OneLine) /\ p \in Nat /\ off[k + 1] = p + Len(c) + 1
    BY <1>5, <2>1
  <2>5. Stands(Append(c, "NL"), text, p)
    BY <1>7, <2>1
  <2> HIDE DEF s, c, p
  <2>6. s \in ListsOf(Char)
    BY <2>3 DEF ListsOf
  <2>7. f[p + Len(c) + 1] = WithNext(Append(s, c))
    BY <1>3, <1>8, <2>2, <2>4, <2>5, <2>6, LineCut
  <2> QED BY <2>3, <2>4, <2>7 DEF Read
<1>11. f[off[n]] = Append(w, <<>>)
  <2>1. n \in T
    <3> HIDE DEF T
    <3> QED BY <1>9, <1>10, Induction
  <2>2. Read(n)
    BY <1>1, <2>1
  <2>3. SubSeq(w, 1, n) = w
    BY <1>1, <1>4, OneMore, Zenon
  <2> QED BY <2>2, <2>3 DEF Read, WithNext
<1> QED BY <1>3, <1>8, <1>11 DEF text

(***************************************************************************)
(* How often a delimiter is found on a line.                               *)
(***************************************************************************)
Tally(k) == [quoted |-> FALSE, count |-> k]
Inside(k) == [quoted |-> TRUE, count |-> k]

\* Outside quotes another character changes nothing,
LEMMA CountPasses == \A c, e, k : c # Quote /\ c # e => Count(Tally(k), c, e) = Tally(k)
BY DEF Count, Tally
\* within them none does but a quote.
LEMMA CountKeeps == \A c, e, k : c # Quote => Count(Inside(k), c, e) = Inside(k)
BY DEF Count, Inside
\* A quote begins a quoted part,
LEMMA CountOpens == \A e, k : e # Quote => Count(Tally(k), Quote, e) = Inside(k)
BY DEF Count, Tally, Inside
\* and a quote ends it.
LEMMA CountCloses == \A e, k : Count(Inside(k), Quote, e) = Tally(k)
BY DEF Count, Tally, Inside
\* Outside quotes the delimiter counts.
LEMMA CountFinds == \A e, k : e # Quote => Count(Tally(k), e, e) = Tally(k + 1)
BY DEF Count, Tally

\* A step of the count.
LEMMA Tallied ==
  ASSUME NEW f, NEW line, Len(line) \in Nat, NEW e, Tallies(f, line, e), NEW k \in Nat, k + 1 <= Len(line)
  PROVE  f[k + 1] = Count(f[k], line[k + 1], e)
<1>1. k + 1 \in 1..Len(line) /\ (k + 1) - 1 = k
  OBVIOUS
<1> QED BY <1>1, Zenon DEF Tallies

\* Nothing is counted in a cell without quotes.
LEMMA PlainCounted ==
  ASSUME NEW f, NEW line, Len(line) \in Nat, NEW e, Tallies(f, line, e), NEW p \in Nat, NEW c \in Seq(Char),
         Plain(c, e), Stands(c, line, p), NEW k, f[p] = Tally(k)
  PROVE  f[p + Len(c)] = Tally(k)
<1>1. PICK n \in Nat : n = Len(c) /\ DOMAIN c = 1..n
  BY ListFacts, Zenon
<1>2. \A j \in 1..n : c[j] # Quote /\ c[j] # e
  BY <1>1 DEF Plain, Range
<1>3. p + n <= Len(line) /\ \A j \in 1..n : line[p + j] = c[j]
  BY <1>1 DEF Stands
<1> DEFINE Read(j) == f[p + j] = Tally(k)
           T == {j \in Nat : j <= n => Read(j)}
<1> HIDE DEF Read
<1>4. 0 \in T
  <2>1. p + 0 = p
    OBVIOUS
  <2>2. Read(0)
    BY <2>1 DEF Read
  <2> QED BY <2>2
<1>5. ASSUME NEW j \in Nat, j \in T PROVE j + 1 \in T
  <2> SUFFICES ASSUME j + 1 <= n PROVE Read(j + 1)
    OBVIOUS
  <2>1. j + 1 \in 1..n /\ j <= n /\ p + j \in Nat /\ (p + j) + 1 <= Len(line) /\ (p + j) + 1 = p + (j + 1)
    BY <1>1, <1>3
  <2>2. Read(j)
    BY <1>5, <2>1
  <2>3. f[(p + j) + 1] = Count(f[p + j], line[(p + j) + 1], e)
    BY <2>1, Tallied
  <2>4. line[p + (j + 1)] = c[j + 1] /\ c[j + 1] # Quote /\ c[j + 1] # e
    BY <1>2, <1>3, <2>1
  <2>5. f[p + (j + 1)] = Tally(k)
    BY <2>1, <2>2, <2>3, <2>4, CountPasses DEF Read
  <2> QED BY <2>5 DEF Read
<1>6. n \in T
  <2> HIDE DEF T
  <2> QED BY <1>4, <1>5, Induction
<1>7. Read(n)
  BY <1>1, <1>6
<1> QED BY <1>1, <1>7 DEF Read

\* Nothing is counted in a cell with quotes.
LEMMA QuotedCounted ==
  ASSUME NEW f, NEW line, Len(line) \in Nat, NEW e, e # Quote, Tallies(f, line, e), NEW p \in Nat, NEW c \in Seq(Char),
         Stands(InQuotes(c), line, p), NEW k, f[p] = Tally(k)
  PROVE  f[p + Len(InQuotes(c))] = Tally(k)
<1>0. PICK n \in Nat : n = Len(c)
  BY ListFacts, Zenon
<1>1. PICK off : Placed(off, c, n, InQuotes(c))
  <2>1. Quote \in Char
    BY DEF Char
  <2>2. \E off : Placed(off, c, Len(c), InQuotes(c))
    BY <2>1, QuotedParts
  <2> QED BY <1>0, <2>2
<1> DEFINE w == InQuotes(c)
           N == Len(line)
<1>2. /\ off \in [0..n -> Nat] /\ off[0] = 0 /\ off[n] \in Nat /\ Len(w) = off[n] + 2 /\ N \in Nat
      /\ \A i \in 1..n : off[i] = off[i - 1] + (IF c[i] = Quote THEN 2 ELSE 1)
      /\ w[1] = Quote /\ w[off[n] + 2] = Quote
      /\ \A i \in 1..n : w[off[i - 1] + 2] = c[i] /\ (c[i] = Quote => w[off[i - 1] + 3] = Quote)
  BY <1>1 DEF Placed
<1>14. p + Len(w) <= N /\ \A j \in 1..Len(w) : line[p + j] = w[j]
  BY DEF Stands
<1>15. off[n] \in Nat /\ Len(w) = off[n] + 2 /\ p + Len(w) <= N /\ N \in Nat
  BY <1>2, <1>14
<1> HIDE DEF w
<1>16. ASSUME NEW j \in 1..Len(w) PROVE p + (j - 1) \in Nat /\ f[p + j] = Count(f[p + (j - 1)], w[j], e)
  <2>1. p + (j - 1) \in Nat /\ (p + (j - 1)) + 1 = p + j /\ (p + (j - 1)) + 1 <= N
    BY <1>15
  <2>2. f[(p + (j - 1)) + 1] = Count(f[p + (j - 1)], line[(p + (j - 1)) + 1], e)
    BY <2>1, Tallied
  <2>3. line[p + j] = w[j]
    BY <1>14
  <2> QED BY <2>1, <2>2, <2>3
<1>3. ASSUME NEW i \in 0..n PROVE off[i] \in Nat /\ off[i] <= off[n]
  <2> DEFINE U == {m \in Nat : i + m <= n => off[i] <= off[i + m]}
  <2>0. off[i] \in Nat
    BY <1>2
  <2>1. 0 \in U
    BY <2>0
  <2>2. ASSUME NEW m \in Nat, m \in U PROVE m + 1 \in U
    <3> SUFFICES ASSUME i + (m + 1) <= n PROVE off[i] <= off[i + (m + 1)]
      OBVIOUS
    <3>1. i + (m + 1) \in 1..n /\ (i + (m + 1)) - 1 = i + m /\ i + m \in 0..n
      BY <1>0
    <3>2. off[i] <= off[i + m]
      BY <2>2, <3>1
    <3>3. off[i + (m + 1)] = off[i + m] + (IF c[i + (m + 1)] = Quote THEN 2 ELSE 1) /\ off[i + m] \in Nat
      BY <1>2, <3>1
    <3> QED BY <2>0, <3>2, <3>3
  <2>3. n - i \in U
    <3>1. n - i \in Nat
      BY <1>0
    <3> HIDE DEF U
    <3> QED BY <2>1, <2>2, <3>1, Induction
  <2>4. i + (n - i) = n /\ n <= n
    BY <1>0
  <2> QED BY <2>0, <2>3, <2>4
<1> DEFINE Read(m) == f[p + (off[m] + 1)] = Inside(k)
           T == {m \in Nat : m <= n => Read(m)}
<1> HIDE DEF Read
<1>4. 0 \in T
  <2>1. 1 \in 1..Len(w) /\ p + (1 - 1) = p /\ off[0] + 1 = 1
    BY <1>2
  <2>2. f[p + 1] = Count(f[p], Quote, e)
    BY <1>2, <1>16, <2>1
  <2>3. f[p + 1] = Inside(k)
    BY <2>2, CountOpens
  <2>4. Read(0)
    BY <2>1, <2>3 DEF Read
  <2> QED BY <2>4
<1>5. ASSUME NEW m \in Nat, m \in T PROVE m + 1 \in T
  <2> SUFFICES ASSUME m + 1 <= n PROVE Read(m + 1)
    OBVIOUS
  <2>1. m \in 0..n /\ m + 1 \in 1..n /\ m + 1 \in 0..n /\ (m + 1) - 1 = m /\ m <= n
    BY <1>0
  <2> DEFINE a == off[m]
             b == off[m + 1]
             x == c[m + 1]
  <2>2. f[p + (a + 1)] = Inside(k)
    <3>1. Read(m)
      BY <1>5, <2>1
    <3> QED BY <3>1 DEF Read
  <2>3. /\ a \in Nat /\ b \in Nat /\ b <= off[n] /\ (x = Quote => b = a + 2) /\ (x # Quote => b = a + 1)
        /\ w[a + 2] = x /\ (x = Quote => w[a + 3] = Quote)
    <3>1. a \in Nat /\ b \in Nat /\ b <= off[n]
      BY <1>3, <2>1
    <3>2. b = a + (IF x = Quote THEN 2 ELSE 1)
      BY <1>2, <2>1
    <3>3. w[a + 2] = x /\ (x = Quote => w[a + 3] = Quote)
      BY <1>2, <2>1
    <3> HIDE DEF a, b, x
    <3> QED BY <3>1, <3>2, <3>3
  <2> HIDE DEF a, b, x
  <2>4. a + 2 \in 1..Len(w) /\ (a + 2) - 1 = a + 1 /\ (a + 3) - 1 = a + 2 /\ (x = Quote => a + 3 \in 1..Len(w))
    <3> DEFINE z == off[n]
               v == Len(w)
    <3>1. z \in Nat /\ v = z + 2 /\ b <= z
      BY <1>15, <2>3
    <3> HIDE DEF z, v
    <3>2. a + 2 \in 1..v /\ (a + 2) - 1 = a + 1 /\ (a + 3) - 1 = a + 2 /\ (x = Quote => a + 3 \in 1..v)
      BY <2>3, <3>1
    <3> QED BY <3>2 DEF v
  <2>5. f[p + (a + 2)] = Count(Inside(k), x, e)
    BY <1>16, <2>2, <2>3, <2>4
  <2>6. CASE x # Quote
    <3>1. b + 1 = a + 2
      BY <2>3, <2>6
    <3>2. f[p + (b + 1)] = Inside(k)
      BY <2>5, <2>6, <3>1, CountKeeps
    <3> QED BY <3>2 DEF Read, b
  <2>7. CASE x = Quote
    <3>1. b + 1 = a + 3
      BY <2>3, <2>7
    <3>2. f[p + (a + 2)] = Tally(k)
      BY <2>5, <2>7, CountCloses
    <3>3. f[p + (a + 3)] = Count(Tally(k), Quote, e)
      BY <1>16, <2>3, <2>4, <2>7, <3>2
    <3>4. f[p + (b + 1)] = Inside(k)
      BY <3>1, <3>3, CountOpens
    <3> QED BY <3>4 DEF Read, b
  <2> QED BY <2>6, <2>7
<1>6. n \in T
  <2> HIDE DEF T
  <2> QED BY <1>4, <1>5, Induction
<1>7. f[p + (off[n] + 1)] = Inside(k)
  BY <1>0, <1>6 DEF Read
<1> DEFINE z == off[n] + 2
<1>8. z \in 1..Len(w) /\ z - 1 = off[n] + 1 /\ z = Len(w) /\ w[z] = Quote
  BY <1>2
<1> HIDE DEF z
<1>9. f[p + z] = Count(Inside(k), Quote, e)
  BY <1>7, <1>8, <1>16
<1> QED BY <1>8, <1>9, CountCloses DEF w

\* Nothing is counted in a cell.
LEMMA CellCounted ==
  ASSUME NEW f, NEW line, Len(line) \in Nat, NEW e, e # Quote, Tallies(f, line, e), NEW p \in Nat, NEW c \in Seq(Char),
         NEW d, Plain(c, d) => Plain(c, e), Stands(Cell(c, d), line, p), NEW k, f[p] = Tally(k)
  PROVE  f[p + Len(Cell(c, d))] = Tally(k)
<1>1. CASE Plain(c, d)
  <2>1. Cell(c, d) = c
    BY <1>1 DEF Cell
  <2>2. Stands(c, line, p) /\ Plain(c, e)
    BY <1>1, <2>1
  <2>3. f[p + Len(c)] = Tally(k)
    BY <2>2, PlainCounted
  <2> QED BY <2>1, <2>3
<1>2. CASE ~Plain(c, d)
  <2>1. Cell(c, d) = InQuotes(c)
    BY <1>2 DEF Cell, InQuotes
  <2>2. Stands(InQuotes(c), line, p)
    BY <2>1
  <2>3. f[p + Len(InQuotes(c))] = Tally(k)
    BY <2>2, QuotedCounted
  <2> QED BY <2>1, <2>3
<1> QED BY <1>1, <1>2

\* Of a row, the delimiters between its cells are counted, if it is written with them.
Seen(k, d, e) == IF e = d THEN k ELSE 0

\* The row's delimiter is counted between its cells, and no other one, if the cells written without
\* quotes hold none.
LEMMA RowCounted ==
  ASSUME NEW f, NEW line \in Seq(Char), NEW d \in Range(Delimiters), NEW e \in Range(Delimiters),
         Tallies(f, line, e), NEW row \in ListsOf(Char), Len(row) >= 1,
         \A i \in 1..Len(row) : Plain(row[i], d) => Plain(row[i], e),
         NEW body \in Seq(Char), NEW at, Rowed(at, row, d, body), Stands(body, line, 0)
  PROVE  f[Len(body)] = Tally(Seen(Len(row) - 1, d, e))
<1> DEFINE n == Len(row)
           N == Len(line)
           z == Len(body)
           w(i) == Cell(row[i], d)
<1>1. /\ n \in Nat /\ n >= 1 /\ N \in Nat /\ z \in Nat /\ \A i \in 1..n : row[i] \in Seq(Char)
      /\ d # Quote /\ e # Quote /\ Quote \in Char
  <2>1. row \in Seq(Seq(Char))
    BY DEF ListsOf
  <2>2. n \in Nat /\ N \in Nat /\ z \in Nat /\ \A i \in 1..n : row[i] \in Seq(Char)
    BY <2>1, ListFacts, Zenon
  <2>3. d # Quote /\ e # Quote
    BY DelimiterIs
  <2>4. Quote \in Char
    BY DEF Char
  <2> QED BY <2>2, <2>3, <2>4
<1>2. /\ at \in [1..n -> Nat] /\ at[1] = 0 /\ z = at[n] + Len(w(n))
      /\ \A i \in 1..n : Stands(w(i), body, at[i])
      /\ \A i \in 1..(n - 1) : at[i + 1] = at[i] + Len(w(i)) + 1 /\ at[i + 1] <= z /\ body[at[i + 1]] = d
  BY DEF Rowed
<1>3. z <= N /\ \A j \in 1..z : line[j] = body[j]
  <2>1. 0 + z <= N /\ \A j \in 1..z : line[0 + j] = body[j]
    BY DEF Stands
  <2>2. 0 + z = z /\ \A j \in 1..z : 0 + j = j
    BY <1>1
  <2> QED BY <2>1, <2>2
<1> HIDE DEF n, N, z
<1>4. ASSUME NEW i \in 1..n PROVE Len(w(i)) \in Nat /\ at[i] \in Nat /\ Stands(w(i), line, at[i])
  <2>1. Len(w(i)) \in Nat /\ at[i] \in Nat /\ Stands(w(i), body, at[i])
    BY <1>1, <1>2, CellTyped
  <2>2. Len(body) \in Nat /\ Len(line) \in Nat
    BY <1>1 DEF z, N
  <2> DEFINE a == at[i]
             v == w(i)
  <2>3. Len(v) \in Nat /\ a \in Nat /\ Stands(v, body, a)
    BY <2>1
  <2> HIDE DEF a, v
  <2>4. Stands(v, line, 0 + a)
    BY <2>2, <2>3, StandsWithin
  <2>5. 0 + a = a
    BY <2>3
  <2>6. Stands(v, line, a)
    BY <2>4, <2>5
  <2> QED BY <2>1, <2>6 DEF a, v
<1>5. ASSUME NEW i \in 1..n, NEW k, f[at[i]] = Tally(k) PROVE f[at[i] + Len(w(i))] = Tally(k)
  <2> DEFINE a == at[i]
             c == row[i]
  <2>1. a \in Nat /\ c \in Seq(Char) /\ (Plain(c, d) => Plain(c, e)) /\ Stands(Cell(c, d), line, a) /\ f[a] = Tally(k)
    BY <1>1, <1>4, <1>5 DEF n
  <2>2. Len(line) \in Nat /\ e # Quote
    BY <1>1 DEF N
  <2> HIDE DEF a, c
  <2>3. f[a + Len(Cell(c, d))] = Tally(k)
    BY <2>1, <2>2, CellCounted
  <2> QED BY <2>3 DEF a, c
<1> DEFINE Read(m) == f[at[m + 1]] = Tally(Seen(m, d, e))
           T == {m \in Nat : m + 1 <= n => Read(m)}
<1> HIDE DEF Read
<1>6. 0 \in T
  <2>1. f[0] = Tally(0)
    BY Zenon DEF Tallies, Tally
  <2>2. at[0 + 1] = 0
    BY <1>2
  <2>3. Read(0)
    BY <2>1, <2>2 DEF Read, Seen
  <2> QED BY <2>3
<1>7. ASSUME NEW m \in Nat, m \in T PROVE m + 1 \in T
  <2> SUFFICES ASSUME (m + 1) + 1 <= n PROVE Read(m + 1)
    OBVIOUS
  <2> DEFINE i == m + 1
             q == at[i] + Len(w(i))
  <2>1. i \in 1..n /\ i \in 1..(n - 1) /\ i + 1 \in 1..n /\ i <= n
    BY <1>1
  <2>2. f[at[i]] = Tally(Seen(m, d, e))
    <3>1. Read(m)
      BY <1>7, <2>1
    <3> QED BY <3>1 DEF Read
  <2>3. f[q] = Tally(Seen(m, d, e))
    BY <1>5, <2>1, <2>2
  <2>4. at[i + 1] = q + 1 /\ q \in Nat /\ q + 1 <= z /\ body[q + 1] = d
    <3>1. at[i + 1] = at[i] + Len(w(i)) + 1 /\ at[i + 1] <= z /\ body[at[i + 1]] = d
      BY <1>2, <2>1
    <3>2. at[i] \in Nat /\ Len(w(i)) \in Nat
      BY <1>4, <2>1
    <3> QED BY <3>1, <3>2
  <2> HIDE DEF q
  <2>5. line[q + 1] = d /\ q + 1 <= Len(line) /\ Len(line) \in Nat
    <3>1. q + 1 \in 1..z
      BY <1>1, <2>4
    <3> QED BY <1>1, <1>3, <2>4, <3>1 DEF N
  <2>6. f[q + 1] = Count(f[q], d, e)
    <3>1. f[q + 1] = Count(f[q], line[q + 1], e)
      BY <2>4, <2>5, Tallied
    <3> QED BY <2>5, <3>1
  <2>7. Count(Tally(Seen(m, d, e)), d, e) = Tally(Seen(m + 1, d, e))
    <3>1. CASE e = d
      <4>1. Seen(m, d, e) = m /\ Seen(m + 1, d, e) = m + 1
        BY <3>1 DEF Seen
      <4> QED BY <1>1, <3>1, <4>1, CountFinds
    <3>2. CASE e # d
      <4>1. Seen(m, d, e) = 0 /\ Seen(m + 1, d, e) = 0
        BY <3>2 DEF Seen
      <4> QED BY <1>1, <3>2, <4>1, CountPasses
    <3> QED BY <3>1, <3>2
  <2> QED BY <2>3, <2>4, <2>6, <2>7 DEF Read
<1>8. f[at[n]] = Tally(Seen(n - 1, d, e))
  <2>1. n - 1 \in Nat /\ (n - 1) + 1 = n /\ n <= n
    BY <1>1
  <2>2. n - 1 \in T
    <3> HIDE DEF T
    <3> QED BY <1>6, <1>7, <2>1, Induction
  <2>3. Read(n - 1)
    BY <2>1, <2>2
  <2> QED BY <2>1, <2>3 DEF Read
<1>9. f[z] = Tally(Seen(n - 1, d, e))
  <2>1. n \in 1..n
    BY <1>1
  <2> QED BY <1>2, <1>5, <1>8, <2>1
<1> QED BY <1>9 DEF z, n

\* So many are counted on the line of a row, with the carriage return it may end with or without it.
LEMMA LineCounted ==
  ASSUME NEW d \in Range(Delimiters), NEW e \in Range(Delimiters), NEW row \in ListsOf(Char), Len(row) >= 1,
         \A i \in 1..Len(row) : Plain(row[i], d) => Plain(row[i], e),
         NEW line, line \in {FlattenSeq(Cells(row, d)), Append(FlattenSeq(Cells(row, d)), "CR")}
  PROVE  CountOutsideQuotes(line, e) = Seen(Len(row) - 1, d, e)
<1> DEFINE body == FlattenSeq(Cells(row, d))
           k == Seen(Len(row) - 1, d, e)
<1>1. d \in Char /\ Quote \in Char /\ "CR" \in Char /\ e # Quote /\ e # "CR"
  BY DelimiterIs DEF Char
<1>2. body \in Seq(Char) /\ \E at : Rowed(at, row, d, body)
  <2>1. row \in Seq(Seq(Char))
    BY DEF ListsOf
  <2> QED BY <1>1, <2>1, RowParts
<1>3. PICK at : Rowed(at, row, d, body)
  BY <1>2
<1>4. line = body \/ line = Append(body, "CR")
  OBVIOUS
<1> HIDE DEF body, k
<1>5. /\ line \in Seq(Char) /\ Stands(body, line, 0) /\ Len(body) \in Nat /\ Len(line) \in Nat
      /\ Len(line) = Len(body) \/ (Len(line) = Len(body) + 1 /\ line[Len(body) + 1] = "CR")
  <2>1. Len(body) \in Nat
    BY <1>2, ListFacts, Zenon
  <2>2. \A j \in 1..Len(body) : 0 + j = j
    BY <2>1
  <2>3. CASE line = body
    BY <1>2, <2>1, <2>2, <2>3 DEF Stands
  <2>4. CASE line = Append(body, "CR")
    <3>1. /\ line \in Seq(Char) /\ Len(line) = Len(body) + 1 /\ line[Len(body) + 1] = "CR"
          /\ \A j \in 1..Len(body) : line[j] = body[j]
      BY <1>1, <1>2, <2>4, AppendTyped
    <3>2. 0 + Len(body) <= Len(line) /\ Len(line) \in Nat
      BY <2>1, <3>1
    <3>3. \A j \in 1..Len(body) : line[0 + j] = body[j]
      BY <2>2, <3>1
    <3> QED BY <2>1, <3>1, <3>2, <3>3 DEF Stands
  <2> QED BY <1>4, <2>3, <2>4
<1>6. PICK f : Tallies(f, line, e) /\ CountOutsideQuotes(line, e) = f[Len(line)].count
  BY <1>5, CountWorks
<1>7. f[Len(body)] = Tally(k)
  BY <1>2, <1>3, <1>5, <1>6, RowCounted DEF k
<1>8. f[Len(line)] = Tally(k)
  <2>1. CASE Len(line) = Len(body)
    BY <1>7, <2>1
  <2>2. CASE Len(line) = Len(body) + 1 /\ line[Len(body) + 1] = "CR"
    <3>1. Len(body) + 1 <= Len(line)
      BY <1>5, <2>2
    <3>2. f[Len(body) + 1] = Count(f[Len(body)], line[Len(body) + 1], e)
      BY <1>5, <1>6, <3>1, Tallied
    <3>3. Count(Tally(k), "CR", e) = Tally(k)
      <4>1. "CR" # Quote
        BY DEF Quote
      <4> QED BY <1>1, <4>1, CountPasses
    <3> QED BY <1>7, <2>2, <3>2, <3>3
  <2> QED BY <1>5, <2>1, <2>2
<1>9. CountOutsideQuotes(line, e) = k
  BY <1>6, <1>8 DEF Tally
<1> QED BY <1>9 DEF k

\* The number of times is a number.
LEMMA CountTyped ==
  ASSUME NEW line, Len(line) \in Nat, NEW e
  PROVE  CountOutsideQuotes(line, e) \in Nat
<1> DEFINE V == [quoted : BOOLEAN, count : Nat]
<1>1. PICK f : Tallies(f, line, e) /\ CountOutsideQuotes(line, e) = f[Len(line)].count
  BY CountWorks
<1>2. ASSUME NEW a \in V, NEW c PROVE Count(a, c, e) \in V
  <2>1. a.quoted \in BOOLEAN /\ a.count \in Nat /\ a.count + 1 \in Nat
    BY <1>2
  <2>2. [a EXCEPT !.quoted = ~@] \in V
    BY <1>2
  <2>3. [a EXCEPT !.count = @ + 1] \in V
    BY <1>2, <2>1
  <2>4. Count(a, c, e) \in {[a EXCEPT !.quoted = ~@], [a EXCEPT !.count = @ + 1], a}
    BY DEF Count
  <2> HIDE DEF V
  <2> QED BY <1>2, <2>2, <2>3, <2>4
<1> DEFINE T == {k \in Nat : k <= Len(line) => f[k] \in V}
<1>3. 0 \in T
  <2>1. f[0] = [quoted |-> FALSE, count |-> 0]
    BY <1>1, Zenon DEF Tallies
  <2>2. [quoted |-> FALSE, count |-> 0] \in V
    OBVIOUS
  <2> QED BY <2>1, <2>2
<1> HIDE DEF V
<1>4. ASSUME NEW k \in Nat, k \in T PROVE k + 1 \in T
  <2> SUFFICES ASSUME k + 1 <= Len(line) PROVE f[k + 1] \in V
    OBVIOUS
  <2>1. f[k] \in V
    BY <1>4
  <2>2. f[k + 1] = Count(f[k], line[k + 1], e)
    BY <1>1, Tallied
  <2> QED BY <1>2, <2>1, <2>2
<1>5. Len(line) \in T
  <2> HIDE DEF T
  <2> QED BY <1>3, <1>4, Induction
<1>6. f[Len(line)] \in V
  BY <1>5
<1> QED BY <1>1, <1>6 DEF V

(***************************************************************************)
(* The score of a delimiter.                                               *)
(***************************************************************************)
\* The greatest of some numbers.
LEMMA GreatestOf ==
  ASSUME NEW n \in Nat, NEW S \in SUBSET (0..n), S # {}
  PROVE  Max(S) \in S /\ \A y \in S : y <= Max(S)
<1> DEFINE D == {n - x : x \in S}
           m == Min(D)
<1>1. D \in SUBSET Nat /\ D # {}
  <2>1. \A x \in S : x \in 0..n
    OBVIOUS
  <2>2. \A x \in 0..n : n - x \in Nat
    OBVIOUS
  <2>3. \A x \in S : n - x \in Nat
    BY <2>1, <2>2, Zenon
  <2>4. PICK x : x \in S
    OBVIOUS
  <2>5. n - x \in D
    BY <2>4
  <2> QED BY <2>3, <2>5, Zenon
<1>2. m \in D /\ \A y \in D : m <= y
  <2> HIDE DEF D
  <2> QED BY <1>1, LeastOf
<1> HIDE DEF m
<1>3. PICK x \in S : m = n - x
  BY <1>2
<1>4. ASSUME NEW y \in S PROVE x >= y /\ y <= x
  <2>1. n - y \in D
    OBVIOUS
  <2>2. m <= n - y
    BY <1>2, <2>1
  <2> QED BY <1>3, <2>2
<1>5. Max(S) \in S /\ \A y \in S : Max(S) >= y
  BY <1>4 DEF Max
<1> QED BY <1>5

\* The greater of -1 and a number.
LEMMA GreaterOf == ASSUME NEW x \in Int PROVE Max({-1, x}) = IF x >= -1 THEN x ELSE -1
<1> DEFINE S == {-1, x}
           m == IF x >= -1 THEN x ELSE -1
<1>1. m \in S /\ \A y \in S : m >= y
  OBVIOUS
<1>2. \A z \in S : (\A y \in S : z >= y) => z = m
  OBVIOUS
<1> HIDE DEF S, m
<1>3. Max(S) = m
  BY <1>1, <1>2 DEF Max
<1> QED BY <1>3 DEF S, m

\* Finitely many numbers have a bound.
LEMMA Bounded ==
  ASSUME NEW n \in Nat, NEW c, \A i \in 1..n : c[i] \in Nat
  PROVE  \E K \in Nat : \A i \in 1..n : c[i] <= K
<1> DEFINE T == {m \in Nat : m <= n => \E K \in Nat : \A i \in 1..m : c[i] <= K}
<1>1. 0 \in T
  OBVIOUS
<1>2. ASSUME NEW m \in Nat, m \in T PROVE m + 1 \in T
  <2> SUFFICES ASSUME m + 1 <= n PROVE \E K \in Nat : \A i \in 1..(m + 1) : c[i] <= K
    OBVIOUS
  <2>1. PICK K \in Nat : \A i \in 1..m : c[i] <= K
    BY <1>2
  <2>2. c[m + 1] \in Nat /\ \A i \in 1..(m + 1) : i = m + 1 \/ (i \in 1..m /\ c[i] \in Nat)
    OBVIOUS
  <2>3. K + c[m + 1] \in Nat /\ c[m + 1] <= K + c[m + 1] /\ \A x \in Nat : x <= K => x <= K + c[m + 1]
    BY <2>2
  <2>4. \A i \in 1..(m + 1) : c[i] <= K + c[m + 1]
    BY <2>1, <2>2, <2>3
  <2> QED BY <2>3, <2>4
<1>3. n \in T
  <2> HIDE DEF T
  <2> QED BY <1>1, <1>2, Induction
<1> QED BY <1>3

\* The lines that are looked at: those of the first that have something.
FirstLines(lines) == {i \in 1..Min({8, Len(lines)}) : NoCarriage(lines[i]) # <<>>}

\* They are finitely many, and the first line is one of them if it has something.
LEMMA FirstFinite ==
  ASSUME NEW lines, Len(lines) \in Nat
  PROVE  /\ FirstLines(lines) \subseteq 1..Len(lines) /\ IsFiniteSet(FirstLines(lines)) /\ Cardinality(FirstLines(lines)) \in Nat
         /\ \A i \in 1..Len(lines) : i = 1 /\ NoCarriage(lines[i]) # <<>> => i \in FirstLines(lines)
<1> DEFINE m == Min({8, Len(lines)})
<1>1. m \in {8, Len(lines)} /\ m <= Len(lines)
  <2> DEFINE S == {8, Len(lines)}
  <2>1. S \in SUBSET Nat /\ S # {} /\ Len(lines) \in S
    OBVIOUS
  <2> HIDE DEF S
  <2>2. Min(S) \in S /\ Min(S) <= Len(lines)
    BY <2>1, LeastOf
  <2> QED BY <2>2 DEF S
<1> HIDE DEF m
<1>2. 1..m \subseteq 1..Len(lines) /\ m \in Nat /\ m \in Int /\ 1 \in Int
  BY <1>1
<1>3. FirstLines(lines) = {i \in 1..m : NoCarriage(lines[i]) # <<>>}
  BY DEF FirstLines, m
<1>4. FirstLines(lines) \subseteq 1..m
  BY <1>3
<1>5. IsFiniteSet(1..m)
  BY <1>2, FS_Interval
<1>6. IsFiniteSet(FirstLines(lines))
  BY <1>4, <1>5, FS_Subset
<1>7. Cardinality(FirstLines(lines)) \in Nat
  BY <1>6, FS_CardinalityType
<1>8. \A i \in 1..Len(lines) : i = 1 => i \in 1..m
  BY <1>1
<1> QED BY <1>2, <1>3, <1>4, <1>6, <1>7, <1>8

\* A delimiter that is not on the first line scores less than ten for each of the lines.
LEMMA ScoreBelow ==
  ASSUME NEW lines, Len(lines) \in Nat, \A i \in 1..Len(lines) : Len(lines[i]) \in Nat,
         NEW e, 1 \in FirstLines(lines), CountOutsideQuotes(lines[1], e) = 0
  PROVE  DelimiterScore(lines, e) \in Int /\ DelimiterScore(lines, e) < 10 * Cardinality(FirstLines(lines))
<1> DEFINE n == Len(lines)
           F == FirstLines(lines)
           count(i) == CountOutsideQuotes(lines[i], e)
           found == {i \in F : count(i) > 0}
           counts == {count(i) : i \in found}
           score == 10 * Cardinality(found) - (Max(counts) - Min(counts))
<1>1. n \in Nat /\ F \subseteq 1..n /\ IsFiniteSet(F) /\ Cardinality(F) \in Nat /\ 1 \in F
  BY FirstFinite
<1>2. DelimiterScore(lines, e) = IF found = {} THEN -1 ELSE Max({-1, score})
  BY DEF DelimiterScore, FirstLines
<1>3. \A i \in F : count(i) \in Nat
  BY <1>1, CountTyped
<1>4. count(1) = 0
  OBVIOUS
<1> HIDE DEF F, n, count
<1>5. found \subseteq F \ {1}
  BY <1>4
<1>6. IsFiniteSet(found) /\ Cardinality(found) \in Nat /\ Cardinality(found) <= Cardinality(F) - 1
  <2> HIDE DEF found
  <2>1. IsFiniteSet(F \ {1}) /\ Cardinality(F \ {1}) = Cardinality(F) - 1
    BY <1>1, FS_RemoveElement
  <2>2. IsFiniteSet(found) /\ Cardinality(found) <= Cardinality(F \ {1})
    BY <1>5, <2>1, FS_Subset
  <2> QED BY <2>1, <2>2, FS_CardinalityType
<1>7. CASE found = {}
  <2>1. DelimiterScore(lines, e) = -1
    BY <1>2, <1>7
  <2>2. -1 \in Int /\ -1 < 10 * Cardinality(F)
    BY <1>1
  <2> QED BY <2>1, <2>2 DEF F
<1>8. CASE found # {}
  <2>1. PICK K \in Nat : \A i \in F : count(i) <= K
    <3> DEFINE c == [i \in 1..n |-> IF i \in F THEN count(i) ELSE 0]
    <3>1. \A i \in 1..n : c[i] \in Nat
      BY <1>3
    <3>2. \A i \in F : c[i] = count(i)
      BY <1>1
    <3> HIDE DEF c
    <3>3. \E K \in Nat : \A i \in 1..n : c[i] <= K
      BY <1>1, <3>1, Bounded
    <3> QED BY <1>1, <3>2, <3>3
  <2>2. counts \in SUBSET (0..K) /\ counts \in SUBSET Nat /\ counts # {}
    BY <1>3, <1>8, <2>1
  <2> HIDE DEF counts, found
  <2>3. Max(counts) \in counts /\ Min(counts) \in counts /\ Min(counts) <= Max(counts)
    <3>1. Max(counts) \in counts
      BY <2>2, GreatestOf
    <3>2. Min(counts) \in counts /\ \A y \in counts : Min(counts) <= y
      BY <2>2, LeastOf
    <3> QED BY <3>1, <3>2
  <2>4. Max(counts) \in Nat /\ Min(counts) \in Nat
    BY <2>2, <2>3
  <2>5. score \in Int /\ score <= 10 * (Cardinality(F) - 1)
    BY <1>1, <1>6, <2>3, <2>4
  <2> HIDE DEF score
  <2>6. DelimiterScore(lines, e) = IF score >= -1 THEN score ELSE -1
    BY <1>2, <1>8, <2>5, GreaterOf
  <2>7. DelimiterScore(lines, e) = score \/ DelimiterScore(lines, e) = -1
    BY <2>6
  <2>8. score < 10 * Cardinality(F) /\ -1 < 10 * Cardinality(F) /\ -1 \in Int
    BY <1>1, <2>5
  <2>9. ASSUME NEW x, x = score \/ x = -1 PROVE x \in Int /\ x < 10 * Cardinality(F)
    BY <2>5, <2>8, <2>9
  <2>10. DelimiterScore(lines, e) \in Int /\ DelimiterScore(lines, e) < 10 * Cardinality(F)
    BY <2>7, <2>9
  <2> QED BY <2>10 DEF F
<1> QED BY <1>7, <1>8 DEF F

\* One that is on each of them equally often scores ten for each.
LEMMA ScoreIs ==
  ASSUME NEW lines, Len(lines) \in Nat, NEW d, NEW k \in Nat, k > 0, 1 \in FirstLines(lines),
         \A i \in FirstLines(lines) : CountOutsideQuotes(lines[i], d) = k
  PROVE  DelimiterScore(lines, d) = 10 * Cardinality(FirstLines(lines))
<1> DEFINE F == FirstLines(lines)
           found == {i \in F : CountOutsideQuotes(lines[i], d) > 0}
           counts == {CountOutsideQuotes(lines[i], d) : i \in found}
           score == 10 * Cardinality(found) - (Max(counts) - Min(counts))
<1>1. Cardinality(F) \in Nat /\ 1 \in F
  BY FirstFinite
<1>2. DelimiterScore(lines, d) = IF found = {} THEN -1 ELSE Max({-1, score})
  BY DEF DelimiterScore, FirstLines
<1>3. found = F /\ \A i \in F : CountOutsideQuotes(lines[i], d) = k
  OBVIOUS
<1> HIDE DEF F
<1>4. counts = {k}
  BY <1>1, <1>3
<1>5. Max({k}) = k /\ Min({k}) = k
  BY DEF Max, Min
<1>6. score = 10 * Cardinality(F)
  <2>1. Max(counts) = k /\ Min(counts) = k
    BY <1>4, <1>5
  <2> HIDE DEF counts, found
  <2> QED BY <1>1, <1>3, <2>1
<1> HIDE DEF score, found, counts
<1>7. found # {} /\ score \in Int /\ score >= -1
  BY <1>1, <1>3, <1>6
<1>8. DelimiterScore(lines, d) = score
  BY <1>2, <1>7, GreaterOf
<1> QED BY <1>6, <1>8 DEF F

\* The delimiter that scores more than the others is the one that is found.
LEMMA GuessIs ==
  ASSUME NEW text, NEW d \in Range(Delimiters),
         \A e \in Range(Delimiters) : DelimiterScore(Lines(text), e) \in Int,
         \A e \in Range(Delimiters) : e # d => DelimiterScore(Lines(text), e) < DelimiterScore(Lines(text), d)
  PROVE  DetectDelimiter(text) = d
<1> DEFINE D == Delimiters
           score == [i \in DOMAIN D |-> DelimiterScore(Lines(text), D[i])]
           best == {i \in DOMAIN score : \A j \in DOMAIN score : score[j] <= score[i]}
<1>1. \A a, b, c, e : DOMAIN <<a, b, c, e>> = 1..4
  OBVIOUS
<1>2. DOMAIN D = 1..4
  BY <1>1, Zenon DEF Delimiters
<1>3. \A i, j \in 1..4 : D[i] = D[j] => i = j
  <2>1. D[1] = "," /\ D[2] = ";" /\ D[3] = "TAB" /\ D[4] = "|"
    BY DEF Delimiters
  <2>2. \A i \in 1..4 : i = 1 \/ i = 2 \/ i = 3 \/ i = 4
    OBVIOUS
  <2> HIDE DEF D
  <2> QED BY <2>1, <2>2
<1>4. DetectDelimiter(text) = D[Min(best)]
  BY DEF DetectDelimiter
<1> HIDE DEF D
<1>5. PICK o \in 1..4 : D[o] = d
  BY <1>2 DEF Range, D
<1>6. \A i \in 1..4 : D[i] \in Range(Delimiters)
  BY <1>2 DEF Range, D
<1>7. DOMAIN score = 1..4 /\ \A i \in 1..4 : score[i] = DelimiterScore(Lines(text), D[i])
  BY <1>2
<1> HIDE DEF score
<1>8. \A i \in 1..4 : score[i] \in Int /\ (i # o => score[i] < score[o])
  BY <1>3, <1>5, <1>6, <1>7
<1>9. best = {o}
  BY <1>7, <1>8
<1>10. Min({o}) = o
  BY DEF Min
<1> QED BY <1>4, <1>5, <1>9, <1>10

(***************************************************************************)
(* The guess is right.                                                     *)
(***************************************************************************)
LEMMA NoCarriageKeeps ==
  ASSUME NEW T, "CR" \notin T, NEW c \in Seq(T)
  PROVE  NoCarriage(c) = c
<1>1. Len(c) \in Nat /\ (c # <<>> <=> Len(c) >= 1) /\ (Len(c) >= 1 => Last(c) \in T)
  BY ListFacts, Zenon
<1> QED BY <1>1 DEF NoCarriage

\* What a file has on its lines, of a delimiter that was guessed.
LEMMA LinesOfFile ==
  ASSUME NEW s, Export(s), \A r \in Range(s.matrix) : \A cell \in Range(r) : {"NL", "CR"} \cap Range(cell) = {}
  PROVE  \E w : /\ Lines(Written(s)) = Append(w, <<>>)
                /\ w \in ListsOf(OneLine) /\ Len(w) = Len(s.matrix)
                /\ \A k \in 1..Len(w) :
                     /\ w[k] \in {FlattenSeq(Cells(s.matrix[k], s.delimiter)),
                                  Append(FlattenSeq(Cells(s.matrix[k], s.delimiter)), "CR")}
                     /\ NoCarriage(w[k]) = FlattenSeq(Cells(s.matrix[k], s.delimiter))
<1> DEFINE n == Len(s.matrix)
           d == s.delimiter
           S == OneLine \ {"CR"}
           body(k) == FlattenSeq(Cells(s.matrix[k], d))
           w == [k \in 1..n |-> IF s.ending = <<"NL">> THEN body(k) ELSE Append(body(k), "CR")]
           lists == [i \in DOMAIN s.matrix |-> Line(s.matrix[i], s)]
<1>1. /\ n \in Nat /\ DOMAIN s.matrix = 1..n /\ d \in Range(Delimiters)
      /\ s.ending \in {<<"NL">>, <<"CR", "NL">>} /\ <<"NL">> # <<"CR", "NL">>
      /\ \A k \in 1..n : s.matrix[k] \in Seq(Seq(Char)) /\ Len(s.matrix[k]) >= 1
  <2>1. Len(<<"NL">>) = 1 /\ Len(<<"CR", "NL">>) = 2
    OBVIOUS
  <2> QED BY <2>1, ExportTyped
<1>2. "CR" \notin S /\ "CR" \in OneLine /\ d \in S /\ Quote \in S /\ \A x \in S : x \in OneLine
  <2>1. d \in Char /\ d # "NL" /\ d # "CR"
    BY <1>1, DelimiterIs
  <2> QED BY <2>1 DEF OneLine, Char, Quote
<1>3. ASSUME NEW k \in 1..n PROVE s.matrix[k] \in Seq(Seq(S))
  <2> DEFINE row == s.matrix[k]
  <2>1. row \in Seq(Seq(Char)) /\ row \in Range(s.matrix)
    BY <1>1 DEF Range
  <2> HIDE DEF row
  <2>2. Len(row) \in Nat /\ DOMAIN row = 1..Len(row) /\ \A i \in 1..Len(row) : row[i] \in Seq(Char)
    BY <2>1, ListFacts, Zenon
  <2>3. ASSUME NEW i \in 1..Len(row) PROVE row[i] \in Seq(S)
    <3> DEFINE c == row[i]
    <3>1. c \in Seq(Char) /\ c \in Range(row)
      BY <2>2 DEF Range
    <3>2. {"NL", "CR"} \cap Range(c) = {}
      BY <2>1, <3>1
    <3> HIDE DEF c
    <3>3. Len(c) \in Nat /\ DOMAIN c = 1..Len(c) /\ \A j \in 1..Len(c) : c[j] \in Char
      BY <3>1, ListFacts, Zenon
    <3>4. \A j \in 1..Len(c) : c[j] \in S
      BY <3>2, <3>3 DEF Range, OneLine
    <3>5. c = [j \in 1..Len(c) |-> c[j]]
      BY <3>1
    <3> HIDE DEF S
    <3>6. c \in Seq(S)
      BY <3>3, <3>4, <3>5
    <3> QED BY <3>6 DEF c
  <2>4. row = [i \in 1..Len(row) |-> row[i]]
    BY <2>1
  <2> HIDE DEF S
  <2>5. row \in Seq(Seq(S))
    BY <2>2, <2>3, <2>4
  <2> QED BY <2>5 DEF row
<1> HIDE DEF S
<1>4. ASSUME NEW k \in 1..n PROVE body(k) \in Seq(S) /\ body(k) \in Seq(OneLine) /\ body(k) \in Seq(Char)
  <2>1. body(k) \in Seq(S)
    BY <1>1, <1>2, <1>3, RowParts
  <2>2. \A x \in S : x \in Char
    BY <1>2 DEF OneLine
  <2> HIDE DEF body
  <2> QED BY <1>2, <2>1, <2>2, LargerLists, Zenon
<1>5. ASSUME NEW k \in 1..n
      PROVE  /\ w[k] = (IF s.ending = <<"NL">> THEN body(k) ELSE Append(body(k), "CR"))
             /\ w[k] \in {body(k), Append(body(k), "CR")} /\ w[k] \in Seq(OneLine) /\ NoCarriage(w[k]) = body(k)
             /\ lists[k] = Append(w[k], "NL")
  <2>1. w[k] = (IF s.ending = <<"NL">> THEN body(k) ELSE Append(body(k), "CR"))
    OBVIOUS
  <2>2. lists[k] = body(k) \o s.ending
    BY <1>1 DEF Line
  <2> DEFINE b == body(k)
  <2>3. b \in Seq(S) /\ b \in Seq(OneLine) /\ b \in Seq(Char)
    BY <1>4
  <2> HIDE DEF b, w, lists
  <2>4. CASE s.ending = <<"NL">>
    <3>1. w[k] = b
      BY <2>1, <2>4 DEF b
    <3>2. NoCarriage(b) = b
      BY <1>2, <2>3, NoCarriageKeeps
    <3>3. b \o <<"NL">> = Append(b, "NL")
      BY <2>3
    <3> QED BY <2>1, <2>2, <2>3, <2>4, <3>1, <3>2, <3>3 DEF b
  <2>5. CASE s.ending = <<"CR", "NL">>
    <3>1. w[k] = Append(b, "CR")
      BY <1>1, <2>1, <2>5 DEF b
    <3>2. NoCarriage(Append(b, "CR")) = b /\ Append(b, "CR") \in Seq(OneLine)
      BY <1>2, <2>3, NoCarriageOf, AppendTyped
    <3>3. b \o <<"CR", "NL">> = Append(Append(b, "CR"), "NL")
      BY <2>3
    <3> QED BY <2>1, <2>2, <2>5, <3>1, <3>2, <3>3 DEF b
  <2> QED BY <1>1, <2>4, <2>5
<1>6. w \in ListsOf(OneLine) /\ Len(w) = n
  <2>1. w = [k \in 1..n |-> w[k]]
    OBVIOUS
  <2>2. \A k \in 1..n : w[k] \in Seq(OneLine)
    BY <1>5
  <2> HIDE DEF w, n
  <2>3. ASSUME NEW v, v = [k \in 1..n |-> w[k]] PROVE v \in Seq(Seq(OneLine)) /\ Len(v) = n
    BY <1>1, <2>2, <2>3
  <2> QED BY <2>1, <2>3 DEF ListsOf
<1>7. lists \in ListsOf(Char) /\ Len(lists) = n
  BY LinesTyped DEF ListsOf
<1>8. Written(s) = FlattenSeq(lists)
  BY DEF Written
<1> HIDE DEF w, lists, n
<1>9. Lines(FlattenSeq(lists)) = Append(w, <<>>)
  <2>1. Len(lists) = Len(w) /\ \A k \in 1..Len(w) : lists[k] = Append(w[k], "NL")
    BY <1>5, <1>6, <1>7
  <2> QED BY <1>6, <1>7, <2>1, LinesCut
<1>10. \A k \in 1..Len(w) : w[k] \in {body(k), Append(body(k), "CR")} /\ NoCarriage(w[k]) = body(k)
  BY <1>5, <1>6
<1> QED BY <1>6, <1>8, <1>9, <1>10 DEF n

\* The delimiter of a file with a guessable one is found.
LEMMA GuessRight ==
  ASSUME NEW s, Export(s), Len(s.matrix[1]) > 1,
         \A i \in DOMAIN s.matrix[1] : \A c \in Range(s.matrix[1][i]) : ~Special(c),
         \A r \in Range(s.matrix) : \A cell \in Range(r) : {"NL", "CR"} \cap Range(cell) = {}
  PROVE  DetectDelimiter(Written(s)) = s.delimiter
<1> DEFINE n == Len(s.matrix)
           d == s.delimiter
           k == Len(s.matrix[1]) - 1
           text == Written(s)
           body(i) == FlattenSeq(Cells(s.matrix[i], d))
           L == Lines(text)
<1>1. /\ n \in Nat /\ n >= 1 /\ DOMAIN s.matrix = 1..n /\ d \in Range(Delimiters)
      /\ \A i \in 1..n : s.matrix[i] \in ListsOf(Char) /\ Len(s.matrix[i]) = k + 1 /\ Len(s.matrix[i]) >= 1
      /\ k \in Nat /\ k > 0
  <2>1. /\ n \in Nat /\ n >= 1 /\ DOMAIN s.matrix = 1..n /\ d \in Range(Delimiters)
        /\ \A i \in 1..n : s.matrix[i] \in Seq(Seq(Char)) /\ Len(s.matrix[i]) = Len(s.matrix[1]) /\ Len(s.matrix[i]) >= 1
    BY ExportTyped
  <2>2. s.matrix[1] \in Seq(Seq(Char))
    BY <2>1
  <2>3. Len(s.matrix[1]) \in Nat
    BY <2>2, ListFacts, Zenon
  <2>4. k \in Nat /\ k > 0 /\ Len(s.matrix[1]) = k + 1
    BY <2>3
  <2> QED BY <2>1, <2>4 DEF ListsOf
<1>2. PICK w : /\ L = Append(w, <<>>) /\ w \in ListsOf(OneLine) /\ Len(w) = n
               /\ \A i \in 1..n : w[i] \in {body(i), Append(body(i), "CR")} /\ NoCarriage(w[i]) = body(i)
  BY LinesOfFile
<1> HIDE DEF n, d, k, L
<1>3. /\ Len(L) = n + 1 /\ (\A i \in 1..n : L[i] = w[i]) /\ L[n + 1] = <<>>
      /\ \A i \in 1..(n + 1) : Len(L[i]) \in Nat
  <2>1. w \in Seq(Seq(OneLine))
    BY <1>2 DEF ListsOf
  <2>2. <<>> \in Seq(OneLine) /\ Len(<<>>) = 0
    OBVIOUS
  <2>3. Len(L) = n + 1 /\ (\A i \in 1..n : L[i] = w[i]) /\ L[n + 1] = <<>>
    BY <1>2, <2>1, <2>2, AppendTyped
  <2>4. \A i \in 1..n : Len(w[i]) \in Nat
    <3>1. \A i \in 1..n : w[i] \in Seq(OneLine)
      BY <1>2, <2>1, ListFacts
    <3> QED BY <3>1, ListFacts, Zenon
  <2>5. \A i \in 1..(n + 1) : i = n + 1 \/ i \in 1..n
    BY <1>1
  <2> QED BY <2>2, <2>3, <2>4, <2>5
<1>4. FirstLines(L) \subseteq 1..n /\ 1 \in FirstLines(L) /\ Len(L) \in Nat
  <2>1. Len(L) \in Nat
    BY <1>1, <1>3
  <2>2. FirstLines(L) \subseteq 1..(n + 1) /\ \A i \in 1..(n + 1) : i = 1 /\ NoCarriage(L[i]) # <<>> => i \in FirstLines(L)
    BY <1>3, <2>1, FirstFinite
  <2>3. n + 1 \notin FirstLines(L)
    <3>1. NoCarriage(<<>>) = <<>>
      BY DEF NoCarriage
    <3> QED BY <1>3, <3>1 DEF FirstLines
  <2>4. 1 \in 1..(n + 1) /\ 1 \in 1..n /\ \A i \in 1..(n + 1) : i = n + 1 \/ i \in 1..n
    BY <1>1
  <2>5. NoCarriage(L[1]) # <<>>
    <3>1. NoCarriage(L[1]) = body(1)
      BY <1>2, <1>3, <2>4
    <3>2. CountOutsideQuotes(body(1), d) = k
      <4>1. Seen(Len(s.matrix[1]) - 1, d, d) = k
        BY DEF Seen, k
      <4>2. s.matrix[1] \in ListsOf(Char) /\ Len(s.matrix[1]) >= 1
        BY <1>1, <2>4
      <4>3. CountOutsideQuotes(body(1), d) = Seen(Len(s.matrix[1]) - 1, d, d)
        BY <1>1, <4>2, LineCounted
      <4> QED BY <4>1, <4>3
    <3>3. CountOutsideQuotes(<<>>, d) = 0
      <4>1. Len(<<>>) = 0
        OBVIOUS
      <4>2. PICK f : Tallies(f, <<>>, d) /\ CountOutsideQuotes(<<>>, d) = f[Len(<<>>)].count
        BY <4>1, CountWorks
      <4>3. f[0] = [quoted |-> FALSE, count |-> 0]
        BY <4>2, Zenon DEF Tallies
      <4> QED BY <4>1, <4>2, <4>3
    <3> QED BY <1>1, <3>1, <3>2, <3>3
  <2> QED BY <2>1, <2>2, <2>3, <2>4, <2>5
\* On each of the lines, the delimiter of the file is found as often as there are cells after the first.
<1>5. \A i \in 1..n : CountOutsideQuotes(L[i], d) = k
  <2> TAKE i \in 1..n
  <2>1. s.matrix[i] \in ListsOf(Char) /\ Len(s.matrix[i]) >= 1 /\ Len(s.matrix[i]) - 1 = k
    BY <1>1
  <2>2. L[i] \in {body(i), Append(body(i), "CR")}
    BY <1>2, <1>3
  <2>3. CountOutsideQuotes(L[i], d) = Seen(Len(s.matrix[i]) - 1, d, d)
    BY <1>1, <2>1, <2>2, LineCounted
  <2> QED BY <2>1, <2>3 DEF Seen
\* On the line of the headers no other delimiter is found.
<1>6. \A e \in Range(Delimiters) : e # d => CountOutsideQuotes(L[1], e) = 0
  <2> TAKE e \in Range(Delimiters)
  <2> HAVE e # d
  <2> DEFINE row == s.matrix[1]
  <2>0. 1 \in 1..n
    BY <1>1
  <2>1. row \in ListsOf(Char) /\ Len(row) >= 1
    BY <1>1, <2>0
  <2>2. L[1] \in {body(1), Append(body(1), "CR")}
    BY <1>2, <1>3, <2>0
  <2>3. \A i \in 1..Len(row) : Plain(row[i], d) => Plain(row[i], e)
    <3>1. DOMAIN row = 1..Len(row)
      BY <2>1, ListFacts, Zenon DEF ListsOf
    <3>2. \A i \in 1..Len(row) : \A c \in Range(row[i]) : ~Special(c)
      BY <3>1
    <3> QED BY <3>2 DEF Plain, Special
  <2>4. CountOutsideQuotes(L[1], e) = Seen(Len(row) - 1, d, e)
    BY <1>1, <2>1, <2>2, <2>3, LineCounted
  <2> QED BY <2>4 DEF Seen
<1>7. DelimiterScore(L, d) = 10 * Cardinality(FirstLines(L))
  <2>1. \A i \in FirstLines(L) : CountOutsideQuotes(L[i], d) = k
    BY <1>4, <1>5
  <2> QED BY <1>1, <1>4, <2>1, ScoreIs
<1>8. \A e \in Range(Delimiters) : e # d =>
        DelimiterScore(L, e) \in Int /\ DelimiterScore(L, e) < 10 * Cardinality(FirstLines(L))
  <2> TAKE e \in Range(Delimiters)
  <2> HAVE e # d
  <2>1. CountOutsideQuotes(L[1], e) = 0
    BY <1>6
  <2>2. \A i \in 1..Len(L) : Len(L[i]) \in Nat
    BY <1>3
  <2> QED BY <1>4, <2>1, <2>2, ScoreBelow
<1>9. Cardinality(FirstLines(L)) \in Nat
  BY <1>4, FirstFinite
<1>10. \A e \in Range(Delimiters) : DelimiterScore(L, e) \in Int /\ (e # d => DelimiterScore(L, e) < DelimiterScore(L, d))
  <2>1. 10 * Cardinality(FirstLines(L)) \in Int
    BY <1>9
  <2> QED BY <1>7, <1>8, <2>1
<1>11. DetectDelimiter(text) = d
  <2> HIDE DEF text
  <2> QED BY <1>1, <1>10, GuessIs DEF L
<1> QED BY <1>11 DEF d

(***************************************************************************)
(* What is read, as a table.                                               *)
(***************************************************************************)
\* What is written at the places from a to b of a list.
LEMMA PartIs ==
  ASSUME NEW T, NEW s \in Seq(T), NEW a \in 1..Len(s), NEW b \in 1..Len(s)
  PROVE  /\ SubSeq(s, a, b) \in Seq(T) /\ Len(SubSeq(s, a, b)) = (IF a <= b THEN b - a + 1 ELSE 0)
         /\ \A i \in 1..Len(SubSeq(s, a, b)) : SubSeq(s, a, b)[i] = s[a + i - 1]
OBVIOUS

\* What is trimmed of a text is a text.
LEMMA TrimTyped ==
  ASSUME NEW T, NEW c \in Seq(T)
  PROVE  Trim(c) \in Seq(T)
<1> DEFINE kept == {i \in DOMAIN c : c[i] \notin Blanks}
<1>1. Len(c) \in Nat /\ DOMAIN c = 1..Len(c)
  BY ListFacts, Zenon
<1>2. Trim(c) = IF kept = {} THEN <<>> ELSE SubSeq(c, Min(kept), Max(kept))
  BY DEF Trim
<1>3. kept \subseteq 1..Len(c) /\ kept \in SUBSET (0..Len(c)) /\ kept \in SUBSET Nat
  BY <1>1
<1> HIDE DEF kept
<1>4. CASE kept = {}
  BY <1>2, <1>4
<1>5. CASE kept # {}
  <2>1. Min(kept) \in kept /\ Max(kept) \in kept
    BY <1>1, <1>3, <1>5, LeastOf, GreatestOf
  <2>2. SubSeq(c, Min(kept), Max(kept)) \in Seq(T)
    BY <1>3, <2>1, PartIs
  <2> QED BY <1>2, <1>5, <2>2
<1> QED BY <1>4, <1>5

\* A carriage return at the end is cut off anyway.
LEMMA TrimBack ==
  ASSUME NEW T, NEW c \in Seq(T)
  PROVE  Trim(NoCarriage(c)) = Trim(c)
<1> DEFINE n == Len(c)
           x == Front(c)
           K == {i \in DOMAIN c : c[i] \notin Blanks}
           J == {i \in DOMAIN x : x[i] \notin Blanks}
<1> SUFFICES ASSUME c # <<>>, Last(c) = "CR" PROVE Trim(x) = Trim(c)
  BY DEF NoCarriage
<1>1. n \in Nat /\ DOMAIN c = 1..n /\ n >= 1 /\ c[n] = "CR"
  BY ListFacts
<1>2. x \in Seq(T) /\ Len(x) = n - 1 /\ \A i \in 1..(n - 1) : x[i] = c[i]
  BY <1>1, FrontIs
<1>3. Trim(x) = (IF J = {} THEN <<>> ELSE SubSeq(x, Min(J), Max(J)))
  BY DEF Trim
<1>4. Trim(c) = (IF K = {} THEN <<>> ELSE SubSeq(c, Min(K), Max(K)))
  BY DEF Trim
<1> HIDE DEF x
<1>5. DOMAIN x = 1..(n - 1)
  BY <1>2
<1>6. J = K /\ K \subseteq 1..(n - 1)
  <2>1. c[n] \in Blanks
    BY <1>1 DEF Blanks
  <2> HIDE DEF n
  <2>2. \A i \in 1..n : i = n \/ i \in 1..(n - 1)
    BY <1>1
  <2>3. \A i \in 1..(n - 1) : i \in 1..n
    BY <1>1
  <2> QED BY <1>1, <1>2, <1>5, <2>1, <2>2, <2>3
<1> HIDE DEF J, K, n
<1>7. CASE K = {}
  BY <1>3, <1>4, <1>6, <1>7
<1>8. CASE K # {}
  <2> DEFINE a == Min(K)
             b == Max(K)
  <2>1. a \in 1..(n - 1) /\ b \in 1..(n - 1)
    <3>1. K \in SUBSET Nat /\ K \in SUBSET (0..n)
      BY <1>1, <1>6
    <3>2. a \in K /\ b \in K
      BY <1>1, <1>8, <3>1, LeastOf, GreatestOf
    <3> QED BY <1>6, <3>2
  <2> HIDE DEF a, b
  <2>2. a \in 1..n /\ b \in 1..n /\ a \in Nat /\ b \in Nat
    BY <1>1, <2>1
  <2> DEFINE u == SubSeq(x, a, b)
             v == SubSeq(c, a, b)
             z == IF a <= b THEN b - a + 1 ELSE 0
  <2>3. u \in Seq(T) /\ Len(u) = z /\ \A i \in 1..Len(u) : u[i] = x[a + i - 1]
    BY <1>2, <2>1, PartIs
  <2>4. v \in Seq(T) /\ Len(v) = z /\ \A i \in 1..Len(v) : v[i] = c[a + i - 1]
    BY <2>2, PartIs DEF n
  <2>5. \A i \in 1..z : a + i - 1 \in 1..(n - 1)
    BY <1>1, <2>1
  <2> HIDE DEF u, v, z
  <2>6. \A i \in 1..z : u[i] = v[i]
    <3>1. \A i \in 1..z : x[a + i - 1] = c[a + i - 1]
      BY <1>2, <2>5
    <3> QED BY <2>3, <2>4, <3>1
  <2>7. u = v
    BY <2>3, <2>4, <2>6
  <2> QED BY <1>3, <1>4, <1>6, <1>8, <2>7 DEF u, v, a, b
<1> QED BY <1>7, <1>8

\* So a cell that is read back is trimmed to the same text.
LEMMA CellBack ==
  ASSUME NEW row \in Seq(Seq(Char)), Len(row) >= 1, NEW ending, NEW i \in 1..Len(row)
  PROVE  Trim(Back(row, ending)[i]) = Trim(row[i])
<1>1. Back(row, ending)[i] \in {row[i], NoCarriage(row[i])}
  BY BackIs
<1>2. row[i] \in Seq(Char)
  BY ListFacts
<1> QED BY <1>1, <1>2, TrimBack

\* A header begins with what it is made of.
LEMMA HeaderBegins ==
  ASSUME NEW t \in Seq(Char), NEW x
  PROVE  SubSeq(t, 1, Len(t)) = t /\ SubSeq(Append(t, x), 1, Len(t)) = t
<1> DEFINE T == Char \cup {x}
           s == Append(t, x)
           n == Len(t)
<1>1. SubSeq(t, 1, n) = t /\ n \in Nat
  BY OneMore, ListFacts, Zenon
<1>2. t \in Seq(T) /\ x \in T
  <2>1. x \in T /\ \A c \in Char : c \in T
    OBVIOUS
  <2> HIDE DEF T
  <2> QED BY <2>1, LargerLists, Zenon
<1> HIDE DEF T
<1>3. s \in Seq(T) /\ Len(s) = n + 1 /\ \A i \in 1..n : s[i] = t[i]
  BY <1>2, AppendTyped
<1> HIDE DEF s
<1>4. CASE n = 0
  <2>1. SubSeq(s, 1, 0) = <<>> /\ t = <<>>
    BY <1>1, <1>3, <1>4, OneMore, ListFacts, Zenon
  <2> QED BY <1>1, <1>4, <2>1 DEF s
<1>5. CASE n >= 1
  <2> DEFINE u == SubSeq(s, 1, n)
  <2>1. 1 \in 1..Len(s) /\ n \in 1..Len(s)
    BY <1>1, <1>3, <1>5
  <2>2. u \in Seq(T) /\ Len(u) = (IF 1 <= n THEN n - 1 + 1 ELSE 0) /\ \A i \in 1..Len(u) : u[i] = s[1 + i - 1]
    BY <1>3, <2>1, PartIs
  <2> HIDE DEF u
  <2>3. Len(u) = n /\ \A i \in 1..n : u[i] = t[i]
    BY <1>1, <1>3, <1>5, <2>2
  <2>4. u = t
    BY <1>2, <2>2, <2>3 DEF n
  <2> QED BY <1>1, <2>4 DEF u, s
<1> QED BY <1>1, <1>4, <1>5

\* What stands at one place of a and of b stands at one place of q and of r.
Matched(S, q, r, a, b) ==
  /\ a \in Seq(S) /\ b \in Seq(S) /\ Len(b) = Len(a)
  /\ \A j \in 1..Len(a) : \E i \in 1..Len(q) : a[j] = q[i] /\ b[j] = r[i]

\* Of two lists of one length, the same places are kept.
LEMMA OnlyTogether ==
  ASSUME NEW S, NEW q \in Seq(S), NEW r \in Seq(S), Len(r) = Len(q), NEW P
  PROVE  Matched(S, q, r, Only(q, P), Only(r, P))
<1>1. PICK n \in Nat : n = Len(q)
  BY ListFacts, Zenon
<1>2. PICK f : Picks(f, q, P) /\ Only(q, P) = f[Len(q)]
  BY <1>1, OnlyWorks
<1>3. PICK g : Picks(g, r, P) /\ Only(r, P) = g[Len(r)]
  BY <1>1, OnlyWorks
<1> DEFINE Same(k, a, b) ==
             /\ a \in Seq(S) /\ b \in Seq(S) /\ Len(a) = Len(b)
             /\ \A j \in 1..Len(a) : \E i \in 1..k : a[j] = q[i] /\ b[j] = r[i]
           T == {k \in Nat : k <= n => Same(k, f[k], g[k])}
<1>4. 0 \in T
  <2>1. f[0] = <<>> /\ g[0] = <<>>
    BY <1>2, <1>3, Zenon DEF Picks
  <2>2. Same(0, <<>>, <<>>)
    OBVIOUS
  <2> HIDE DEF Same
  <2> QED BY <2>1, <2>2
<1>5. ASSUME NEW k \in Nat, k \in T PROVE k + 1 \in T
  <2> SUFFICES ASSUME k + 1 <= n PROVE Same(k + 1, f[k + 1], g[k + 1])
    OBVIOUS
  <2> DEFINE a == f[k]
             b == g[k]
  <2>1. k + 1 \in 1..n /\ (k + 1) - 1 = k /\ k <= n /\ \A i \in 1..k : i \in 1..(k + 1)
    BY <1>1
  <2>2. Same(k, a, b)
    BY <1>5, <2>1
  <2>3. f[k + 1] = (IF k + 1 \in P THEN Append(a, q[k + 1]) ELSE a)
    BY <1>1, <1>2, <2>1, Zenon DEF Picks
  <2>4. g[k + 1] = (IF k + 1 \in P THEN Append(b, r[k + 1]) ELSE b)
    BY <1>1, <1>3, <2>1, Zenon DEF Picks
  <2>5. q[k + 1] \in S /\ r[k + 1] \in S
    BY <1>1, <2>1
  <2> HIDE DEF a, b
  <2>6. CASE k + 1 \notin P
    <3>1. Same(k + 1, a, b)
      BY <2>1, <2>2
    <3> HIDE DEF Same
    <3> QED BY <2>3, <2>4, <2>6, <3>1
  <2>7. CASE k + 1 \in P
    <3> DEFINE x == q[k + 1]
               y == r[k + 1]
               u == Append(a, x)
               v == Append(b, y)
    <3>1. a \in Seq(S) /\ b \in Seq(S) /\ Len(a) = Len(b) /\ Len(a) \in Nat /\ x \in S /\ y \in S
      BY <2>2, <2>5
    <3> HIDE DEF x, y
    <3>2. /\ u \in Seq(S) /\ Len(u) = Len(a) + 1 /\ u[Len(a) + 1] = x /\ \A i \in 1..Len(a) : u[i] = a[i]
          /\ v \in Seq(S) /\ Len(v) = Len(a) + 1 /\ v[Len(a) + 1] = y /\ \A i \in 1..Len(a) : v[i] = b[i]
      BY <3>1, AppendTyped
    <3> HIDE DEF u, v
    <3>3. ASSUME NEW j \in 1..Len(u) PROVE \E i \in 1..(k + 1) : u[j] = q[i] /\ v[j] = r[i]
      <4>1. CASE j = Len(a) + 1
        <5>1. k + 1 \in 1..(k + 1)
          OBVIOUS
        <5> QED BY <3>2, <4>1, <5>1 DEF x, y
      <4>2. CASE j \in 1..Len(a)
        <5>1. PICK i \in 1..k : a[j] = q[i] /\ b[j] = r[i]
          BY <2>2, <4>2
        <5> QED BY <2>1, <3>2, <4>2, <5>1
      <4> QED BY <3>1, <3>2, <4>1, <4>2
    <3>4. Same(k + 1, u, v)
      BY <3>2, <3>3
    <3> HIDE DEF Same
    <3> QED BY <2>3, <2>4, <2>7, <3>4 DEF u, v, x, y
  <2> QED BY <2>6, <2>7
<1>6. Same(n, f[n], g[n])
  <2>1. n \in T
    <3> HIDE DEF T
    <3> QED BY <1>4, <1>5, Induction
  <2> HIDE DEF Same
  <2> QED BY <1>1, <2>1
<1>7. Only(q, P) = f[n] /\ Only(r, P) = g[n]
  BY <1>1, <1>2, <1>3
<1> QED BY <1>1, <1>6, <1>7 DEF Matched

\* The cells of the rows of a file, as they are read back.
LEMMA RowsBack ==
  ASSUME NEW s, Export(s), NEW B, B = [k \in 1..Len(s.matrix) |-> Back(s.matrix[k], s.ending)]
  PROVE  /\ B \in Seq(Seq(Seq(Char))) /\ Len(B) = Len(s.matrix)
         /\ \A k \in 1..Len(s.matrix) :
              /\ Len(B[k]) = Len(s.matrix[1]) /\ DOMAIN B[k] = 1..Len(s.matrix[1])
              /\ \A i \in 1..Len(s.matrix[1]) : Trim(B[k][i]) = Trim(s.matrix[k][i])
<1>1. /\ Len(s.matrix) \in Nat
      /\ \A k \in 1..Len(s.matrix) :
           s.matrix[k] \in Seq(Seq(Char)) /\ Len(s.matrix[k]) = Len(s.matrix[1]) /\ Len(s.matrix[k]) >= 1
  BY ExportTyped
<1> DEFINE n == Len(s.matrix)
           m == Len(s.matrix[1])
<1>2. \A k \in 1..n : B[k] = Back(s.matrix[k], s.ending)
  OBVIOUS
<1>3. \A k \in 1..n : B[k] \in Seq(Seq(Char)) /\ Len(B[k]) = m
  BY <1>1, <1>2, BackIs
<1>4. B \in Seq(Seq(Seq(Char))) /\ Len(B) = n
  <2>1. B = [k \in 1..n |-> B[k]] /\ n \in Nat
    BY <1>1
  <2>2. \A k \in 1..n : B[k] \in Seq(Seq(Char))
    BY <1>3
  <2> HIDE DEF n, m
  <2>3. ASSUME NEW v, v = [k \in 1..n |-> B[k]] PROVE v \in Seq(Seq(Seq(Char))) /\ Len(v) = n
    BY <2>1, <2>2, <2>3
  <2> QED BY <2>1, <2>3
<1>5. ASSUME NEW k \in 1..n PROVE DOMAIN B[k] = 1..m
  <2>1. B[k] \in Seq(Seq(Char)) /\ Len(B[k]) = m
    BY <1>3
  <2>2. DOMAIN B[k] = 1..Len(B[k])
    BY <2>1, ListFacts, Zenon
  <2> QED BY <2>1, <2>2
<1>6. \A k \in 1..n : \A i \in 1..m : Trim(B[k][i]) = Trim(s.matrix[k][i])
  BY <1>1, <1>2, CellBack
<1> QED BY <1>3, <1>4, <1>5, <1>6

\* The names of the columns come from the first row, and begin with what it has.
LEMMA HeadersKept ==
  ASSUME NEW row \in Seq(Seq(Char)), NEW back, DOMAIN back = 1..Len(row),
         \A i \in 1..Len(row) : Trim(back[i]) = Trim(row[i]),
         NEW headers, headers = UniqueHeaders(Named(back))
  PROVE  /\ DOMAIN headers = 1..Len(row) /\ Len(headers) = Len(row)
         /\ \A i \in 1..Len(row) : Trim(row[i]) \in {<<>>, SubSeq(headers[i], 1, Len(Trim(row[i])))}
<1> DEFINE n == Len(row)
           N == Named(back)
<1>1. n \in Nat /\ \A i \in 1..n : row[i] \in Seq(Char)
  BY ListFacts, Zenon
<1>2. DOMAIN N = 1..n /\ \A i \in 1..n : N[i] = IF Trim(row[i]) = <<>> THEN <<"Columna " \o ToString(i)>> ELSE Trim(row[i])
  BY DEF Named
<1> HIDE DEF N
<1>3. /\ DOMAIN headers = 1..n
      /\ \A i \in 1..n : \E x : headers[i] = N[i] \/ headers[i] = Append(N[i], x)
  BY <1>2 DEF UniqueHeaders, N
<1>4. \E H : headers = [i \in DOMAIN N |-> H[i]]
  <2> DEFINE H == [i \in DOMAIN N |->
                LET count == Cardinality({j \in 1..i : N[j] = N[i]})
                IN IF count = 1 THEN N[i] ELSE Append(N[i], "(" \o ToString(count) \o ")")]
  <2>1. headers = H
    BY DEF UniqueHeaders, N
  <2>2. H = [i \in DOMAIN N |-> H[i]]
    OBVIOUS
  <2> HIDE DEF H
  <2> QED BY <2>1, <2>2
<1>5. Len(headers) = n
  <2>1. PICK H : headers = [i \in 1..n |-> H[i]]
    BY <1>2, <1>4
  <2> HIDE DEF n
  <2> QED BY <1>1, <2>1
<1>6. ASSUME NEW i \in 1..n, Trim(row[i]) # <<>> PROVE Trim(row[i]) = SubSeq(headers[i], 1, Len(Trim(row[i])))
  <2> DEFINE t == Trim(row[i])
  <2>1. t \in Seq(Char)
    BY <1>1, TrimTyped
  <2>2. N[i] = t
    BY <1>2, <1>6
  <2>3. PICK x : headers[i] = t \/ headers[i] = Append(t, x)
    BY <1>3, <2>2
  <2> HIDE DEF t
  <2>4. SubSeq(t, 1, Len(t)) = t /\ SubSeq(Append(t, x), 1, Len(t)) = t
    BY <2>1, HeaderBegins
  <2>5. t = SubSeq(headers[i], 1, Len(t))
    BY <2>3, <2>4
  <2> QED BY <2>5 DEF t
<1> QED BY <1>3, <1>5, <1>6

\* Of a row, each header has the cell of its column.
LEMMA CellsKept ==
  ASSUME NEW headers, Distinct(headers), NEW n \in Nat, DOMAIN headers = 1..n,
         NEW row, DOMAIN row = 1..n, NEW i \in 1..n
  PROVE  TableRow(headers, row)[headers[i]] = Trim(row[i])
<1> DEFINE at == {j \in DOMAIN headers : headers[j] = headers[i]}
<1>1. at = {i}
  BY DEF Distinct, IsInjective
<1>2. Max({i}) = i
  BY DEF Max
<1>3. headers[i] \in Range(headers)
  BY DEF Range
<1>4. TableRow(headers, row)[headers[i]] = CellAt(row, Max(at))
  BY <1>3 DEF TableRow
<1> HIDE DEF at
<1>5. CellAt(row, i) = Trim(row[i])
  BY DEF CellAt
<1> QED BY <1>1, <1>2, <1>4, <1>5

\* A file is read back cell by cell, with its delimiter.
LEMMA TableIsKept ==
  ASSUME NEW s, Export(s), Distinct(Table(Written(s), s.delimiter).headers)
  PROVE  TableKept(s, Table(Written(s), s.delimiter))
<1> DEFINE table == Table(Written(s), s.delimiter)
           M == s.matrix
           n == Len(M)
           m == Len(M[1])
           B == [k \in 1..n |-> Back(M[k], s.ending)]
           headers == UniqueHeaders(Named(B[1]))
           P(q) == {k \in DOMAIN q : \E i \in DOMAIN q[k] : Trim(q[k][i]) # <<>>}
           read == Filled(Tail(B))
           filled == Filled(Tail(M))
<1>1. /\ M \in Seq(Seq(Seq(Char))) /\ n \in Nat /\ n >= 1 /\ DOMAIN M = 1..n
      /\ \A k \in 1..n : M[k] \in Seq(Seq(Char)) /\ Len(M[k]) = m /\ DOMAIN M[k] = 1..m
      /\ m \in Nat
  <2>1. /\ M \in Seq(Seq(Seq(Char))) /\ n \in Nat /\ n >= 1 /\ DOMAIN M = 1..n
        /\ \A k \in 1..n : M[k] \in Seq(Seq(Char)) /\ Len(M[k]) = m
    BY ExportTyped
  <2>2. 1 \in 1..n
    BY <2>1
  <2>3. \A k \in 1..n : DOMAIN M[k] = 1..Len(M[k]) /\ Len(M[k]) \in Nat
    BY <2>1, ListFacts, Zenon
  <2> QED BY <2>1, <2>2, <2>3
<1>2. /\ B \in Seq(Seq(Seq(Char))) /\ Len(B) = n
      /\ \A k \in 1..n : Len(B[k]) = m /\ DOMAIN B[k] = 1..m /\ \A i \in 1..m : Trim(B[k][i]) = Trim(M[k][i])
  BY RowsBack
<1>3. Matrix(Written(s), s.delimiter) = B
  BY MatrixRead
<1> HIDE DEF B, m, n
<1>4. B # <<>> /\ Head(B) = B[1]
  BY <1>1, <1>2
<1>5. table = [headers |-> headers, rows |-> [i \in DOMAIN read |-> TableRow(headers, read[i])]]
  BY <1>3, <1>4 DEF Table
<1>6. 1 \in 1..n
  BY <1>1
<1>7. /\ DOMAIN headers = 1..m /\ Len(headers) = m
      /\ \A i \in 1..m : Trim(M[1][i]) \in {<<>>, SubSeq(headers[i], 1, Len(Trim(M[1][i])))}
  <2> DEFINE row == M[1]
  <2>1. row \in Seq(Seq(Char)) /\ Len(row) = m
    BY <1>1, <1>6
  <2>2. DOMAIN B[1] = 1..Len(row) /\ \A i \in 1..Len(row) : Trim(B[1][i]) = Trim(row[i])
    BY <1>2, <1>6, <2>1
  <2> HIDE DEF row
  <2>3. /\ DOMAIN headers = 1..Len(row) /\ Len(headers) = Len(row)
        /\ \A i \in 1..Len(row) : Trim(row[i]) \in {<<>>, SubSeq(headers[i], 1, Len(Trim(row[i])))}
    BY <2>1, <2>2, HeadersKept
  <2> QED BY <2>1, <2>3 DEF row
<1> HIDE DEF headers, M
\* What follows the first row.
<1>8. /\ Tail(M) \in Seq(Seq(Seq(Char))) /\ Len(Tail(M)) = n - 1 /\ DOMAIN Tail(M) = 1..(n - 1)
      /\ \A k \in 1..(n - 1) : Tail(M)[k] = M[k + 1]
  BY <1>1 DEF n
<1>9. /\ Tail(B) \in Seq(Seq(Seq(Char))) /\ Len(Tail(B)) = n - 1 /\ DOMAIN Tail(B) = 1..(n - 1)
      /\ \A k \in 1..(n - 1) : Tail(B)[k] = B[k + 1]
  BY <1>1, <1>2
<1>10. ASSUME NEW k \in 1..(n - 1)
       PROVE  /\ DOMAIN Tail(B)[k] = 1..m /\ DOMAIN Tail(M)[k] = 1..m
              /\ \A i \in 1..m : Trim(Tail(B)[k][i]) = Trim(Tail(M)[k][i])
  <2>1. k + 1 \in 1..n
    BY <1>1
  <2> QED BY <1>1, <1>2, <1>8, <1>9, <2>1
<1>11. P(Tail(B)) = P(Tail(M))
  BY <1>8, <1>9, <1>10
<1>12. read = Only(Tail(B), P(Tail(M))) /\ filled = Only(Tail(M), P(Tail(M)))
  BY <1>11 DEF Filled
<1> HIDE DEF P, read, filled
<1>13. /\ Len(filled) = Len(read) /\ read \in Seq(Seq(Seq(Char))) /\ filled \in Seq(Seq(Seq(Char)))
       /\ \A j \in 1..Len(read) : \E i \in 1..(n - 1) : read[j] = Tail(B)[i] /\ filled[j] = Tail(M)[i]
  <2> DEFINE S == Seq(Seq(Char))
             q == Tail(B)
             r == Tail(M)
             places == P(Tail(M))
  <2>1. q \in Seq(S) /\ r \in Seq(S) /\ Len(r) = Len(q) /\ Len(q) = n - 1
    BY <1>8, <1>9
  <2>2. read = Only(q, places) /\ filled = Only(r, places)
    BY <1>12
  <2> HIDE DEF S, q, r, places
  <2>3. Matched(S, q, r, read, filled)
    BY <2>1, <2>2, OnlyTogether
  <2>4. /\ Len(filled) = Len(read) /\ read \in Seq(S) /\ filled \in Seq(S)
        /\ \A j \in 1..Len(read) : \E i \in 1..(n - 1) : read[j] = q[i] /\ filled[j] = r[i]
    BY <2>1, <2>3 DEF Matched
  <2> QED BY <2>4 DEF S, q, r
<1>14. DOMAIN read = 1..Len(read) /\ DOMAIN filled = 1..Len(read) /\ Len(read) \in Nat
  BY <1>13, ListFacts, Zenon
<1>15. table.headers = headers /\ table.rows = [i \in 1..Len(read) |-> TableRow(headers, read[i])]
  BY <1>5, <1>14
<1> HIDE DEF table
<1>16. Len(table.rows) = Len(filled)
  BY <1>13, <1>14, <1>15
<1>17. ASSUME NEW k \in DOMAIN filled, NEW i \in DOMAIN headers
       PROVE  table.rows[k][headers[i]] = Trim(filled[k][i])
  <2>1. k \in 1..Len(read) /\ i \in 1..m
    BY <1>7, <1>14
  <2>2. table.rows[k] = TableRow(headers, read[k])
    BY <1>15, <2>1
  <2>3. PICK j \in 1..(n - 1) : read[k] = Tail(B)[j] /\ filled[k] = Tail(M)[j]
    BY <1>13, <2>1
  <2>4. DOMAIN read[k] = 1..m /\ Trim(read[k][i]) = Trim(filled[k][i])
    BY <1>10, <2>1, <2>3
  <2>5. Distinct(headers)
    BY <1>15 DEF table
  <2>6. TableRow(headers, read[k])[headers[i]] = Trim(read[k][i])
    BY <1>1, <1>7, <2>1, <2>4, <2>5, CellsKept
  <2> QED BY <2>2, <2>4, <2>6
<1>18. TableKept(s, table)
  <2>1. Len(s.matrix[1]) = m /\ s.matrix = M
    BY DEF m, M
  <2>2. Len(table.headers) = m /\ DOMAIN table.headers = 1..m
    BY <1>7, <1>15
  <2>3. \A i \in DOMAIN table.headers :
          Trim(s.matrix[1][i]) \in {<<>>, SubSeq(table.headers[i], 1, Len(Trim(s.matrix[1][i])))}
    BY <1>7, <1>15, <2>1
  <2>4. Filled(Tail(s.matrix)) = filled
    BY DEF filled, M
  <2> QED BY <1>15, <1>16, <1>17, <2>1, <2>2, <2>3, <2>4 DEF TableKept
<1> QED BY <1>18 DEF table

\* A table of a file with a delimiter to go by.
LEMMA FileIsKept ==
  ASSUME NEW s, Export(s), Guessable(s), Distinct(ReadImportFile(Written(s), s.type).headers)
  PROVE  TableKept(s, ReadImportFile(Written(s), s.type))
<1>1. ReadImportFile(Written(s), s.type) = Table(Written(s), s.delimiter)
  <2>1. CASE s.type \in {"tsv", "xlsx"}
    <3>1. s.delimiter = "TAB"
      BY <2>1, Zenon DEF Export
    <3> QED BY <2>1, <3>1 DEF ReadImportFile
  <2>2. CASE s.type \notin {"tsv", "xlsx"}
    <3>1. /\ Len(s.matrix[1]) > 1
          /\ \A i \in DOMAIN s.matrix[1] : \A c \in Range(s.matrix[1][i]) : ~Special(c)
          /\ \A r \in Range(s.matrix) : \A cell \in Range(r) : {"NL", "CR"} \cap Range(cell) = {}
      BY <2>2, Zenon DEF Guessable
    <3>2. DetectDelimiter(Written(s)) = s.delimiter
      BY <3>1, GuessRight
    <3> QED BY <2>2, <3>2 DEF ReadImportFile
  <2> QED BY <2>1, <2>2
<1> QED BY <1>1, TableIsKept

(***************************************************************************)
(* Rows of a table, normalised.                                            *)
(***************************************************************************)
\* The header that a field is mapped to, before a choice is made between one amount and two.
FoundIn(headers, names) ==
  LET at == {i \in DOMAIN headers : headers[i] \in names}
  IN IF at = {} THEN "none" ELSE headers[Min(at)]

\* It is the one header that the field is recognised in, and "none" where there is no such header.
LEMMA FoundIsColumn ==
  ASSUME NEW r, Record(r), NEW f \in DOMAIN Hints
  PROVE  /\ Under(r.cells, FoundIn(r.headers, Hints[f])) = CellFor(r, f)
         /\ FoundIn(r.headers, Hints[f]) = "none" <=> Columns(r, f) = {}
<1> DEFINE headers == r.headers
           places == {i \in DOMAIN headers : headers[i] \in Hints[f]}
<1>1. /\ headers \in Seq(STRING) /\ DOMAIN r.cells = Range(headers) /\ "none" \notin Range(headers)
      /\ \A g, h \in Columns(r, f) : g = h
  BY DEF Record
<1>2. \A h : h \in Range(headers) <=> \E i \in DOMAIN headers : h = headers[i]
  BY DEF Range
<1>3. CASE places = {}
  <2>1. Columns(r, f) = {}
    BY <1>2, <1>3 DEF Columns
  <2>2. FoundIn(headers, Hints[f]) = "none"
    BY <1>3 DEF FoundIn
  <2> HIDE DEF headers
  <2> QED BY <1>1, <2>1, <2>2 DEF Under, CellFor, headers
<1>4. CASE places # {}
  <2> DEFINE h == headers[Min(places)]
  <2>1. places \subseteq Nat
    <3>1. \A i \in DOMAIN headers : i \in Nat
      <4>1. DOMAIN headers = 1..Len(headers) /\ Len(headers) \in Nat
        BY <1>1
      <4> QED BY <4>1
    <3> QED BY <3>1
  <2>2. Min(places) \in places
    <3> HIDE DEF places
    <3> QED BY <1>4, <2>1, LeastOf
  <2>3. h \in Range(headers) /\ h \in Hints[f]
    BY <1>2, <2>2
  <2>4. FoundIn(headers, Hints[f]) = h
    BY <1>4 DEF FoundIn
  <2> HIDE DEF h, headers, places
  <2>5. h \in Columns(r, f) /\ h # "none"
    BY <1>1, <2>3 DEF Columns, headers
  <2>6. (CHOOSE g \in Columns(r, f) : TRUE) = h
    BY <1>1, <2>5
  <2>7. Under(r.cells, h) = r.cells[h] /\ CellFor(r, f) = r.cells[h]
    BY <1>1, <2>3, <2>5, <2>6 DEF Under, CellFor
  <2> QED BY <2>4, <2>5, <2>7 DEF headers
<1> QED BY <1>3, <1>4

\* So under the mapping a field is in its column; the one amount only if there are not two.
LEMMA CellsFound ==
  ASSUME NEW r, Record(r)
  PROVE  LET mapping == GuessMapping(r.headers, Hints)
         IN /\ \A f \in {"date", "income", "expense", "kind", "currency"} :
                 Under(r.cells, mapping[f]) = CellFor(r, f)
            /\ Columns(r, "income") = {} /\ Columns(r, "expense") = {} =>
                 Under(r.cells, mapping["amount"]) = CellFor(r, "amount")
<1> DEFINE found == [f \in DOMAIN Hints |-> FoundIn(r.headers, Hints[f])]
           mapping == GuessMapping(r.headers, Hints)
<1>1. /\ "date" \in DOMAIN Hints /\ "income" \in DOMAIN Hints /\ "expense" \in DOMAIN Hints
      /\ "kind" \in DOMAIN Hints /\ "currency" \in DOMAIN Hints /\ "amount" \in DOMAIN Hints
  BY ImportTextAssumption
<1>2. mapping = IF found["income"] = "none" /\ found["expense"] = "none" THEN found
                ELSE [found EXCEPT !["amount"] = "none"]
  BY DEF GuessMapping, FoundIn
<1>3. \A f \in DOMAIN Hints : found[f] = FoundIn(r.headers, Hints[f])
  OBVIOUS
<1>4. DOMAIN found = DOMAIN Hints
  OBVIOUS
<1> HIDE DEF found, mapping
<1>5. \A f \in {"date", "income", "expense", "kind", "currency"} : mapping[f] = found[f]
  BY <1>1, <1>2, <1>4
<1>6. \A f \in {"date", "income", "expense", "kind", "currency"} : Under(r.cells, mapping[f]) = CellFor(r, f)
  BY <1>1, <1>3, <1>5, FoundIsColumn
<1>7. ASSUME Columns(r, "income") = {}, Columns(r, "expense") = {}
      PROVE  Under(r.cells, mapping["amount"]) = CellFor(r, "amount")
  <2>1. found["income"] = "none" /\ found["expense"] = "none"
    BY <1>1, <1>3, <1>7, FoundIsColumn
  <2>2. mapping["amount"] = found["amount"]
    BY <1>2, <2>1
  <2> QED BY <1>1, <1>3, <2>2, FoundIsColumn
<1> QED BY <1>6, <1>7 DEF mapping

\* A figure is read as what it is worth.
LEMMA FigureRead ==
  ASSUME NEW cell, Figure(cell)
  PROVE  /\ Value(cell) = Worth(cell) /\ Value(cell) \in Nat
         /\ ~(cell # <<>> /\ Unreadable(cell[1].amount))
<1>1. CASE cell = <<>>
  BY <1>1 DEF Value, Worth
<1>2. CASE cell # <<>>
  <2> DEFINE t == cell[1].amount
  <2>1. Wellformed(t) /\ Customary(t)
    BY <1>2 DEF Figure
  <2>2. Value(cell) = ImportAmount(t) /\ Worth(cell) = t.worth
    BY <1>2 DEF Value, Worth
  <2> HIDE DEF t
  <2>3. t.worth = Meant(t)
    BY <2>1 DEF Wellformed
  <2>4. ImportAmount(t) = t.worth /\ t.worth \in Nat
    BY <2>1, <2>3, MeantIsRead, NumberParts
  <2>5. ~Unreadable(t)
    <3> SUFFICES ASSUME Mixed(t), Repeated(t) PROVE FALSE
      BY DEF Unreadable
    <3>1. t.seps # <<>>
      <4>1. "." \in Range(t.seps)
        BY DEF Mixed
      <4> QED BY <4>1 DEF Range
    <3> QED BY <2>1, <3>1 DEF Customary
  <2> QED BY <2>2, <2>4, <2>5 DEF t
<1> QED BY <1>1, <1>2

\* The direction and the amount of a row are what the row says.
LEMMA MoneyRead ==
  ASSUME NEW r, Record(r)
  PROVE  /\ ResolveMoney(r.cells, GuessMapping(r.headers, Hints), "expense") = <<r.kind, r.worth>>
         /\ r.worth \in Nat /\ r.worth > 0
<1> DEFINE mapping == GuessMapping(r.headers, Hints)
           in == CellFor(r, "income")
           out == CellFor(r, "expense")
           single == CellFor(r, "amount")
           word == CellFor(r, "kind")
           money == ResolveMoney(r.cells, mapping, "expense")
<1>1. /\ Under(r.cells, mapping["income"]) = in /\ Under(r.cells, mapping["expense"]) = out
      /\ Under(r.cells, mapping["kind"]) = word
      /\ Columns(r, "income") = {} /\ Columns(r, "expense") = {} => Under(r.cells, mapping["amount"]) = single
  BY CellsFound
<1>2. /\ Figure(in) /\ Figure(out) /\ Figure(single) /\ r.worth > 0
      /\ \/ r.kind = "income" /\ Worth(in) = r.worth /\ Worth(out) = 0
         \/ r.kind = "expense" /\ Worth(out) = r.worth /\ Worth(in) = 0
         \/ /\ Columns(r, "income") = {} /\ Columns(r, "expense") = {} /\ Worth(single) = r.worth
            /\ r.kind = IF word = <<>> THEN "expense" ELSE word[1]
  BY DEF Record
<1>3. Columns(r, "income") = {} => in = <<>>
  BY DEF CellFor
<1>4. Columns(r, "expense") = {} => out = <<>>
  BY DEF CellFor
<1> HIDE DEF in, out, single, word
<1>5. /\ Value(in) = Worth(in) /\ Value(out) = Worth(out) /\ Value(single) = Worth(single)
      /\ Value(in) \in Nat /\ Value(out) \in Nat /\ Value(single) \in Nat
      /\ \A cell \in {in, out} : ~(cell # <<>> /\ Unreadable(cell[1].amount))
  BY <1>2, FigureRead
<1>6. Worth(<<>>) = 0
  BY DEF Worth
<1>7. CASE r.kind = "income" /\ Worth(in) = r.worth /\ Worth(out) = 0
  <2>1. in # <<>>
    BY <1>2, <1>6, <1>7
  <2>2. money = TwoColumns(in, out)
    BY <1>1, <2>1 DEF ResolveMoney
  <2>3. TwoColumns(in, out) = <<"income", Value(in)>>
    BY <1>2, <1>5, <1>7 DEF TwoColumns
  <2> QED BY <1>2, <1>5, <1>7, <2>2, <2>3
<1>8. CASE r.kind = "expense" /\ Worth(out) = r.worth /\ Worth(in) = 0
  <2>1. out # <<>>
    BY <1>2, <1>6, <1>8
  <2>2. money = TwoColumns(in, out)
    BY <1>1, <2>1 DEF ResolveMoney
  <2>3. TwoColumns(in, out) = <<"expense", Value(out)>>
    BY <1>2, <1>5, <1>8 DEF TwoColumns
  <2> QED BY <1>2, <1>5, <1>8, <2>2, <2>3
<1>9. CASE /\ Columns(r, "income") = {} /\ Columns(r, "expense") = {} /\ Worth(single) = r.worth
           /\ r.kind = IF word = <<>> THEN "expense" ELSE word[1]
  <2>1. in = <<>> /\ out = <<>> /\ single # <<>>
    BY <1>2, <1>3, <1>4, <1>6, <1>9
  <2>2. money = OneColumn(single, word, "expense")
    BY <1>1, <1>9, <2>1 DEF ResolveMoney
  <2>3. OneColumn(single, word, "expense") = <<r.kind, Value(single)>>
    BY <1>9 DEF OneColumn
  <2> QED BY <1>2, <1>5, <1>9, <2>2, <2>3
<1> QED BY <1>2, <1>7, <1>8, <1>9
\* A month has at least 28 days, so that any month read for a day is a day of any month.
LEMMA MonthsAreLong == \A y, m : LastDay(y, m) \in 28..31
BY DEF LastDay

\* A day written first is read; a month written first is taken for the day, or refused.
LEMMA DateRead ==
  ASSUME NEW r, Record(r)
  PROVE  LET read == ImportDate(CellFor(r, "date")[1])
         IN /\ ~r.monthFirst => read = r.date
            /\ r.monthFirst /\ r.date[3] <= 12 => read = <<r.date[1], r.date[3], r.date[2]>>
            /\ r.monthFirst /\ ~(r.date[3] <= 12) => read = <<>>
            /\ r.date # <<>>
<1> DEFINE d == CellFor(r, "date")[1]
           y == r.date[1]
           m == r.date[2]
           k == r.date[3]
<1>1. /\ LongYear(d[3]) = y /\ k \in 1..LastDay(y, m)
      /\ <<d[1], d[2]>> = IF r.monthFirst THEN <<m, k>> ELSE <<k, m>>
  BY DEF Record
<1>2. r.date \in Nat \X (1..12) \X Nat
  BY DEF Record
<1>3. r.date = <<y, m, k>> /\ m \in 1..12 /\ k \in Nat
  BY <1>2
<1>4. LastDay(y, m) \in 28..31 /\ LastDay(y, k) \in 28..31
  BY MonthsAreLong
<1>5. ImportDate(d) = IF d[2] \in 1..12 /\ d[1] \in 1..LastDay(y, d[2]) THEN <<y, d[2], d[1]>> ELSE <<>>
  BY <1>1 DEF ImportDate
<1> HIDE DEF d, y, m, k
<1>6. CASE ~r.monthFirst
  <2>1. d[1] = k /\ d[2] = m
    BY <1>1, <1>6
  <2> QED BY <1>1, <1>3, <1>5, <1>6, <2>1 DEF d, k, y, m
<1>7. CASE r.monthFirst
  <2>1. d[1] = m /\ d[2] = k
    BY <1>1, <1>7
  <2>2. m \in 1..LastDay(y, k)
    BY <1>3, <1>4
  <2>3. k >= 1
    BY <1>1, <1>4
  <2>4. k <= 12 <=> k \in 1..12
    BY <1>3, <2>3
  <2>5. ImportDate(d) = IF k <= 12 THEN <<y, k, m>> ELSE <<>>
    BY <1>5, <2>1, <2>2, <2>4
  <2> QED BY <1>3, <1>7, <2>5 DEF d, k, y, m
<1> QED BY <1>6, <1>7

\* A row says the same after it is normalised, but for a month before the day.
LEMMA RowIsKept ==
  ASSUME NEW r, Record(r)
  PROVE  MovementKept(r, NormalizeRow(r.cells, GuessMapping(r.headers, Hints), "expense"))
<1> DEFINE mapping == GuessMapping(r.headers, Hints)
           date == CellFor(r, "date")
           read == ImportDate(date[1])
           named == Under(r.cells, mapping["currency"])
           currency == IF named = <<>> THEN Base ELSE named[1]
           movement == NormalizeRow(r.cells, mapping, "expense")
<1>1. Under(r.cells, mapping["date"]) = date /\ Len(date) = 1
  BY CellsFound DEF Record
<1>2. ResolveMoney(r.cells, mapping, "expense") = <<r.kind, r.worth>> /\ r.worth \in Nat /\ r.worth > 0
  BY MoneyRead
<1>3. date # <<>>
  <2>1. Len(<<>>) = 0
    OBVIOUS
  <2> HIDE DEF date
  <2> QED BY <1>1, <2>1
<1>4. /\ ~r.monthFirst => read = r.date
      /\ r.monthFirst /\ r.date[3] <= 12 => read = <<r.date[1], r.date[3], r.date[2]>>
      /\ r.monthFirst /\ ~(r.date[3] <= 12) => read = <<>>
      /\ r.date # <<>>
  BY DateRead
<1>5. r.date[3] \in Nat
  <2>1. r.date \in Nat \X (1..12) \X Nat
    BY DEF Record
  <2> QED BY <2>1
<1>6. movement = IF read = <<>> THEN Refusal
                 ELSE [kind |-> r.kind, minor |-> r.worth, date |-> read, currency |-> currency]
  <2> HIDE DEF date
  <2> QED BY <1>1, <1>2, <1>3 DEF NormalizeRow
<1> HIDE DEF read, movement, currency
<1>7. CASE read = <<>>
  <2>1. movement = Refusal /\ r.monthFirst /\ ~(r.date[3] <= 12)
    <3>1. \A a, b, c : <<a, b, c>> # <<>>
      OBVIOUS
    <3> QED BY <1>4, <1>6, <1>7, <3>1
  <2>2. r.date[3] > 12
    BY <1>5, <2>1
  <2>3. Refusal.kind = "none"
    BY DEF Refusal
  <2> QED BY <2>1, <2>2, <2>3 DEF MovementKept, movement
<1>8. CASE read # <<>>
  <2>1. movement.kind = r.kind /\ movement.minor = r.worth /\ movement.date = read
    BY <1>6, <1>8
  <2>2. movement # Refusal
    <3>1. Refusal.minor = 0
      BY DEF Refusal
    <3> QED BY <1>2, <2>1, <3>1
  <2>3. read = r.date \/ (r.monthFirst /\ read = <<r.date[1], r.date[3], r.date[2]>>)
    BY <1>4, <1>8
  <2> QED BY <2>1, <2>2, <2>3 DEF MovementKept, movement
<1> QED BY <1>7, <1>8

(***************************************************************************)
(* What is shown of a file and of a row.                                   *)
(***************************************************************************)
\* What was read is a file of another application with its table, or a row with its movement.
ImportTextInv ==
  \/ sheet = Unopened
  \/ \E s \in Sheets : sheet = [step |-> "read", sheet |-> s, table |-> ReadImportFile(Written(s), s.type)]
  \/ \E r \in Rows :
       sheet = [step |-> "row", row |-> r,
                movement |-> NormalizeRow(r.cells, GuessMapping(r.headers, Hints), "expense")]

\* A table of any size, written with quotes around the cells that need them, with any of the
\* delimiters and line ends, is read back cell by cell, if its delimiter is known or can be guessed;
\* and a row with numbers in any customary notation says the same after it is normalised, but for
\* a month before the day.  (importing/index.ts, fileImport.ts)
THEOREM ImportSurvives == ImportTextSpec => []CellsSurvive
<1>1. ImportTextInit => ImportTextInv
  BY DEF ImportTextInit, ImportTextInv
<1>2. ImportTextInv /\ [ImportTextNext]_sheet => ImportTextInv'
  <2> SUFFICES ASSUME ImportTextInv, [ImportTextNext]_sheet PROVE ImportTextInv'
    OBVIOUS
  <2>1. CASE UNCHANGED sheet
    BY <2>1 DEF ImportTextInv
  <2>2. ASSUME NEW s \in Sheets, ReadFile(s) PROVE ImportTextInv'
    BY <2>2 DEF ReadFile, ImportTextInv
  <2>3. ASSUME NEW r \in Rows, NormalizeOne(r) PROVE ImportTextInv'
    BY <2>3 DEF NormalizeOne, ImportTextInv
  <2> QED BY <2>1, <2>2, <2>3 DEF ImportTextNext
<1>3. ImportTextInv => CellsSurvive
  <2>1. CASE sheet = Unopened
    <3>1. sheet.step = "closed"
      BY <2>1 DEF Unopened
    <3> QED BY <3>1 DEF CellsSurvive
  <2>2. ASSUME NEW s \in Sheets,
               sheet = [step |-> "read", sheet |-> s, table |-> ReadImportFile(Written(s), s.type)]
        PROVE  CellsSurvive
    <3> DEFINE table == ReadImportFile(Written(s), s.type)
    <3>1. Export(s)
      BY ImportTextAssumption
    <3>2. sheet.step = "read" /\ sheet.sheet = s /\ sheet.table = table
      BY <2>2
    <3>3. Guessable(s) /\ Distinct(table.headers) => TableKept(s, table)
      BY <3>1, FileIsKept
    <3> HIDE DEF table
    <3> QED BY <3>2, <3>3 DEF CellsSurvive
  <2>3. ASSUME NEW r \in Rows,
               sheet = [step |-> "row", row |-> r,
                        movement |-> NormalizeRow(r.cells, GuessMapping(r.headers, Hints), "expense")]
        PROVE  CellsSurvive
    <3> DEFINE movement == NormalizeRow(r.cells, GuessMapping(r.headers, Hints), "expense")
    <3>1. Record(r)
      BY ImportTextAssumption
    <3>2. sheet.step = "row" /\ sheet.row = r /\ sheet.movement = movement
      BY <2>3
    <3>3. MovementKept(r, movement)
      BY <3>1, RowIsKept
    <3> HIDE DEF movement
    <3> QED BY <3>2, <3>3 DEF CellsSurvive
  <2> QED BY <2>1, <2>2, <2>3 DEF ImportTextInv
<1> QED BY <1>1, <1>2, <1>3, PTL DEF ImportTextSpec
=============================================================================
