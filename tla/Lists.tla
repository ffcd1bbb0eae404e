-------------------------------- MODULE Lists -------------------------------
(***************************************************************************)
(* What the code does to lists in more than one place.                     *)
(***************************************************************************)
EXTENDS Integers, Sequences

\* a filter: what is kept of a list when some are taken out of it (the list of the phone without
\* what the server has taken, the rows of a file without those the ledger has)
Without(q, gone) ==
  LET kept[i \in 0..Len(q)] ==
        IF i = 0 THEN <<>> ELSE IF q[i] \in gone THEN kept[i - 1] ELSE Append(kept[i - 1], q[i])
  IN kept[Len(q)]

\* a loop over 1..n: what it makes of base, after each of its steps
Running(Step(_, _), base, n) ==
  LET value[k \in 0..n] == IF k = 0 THEN base ELSE Step(value[k - 1], k) IN value

\* another filter: what stands at some places of a list
Only(q, places) ==
  Running(LAMBDA kept, i : IF i \in places THEN Append(kept, q[i]) ELSE kept, <<>>, Len(q))[Len(q)]
=============================================================================
