---------------------------- MODULE LedgerProofs ----------------------------
(***************************************************************************)
(* Proofs about Ledger, for any signals, twins and invocations: types, one *)
(* posting per accepted signal, decisions that stand, and no double        *)
(* posting across sources as long as signals are ingested one at a time.   *)
(***************************************************************************)
EXTENDS Ledger, TLAPS

(* The variables of an invocation keep their types when it ends or proceeds. *)
LEMMA EndTyped ==
  ASSUME ProcTypes, NEW p \in Procs, End(p) \/ Proceed(p)
  PROVE  ProcTypes'
<1>1. CASE End(p)
  BY <1>1, LedgerAssumption DEF ProcTypes, End, Goto, Places, Working
<1>2. ASSUME NEW s \in todo[p],
             Goto(p, "automate"), sig' = [sig EXCEPT ![p] = s],
             todo' = [todo EXCEPT ![p] = @ \ {s}], UNCHANGED <<saw, count>>
      PROVE  ProcTypes'
  BY <1>2 DEF ProcTypes, Goto, Places, Working
<1> QED BY <1>1, <1>2 DEF Proceed

(* Every step of an ingestion keeps the types. *)
LEMMA IngestTyped ==
  ASSUME TypeOK, NEW p \in Ingesters,
         (\E s \in Signals : IngestStart(p, s)) \/ Lookup(p) \/ Nearby(p) \/ Insert(p)
  PROVE  TypeOK'
<1> USE LedgerAssumption
<1>p. p \in Procs BY DEF Procs
<1>1. CASE \E s \in Signals : IngestStart(p, s)
  BY <1>1, <1>p DEF TypeOK, DataTypes, ProcTypes, IngestStart, Goto, Places, Working,
                    candVars, txVars, boardVars
<1>2. CASE Lookup(p)
  <2>1. DataTypes' BY <1>2 DEF TypeOK, DataTypes, Lookup, candVars, txVars, boardVars
  <2>2. CASE status[sig[p]] = "none"
    BY <1>2, <1>p, <2>1, <2>2 DEF TypeOK, ProcTypes, Lookup, Goto, Places, Working
  <2>3. CASE status[sig[p]] # "none"
    BY <1>2, <1>p, <2>1, <2>3, EndTyped DEF TypeOK, Lookup
  <2> QED BY <2>2, <2>3
<1>3. CASE Nearby(p)
  <2>1. DataTypes' BY <1>3 DEF TypeOK, DataTypes, Nearby, candVars, txVars, boardVars
  <2>2. saw' \in [Procs -> Signals \cup {NoSignal}]
    BY <1>3 DEF TypeOK, ProcTypes, Nearby, NearbyMatches, Live
  <2>3. ProcTypes'
    BY <1>3, <1>p, <2>2 DEF TypeOK, ProcTypes, Nearby, Goto, Places, Working
  <2> QED BY <2>1, <2>3 DEF TypeOK
<1>4. CASE Insert(p)
  <2>s. sig[p] \in Signals /\ saw[p] \in Signals \cup {NoSignal}
    BY <1>4, <1>p DEF Insert, TypeOK, ProcTypes, Working
  <2>1. CASE status[sig[p]] # "none"
    <3>1. DataTypes' BY <1>4, <2>1 DEF TypeOK, DataTypes, Insert, txVars, boardVars
    <3> QED BY <1>4, <1>p, <2>1, <3>1, EndTyped DEF TypeOK, Insert
  <2>2. CASE status[sig[p]] = "none" /\ saw[p] = NoSignal
    <3>1. DataTypes'
      BY <1>4, <2>2, <2>s DEF TypeOK, DataTypes, Insert, Statuses, txVars, boardVars
    <3>2. ProcTypes'
      BY <1>4, <1>p, <2>2, <2>s DEF TypeOK, ProcTypes, Insert, Goto, Places, Working
    <3> QED BY <3>1, <3>2 DEF TypeOK
  <2>3. CASE status[sig[p]] = "none" /\ saw[p] # NoSignal
    <3>1. DataTypes'
      BY <1>4, <2>3, <2>s DEF TypeOK, DataTypes, Insert, Statuses, txVars, boardVars
    <3> QED BY <1>4, <1>p, <2>3, <3>1, EndTyped DEF TypeOK, Insert
  <2> QED BY <2>1, <2>2, <2>3
<1> QED BY <1>1, <1>2, <1>3, <1>4

(* Every step of the automation keeps the types. *)
LEMMA AutomateTyped ==
  ASSUME TypeOK, NEW p \in Procs, Automate(p)
  PROVE  TypeOK'
<1> USE LedgerAssumption
<1>s. pc[p] \in {"automate", "hold", "post"} /\ sig[p] \in Signals
  BY DEF Automate, MarkReview, Ignore, Calibrate, Hold, AutoPost, TypeOK, ProcTypes, Working
<1>1. CASE MarkReview(p)
  <2>1. DataTypes' BY <1>1, <1>s DEF TypeOK, DataTypes, MarkReview, txVars, boardVars
  <2> QED BY <1>1, <2>1, EndTyped DEF TypeOK, MarkReview
<1>2. CASE Ignore(p)
  <2>1. DataTypes'
    BY <1>2, <1>s DEF TypeOK, DataTypes, Ignore, IgnorePending, Statuses, txVars, boardVars
  <2> QED BY <1>2, <2>1, EndTyped DEF TypeOK, Ignore
<1>3. CASE Calibrate(p)
  <2>1. pc' \in [Procs -> Places] /\ \A q \in Procs : pc'[q] = "confirm" => pc[q] = "confirm"
    BY <1>3 DEF TypeOK, ProcTypes, Calibrate, Goto, Places
  <2>2. \A q \in Procs : pc'[q] \in Working => pc[q] \in Working
    BY <1>3, <1>s DEF TypeOK, ProcTypes, Calibrate, Goto, Working
  <2> QED BY <1>3, <2>1, <2>2 DEF TypeOK, DataTypes, ProcTypes, Calibrate, candVars, txVars, boardVars
<1>4. CASE Hold(p)
  <2>1. DataTypes' BY <1>4, <1>s DEF TypeOK, DataTypes, Hold, txVars, boardVars
  <2> QED BY <1>4, <2>1, EndTyped DEF TypeOK, Hold
<1>5. CASE AutoPost(p)
  <2>1. DataTypes'
    BY <1>5, <1>s DEF TypeOK, DataTypes, AutoPost, Post, Statuses, txVars, boardVars
  <2> QED BY <1>5, <2>1, EndTyped DEF TypeOK, AutoPost
<1> QED BY <1>1, <1>2, <1>3, <1>4, <1>5 DEF Automate

(* Every step of a review keeps the types; recordOnboardingAssociation writes at most the *)
(* target, because it read less.                                                          *)
LEMMA ReviewTyped ==
  ASSUME TypeOK, NEW p \in Reviewers,
         (\E s \in Signals : Accept(p, s)) \/ RecordRead(p) \/ RecordWrite(p)
           \/ Reprocess(p) \/ AccountCreated(p)
  PROVE  TypeOK'
<1> USE LedgerAssumption
<1>p. p \in Procs BY DEF Procs
<1>1. ASSUME NEW s \in Signals, Accept(p, s) PROVE TypeOK'
  <2>1. DataTypes'
    BY <1>1 DEF TypeOK, DataTypes, Accept, Post, Statuses, txVars, boardVars
  <2>2. ProcTypes'
    BY <1>1, <1>p DEF TypeOK, ProcTypes, Accept, Goto, Places, Working
  <2> QED BY <2>1, <2>2 DEF TypeOK
<1>2. CASE RecordRead(p)
  <2>1. DataTypes' BY <1>2 DEF TypeOK, DataTypes, RecordRead, candVars, txVars, boardVars
  <2>2. CASE calibrating /\ confirmed < Target
    BY <1>2, <1>p, <2>1, <2>2
    DEF TypeOK, DataTypes, ProcTypes, RecordRead, Goto, Places, Working
  <2>3. CASE ~(calibrating /\ confirmed < Target)
    BY <1>2, <1>p, <2>1, <2>3
    DEF TypeOK, DataTypes, ProcTypes, RecordRead, Goto, Places, Working
  <2> QED BY <2>2, <2>3
<1>3. CASE RecordWrite(p)
  <2>1. count[p] + 1 \in 0..Target
    BY <1>3, <1>p DEF TypeOK, ProcTypes, RecordWrite
  <2>2. DataTypes' BY <1>3, <2>1 DEF TypeOK, DataTypes, RecordWrite, candVars, txVars
  <2>3. ProcTypes' BY <1>3, <1>p DEF TypeOK, ProcTypes, RecordWrite, Goto, Places, Working
  <2> QED BY <2>2, <2>3 DEF TypeOK
<1>4. CASE Reprocess(p)
  <2>1. DataTypes' BY <1>4 DEF TypeOK, DataTypes, Reprocess, candVars, txVars, boardVars
  <2>2. CASE End(p) BY <1>p, <2>1, <2>2, EndTyped DEF TypeOK
  <2>3. CASE ~End(p)
    BY <1>4, <1>p, <2>1, <2>3 DEF TypeOK, ProcTypes, Reprocess, Pending, Goto, Places, Working
  <2> QED BY <2>2, <2>3
<1>5. CASE AccountCreated(p)
  BY <1>5, <1>p DEF TypeOK, DataTypes, ProcTypes, AccountCreated, Goto, Places, Working,
                    candVars, txVars, boardVars
<1> QED BY <1>1, <1>2, <1>3, <1>4, <1>5

(* A step keeps the types. *)
LEMMA TypeStep == ASSUME TypeOK, [Next]_vars PROVE TypeOK'
<1> USE LedgerAssumption
<1>1. CASE \E p \in Ingesters :
             (\E s \in Signals : IngestStart(p, s)) \/ Lookup(p) \/ Nearby(p) \/ Insert(p)
  BY <1>1, IngestTyped
<1>2. CASE \E p \in Reviewers :
             (\E s \in Signals : Accept(p, s)) \/ RecordRead(p) \/ RecordWrite(p)
               \/ Reprocess(p) \/ AccountCreated(p)
  BY <1>2, ReviewTyped
<1>3. CASE \E p \in Procs : Automate(p)
  BY <1>3, AutomateTyped
<1>4. ASSUME NEW p \in Procs, Stop(p) PROVE TypeOK'
  <2>1. DataTypes' BY <1>4 DEF TypeOK, DataTypes, Stop, candVars, txVars, boardVars
  <2> QED BY <1>4, <2>1, EndTyped DEF TypeOK, Stop
<1>5. CASE \E s \in Signals : Decline(s)
  BY <1>5 DEF TypeOK, DataTypes, ProcTypes, Decline, Statuses, txVars, boardVars, procVars
<1>6. CASE \E s \in Signals : DeleteTransaction(s)
  BY <1>6 DEF TypeOK, DataTypes, ProcTypes, DeleteTransaction, candVars, boardVars, procVars
<1>r. CASE Restore
  BY <1>r DEF TypeOK, DataTypes, ProcTypes, Restore, candVars, boardVars, procVars
<1>7. CASE CompleteOnboarding
  BY <1>7 DEF TypeOK, DataTypes, ProcTypes, CompleteOnboarding, candVars, txVars, procVars
<1>8. CASE Purge
  <2>1. ProcTypes' BY <1>8 DEF TypeOK, ProcTypes, Purge, procVars
  <2>2. DataTypes' BY <1>8 DEF TypeOK, DataTypes, Purge, Statuses, txVars, boardVars
  <2> QED BY <2>1, <2>2 DEF TypeOK
<1>9. CASE UNCHANGED vars
  BY <1>9 DEF TypeOK, DataTypes, ProcTypes, vars, candVars, txVars, boardVars, procVars
<1> QED BY <1>1, <1>2, <1>3, <1>4, <1>5, <1>6, <1>7, <1>8, <1>9, <1>r DEF Next

(* The types hold throughout, and with them the bound of the onboarding counter, which is *)
(* written from a stale read.                                                             *)
THEOREM LedgerTypes == Spec => []TypeOK
<1>1. Init => TypeOK
  BY LedgerAssumption
  DEF Init, TypeOK, DataTypes, ProcTypes, Statuses, Places, Working
<1> QED BY <1>1, TypeStep, PTL DEF Spec

-----------------------------------------------------------------------------
(* What a step does to the candidates' statuses and to the transactions: every signal *)
(* stays as it is, or makes one of the moves of the candidate's life.                  *)
Move(s) ==
  \/ status'[s] = status[s] /\ posts'[s] = posts[s]
  \/ status[s] = "none" /\ status'[s] \in {"pending", "duplicate"} /\ posts'[s] = posts[s]
  \/ status[s] = "pending" /\ status'[s] = "accepted" /\ posts'[s] = posts[s] + 1
  \/ status[s] = "pending" /\ status'[s] \in {"expired", "rejected", "duplicate"}
     /\ posts'[s] = posts[s]
  \/ status[s] \in {"rejected", "duplicate", "expired"} /\ status'[s] = "purged"
     /\ posts'[s] = posts[s]

Moves ==
  /\ \A s \in Signals : Move(s)
  /\ \A s \in ledger' : s \in ledger \/ status'[s] = "accepted"

LEMMA PostMoves ==
  ASSUME TypeOK, NEW s \in Signals, status[s] = "pending", Post(s)
  PROVE  Moves
BY DEF TypeOK, DataTypes, Post, Moves, Move

LEMMA StillMoves ==
  ASSUME UNCHANGED <<status, posts>>, ledger' \subseteq ledger PROVE Moves
BY DEF Moves, Move

(* No handler moves a candidate in any other way. *)
LEMMA StepMoves == ASSUME TypeOK, [Next]_vars PROVE Moves
<1>1. ASSUME NEW p \in Ingesters,
             (\E s \in Signals : IngestStart(p, s)) \/ Lookup(p) \/ Nearby(p)
      PROVE  Moves
  BY <1>1, StillMoves DEF IngestStart, Lookup, Nearby, candVars, txVars
<1>2. ASSUME NEW p \in Ingesters, Insert(p) PROVE Moves
  <2>1. sig[p] \in Signals
    BY <1>2 DEF Insert, TypeOK, ProcTypes, Working, Procs
  <2>2. CASE status[sig[p]] # "none"
    BY <1>2, <2>2, StillMoves DEF Insert, txVars
  <2>3. CASE status[sig[p]] = "none"
    BY <1>2, <2>1, <2>3 DEF Insert, TypeOK, DataTypes, Moves, Move, txVars
  <2> QED BY <2>2, <2>3
<1>3. ASSUME NEW p \in Reviewers, NEW s \in Signals, Accept(p, s) PROVE Moves
  <2>1. CASE Acceptable(s) /\ Post(s)
    BY <2>1, PostMoves DEF Acceptable
  <2>2. CASE UNCHANGED <<status, txVars>>
    BY <2>2, StillMoves DEF txVars
  <2> QED BY <1>3, <2>1, <2>2 DEF Accept
<1>4. ASSUME NEW p \in Reviewers,
             RecordRead(p) \/ RecordWrite(p) \/ Reprocess(p) \/ AccountCreated(p)
      PROVE  Moves
  BY <1>4, StillMoves DEF RecordRead, RecordWrite, Reprocess, AccountCreated, candVars, txVars
<1>5. ASSUME NEW p \in Procs, MarkReview(p) \/ Calibrate(p) \/ Hold(p) \/ Stop(p) PROVE Moves
  BY <1>5, StillMoves DEF MarkReview, Calibrate, Hold, Stop, candVars, txVars
<1>6. ASSUME NEW p \in Procs, Ignore(p) PROVE Moves
  <2>1. sig[p] \in Signals
    BY <1>6 DEF Ignore, TypeOK, ProcTypes, Working
  <2> QED
    BY <1>6, <2>1 DEF Ignore, IgnorePending, TypeOK, DataTypes, Moves, Move, txVars
<1>7. ASSUME NEW p \in Procs, AutoPost(p) PROVE Moves
  <2>1. sig[p] \in Signals
    BY <1>7 DEF AutoPost, TypeOK, ProcTypes, Working
  <2>2. CASE status[sig[p]] = "pending" /\ Post(sig[p])
    BY <2>1, <2>2, PostMoves
  <2>3. CASE UNCHANGED <<status, held, txVars>>
    BY <2>3, StillMoves DEF txVars
  <2> QED BY <1>7, <2>2, <2>3 DEF AutoPost
<1>8. ASSUME NEW s \in Signals, Decline(s) PROVE Moves
  BY <1>8 DEF Decline, TypeOK, DataTypes, Moves, Move, txVars
<1>9. ASSUME NEW s \in Signals, DeleteTransaction(s) PROVE Moves
  BY <1>9, StillMoves DEF DeleteTransaction, candVars
<1>r. CASE Restore
  BY <1>r, StillMoves DEF Restore, candVars
<1>10. CASE CompleteOnboarding
  BY <1>10, StillMoves DEF CompleteOnboarding, candVars, txVars
<1>11. CASE Purge
  BY <1>11 DEF Purge, TypeOK, DataTypes, Moves, Move, txVars
<1>12. CASE UNCHANGED vars
  BY <1>12, StillMoves DEF vars, candVars, txVars
<1> QED
  BY <1>1, <1>2, <1>3, <1>4, <1>5, <1>6, <1>7, <1>8, <1>9, <1>10, <1>11, <1>12, <1>r
  DEF Next, Automate

(* A signal is posted once, when it is accepted, and never otherwise (FR-LED-007). *)
THEOREM PostedOnlyOnce == Spec => []PostedOnce
<1>1. Init => PostedOnce
  BY DEF Init, PostedOnce
<1>2. TypeOK /\ TypeOK' /\ PostedOnce /\ [Next]_vars => PostedOnce'
  <2> SUFFICES ASSUME TypeOK, TypeOK', PostedOnce, [Next]_vars PROVE PostedOnce'
    OBVIOUS
  <2>1. Moves BY StepMoves
  <2>2. \A s \in Signals : posts'[s] = (IF status'[s] = "accepted" THEN 1 ELSE 0)
    <3> TAKE s \in Signals
    <3> QED BY <2>1 DEF Moves, Move, PostedOnce
  <2>3. \A s \in ledger' : status'[s] = "accepted"
    <3> TAKE s \in ledger'
    <3>1. s \in Signals BY DEF TypeOK, DataTypes
    <3> QED BY <2>1, <3>1 DEF Moves, Move, PostedOnce
  <2> QED BY <2>2, <2>3 DEF PostedOnce
<1> QED BY <1>1, <1>2, LedgerTypes, PTL DEF Spec

(* A decision is never overturned, by an automation that read the candidate before or by *)
(* anybody else; retention alone removes it, and never an accepted one.                  *)
THEOREM DecisionsStand == Spec => DecisionStands
<1>1. TypeOK /\ [Next]_vars =>
        [\A s \in Signals : status[s] \in Decided =>
            status'[s] = status[s] \/ (status'[s] = "purged" /\ status[s] # "accepted")]_vars
  BY StepMoves DEF Moves, Move, Decided
<1> QED BY <1>1, LedgerTypes, PTL DEF Spec, DecisionStands

-----------------------------------------------------------------------------
(* Without overlapping ingestions, the signal an ingester is about to insert as pending   *)
(* still has no pending or accepted twin: the lookup it read is not stale.                *)
Alive(s) == status[s] \in {"pending", "accepted"}

Unmatched(s) == \A t \in Signals : <<s, t>> \in Twin => ~Alive(t)

TwinInv ==
  /\ \A s, t \in Signals : <<s, t>> \in Twin /\ s # t => ~(Alive(s) /\ Alive(t))
  /\ \A p \in Ingesters : pc[p] = "insert" /\ saw[p] = NoSignal => Unmatched(sig[p])

\* p moves elsewhere than to its insert, and no other invocation moves
Elsewhere(p) ==
  /\ pc'[p] # "insert"
  /\ \A q \in Procs : q # p => pc'[q] = pc[q] /\ sig'[q] = sig[q] /\ saw'[q] = saw[q]

\* no candidate becomes pending or accepted that was not
NoneArises == \A s \in Signals : status'[s] \in {"pending", "accepted"} => Alive(s)

LEMMA Calm ==
  ASSUME TwinInv, NoneArises, TypeOK,
         \A q \in Ingesters : pc'[q] = "insert" =>
           pc[q] = "insert" /\ sig'[q] = sig[q] /\ saw'[q] = saw[q]
  PROVE  TwinInv'
BY DEF TwinInv, NoneArises, Unmatched, Alive

LEMMA CalmElsewhere ==
  ASSUME TwinInv, NoneArises, TypeOK, NEW p \in Procs, Elsewhere(p)
  PROVE  TwinInv'
<1>1. \A q \in Ingesters : pc'[q] = "insert" =>
        pc[q] = "insert" /\ sig'[q] = sig[q] /\ saw'[q] = saw[q]
  BY DEF Elsewhere, Procs
<1> QED BY <1>1, Calm

LEMMA EndsElsewhere ==
  ASSUME TypeOK, NEW p \in Procs, End(p) \/ Proceed(p) PROVE Elsewhere(p)
BY DEF TypeOK, ProcTypes, End, Proceed, Goto, Elsewhere

(* The lookup: it finds no twin, and then there is none. *)
LEMMA NearbyTwins ==
  ASSUME TypeOK, TwinInv, NEW p \in Ingesters, Nearby(p), \A q \in Ingesters : q = p
  PROVE  TwinInv'
<1> USE LedgerAssumption
<1>p. p \in Procs /\ sig[p] \in Signals /\ saw[p] \in Signals \cup {NoSignal}
  BY DEF Nearby, TypeOK, ProcTypes, Working, Procs
<1>1. status' = status /\ sig' = sig
  BY DEF Nearby, candVars
<1>2. saw'[p] = NoSignal => Unmatched(sig[p])
  <2>1. CASE NearbyMatches(p) = {}
    BY <2>1 DEF NearbyMatches, Live, Unmatched, Alive
  <2>2. CASE NearbyMatches(p) # {}
    <3>1. PICK t \in NearbyMatches(p) : saw' = [saw EXCEPT ![p] = t]
      BY <2>2 DEF Nearby
    <3>2. saw'[p] = t /\ t \in Signals
      BY <3>1, <1>p DEF NearbyMatches, Live, TypeOK, ProcTypes
    <3> QED BY <3>2
  <2> QED BY <2>1, <2>2
<1> QED BY <1>1, <1>2 DEF TwinInv, Unmatched, Alive

(* The insert: what it makes pending has no twin to be posted beside it. *)
LEMMA InsertTwins ==
  ASSUME TypeOK, TwinInv, NEW p \in Ingesters, Insert(p), \A q \in Ingesters : q = p
  PROVE  TwinInv'
<1> USE LedgerAssumption
<1>p. p \in Procs /\ sig[p] \in Signals /\ pc[p] = "insert"
  BY DEF Insert, TypeOK, ProcTypes, Working, Procs
<1>1. CASE status[sig[p]] = "none" /\ saw[p] = NoSignal
  <2>1. status' = [status EXCEPT ![sig[p]] = "pending"] /\ pc'[p] # "insert"
    BY <1>1, <1>p DEF Insert, Goto, TypeOK, ProcTypes
  <2>2. Unmatched(sig[p])
    BY <1>1, <1>p DEF TwinInv
  <2>3. ASSUME NEW s \in Signals, NEW t \in Signals, <<s, t>> \in Twin, s # t,
               status'[s] \in {"pending", "accepted"}, status'[t] \in {"pending", "accepted"}
        PROVE  FALSE
    <3>0. <<t, s>> \in Twin BY <2>3
    <3>1. CASE s = sig[p]
      <4>1. Alive(t) BY <2>1, <2>3, <3>1, <1>p DEF Alive, TypeOK, DataTypes
      <4> QED BY <2>2, <2>3, <3>1, <4>1 DEF Unmatched
    <3>2. CASE t = sig[p]
      <4>1. Alive(s) BY <2>1, <2>3, <3>2, <1>p DEF Alive, TypeOK, DataTypes
      <4> QED BY <2>2, <3>0, <3>2, <4>1 DEF Unmatched
    <3>3. CASE s # sig[p] /\ t # sig[p]
      <4>1. Alive(s) /\ Alive(t)
        BY <2>1, <2>3, <3>3, <1>p DEF Alive, TypeOK, DataTypes
      <4> QED BY <4>1, <2>3 DEF TwinInv
    <3> QED BY <3>1, <3>2, <3>3
  <2> QED BY <2>1, <2>3 DEF TwinInv, Alive
<1>2. CASE ~(status[sig[p]] = "none" /\ saw[p] = NoSignal)
  <2>1. End(p) BY <1>2 DEF Insert
  <2>2. NoneArises
    BY <1>2, <1>p DEF Insert, NoneArises, Alive, TypeOK, DataTypes
  <2> QED BY <2>1, <2>2, <1>p, EndsElsewhere, CalmElsewhere
<1> QED BY <1>1, <1>2

(* FR-CAN-006, as far as the code can promise it: where one invocation ingests at a time, *)
(* two signals of the same payment are never both posted, whatever reviews, reprocessing, *)
(* purges and crashes happen in between.                                                  *)
THEOREM NoDoublePosting ==
  ASSUME \A p, q \in Ingesters : p = q
  PROVE  Spec => []NoTwinsPosted
<1> USE LedgerAssumption
<1>1. Init => TwinInv
  BY DEF Init, TwinInv, Unmatched, Alive, Procs
<1>2. TypeOK /\ TwinInv /\ [Next]_vars => TwinInv'
  <2> SUFFICES ASSUME TypeOK, TwinInv, [Next]_vars PROVE TwinInv'
    OBVIOUS
  <2>1. ASSUME NEW p \in Ingesters, NEW s \in Signals, IngestStart(p, s) PROVE TwinInv'
    <3>1. p \in Procs BY DEF Procs
    <3>2. Elsewhere(p) BY <2>1, <3>1 DEF IngestStart, Goto, Elsewhere, TypeOK, ProcTypes
    <3>3. NoneArises BY <2>1 DEF IngestStart, NoneArises, Alive, candVars
    <3> QED BY <3>1, <3>2, <3>3, CalmElsewhere
  <2>2. ASSUME NEW p \in Ingesters, Lookup(p) PROVE TwinInv'
    <3>1. p \in Procs BY DEF Procs
    <3>2. Elsewhere(p)
      BY <2>2, <3>1, EndsElsewhere DEF Lookup, Goto, Elsewhere, TypeOK, ProcTypes
    <3>3. NoneArises BY <2>2 DEF Lookup, NoneArises, Alive, candVars
    <3> QED BY <3>1, <3>2, <3>3, CalmElsewhere
  <2>3. ASSUME NEW p \in Ingesters, Nearby(p) PROVE TwinInv'
    BY <2>3, NearbyTwins
  <2>4. ASSUME NEW p \in Ingesters, Insert(p) PROVE TwinInv'
    BY <2>4, InsertTwins
  <2>5. ASSUME NEW p \in Reviewers, NEW s \in Signals, Accept(p, s) PROVE TwinInv'
    <3>1. p \in Procs BY DEF Procs
    <3>2. Elsewhere(p) BY <2>5, <3>1 DEF Accept, Goto, Elsewhere, TypeOK, ProcTypes
    <3>3. NoneArises
      BY <2>5 DEF Accept, Acceptable, Post, NoneArises, Alive, TypeOK, DataTypes, txVars
    <3> QED BY <3>1, <3>2, <3>3, CalmElsewhere
  <2>6. ASSUME NEW p \in Reviewers, RecordRead(p) \/ RecordWrite(p) \/ AccountCreated(p)
        PROVE  TwinInv'
    <3>1. p \in Procs BY DEF Procs
    <3>2. Elsewhere(p)
      BY <2>6, <3>1 DEF RecordRead, RecordWrite, AccountCreated, Goto, Elsewhere, TypeOK, ProcTypes
    <3>3. NoneArises
      BY <2>6 DEF RecordRead, RecordWrite, AccountCreated, NoneArises, Alive, candVars
    <3> QED BY <3>1, <3>2, <3>3, CalmElsewhere
  <2>7. ASSUME NEW p \in Reviewers, Reprocess(p) PROVE TwinInv'
    <3>1. p \in Procs BY DEF Procs
    <3>2. CASE End(p)
      <4>1. NoneArises BY <2>7 DEF Reprocess, NoneArises, Alive, candVars
      <4> QED BY <3>1, <3>2, <4>1, EndsElsewhere, CalmElsewhere
    <3>3. CASE ~End(p)
      <4>1. NoneArises BY <2>7 DEF Reprocess, NoneArises, Alive, candVars
      <4>2. Elsewhere(p)
        BY <2>7, <3>1, <3>3 DEF Reprocess, Goto, Elsewhere, TypeOK, ProcTypes
      <4> QED BY <3>1, <4>1, <4>2, CalmElsewhere
    <3> QED BY <3>2, <3>3
  <2>8. ASSUME NEW p \in Procs, MarkReview(p) \/ Ignore(p) \/ Hold(p) \/ AutoPost(p) \/ Stop(p)
        PROVE  TwinInv'
    <3>1. NoneArises
      BY <2>8 DEF MarkReview, Ignore, IgnorePending, Hold, AutoPost, Stop, Post, NoneArises,
                  Alive, TypeOK, DataTypes, candVars, txVars
    <3>2. End(p) \/ Proceed(p)
      BY <2>8 DEF MarkReview, Ignore, Hold, AutoPost, Stop
    <3> QED BY <3>1, <3>2, EndsElsewhere, CalmElsewhere
  <2>9. ASSUME NEW p \in Procs, Calibrate(p) PROVE TwinInv'
    <3>1. NoneArises BY <2>9 DEF Calibrate, NoneArises, Alive, candVars
    <3>2. Elsewhere(p) BY <2>9 DEF Calibrate, Goto, Elsewhere, TypeOK, ProcTypes
    <3> QED BY <3>1, <3>2, CalmElsewhere
  <2>10. CASE \/ \E s \in Signals : Decline(s) \/ DeleteTransaction(s)
              \/ Restore \/ CompleteOnboarding
              \/ Purge
              \/ UNCHANGED vars
    <3>1. UNCHANGED procVars
      BY <2>10 DEF Decline, DeleteTransaction, Restore, CompleteOnboarding, Purge, vars
    <3>2. NoneArises
      BY <2>10 DEF Decline, DeleteTransaction, Restore, CompleteOnboarding, Purge, vars, candVars,
                   NoneArises, Alive, TypeOK, DataTypes
    <3> QED BY <3>1, <3>2, Calm DEF procVars
  <2> QED
    BY <2>1, <2>2, <2>3, <2>4, <2>5, <2>6, <2>7, <2>8, <2>9, <2>10 DEF Next, Automate
<1>3. TwinInv => NoTwinsPosted
  BY DEF TwinInv, NoTwinsPosted, Alive
<1> QED BY <1>1, <1>2, <1>3, LedgerTypes, PTL DEF Spec
=============================================================================
