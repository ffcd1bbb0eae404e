----------------------------- MODULE MailProofs -----------------------------
(***************************************************************************)
(* Proofs about MailQueue and MailSync, for any number of connections,     *)
(* rows, tokens, messages and invocations: first the queue by itself; then *)
(* the pipeline, every step of which is a step of the queue, so what was   *)
(* proved of the queue holds of the pipeline, and no sync pass commits a   *)
(* cursor beyond a message it still had to read.                           *)
(***************************************************************************)
EXTENDS MailSync, TLAPS

(***************************************************************************)
(* The queue.                                                              *)
(***************************************************************************)
\* A claim gives every row of S a token that no row and no claim carries, and no two rows
\* the same.
LEMMA FreshTokensAreNew ==
  ASSUME NEW S, FreshAssignments(S) # {},
         NEW f, f = CHOOSE g \in FreshAssignments(S) : TRUE
  PROVE  /\ f \in [S -> Tokens]
         /\ \A j \in S : \A p \in Syncers : \A cl \in claims[p] : cl.tok # f[j]
         /\ \A j, k \in S : f[j] = f[k] => j = k
  <1>1. f \in FreshAssignments(S)
    OBVIOUS
  <1>2. FreshTokens \subseteq Tokens
    BY DEF FreshTokens
  <1>3. f \in [S -> FreshTokens]
    BY <1>1 DEF FreshAssignments
  <1>4. \A j, k \in S : f[j] = f[k] => j = k
    BY <1>1 DEF FreshAssignments
  <1>5. \A j \in S : \A p \in Syncers : \A cl \in claims[p] : cl.tok # f[j]
    BY <1>3 DEF FreshTokens
  <1> QED
    BY <1>2, <1>3, <1>4, <1>5

-----------------------------------------------------------------------------
(* Every step of the queue is one of five kinds. *)

\* the rows S go to p, which holds no claim, as WorkerClaim and UserClaim do
SomeClaim(p, S) == claims[p] = {} /\ S \subseteq ClaimableJobs /\ ClaimJobs(p, S)

LEMMA StepKinds ==
  ASSUME QNext
  PROVE  \/ \E c \in Conns : Enqueue(c) \/ DropConn(c)
         \/ \E p \in Syncers : \E S \in SUBSET Jobs : SomeClaim(p, S)
         \/ \E p \in Syncers : \E cl \in claims[p], s \in {"succeeded", "failed"} :
              FinishJob(p, cl, s)
         \/ \E p \in Syncers : Stop(p)
         \/ \E j \in Jobs : ExpireJob(j)
  <1>1. ASSUME NEW p \in Workers, WorkerClaim(p)
        PROVE  \E S \in SUBSET Jobs : SomeClaim(p, S)
    BY <1>1 DEF WorkerClaim, SomeClaim, ClaimableJobs
  <1>2. ASSUME NEW p \in Users, NEW c \in Conns, UserClaim(p, c)
        PROVE  \E S \in SUBSET Jobs : SomeClaim(p, S)
    <2>1. PICK j \in ClaimableJobs : jobs[j].conn = c /\ ClaimJobs(p, {j})
      BY <1>2 DEF UserClaim
    <2>2. SomeClaim(p, {j}) /\ {j} \in SUBSET Jobs
      BY <1>2, <2>1 DEF SomeClaim, UserClaim, ClaimableJobs
    <2> QED
      BY <2>2
  <1> QED
    BY <1>1, <1>2 DEF QNext, Syncers

-----------------------------------------------------------------------------
(* Types. *)

LEMMA ClaimTypes ==
  ASSUME QTypeOK, NEW p \in Syncers, NEW S \in SUBSET Jobs, SomeClaim(p, S)
  PROVE  QTypeOK'
  <1> DEFINE f == CHOOSE f \in FreshAssignments(S) : TRUE
  <1>1. /\ FreshAssignments(S) # {}
        /\ jobs' = [j \in Jobs |-> IF j \in S THEN ClaimedRow(j, f[j]) ELSE jobs[j]]
        /\ claims' = [claims EXCEPT ![p] =
                        {[job |-> j, conn |-> jobs[j].conn, tok |-> f[j]] : j \in S}]
        /\ UNCHANGED <<gone, faults>>
    BY DEF SomeClaim, ClaimJobs
  <1>2. f \in [S -> Tokens]
    BY <1>1, FreshTokensAreNew
  <1> HIDE DEF f
  <1>3. \A j \in S : Active(j) /\ jobs[j].conn \in Conns
    BY DEF SomeClaim, ClaimableJobs, Claimable, QTypeOK, Active, Shaped
  <1>4. \A j \in S : ClaimedRow(j, f[j]) \in Row /\ Shaped(ClaimedRow(j, f[j]))
    BY <1>2, <1>3 DEF ClaimedRow, Row, Shaped
  <1>5. jobs' \in [Jobs -> Row] /\ \A j \in Jobs : Shaped(jobs'[j])
    BY <1>1, <1>4 DEF QTypeOK
  <1>6. \A j \in S : [job |-> j, conn |-> jobs[j].conn, tok |-> f[j]] \in Claim
    BY <1>2, <1>3 DEF Claim
  <1>7. claims' \in [Syncers -> SUBSET Claim]
    BY <1>1, <1>6 DEF QTypeOK
  <1>8. gone' \subseteq Conns /\ faults' \in 0..MaxFaults
    BY <1>1 DEF QTypeOK
  <1> QED
    BY <1>5, <1>7, <1>8 DEF QTypeOK, Shaped

\* One row changes; the other variables keep their types.
LEMMA OneRowTypes ==
  ASSUME QTypeOK, NEW j \in Jobs, NEW row \in Row, Shaped(row),
         jobs' = [jobs EXCEPT ![j] = row],
         claims' \in [Syncers -> SUBSET Claim], gone' = gone, faults' \in 0..MaxFaults
  PROVE  QTypeOK'
  BY DEF QTypeOK, Shaped

LEMMA TypesInit == QInit => QTypeOK
  <1> SUFFICES ASSUME QInit PROVE QTypeOK
    OBVIOUS
  <1>1. FreeRow \in Row /\ Shaped(FreeRow)
    BY QueueAssumption DEF FreeRow, Row, Shaped
  <1>2. \A c \in Conns :
          LET row == [conn |-> c, status |-> "running", tok |-> NoTok, lease |-> "none"]
          IN  row \in Row /\ Shaped(row)
    BY DEF Row, Shaped
  <1>3. jobs \in [Jobs -> Row] /\ \A j \in Jobs : Shaped(jobs[j])
    BY <1>1, <1>2 DEF QInit
  <1> QED
    BY <1>3, QueueAssumption DEF QInit, QTypeOK

LEMMA TypesNext == QTypeOK /\ [QNext]_qvars => QTypeOK'
  <1> SUFFICES ASSUME QTypeOK, [QNext]_qvars PROVE QTypeOK'
    OBVIOUS
  <1>1. ASSUME NEW c \in Conns, Enqueue(c) PROVE QTypeOK'
    <2>1. CASE jobs' = jobs
      BY <1>1, <2>1 DEF Enqueue, QTypeOK
    <2>2. CASE \E j \in Jobs : jobs' = [jobs EXCEPT ![j] = QueuedRow(c)]
      <3>1. QueuedRow(c) \in Row /\ Shaped(QueuedRow(c))
        BY DEF QueuedRow, Row, Shaped
      <3>2. claims' = claims /\ gone' = gone /\ faults' = faults
        BY <1>1 DEF Enqueue
      <3> QED
        BY <2>2, <3>1, <3>2, OneRowTypes DEF QTypeOK
    <2> QED
      BY <1>1, <2>1, <2>2 DEF Enqueue
  <1>2. ASSUME NEW c \in Conns, DropConn(c) PROVE QTypeOK'
    <2>1. FreeRow \in Row /\ Shaped(FreeRow)
      BY QueueAssumption DEF FreeRow, Row, Shaped
    <2> QED
      BY <1>2, <2>1 DEF DropConn, QTypeOK
  <1>3. ASSUME NEW p \in Syncers, NEW S \in SUBSET Jobs, SomeClaim(p, S) PROVE QTypeOK'
    BY <1>3, ClaimTypes
  <1>4. ASSUME NEW p \in Syncers, NEW cl \in claims[p], NEW s \in {"succeeded", "failed"},
               FinishJob(p, cl, s)
        PROVE  QTypeOK'
    <2>1. claims' \in [Syncers -> SUBSET Claim] /\ gone' = gone /\ faults' = faults
      BY <1>4 DEF FinishJob, QTypeOK
    <2>2. CASE jobs' = jobs
      BY <2>1, <2>2 DEF QTypeOK
    <2>3. CASE Owns(cl) /\ jobs' = [jobs EXCEPT ![cl.job] = DoneRow(cl.job, s)]
      <3>1. cl.job \in Jobs
        BY DEF QTypeOK, Claim
      <3>2. jobs[cl.job].conn \in Conns
        BY <2>3, <3>1 DEF Owns, QTypeOK, Shaped
      <3>3. DoneRow(cl.job, s) \in Row /\ Shaped(DoneRow(cl.job, s))
        BY <3>2 DEF DoneRow, Row, Shaped
      <3> QED
        BY <2>1, <2>3, <3>1, <3>3, OneRowTypes DEF QTypeOK
    <2> QED
      BY <1>4, <2>2, <2>3 DEF FinishJob
  <1>5. ASSUME NEW p \in Syncers, Stop(p) PROVE QTypeOK'
    BY <1>5, QueueAssumption DEF Stop, Fault, QTypeOK
  <1>6. ASSUME NEW j \in Jobs, ExpireJob(j) PROVE QTypeOK'
    <2>1. faults' \in 0..MaxFaults
      BY <1>6, QueueAssumption DEF ExpireJob, Fault, QTypeOK
    <2>2. jobs[j] \in Row /\ Shaped(jobs[j]) /\ jobs[j].status = "running"
      BY <1>6 DEF ExpireJob, QTypeOK
    <2>3. ExpiredRow(j) \in Row /\ Shaped(ExpiredRow(j))
      BY <2>2 DEF ExpiredRow, Row, Shaped
    <2> QED
      BY <1>6, <2>1, <2>3, OneRowTypes DEF ExpireJob, QTypeOK
  <1>7. CASE UNCHANGED qvars
    BY <1>7 DEF qvars, QTypeOK
  <1> QED
    BY <1>1, <1>2, <1>3, <1>4, <1>5, <1>6, <1>7, StepKinds

\* Rows and claims keep their types and rows their shape.
THEOREM Types == QSpec => []QTypeOK
  BY TypesInit, TypesNext, PTL DEF QSpec

-----------------------------------------------------------------------------
(* What a step does to the rows, for the invariants below. *)

\* A claim turns claimable rows into running rows of the same connection.
LEMMA ClaimedRows ==
  ASSUME QTypeOK, NEW p \in Syncers, NEW S \in SUBSET Jobs, SomeClaim(p, S)
  PROVE  /\ \A j \in Jobs : jobs'[j].conn = jobs[j].conn
         /\ \A j \in Jobs : jobs'[j].status \in {"queued", "running"} <=> Active(j)
         /\ gone' = gone
  <1> DEFINE f == CHOOSE f \in FreshAssignments(S) : TRUE
  <1>1. /\ jobs' = [j \in Jobs |-> IF j \in S THEN ClaimedRow(j, f[j]) ELSE jobs[j]]
        /\ gone' = gone
    BY DEF SomeClaim, ClaimJobs
  <1> HIDE DEF f
  <1>2. \A j \in S : Active(j)
    BY DEF SomeClaim, ClaimableJobs, Claimable, Active
  <1>3. \A j \in Jobs : /\ jobs'[j].conn = jobs[j].conn
                        /\ jobs'[j].status \in {"queued", "running"} <=> Active(j)
    BY <1>1, <1>2 DEF ClaimedRow, Active
  <1> QED
    BY <1>1, <1>3

\* Finishing a job frees at most its connection and disturbs no other.
LEMMA FinishedRows ==
  ASSUME QTypeOK, NEW p \in Syncers, NEW cl \in claims[p], NEW s \in {"succeeded", "failed"},
         FinishJob(p, cl, s)
  PROVE  /\ \A j \in Jobs : jobs'[j].conn = jobs[j].conn
         /\ \A j \in Jobs : jobs'[j].status \in {"queued", "running"} => Active(j)
         /\ gone' = gone
  <1>1. jobs' = jobs \/ jobs' = [jobs EXCEPT ![cl.job] = DoneRow(cl.job, s)]
    BY DEF FinishJob
  <1>2. cl.job \in Jobs /\ jobs \in [Jobs -> Row]
    BY DEF QTypeOK, Claim
  <1>3. \A j \in Jobs : /\ jobs'[j].conn = jobs[j].conn
                        /\ jobs'[j].status \in {"queued", "running"} => Active(j)
    BY <1>1, <1>2 DEF DoneRow, Active
  <1> QED
    BY <1>3 DEF FinishJob

-----------------------------------------------------------------------------
(* At most one active job for each connection. *)

THEOREM ActiveJobIsUnique == QSpec => []OneActiveJob
  <1>1. ASSUME QInit PROVE OneActiveJob
    <2>1. CASE jobs = [j \in Jobs |-> FreeRow]
      BY <2>1 DEF OneActiveJob, Active, FreeRow
    <2>2. CASE \E j \in Jobs, c \in Conns :
                 jobs = [[k \in Jobs |-> FreeRow] EXCEPT
                           ![j] = [conn |-> c, status |-> "running", tok |-> NoTok, lease |-> "none"]]
      BY <2>2 DEF OneActiveJob, Active, FreeRow
    <2> QED
      BY <1>1, <2>1, <2>2 DEF QInit
  <1>2. ASSUME QTypeOK, OneActiveJob, [QNext]_qvars PROVE OneActiveJob'
    <2> USE <1>2
    <2>1. ASSUME NEW c \in Conns, Enqueue(c) PROVE OneActiveJob'
      <3>1. CASE jobs' = jobs
        BY <3>1 DEF OneActiveJob, Active
      <3>2. CASE /\ ActiveJobs(c) = {}
                 /\ \E j \in Jobs : jobs' = [jobs EXCEPT ![j] = QueuedRow(c)]
        <4>1. PICK j \in Jobs : jobs' = [jobs EXCEPT ![j] = QueuedRow(c)]
          BY <3>2
        <4>2. jobs'[j].conn = c /\ \A k \in Jobs \ {j} : jobs'[k] = jobs[k]
          BY <4>1 DEF QTypeOK, QueuedRow
        <4>3. \A k \in Jobs : jobs[k].conn = c => ~Active(k)
          BY <3>2 DEF ActiveJobs
        <4> QED
          BY <4>2, <4>3 DEF OneActiveJob, Active
      <3> QED
        BY <2>1, <3>1, <3>2 DEF Enqueue
    <2>2. ASSUME NEW c \in Conns, DropConn(c) PROVE OneActiveJob'
      <3>1. \A j \in Jobs : jobs'[j] = IF jobs[j].conn = c THEN FreeRow ELSE jobs[j]
        BY <2>2 DEF DropConn
      <3>2. FreeRow.status = "free"
        BY DEF FreeRow
      <3> QED
        BY <3>1, <3>2 DEF OneActiveJob, Active
    <2>3. ASSUME NEW p \in Syncers, NEW S \in SUBSET Jobs, SomeClaim(p, S) PROVE OneActiveJob'
      BY <2>3, ClaimedRows DEF OneActiveJob, Active
    <2>4. ASSUME NEW p \in Syncers, NEW cl \in claims[p], NEW s \in {"succeeded", "failed"},
                 FinishJob(p, cl, s)
          PROVE  OneActiveJob'
      BY <2>4, FinishedRows DEF OneActiveJob, Active
    <2>5. ASSUME NEW p \in Syncers, Stop(p) PROVE OneActiveJob'
      BY <2>5 DEF Stop, OneActiveJob, Active
    <2>6. ASSUME NEW j \in Jobs, ExpireJob(j) PROVE OneActiveJob'
      <3>1. \A k \in Jobs : jobs'[k].conn = jobs[k].conn /\ jobs'[k].status = jobs[k].status
        BY <2>6 DEF ExpireJob, ExpiredRow, QTypeOK
      <3> QED
        BY <3>1 DEF OneActiveJob, Active
    <2>7. CASE UNCHANGED qvars
      BY <2>7 DEF qvars, OneActiveJob, Active
    <2> QED
      BY <2>1, <2>2, <2>3, <2>4, <2>5, <2>6, <2>7, StepKinds
  <1> QED
    BY <1>1, <1>2, Types, PTL DEF QSpec

-----------------------------------------------------------------------------
(* Exclusive ownership.  LeaseExclusive is not inductive as it stands: that two *)
(* invocations do not own a row now says nothing of the token the row gets next. *)
(* What is inductive is that no two claims anywhere carry the same token.        *)

ClaimTokensDiffer ==
  \A p, q \in Syncers : \A a \in claims[p], b \in claims[q] : a.tok = b.tok => p = q /\ a = b

LEMMA DifferentTokensExclude ==
  ASSUME ClaimTokensDiffer PROVE LeaseExclusive
  BY DEF ClaimTokensDiffer, LeaseExclusive, Holds, Owns

LEMMA ClaimTokensStayDifferent ==
  ASSUME QTypeOK, ClaimTokensDiffer, [QNext]_qvars PROVE ClaimTokensDiffer'
  <1>1. ASSUME \A p \in Syncers : claims'[p] \subseteq claims[p] PROVE ClaimTokensDiffer'
    BY <1>1 DEF ClaimTokensDiffer
  <1>2. ASSUME NEW p \in Syncers, NEW S \in SUBSET Jobs, SomeClaim(p, S)
        PROVE  ClaimTokensDiffer'
    <2> DEFINE f == CHOOSE f \in FreshAssignments(S) : TRUE
               new == {[job |-> j, conn |-> jobs[j].conn, tok |-> f[j]] : j \in S}
    <2>1. FreshAssignments(S) # {} /\ claims' = [claims EXCEPT ![p] = new]
      BY <1>2 DEF SomeClaim, ClaimJobs
    <2>2. /\ \A j \in S : \A q \in Syncers : \A cl \in claims[q] : cl.tok # f[j]
          /\ \A j, k \in S : f[j] = f[k] => j = k
      BY <2>1, FreshTokensAreNew
    <2> HIDE DEF f
    <2>3. \A a, b \in new : a.tok = b.tok => a = b
      BY <2>2
    <2>4. \A a \in new : \A q \in Syncers : \A b \in claims[q] : a.tok # b.tok
      BY <2>2
    <2>5. claims'[p] = new /\ \A q \in Syncers \ {p} : claims'[q] = claims[q]
      BY <2>1 DEF QTypeOK
    <2> QED
      BY <2>3, <2>4, <2>5 DEF ClaimTokensDiffer
  <1>3. ASSUME NEW c \in Conns, Enqueue(c) \/ DropConn(c) PROVE ClaimTokensDiffer'
    BY <1>1, <1>3 DEF Enqueue, DropConn
  <1>4. ASSUME NEW p \in Syncers, NEW cl \in claims[p], NEW s \in {"succeeded", "failed"},
               FinishJob(p, cl, s)
        PROVE  ClaimTokensDiffer'
    BY <1>1, <1>4 DEF FinishJob, QTypeOK
  <1>5. ASSUME NEW p \in Syncers, Stop(p) PROVE ClaimTokensDiffer'
    BY <1>1, <1>5 DEF Stop, QTypeOK
  <1>6. ASSUME NEW j \in Jobs, ExpireJob(j) PROVE ClaimTokensDiffer'
    BY <1>1, <1>6 DEF ExpireJob
  <1>7. CASE UNCHANGED qvars
    BY <1>1, <1>7 DEF qvars
  <1> QED
    BY <1>2, <1>3, <1>4, <1>5, <1>6, <1>7, StepKinds

\* Two invocations never both own the same running job.
THEOREM OwnersExclude == QSpec => []LeaseExclusive
  <1>1. QInit => ClaimTokensDiffer
    BY DEF QInit, ClaimTokensDiffer
  <1>2. QTypeOK /\ ClaimTokensDiffer /\ [QNext]_qvars => ClaimTokensDiffer'
    BY ClaimTokensStayDifferent
  <1>3. ClaimTokensDiffer => LeaseExclusive
    BY DifferentTokensExclude
  <1> QED
    BY <1>1, <1>2, <1>3, Types, PTL DEF QSpec

-----------------------------------------------------------------------------
(* Deleted connections. *)

THEOREM NoJobAfterDelete == QSpec => []NoJobOfGone
  <1>1. QInit => NoJobOfGone
    BY DEF QInit, NoJobOfGone
  <1>2. ASSUME QTypeOK, NoJobOfGone, [QNext]_qvars PROVE NoJobOfGone'
    <2> USE <1>2
    <2>1. ASSUME NEW c \in Conns, Enqueue(c) PROVE NoJobOfGone'
      <3>1. CASE c \notin gone /\ \E j \in Jobs : jobs' = [jobs EXCEPT ![j] = QueuedRow(c)]
        BY <2>1, <3>1 DEF NoJobOfGone, Enqueue, QueuedRow, QTypeOK
      <3>2. CASE jobs' = jobs
        BY <2>1, <3>2 DEF NoJobOfGone, Enqueue
      <3> QED
        BY <2>1, <3>1, <3>2 DEF Enqueue
    <2>2. ASSUME NEW c \in Conns, DropConn(c) PROVE NoJobOfGone'
      <3>1. \A j \in Jobs : jobs'[j] = IF jobs[j].conn = c THEN FreeRow ELSE jobs[j]
        BY <2>2 DEF DropConn
      <3>2. FreeRow.conn = NoConn /\ NoConn \notin gone /\ NoConn # c
        BY QueueAssumption DEF FreeRow, QTypeOK
      <3> QED
        BY <2>2, <3>1, <3>2 DEF DropConn, NoJobOfGone
    <2>3. ASSUME NEW p \in Syncers, NEW S \in SUBSET Jobs, SomeClaim(p, S) PROVE NoJobOfGone'
      BY <2>3, ClaimedRows DEF NoJobOfGone
    <2>4. ASSUME NEW p \in Syncers, NEW cl \in claims[p], NEW s \in {"succeeded", "failed"},
                 FinishJob(p, cl, s)
          PROVE  NoJobOfGone'
      BY <2>4, FinishedRows DEF NoJobOfGone
    <2>5. ASSUME NEW p \in Syncers, Stop(p) PROVE NoJobOfGone'
      BY <2>5 DEF Stop, NoJobOfGone
    <2>6. ASSUME NEW j \in Jobs, ExpireJob(j) PROVE NoJobOfGone'
      BY <2>6 DEF ExpireJob, ExpiredRow, QTypeOK, NoJobOfGone
    <2>7. CASE UNCHANGED qvars
      BY <2>7 DEF qvars, NoJobOfGone
    <2> QED
      BY <2>1, <2>2, <2>3, <2>4, <2>5, <2>6, <2>7, StepKinds
  <1> QED
    BY <1>1, <1>2, Types, PTL DEF QSpec

-----------------------------------------------------------------------------
(* The refinement.  Each step of the rows and claims is a step of LeaseQueue or *)
(* leaves its three variables alone.  It needs both invariants: with one active *)
(* job for a connection the job is the connection's work, and with one holder   *)
(* of a job the CHOOSE in QueueOwner has nothing to choose.                     *)

QueueInv == QTypeOK /\ OneActiveJob /\ LeaseExclusive

\* what c's work is, once its only active job is known to be j
LEMMA WorkOfOne ==
  ASSUME OneActiveJob, NEW j \in Jobs, Active(j), jobs[j].conn \in Conns
  PROVE  /\ ActiveJobs(jobs[j].conn) = {j}
         /\ QueueWork[jobs[j].conn] = IF jobs[j].status = "queued" THEN "queued" ELSE "owned"
         /\ QueueLease[jobs[j].conn] =
              (jobs[j].status = "running" /\ jobs[j].lease # "expired")
         /\ HoldersOf(jobs[j].conn) = {p \in Syncers : Holds(p, j)}
  <1>1. ActiveJobs(jobs[j].conn) = {j}
    BY DEF OneActiveJob, ActiveJobs
  <1>2. HoldersOf(jobs[j].conn) = {p \in Syncers : Holds(p, j)}
    BY <1>1 DEF HoldersOf
  <1>3. QueueWork[jobs[j].conn] = IF jobs[j].status = "queued" THEN "queued" ELSE "owned"
    BY <1>1 DEF QueueWork
  <1>4. QueueLease[jobs[j].conn] =
          (jobs[j].status = "running" /\ jobs[j].lease # "expired")
    BY <1>1 DEF QueueLease
  <1> QED
    BY <1>1, <1>2, <1>3, <1>4

\* a connection without an active job is idle, unowned and unleased
LEMMA WorkOfNone ==
  ASSUME NEW c \in Conns, ActiveJobs(c) = {}
  PROVE  QueueWork[c] = "idle" /\ QueueOwner[c] = NoConn /\ QueueLease[c] = FALSE
  <1>1. HoldersOf(c) = {}
    BY DEF HoldersOf
  <1>2. QueueWork[c] = "idle"
    BY DEF QueueWork
  <1>3. QueueOwner[c] = NoConn
    BY <1>1 DEF QueueOwner
  <1>4. QueueLease[c] = FALSE
    BY DEF QueueLease
  <1> QED
    BY <1>2, <1>3, <1>4

\* the holder of a connection's job is its owner, and there is no other owner
LEMMA OwnerIsHolder ==
  ASSUME QueueInv, NEW c \in Conns
  PROVE  /\ \A p \in HoldersOf(c) : QueueOwner[c] = p
         /\ HoldersOf(c) = {} => QueueOwner[c] = NoConn
  <1>1. ASSUME NEW p \in HoldersOf(c) PROVE QueueOwner[c] = p
    <2>1. \A q \in HoldersOf(c) : q = p
      BY DEF QueueInv, HoldersOf, ActiveJobs, OneActiveJob, LeaseExclusive
    <2>2. QueueOwner[c] = CHOOSE q \in HoldersOf(c) : TRUE
      BY <1>1 DEF QueueOwner
    <2> QED
      BY <1>1, <2>1, <2>2
  <1>2. HoldersOf(c) = {} => QueueOwner[c] = NoConn
    BY DEF QueueOwner
  <1> QED
    BY <1>1, <1>2

\* What a step leaves alone: the connection's active jobs, what the mapping reads of
\* their rows, and who holds them.
KeptAt(c) ==
  /\ ActiveJobs(c)' = ActiveJobs(c)
  /\ \A j \in ActiveJobs(c) : jobs'[j] = jobs[j]
  /\ \A j \in ActiveJobs(c), p \in Syncers : Holds(p, j)' <=> Holds(p, j)

LEMMA KeptIsSame ==
  ASSUME NEW c \in Conns, KeptAt(c)
  PROVE  /\ QueueWork'[c] = QueueWork[c]
         /\ QueueOwner'[c] = QueueOwner[c]
         /\ QueueLease'[c] = QueueLease[c]
  <1>1. HoldersOf(c)' = HoldersOf(c)
    BY DEF KeptAt, HoldersOf
  <1>2. QueueOwner'[c] = QueueOwner[c]
    BY <1>1 DEF QueueOwner
  <1>3. QueueWork'[c] = QueueWork[c]
    BY DEF KeptAt, QueueWork
  <1>4. QueueLease'[c] = QueueLease[c]
    BY DEF KeptAt, QueueLease
  <1> QED
    BY <1>2, <1>3, <1>4

\* the mapping's variables are functions over the connections, before a step and after
LEMMA MappedFunctions ==
  /\ QueueWork = [c \in Conns |-> QueueWork[c]] /\ QueueWork' = [c \in Conns |-> QueueWork'[c]]
  /\ QueueOwner = [c \in Conns |-> QueueOwner[c]] /\ QueueOwner' = [c \in Conns |-> QueueOwner'[c]]
  /\ QueueLease = [c \in Conns |-> QueueLease[c]] /\ QueueLease' = [c \in Conns |-> QueueLease'[c]]
  BY DEF QueueWork, QueueOwner, QueueLease

LEMMA SameQueue ==
  ASSUME \A c \in Conns : KeptAt(c) PROVE UNCHANGED Queue!qvars
  <1>1. \A c \in Conns : /\ QueueWork'[c] = QueueWork[c]
                         /\ QueueOwner'[c] = QueueOwner[c]
                         /\ QueueLease'[c] = QueueLease[c]
    BY KeptIsSame
  <1> QED
    BY <1>1, MappedFunctions DEF Queue!qvars

\* a step that changes one connection
LEMMA SetOne ==
  ASSUME NEW c \in Conns, NEW w, NEW o, NEW l,
         QueueWork'[c] = w, QueueOwner'[c] = o, QueueLease'[c] = l,
         \A d \in Conns \ {c} : KeptAt(d)
  PROVE  Queue!Set(c, w, o, l)
  <1>1. \A d \in Conns \ {c} : /\ QueueWork'[d] = QueueWork[d]
                               /\ QueueOwner'[d] = QueueOwner[d]
                               /\ QueueLease'[d] = QueueLease[d]
    BY KeptIsSame
  <1> QED
    BY <1>1, MappedFunctions DEF Queue!Set

LEMMA EnqueueMaps ==
  ASSUME QueueInv, NEW c \in Conns, Enqueue(c) PROVE [Queue!Next]_(Queue!qvars)
  <1>1. CASE jobs' = jobs
    <2>1. \A d \in Conns : KeptAt(d)
      BY <1>1 DEF Enqueue, KeptAt, ActiveJobs, Active, Holds, Owns
    <2> QED
      BY <2>1, SameQueue
  <1>2. CASE /\ ActiveJobs(c) = {}
             /\ \E j \in {k \in Jobs : ~Active(k)} : jobs' = [jobs EXCEPT ![j] = QueuedRow(c)]
    <2>1. PICK j \in Jobs : ~Active(j) /\ jobs' = [jobs EXCEPT ![j] = QueuedRow(c)]
      BY <1>2
    <2>2. /\ jobs'[j].conn = c /\ jobs'[j].status = "queued" /\ jobs'[j].lease = "none"
          /\ \A k \in Jobs \ {j} : jobs'[k] = jobs[k]
          /\ claims' = claims
      BY <2>1 DEF Enqueue, QueueInv, QTypeOK, QueuedRow
    <2>3. ActiveJobs(c)' = {j}
      BY <1>2, <2>2 DEF ActiveJobs, Active
    <2>4. HoldersOf(c)' = {}
      BY <2>2, <2>3 DEF HoldersOf, Holds, Owns
    <2>5. QueueWork'[c] = "queued" /\ QueueLease'[c] = FALSE
      BY <2>2, <2>3 DEF QueueWork, QueueLease
    <2>6. QueueOwner'[c] = NoConn
      BY <2>4 DEF QueueOwner
    <2>7. ASSUME NEW d \in Conns \ {c} PROVE KeptAt(d)
      BY <2>1, <2>2 DEF KeptAt, ActiveJobs, Active, Holds, Owns
    <2>8. Queue!Set(c, "queued", NoConn, FALSE)
      BY <2>5, <2>6, <2>7, SetOne
    <2>9. QueueWork[c] = "idle"
      BY <1>2, WorkOfNone
    <2> QED
      BY <2>8, <2>9 DEF Queue!Next, Queue!Enqueue
  <1> QED
    BY <1>1, <1>2 DEF Enqueue

LEMMA DropMaps ==
  ASSUME QueueInv, NEW c \in Conns, DropConn(c) PROVE [Queue!Next]_(Queue!qvars)
  <1>1. /\ \A j \in Jobs : jobs'[j] = IF jobs[j].conn = c THEN FreeRow ELSE jobs[j]
        /\ claims' = claims
    BY DEF DropConn
  <1>2. FreeRow.status = "free" /\ FreeRow.conn = NoConn /\ NoConn \notin Conns
    BY QueueAssumption DEF FreeRow
  <1>3. ActiveJobs(c)' = {}
    BY <1>1, <1>2 DEF ActiveJobs, Active
  <1>4. HoldersOf(c)' = {}
    BY <1>3 DEF HoldersOf
  <1>5. QueueWork'[c] = "idle" /\ QueueLease'[c] = FALSE /\ QueueOwner'[c] = NoConn
    BY <1>3, <1>4 DEF QueueWork, QueueLease, QueueOwner
  <1>6. ASSUME NEW d \in Conns \ {c} PROVE KeptAt(d)
    BY <1>1, <1>2 DEF KeptAt, ActiveJobs, Active, Holds, Owns
  <1>7. Queue!Set(c, "idle", NoConn, FALSE)
    BY <1>5, <1>6, SetOne
  <1> QED
    BY <1>7 DEF Queue!Next, Queue!Drop

LEMMA ClaimMaps ==
  ASSUME QueueInv, QueueInv', NEW p \in Syncers, NEW S \in SUBSET Jobs,
         SomeClaim(p, S)
  PROVE  [Queue!Next]_(Queue!qvars)
  <1> DEFINE f == CHOOSE f \in FreshAssignments(S) : TRUE
             taken == {jobs[j].conn : j \in S}
  <1>1. /\ jobs' = [j \in Jobs |-> IF j \in S THEN ClaimedRow(j, f[j]) ELSE jobs[j]]
        /\ claims' = [claims EXCEPT ![p] =
                        {[job |-> j, conn |-> jobs[j].conn, tok |-> f[j]] : j \in S}]
        /\ claims[p] = {}
    BY DEF SomeClaim, ClaimJobs
  <1> HIDE DEF f
  <1>2. ASSUME NEW j \in S
        PROVE  /\ Claimable(j) /\ Active(j) /\ jobs[j].conn \in Conns
               /\ jobs'[j].conn = jobs[j].conn /\ jobs'[j].status = "running"
               /\ jobs'[j].lease = "live" /\ Holds(p, j)'
    <2>1. Claimable(j) /\ Active(j) /\ jobs[j].conn \in Conns
      BY DEF SomeClaim, ClaimableJobs, Claimable, QueueInv, QTypeOK, Active, Shaped
    <2>2. jobs'[j] = ClaimedRow(j, f[j])
      BY <1>1
    <2>3. /\ jobs'[j].conn = jobs[j].conn /\ jobs'[j].status = "running"
          /\ jobs'[j].lease = "live" /\ jobs'[j].tok = f[j]
      BY <2>2 DEF ClaimedRow
    <2>4. [job |-> j, conn |-> jobs[j].conn, tok |-> f[j]] \in claims'[p]
      BY <1>1 DEF QueueInv, QTypeOK
    <2>5. Holds(p, j)'
      BY <2>3, <2>4 DEF Holds, Owns
    <2> QED
      BY <2>1, <2>3, <2>5
  <1>3. ASSUME NEW c \in taken
        PROVE  /\ c \in Conns
               /\ QueueWork[c] = "queued" \/ (QueueWork[c] = "owned" /\ ~QueueLease[c])
               /\ QueueWork'[c] = "owned" /\ QueueOwner'[c] = p /\ QueueLease'[c] = TRUE
    <2>1. PICK j \in S : c = jobs[j].conn
      OBVIOUS
    <2>2. QueueWork[c] = "queued" \/ (QueueWork[c] = "owned" /\ ~QueueLease[c])
      BY <1>2, <2>1, WorkOfOne DEF QueueInv, Claimable
    <2>3. ActiveJobs(c)' = {j}
      BY <1>2, <2>1 DEF QueueInv, OneActiveJob, ActiveJobs, Active
    <2>4. QueueWork'[c] = "owned" /\ QueueLease'[c] = TRUE
      BY <1>2, <2>1, <2>3 DEF QueueWork, QueueLease
    <2>5. HoldersOf(c)' = {p}
      BY <1>2, <2>1, <2>3 DEF HoldersOf, QueueInv, LeaseExclusive
    <2>6. QueueOwner'[c] = p
      BY <1>2, <2>1, <2>5 DEF QueueOwner
    <2> QED
      BY <1>2, <2>1, <2>2, <2>4, <2>6
  <1>4. ASSUME NEW d \in Conns \ taken PROVE KeptAt(d)
    <2>1. \A j \in Jobs \ S : jobs'[j] = jobs[j]
      BY <1>1
    <2>2. \A j \in S : jobs[j].conn # d /\ jobs'[j].conn # d
      BY <1>2
    <2>3. ActiveJobs(d)' = ActiveJobs(d) /\ \A j \in ActiveJobs(d) : j \notin S
      BY <2>1, <2>2 DEF ActiveJobs, Active
    <2>4. ASSUME NEW j \in Jobs \ S, NEW q \in Syncers PROVE Holds(q, j)' <=> Holds(q, j)
      <3>1. CASE q = p
        <4>1. \A cl \in claims'[p] : cl.job \in S
          BY <1>1 DEF QueueInv, QTypeOK
        <4> QED
          BY <1>1, <3>1, <4>1 DEF Holds
      <3>2. CASE q # p
        <4>1. claims'[q] = claims[q]
          BY <1>1, <3>2 DEF QueueInv, QTypeOK
        <4> QED
          BY <2>1, <4>1 DEF Holds, Owns
      <3> QED
        BY <3>1, <3>2
    <2> QED
      BY <2>1, <2>3, <2>4 DEF KeptAt, ActiveJobs
  <1>5. \A d \in Conns \ taken : /\ QueueWork'[d] = QueueWork[d]
                                 /\ QueueOwner'[d] = QueueOwner[d]
                                 /\ QueueLease'[d] = QueueLease[d]
    BY <1>4, KeptIsSame
  <1>6. taken \in SUBSET Conns
    BY <1>3
  <1>7. Queue!Take(taken, p)
    <2> HIDE DEF taken
    <2>1. QueueWork' = [c \in Conns |-> IF c \in taken THEN "owned" ELSE QueueWork[c]]
      BY <1>3, <1>5, MappedFunctions
    <2>2. QueueOwner' = [c \in Conns |-> IF c \in taken THEN p ELSE QueueOwner[c]]
      BY <1>3, <1>5, MappedFunctions
    <2>3. QueueLease' = [c \in Conns |-> IF c \in taken THEN TRUE ELSE QueueLease[c]]
      BY <1>3, <1>5, MappedFunctions
    <2> QED
      BY <1>3, <2>1, <2>2, <2>3 DEF Queue!Take
  <1> QED
    BY <1>6, <1>7 DEF Queue!Next

LEMMA FinishMaps ==
  ASSUME QueueInv, NEW p \in Syncers, NEW cl \in claims[p], NEW s \in {"succeeded", "failed"},
         FinishJob(p, cl, s)
  PROVE  [Queue!Next]_(Queue!qvars)
  <1>1. claims'[p] = claims[p] \ {cl} /\ \A q \in Syncers \ {p} : claims'[q] = claims[q]
    BY DEF FinishJob, QueueInv, QTypeOK
  <1>2. CASE ~Owns(cl)
    <2>1. jobs' = jobs
      BY <1>2 DEF FinishJob
    <2>2. \A j \in Jobs, q \in Syncers : Holds(q, j)' <=> Holds(q, j)
      BY <1>1, <1>2, <2>1 DEF Holds, Owns
    <2>3. \A d \in Conns : KeptAt(d)
      BY <2>1, <2>2 DEF KeptAt, ActiveJobs, Active
    <2> QED
      BY <2>3, SameQueue
  <1>3. CASE Owns(cl)
    <2> DEFINE j == cl.job
    <2>0. j \in Jobs /\ jobs[j].status = "running" /\ jobs[j].conn \in Conns /\ Active(j)
      BY <1>3 DEF Owns, QueueInv, QTypeOK, Claim, Shaped, Active
    <2>1. PICK c \in Conns : c = jobs[j].conn
      BY <2>0
    <2>2. /\ jobs'[j] = DoneRow(j, s) /\ jobs'[j].status = s
          /\ \A k \in Jobs \ {j} : jobs'[k] = jobs[k]
      BY <1>3, <2>0 DEF FinishJob, QueueInv, QTypeOK, DoneRow
    <2>3. Holds(p, j)
      BY <1>3 DEF Holds
    <2>4. p \in HoldersOf(c) /\ QueueWork[c] = "owned" /\ ActiveJobs(c) = {j}
      BY <2>0, <2>1, <2>3, WorkOfOne DEF QueueInv
    <2>5. QueueOwner[c] = p
      BY <2>1, <2>4, OwnerIsHolder
    <2>6. ActiveJobs(c)' = {}
      BY <2>2, <2>4 DEF ActiveJobs, Active
    <2>7. HoldersOf(c)' = {}
      BY <2>6 DEF HoldersOf
    <2>8. QueueWork'[c] = "idle" /\ QueueLease'[c] = FALSE /\ QueueOwner'[c] = NoConn
      BY <2>1, <2>6, <2>7 DEF QueueWork, QueueLease, QueueOwner
    <2>9. ASSUME NEW d \in Conns \ {c} PROVE KeptAt(d)
      <3>1. \A k \in Jobs \ {j}, q \in Syncers : Holds(q, k)' <=> Holds(q, k)
        BY <1>1, <2>2 DEF Holds, Owns
      <3>2. j \notin ActiveJobs(d) /\ jobs'[j].status \notin {"queued", "running"}
        BY <2>1, <2>2 DEF ActiveJobs
      <3> QED
        BY <2>2, <3>1, <3>2 DEF KeptAt, ActiveJobs, Active
    <2>10. Queue!Set(c, "idle", NoConn, FALSE)
      BY <2>1, <2>8, <2>9, SetOne
    <2> QED
      BY <2>1, <2>4, <2>5, <2>10 DEF Queue!Next, Queue!Complete
  <1> QED
    BY <1>2, <1>3

LEMMA StopMaps ==
  ASSUME QueueInv, QueueInv', NEW p \in Syncers, Stop(p) PROVE [Queue!Next]_(Queue!qvars)
  <1>1. /\ jobs' = jobs /\ claims'[p] = {}
        /\ \A q \in Syncers \ {p} : claims'[q] = claims[q]
    BY DEF Stop, QueueInv, QTypeOK
  <1>2. QueueWork' = QueueWork /\ QueueLease' = QueueLease
    BY <1>1 DEF QueueWork, QueueLease, ActiveJobs, Active
  <1>3. \A c \in Conns : HoldersOf(c)' = HoldersOf(c) \ {p}
    BY <1>1 DEF HoldersOf, ActiveJobs, Active, Holds, Owns
  <1>4. ASSUME NEW c \in Conns
        PROVE  QueueOwner'[c] = IF QueueOwner[c] = p THEN NoConn ELSE QueueOwner[c]
    <2>1. CASE p \in HoldersOf(c)
      <3>1. QueueOwner[c] = p /\ \A q \in HoldersOf(c) : q = p
        BY <2>1, OwnerIsHolder
      <3>2. HoldersOf(c)' = {}
        BY <1>3, <3>1
      <3>3. QueueOwner'[c] = NoConn
        BY <3>2 DEF QueueOwner
      <3> QED
        BY <3>1, <3>3
    <2>2. CASE p \notin HoldersOf(c)
      <3>1. QueueOwner[c] # p
        <4>1. CASE HoldersOf(c) = {}
          BY <4>1, OwnerIsHolder, QueueAssumption
        <4>2. CASE HoldersOf(c) # {}
          BY <2>2, <4>2, OwnerIsHolder
        <4> QED
          BY <4>1, <4>2
      <3>2. HoldersOf(c)' = HoldersOf(c)
        BY <1>3, <2>2
      <3>3. QueueOwner'[c] = QueueOwner[c]
        BY <3>2 DEF QueueOwner
      <3> QED
        BY <3>1, <3>3
    <2> QED
      BY <2>1, <2>2
  <1>5. QueueOwner' = [c \in Conns |-> IF QueueOwner[c] = p THEN NoConn ELSE QueueOwner[c]]
    BY <1>4, MappedFunctions
  <1>6. Queue!OwnerDies(p)
    BY <1>2, <1>5 DEF Queue!OwnerDies
  <1> QED
    BY <1>6 DEF Queue!Next

LEMMA ExpireMaps ==
  ASSUME QueueInv, NEW j \in Jobs, ExpireJob(j) PROVE [Queue!Next]_(Queue!qvars)
  <1>0. /\ jobs[j].status = "running" /\ jobs[j].lease # "expired"
        /\ Active(j) /\ jobs[j].conn \in Conns /\ claims' = claims
    BY DEF ExpireJob, Active, QueueInv, QTypeOK, Shaped
  <1>1. PICK c \in Conns : c = jobs[j].conn
    BY <1>0
  <1>2. /\ jobs'[j].conn = c /\ jobs'[j].status = "running"
        /\ jobs'[j].lease = "expired" /\ jobs'[j].tok = jobs[j].tok
        /\ \A k \in Jobs \ {j} : jobs'[k] = jobs[k]
    BY <1>1 DEF ExpireJob, ExpiredRow, QueueInv, QTypeOK
  <1>3. QueueWork[c] = "owned" /\ QueueLease[c] = TRUE /\ ActiveJobs(c) = {j}
    BY <1>0, <1>1, WorkOfOne DEF QueueInv
  <1>4. \A k \in Jobs, q \in Syncers : Holds(q, k)' <=> Holds(q, k)
    BY <1>0, <1>1, <1>2 DEF Holds, Owns
  <1>5. \A d \in Conns : ActiveJobs(d)' = ActiveJobs(d)
    BY <1>0, <1>1, <1>2 DEF ActiveJobs, Active
  <1>6. HoldersOf(c)' = HoldersOf(c)
    BY <1>0, <1>1, <1>4, <1>5 DEF HoldersOf, ActiveJobs
  <1>7. QueueOwner'[c] = QueueOwner[c]
    BY <1>6 DEF QueueOwner
  <1>8. QueueWork'[c] = "owned" /\ QueueLease'[c] = FALSE
    BY <1>0, <1>1, <1>2, <1>3, <1>5 DEF QueueWork, QueueLease
  <1>9. ASSUME NEW d \in Conns \ {c} PROVE KeptAt(d)
    <2>1. j \notin ActiveJobs(d)
      BY <1>1 DEF ActiveJobs
    <2> QED
      BY <1>2, <1>4, <1>5, <2>1 DEF KeptAt, ActiveJobs
  <1>10. Queue!Set(c, "owned", QueueOwner[c], FALSE)
    BY <1>0, <1>1, <1>7, <1>8, <1>9, SetOne
  <1> QED
    BY <1>0, <1>1, <1>3, <1>10 DEF Queue!Next, Queue!Expire

\* a row that was running before leases existed counts as leased, and nobody holds it
LEMMA QueueInitMaps ==
  ASSUME QInit, QueueInv PROVE Queue!Init
  <1>1. \A c \in Conns : HoldersOf(c) = {}
    BY DEF QInit, HoldersOf, Holds
  <1>2. \A j \in Jobs : Active(j) => jobs[j].status = "running" /\ jobs[j].lease = "none"
    <2>1. CASE jobs = [j \in Jobs |-> FreeRow]
      BY <2>1 DEF Active, FreeRow
    <2>2. CASE \E j \in Jobs, c \in Conns :
                 jobs = [[k \in Jobs |-> FreeRow] EXCEPT
                           ![j] = [conn |-> c, status |-> "running", tok |-> NoTok, lease |-> "none"]]
      BY <2>2 DEF Active, FreeRow
    <2> QED
      BY <2>1, <2>2 DEF QInit
  <1>3. ASSUME NEW c \in Conns
        PROVE  /\ QueueWork[c] \in {"idle", "owned"} /\ QueueOwner[c] = NoConn
               /\ QueueLease[c] = (QueueWork[c] = "owned")
    <2>1. QueueOwner[c] = NoConn
      BY <1>1 DEF QueueOwner
    <2>2. CASE ActiveJobs(c) = {}
      BY <2>1, <2>2, WorkOfNone
    <2>3. CASE ActiveJobs(c) # {}
      <3>1. PICK j \in Jobs : Active(j) /\ jobs[j].conn = c
        BY <2>3 DEF ActiveJobs
      <3> QED
        BY <1>2, <2>1, <3>1, WorkOfOne DEF QueueInv
    <2> QED
      BY <2>2, <2>3
  <1>4. QueueWork \in [Conns -> {"idle", "owned"}]
    BY <1>3, MappedFunctions
  <1>5. QueueOwner = [c \in Conns |-> NoConn]
    BY <1>3, MappedFunctions
  <1>6. QueueLease = [c \in Conns |-> QueueWork[c] = "owned"]
    BY <1>3, MappedFunctions
  <1> QED
    BY <1>4, <1>5, <1>6 DEF Queue!Init

LEMMA QueueStepMaps ==
  ASSUME QueueInv, QueueInv', [QNext]_qvars PROVE [Queue!Next]_(Queue!qvars)
  <1>1. CASE UNCHANGED qvars
    <2>1. \A d \in Conns : KeptAt(d)
      BY <1>1 DEF qvars, KeptAt, ActiveJobs, Active, Holds, Owns
    <2> QED
      BY <2>1, SameQueue
  <1>2. CASE QNext
    BY <1>2, StepKinds, EnqueueMaps, DropMaps, ClaimMaps, FinishMaps, StopMaps, ExpireMaps
       DEF QueueInv
  <1> QED
    BY <1>1, <1>2

\* The queue keeps LeaseQueue's promise: a live lease is never taken over, a job that was
\* taken over is completed by its new owner only, and finished work does not come back.
THEOREM QueueKeepsPromise == QSpec => LeasePromise
  <1>1. QInit /\ QueueInv => Queue!Init
    BY QueueInitMaps
  <1>2. QueueInv /\ QueueInv' /\ [QNext]_qvars => [Queue!Next]_(Queue!qvars)
    BY QueueStepMaps
  <1>3. QSpec => []QueueInv
    <2>1. QTypeOK /\ OneActiveJob /\ LeaseExclusive => QueueInv
      BY DEF QueueInv
    <2> QED
      BY <2>1, Types, ActiveJobIsUnique, OwnersExclude, PTL
  <1> QED
    BY <1>1, <1>2, <1>3, PTL DEF QSpec, LeasePromise, Queue!Spec

(***************************************************************************)
(* The pipeline.                                                           *)
(***************************************************************************)
\* Every step of the pipeline is a step of the queue, or leaves the queue alone.
LEMMA QueueStep ==
  ASSUME ProcTypes, [Next]_vars
  PROVE  [QNext]_qvars
  <1>1. ASSUME NEW p \in Workers, WorkerStart(p) \/ WorkerLoad(p) PROVE [QNext]_qvars
    BY <1>1 DEF WorkerStart, WorkerLoad, QNext
  <1>2. ASSUME NEW p \in Users, UserStep(p) PROVE [QNext]_qvars
    <2>1. p \in Procs
      BY DEF Procs, Syncers
    <2>2. CASE ManualEnqueue(p) \/ NotifyEnqueue(p)
      <3>1. at[p] \in Conns /\ Enqueue(at[p])
        BY <2>1, <2>2 DEF ManualEnqueue, NotifyEnqueue, ProcTypes
      <3> QED
        BY <3>1 DEF QNext
    <2>3. CASE ManualClaim(p)
      <3>1. at[p] \in Conns
        BY <2>1, <2>3 DEF ManualClaim, ProcTypes
      <3> QED
        BY <2>3, <3>1 DEF ManualClaim, QNext
    <2>4. CASE \/ \E c \in Conns : ManualStart(p, c) \/ CallbackProfile(p, c) \/ PushReceived(p, c)
               \/ CallbackUpsert(p)
      BY <2>4 DEF ManualStart, CallbackProfile, PushReceived, CallbackUpsert
    <2> QED
      BY <1>2, <2>2, <2>3, <2>4 DEF UserStep
  <1>3. ASSUME NEW p \in Procs, WatchStep(p) PROVE [QNext]_qvars
    BY <1>3 DEF WatchStep, WatchCall, WatchWrite, WatchFails
  <1>4. ASSUME NEW p \in Syncers, SyncStep(p) PROVE [QNext]_qvars
    <2>1. CASE Finish(p)
      BY <2>1 DEF Finish, QNext
    <2>2. CASE FetchHistory(p) \/ FetchList(p) \/ Ingest(p) \/ CommitCursor(p) \/ SyncFails(p)
      BY <2>2 DEF FetchHistory, FetchList, Ingest, CommitCursor, SyncFails
    <2> QED
      BY <1>4, <2>1, <2>2 DEF SyncStep
  <1>5. ASSUME NEW p \in Renewers, RenewStep(p) PROVE [QNext]_qvars
    BY <1>3, <1>5 DEF RenewStep, RenewClaim, RenewLoad, Release, Procs
  <1>6. ASSUME NEW c \in Conns, ConnStep(c) PROVE [QNext]_qvars
    <2>1. CASE Disconnect(c)
      BY <2>1 DEF Disconnect, QNext
    <2>2. CASE Deliver(c) \/ Relabel(c) \/ PushIgnored(c) \/ WatchAges(c) \/ ExpireWatchLease(c)
      BY <2>2 DEF Deliver, Relabel, Record, PushIgnored, WatchAges, ExpireWatchLease
    <2> QED
      BY <1>6, <2>1, <2>2 DEF ConnStep
  <1>7. ASSUME NEW j \in Jobs, ExpireJobLease(j) PROVE [QNext]_qvars
    BY <1>7 DEF ExpireJobLease, QNext
  <1>8. ASSUME NEW p \in Procs, Crash(p) PROVE [QNext]_qvars
    BY <1>8 DEF Crash, QNext
  <1>9. CASE UNCHANGED vars
    BY <1>9 DEF vars
  <1> QED
    BY <1>1, <1>2, <1>3, <1>4, <1>5, <1>6, <1>7, <1>8, <1>9 DEF Next, Procs, Syncers

-----------------------------------------------------------------------------
(* Types. *)

RestTypes == ConnTypes /\ WatchTypes /\ MailTypes /\ ProcTypes

\* Where an invocation goes, and what its variables become, in the three ways they change.
LEMMA GotoTypes ==
  ASSUME ProcTypes, NEW p \in Procs, NEW l \in Places, Goto(p, l), UNCHANGED localVars,
         l \in {"idle", "load"} \/ at[p] \in Conns, todo[p] = {} \/ l \in {"ingest", "failed"}
  PROVE  ProcTypes'
  BY DEF ProcTypes, Goto, localVars

LEMMA ForgetTypes ==
  ASSUME ProcTypes, NEW p \in Procs, NEW l \in {"idle", "load"}, Goto(p, l), Forget(p),
         MaxHistory \in Nat
  PROVE  ProcTypes'
  BY DEF ProcTypes, Goto, Forget, Places

LEMMA WorkTypes ==
  ASSUME ProcTypes, NEW p \in Procs, NEW l \in Places, Goto(p, l),
         NEW c \in Conns, at' = [at EXCEPT ![p] = c],
         NEW n \in 0..MaxHistory, newest' = [newest EXCEPT ![p] = n],
         NEW S \in SUBSET Msgs, todo' = [todo EXCEPT ![p] = S],
         S = {} \/ l \in {"ingest", "failed"}
  PROVE  ProcTypes'
  BY DEF ProcTypes, Goto

LEMMA SkipTypes ==
  ASSUME MailTypes, NEW c \in Conns, NEW S \in SUBSET Msgs, NEW why \in Reasons, Skip(c, S, why)
  PROVE  skipped' \in [Conns -> SUBSET (Msgs \X Reasons)]
  BY DEF MailTypes, Skip, Skipped

LEMMA MessageTypes ==
  ASSUME MailTypes, NEW c \in Conns
  PROVE  /\ \A lo, hi : Unread(c, lo, hi) \subseteq Msgs
         /\ \A n : HistoryPage(c, n) \subseteq Msgs
         /\ ListPage(c) \subseteq Msgs
         /\ \A m \in Msgs : mail[c][m] \in 0..MaxHistory
  BY DEF MailTypes, Unread, HistoryPage, ListPage, Arrived

LEMMA RestTypesInit == Init => RestTypes
  BY PipelineAssumption, QueueAssumption
  DEF Init, RestTypes, ConnTypes, WatchTypes, MailTypes, ProcTypes, Places, NoLease

LEMMA SyncTypes ==
  ASSUME QTypeOK, RestTypes, NEW p \in Syncers, SyncStep(p)
  PROVE  RestTypes'
  <1> USE DEF RestTypes
  <1>1. p \in Procs /\ MaxHistory \in Nat
    BY PipelineAssumption DEF Procs
  <1>2. CASE FetchHistory(p)
    <2>1. at[p] \in Conns
      BY <1>1, <1>2 DEF FetchHistory, ProcTypes
    <2> DEFINE c == at[p]
               page == HistoryPage(c, newest[p])
    <2>2. c \in Conns /\ page \in SUBSET Msgs /\ Unread(c, newest[p], head[c]) \ page \in SUBSET Msgs
      BY <2>1, MessageTypes
    <2>3. MailTypes'
      <3>1. skipped' \in [Conns -> SUBSET (Msgs \X Reasons)]
        BY <1>2, <2>1, <2>2, SkipTypes DEF FetchHistory, Reasons
      <3> QED
        BY <1>2, <3>1 DEF FetchHistory, MailTypes
    <2>4. ProcTypes'
      <3>1. head[c] \in 0..MaxHistory
        BY <2>1 DEF MailTypes
      <3>2. /\ at' = [at EXCEPT ![p] = c] /\ newest' = [newest EXCEPT ![p] = head[c]]
            /\ todo' = [todo EXCEPT ![p] = page] /\ Goto(p, "ingest")
        BY <1>2 DEF FetchHistory, ProcTypes
      <3> HIDE DEF c, page
      <3> QED
        BY <1>1, <2>1, <2>2, <3>1, <3>2, WorkTypes DEF Places
    <2> QED
      BY <1>2, <2>3, <2>4 DEF FetchHistory, ConnTypes, WatchTypes, connVars, watchVars
  <1>3. CASE FetchList(p)
    <2>1. at[p] \in Conns
      BY <1>1, <1>3 DEF FetchList, ProcTypes
    <2> DEFINE c == at[p]
               page == ListPage(c)
    <2>2. c \in Conns /\ page \in SUBSET Msgs /\ Unread(c, 0, head[c]) \ page \in SUBSET Msgs
      BY <2>1, MessageTypes
    <2>3. MailTypes'
      <3>1. skipped' \in [Conns -> SUBSET (Msgs \X Reasons)]
        BY <1>3, <2>1, <2>2, SkipTypes DEF FetchList, Reasons
      <3> QED
        BY <1>3, <3>1 DEF FetchList, MailTypes
    <2>4. ProcTypes'
      <3>1. /\ at' = [at EXCEPT ![p] = c] /\ newest' = [newest EXCEPT ![p] = newest[p]]
            /\ todo' = [todo EXCEPT ![p] = page] /\ Goto(p, "ingest")
        BY <1>3 DEF FetchList, ProcTypes
      <3>2. newest[p] \in 0..MaxHistory
        BY <1>1 DEF ProcTypes
      <3> HIDE DEF c, page
      <3> QED
        BY <1>1, <2>1, <2>2, <3>1, <3>2, WorkTypes DEF Places
    <2> QED
      BY <1>3, <2>3, <2>4 DEF FetchList, ConnTypes, WatchTypes, connVars, watchVars
  <1>4. CASE Ingest(p)
    <2>1. at[p] \in Conns /\ pc[p] = "ingest"
      BY <1>1, <1>4 DEF Ingest, ProcTypes
    <2> DEFINE c == at[p]
    <2>2. PICK m \in todo[p] :
            /\ todo' = [todo EXCEPT ![p] = @ \ {m}]
            /\ processed' = [processed EXCEPT ![c] = @ \cup {m}]
            /\ newest' = [newest EXCEPT ![p] = LargerId(@, mail[c][m])]
            /\ Skip(c, Unread(c, newest[p], mail[c][m]) \ todo[p], "jump")
      BY <1>4 DEF Ingest
    <2>3. m \in Msgs
      BY <1>1 DEF ProcTypes
    <2>4. mail[c][m] \in 0..MaxHistory /\ Unread(c, newest[p], mail[c][m]) \ todo[p] \in SUBSET Msgs
      BY <2>1, <2>3, MessageTypes
    <2>5. MailTypes'
      <3>1. skipped' \in [Conns -> SUBSET (Msgs \X Reasons)]
        BY <2>1, <2>2, <2>4, SkipTypes DEF Reasons
      <3> QED
        BY <1>4, <2>1, <2>2, <2>3, <3>1 DEF Ingest, MailTypes
    <2>6. ProcTypes'
      <3>1. LargerId(newest[p], mail[c][m]) \in 0..MaxHistory
        BY <1>1, <2>4 DEF ProcTypes, LargerId
      <3>2. newest' \in [Procs -> 0..MaxHistory]
        BY <1>1, <2>2, <3>1 DEF ProcTypes
      <3> QED
        BY <1>1, <1>4, <2>1, <2>2, <3>2 DEF Ingest, ProcTypes
    <2> QED
      BY <1>4, <2>5, <2>6 DEF Ingest, ConnTypes, WatchTypes, connVars, watchVars
  <1>5. CASE CommitCursor(p)
    <2>1. at[p] \in Conns /\ todo[p] = {} /\ newest[p] \in 0..MaxHistory
      BY <1>1, <1>5 DEF CommitCursor, PassComplete, ProcTypes
    <2>2. ProcTypes'
      BY <1>1, <1>5, <2>1, GotoTypes DEF CommitCursor, Places
    <2> QED
      BY <1>5, <2>1, <2>2 DEF CommitCursor, ConnTypes, WatchTypes, MailTypes, watchVars, mailVars
  <1>6. CASE SyncFails(p)
    <2>1. at[p] \in Conns
      BY <1>1, <1>6 DEF SyncFails, ProcTypes
    <2>2. ProcTypes'
      BY <1>1, <1>6, <2>1, GotoTypes DEF SyncFails, Places
    <2> QED
      BY <1>6, <2>2 DEF SyncFails, ConnTypes, WatchTypes, MailTypes, connVars, watchVars, mailVars
  <1>7. CASE Finish(p)
    <2>1. ProcTypes'
      BY <1>1, <1>7, ForgetTypes DEF Finish
    <2> QED
      BY <1>7, <2>1 DEF Finish, ConnTypes, WatchTypes, MailTypes, connVars, watchVars, mailVars
  <1> QED
    BY <1>2, <1>3, <1>4, <1>5, <1>6, <1>7 DEF SyncStep

\* an invocation with no messages left takes on the connection c
LEMMA StartTypes ==
  ASSUME ProcTypes, NEW p \in Procs, pc[p] \notin {"ingest", "failed"},
         NEW l \in Places, Goto(p, l), NEW c \in Conns, at' = [at EXCEPT ![p] = c],
         NEW n \in 0..MaxHistory, newest' = [newest EXCEPT ![p] = n], UNCHANGED todo
  PROVE  ProcTypes'
  <1>1. todo' = [todo EXCEPT ![p] = {}]
    BY DEF ProcTypes
  <1> QED
    BY <1>1, WorkTypes

LEMMA UnchangedProcTypes ==
  ASSUME ProcTypes, UNCHANGED <<pc, localVars>> PROVE ProcTypes'
  BY DEF ProcTypes, localVars

LEMMA MoveTypes ==
  ASSUME ConnTypes, MailTypes, NEW c \in Conns, NEW h \in 0..MaxHistory, MoveCursor(c, h)
  PROVE  /\ cursor' \in [Conns -> 0..MaxHistory]
         /\ skipped' \in [Conns -> SUBSET (Msgs \X Reasons)]
  <1>1. Unread(c, cursor[c], h) \in SUBSET Msgs
    BY MessageTypes
  <1>2. skipped' \in [Conns -> SUBSET (Msgs \X Reasons)]
    BY <1>1, SkipTypes DEF MoveCursor, Reasons
  <1> QED
    BY <1>2 DEF MoveCursor, ConnTypes

LEMMA WorkerTypes ==
  ASSUME QTypeOK, RestTypes, NEW p \in Workers, WorkerStart(p) \/ WorkerLoad(p)
  PROVE  RestTypes'
  <1> USE DEF RestTypes
  <1>1. p \in Procs /\ p \in Syncers
    BY DEF Procs, Syncers
  <1>2. CASE WorkerStart(p)
    <2>1. ProcTypes'
      BY <1>1, <1>2, GotoTypes DEF WorkerStart, ProcTypes, Places
    <2> QED
      BY <1>2, <2>1 DEF WorkerStart, ConnTypes, WatchTypes, MailTypes, connVars, watchVars, mailVars
  <1>3. CASE WorkerLoad(p)
    <2>1. PICK cl \in claims[p] :
            /\ at' = [at EXCEPT ![p] = cl.conn]
            /\ newest' = [newest EXCEPT ![p] = cursor[cl.conn]]
            /\ Goto(p, IF ~Exists(cl.conn) THEN "failed"
                       ELSE IF synced[cl.conn] THEN "history" ELSE "backfill")
      BY <1>3 DEF WorkerLoad
    <2>2. cl.conn \in Conns /\ cursor[cl.conn] \in 0..MaxHistory
      BY <1>1 DEF QTypeOK, Claim, ConnTypes
    <2>3. pc[p] = "load" /\ UNCHANGED todo
      BY <1>3 DEF WorkerLoad
    <2>4. ProcTypes'
      BY <1>1, <2>1, <2>2, <2>3, StartTypes DEF Places
    <2> QED
      BY <1>3, <2>4 DEF WorkerLoad, ConnTypes, WatchTypes, MailTypes, connVars, watchVars, mailVars
  <1> QED
    BY <1>2, <1>3

LEMMA UserTypes ==
  ASSUME QTypeOK, RestTypes, NEW p \in Users, UserStep(p)
  PROVE  RestTypes'
  <1> USE DEF RestTypes
  <1>1. p \in Procs /\ MaxHistory \in Nat
    BY PipelineAssumption DEF Procs, Syncers
  <1>2. ASSUME NEW c \in Conns, ManualStart(p, c) PROVE RestTypes'
    <2>1. ProcTypes'
      BY <1>1, <1>2, StartTypes DEF ManualStart, ConnTypes, Places
    <2> QED
      BY <1>2, <2>1 DEF ManualStart, ConnTypes, WatchTypes, MailTypes, connVars, watchVars, mailVars
  <1>3. ASSUME NEW c \in Conns, CallbackProfile(p, c) PROVE RestTypes'
    <2>1. ProcTypes'
      BY <1>1, <1>3, StartTypes DEF CallbackProfile, MailTypes, Places
    <2> QED
      BY <1>3, <2>1
      DEF CallbackProfile, ConnTypes, WatchTypes, MailTypes, connVars, watchVars, mailVars
  <1>4. ASSUME NEW c \in Conns, PushReceived(p, c) PROVE RestTypes'
    <2>1. newest[p] \in 0..MaxHistory /\ newest' = [newest EXCEPT ![p] = newest[p]]
      BY <1>1, <1>4 DEF PushReceived, ProcTypes
    <2>2. ProcTypes'
      BY <1>1, <1>4, <2>1, StartTypes DEF PushReceived, Places
    <2> QED
      BY <1>4, <2>2 DEF PushReceived, ConnTypes, WatchTypes, MailTypes, connVars, watchVars
  <1>5. CASE ManualEnqueue(p)
    <2>1. ProcTypes'
      BY <1>1, <1>5, GotoTypes DEF ManualEnqueue, ProcTypes, Places
    <2> QED
      BY <1>5, <2>1 DEF ManualEnqueue, ConnTypes, WatchTypes, MailTypes, connVars, watchVars, mailVars
  <1>6. CASE ManualClaim(p)
    <2>1. ProcTypes'
      <3>1. CASE Goto(p, "backfill") /\ UNCHANGED localVars
        BY <1>1, <1>6, <3>1, GotoTypes DEF ManualClaim, ProcTypes, Places
      <3>2. CASE Goto(p, "idle") /\ Forget(p)
        BY <1>1, <3>2, ForgetTypes
      <3> QED
        BY <1>6, <3>1, <3>2 DEF ManualClaim
    <2> QED
      BY <1>6, <2>1 DEF ManualClaim, ConnTypes, WatchTypes, MailTypes, connVars, watchVars, mailVars
  <1>7. CASE CallbackUpsert(p)
    <2>1. at[p] \in Conns /\ newest[p] \in 0..MaxHistory /\ pc[p] = "upsert"
      BY <1>1, <1>7 DEF CallbackUpsert, ProcTypes
    <2>2. CASE at[p] \notin gone
      <3>1. ProcTypes'
        BY <1>1, <1>7, <2>1, <2>2, GotoTypes DEF CallbackUpsert, ProcTypes, Places
      <3>2. MoveCursor(at[p], newest[p]) /\ status' = [status EXCEPT ![at[p]] = "active"]
        BY <1>7, <2>2 DEF CallbackUpsert
      <3> QED
        BY <1>7, <2>1, <3>1, <3>2, MoveTypes
        DEF CallbackUpsert, ConnTypes, WatchTypes, MailTypes, watchVars
    <2>3. CASE at[p] \in gone
      <3>1. ProcTypes'
        BY <1>1, <1>7, <2>3, ForgetTypes DEF CallbackUpsert
      <3> QED
        BY <1>7, <2>3, <3>1 DEF CallbackUpsert, ConnTypes, WatchTypes, MailTypes, watchVars
    <2> QED
      BY <2>2, <2>3
  <1>8. CASE NotifyEnqueue(p)
    <2>1. ProcTypes'
      BY <1>1, <1>8, ForgetTypes DEF NotifyEnqueue
    <2> QED
      BY <1>8, <2>1 DEF NotifyEnqueue, ConnTypes, WatchTypes, MailTypes, connVars, watchVars, mailVars
  <1> QED
    BY <1>2, <1>3, <1>4, <1>5, <1>6, <1>7, <1>8 DEF UserStep

LEMMA WatchStepTypes ==
  ASSUME RestTypes, NEW p \in Procs, WatchStep(p)
  PROVE  RestTypes'
  <1> USE DEF RestTypes
  <1>1. at[p] \in Conns /\ newest[p] \in 0..MaxHistory /\ todo[p] = {} /\ MaxHistory \in Nat
    BY PipelineAssumption DEF WatchStep, WatchCall, WatchWrite, WatchFails, ProcTypes
  <1>2. CASE WatchCall(p)
    <2>1. at' = [at EXCEPT ![p] = at[p]] /\ head[at[p]] \in 0..MaxHistory
      BY <1>1, <1>2 DEF WatchCall, ProcTypes, MailTypes
    <2>2. ProcTypes'
      BY <1>1, <1>2, <2>1, StartTypes DEF WatchCall, Places
    <2> QED
      BY <1>2, <2>2 DEF WatchCall, ConnTypes, WatchTypes, MailTypes, connVars, watchVars, mailVars
  <1>3. CASE WatchWrite(p)
    <2>1. ProcTypes'
      <3>1. (IF p \in Renewers THEN "release" ELSE "notify") \in Places
        BY DEF Places
      <3> QED
        BY <1>1, <1>3, <3>1, GotoTypes DEF WatchWrite
    <2>2. CASE Exists(at[p])
      <3>1. /\ MoveCursor(at[p], newest[p])
            /\ watch' = [watch EXCEPT ![at[p]] = "fresh"]
            /\ status' = [status EXCEPT ![at[p]] = "active"]
        BY <1>3, <2>2 DEF WatchWrite
      <3> QED
        BY <1>1, <1>3, <2>1, <3>1, MoveTypes DEF WatchWrite, ConnTypes, WatchTypes, MailTypes, watchVars
    <2>3. CASE ~Exists(at[p])
      BY <1>3, <2>1, <2>3 DEF WatchWrite, ConnTypes, WatchTypes, MailTypes, watchVars
    <2> QED
      BY <2>2, <2>3
  <1>4. CASE WatchFails(p)
    <2>1. ProcTypes'
      <3>1. CASE p \in Renewers
        BY <1>1, <1>4, <3>1, GotoTypes DEF WatchFails, Places
      <3>2. CASE p \notin Renewers
        BY <1>4, <1>1, <3>2, ForgetTypes DEF WatchFails
      <3> QED
        BY <3>1, <3>2
    <2>2. status' \in [Conns -> {"absent", "active", "error"}]
      BY <1>4 DEF WatchFails, ConnTypes
    <2> QED
      BY <1>4, <2>1, <2>2 DEF WatchFails, ConnTypes, WatchTypes, MailTypes, watchVars, mailVars
  <1> QED
    BY <1>2, <1>3, <1>4 DEF WatchStep

LEMMA RenewTypes ==
  ASSUME RestTypes, NEW p \in Renewers, RenewStep(p)
  PROVE  RestTypes'
  <1> USE DEF RestTypes
  <1>1. p \in Procs /\ MaxHistory \in Nat
    BY PipelineAssumption DEF Procs
  <1>2. CASE RenewClaim(p)
    <2> DEFINE S == {c \in Conns : Renewable(c)}
               f == CHOOSE f \in WAssignments(S) : TRUE
    <2>1. /\ pc[p] = "idle" /\ WAssignments(S) # {}
          /\ wlease' = [c \in Conns |-> IF c \in S THEN [tok |-> f[c], live |-> TRUE] ELSE wlease[c]]
          /\ wclaims' = [wclaims EXCEPT ![p] = {[conn |-> c, tok |-> f[c]] : c \in S}]
          /\ Goto(p, "load")
          /\ UNCHANGED <<qvars, connVars, wfaults, mailVars, localVars>>
      BY <1>2 DEF RenewClaim
    <2>2. f \in [S -> Tokens]
      <3>1. f \in WAssignments(S)
        BY <2>1
      <3> QED
        BY <3>1 DEF WAssignments, WFresh
    <2>3. S \subseteq Conns
      OBVIOUS
    <2> HIDE DEF f, S
    <2>4. wlease' \in [Conns -> [tok : Tokens \cup {NoTok}, live : BOOLEAN]]
      BY <2>1, <2>2 DEF WatchTypes
    <2>5. {[conn |-> c, tok |-> f[c]] : c \in S} \in SUBSET WClaim
      BY <2>2, <2>3 DEF WClaim
    <2>6. wclaims' \in [Renewers -> SUBSET WClaim]
      BY <2>1, <2>5 DEF WatchTypes
    <2>7. ProcTypes'
      BY <1>1, <2>1, GotoTypes DEF ProcTypes, Places
    <2> QED
      BY <2>1, <2>4, <2>6, <2>7 DEF ConnTypes, WatchTypes, MailTypes, connVars, mailVars
  <1>3. CASE RenewLoad(p)
    <2>1. PICK cl \in wclaims[p] :
            /\ at' = [at EXCEPT ![p] = cl.conn]
            /\ Goto(p, IF Exists(cl.conn) THEN "watchcall" ELSE "release")
      BY <1>3 DEF RenewLoad
    <2>2. cl.conn \in Conns
      BY DEF WatchTypes, WClaim
    <2>3. newest[p] \in 0..MaxHistory /\ newest' = [newest EXCEPT ![p] = newest[p]]
      BY <1>1, <1>3 DEF RenewLoad, ProcTypes
    <2>4. pc[p] = "load" /\ UNCHANGED todo
      BY <1>3 DEF RenewLoad
    <2>5. ProcTypes'
      BY <1>1, <2>1, <2>2, <2>3, <2>4, StartTypes DEF Places
    <2> QED
      BY <1>3, <2>5 DEF RenewLoad, ConnTypes, WatchTypes, MailTypes, connVars, watchVars, mailVars
  <1>4. CASE WatchStep(p)
    BY <1>1, <1>4, WatchStepTypes
  <1>5. CASE Release(p)
    <2>1. ProcTypes'
      BY <1>1, <1>5, ForgetTypes DEF Release
    <2>2. PICK cl \in wclaims[p] :
            /\ wlease' = IF WOwns(cl) THEN [wlease EXCEPT ![cl.conn] = NoLease] ELSE wlease
            /\ wclaims' = [wclaims EXCEPT ![p] = @ \ {cl}]
      BY <1>5 DEF Release
    <2>3. WatchTypes'
      BY <1>5, <2>2 DEF Release, WatchTypes, NoLease
    <2> QED
      BY <1>5, <2>1, <2>3 DEF Release, ConnTypes, MailTypes, connVars, mailVars
  <1> QED
    BY <1>2, <1>3, <1>4, <1>5 DEF RenewStep

LEMMA ConnStepTypes ==
  ASSUME RestTypes, NEW c \in Conns, ConnStep(c)
  PROVE  RestTypes'
  <1> USE DEF RestTypes
  <1>1. MaxHistory \in Nat
    BY PipelineAssumption
  <1>2. ASSUME NEW m \in Msgs, Record(c, m) PROVE RestTypes'
    <2>1. head[c] + 1 \in 0..MaxHistory
      BY <1>1, <1>2 DEF Record, MailTypes
    <2>2. (push[c] \/ watch[c] \in {"fresh", "due"}) \in BOOLEAN
      OBVIOUS
    <2>3. push' \in [Conns -> BOOLEAN]
      BY <1>2, <2>2 DEF Record, MailTypes
    <2>4. MailTypes'
      BY <1>2, <2>1, <2>3 DEF Record, MailTypes
    <2> QED
      BY <1>2, <2>4, UnchangedProcTypes DEF Record, ConnTypes, WatchTypes, connVars, watchVars
  <1>3. CASE Deliver(c)
    <2>1. head[c] + 1 \in Msgs
      BY <1>1, <1>3 DEF Deliver, Record, MailTypes, Msgs
    <2> QED
      BY <1>2, <1>3, <2>1 DEF Deliver
  <1>4. CASE Relabel(c)
    BY <1>2, <1>4 DEF Relabel, Arrived
  <1>5. CASE PushIgnored(c)
    BY <1>5, UnchangedProcTypes
    DEF PushIgnored, ConnTypes, WatchTypes, MailTypes, connVars, watchVars
  <1>6. CASE WatchAges(c)
    BY <1>6, UnchangedProcTypes
    DEF WatchAges, ConnTypes, WatchTypes, MailTypes, watchVars, mailVars
  <1>7. CASE ExpireWatchLease(c)
    <2>1. wfaults' \in 0..MaxFaults
      BY <1>7, QueueAssumption DEF ExpireWatchLease, WFault, WatchTypes
    <2> QED
      BY <1>7, <2>1, UnchangedProcTypes
      DEF ExpireWatchLease, ConnTypes, WatchTypes, MailTypes, connVars, mailVars
  <1>8. CASE Disconnect(c)
    BY <1>8, UnchangedProcTypes
    DEF Disconnect, ConnTypes, WatchTypes, MailTypes, NoLease, mailVars
  <1> QED
    BY <1>3, <1>4, <1>5, <1>6, <1>7, <1>8 DEF ConnStep

LEMMA CrashTypes ==
  ASSUME RestTypes, NEW p \in Procs, Crash(p)
  PROVE  RestTypes'
  <1> USE DEF RestTypes
  <1>1. MaxHistory \in Nat /\ MaxFaults \in Nat
    BY PipelineAssumption, QueueAssumption
  <1>2. ProcTypes'
    BY <1>1, ForgetTypes DEF Crash
  <1>3. push' \in [Conns -> BOOLEAN]
    BY DEF Crash, MailTypes
  <1>4. WatchTypes'
    BY <1>1 DEF Crash, WFault, WatchTypes
  <1> QED
    BY <1>2, <1>3, <1>4 DEF Crash, ConnTypes, MailTypes, connVars

LEMMA RestTypesNext == QTypeOK /\ RestTypes /\ [Next]_vars => RestTypes'
  <1> SUFFICES ASSUME QTypeOK, RestTypes, [Next]_vars PROVE RestTypes'
    OBVIOUS
  <1>1. ASSUME NEW p \in Users, WatchStep(p) PROVE RestTypes'
    BY <1>1, WatchStepTypes DEF Procs, Syncers
  <1>2. ASSUME NEW j \in Jobs, ExpireJobLease(j) PROVE RestTypes'
    BY <1>2, UnchangedProcTypes
    DEF ExpireJobLease, RestTypes, ConnTypes, WatchTypes, MailTypes, connVars, watchVars, mailVars
  <1>3. CASE UNCHANGED vars
    BY <1>3, UnchangedProcTypes
    DEF vars, RestTypes, ConnTypes, WatchTypes, MailTypes, connVars, watchVars, mailVars
  <1> QED
    BY <1>1, <1>2, <1>3, WorkerTypes, UserTypes, SyncTypes, RenewTypes, ConnStepTypes, CrashTypes
    DEF Next

\* The pipeline keeps its types.
THEOREM PipelineTypes == Spec => []TypeOK
  <1>1. Init => TypeOK
    BY RestTypesInit, TypesInit DEF Init, TypeOK, RestTypes
  <1>2. TypeOK /\ [Next]_vars => TypeOK'
    BY RestTypesNext, QueueStep, TypesNext DEF TypeOK, RestTypes
  <1> QED
    BY <1>1, <1>2, PTL DEF Spec

\* Every behaviour of the pipeline is one of the queue: enqueueing, claiming, finishing,
\* expiry and deletion happen there exactly as the queue promises.
THEOREM PipelineIsAQueue == Spec => QSpec
  <1>1. Init => QInit
    BY DEF Init
  <1>2. TypeOK /\ [Next]_vars => [QNext]_qvars
    BY QueueStep DEF TypeOK
  <1> QED
    BY <1>1, <1>2, PipelineTypes, PTL DEF Spec, QSpec

\* So in the pipeline, too, no job has two owners, no connection two active jobs, and a
\* deleted connection none.
COROLLARY PipelineQueueIsSafe == Spec => [](OneActiveJob /\ LeaseExclusive /\ NoJobOfGone)
  BY PipelineIsAQueue, ActiveJobIsUnique, OwnersExclude, NoJobAfterDelete, PTL

-----------------------------------------------------------------------------
(* No silent skip.  The cursor alone is not enough: a pass commits what it holds *)
(* in newestHistoryId, so the invariant must say the same of every pass under    *)
(* way, its messages still to be read excepted, and that nobody holds an id the  *)
(* mailbox has not reached yet: messages that arrive later lie beyond it.        *)

Settling == {"enqueue", "claim", "history", "backfill", "ingest"}

\* In a mailbox with these messages, what arrived up to hi was read, or skipped, or is in S.
Settled(box, done, sk, hi, S) ==
  \A m \in Msgs : box[m] > 0 /\ m <= hi /\ m \notin done =>
    m \in S \/ \E why \in Reasons : <<m, why>> \in sk

CursorsSettled ==
  \A c \in Conns : Settled(mail[c], processed[c], skipped[c], cursor[c], {})

PassesSettled ==
  \A p \in Procs : pc[p] \in Settling =>
    Settled(mail[at[p]], processed[at[p]], skipped[at[p]], newest[p], todo[p])

IdsReached ==
  /\ \A c \in Conns : cursor[c] <= head[c] /\ \A m \in Msgs : mail[c][m] <= head[c]
  /\ \A p \in Procs : at[p] \in Conns => newest[p] <= head[at[p]]
  /\ \A p \in Procs : pc[p] \in {"idle", "load"} => newest[p] = 0

SkipInv == CursorsSettled /\ PassesSettled /\ IdsReached

LEMMA SettledCursorsSuffice == CursorsSettled => NoSilentSkip
  BY DEF CursorsSettled, NoSilentSkip, Settled, Unread, Arrived, Skipped

\* more read and more skipped keeps what was settled settled
LEMMA SettledStays ==
  ASSUME NEW box, NEW done, NEW done2, NEW sk, NEW sk2, NEW hi, NEW S,
         done \subseteq done2, sk \subseteq sk2, Settled(box, done, sk, hi, S)
  PROVE  Settled(box, done2, sk2, hi, S)
  BY DEF Settled

\* skipping records every message of S, and forgets nothing
LEMMA SkipAdds ==
  ASSUME MailTypes, NEW c \in Conns, NEW S \in SUBSET Msgs, NEW why \in Reasons, Skip(c, S, why)
  PROVE  /\ \A m \in S : \E r \in Reasons : <<m, r>> \in skipped'[c]
         /\ \A d \in Conns : skipped[d] \subseteq skipped'[d]
  <1>1. skipped' = [skipped EXCEPT ![c] = @ \cup ((S \ Skipped(c)) \X {why})]
    BY DEF Skip
  <1>2. skipped'[c] = skipped[c] \cup ((S \ Skipped(c)) \X {why})
    BY <1>1 DEF MailTypes
  <1>3. \A d \in Conns : skipped[d] \subseteq skipped'[d]
    BY <1>1 DEF MailTypes
  <1>4. ASSUME NEW m \in S PROVE \E r \in Reasons : <<m, r>> \in skipped'[c]
    <2>1. CASE m \in Skipped(c)
      BY <1>2, <2>1 DEF Skipped
    <2>2. CASE m \notin Skipped(c)
      <3>1. <<m, why>> \in skipped'[c]
        BY <1>2, <2>2
      <3> QED
        BY <3>1
    <2> QED
      BY <2>1, <2>2
  <1> QED
    BY <1>3, <1>4

\* One invocation steps, the mailboxes do not: what is left to show is about the cursor it
\* may write, and about itself.
LEMMA OneStepSettles ==
  ASSUME TypeOK, SkipInv, NEW p \in Procs, NEW c \in Conns,
         UNCHANGED <<head, mail>>,
         \A d \in Conns : processed[d] \subseteq processed'[d] /\ skipped[d] \subseteq skipped'[d],
         \A d \in Conns \ {c} : cursor'[d] = cursor[d],
         cursor'[c] <= head[c] /\ Settled(mail[c], processed'[c], skipped'[c], cursor'[c], {}),
         \A q \in Procs \ {p} : /\ pc'[q] = pc[q] /\ at'[q] = at[q]
                                /\ newest'[q] = newest[q] /\ todo'[q] = todo[q],
         pc'[p] \in Settling =>
           Settled(mail[at'[p]], processed'[at'[p]], skipped'[at'[p]], newest'[p], todo'[p]),
         at'[p] \in Conns => newest'[p] <= head[at'[p]],
         pc'[p] \in {"idle", "load"} => newest'[p] = 0
  PROVE  SkipInv'
  <1>1. CursorsSettled'
    <2> SUFFICES ASSUME NEW d \in Conns, d # c
                 PROVE  Settled(mail[d], processed'[d], skipped'[d], cursor[d], {})
      BY DEF CursorsSettled
    <2> QED
      BY SettledStays DEF SkipInv, CursorsSettled
  <1>2. PassesSettled'
    <2> SUFFICES ASSUME NEW q \in Procs, q # p, pc[q] \in Settling
                 PROVE  Settled(mail[at[q]], processed'[at[q]], skipped'[at[q]], newest[q], todo[q])
      BY DEF PassesSettled
    <2>1. at[q] \in Conns
      BY DEF TypeOK, ProcTypes, Settling
    <2> QED
      BY <2>1, SettledStays DEF SkipInv, PassesSettled
  <1>3. IdsReached'
    BY DEF SkipInv, IdsReached
  <1> QED
    BY <1>1, <1>2, <1>3 DEF SkipInv

\* the same when no cursor is written
LEMMA CursorlessStepSettles ==
  ASSUME TypeOK, SkipInv, NEW p \in Procs,
         UNCHANGED <<head, mail, cursor>>,
         \A d \in Conns : processed[d] \subseteq processed'[d] /\ skipped[d] \subseteq skipped'[d],
         \A q \in Procs \ {p} : /\ pc'[q] = pc[q] /\ at'[q] = at[q]
                                /\ newest'[q] = newest[q] /\ todo'[q] = todo[q],
         pc'[p] \in Settling =>
           Settled(mail[at'[p]], processed'[at'[p]], skipped'[at'[p]], newest'[p], todo'[p]),
         at'[p] \in Conns => newest'[p] <= head[at'[p]],
         pc'[p] \in {"idle", "load"} => newest'[p] = 0
  PROVE  SkipInv'
  <1>1. CASE Conns = {}
    <2>1. \A q \in Procs : pc'[q] \in Settling => q = p
      BY <1>1 DEF TypeOK, ProcTypes, Settling
    <2>2. IdsReached'
      BY <1>1 DEF SkipInv, IdsReached
    <2> QED
      BY <1>1, <2>1, <2>2 DEF SkipInv, CursorsSettled, PassesSettled
  <1>2. ASSUME NEW c \in Conns PROVE SkipInv'
    <2>1. cursor'[c] <= head[c]
      BY DEF SkipInv, IdsReached
    <2>2. Settled(mail[c], processed'[c], skipped'[c], cursor'[c], {})
      BY SettledStays DEF SkipInv, CursorsSettled
    <2> QED
      BY <2>1, <2>2, OneStepSettles
  <1> QED
    BY <1>1, <1>2

\* an invocation that ends, or moves to a place where nothing is pending, settles trivially
LEMMA ForgetSettles ==
  ASSUME TypeOK, SkipInv, NEW p \in Procs, NEW l \in {"idle", "load"}, Goto(p, l), Forget(p),
         UNCHANGED <<head, mail, cursor, processed, skipped>>
  PROVE  SkipInv'
  <1>1. /\ pc'[p] = l /\ at'[p] = NoConn /\ newest'[p] = 0
        /\ \A q \in Procs \ {p} : /\ pc'[q] = pc[q] /\ at'[q] = at[q]
                                  /\ newest'[q] = newest[q] /\ todo'[q] = todo[q]
    BY DEF Goto, Forget, TypeOK, ProcTypes
  <1>2. l \notin Settling /\ NoConn \notin Conns
    BY QueueAssumption DEF Settling
  <1> QED
    BY <1>1, <1>2, CursorlessStepSettles

LEMMA GotoSettles ==
  ASSUME TypeOK, SkipInv, NEW p \in Procs, NEW l, Goto(p, l), UNCHANGED localVars,
         l \in Settling => pc[p] \in Settling,
         l \in {"idle", "load"} => pc[p] \in {"idle", "load"},
         UNCHANGED <<head, mail, cursor, processed, skipped>>
  PROVE  SkipInv'
  <1>1. /\ pc'[p] = l /\ at' = at /\ newest' = newest /\ todo' = todo
        /\ \A q \in Procs \ {p} : pc'[q] = pc[q]
    BY DEF Goto, TypeOK, ProcTypes, localVars
  <1>2. /\ at[p] \in Conns => newest[p] <= head[at[p]]
        /\ pc[p] \in {"idle", "load"} => newest[p] = 0
        /\ pc[p] \in Settling =>
             Settled(mail[at[p]], processed[at[p]], skipped[at[p]], newest[p], todo[p])
    BY DEF SkipInv, IdsReached, PassesSettled
  <1> QED
    BY <1>1, <1>2, CursorlessStepSettles

\* an invocation takes on a connection with an id the mailbox has reached
LEMMA StartSettles ==
  ASSUME TypeOK, SkipInv, NEW p \in Procs, NEW l \in Places \ {"idle", "load"}, Goto(p, l),
         NEW c \in Conns, at' = [at EXCEPT ![p] = c],
         NEW n, newest' = [newest EXCEPT ![p] = n], UNCHANGED todo,
         n <= head[c], l \in Settling => n = cursor[c],
         UNCHANGED <<head, mail, cursor, processed, skipped>>
  PROVE  SkipInv'
  <1>1. /\ pc'[p] = l /\ at'[p] = c /\ newest'[p] = n
        /\ \A q \in Procs \ {p} : /\ pc'[q] = pc[q] /\ at'[q] = at[q]
                                  /\ newest'[q] = newest[q] /\ todo'[q] = todo[q]
    BY DEF Goto, TypeOK, ProcTypes
  <1>2. l \in Settling => Settled(mail[c], processed[c], skipped[c], n, todo[p])
    BY DEF SkipInv, CursorsSettled, Settled
  <1> QED
    BY <1>1, <1>2, CursorlessStepSettles

LEMMA WorkerSettles ==
  ASSUME TypeOK, SkipInv, NEW p \in Workers, WorkerStart(p) \/ WorkerLoad(p)
  PROVE  SkipInv'
  <1>1. p \in Procs /\ p \in Syncers
    BY DEF Procs, Syncers
  <1>2. CASE WorkerStart(p)
    BY <1>1, <1>2, GotoSettles DEF WorkerStart, Settling, connVars, mailVars
  <1>3. CASE WorkerLoad(p)
    <2>1. PICK cl \in claims[p] :
            /\ at' = [at EXCEPT ![p] = cl.conn]
            /\ newest' = [newest EXCEPT ![p] = cursor[cl.conn]]
            /\ Goto(p, IF ~Exists(cl.conn) THEN "failed"
                       ELSE IF synced[cl.conn] THEN "history" ELSE "backfill")
      BY <1>3 DEF WorkerLoad
    <2>2. cl.conn \in Conns
      BY <1>1 DEF TypeOK, QTypeOK, Claim
    <2>3. cursor[cl.conn] <= head[cl.conn]
      BY <2>2 DEF SkipInv, IdsReached
    <2>4. UNCHANGED todo /\ UNCHANGED <<head, mail, cursor, processed, skipped>>
      BY <1>3 DEF WorkerLoad, connVars, mailVars
    <2> QED
      BY <1>1, <2>1, <2>2, <2>3, <2>4, StartSettles DEF Places
  <1> QED
    BY <1>2, <1>3

\* moving a cursor to an id of the mailbox records everything unread it passes
LEMMA MoveSettles ==
  ASSUME TypeOK, SkipInv, NEW p \in Procs, at[p] \in Conns, MoveCursor(at[p], newest[p]),
         NEW l \in Places \ Settling, l \notin {"idle", "load"}, Goto(p, l), UNCHANGED localVars,
         UNCHANGED <<head, mail, processed>>
  PROVE  SkipInv'
  <1> DEFINE c == at[p]
             h == newest[p]
  <1>1. cursor' = [cursor EXCEPT ![c] = h] /\ Skip(c, Unread(c, cursor[c], h), "watch")
    BY DEF MoveCursor
  <1>2. Unread(c, cursor[c], h) \in SUBSET Msgs
    BY MessageTypes DEF TypeOK
  <1>3. /\ \A m \in Unread(c, cursor[c], h) : \E r \in Reasons : <<m, r>> \in skipped'[c]
        /\ \A d \in Conns : skipped[d] \subseteq skipped'[d]
    BY <1>1, <1>2, SkipAdds DEF TypeOK, Reasons
  <1>4. Settled(mail[c], processed[c], skipped'[c], h, {})
    <2>1. cursor[c] \in Nat /\ h \in Nat /\ \A m \in Msgs : m \in Nat
      BY PipelineAssumption DEF TypeOK, ConnTypes, ProcTypes, Msgs
    <2>2. Settled(mail[c], processed[c], skipped'[c], cursor[c], {})
      BY <1>3, SettledStays DEF SkipInv, CursorsSettled
    <2> QED
      BY <1>3, <2>1, <2>2 DEF Settled, Unread, Arrived
  <1>5. cursor'[c] = h /\ h <= head[c] /\ \A d \in Conns \ {c} : cursor'[d] = cursor[d]
    BY <1>1 DEF TypeOK, ConnTypes, SkipInv, IdsReached
  <1>6. /\ pc'[p] = l /\ at' = at /\ newest' = newest /\ todo' = todo
        /\ \A q \in Procs \ {p} : pc'[q] = pc[q]
    BY DEF Goto, TypeOK, ProcTypes, localVars
  <1> QED
    BY <1>3, <1>4, <1>5, <1>6, OneStepSettles

LEMMA UserSettles ==
  ASSUME TypeOK, SkipInv, NEW p \in Users, UserStep(p)
  PROVE  SkipInv'
  <1>1. p \in Procs
    BY DEF Procs, Syncers
  <1>2. ASSUME NEW c \in Conns, ManualStart(p, c) PROVE SkipInv'
    <2>1. cursor[c] <= head[c]
      BY DEF SkipInv, IdsReached
    <2> QED
      BY <1>1, <1>2, <2>1, StartSettles DEF ManualStart, connVars, mailVars, Places
  <1>3. ASSUME NEW c \in Conns, CallbackProfile(p, c) PROVE SkipInv'
    <2>1. head[c] <= head[c]
      BY PipelineAssumption DEF TypeOK, MailTypes
    <2>2. /\ Goto(p, "upsert") /\ at' = [at EXCEPT ![p] = c]
          /\ newest' = [newest EXCEPT ![p] = head[c]] /\ UNCHANGED todo
          /\ UNCHANGED <<head, mail, cursor, processed, skipped>>
      BY <1>3 DEF CallbackProfile, connVars, mailVars
    <2>3. "upsert" \in Places \ {"idle", "load"} /\ "upsert" \notin Settling
      BY DEF Places, Settling
    <2> QED
      BY <1>1, <2>1, <2>2, <2>3, StartSettles
  <1>4. ASSUME NEW c \in Conns, PushReceived(p, c) PROVE SkipInv'
    <2>1. newest[p] = 0 /\ newest' = [newest EXCEPT ![p] = 0] /\ 0 <= head[c]
      BY <1>1, <1>4, PipelineAssumption
      DEF PushReceived, TypeOK, ProcTypes, MailTypes, SkipInv, IdsReached
    <2>2. /\ Goto(p, "notify") /\ at' = [at EXCEPT ![p] = c] /\ UNCHANGED todo
          /\ UNCHANGED <<head, mail, cursor, processed, skipped>>
      BY <1>4 DEF PushReceived, connVars
    <2>3. "notify" \in Places \ {"idle", "load"} /\ "notify" \notin Settling
      BY DEF Places, Settling
    <2> QED
      BY <1>1, <2>1, <2>2, <2>3, StartSettles
  <1>5. CASE ManualEnqueue(p)
    BY <1>1, <1>5, GotoSettles DEF ManualEnqueue, Settling, connVars, mailVars
  <1>6. CASE ManualClaim(p)
    <2>1. CASE Goto(p, "backfill") /\ UNCHANGED localVars
      BY <1>1, <1>6, <2>1, GotoSettles DEF ManualClaim, Settling, connVars, mailVars
    <2>2. CASE Goto(p, "idle") /\ Forget(p)
      BY <1>1, <1>6, <2>2, ForgetSettles DEF ManualClaim, connVars, mailVars
    <2> QED
      BY <1>6, <2>1, <2>2 DEF ManualClaim
  <1>7. CASE CallbackUpsert(p)
    <2>1. at[p] \in Conns
      BY <1>1, <1>7 DEF CallbackUpsert, TypeOK, ProcTypes
    <2>2. CASE at[p] \notin gone
      BY <1>1, <1>7, <2>1, <2>2, MoveSettles DEF CallbackUpsert, Places, Settling
    <2>3. CASE at[p] \in gone
      BY <1>1, <1>7, <2>3, ForgetSettles DEF CallbackUpsert
    <2> QED
      BY <2>2, <2>3
  <1>8. CASE NotifyEnqueue(p)
    BY <1>1, <1>8, ForgetSettles DEF NotifyEnqueue, connVars, mailVars
  <1> QED
    BY <1>2, <1>3, <1>4, <1>5, <1>6, <1>7, <1>8 DEF UserStep

LEMMA WatchStepSettles ==
  ASSUME TypeOK, SkipInv, NEW p \in Procs, WatchStep(p)
  PROVE  SkipInv'
  <1>1. at[p] \in Conns /\ pc[p] \in {"watchcall", "watchwrite"}
    BY DEF WatchStep, WatchCall, WatchWrite, WatchFails, TypeOK, ProcTypes
  <1>2. CASE WatchCall(p)
    <2>1. head[at[p]] <= head[at[p]] /\ at' = [at EXCEPT ![p] = at[p]]
      BY <1>1, <1>2, PipelineAssumption DEF WatchCall, TypeOK, MailTypes, ProcTypes
    <2>2. /\ Goto(p, "watchwrite") /\ newest' = [newest EXCEPT ![p] = head[at[p]]]
          /\ UNCHANGED todo /\ UNCHANGED <<head, mail, cursor, processed, skipped>>
      BY <1>2 DEF WatchCall, connVars, mailVars
    <2>3. "watchwrite" \in Places \ {"idle", "load"} /\ "watchwrite" \notin Settling
      BY DEF Places, Settling
    <2> QED
      BY <1>1, <2>1, <2>2, <2>3, StartSettles
  <1>3. CASE WatchWrite(p)
    <2> DEFINE l == IF p \in Renewers THEN "release" ELSE "notify"
    <2>1. l \in Places \ Settling /\ l \notin {"idle", "load"}
      BY DEF Places, Settling
    <2>2. Goto(p, l) /\ UNCHANGED localVars /\ UNCHANGED <<head, mail, processed>>
      BY <1>3 DEF WatchWrite
    <2> HIDE DEF l
    <2>3. CASE Exists(at[p])
      <3>1. MoveCursor(at[p], newest[p])
        BY <1>3, <2>3 DEF WatchWrite
      <3> QED
        BY <1>1, <2>1, <2>2, <3>1, MoveSettles
    <2>4. CASE ~Exists(at[p])
      <3>1. UNCHANGED <<cursor, skipped>>
        BY <1>3, <2>4 DEF WatchWrite
      <3> QED
        BY <1>1, <2>1, <2>2, <3>1, GotoSettles
    <2> QED
      BY <2>3, <2>4
  <1>4. CASE WatchFails(p)
    <2>1. CASE p \in Renewers
      <3>1. Goto(p, "release") /\ UNCHANGED localVars /\ UNCHANGED <<head, mail, cursor, processed, skipped>>
        BY <1>4, <2>1 DEF WatchFails, mailVars
      <3> QED
        BY <3>1, GotoSettles DEF Settling
    <2>2. CASE p \notin Renewers
      BY <1>4, <2>2, ForgetSettles DEF WatchFails, mailVars
    <2> QED
      BY <2>1, <2>2
  <1> QED
    BY <1>2, <1>3, <1>4 DEF WatchStep

LEMMA RenewSettles ==
  ASSUME TypeOK, SkipInv, NEW p \in Renewers, RenewStep(p)
  PROVE  SkipInv'
  <1>1. p \in Procs
    BY DEF Procs
  <1>2. CASE RenewClaim(p)
    BY <1>1, <1>2, GotoSettles DEF RenewClaim, Settling, connVars, mailVars
  <1>3. CASE RenewLoad(p)
    <2>1. PICK cl \in wclaims[p] :
            /\ at' = [at EXCEPT ![p] = cl.conn]
            /\ Goto(p, IF Exists(cl.conn) THEN "watchcall" ELSE "release")
      BY <1>3 DEF RenewLoad
    <2>2. cl.conn \in Conns
      BY DEF TypeOK, WatchTypes, WClaim
    <2>3. newest[p] = 0 /\ newest' = [newest EXCEPT ![p] = 0] /\ 0 <= head[cl.conn]
      BY <1>1, <1>3, <2>2, PipelineAssumption
      DEF RenewLoad, TypeOK, ProcTypes, MailTypes, SkipInv, IdsReached
    <2>4. UNCHANGED todo /\ UNCHANGED <<head, mail, cursor, processed, skipped>>
      BY <1>3 DEF RenewLoad, connVars, mailVars
    <2>5. \A l \in {"watchcall", "release"} : l \in Places \ {"idle", "load"} /\ l \notin Settling
      BY DEF Places, Settling
    <2> QED
      BY <1>1, <2>1, <2>2, <2>3, <2>4, <2>5, StartSettles
  <1>4. CASE WatchStep(p)
    BY <1>1, <1>4, WatchStepSettles
  <1>5. CASE Release(p)
    BY <1>1, <1>5, ForgetSettles DEF Release, connVars, mailVars
  <1> QED
    BY <1>2, <1>3, <1>4, <1>5 DEF RenewStep

LEMMA SyncSettles ==
  ASSUME TypeOK, SkipInv, NEW p \in Syncers, SyncStep(p)
  PROVE  SkipInv'
  <1>1. p \in Procs
    BY DEF Procs
  <1>2. /\ at[p] \in Conns /\ newest[p] \in Nat /\ newest[p] <= head[at[p]]
        /\ head[at[p]] \in Nat /\ \A m \in Msgs : m \in Nat
    <2>1. pc[p] \in {"history", "backfill", "ingest", "synced", "failed"}
      BY DEF SyncStep, FetchHistory, FetchList, Ingest, CommitCursor, SyncFails, Finish
    <2>2. at[p] \in Conns /\ newest[p] \in Nat
      BY <1>1, <2>1, PipelineAssumption DEF TypeOK, ProcTypes
    <2>3. newest[p] <= head[at[p]] /\ head[at[p]] \in Nat
      BY <1>1, <2>2, PipelineAssumption DEF TypeOK, MailTypes, SkipInv, IdsReached
    <2> QED
      BY <2>2, <2>3, PipelineAssumption DEF Msgs
  <1>3. pc[p] \in Settling =>
          Settled(mail[at[p]], processed[at[p]], skipped[at[p]], newest[p], todo[p])
    BY <1>1 DEF SkipInv, PassesSettled
  <1> DEFINE c == at[p]
  <1>4. CASE FetchHistory(p)
    <2> DEFINE page == HistoryPage(c, newest[p])
               left == Unread(c, newest[p], head[c]) \ page
    <2>1. /\ pc[p] = "history" /\ pc'[p] = "ingest" /\ at' = at
          /\ todo'[p] = page /\ newest'[p] = head[c] /\ Skip(c, left, "page")
          /\ UNCHANGED <<head, mail, cursor, processed>>
          /\ \A q \in Procs \ {p} : /\ pc'[q] = pc[q] /\ newest'[q] = newest[q] /\ todo'[q] = todo[q]
      BY <1>1, <1>4 DEF FetchHistory, Goto, TypeOK, ProcTypes, connVars
    <2>2. left \in SUBSET Msgs
      BY <1>2, MessageTypes DEF TypeOK
    <2>3. /\ \A m \in left : \E r \in Reasons : <<m, r>> \in skipped'[c]
          /\ \A d \in Conns : skipped[d] \subseteq skipped'[d]
      BY <1>2, <2>1, <2>2, SkipAdds DEF TypeOK, Reasons
    <2>4. todo[p] = {}
      BY <1>1, <2>1 DEF TypeOK, ProcTypes
    <2>5. Settled(mail[c], processed[c], skipped'[c], newest[p], {})
      BY <1>2, <1>3, <2>1, <2>3, <2>4, SettledStays DEF Settling
    <2>6. Settled(mail[c], processed[c], skipped'[c], head[c], page)
      BY <1>2, <2>3, <2>5 DEF Settled, Unread, Arrived
    <2> QED
      BY <1>1, <1>2, <2>1, <2>3, <2>6, CursorlessStepSettles
  <1>5. CASE FetchList(p)
    <2> DEFINE page == ListPage(c)
               left == Unread(c, 0, head[c]) \ page
    <2>1. /\ pc[p] \in {"history", "backfill"} /\ pc'[p] = "ingest" /\ at' = at
          /\ todo'[p] = page /\ newest' = newest /\ Skip(c, left, "page")
          /\ UNCHANGED <<head, mail, cursor, processed>>
          /\ \A q \in Procs \ {p} : pc'[q] = pc[q] /\ todo'[q] = todo[q]
      BY <1>1, <1>5 DEF FetchList, Goto, TypeOK, ProcTypes, connVars
    <2>2. left \in SUBSET Msgs
      BY <1>2, MessageTypes DEF TypeOK
    <2>3. \A d \in Conns : skipped[d] \subseteq skipped'[d]
      BY <1>2, <2>1, <2>2, SkipAdds DEF TypeOK, Reasons
    <2>4. todo[p] = {}
      BY <1>1, <2>1 DEF TypeOK, ProcTypes
    <2>5. Settled(mail[c], processed[c], skipped'[c], newest[p], {})
      BY <1>2, <1>3, <2>1, <2>3, <2>4, SettledStays DEF Settling
    <2>6. Settled(mail[c], processed[c], skipped'[c], newest[p], page)
      BY <2>5 DEF Settled
    <2> QED
      BY <1>1, <1>2, <2>1, <2>3, <2>6, CursorlessStepSettles
  <1>6. CASE Ingest(p)
    <2>1. PICK m \in todo[p] :
            /\ todo' = [todo EXCEPT ![p] = @ \ {m}]
            /\ processed' = [processed EXCEPT ![c] = @ \cup {m}]
            /\ newest' = [newest EXCEPT ![p] = LargerId(@, mail[c][m])]
            /\ Skip(c, Unread(c, newest[p], mail[c][m]) \ todo[p], "jump")
      BY <1>6 DEF Ingest
    <2> DEFINE left == Unread(c, newest[p], mail[c][m]) \ todo[p]
               n == LargerId(newest[p], mail[c][m])
    <2>2. /\ pc[p] = "ingest" /\ pc' = pc /\ at' = at /\ UNCHANGED <<head, mail, cursor>>
          /\ todo'[p] = todo[p] \ {m} /\ newest'[p] = n /\ processed'[c] = processed[c] \cup {m}
          /\ \A q \in Procs \ {p} : newest'[q] = newest[q] /\ todo'[q] = todo[q]
          /\ \A d \in Conns : processed[d] \subseteq processed'[d]
      BY <1>1, <1>2, <1>6, <2>1 DEF Ingest, TypeOK, ProcTypes, MailTypes, connVars
    <2>3. m \in Msgs /\ left \in SUBSET Msgs
      BY <1>1, <1>2, MessageTypes DEF TypeOK, ProcTypes
    <2>4. /\ \A k \in left : \E r \in Reasons : <<k, r>> \in skipped'[c]
          /\ \A d \in Conns : skipped[d] \subseteq skipped'[d]
      BY <1>2, <2>1, <2>3, SkipAdds DEF TypeOK, Reasons
    <2>5. mail[c][m] \in Nat /\ mail[c][m] <= head[c]
      BY <1>2, <2>3, PipelineAssumption DEF TypeOK, MailTypes, SkipInv, IdsReached
    <2>6. n <= head[c] /\ n \in Nat /\ (n = newest[p] \/ n = mail[c][m])
      BY <1>2, <2>5 DEF LargerId
    <2>7. Settled(mail[c], processed[c], skipped'[c], newest[p], todo[p])
      BY <1>2, <1>3, <2>2, <2>4, SettledStays DEF Settling
    <2>8. Settled(mail[c], processed[c], skipped'[c], n, todo[p])
      <3>1. CASE n = newest[p]
        BY <2>7, <3>1
      <3>2. CASE n = mail[c][m]
        BY <1>2, <2>4, <2>5, <2>7, <3>2 DEF Settled, Unread, Arrived
      <3> QED
        BY <2>6, <3>1, <3>2
    <2>9. Settled(mail[c], processed'[c], skipped'[c], n, todo[p] \ {m})
      BY <2>2, <2>8 DEF Settled
    <2> HIDE DEF n, left
    <2> QED
      BY <1>1, <1>2, <2>2, <2>4, <2>6, <2>9, CursorlessStepSettles DEF Settling
  <1>7. CASE CommitCursor(p)
    <2>1. /\ pc[p] = "ingest" /\ todo[p] = {} /\ Goto(p, "synced") /\ UNCHANGED localVars
          /\ UNCHANGED <<head, mail, processed, skipped>>
          /\ cursor' = cursor \/ cursor' = [cursor EXCEPT ![c] = newest[p]]
      BY <1>7 DEF CommitCursor, PassComplete, mailVars
    <2>2. CASE cursor' = cursor
      BY <1>1, <2>1, <2>2, GotoSettles DEF Settling
    <2>3. CASE cursor' = [cursor EXCEPT ![c] = newest[p]]
      <3>1. cursor'[c] = newest[p] /\ \A d \in Conns \ {c} : cursor'[d] = cursor[d]
        BY <1>2, <2>3 DEF TypeOK, ConnTypes
      <3>2. Settled(mail[c], processed[c], skipped[c], newest[p], {})
        BY <1>3, <2>1 DEF Settling
      <3>3. /\ pc'[p] = "synced" /\ at' = at /\ newest' = newest /\ todo' = todo
            /\ \A q \in Procs \ {p} : pc'[q] = pc[q]
        BY <1>1, <2>1 DEF Goto, TypeOK, ProcTypes, localVars
      <3>4. "synced" \notin Settling
        BY DEF Settling
      <3> QED
        BY <1>1, <1>2, <2>1, <3>1, <3>2, <3>3, <3>4, OneStepSettles
    <2> QED
      BY <2>1, <2>2, <2>3
  <1>8. CASE SyncFails(p)
    BY <1>1, <1>8, GotoSettles DEF SyncFails, Settling, connVars, mailVars
  <1>9. CASE Finish(p)
    BY <1>1, <1>9, ForgetSettles DEF Finish, connVars, mailVars
  <1> QED
    BY <1>4, <1>5, <1>6, <1>7, <1>8, <1>9 DEF SyncStep

\* the mailbox records a change of a message it has, or of a new one beyond every id
\* anybody holds
LEMMA RecordSettles ==
  ASSUME TypeOK, SkipInv, NEW c \in Conns, NEW m \in Msgs, Record(c, m),
         m \in Arrived(c) \/ m = head[c] + 1
  PROVE  SkipInv'
  <1>1. /\ UNCHANGED <<processed, skipped, pc, at, newest, todo, cursor>>
        /\ head' = [head EXCEPT ![c] = @ + 1]
        /\ mail' = [mail EXCEPT ![c][m] = head[c] + 1]
    BY DEF Record, localVars, connVars
  <1>2. /\ \A d \in Conns : head[d] \in Nat /\ head[d] <= head'[d]
        /\ \A d \in Conns \ {c} : mail'[d] = mail[d]
        /\ mail'[c] = [mail[c] EXCEPT ![m] = head[c] + 1] /\ head'[c] = head[c] + 1
        /\ mail[c] \in [Msgs -> Nat]
    BY <1>1, PipelineAssumption DEF TypeOK, MailTypes
  <1>3. ASSUME NEW hi \in Nat, hi <= head[c], NEW S, Settled(mail[c], processed[c], skipped[c], hi, S)
        PROVE  Settled(mail'[c], processed[c], skipped[c], hi, S)
    <2>1. \A k \in Msgs : k <= hi /\ mail'[c][k] > 0 => mail[c][k] > 0
      BY <1>2, <1>3 DEF Arrived
    <2> QED
      BY <1>3, <2>1 DEF Settled
  <1>4. CursorsSettled'
    <2>1. \A d \in Conns : cursor[d] \in Nat /\ cursor[d] <= head[d]
      BY PipelineAssumption DEF TypeOK, ConnTypes, SkipInv, IdsReached
    <2> QED
      BY <1>1, <1>2, <1>3, <2>1 DEF SkipInv, CursorsSettled
  <1>5. PassesSettled'
    <2>1. \A p \in Procs : pc[p] \in Settling =>
            at[p] \in Conns /\ newest[p] \in Nat /\ newest[p] <= head[at[p]]
      BY PipelineAssumption DEF TypeOK, ProcTypes, SkipInv, IdsReached, Settling
    <2> QED
      BY <1>1, <1>2, <1>3, <2>1 DEF SkipInv, PassesSettled
  <1>6. IdsReached'
    <2>1. \A d \in Conns : cursor[d] <= head'[d]
      <3>1. \A d \in Conns : cursor[d] \in Nat /\ cursor[d] <= head[d]
        BY PipelineAssumption DEF TypeOK, ConnTypes, SkipInv, IdsReached
      <3>2. \A d \in Conns : head[d] \in Nat /\ head'[d] \in Nat /\ head[d] <= head'[d]
        BY <1>1, <1>2
      <3> QED
        BY <3>1, <3>2
    <2>2. \A d \in Conns : \A k \in Msgs : mail'[d][k] <= head'[d]
      <3>1. \A d \in Conns : \A k \in Msgs : mail[d][k] \in Nat /\ mail[d][k] <= head[d]
        BY PipelineAssumption DEF TypeOK, MailTypes, SkipInv, IdsReached
      <3>2. \A d \in Conns \ {c} : head'[d] = head[d]
        BY <1>1 DEF TypeOK, MailTypes
      <3>3. \A k \in Msgs : mail'[c][k] <= head'[c]
        BY <1>2, <3>1
      <3> QED
        BY <1>2, <3>1, <3>2, <3>3
    <2>3. \A p \in Procs : at[p] \in Conns => newest[p] <= head'[at[p]]
      <3>1. \A p \in Procs : newest[p] \in Nat /\ (at[p] \in Conns => newest[p] <= head[at[p]])
        BY PipelineAssumption DEF TypeOK, ProcTypes, SkipInv, IdsReached
      <3>2. \A d \in Conns : head[d] \in Nat /\ head'[d] \in Nat /\ head[d] <= head'[d]
        BY <1>1, <1>2
      <3> QED
        BY <3>1, <3>2
    <2> QED
      BY <1>1, <2>1, <2>2, <2>3 DEF SkipInv, IdsReached
  <1> QED
    BY <1>4, <1>5, <1>6 DEF SkipInv

LEMMA UnchangedSettles ==
  ASSUME SkipInv, UNCHANGED <<head, mail, cursor, processed, skipped, pc, localVars>>
  PROVE  SkipInv'
  BY DEF SkipInv, CursorsSettled, PassesSettled, IdsReached, localVars

LEMMA ConnStepSettles ==
  ASSUME TypeOK, SkipInv, NEW c \in Conns, ConnStep(c)
  PROVE  SkipInv'
  <1>1. CASE Deliver(c)
    <2>1. head[c] + 1 \in Msgs
      BY <1>1, PipelineAssumption DEF Deliver, Record, TypeOK, MailTypes, Msgs
    <2> QED
      BY <1>1, <2>1, RecordSettles DEF Deliver
  <1>2. CASE Relabel(c)
    BY <1>2, RecordSettles DEF Relabel, Arrived
  <1>3. CASE PushIgnored(c)
    BY <1>3, UnchangedSettles DEF PushIgnored, connVars
  <1>4. CASE WatchAges(c)
    BY <1>4, UnchangedSettles DEF WatchAges, mailVars
  <1>5. CASE ExpireWatchLease(c)
    BY <1>5, UnchangedSettles DEF ExpireWatchLease, connVars, mailVars
  <1>6. CASE Disconnect(c)
    BY <1>6, UnchangedSettles DEF Disconnect, mailVars
  <1> QED
    BY <1>1, <1>2, <1>3, <1>4, <1>5, <1>6 DEF ConnStep

LEMMA SkipInvNext == TypeOK /\ SkipInv /\ [Next]_vars => SkipInv'
  <1> SUFFICES ASSUME TypeOK, SkipInv, [Next]_vars PROVE SkipInv'
    OBVIOUS
  <1>1. ASSUME NEW p \in Users, WatchStep(p) PROVE SkipInv'
    BY <1>1, WatchStepSettles DEF Procs, Syncers
  <1>2. ASSUME NEW j \in Jobs, ExpireJobLease(j) PROVE SkipInv'
    BY <1>2, UnchangedSettles DEF ExpireJobLease, connVars, mailVars
  <1>3. ASSUME NEW p \in Procs, Crash(p) PROVE SkipInv'
    BY <1>3, ForgetSettles DEF Crash, connVars
  <1>4. CASE UNCHANGED vars
    BY <1>4, UnchangedSettles DEF vars, connVars, mailVars
  <1> QED
    BY <1>1, <1>2, <1>3, <1>4, WorkerSettles, UserSettles, SyncSettles, RenewSettles, ConnStepSettles
    DEF Next

LEMMA SkipInvInit == Init => SkipInv
  BY QueueAssumption, PipelineAssumption
  DEF Init, SkipInv, CursorsSettled, PassesSettled, IdsReached, Settled, Settling

\* No sync pass, however it overlaps with others, crashes or outlives its lease, commits a
\* cursor beyond a message it still had to read.
THEOREM NothingSkippedSilently == Spec => []NoSilentSkip
  <1>1. SkipInv => NoSilentSkip
    BY SettledCursorsSuffice DEF SkipInv
  <1> QED
    BY <1>1, SkipInvInit, SkipInvNext, PipelineTypes, PTL DEF Spec

-----------------------------------------------------------------------------
(* Renewal leases: four steps write a lease row, and the claims say who may.    *)

LeaseKept ==
  \A c \in Conns : wlease[c].live /\ wlease'[c] # wlease[c] =>
    \/ wlease'[c] = [wlease[c] EXCEPT !.live = FALSE]
    \/ wlease'[c] = NoLease /\ c \in gone'
    \/ wlease'[c] = NoLease /\ \E p \in Renewers : WHolds(p, c) /\ wclaims'[p] # wclaims[p]

LEMMA UnwrittenKept == wlease' = wlease => LeaseKept
  BY DEF LeaseKept

\* who writes a lease row
LEMMA LeaseWriters ==
  ASSUME Next, wlease' # wlease
  PROVE  \/ \E p \in Renewers : RenewClaim(p) \/ Release(p)
         \/ \E c \in Conns : ExpireWatchLease(c) \/ Disconnect(c)
  <1>1. ASSUME NEW p \in Workers, WorkerStart(p) \/ WorkerLoad(p) PROVE FALSE
    BY <1>1 DEF WorkerStart, WorkerLoad, watchVars
  <1>2. ASSUME NEW p \in Users, UserStep(p) PROVE FALSE
    BY <1>2 DEF UserStep, ManualStart, CallbackProfile, PushReceived, ManualEnqueue, ManualClaim,
                CallbackUpsert, NotifyEnqueue, watchVars
  <1>3. ASSUME NEW p \in Procs, WatchStep(p) PROVE FALSE
    BY <1>3 DEF WatchStep, WatchCall, WatchWrite, WatchFails, watchVars
  <1>4. ASSUME NEW p \in Syncers, SyncStep(p) PROVE FALSE
    BY <1>4 DEF SyncStep, FetchHistory, FetchList, Ingest, CommitCursor, SyncFails, Finish, watchVars
  <1>5. ASSUME NEW p \in Renewers, RenewLoad(p) PROVE FALSE
    BY <1>5 DEF RenewLoad, watchVars
  <1>6. ASSUME NEW c \in Conns, Deliver(c) \/ Relabel(c) \/ PushIgnored(c) \/ WatchAges(c)
        PROVE  FALSE
    BY <1>6 DEF Deliver, Relabel, Record, PushIgnored, WatchAges, watchVars
  <1>7. ASSUME NEW j \in Jobs, ExpireJobLease(j) PROVE FALSE
    BY <1>7 DEF ExpireJobLease, watchVars
  <1>8. ASSUME NEW p \in Procs, Crash(p) PROVE FALSE
    BY <1>8 DEF Crash
  <1> QED
    BY <1>1, <1>2, <1>3, <1>4, <1>5, <1>6, <1>7, <1>8
    DEF Next, RenewStep, ConnStep, Procs, Syncers

LEMMA LeaseStepKept == TypeOK /\ [Next]_vars => LeaseKept
  <1> SUFFICES ASSUME TypeOK, [Next]_vars PROVE LeaseKept
    OBVIOUS
  <1>1. ASSUME NEW p \in Renewers, RenewClaim(p) PROVE LeaseKept
    <2>1. \A c \in Conns : wlease[c].live => wlease'[c] = wlease[c]
      BY <1>1 DEF RenewClaim, Renewable
    <2> QED
      BY <2>1 DEF LeaseKept
  <1>2. ASSUME NEW p \in Renewers, Release(p) PROVE LeaseKept
    <2>1. PICK cl \in wclaims[p] :
            /\ wlease' = IF WOwns(cl) THEN [wlease EXCEPT ![cl.conn] = NoLease] ELSE wlease
            /\ wclaims' = [wclaims EXCEPT ![p] = @ \ {cl}]
      BY <1>2 DEF Release
    <2>2. ASSUME NEW c \in Conns, wlease'[c] # wlease[c]
          PROVE  wlease'[c] = NoLease /\ WHolds(p, c) /\ wclaims'[p] # wclaims[p]
      <3>1. WOwns(cl) /\ cl.conn = c
        BY <2>1, <2>2
      <3>2. wlease'[c] = NoLease
        BY <2>1, <3>1 DEF TypeOK, WatchTypes
      <3>3. WHolds(p, c)
        BY <3>1 DEF WHolds
      <3>4. cl \notin wclaims'[p]
        BY <2>1 DEF TypeOK, WatchTypes
      <3> QED
        BY <2>1, <3>2, <3>3, <3>4
    <2> QED
      BY <2>2 DEF LeaseKept
  <1>3. ASSUME NEW d \in Conns, ExpireWatchLease(d) PROVE LeaseKept
    <2>1. wlease' = [wlease EXCEPT ![d].live = FALSE]
      BY <1>3 DEF ExpireWatchLease
    <2> QED
      BY <2>1 DEF LeaseKept, TypeOK, WatchTypes
  <1>4. ASSUME NEW d \in Conns, Disconnect(d) PROVE LeaseKept
    <2>1. wlease' = [wlease EXCEPT ![d] = NoLease] /\ d \in gone'
      BY <1>4 DEF Disconnect, DropConn
    <2> QED
      BY <2>1 DEF LeaseKept, TypeOK, WatchTypes
  <1>5. CASE UNCHANGED vars
    BY <1>5, UnwrittenKept DEF vars, watchVars
  <1> QED
    BY <1>1, <1>2, <1>3, <1>4, <1>5, LeaseWriters, UnwrittenKept

\* A live renewal lease stays with its holder: it is taken over only after it expired, and
\* deleted only by the holder itself or with the connection.
THEOREM RenewalLeaseStays == Spec => WatchLeaseKept
  <1>1. TypeOK /\ [Next]_vars => LeaseKept
    BY LeaseStepKept
  <1>2. TypeOK /\ [Next]_vars =>
          [\A c \in Conns : wlease[c].live /\ wlease'[c] # wlease[c] =>
             \/ wlease'[c] = [wlease[c] EXCEPT !.live = FALSE]
             \/ wlease'[c] = NoLease /\ c \in gone'
             \/ wlease'[c] = NoLease /\ \E p \in Renewers : WHolds(p, c) /\ wclaims'[p] # wclaims[p]]_vars
    BY <1>1 DEF LeaseKept
  <1> QED
    BY <1>2, PipelineTypes, PTL DEF Spec, WatchLeaseKept
=============================================================================
