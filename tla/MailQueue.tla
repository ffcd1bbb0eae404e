----------------------------- MODULE MailQueue ------------------------------
(***************************************************************************)
(* private.sync_jobs: the queue of mailbox synchronisations and its        *)
(* leases.  service_enqueue_mail_sync, claim_mail_sync_jobs and            *)
(* finish_mail_sync_job are one database transaction each, hence one step  *)
(* each; the edge functions that call them are processes which remember    *)
(* their claims and may stop at any point.  Time is abstract: a lease is   *)
(* "live" until a step makes it "expired".                                 *)
(***************************************************************************)
EXTENDS Integers, FiniteSets

CONSTANTS
  Conns,      \* ids of public.source_connections rows
  Jobs,       \* ids of private.sync_jobs rows; a finished row is inert and reused
  Tokens,     \* lease tokens (gen_random_uuid)
  Workers,    \* concurrent invocations of mail-sync-worker
  Users,      \* concurrent invocations of gmail-sync and gmail-oauth-callback
  NoConn, NoTok,
  ClaimLimit, \* p_limit of the worker's claim
  MaxFaults   \* bound: crashes, and leases that expire under a live holder

Syncers == Workers \cup Users

ASSUME QueueAssumption ==
  /\ NoConn \notin Conns /\ NoConn \notin Syncers /\ NoTok \notin Tokens
  /\ ClaimLimit \in Nat \ {0} /\ MaxFaults \in Nat

VARIABLES
  jobs,   \* private.sync_jobs
  claims, \* the claims an invocation holds in memory
  gone,   \* connections whose row has been deleted
  faults  \* faults so far, for MaxFaults

qvars == <<jobs, claims, gone, faults>>

Claim == [job : Jobs, conn : Conns, tok : Tokens]
Row == [conn : Conns \cup {NoConn},
        status : {"free", "queued", "running", "succeeded", "failed"},
        tok : Tokens \cup {NoTok},
        lease : {"none", "live", "expired"}]

FreeRow == [conn |-> NoConn, status |-> "free", tok |-> NoTok, lease |-> "none"]
QueuedRow(c) == [conn |-> c, status |-> "queued", tok |-> NoTok, lease |-> "none"]
ClaimedRow(j, t) == [conn |-> jobs[j].conn, status |-> "running", tok |-> t, lease |-> "live"]

DoneRow(j, s) == [conn |-> jobs[j].conn, status |-> s, tok |-> NoTok, lease |-> "none"]

ExpiredRow(j) ==
  [conn |-> jobs[j].conn, status |-> "running", tok |-> jobs[j].tok, lease |-> "expired"]

\* status in ('queued', 'running')
Active(j) == jobs[j].status \in {"queued", "running"}

\* mutant: only queued jobs keep a connection from being queued again
ActiveJobsQueued(c) == {j \in Jobs : jobs[j].conn = c /\ jobs[j].status = "queued"}

ActiveJobs(c) == {j \in Jobs : jobs[j].conn = c /\ Active(j)}

\* mutants: an expired lease is not recovered; a live one is stolen
ClaimableQueued(j) == jobs[j].status = "queued"
ClaimableStolen(j) == Active(j)

\* the where clause of claim_mail_sync_jobs: queued, or running on a lease that ran out
Claimable(j) ==
  \/ jobs[j].status = "queued"
  \/ jobs[j].status = "running" /\ jobs[j].lease = "expired"

ClaimableJobs == {j \in Jobs : Claimable(j)}

\* gen_random_uuid() repeats no token that a row or an invocation still remembers
FreshTokens ==
  {t \in Tokens : /\ \A j \in Jobs : jobs[j].tok # t
                  /\ \A p \in Syncers : \A cl \in claims[p] : cl.tok # t}

\* one fresh token for each row of S
FreshAssignments(S) ==
  {f \in [S -> FreshTokens] : \A x, y \in S : f[x] = f[y] => x = y}

\* mutant: finishing a job does not ask for its token
OwnsAnyToken(cl) == jobs[cl.job].status = "running"

\* the where clause of finish_mail_sync_job: running, and the caller's token
Owns(cl) == jobs[cl.job].status = "running" /\ jobs[cl.job].tok = cl.tok

Holds(p, j) == \E cl \in claims[p] : cl.job = j /\ Owns(cl)

-----------------------------------------------------------------------------
\* service_enqueue_mail_sync, under its advisory lock: nothing while a job of the
\* connection is queued or running.  The row of a deleted connection has no target.
Enqueue(c) ==
  /\ IF ActiveJobs(c) = {} /\ c \notin gone
       THEN \E j \in {k \in Jobs : ~Active(k)} : jobs' = [jobs EXCEPT ![j] = QueuedRow(c)]
       ELSE jobs' = jobs
  /\ UNCHANGED <<claims, gone, faults>>

\* claim_mail_sync_jobs hands the rows S to p; which fresh tokens they get is immaterial
ClaimJobs(p, S) ==
  LET f == CHOOSE f \in FreshAssignments(S) : TRUE
  IN /\ FreshAssignments(S) # {}
     /\ jobs' = [j \in Jobs |-> IF j \in S THEN ClaimedRow(j, f[j]) ELSE jobs[j]]
     /\ claims' = [claims EXCEPT ![p] =
                     {[job |-> j, conn |-> jobs[j].conn, tok |-> f[j]] : j \in S}]
     /\ UNCHANGED <<gone, faults>>

\* The worker takes up to ClaimLimit rows, skipping locked ones.  The code takes the
\* oldest first; which rows make up a full batch is left open here.
WorkerClaim(p) ==
  /\ claims[p] = {}
  /\ \E S \in SUBSET ClaimableJobs :
       /\ S # {}
       /\ \/ Cardinality(S) = ClaimLimit
          \/ Cardinality(S) < ClaimLimit /\ S = ClaimableJobs
       /\ ClaimJobs(p, S)

\* a manual sync claims one row of its connection
UserClaim(p, c) ==
  /\ claims[p] = {}
  /\ \E j \in ClaimableJobs : jobs[j].conn = c /\ ClaimJobs(p, {j})

\* finish_mail_sync_job; a refusal is not an error, and the claim is forgotten either way
FinishJob(p, cl, s) ==
  /\ cl \in claims[p]
  /\ jobs' = IF Owns(cl) THEN [jobs EXCEPT ![cl.job] = DoneRow(cl.job, s)] ELSE jobs
  /\ claims' = [claims EXCEPT ![p] = @ \ {cl}]
  /\ UNCHANGED <<gone, faults>>

\* MaxFaults keeps recovery finite; the code bounds nothing
Fault == faults < MaxFaults /\ faults' = faults + 1

\* A lease runs out (a row taken before leases existed: ten minutes after its start).
\* Under a live holder that is a fault: an invocation that outlives its 300 seconds.
ExpireJob(j) ==
  /\ jobs[j].status = "running" /\ jobs[j].lease \in {"live", "none"}
  /\ jobs' = [jobs EXCEPT ![j] = ExpiredRow(j)]
  /\ IF \E p \in Syncers : Holds(p, j) THEN Fault ELSE faults' = faults
  /\ UNCHANGED <<claims, gone>>

\* the platform stops the invocation p
Stop(p) ==
  /\ Fault
  /\ claims' = [claims EXCEPT ![p] = {}]
  /\ UNCHANGED <<jobs, gone>>

\* the connection row is deleted, and its jobs with it (on delete cascade)
DropConn(c) ==
  /\ gone' = gone \cup {c}
  /\ jobs' = [j \in Jobs |-> IF jobs[j].conn = c THEN FreeRow ELSE jobs[j]]
  /\ UNCHANGED <<claims, faults>>

\* a job taken before leases existed may still be "running" when they are introduced
QInit ==
  /\ \/ jobs = [j \in Jobs |-> FreeRow]
     \/ \E j \in Jobs, c \in Conns :
          jobs = [[k \in Jobs |-> FreeRow] EXCEPT
                    ![j] = [conn |-> c, status |-> "running", tok |-> NoTok, lease |-> "none"]]
  /\ claims = [p \in Syncers |-> {}]
  /\ gone = {}
  /\ faults = 0

QNext ==
  \/ \E c \in Conns : Enqueue(c) \/ DropConn(c)
  \/ \E p \in Workers : WorkerClaim(p)
  \/ \E p \in Users, c \in Conns : UserClaim(p, c)
  \/ \E p \in Syncers : \/ \E cl \in claims[p], s \in {"succeeded", "failed"} : FinishJob(p, cl, s)
                        \/ Stop(p)
  \/ \E j \in Jobs : ExpireJob(j)

QSpec == QInit /\ [][QNext]_qvars

(***************************************************************************)
(* Fairness.  Cron runs the worker every five minutes, an invocation that  *)
(* is not stopped gets to the end of each of its claims, and a lease that  *)
(* nobody holds runs out.                                                  *)
(***************************************************************************)
FinishSome(p) == \E cl \in claims[p], s \in {"succeeded", "failed"} : FinishJob(p, cl, s)

OrphanExpires(j) == ExpireJob(j) /\ ~\E p \in Syncers : Holds(p, j)

QFairSpec ==
  /\ QSpec
  /\ \A p \in Workers : WF_qvars(WorkerClaim(p))
  /\ \A p \in Syncers : WF_qvars(FinishSome(p))
  /\ \A j \in Jobs : WF_qvars(OrphanExpires(j))

-----------------------------------------------------------------------------
\* only a running row has a lease or a token, and a row but a free one has a connection
Shaped(row) ==
  /\ row.status # "running" => row.tok = NoTok /\ row.lease = "none"
  /\ row.lease = "live" => row.tok \in Tokens
  /\ row.status # "free" => row.conn \in Conns

\* Types, and the shape of a row: finish_mail_sync_job clears the lease and the token of
\* a row, and no step gives a row a lease without a token.
QTypeOK ==
  /\ jobs \in [Jobs -> Row]
  /\ \A j \in Jobs : Shaped(jobs[j])
  /\ claims \in [Syncers -> SUBSET Claim]
  /\ gone \subseteq Conns
  /\ faults \in 0..MaxFaults

\* At most one job of a connection is queued or running, whoever enqueues, retakes or
\* finishes: the unique index sync_jobs_connection_active_uidx never refuses an insert.
OneActiveJob ==
  \A j, k \in Jobs : Active(j) /\ Active(k) /\ jobs[j].conn = jobs[k].conn => j = k

\* Two invocations never both own the same running job, although batches, manual syncs
\* and expired leases hand a job from one to another.
LeaseExclusive ==
  \A j \in Jobs : \A p, q \in Syncers : Holds(p, j) /\ Holds(q, j) => p = q

\* A deleted connection has no job, so nothing is claimed for it any more.
NoJobOfGone == \A j \in Jobs : jobs[j].conn \notin gone

\* Every job is finished, or goes with its connection, although workers crash and leases
\* expire; service_enqueue_mail_sync refuses new work for the connection until then.
JobsDrain == \A c \in Conns : ActiveJobs(c) # {} ~> ActiveJobs(c) = {}

(***************************************************************************)
(* The queue as LeaseQueue sees it.  A row without a lease (taken before   *)
(* leases existed) counts as leased until its ten minutes are over.        *)
(***************************************************************************)
HoldersOf(c) == {p \in Syncers : \E j \in ActiveJobs(c) : Holds(p, j)}

QueueWork ==
  [c \in Conns |-> IF ActiveJobs(c) = {} THEN "idle"
                   ELSE IF \E j \in ActiveJobs(c) : jobs[j].status = "queued" THEN "queued"
                   ELSE "owned"]

QueueOwner ==
  [c \in Conns |-> IF HoldersOf(c) = {} THEN NoConn ELSE CHOOSE p \in HoldersOf(c) : TRUE]

QueueLease ==
  [c \in Conns |-> \E j \in ActiveJobs(c) :
                     jobs[j].status = "running" /\ jobs[j].lease # "expired"]

Queue == INSTANCE LeaseQueue WITH
  Owners <- Syncers, Nobody <- NoConn,
  work <- QueueWork, owner <- QueueOwner, lease <- QueueLease

\* The queue keeps LeaseQueue's promise: a live lease is never taken over, a job that was
\* taken over is completed by its new owner only, and finished work does not come back.
LeasePromise == Queue!Spec
=============================================================================
