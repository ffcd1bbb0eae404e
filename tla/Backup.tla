------------------------------- MODULE Backup -------------------------------
(***************************************************************************)
(* Copies of a user's finances in the user's own cloud storage: the        *)
(* scheduled worker, a copy on demand, the restore with its safety copy,   *)
(* connecting, disconnecting and the schedule.  Every edge function is a   *)
(* process with one step per call it awaits; a database function is one    *)
(* step.  A user has one connection (unique (user_id, provider)), so the   *)
(* connection stands for the user too.  Days are ticks of a clock; a lease *)
(* (ten minutes) may run out at any moment of a day.                       *)
(***************************************************************************)
EXTENDS Integers, FiniteSets, Sequences

CONSTANTS
  Conns,      \* ids of public.storage_connections
  Postings,   \* transactions a user may have
  Workers,    \* concurrent invocations of cloud-backup-worker
  Users,      \* concurrent invocations of the functions users call
  Nobody,
  ClaimLimit, \* how many runs an invocation claims (query parameter "limit")
  MaxTime,    \* bound: days
  MaxFiles,   \* bound: files in the storage
  MaxAsks,    \* bound: what a user does (requests and schedules)
  MaxFaults   \* bound: failing calls, stops and leases that expire under their holder

Procs == Workers \cup Users
Days == 0..MaxTime
NoTime == -1
Frequencies == {"manual", "daily", "weekly"}

ASSUME BackupAssumption ==
  /\ Nobody \notin Procs /\ Nobody \notin Conns /\ Workers \cap Users = {}
  /\ ClaimLimit \in Nat \ {0} /\ MaxTime \in Nat /\ MaxFiles \in Nat /\ MaxAsks \in Nat /\ MaxFaults \in Nat

VARIABLES
  clock,   \* today
  conn,    \* public.storage_connections: status, backup_frequency, next_backup_at
  creds,   \* private.storage_oauth_credentials; "old": the access token has expired
  oauth,   \* private.storage_oauth_states: the user has one that can be consumed
  runs,    \* private.backup_runs, by connection and scheduled_for
  drive,   \* the files in the storage: the run they are labelled with, and their content
  backups, \* public.cloud_backups: run, file and checksum (the content it was made from)
  data,    \* the postings of each user
  pc, job, \* where an invocation is, and its local variables; job.late is a history:
           \* the postings that came since a restore read its safety copy
  batch,   \* the claims a worker has still to process
  quiet,   \* history: disconnected while nobody was about to write credentials
  asks,    \* what each user has done so far, for MaxAsks
  faults   \* faults so far, for MaxFaults

cloud == <<conn, creds, oauth, runs, drive, backups, data>>
mem == <<pc, job, batch>>
vars == <<clock, cloud, mem, quiet, asks, faults>>

NoRun == <<Nobody, NoTime>>
NoJob == [kind |-> "none", conn |-> Nobody, run |-> NoRun, freq |-> "manual",
          want |-> {}, doc |-> {}, file |-> 0, sum |-> {}, late |-> {}]
Pcs == {"idle", "batch", "token", "refresh", "download", "build", "find", "upload", "record",
        "restore", "finish", "fail", "exchange", "save", "revoke"}

\* nextBackupAt: a weekly copy is further away than a daily one, a manual one never comes
Period == [daily |-> 1, weekly |-> 2]
nextBackupAt(f, from) == IF f = "manual" THEN NoTime ELSE from + Period[f]

-----------------------------------------------------------------------------
Fault == faults < MaxFaults /\ faults' = faults + 1
Ask(c) == asks[c] < MaxAsks /\ asks' = [asks EXCEPT ![c] = @ + 1]
At(p, at) == pc[p] = at
C(p) == job[p].conn

\* an invocation that ends, or turns to its next claim, forgets its local variables
Goto(p, at, j) ==
  /\ pc' = [pc EXCEPT ![p] = at]
  /\ job' = [job EXCEPT ![p] = IF at \in {"idle", "batch"} THEN NoJob ELSE j]

AfterRun(p) == IF batch[p] = {} THEN "idle" ELSE "batch"

Due == {c \in Conns : conn[c].status = "active" /\ conn[c].freq # "manual" /\ conn[c].next \in 0..clock}

\* mutant: a failed run is not taken again
ClaimableOnce(r) == r.status = "none" \/ (r.status = "claimed" /\ ~r.live)

\* the insert of claim_cloud_backup_runs, and the where clause of its "on conflict"
Claimable(r) == r.status \in {"none", "failed"} \/ (r.status = "claimed" /\ ~r.live)

\* claim_cloud_backup_runs: the first ClaimLimit due connections, longest due first; those
\* whose run cannot be taken take up their place all the same
Claim(p) ==
  /\ At(p, "idle") /\ p \in Workers
  /\ \E S \in SUBSET Due :
       LET taken == {c \in S : Claimable(runs[c][conn[c].next])}
           Row(c) == [status |-> "claimed", tok |-> p, live |-> TRUE,
                      again |-> runs[c][conn[c].next].status # "none"]
       IN /\ Cardinality(S) = ClaimLimit \/ (Cardinality(S) < ClaimLimit /\ S = Due)
          /\ \A c \in S, d \in Due \ S : conn[c].next <= conn[d].next
          /\ taken # {}
          /\ runs' = [c \in Conns |-> IF c \in taken
                                        THEN [runs[c] EXCEPT ![conn[c].next] = Row(c)]
                                        ELSE runs[c]]
          /\ batch' = [batch EXCEPT ![p] =
                         {[conn |-> c, at |-> conn[c].next, freq |-> conn[c].freq] : c \in taken}]
  /\ Goto(p, "batch", NoJob)
  /\ UNCHANGED <<clock, conn, creds, oauth, drive, backups, data, quiet, asks, faults>>

AfterToken(kind) == IF kind = "restore" THEN "download" ELSE "build"

\* mutant: an error is taken for a success
OnErrorFinish(kind) == IF kind = "scheduled" THEN "finish" ELSE "idle"

OnError(kind) == IF kind = "scheduled" THEN "fail" ELSE "idle"

\* getStorageAccessToken: the stored token, or a new one that still has to be saved
ReadToken(p, j) ==
  Goto(p, CASE creds[j.conn] = "none" -> OnError(j.kind)
            [] creds[j.conn] = "old" -> "refresh"
            [] OTHER -> AfterToken(j.kind), j)

\* processClaim, for the next claim; the connection is taken to be active still
NextClaim(p) ==
  /\ At(p, "batch")
  /\ \E cl \in batch[p] :
       /\ ReadToken(p, [NoJob EXCEPT !.kind = "scheduled", !.conn = cl.conn,
                                     !.run = <<cl.conn, cl.at>>, !.freq = cl.freq])
       /\ batch' = [batch EXCEPT ![p] = @ \ {cl}]
  /\ UNCHANGED <<clock, cloud, quiet, asks, faults>>

\* cloud-backup-create and cloud-backup-restore look at the connection, and the latter at
\* the copy to go back to
Begin(p, c, kind, row) ==
  /\ At(p, "idle") /\ conn[c].status = "active" /\ Ask(c)
  /\ Goto(p, "token", [NoJob EXCEPT !.kind = kind, !.conn = c, !.file = row.file, !.sum = row.sum])
  /\ UNCHANGED <<clock, cloud, batch, quiet, faults>>

CreateBackup(p, c) == Begin(p, c, "manual", [file |-> 0, sum |-> {}])
RestoreBackup(p, c) == \E b \in backups : b.conn = c /\ Begin(p, c, "restore", b)

GetToken(p) ==
  /\ At(p, "token")
  /\ ReadToken(p, job[p])
  /\ UNCHANGED <<clock, cloud, batch, quiet, asks, faults>>

\* saveStorageTokens after the refresh: an insert or an update
Refresh(p) ==
  /\ At(p, "refresh")
  /\ creds' = [creds EXCEPT ![C(p)] = "good"]
  /\ Goto(p, AfterToken(job[p].kind), job[p])
  /\ UNCHANGED <<clock, conn, oauth, runs, drive, backups, data, batch, quiet, asks, faults>>

\* downloadBackupFile and the checksum: a file that is not what was recorded ends the restore
Download(p) ==
  LET content == drive[job[p].file].content
  IN /\ At(p, "download")
     /\ Goto(p, IF content = job[p].sum THEN "build" ELSE "idle",
              [job[p] EXCEPT !.want = content, !.sum = {}, !.file = 0])
     /\ UNCHANGED <<clock, cloud, batch, quiet, asks, faults>>

\* mutant: the safety copy is made of the document to go back to
DocumentToRestore(p) == IF job[p].kind = "restore" THEN job[p].want ELSE data[C(p)]

\* buildBackupDocument
Document(p) == data[C(p)]

Build(p) ==
  /\ At(p, "build")
  /\ Goto(p, IF job[p].kind = "scheduled" THEN "find" ELSE "upload", [job[p] EXCEPT !.doc = Document(p)])
  /\ UNCHANGED <<clock, cloud, batch, quiet, asks, faults>>

\* mutant: any file of a run of the user is taken for this run's
FilesOfUser(p) == {f \in 1..Len(drive) : drive[f].run[1] = C(p)}

FilesOfRun(p) == {f \in 1..Len(drive) : drive[f].run = job[p].run}

\* findGoogleRun: a file labelled with the run, if an earlier attempt left one
Find(p) ==
  /\ At(p, "find")
  /\ \E f \in IF FilesOfRun(p) = {} THEN {0} ELSE FilesOfRun(p) :
       Goto(p, "upload", [job[p] EXCEPT !.file = f])
  /\ UNCHANGED <<clock, cloud, batch, quiet, asks, faults>>

\* uploadGoogleDrive: the content of the file that was found, or a new file
Upload(p) ==
  LET f == IF job[p].file = 0 THEN Len(drive) + 1 ELSE job[p].file
  IN /\ At(p, "upload") /\ f <= MaxFiles
     /\ drive' = IF f \in 1..Len(drive) THEN [drive EXCEPT ![f].content = job[p].doc]
                 ELSE Append(drive, [run |-> job[p].run, content |-> job[p].doc])
     /\ Goto(p, "record", [job[p] EXCEPT !.file = f])
     /\ UNCHANGED <<clock, conn, creds, oauth, runs, backups, data, batch, quiet, asks, faults>>

\* cloud_backups: an upsert on the run, an insert when there is none
Record(p) ==
  LET same == {b \in backups : b.run = job[p].run /\ b.run # NoRun}
  IN /\ At(p, "record")
     /\ backups' = (backups \ same) \cup
          {[conn |-> C(p), run |-> job[p].run, file |-> job[p].file, sum |-> job[p].doc]}
     /\ Goto(p, CASE job[p].kind = "scheduled" -> "finish"
                  [] job[p].kind = "restore" -> "restore"
                  [] OTHER -> "idle", job[p])
     /\ UNCHANGED <<clock, conn, creds, oauth, runs, drive, data, batch, quiet, asks, faults>>

\* what comes to a user's data after a restore has read its safety copy
Late(c, S) ==
  [p \in Procs |->
     IF C(p) = c /\ job[p].kind = "restore" /\ pc[p] \in {"upload", "record", "restore"}
       THEN [job[p] EXCEPT !.late = @ \cup S] ELSE job[p]]

\* service_restore_user_backup: the postings are those of the document that was downloaded
Restore(p) ==
  /\ At(p, "restore")
  /\ data' = [data EXCEPT ![C(p)] = job[p].want]
  /\ pc' = [pc EXCEPT ![p] = "idle"]
  /\ job' = [Late(C(p), job[p].want) EXCEPT ![p] = NoJob]
  /\ UNCHANGED <<clock, conn, creds, oauth, runs, drive, backups, batch, quiet, asks, faults>>

Run(p) == runs[C(p)][job[p].run[2]]

Finished(p, s) == [Run(p) EXCEPT !.status = s, !.tok = Nobody, !.live = FALSE]
Owns(p) == Run(p).status = "claimed" /\ Run(p).tok = p

\* finish_cloud_backup_run: only the holder of the token, and only a success sets the
\* next date, which is counted from the date of this run
Finish(p, s) ==
  /\ At(p, IF s = "succeeded" THEN "finish" ELSE "fail")
  /\ runs' = IF Owns(p) THEN [runs EXCEPT ![C(p)][job[p].run[2]] = Finished(p, s)] ELSE runs
  /\ conn' = IF Owns(p) /\ s = "succeeded"
               THEN [conn EXCEPT ![C(p)].next = nextBackupAt(job[p].freq, job[p].run[2])]
               ELSE conn
  /\ Goto(p, AfterRun(p), NoJob)
  /\ UNCHANGED <<clock, creds, oauth, drive, backups, data, batch, quiet, asks, faults>>

-----------------------------------------------------------------------------
\* storage-backup-settings
SetFrequency(c, f) ==
  /\ conn[c].freq # f /\ Ask(c)
  /\ conn' = [conn EXCEPT ![c].freq = f, ![c].next = nextBackupAt(f, clock)]
  /\ UNCHANGED <<clock, creds, oauth, runs, drive, backups, data, mem, quiet, faults>>

\* storage-oauth-start stores a state for the callback; one that is not consumed within ten
\* minutes is one whose callback never comes
StartOAuth(c) ==
  /\ ~oauth[c] /\ Ask(c)
  /\ oauth' = [oauth EXCEPT ![c] = TRUE]
  /\ UNCHANGED <<clock, conn, creds, runs, drive, backups, data, mem, quiet, faults>>

\* storage-oauth-callback: consume_storage_oauth_state yields a state once
Consume(p, c) ==
  /\ At(p, "idle") /\ oauth[c]
  /\ oauth' = [oauth EXCEPT ![c] = FALSE]
  /\ Goto(p, "exchange", [NoJob EXCEPT !.kind = "connect", !.conn = c])
  /\ UNCHANGED <<clock, conn, creds, runs, drive, backups, data, batch, quiet, asks, faults>>

\* after the exchange of the code and the profile: the connection starts over, weekly
Connect(p) ==
  /\ At(p, "exchange")
  /\ conn' = [conn EXCEPT ![C(p)] = [status |-> "active", freq |-> "weekly",
                                       next |-> nextBackupAt("weekly", clock)]]
  /\ quiet' = [quiet EXCEPT ![C(p)] = FALSE]
  /\ Goto(p, "save", job[p])
  /\ UNCHANGED <<clock, creds, oauth, runs, drive, backups, data, batch, asks, faults>>

SaveTokens(p) ==
  /\ At(p, "save")
  /\ creds' = [creds EXCEPT ![C(p)] = "good"]
  /\ Goto(p, "idle", NoJob)
  /\ UNCHANGED <<clock, conn, oauth, runs, drive, backups, data, batch, quiet, asks, faults>>

\* mutant: the credentials stay
ForgetNothing(c) == creds

ForgetCredentials(c) == [creds EXCEPT ![c] = "none"]

AboutToSave(c) == \E q \in Procs : pc[q] \in {"refresh", "save"} /\ C(q) = c

\* storage-disconnect deletes the credentials ...
Disconnect(p, c) ==
  /\ At(p, "idle") /\ Ask(c)
  /\ creds' = ForgetCredentials(c)
  /\ quiet' = [quiet EXCEPT ![c] = ~AboutToSave(c)]
  /\ Goto(p, "revoke", [NoJob EXCEPT !.kind = "disconnect", !.conn = c])
  /\ UNCHANGED <<clock, conn, oauth, runs, drive, backups, data, batch, faults>>

\* ... and then marks the connection
Revoke(p) ==
  /\ At(p, "revoke")
  /\ conn' = [conn EXCEPT ![C(p)].status = "revoked"]
  /\ Goto(p, "idle", NoJob)
  /\ UNCHANGED <<clock, creds, oauth, runs, drive, backups, data, batch, quiet, asks, faults>>

-----------------------------------------------------------------------------
\* any awaited call may fail, with the effects of the step before or without them; when the
\* report of a failure fails, the invocation ends (Stop)
FailCall(p) ==
  /\ pc[p] \in {"token", "refresh", "download", "build", "find", "upload", "record", "restore",
               "finish", "exchange", "save", "revoke"}
  /\ Fault
  /\ Goto(p, OnError(job[p].kind), job[p])
  /\ UNCHANGED <<clock, cloud, batch, quiet, asks>>

\* the platform stops an invocation
Stop(p) ==
  /\ pc[p] # "idle" /\ Fault
  /\ Goto(p, "idle", NoJob)
  /\ batch' = [batch EXCEPT ![p] = {}]
  /\ UNCHANGED <<clock, cloud, quiet, asks>>

\* p has the run in its batch or is at work on it
Holds(p, c, t) ==
  /\ runs[c][t].tok = p
  /\ \/ \E cl \in batch[p] : cl.conn = c /\ cl.at = t
     \/ job[p].run = <<c, t>> /\ pc[p] \notin {"idle", "batch"}

\* a lease runs out; under its holder that is a fault
Expire(c, t) ==
  /\ runs[c][t].live
  /\ runs' = [runs EXCEPT ![c][t].live = FALSE]
  /\ IF \E p \in Workers : Holds(p, c, t) THEN Fault ELSE faults' = faults
  /\ UNCHANGED <<clock, conn, creds, oauth, drive, backups, data, mem, quiet, asks>>

\* the user, or a notification, adds a transaction
Post(c, x) ==
  /\ x \notin data[c]
  /\ data' = [data EXCEPT ![c] = @ \cup {x}]
  /\ job' = Late(c, {x})
  /\ UNCHANGED <<clock, conn, creds, oauth, runs, drive, backups, pc, batch, quiet, asks, faults>>

\* the next day: the platform lets no invocation run that long, and an access token lasts
\* an hour
Tick ==
  /\ clock < MaxTime /\ \A p \in Procs : pc[p] = "idle"
  /\ clock' = clock + 1
  /\ creds' = [c \in Conns |-> IF creds[c] = "none" THEN "none" ELSE "old"]
  /\ UNCHANGED <<conn, oauth, runs, drive, backups, data, mem, quiet, asks, faults>>

\* a user is connected and has a date for the next copy, or has disconnected
Init ==
  /\ clock \in Days
  /\ conn \in [Conns -> [status : {"active", "revoked"}, freq : {"daily"}, next : Days]]
  /\ creds \in [Conns -> {"none", "good", "old"}]
  /\ \A c \in Conns : conn[c].status = "active" <=> creds[c] # "none"
  /\ oauth = [c \in Conns |-> FALSE]
  /\ runs = [c \in Conns |-> [t \in Days |->
               [status |-> "none", tok |-> Nobody, live |-> FALSE, again |-> FALSE]]]
  /\ drive = <<>> /\ backups = {}
  /\ data \in [Conns -> SUBSET Postings]
  /\ pc = [p \in Procs |-> "idle"] /\ job = [p \in Procs |-> NoJob]
  /\ batch = [p \in Procs |-> {}]
  /\ quiet = [c \in Conns |-> conn[c].status = "revoked"]
  /\ asks \in [Conns -> 0..MaxAsks]
  /\ faults = 0

\* the worker, and the part of it the other functions share
Copying(p) ==
  \/ Claim(p) \/ NextClaim(p) \/ Refresh(p) \/ Build(p) \/ Find(p) \/ Upload(p) \/ Record(p)
  \/ \E s \in {"succeeded", "failed"} : Finish(p, s)

Step(p) ==
  Copying(p) \/ GetToken(p) \/ Download(p) \/ Restore(p) \/ Connect(p) \/ SaveTokens(p) \/ Revoke(p)

Request(p, c) == CreateBackup(p, c) \/ RestoreBackup(p, c) \/ Consume(p, c) \/ Disconnect(p, c)

Next ==
  \/ \E p \in Procs : Step(p) \/ FailCall(p) \/ Stop(p)
  \/ \E p \in Users, c \in Conns : Request(p, c)
  \/ \E c \in Conns : \/ StartOAuth(c)
                      \/ \E f \in Frequencies : SetFrequency(c, f)
                      \/ \E t \in Days : Expire(c, t)
                      \/ \E x \in Postings : Post(c, x)
  \/ Tick

Spec == Init /\ [][Next]_vars

(***************************************************************************)
(* Fairness.  Cron invokes the worker every hour, an invocation that is    *)
(* not stopped comes to its end, and a lease nobody holds runs out.        *)
(***************************************************************************)
OrphanExpires ==
  \E c \in Conns, t \in Days : Expire(c, t) /\ ~\E p \in Workers : Holds(p, c, t)

Fairness == WF_vars(OrphanExpires) /\ \A p \in Workers : WF_vars(Copying(p))

FairSpec == Spec /\ Fairness

-----------------------------------------------------------------------------
Job == [kind : {"none", "scheduled", "manual", "restore", "connect", "disconnect"},
        conn : Conns \cup {Nobody}, run : (Conns \X Days) \cup {NoRun}, freq : Frequencies,
        want : SUBSET Postings, doc : SUBSET Postings, file : 0..MaxFiles, sum : SUBSET Postings,
        late : SUBSET Postings]

\* Types; a file number an invocation or a row carries is that of a file that exists, a
\* claimed run has a token and a worker at work has a run.
TypeOK ==
  /\ clock \in Days
  /\ conn \in [Conns -> [status : {"active", "revoked"}, freq : Frequencies,
                        next : {NoTime} \cup 0..(MaxTime + Period.weekly)]]
  /\ creds \in [Conns -> {"none", "good", "old"}]
  /\ oauth \in [Conns -> BOOLEAN] /\ quiet \in [Conns -> BOOLEAN]
  /\ runs \in [Conns -> [Days -> [status : {"none", "claimed", "failed", "succeeded"},
                                 tok : Workers \cup {Nobody}, live : BOOLEAN, again : BOOLEAN]]]
  /\ Len(drive) <= MaxFiles
  /\ \A f \in 1..Len(drive) : drive[f] \in [run : (Conns \X Days) \cup {NoRun}, content : SUBSET Postings]
  /\ backups \subseteq [conn : Conns, run : (Conns \X Days) \cup {NoRun}, file : 1..Len(drive),
                       sum : SUBSET Postings]
  /\ data \in [Conns -> SUBSET Postings]
  /\ pc \in [Procs -> Pcs] /\ job \in [Procs -> Job]
  /\ batch \in [Procs -> SUBSET [conn : Conns, at : Days, freq : Frequencies]]
  /\ asks \in [Conns -> 0..MaxAsks] /\ faults \in 0..MaxFaults
  /\ \A p \in Procs : /\ job[p].file <= Len(drive)
                      /\ pc[p] \in {"find", "finish", "fail"} => job[p].run \in Conns \X Days
  /\ \A c \in Conns, t \in Days : runs[c][t].status = "claimed" <=> runs[c][t].tok # Nobody

\* A copy can be restored (its file has the recorded checksum) as long as its run was taken
\* once only.  A run that is taken again rewrites the file of its first attempt, and until
\* that attempt is recorded, or when an overrunning one is recorded later, it cannot.
CopyRestorable ==
  \A b \in backups :
    (b.run = NoRun \/ ~runs[b.run[1]][b.run[2]].again) => drive[b.file].content = b.sum

\* What a restore takes away is in a recorded copy of the same user, or came after the safety
\* copy was read, posted or brought back by another restore: cloud-backup-restore does not lock
\* the user's data in between.
OnlyLatePostingsLost ==
  [][\A c \in Conns : \A x \in data[c] \ data'[c] :
       \/ \E b \in backups : b.conn = c /\ x \in b.sum
       \/ \E p \in Users : x \in job[p].late]_vars

\* The schedule moves on from a date only when a copy made for that date has been recorded,
\* or when the user chooses another schedule or connects again.
NoDateSkipped ==
  [][\A c \in Conns :
       conn'[c].next # conn[c].next =>
         \/ conn'[c].freq # conn[c].freq
         \/ \E p \in Users : pc[p] = "exchange" /\ C(p) = c
         \/ \E b \in backups, p \in Workers : b.run = <<c, job[p].run[2]>> /\ pc[p] = "finish"]_vars

\* After a disconnect the credentials stay deleted until the user connects again, unless a
\* refresh or a callback had its new tokens in hand when they were deleted: it writes them
\* back (saveStorageTokens inserts), and nothing deletes them a second time.
NoOrphanCredentials == \A c \in Conns : quiet[c] => creds[c] = "none"

\* A copy that is due is made, or its date is changed by the user, although calls fail and
\* workers stop, as long as the connection has credentials.  One that lost them and stayed
\* active (a disconnect that stopped half way) fails for ever.
DueIsCopied ==
  \A c \in Conns : (c \in Due /\ creds[c] # "none") ~> (c \notin Due \/ creds[c] = "none")
=============================================================================
