---------------------------- MODULE BackupProofs ----------------------------
(***************************************************************************)
(* Proofs about Backup, for any connections, postings, workers, users and  *)
(* bounds.  The base of all is where an invocation of each kind can be and *)
(* what it has in its hands there (Place), and which files it and the rows *)
(* name (FilesTrue).  On it rest: a disconnect that nobody undoes, a date  *)
(* that moves on only after its copy, a restore that loses only what came  *)
(* late, and copies that can be restored.                                  *)
(***************************************************************************)
EXTENDS Backup, TLAPS

\* Types.
AllRuns == (Conns \X Days) \cup {NoRun}
Kinds == {"none", "scheduled", "manual", "restore", "connect", "disconnect"}
JobSpace == [kind : Kinds, conn : Conns \cup {Nobody}, run : AllRuns, freq : Frequencies,
             want : SUBSET Postings, doc : SUBSET Postings, file : Nat, sum : SUBSET Postings,
             late : SUBSET Postings]
ClaimSpace == [conn : Conns, at : Days, freq : Frequencies]
FileSpace == [run : AllRuns, content : SUBSET Postings]
RowSpace == [conn : Conns, run : AllRuns, file : Nat, sum : SUBSET Postings]
RunSpace == [status : {"none", "claimed", "failed", "succeeded"},
             tok : Procs \cup {Nobody}, live : BOOLEAN, again : BOOLEAN]

\* Where an invocation of each kind can be, with what in its hands.
Place(p, at, j, b) ==
  /\ at \in Pcs /\ j \in JobSpace /\ b \in SUBSET ClaimSpace
  /\ at \in {"idle", "batch"} <=> j.kind = "none"
  /\ j.kind = "none" => j = NoJob
  /\ j.kind # "none" => j.conn \in Conns
  /\ j.kind = "scheduled" =>
       /\ p \in Workers
       /\ at \in {"refresh", "build", "find", "upload", "record", "finish", "fail"}
       /\ \E t \in Days : j.run = <<j.conn, t>>
       /\ j.file # 0 => at \in {"upload", "record", "finish", "fail"}
  /\ j.kind # "scheduled" => j.run = NoRun
  /\ j.kind \notin {"none", "scheduled"} => p \in Users
  /\ j.kind = "manual" => /\ at \in {"token", "refresh", "build", "upload", "record"}
                          /\ j.file # 0 => at = "record"
  /\ j.kind = "restore" =>
       /\ at \in {"token", "refresh", "download", "build", "upload", "record", "restore"}
       /\ j.file # 0 => at \notin {"build", "upload"}
  /\ j.kind = "connect" => at \in {"exchange", "save"}
  /\ j.kind = "disconnect" => at = "revoke"
  /\ at = "batch" => p \in Workers
  /\ at = "idle" \/ p \in Users => b = {}
  /\ \A d, e \in b : d.conn = e.conn => d = e
  /\ \A d \in b : d.conn # j.conn

\* The tables and histories have their types.
Tables ==
  /\ clock \in Days
  /\ conn \in [Conns -> [status : {"active", "revoked"}, freq : Frequencies, next : Int]]
  /\ creds \in [Conns -> {"none", "good", "old"}]
  /\ quiet \in [Conns -> BOOLEAN]
  /\ runs \in [Conns -> [Days -> RunSpace]]
  /\ drive \in Seq(FileSpace)
  /\ backups \subseteq RowSpace
  /\ data \in [Conns -> SUBSET Postings]

\* Every invocation is in its place.
Places ==
  /\ pc \in [Procs -> Pcs] /\ job \in [Procs -> JobSpace]
  /\ batch \in [Procs -> SUBSET ClaimSpace]
  /\ \A p \in Procs : Place(p, pc[p], job[p], batch[p])

Base == Tables /\ Places

\* What stands for no run is no run.
LEMMA Distinct == NoRun \notin Conns \X Days /\ Nobody \notin Conns
BY BackupAssumption DEF NoRun, NoTime, Days

\* An idle invocation is in its place.
LEMMA NoJobFits == NoJob \in JobSpace /\ \A p \in Procs : Place(p, "idle", NoJob, {})
BY Distinct DEF NoJob, JobSpace, Kinds, AllRuns, Frequencies, Place, Pcs

\* One invocation moves; every other stays where it is.
Moves(p, at, j, b) ==
  /\ pc' = [pc EXCEPT ![p] = at]
  /\ job' = [job EXCEPT ![p] = j]
  /\ batch' = [batch EXCEPT ![p] = b]

\* When one that moves is in its new place, all are.
LEMMA PlacesAfterMove ==
  ASSUME Places, NEW p \in Procs, NEW at, NEW j, NEW b, Place(p, at, j, b), Moves(p, at, j, b)
  PROVE  Places' /\ pc'[p] = at /\ job'[p] = j /\ batch'[p] = b
<1>1. at \in Pcs /\ j \in JobSpace /\ b \in SUBSET ClaimSpace
  BY DEF Place
<1>2. /\ pc' \in [Procs -> Pcs] /\ job' \in [Procs -> JobSpace]
      /\ batch' \in [Procs -> SUBSET ClaimSpace]
      /\ pc'[p] = at /\ job'[p] = j /\ batch'[p] = b
      /\ \A q \in Procs \ {p} : pc'[q] = pc[q] /\ job'[q] = job[q] /\ batch'[q] = batch[q]
  BY <1>1 DEF Places, Moves
<1>3. ASSUME NEW q \in Procs PROVE Place(q, pc'[q], job'[q], batch'[q])
  <2>1. CASE q = p
    BY <1>2, <2>1
  <2>2. CASE q # p
    <3>1. Place(q, pc[q], job[q], batch[q])
      BY DEF Places
    <3> QED BY <1>2, <2>2, <3>1
  <2> QED BY <2>1, <2>2
<1>4. (\A q \in Procs : Place(q, pc[q], job[q], batch[q]))'
  BY <1>3
<1> QED BY <1>2, <1>4 DEF Places

\* Goto is such a move when nothing else changes the claims at hand.
LEMMA GotoMoves ==
  ASSUME NEW p, NEW at, NEW j, NEW b, Goto(p, at, j), batch' = [batch EXCEPT ![p] = b]
  PROVE  Moves(p, at, IF at \in {"idle", "batch"} THEN NoJob ELSE j, b)
BY DEF Goto, Moves

\* Claims that stay are claims rewritten as they are.
LEMMA SameBatch ==
  ASSUME Places, NEW p \in Procs, batch' = batch
  PROVE  batch' = [batch EXCEPT ![p] = batch[p]]
BY DEF Places

\* After a run a worker turns to its next claim, or ends.
LEMMA GoesAfterRun ==
  ASSUME Places, NEW p \in Procs, p \in Workers
  PROVE  Place(p, AfterRun(p), NoJob, batch[p])
<1>1. /\ batch[p] \in SUBSET ClaimSpace
      /\ \A d, e \in batch[p] : d.conn = e.conn => d = e
  BY DEF Places, Place
<1>2. \A d \in batch[p] : d.conn # NoJob.conn
  BY <1>1, Distinct DEF NoJob, ClaimSpace
<1>3. NoJob.kind = "none" /\ NoJob \in JobSpace /\ NoJob.run = NoRun
  BY NoJobFits DEF NoJob
<1>4. p \notin Users
  BY BackupAssumption
<1> QED BY <1>1, <1>2, <1>3, <1>4 DEF Place, AfterRun, Pcs

\* claim_cloud_backup_runs: a worker with its claims, one for each connection.
LEMMA ClaimPlaces ==
  ASSUME Base, NEW p \in Procs, Claim(p)
  PROVE  \E b : Place(p, "batch", NoJob, b) /\ Moves(p, "batch", NoJob, b)
<1>1. PICK S \in SUBSET Due :
        batch' = [batch EXCEPT ![p] =
                   {[conn |-> c, at |-> conn[c].next, freq |-> conn[c].freq] :
                      c \in {d \in S : Claimable(runs[d][conn[d].next])}}]
  BY DEF Claim
<1> DEFINE B == {[conn |-> c, at |-> conn[c].next, freq |-> conn[c].freq] :
                   c \in {d \in S : Claimable(runs[d][conn[d].next])}}
<1>2. ASSUME NEW d \in B
      PROVE  d \in ClaimSpace
  <2>1. PICK c \in S : d = [conn |-> c, at |-> conn[c].next, freq |-> conn[c].freq]
    OBVIOUS
  <2>2. c \in Conns /\ conn[c].next \in 0..clock /\ conn[c].freq \in Frequencies
    BY DEF Due, Base, Tables
  <2>3. conn[c].next \in Days
    BY <2>2, BackupAssumption DEF Days, Base, Tables
  <2> QED BY <2>1, <2>2, <2>3 DEF ClaimSpace
<1>3. \A d, e \in B : d.conn = e.conn => d = e
  OBVIOUS
<1>4. B \in SUBSET ClaimSpace
  BY <1>2
<1>5. p \in Workers /\ p \notin Users
  BY BackupAssumption DEF Claim
<1>6. \A d \in B : d.conn # NoJob.conn
  BY <1>4, Distinct DEF NoJob, ClaimSpace
<1>7. NoJob.kind = "none" /\ NoJob \in JobSpace /\ NoJob.run = NoRun
  BY NoJobFits DEF NoJob
<1>8. Goto(p, "batch", NoJob) /\ batch' = [batch EXCEPT ![p] = B]
  BY <1>1 DEF Claim
<1> HIDE DEF B
<1>9. Place(p, "batch", NoJob, B)
  BY <1>3, <1>4, <1>5, <1>6, <1>7 DEF Place, Pcs
<1>10. Moves(p, "batch", NoJob, B)
  BY <1>8, GotoMoves
<1> QED BY <1>9, <1>10

\* A job whose token has been read goes on, or fails.
LEMMA ReadTokenPlaces ==
  ASSUME Tables, NEW p \in Procs, NEW j \in JobSpace, NEW b, j.conn \in Conns,
         \A at \in {OnError(j.kind), "refresh", AfterToken(j.kind)} :
           Place(p, at, IF at = "idle" THEN NoJob ELSE j, b),
         ReadToken(p, j), batch' = [batch EXCEPT ![p] = b]
  PROVE  \E at \in {OnError(j.kind), "refresh", AfterToken(j.kind)} :
            LET k == IF at = "idle" THEN NoJob ELSE j
            IN /\ Place(p, at, k, b) /\ Moves(p, at, k, b)
               /\ at = "refresh" <=> creds[j.conn] = "old"
<1>1. creds[j.conn] \in {"none", "good", "old"}
  BY DEF Tables
<1>2. PICK at \in {OnError(j.kind), "refresh", AfterToken(j.kind)} :
        Goto(p, at, j) /\ (at = "refresh" <=> creds[j.conn] = "old")
  BY <1>1 DEF ReadToken, OnError, AfterToken
<1>3. at # "batch"
  BY DEF OnError, AfterToken
<1>4. Moves(p, at, IF at \in {"idle", "batch"} THEN NoJob ELSE j, b)
  BY <1>2, GotoMoves
<1> QED BY <1>2, <1>3, <1>4

\* The job of a claim.
Claimed(cl) == [NoJob EXCEPT !.kind = "scheduled", !.conn = cl.conn,
                             !.run = <<cl.conn, cl.at>>, !.freq = cl.freq]

\* The job of a claim has its connection and its run, and no file.
LEMMA ClaimedFields ==
  ASSUME NEW cl \in ClaimSpace
  PROVE  /\ Claimed(cl) \in JobSpace /\ Claimed(cl).kind = "scheduled"
         /\ Claimed(cl).conn = cl.conn /\ Claimed(cl).run = <<cl.conn, cl.at>>
         /\ Claimed(cl).file = 0 /\ Claimed(cl).freq = cl.freq
BY NoJobFits DEF NoJob, Claimed, JobSpace, ClaimSpace, Kinds, AllRuns

\* processClaim: the job of the next claim; the token is refreshed only if it is old.
LEMMA NextClaimPlaces ==
  ASSUME Base, NEW p \in Procs, NextClaim(p)
  PROVE  \E cl \in batch[p], at \in {"fail", "refresh", "build"} :
           /\ Place(p, at, Claimed(cl), batch[p] \ {cl})
           /\ Moves(p, at, Claimed(cl), batch[p] \ {cl})
           /\ at = "refresh" <=> creds[cl.conn] = "old"
<1>1. PICK cl \in batch[p] : /\ ReadToken(p, Claimed(cl))
                             /\ batch' = [batch EXCEPT ![p] = @ \ {cl}]
  BY DEF NextClaim, Claimed
<1>2. Place(p, pc[p], job[p], batch[p]) /\ pc[p] = "batch" /\ p \in DOMAIN batch
  BY DEF NextClaim, Base, Places, At
<1>3. cl \in ClaimSpace /\ cl.conn \in Conns /\ cl.at \in Days
  BY <1>2 DEF Place, ClaimSpace
<1> DEFINE j == Claimed(cl)
           b == batch[p] \ {cl}
<1>4. /\ j \in JobSpace /\ j.kind = "scheduled" /\ j.conn = cl.conn
      /\ j.run = <<cl.conn, cl.at>> /\ j.file = 0
  BY <1>3, ClaimedFields
<1>5. batch' = [batch EXCEPT ![p] = b]
  BY <1>1, <1>2
<1>6. /\ b \in SUBSET ClaimSpace /\ p \in Workers /\ p \notin Users
      /\ \A d, e \in b : d.conn = e.conn => d = e
      /\ \A d \in b : d.conn # cl.conn
  BY <1>2, BackupAssumption DEF Place
<1>7. OnError(j.kind) = "fail" /\ AfterToken(j.kind) = "build"
  BY <1>4 DEF OnError, AfterToken
<1> HIDE DEF j, b
<1>8. \A at \in {"fail", "refresh", "build"} : Place(p, at, j, b)
  BY <1>3, <1>4, <1>6 DEF Place, Pcs
<1>9. ReadToken(p, j)
  BY <1>1 DEF j
<1>10. \A at \in {OnError(j.kind), "refresh", AfterToken(j.kind)} :
         at # "idle" /\ Place(p, at, IF at = "idle" THEN NoJob ELSE j, b)
  BY <1>7, <1>8
<1>11. \E at \in {OnError(j.kind), "refresh", AfterToken(j.kind)} :
         LET k == IF at = "idle" THEN NoJob ELSE j
         IN /\ Place(p, at, k, b) /\ Moves(p, at, k, b)
            /\ at = "refresh" <=> creds[j.conn] = "old"
  BY <1>3, <1>4, <1>5, <1>9, <1>10, ReadTokenPlaces DEF Base
<1>12. \E at \in {"fail", "refresh", "build"} :
            /\ Place(p, at, j, b) /\ Moves(p, at, j, b)
            /\ at = "refresh" <=> creds[cl.conn] = "old"
  BY <1>4, <1>7, <1>10, <1>11
<1> QED BY <1>12 DEF j, b

\* What the steps write into a job leaves its kind, its connection and its run alone.
Alike(k, j) ==
  /\ k \in JobSpace /\ k.kind = j.kind /\ k.conn = j.conn /\ k.run = j.run /\ k.freq = j.freq
  /\ k.want \in SUBSET Postings

\* The step of an invocation that goes on with its job, or ends.
LEMMA GoesOn ==
  ASSUME Places, NEW p \in Procs, NEW at, NEW j, Goto(p, at, j), batch' = batch,
         at # "idle" => at # "batch" /\ Place(p, at, j, batch[p]),
         at = "idle" => p \in Users
  PROVE  LET k == IF at = "idle" THEN NoJob ELSE j
         IN Place(p, at, k, batch[p]) /\ Moves(p, at, k, batch[p])
<1>1. batch' = [batch EXCEPT ![p] = batch[p]]
  BY SameBatch
<1>2. Moves(p, at, IF at \in {"idle", "batch"} THEN NoJob ELSE j, batch[p])
  BY <1>1, GotoMoves
<1>3. CASE at = "idle"
  <2>1. batch[p] = {}
    BY <1>3 DEF Places, Place
  <2> QED BY <1>2, <1>3, <2>1, NoJobFits
<1>4. CASE at # "idle"
  BY <1>2, <1>4
<1> QED BY <1>3, <1>4

\* A function a user calls begins with the connection, and no run.
LEMMA BeginPlaces ==
  ASSUME Base, NEW p \in Users, NEW c \in Conns, NEW kind \in {"manual", "restore"}, NEW row,
         row.file \in Nat, row.sum \in SUBSET Postings, kind = "manual" => row.file = 0,
         Begin(p, c, kind, row)
  PROVE  LET j == [NoJob EXCEPT !.kind = kind, !.conn = c, !.file = row.file, !.sum = row.sum]
         IN /\ j.kind = kind /\ j.conn = c /\ j.run = NoRun
            /\ Place(p, "token", j, batch[p]) /\ Moves(p, "token", j, batch[p])
<1> DEFINE j == [NoJob EXCEPT !.kind = kind, !.conn = c, !.file = row.file, !.sum = row.sum]
<1>1. j \in JobSpace /\ j.kind = kind /\ j.conn = c /\ j.run = NoRun /\ j.file = row.file
  BY NoJobFits DEF NoJob, JobSpace, Kinds
<1>2. p \in Procs /\ p \notin Workers /\ batch[p] = {}
  BY BackupAssumption DEF Procs, Base, Places, Place
<1>3. Goto(p, "token", j) /\ batch' = batch
  BY DEF Begin
<1> HIDE DEF j
<1>4. Place(p, "token", j, batch[p])
  BY <1>1, <1>2 DEF Place, Pcs
<1>5. LET k == IF "token" = "idle" THEN NoJob ELSE j
      IN Place(p, "token", k, batch[p]) /\ Moves(p, "token", k, batch[p])
  BY <1>2, <1>3, <1>4, GoesOn DEF Base
<1> QED BY <1>1, <1>5 DEF j

\* Connecting and disconnecting.
LEMMA RequestPlaces ==
  ASSUME Base, NEW p \in Users, NEW c \in Conns
  PROVE  /\ Consume(p, c) =>
              LET j == [NoJob EXCEPT !.kind = "connect", !.conn = c]
              IN /\ j.kind = "connect" /\ j.conn = c /\ j.run = NoRun
                 /\ Place(p, "exchange", j, batch[p]) /\ Moves(p, "exchange", j, batch[p])
         /\ Disconnect(p, c) =>
              LET j == [NoJob EXCEPT !.kind = "disconnect", !.conn = c]
              IN /\ j.kind = "disconnect" /\ j.conn = c /\ j.run = NoRun
                 /\ Place(p, "revoke", j, batch[p]) /\ Moves(p, "revoke", j, batch[p])
<1>2. p \in Procs /\ p \notin Workers /\ batch[p] = {}
  BY BackupAssumption DEF Procs, Base, Places, Place
<1>3. ASSUME NEW kind \in {"connect", "disconnect"}, NEW at,
             at = IF kind = "connect" THEN "exchange" ELSE "revoke",
             batch' = batch, Goto(p, at, [NoJob EXCEPT !.kind = kind, !.conn = c])
      PROVE  LET j == [NoJob EXCEPT !.kind = kind, !.conn = c]
             IN /\ j.kind = kind /\ j.conn = c /\ j.run = NoRun
                /\ Place(p, at, j, batch[p]) /\ Moves(p, at, j, batch[p])
  <2> DEFINE j == [NoJob EXCEPT !.kind = kind, !.conn = c]
  <2>1. j \in JobSpace /\ j.kind = kind /\ j.conn = c /\ j.run = NoRun /\ j.file = 0
    BY NoJobFits DEF NoJob, JobSpace, Kinds
  <2>2. Goto(p, at, j)
    BY <1>3
  <2> HIDE DEF j
  <2>3. at # "idle" /\ at # "batch" /\ Place(p, at, j, batch[p])
    BY <1>2, <1>3, <2>1 DEF Place, Pcs
  <2>4. LET k == IF at = "idle" THEN NoJob ELSE j
        IN Place(p, at, k, batch[p]) /\ Moves(p, at, k, batch[p])
    BY <1>2, <1>3, <2>2, <2>3, GoesOn DEF Base
  <2> QED BY <2>1, <2>3, <2>4 DEF j
<1>4. Consume(p, c) =>
              LET j == [NoJob EXCEPT !.kind = "connect", !.conn = c]
              IN /\ j.kind = "connect" /\ j.conn = c /\ j.run = NoRun
                 /\ Place(p, "exchange", j, batch[p]) /\ Moves(p, "exchange", j, batch[p])
  BY <1>3 DEF Consume
<1>5. Disconnect(p, c) =>
              LET j == [NoJob EXCEPT !.kind = "disconnect", !.conn = c]
              IN /\ j.kind = "disconnect" /\ j.conn = c /\ j.run = NoRun
                 /\ Place(p, "revoke", j, batch[p]) /\ Moves(p, "revoke", j, batch[p])
  BY <1>3 DEF Disconnect
<1> QED BY <1>4, <1>5

\* Where a job is, by its kind; what it becomes when a call fails.
LEMMA PlaceOf ==
  ASSUME Places, NEW p \in Procs, pc[p] \notin {"idle", "batch"}
  PROVE  /\ Place(p, pc[p], job[p], batch[p]) /\ job[p] \in JobSpace
         /\ job[p].kind # "none" /\ C(p) \in Conns
         /\ pc[p] \in {"find", "finish", "fail"} => job[p].kind = "scheduled"
         /\ pc[p] \in {"token", "download", "restore", "exchange", "save", "revoke"} =>
              job[p].kind # "scheduled" /\ p \in Users
         /\ pc[p] = "token" => job[p].kind \in {"manual", "restore"}
         /\ pc[p] \in {"download", "restore"} => job[p].kind = "restore"
         /\ pc[p] \in {"exchange", "save"} => job[p].kind = "connect"
         /\ pc[p] = "revoke" => job[p].kind = "disconnect"
         /\ pc[p] \in {"refresh", "build", "upload", "record"} =>
              job[p].kind \in {"scheduled", "manual", "restore"}
         /\ job[p].kind \notin {"none", "scheduled"} => p \in Users
<1>1. Place(p, pc[p], job[p], batch[p])
  BY DEF Places
<1>2. pc[p] \in Pcs /\ job[p] \in JobSpace /\ job[p].kind \in Kinds
  BY <1>1 DEF Place, JobSpace
<1> QED BY <1>1, <1>2 DEF Place, C, Pcs, Kinds

\* A call that fails: a worker reports it, any other invocation ends.
LEMMA FailCallPlaces ==
  ASSUME Base, NEW p \in Procs, FailCall(p)
  PROVE  LET at == OnError(job[p].kind)
             j == IF at = "idle" THEN NoJob ELSE job[p]
         IN /\ at \in {"idle", "fail"}
            /\ Place(p, at, j, batch[p]) /\ Moves(p, at, j, batch[p])
<1>1. pc[p] \notin {"idle", "batch"} /\ Goto(p, OnError(job[p].kind), job[p]) /\ batch' = batch
  BY DEF FailCall
<1>2. /\ Place(p, pc[p], job[p], batch[p]) /\ job[p].kind # "none"
      /\ job[p].kind # "scheduled" => p \in Users
  BY <1>1, PlaceOf DEF Base
<1>3. OnError(job[p].kind) = "fail" => Place(p, "fail", job[p], batch[p])
  BY <1>2 DEF Place, OnError, Pcs
<1>4. /\ OnError(job[p].kind) \in {"idle", "fail"}
      /\ OnError(job[p].kind) = "idle" => p \in Users
  BY <1>2 DEF OnError
<1> QED BY <1>1, <1>3, <1>4, GoesOn DEF Base

\* An invocation that is stopped is idle.
LEMMA StopPlaces ==
  ASSUME Base, NEW p \in Procs, Stop(p)
  PROVE  Place(p, "idle", NoJob, {}) /\ Moves(p, "idle", NoJob, {})
BY NoJobFits, GotoMoves DEF Stop

\* getStorageAccessToken: a refresh of an old token, a download or a copy.
LEMMA TokenPlaces ==
  ASSUME Base, NEW p \in Procs, GetToken(p)
  PROVE  \E at \in {"idle", "refresh", "download", "build"} :
            LET j == IF at = "idle" THEN NoJob ELSE job[p]
            IN /\ Place(p, at, j, batch[p]) /\ Moves(p, at, j, batch[p])
               /\ at = "refresh" <=> creds[C(p)] = "old"
               /\ at = "build" => job[p].kind = "manual"
               /\ at = "download" => job[p].kind = "restore"
<1>1. pc[p] = "token" /\ ReadToken(p, job[p]) /\ batch' = batch
  BY DEF GetToken, At
<1>2. /\ Place(p, "token", job[p], batch[p]) /\ job[p].kind \in {"manual", "restore"}
      /\ job[p] \in JobSpace /\ job[p].conn \in Conns
  BY <1>1, PlaceOf DEF Base, C
<1>3. /\ OnError(job[p].kind) = "idle"
      /\ AfterToken(job[p].kind) = IF job[p].kind = "manual" THEN "build" ELSE "download"
  BY <1>2 DEF OnError, AfterToken
<1>4. batch[p] = {}
  BY <1>2 DEF Place
<1>5. \A at \in {OnError(job[p].kind), "refresh", AfterToken(job[p].kind)} :
           Place(p, at, IF at = "idle" THEN NoJob ELSE job[p], batch[p])
  BY <1>2, <1>3, <1>4, NoJobFits DEF Place, Pcs
<1>6. batch' = [batch EXCEPT ![p] = batch[p]]
  BY <1>1, SameBatch DEF Base
<1>7. \E at \in {OnError(job[p].kind), "refresh", AfterToken(job[p].kind)} :
            LET k == IF at = "idle" THEN NoJob ELSE job[p]
            IN /\ Place(p, at, k, batch[p]) /\ Moves(p, at, k, batch[p])
               /\ at = "refresh" <=> creds[job[p].conn] = "old"
  BY <1>1, <1>2, <1>5, <1>6, ReadTokenPlaces DEF Base
<1>8. PICK at \in {OnError(job[p].kind), "refresh", AfterToken(job[p].kind)} :
         LET k == IF at = "idle" THEN NoJob ELSE job[p]
         IN /\ Place(p, at, k, batch[p]) /\ Moves(p, at, k, batch[p])
            /\ at = "refresh" <=> creds[job[p].conn] = "old"
  BY <1>7
<1>9. /\ at \in {"idle", "refresh", "download", "build"}
      /\ at = "build" => job[p].kind = "manual"
      /\ at = "download" => job[p].kind = "restore"
  BY <1>2, <1>3
<1> QED BY <1>8, <1>9 DEF C

\* The refreshed token is saved, and the job goes on.
LEMMA RefreshPlaces ==
  ASSUME Base, NEW p \in Procs, Refresh(p)
  PROVE  LET at == AfterToken(job[p].kind)
         IN at \in {"download", "build"} /\ Place(p, at, job[p], batch[p]) /\ Moves(p, at, job[p], batch[p])
<1>1. pc[p] = "refresh" /\ Goto(p, AfterToken(job[p].kind), job[p]) /\ batch' = batch
  BY DEF Refresh, At
<1>2. Place(p, "refresh", job[p], batch[p]) /\ job[p].kind \in {"scheduled", "manual", "restore"}
  BY <1>1, PlaceOf DEF Base
<1>3. AfterToken(job[p].kind) \in {"download", "build"}
  BY DEF AfterToken
<1>4. Place(p, AfterToken(job[p].kind), job[p], batch[p])
  BY <1>2 DEF Place, AfterToken, Pcs
<1> QED BY <1>1, <1>3, <1>4, GoesOn DEF Base

\* downloadBackupFile: what was downloaded is what will be restored, or the restore ends.
LEMMA DownloadPlaces ==
  ASSUME Base, NEW p \in Procs, Download(p), drive[job[p].file].content \in SUBSET Postings
  PROVE  \E at \in {"idle", "build"} : \E k :
           /\ Place(p, at, k, batch[p]) /\ Moves(p, at, k, batch[p])
           /\ at = "idle" => k = NoJob
           /\ at = "build" => Alike(k, job[p]) /\ k.kind = "restore" /\ k.file = 0
<1> DEFINE D == drive[job[p].file].content
           j == [job[p] EXCEPT !.want = D, !.sum = {}, !.file = 0]
           at == IF D = job[p].sum THEN "build" ELSE "idle"
<1>1. pc[p] = "download" /\ Goto(p, at, j) /\ batch' = batch
  BY DEF Download, At
<1>2. /\ Place(p, "download", job[p], batch[p]) /\ job[p].kind = "restore"
      /\ p \in Users /\ job[p] \in JobSpace
  BY <1>1, PlaceOf DEF Base
<1>3. Alike(j, job[p]) /\ j.file = 0
  <2>1. D \in SUBSET Postings /\ 0 \in Nat
    OBVIOUS
  <2> HIDE DEF D
  <2> QED BY <1>2, <2>1 DEF Alike, JobSpace
<1> HIDE DEF j
<1>4. Place(p, "build", j, batch[p])
  BY <1>2, <1>3 DEF Place, Pcs, Alike
<1>5. at \in {"idle", "build"}
  OBVIOUS
<1> HIDE DEF at
<1>6. LET k == IF at = "idle" THEN NoJob ELSE j
      IN Place(p, at, k, batch[p]) /\ Moves(p, at, k, batch[p])
  BY <1>1, <1>2, <1>4, <1>5, GoesOn DEF Base
<1> QED BY <1>2, <1>3, <1>5, <1>6 DEF Alike

\* buildBackupDocument: the document is the user's data.
LEMMA BuildPlaces ==
  ASSUME Base, NEW p \in Procs, Build(p)
  PROVE  LET at == IF job[p].kind = "scheduled" THEN "find" ELSE "upload"
             j == [job[p] EXCEPT !.doc = data[C(p)]]
         IN /\ Alike(j, job[p]) /\ j.doc = data[C(p)] /\ j.file = job[p].file /\ j.late = job[p].late
            /\ Place(p, at, j, batch[p]) /\ Moves(p, at, j, batch[p])
<1> DEFINE j == [job[p] EXCEPT !.doc = data[C(p)]]
           at == IF job[p].kind = "scheduled" THEN "find" ELSE "upload"
<1>1. pc[p] = "build" /\ Goto(p, at, j) /\ batch' = batch
  BY DEF Build, At, Document
<1>2. /\ Place(p, "build", job[p], batch[p]) /\ job[p] \in JobSpace /\ C(p) \in Conns
      /\ job[p].kind \in {"scheduled", "manual", "restore"}
  BY <1>1, PlaceOf DEF Base
<1>3. data[C(p)] \in SUBSET Postings
  BY <1>2 DEF Base, Tables
<1>4. Alike(j, job[p]) /\ j.doc = data[C(p)] /\ j.file = job[p].file /\ j.late = job[p].late
  BY <1>2, <1>3 DEF Alike, JobSpace
<1> HIDE DEF j
<1>5. Place(p, at, j, batch[p])
  BY <1>2, <1>4 DEF Place, Pcs, Alike
<1>6. at \in {"find", "upload"}
  OBVIOUS
<1> HIDE DEF at
<1>7. LET k == IF at = "idle" THEN NoJob ELSE j
      IN Place(p, at, k, batch[p]) /\ Moves(p, at, k, batch[p])
  BY <1>1, <1>5, <1>6, GoesOn DEF Base
<1> QED BY <1>4, <1>5, <1>6, <1>7 DEF j, at

\* findGoogleRun: a file of the run if there is one.
LEMMA FindPlaces ==
  ASSUME Base, NEW p \in Procs, Find(p)
  PROVE  \E f \in Nat :
           LET j == [job[p] EXCEPT !.file = f]
           IN /\ f = 0 => FilesOfRun(p) = {}
              /\ f # 0 => f \in FilesOfRun(p)
              /\ Alike(j, job[p]) /\ j.file = f /\ j.doc = job[p].doc /\ j.late = job[p].late
              /\ Place(p, "upload", j, batch[p]) /\ Moves(p, "upload", j, batch[p])
<1>1. pc[p] = "find" /\ batch' = batch
  BY DEF Find, At
<1>2. PICK f \in IF FilesOfRun(p) = {} THEN {0} ELSE FilesOfRun(p) :
        Goto(p, "upload", [job[p] EXCEPT !.file = f])
  BY DEF Find
<1>3. Len(drive) \in Nat
  BY DEF Base, Tables
<1>4. f \in Nat /\ (f = 0 => FilesOfRun(p) = {}) /\ (f # 0 => f \in FilesOfRun(p))
  BY <1>3 DEF FilesOfRun
<1> DEFINE j == [job[p] EXCEPT !.file = f]
<1>5. /\ Place(p, "find", job[p], batch[p]) /\ job[p] \in JobSpace
      /\ job[p].kind = "scheduled"
  BY <1>1, PlaceOf DEF Base
<1>6. Alike(j, job[p]) /\ j.file = f /\ j.doc = job[p].doc /\ j.late = job[p].late
  BY <1>4, <1>5 DEF Alike, JobSpace
<1>7. Goto(p, "upload", j)
  BY <1>2
<1> HIDE DEF j
<1>8. Place(p, "upload", j, batch[p])
  BY <1>5, <1>6 DEF Place, Pcs, Alike
<1>9. LET k == IF "upload" = "idle" THEN NoJob ELSE j
      IN Place(p, "upload", k, batch[p]) /\ Moves(p, "upload", k, batch[p])
  BY <1>1, <1>7, <1>8, GoesOn DEF Base
<1> QED BY <1>4, <1>6, <1>8, <1>9 DEF j

\* The file that is written, new or found.
LEMMA UploadPlaces ==
  ASSUME Base, NEW p \in Procs, Upload(p)
  PROVE  LET f == IF job[p].file = 0 THEN Len(drive) + 1 ELSE job[p].file
             j == [job[p] EXCEPT !.file = f]
         IN /\ f \in Nat \ {0}
            /\ Alike(j, job[p]) /\ j.file = f /\ j.doc = job[p].doc /\ j.late = job[p].late
            /\ Place(p, "record", j, batch[p]) /\ Moves(p, "record", j, batch[p])
<1> DEFINE f == IF job[p].file = 0 THEN Len(drive) + 1 ELSE job[p].file
           j == [job[p] EXCEPT !.file = f]
<1>1. pc[p] = "upload" /\ batch' = batch /\ Goto(p, "record", j)
  BY DEF Upload, At
<1>2. /\ Place(p, "upload", job[p], batch[p]) /\ job[p] \in JobSpace
      /\ job[p].kind \in {"scheduled", "manual", "restore"}
  BY <1>1, PlaceOf DEF Base
<1>3. Len(drive) \in Nat /\ job[p].file \in Nat
  BY <1>2 DEF Base, Tables, JobSpace
<1>4. f \in Nat \ {0}
  BY <1>3
<1> HIDE DEF f
<1>5. Alike(j, job[p]) /\ j.file = f /\ j.doc = job[p].doc /\ j.late = job[p].late
  BY <1>2, <1>4 DEF Alike, JobSpace
<1> HIDE DEF j
<1>6. Place(p, "record", j, batch[p])
  BY <1>2, <1>5 DEF Place, Pcs, Alike
<1>7. LET k == IF "record" = "idle" THEN NoJob ELSE j
      IN Place(p, "record", k, batch[p]) /\ Moves(p, "record", k, batch[p])
  BY <1>1, <1>6, GoesOn DEF Base
<1> QED BY <1>4, <1>5, <1>6, <1>7 DEF j, f

\* Where a record leads, by the kind of the job.
AfterRecord(kind) ==
  CASE kind = "scheduled" -> "finish" [] kind = "restore" -> "restore" [] OTHER -> "idle"

\* cloud_backups: after the record a worker finishes and a restore restores.
LEMMA RecordPlaces ==
  ASSUME Base, NEW p \in Procs, Record(p)
  PROVE  LET at == AfterRecord(job[p].kind)
             k == IF at = "idle" THEN NoJob ELSE job[p]
         IN at \in {"finish", "restore", "idle"} /\ Place(p, at, k, batch[p]) /\ Moves(p, at, k, batch[p])
<1>1. pc[p] = "record" /\ batch' = batch /\ Goto(p, AfterRecord(job[p].kind), job[p])
  BY DEF Record, At, AfterRecord
<1>2. /\ Place(p, "record", job[p], batch[p]) /\ job[p].kind \in {"scheduled", "manual", "restore"}
      /\ job[p].kind = "manual" => p \in Users
  BY <1>1, PlaceOf DEF Base
<1> DEFINE at == AfterRecord(job[p].kind)
<1>3. \/ at = "finish" /\ job[p].kind = "scheduled"
      \/ at = "restore" /\ job[p].kind = "restore"
      \/ at = "idle" /\ job[p].kind = "manual"
  BY <1>2 DEF AfterRecord
<1> HIDE DEF at
<1>4. at # "idle" => at # "batch" /\ Place(p, at, job[p], batch[p])
  BY <1>2, <1>3 DEF Place, Pcs
<1>5. Goto(p, at, job[p])
  BY <1>1 DEF at
<1>6. LET k == IF at = "idle" THEN NoJob ELSE job[p]
      IN Place(p, at, k, batch[p]) /\ Moves(p, at, k, batch[p])
  BY <1>1, <1>2, <1>3, <1>4, <1>5, GoesOn DEF Base
<1> QED BY <1>3, <1>6 DEF at

\* finish_cloud_backup_run: the next claim, or the end.
LEMMA FinishPlaces ==
  ASSUME Base, NEW p \in Procs, NEW s \in {"succeeded", "failed"}, Finish(p, s)
  PROVE  Place(p, AfterRun(p), NoJob, batch[p]) /\ Moves(p, AfterRun(p), NoJob, batch[p])
<1>1. pc[p] \in {"finish", "fail"} /\ batch' = batch /\ Goto(p, AfterRun(p), NoJob)
  BY DEF Finish, At
<1>2. p \in Workers
  BY <1>1, PlaceOf DEF Base, Place
<1>3. batch' = [batch EXCEPT ![p] = batch[p]]
  BY <1>1, SameBatch DEF Base
<1>4. Moves(p, AfterRun(p), IF AfterRun(p) \in {"idle", "batch"} THEN NoJob ELSE NoJob, batch[p])
  BY <1>1, <1>3, GotoMoves
<1>5. Place(p, AfterRun(p), NoJob, batch[p])
  BY <1>2, GoesAfterRun DEF Base
<1> QED BY <1>4, <1>5

\* The last steps of the callback and of the disconnect.
LEMMA EndPlaces ==
  ASSUME Base, NEW p \in Procs, SaveTokens(p) \/ Revoke(p)
  PROVE  Place(p, "idle", NoJob, batch[p]) /\ Moves(p, "idle", NoJob, batch[p])
<1>1. pc[p] \in {"save", "revoke"} /\ Goto(p, "idle", NoJob) /\ batch' = batch
  BY DEF SaveTokens, Revoke, At
<1>2. p \in Users
  BY <1>1, PlaceOf DEF Base
<1>3. LET k == IF "idle" = "idle" THEN NoJob ELSE NoJob
      IN Place(p, "idle", k, batch[p]) /\ Moves(p, "idle", k, batch[p])
  BY <1>1, <1>2, GoesOn DEF Base
<1> QED BY <1>3

\* The callback has made the connection and still has its tokens to save.
LEMMA ConnectPlaces ==
  ASSUME Base, NEW p \in Procs, Connect(p)
  PROVE  Place(p, "save", job[p], batch[p]) /\ Moves(p, "save", job[p], batch[p])
<1>1. pc[p] = "exchange" /\ Goto(p, "save", job[p]) /\ batch' = batch
  BY DEF Connect, At
<1>2. Place(p, "exchange", job[p], batch[p]) /\ job[p].kind = "connect"
  BY <1>1, PlaceOf DEF Base
<1>3. Place(p, "save", job[p], batch[p])
  BY <1>2 DEF Place, Pcs
<1>4. LET k == IF "save" = "idle" THEN NoJob ELSE job[p]
      IN Place(p, "save", k, batch[p]) /\ Moves(p, "save", k, batch[p])
  BY <1>1, <1>3, GoesOn DEF Base
<1> QED BY <1>3, <1>4

\* What comes to a user's data touches only the histories of that user's restores.
LEMMA LateJobs ==
  ASSUME Places, NEW c \in Conns, NEW S \in SUBSET Postings
  PROVE  /\ Late(c, S) \in [Procs -> JobSpace]
         /\ \A q \in Procs :
              /\ Alike(Late(c, S)[q], job[q]) /\ Late(c, S)[q].doc = job[q].doc
              /\ Late(c, S)[q].file = job[q].file /\ Late(c, S)[q].want = job[q].want
              /\ Late(c, S)[q].late =
                   IF job[q].conn = c /\ job[q].kind = "restore" /\ pc[q] \in {"upload", "record", "restore"}
                     THEN job[q].late \cup S ELSE job[q].late
              /\ Place(q, pc[q], Late(c, S)[q], batch[q])
<1>1. ASSUME NEW q \in Procs
      PROVE  /\ Late(c, S)[q] \in JobSpace
             /\ Alike(Late(c, S)[q], job[q]) /\ Late(c, S)[q].doc = job[q].doc
             /\ Late(c, S)[q].file = job[q].file /\ Late(c, S)[q].want = job[q].want
             /\ Late(c, S)[q].late =
                   IF job[q].conn = c /\ job[q].kind = "restore" /\ pc[q] \in {"upload", "record", "restore"}
                     THEN job[q].late \cup S ELSE job[q].late
             /\ Place(q, pc[q], Late(c, S)[q], batch[q])
  <2> DEFINE k == [job[q] EXCEPT !.late = @ \cup S]
             touched == job[q].conn = c /\ job[q].kind = "restore" /\ pc[q] \in {"upload", "record", "restore"}
  <2>1. Late(c, S)[q] = IF touched THEN k ELSE job[q]
    BY DEF Late, C
  <2>2. job[q] \in JobSpace /\ Place(q, pc[q], job[q], batch[q])
    BY DEF Places
  <2>3. /\ Alike(k, job[q]) /\ k.doc = job[q].doc /\ k.file = job[q].file /\ k.want = job[q].want
        /\ k.late = job[q].late \cup S
    BY <2>2 DEF Alike, JobSpace
  <2>4. Alike(job[q], job[q])
    BY <2>2 DEF Alike, JobSpace
  <2> HIDE DEF k
  <2>5. CASE touched
    <3>1. Place(q, pc[q], k, batch[q])
      BY <2>2, <2>3, <2>5 DEF Place, Alike
    <3> QED BY <2>1, <2>3, <2>5, <3>1 DEF Alike
  <2>6. CASE ~touched
    BY <2>1, <2>2, <2>4, <2>6
  <2> QED BY <2>5, <2>6
<1>2. Late(c, S) \in [Procs -> JobSpace]
  <2>1. Late(c, S) = [q \in Procs |-> Late(c, S)[q]]
    BY DEF Late
  <2> QED BY <1>1, <2>1
<1> QED BY <1>1, <1>2

\* service_restore_user_backup: the restore ends, and comes late to the user's other ones.
LEMMA RestorePlaces ==
  ASSUME Base, NEW p \in Procs, Restore(p)
  PROVE  /\ Places' /\ C(p) \in Conns /\ p \in Users /\ job[p].kind = "restore"
         /\ job[p].want \in SUBSET Postings /\ pc'[p] = "idle" /\ job'[p] = NoJob
         /\ pc' = [pc EXCEPT ![p] = "idle"]
         /\ \A q \in Procs \ {p} : job'[q] = Late(C(p), job[p].want)[q]
<1>1. pc[p] = "restore" /\ pc' = [pc EXCEPT ![p] = "idle"] /\ batch' = batch
      /\ job' = [Late(C(p), job[p].want) EXCEPT ![p] = NoJob]
  BY DEF Restore, At
<1>2. C(p) \in Conns /\ p \in Users /\ job[p] \in JobSpace /\ job[p].kind = "restore"
  BY <1>1, PlaceOf DEF Base
<1>3. job[p].want \in SUBSET Postings
  BY <1>2 DEF JobSpace
<1> DEFINE L == Late(C(p), job[p].want)
<1>4. L \in [Procs -> JobSpace] /\ \A q \in Procs : Place(q, pc[q], L[q], batch[q])
  BY <1>2, <1>3, LateJobs DEF Base
<1>5. job' = [L EXCEPT ![p] = NoJob]
  BY <1>1
<1> HIDE DEF L
<1>6. /\ pc' \in [Procs -> Pcs] /\ job' \in [Procs -> JobSpace] /\ batch' \in [Procs -> SUBSET ClaimSpace]
      /\ pc'[p] = "idle" /\ job'[p] = NoJob
      /\ \A q \in Procs \ {p} : pc'[q] = pc[q] /\ job'[q] = L[q] /\ batch'[q] = batch[q]
  BY <1>1, <1>4, <1>5, NoJobFits DEF Base, Places, Pcs
<1>7. ASSUME NEW q \in Procs PROVE Place(q, pc'[q], job'[q], batch'[q])
  <2>1. CASE q = p
    <3>1. batch[p] = {}
      BY <1>2 DEF Base, Places, Place
    <3> QED BY <1>1, <1>6, <2>1, <3>1, NoJobFits
  <2>2. CASE q # p
    BY <1>4, <1>6, <2>2
  <2> QED BY <2>1, <2>2
<1>8. (\A q \in Procs : Place(q, pc[q], job[q], batch[q]))'
  BY <1>7
<1>9. Places'
  BY <1>6, <1>8 DEF Places
<1> QED BY <1>1, <1>2, <1>3, <1>6, <1>9 DEF L

\* A posting comes late to the user's restores.
LEMMA PostPlaces ==
  ASSUME Base, NEW c \in Conns, NEW x \in Postings, Post(c, x)
  PROVE  /\ Places' /\ pc' = pc
         /\ \A q \in Procs : job'[q] = Late(c, {x})[q]
<1>1. job' = Late(c, {x}) /\ pc' = pc /\ batch' = batch
  BY DEF Post
<1>2. /\ Late(c, {x}) \in [Procs -> JobSpace]
      /\ \A q \in Procs : Place(q, pc[q], Late(c, {x})[q], batch[q])
  BY LateJobs DEF Base
<1>3. (\A q \in Procs : Place(q, pc[q], job[q], batch[q]))'
  BY <1>1, <1>2
<1>4. (pc \in [Procs -> Pcs] /\ job \in [Procs -> JobSpace] /\ batch \in [Procs -> SUBSET ClaimSpace])'
  BY <1>1, <1>2 DEF Base, Places
<1> QED BY <1>1, <1>3, <1>4 DEF Places

(***************************************************************************)
(* The files. A file that an invocation has in its hands, or a row names,  *)
(* exists and belongs to the same run; one that belongs to no run is never *)
(* written again.                                                          *)
(***************************************************************************)
HeldFile(at, j, d) ==
  /\ at \in {"token", "refresh", "download"} /\ j.kind = "restore" => j.file \in 1..Len(d)
  /\ at = "upload" /\ j.file # 0 => j.file \in 1..Len(d) /\ d[j.file].run = j.run
  /\ at = "record" => /\ j.file \in 1..Len(d) /\ d[j.file].run = j.run
                      /\ j.run = NoRun => d[j.file].content = j.doc

HeldRow(b, d) ==
  /\ b.file \in 1..Len(d) /\ d[b.file].run = b.run
  /\ b.run = NoRun => d[b.file].content = b.sum

FilesTrue ==
  /\ \A p \in Procs : HeldFile(pc[p], job[p], drive)
  /\ \A b \in backups : HeldRow(b, drive)

\* What a write does to the files that were there.
Kept(d, e) ==
  /\ Len(d) <= Len(e)
  /\ \A g \in 1..Len(d) : /\ e[g].run = d[g].run
                          /\ d[g].run = NoRun => e[g] = d[g]

\* Files that are held, or named by a row, stay so through a write.
LEMMA StillHeld ==
  ASSUME NEW d \in Seq(FileSpace), NEW e \in Seq(FileSpace), Kept(d, e)
  PROVE  /\ \A at, j : HeldFile(at, j, d) => HeldFile(at, j, e)
         /\ \A b : HeldRow(b, d) => HeldRow(b, e)
<1>1. /\ Len(d) \in Nat /\ Len(e) \in Nat /\ \A g \in 1..Len(d) : g \in 1..Len(e)
  BY DEF Kept
<1> QED BY <1>1 DEF Kept, HeldFile, HeldRow

\* uploadGoogleDrive: one file of the job's run with its document, all others as they were.
LEMMA Written ==
  ASSUME Base, FilesTrue, NEW p \in Procs, Upload(p)
  PROVE  LET f == IF job[p].file = 0 THEN Len(drive) + 1 ELSE job[p].file
         IN /\ drive' \in Seq(FileSpace) /\ f \in 1..Len(drive') /\ Kept(drive, drive')
            /\ drive'[f] = [run |-> job[p].run, content |-> job[p].doc]
            /\ \A g \in 1..Len(drive') : g # f => g \in 1..Len(drive) /\ drive'[g] = drive[g]
            /\ job[p].file = 0 => f \notin 1..Len(drive)
            /\ job[p].file # 0 => f \in 1..Len(drive) /\ drive[f].run = job[p].run /\ job[p].run # NoRun
<1> DEFINE f == IF job[p].file = 0 THEN Len(drive) + 1 ELSE job[p].file
           file == [run |-> job[p].run, content |-> job[p].doc]
<1>1. /\ Place(p, "upload", job[p], batch[p]) /\ job[p] \in JobSpace
      /\ job[p].kind \in {"scheduled", "manual", "restore"} /\ job[p].kind # "none"
  BY PlaceOf DEF Base, Upload, At
<1>2. file \in FileSpace /\ job[p].file \in Nat
  BY <1>1 DEF JobSpace, FileSpace
<1>3. drive \in Seq(FileSpace) /\ Len(drive) \in Nat
  BY DEF Base, Tables
<1>4. CASE job[p].file = 0
  <2>1. f = Len(drive) + 1 /\ f \notin 1..Len(drive)
    BY <1>3, <1>4
  <2>2. drive' = Append(drive, file)
    BY <2>1, <1>4 DEF Upload
  <2> HIDE DEF f, file
  <2>3. /\ drive' \in Seq(FileSpace) /\ Len(drive') = Len(drive) + 1 /\ drive'[f] = file
        /\ \A g \in 1..Len(drive) : drive'[g] = drive[g]
    BY <1>2, <1>3, <2>1, <2>2
  <2>4. \A g \in 1..Len(drive') : g # f => g \in 1..Len(drive)
    BY <1>3, <2>1, <2>3
  <2>5. f \in 1..Len(drive') /\ Len(drive) <= Len(drive')
    BY <1>3, <2>1, <2>3
  <2> QED BY <1>4, <2>1, <2>3, <2>4, <2>5 DEF Kept, f, file
<1>5. CASE job[p].file # 0
  <2>1. f = job[p].file /\ f \in 1..Len(drive) /\ drive[f].run = job[p].run
    BY <1>5 DEF FilesTrue, HeldFile, Upload, At
  <2>2. job[p].run # NoRun
    <3>1. job[p].kind = "scheduled"
      BY <1>1, <1>5 DEF Place
    <3>2. PICK t \in Days : job[p].run = <<job[p].conn, t>> /\ job[p].conn \in Conns
      BY <1>1, <3>1 DEF Place
    <3> QED BY <3>2, Distinct
  <2>3. drive' = [drive EXCEPT ![f].content = job[p].doc]
    BY <2>1, <1>5 DEF Upload
  <2> HIDE DEF f
  <2>4. drive[f] \in FileSpace
    BY <1>3, <2>1
  <2>5. [drive[f] EXCEPT !.content = job[p].doc] = file
    BY <2>1, <2>4 DEF FileSpace
  <2>6. drive' = [drive EXCEPT ![f] = file]
    BY <2>3, <2>5
  <2> HIDE DEF file
  <2>7. /\ drive' \in Seq(FileSpace) /\ Len(drive') = Len(drive) /\ drive'[f] = file
        /\ \A g \in 1..Len(drive) : g # f => drive'[g] = drive[g]
    BY <1>2, <1>3, <2>1, <2>6
  <2>8. file.run = job[p].run
    BY DEF file
  <2>9. Kept(drive, drive')
    BY <1>3, <2>1, <2>2, <2>7, <2>8 DEF Kept
  <2> QED BY <1>5, <2>1, <2>2, <2>7, <2>9 DEF f, file
<1> QED BY <1>4, <1>5

\* The run a worker reports about.
LEMMA RunOf ==
  ASSUME Base, NEW p \in Procs, pc[p] \in {"finish", "fail"}
  PROVE  /\ p \in Workers /\ job[p].run = <<C(p), job[p].run[2]>>
         /\ C(p) \in Conns /\ job[p].run[2] \in Days /\ job[p].freq \in Frequencies
         /\ Run(p) = runs[C(p)][job[p].run[2]] /\ Run(p) \in RunSpace
<1>1. /\ Place(p, pc[p], job[p], batch[p]) /\ job[p] \in JobSpace
      /\ C(p) \in Conns /\ job[p].kind = "scheduled"
  BY PlaceOf DEF Base
<1>2. PICK t \in Days : job[p].run = <<C(p), t>>
  BY <1>1 DEF Place, C
<1>3. job[p].run[2] = t
  BY <1>2
<1>4. runs[C(p)][t] \in RunSpace
  BY <1>1 DEF Base, Tables
<1> QED BY <1>1, <1>2, <1>3, <1>4 DEF Place, Run, JobSpace

\* Frame of a table that a step rewrites at one key.
LEMMA NextAt ==
  ASSUME NEW f \in Frequencies, NEW n \in Int
  PROVE  nextBackupAt(f, n) \in Int
BY DEF nextBackupAt, Period, NoTime, Frequencies

\* The runs keep their types.
LEMMA RunsKept ==
  ASSUME Base, NEW p \in Procs,
         Claim(p) \/ \E s \in {"succeeded", "failed"} : Finish(p, s)
  PROVE  runs' \in [Conns -> [Days -> RunSpace]]
<1>1. CASE Claim(p)
  <2>1. PICK S \in SUBSET Due :
          LET taken == {c \in S : Claimable(runs[c][conn[c].next])}
              Row(c) == [status |-> "claimed", tok |-> p, live |-> TRUE,
                         again |-> runs[c][conn[c].next].status # "none"]
          IN runs' = [c \in Conns |-> IF c \in taken
                                        THEN [runs[c] EXCEPT ![conn[c].next] = Row(c)]
                                        ELSE runs[c]]
    BY <1>1 DEF Claim
  <2>2. \A c \in Conns : [status |-> "claimed", tok |-> p, live |-> TRUE,
                         again |-> runs[c][conn[c].next].status # "none"] \in RunSpace
    BY DEF RunSpace
  <2>3. runs \in [Conns -> [Days -> RunSpace]]
    BY DEF Base, Tables
  <2> QED BY <2>1, <2>2, <2>3
<1>2. CASE \E s \in {"succeeded", "failed"} : Finish(p, s)
  <2>1. PICK s \in {"succeeded", "failed"} : Finish(p, s)
    BY <1>2
  <2>2. pc[p] \in {"finish", "fail"}
    BY <2>1 DEF Finish, At
  <2>3. C(p) \in Conns /\ job[p].run[2] \in Days /\ Run(p) \in RunSpace
    BY <2>2, RunOf
  <2>4. Finished(p, s) \in RunSpace
    BY <2>3 DEF Finished, RunSpace
  <2>5. runs' = runs \/ runs' = [runs EXCEPT ![C(p)][job[p].run[2]] = Finished(p, s)]
    BY <2>1 DEF Finish
  <2>6. runs \in [Conns -> [Days -> RunSpace]]
    BY DEF Base, Tables
  <2> QED BY <2>3, <2>4, <2>5, <2>6
<1> QED BY <1>1, <1>2

\* Who writes which table.
LEMMA Writers ==
  ASSUME [Next]_vars
  PROVE  /\ clock' # clock => Tick
         /\ conn' # conn => \/ \E p \in Procs, s \in {"succeeded", "failed"} : Finish(p, s)
                            \/ \E c \in Conns, f \in Frequencies : SetFrequency(c, f)
                            \/ \E p \in Procs : Connect(p) \/ Revoke(p)
         /\ creds' # creds => \/ Tick
                              \/ \E p \in Procs : Refresh(p) \/ SaveTokens(p)
                              \/ \E p \in Users, c \in Conns : Disconnect(p, c)
         /\ quiet' # quiet => \/ \E p \in Procs : Connect(p)
                              \/ \E p \in Users, c \in Conns : Disconnect(p, c)
         /\ runs' # runs => \/ \E p \in Procs : \/ Claim(p)
                                                \/ \E s \in {"succeeded", "failed"} : Finish(p, s)
                            \/ \E c \in Conns, t \in Days : Expire(c, t)
         /\ drive' # drive => \E p \in Procs : Upload(p)
         /\ backups' # backups => \E p \in Procs : Record(p)
         /\ data' # data => \/ \E p \in Procs : Restore(p)
                            \/ \E c \in Conns, x \in Postings : Post(c, x)
<1>1. clock' # clock => Tick
  BY DEF Next, vars, cloud, mem, Step, Copying, Request, CreateBackup, RestoreBackup,
     Procs, NextClaim, Begin, GetToken, Refresh, Download, Build, Find, Upload, Record,
     Restore, Claim, Finish, SetFrequency, StartOAuth, Consume, Connect, SaveTokens,
     Disconnect, Revoke, FailCall, Stop, Expire, Post
<1>2. creds' # creds => \/ Tick
                        \/ \E p \in Procs : Refresh(p) \/ SaveTokens(p)
                        \/ \E p \in Users, c \in Conns : Disconnect(p, c)
  BY DEF Next, vars, cloud, mem, Step, Copying, Request, CreateBackup, RestoreBackup,
     Procs, NextClaim, Begin, GetToken, Download, Build, Find, Upload, Record, Restore,
     Claim, Finish, SetFrequency, StartOAuth, Consume, Connect, Revoke, FailCall, Stop,
     Expire, Post
<1>3. quiet' # quiet => \/ \E p \in Procs : Connect(p)
                        \/ \E p \in Users, c \in Conns : Disconnect(p, c)
  BY DEF Next, vars, cloud, mem, Step, Copying, Request, CreateBackup, RestoreBackup,
     Procs, NextClaim, Begin, GetToken, Refresh, Download, Build, Find, Upload, Record,
     Restore, Claim, Finish, SetFrequency, StartOAuth, Consume, SaveTokens, Revoke,
     FailCall, Stop, Expire, Post, Tick
<1>4. runs' # runs => \/ \E p \in Procs : \/ Claim(p)
                                          \/ \E s \in {"succeeded", "failed"} : Finish(p, s)
                      \/ \E c \in Conns, t \in Days : Expire(c, t)
  BY DEF Next, vars, cloud, mem, Step, Copying, Request, CreateBackup, RestoreBackup,
     Procs, NextClaim, Begin, GetToken, Refresh, Download, Build, Find, Upload, Record,
     Restore, SetFrequency, StartOAuth, Consume, Connect, SaveTokens, Disconnect, Revoke,
     FailCall, Stop, Post, Tick
<1>5. drive' # drive => \E p \in Procs : Upload(p)
  BY DEF Next, vars, cloud, mem, Step, Copying, Request, CreateBackup, RestoreBackup,
     Procs, NextClaim, Begin, GetToken, Refresh, Download, Build, Find, Record, Restore,
     Claim, Finish, SetFrequency, StartOAuth, Consume, Connect, SaveTokens, Disconnect,
     Revoke, FailCall, Stop, Expire, Post, Tick
<1>6. backups' # backups => \E p \in Procs : Record(p)
  BY DEF Next, vars, cloud, mem, Step, Copying, Request, CreateBackup, RestoreBackup,
     Procs, NextClaim, Begin, GetToken, Refresh, Download, Build, Find, Upload, Restore,
     Claim, Finish, SetFrequency, StartOAuth, Consume, Connect, SaveTokens, Disconnect,
     Revoke, FailCall, Stop, Expire, Post, Tick
<1>7. data' # data => \/ \E p \in Procs : Restore(p)
                      \/ \E c \in Conns, x \in Postings : Post(c, x)
  BY DEF Next, vars, cloud, mem, Step, Copying, Request, CreateBackup, RestoreBackup,
     Procs, NextClaim, Begin, GetToken, Refresh, Download, Build, Find, Upload, Record,
     Claim, Finish, SetFrequency, StartOAuth, Consume, Connect, SaveTokens, Disconnect,
     Revoke, FailCall, Stop, Expire, Tick
<1>8. ASSUME conn' # conn
      PROVE  \/ \E p \in Procs, s \in {"succeeded", "failed"} : Finish(p, s)
             \/ \E c \in Conns, f \in Frequencies : SetFrequency(c, f)
             \/ \E p \in Procs : Connect(p) \/ Revoke(p)
  BY <1>8 DEF Next, vars, cloud, Step, Copying, Request, Claim, NextClaim, Refresh, Build, Find,
     Upload, Record, GetToken, Download, Restore, SaveTokens, FailCall, Stop, CreateBackup,
     RestoreBackup, Begin, Consume, Disconnect, StartOAuth, Expire, Post, Tick, Procs
<1> QED BY <1>1, <1>2, <1>3, <1>4, <1>5, <1>6, <1>7, <1>8

\* The connections keep their types.
LEMMA ConnKept ==
  ASSUME Base, [Next]_vars
  PROVE  conn' \in [Conns -> [status : {"active", "revoked"}, freq : Frequencies, next : Int]]
<1> DEFINE T == [status : {"active", "revoked"}, freq : Frequencies, next : Int]
<1>1. conn \in [Conns -> T] /\ clock \in Int
  BY BackupAssumption DEF Base, Tables, Days
<1>2. ASSUME NEW p \in Procs, NEW s \in {"succeeded", "failed"}, Finish(p, s)
      PROVE  conn' \in [Conns -> T]
  <2>1. pc[p] \in {"finish", "fail"}
    BY <1>2 DEF Finish, At
  <2>2. C(p) \in Conns /\ job[p].run[2] \in Int /\ job[p].freq \in Frequencies
    BY <2>1, RunOf, BackupAssumption DEF Days
  <2>3. nextBackupAt(job[p].freq, job[p].run[2]) \in Int
    BY <2>2, NextAt
  <2>4. conn' = conn \/ conn' = [conn EXCEPT ![C(p)].next = nextBackupAt(job[p].freq, job[p].run[2])]
    BY <1>2 DEF Finish
  <2> QED BY <1>1, <2>2, <2>3, <2>4
<1>3. ASSUME NEW c \in Conns, NEW f \in Frequencies, SetFrequency(c, f)
      PROVE  conn' \in [Conns -> T]
  <2>1. nextBackupAt(f, clock) \in Int
    BY <1>1, NextAt
  <2>2. conn' = [conn EXCEPT ![c].freq = f, ![c].next = nextBackupAt(f, clock)]
    BY <1>3 DEF SetFrequency
  <2> QED BY <1>1, <2>1, <2>2
<1>4. ASSUME NEW p \in Procs, Connect(p)
      PROVE  conn' \in [Conns -> T]
  <2>1. nextBackupAt("weekly", clock) \in Int
    BY <1>1, NextAt DEF Frequencies
  <2>2. conn' = [conn EXCEPT ![C(p)] = [status |-> "active", freq |-> "weekly",
                                       next |-> nextBackupAt("weekly", clock)]]
    BY <1>4 DEF Connect
  <2> QED BY <1>1, <2>1, <2>2 DEF Frequencies
<1>5. ASSUME NEW p \in Procs, Revoke(p)
      PROVE  conn' \in [Conns -> T]
  BY <1>1, <1>5 DEF Revoke
<1>6. CASE conn' = conn
  BY <1>1, <1>6
<1> QED BY <1>2, <1>3, <1>4, <1>5, <1>6, Writers

\* So do all the tables.
LEMMA TablesKept ==
  ASSUME Base, FilesTrue, [Next]_vars
  PROVE  Tables'
<1>1. clock' \in Days
  <2>1. CASE Tick
    BY <2>1, BackupAssumption DEF Tick, Days, Base, Tables
  <2> QED BY <2>1, Writers DEF Base, Tables
<1>2. conn' \in [Conns -> [status : {"active", "revoked"}, freq : Frequencies, next : Int]]
  BY ConnKept
<1>3. creds' \in [Conns -> {"none", "good", "old"}]
  <2>1. creds \in [Conns -> {"none", "good", "old"}]
    BY DEF Base, Tables
  <2>2. CASE Tick
    BY <2>1, <2>2 DEF Tick
  <2>3. CASE \E p \in Procs : Refresh(p) \/ SaveTokens(p)
    BY <2>1, <2>3 DEF Refresh, SaveTokens
  <2>4. CASE \E p \in Users, c \in Conns : Disconnect(p, c)
    BY <2>1, <2>4 DEF Disconnect, ForgetCredentials
  <2> QED BY <2>1, <2>2, <2>3, <2>4, Writers
<1>4. quiet' \in [Conns -> BOOLEAN]
  <2>1. quiet \in [Conns -> BOOLEAN]
    BY DEF Base, Tables
  <2>2. CASE \E p \in Procs : Connect(p)
    BY <2>1, <2>2 DEF Connect
  <2>3. ASSUME NEW p \in Users, NEW c \in Conns, Disconnect(p, c) PROVE quiet' \in [Conns -> BOOLEAN]
    <3>1. PICK b \in BOOLEAN : b = ~AboutToSave(c)
      BY DEF AboutToSave
    <3>2. quiet' = [quiet EXCEPT ![c] = b]
      BY <2>3, <3>1, Zenon DEF Disconnect
    <3> QED BY <2>1, <3>2
  <2> QED BY <2>1, <2>2, <2>3, Writers
<1>5. runs' \in [Conns -> [Days -> RunSpace]]
  <2>1. runs \in [Conns -> [Days -> RunSpace]]
    BY DEF Base, Tables
  <2>2. ASSUME NEW c \in Conns, NEW t \in Days, Expire(c, t)
        PROVE  runs' \in [Conns -> [Days -> RunSpace]]
    <3>1. runs' = [runs EXCEPT ![c][t].live = FALSE]
      BY <2>2 DEF Expire
    <3>2. runs[c][t] \in RunSpace
      BY <2>1
    <3>3. PICK r \in RunSpace : r = [runs[c][t] EXCEPT !.live = FALSE]
      BY <3>2 DEF RunSpace
    <3>4. runs' = [runs EXCEPT ![c][t] = r]
      BY <3>1, <3>3
    <3> QED BY <2>1, <3>4
  <2> QED BY <2>1, <2>2, RunsKept, Writers
<1>6. drive' \in Seq(FileSpace)
  BY Written, Writers DEF Base, Tables
<1>7. backups' \subseteq RowSpace
  <2>1. ASSUME NEW p \in Procs, Record(p)
        PROVE  backups' \subseteq RowSpace
    <3>1. pc[p] = "record"
      BY <2>1 DEF Record, At
    <3>2. C(p) \in Conns /\ job[p] \in JobSpace
      BY <3>1, PlaceOf DEF Base
    <3>3. [conn |-> C(p), run |-> job[p].run, file |-> job[p].file, sum |-> job[p].doc] \in RowSpace
      BY <3>2 DEF JobSpace, RowSpace
    <3> QED BY <2>1, <3>3 DEF Record, Base, Tables
  <2> QED BY <2>1, Writers DEF Base, Tables
<1>8. data' \in [Conns -> SUBSET Postings]
  <2>1. data \in [Conns -> SUBSET Postings]
    BY DEF Base, Tables
  <2>2. ASSUME NEW p \in Procs, Restore(p) PROVE data' \in [Conns -> SUBSET Postings]
    BY <2>1, <2>2, RestorePlaces DEF Restore
  <2>3. ASSUME NEW c \in Conns, NEW x \in Postings, Post(c, x) PROVE data' \in [Conns -> SUBSET Postings]
    BY <2>1, <2>3 DEF Post
  <2> QED BY <2>1, <2>2, <2>3, Writers
<1> QED BY <1>1, <1>2, <1>3, <1>4, <1>5, <1>6, <1>7, <1>8 DEF Tables

\* The steps after which every invocation is where it was, with what it had.
Still ==
  \/ \E c \in Conns : \/ StartOAuth(c)
                      \/ \E f \in Frequencies : SetFrequency(c, f)
                      \/ \E t \in Days : Expire(c, t)
  \/ Tick \/ UNCHANGED vars

\* Such a step leaves every invocation alone.
LEMMA StillPlaces ==
  ASSUME Still
  PROVE  pc' = pc /\ job' = job /\ batch' = batch
BY DEF Still, StartOAuth, SetFrequency, Expire, Tick, vars, mem

\* A copy on demand, or a restore of a recorded copy.
LEMMA AskedPlaces ==
  ASSUME Base, NEW p \in Users, NEW c \in Conns, CreateBackup(p, c) \/ RestoreBackup(p, c)
  PROVE  \E kind \in {"manual", "restore"} : \E j :
           /\ j.kind = kind /\ j.conn = c /\ j.run = NoRun
           /\ kind = "restore" => \E b \in backups : j.file = b.file
           /\ Place(p, "token", j, batch[p]) /\ Moves(p, "token", j, batch[p])
           /\ UNCHANGED <<runs, drive, backups, data>>
<1>1. CASE CreateBackup(p, c)
  <2> DEFINE row == [file |-> 0, sum |-> {}]
  <2>1. Begin(p, c, "manual", row) /\ row.file = 0 /\ row.sum = {}
    BY <1>1 DEF CreateBackup
  <2> HIDE DEF row
  <2>2. row.file \in Nat /\ row.sum \in SUBSET Postings
    BY <2>1
  <2> DEFINE j == [NoJob EXCEPT !.kind = "manual", !.conn = c, !.file = row.file, !.sum = row.sum]
  <2>3. /\ j.kind = "manual" /\ j.conn = c /\ j.run = NoRun
        /\ Place(p, "token", j, batch[p]) /\ Moves(p, "token", j, batch[p])
    BY <2>1, <2>2, BeginPlaces
  <2>4. UNCHANGED <<runs, drive, backups, data>>
    BY <2>1 DEF Begin, cloud
  <2> QED BY <2>3, <2>4
<1>2. CASE RestoreBackup(p, c)
  <2>1. PICK row \in backups : Begin(p, c, "restore", row)
    BY <1>2 DEF RestoreBackup
  <2>2. row.file \in Nat /\ row.sum \in SUBSET Postings
    BY DEF Base, Tables, RowSpace
  <2> DEFINE j == [NoJob EXCEPT !.kind = "restore", !.conn = c, !.file = row.file, !.sum = row.sum]
  <2>3. /\ j.kind = "restore" /\ j.conn = c /\ j.run = NoRun
        /\ Place(p, "token", j, batch[p]) /\ Moves(p, "token", j, batch[p])
    BY <2>1, <2>2, BeginPlaces
  <2>4. UNCHANGED <<runs, drive, backups, data>>
    BY <2>1 DEF Begin, cloud
  <2>5. j.file = row.file
    BY DEF NoJob
  <2> QED BY <2>3, <2>4, <2>5
<1> QED BY <1>1, <1>2

\* Every step is one of these.
LEMMA StepKinds ==
  ASSUME [Next]_vars
  PROVE  \/ Still
         \/ \E p \in Procs : \/ Claim(p) \/ NextClaim(p) \/ Refresh(p) \/ Build(p) \/ Find(p)
                             \/ Upload(p) \/ Record(p)
                             \/ \E s \in {"succeeded", "failed"} : Finish(p, s)
                             \/ GetToken(p) \/ Download(p) \/ Restore(p) \/ Connect(p)
                             \/ SaveTokens(p) \/ Revoke(p) \/ FailCall(p) \/ Stop(p)
         \/ \E p \in Users, c \in Conns : \/ CreateBackup(p, c) \/ RestoreBackup(p, c)
                                          \/ Consume(p, c) \/ Disconnect(p, c)
         \/ \E c \in Conns, x \in Postings : Post(c, x)
BY DEF Next, Step, Copying, Request, Still

\* A file that is downloaded exists.
LEMMA DownloadTyped ==
  ASSUME Base, FilesTrue, NEW p \in Procs, Download(p)
  PROVE  drive[job[p].file].content \in SUBSET Postings
<1>1. pc[p] = "download"
  BY DEF Download, At
<1>2. job[p].file \in 1..Len(drive)
  BY <1>1, PlaceOf DEF Base, FilesTrue, HeldFile
<1>3. drive[job[p].file] \in FileSpace
  BY <1>2 DEF Base, Tables
<1> QED BY <1>3 DEF FileSpace

\* The step of one invocation, other than the last one of a restore.
Acts(p) ==
  \/ Claim(p) \/ NextClaim(p) \/ Refresh(p) \/ Build(p) \/ Find(p) \/ Upload(p) \/ Record(p)
  \/ \E s \in {"succeeded", "failed"} : Finish(p, s)
  \/ GetToken(p) \/ Download(p) \/ Connect(p) \/ SaveTokens(p) \/ Revoke(p) \/ FailCall(p) \/ Stop(p)
  \/ p \in Users /\ \E c \in Conns : \/ CreateBackup(p, c) \/ RestoreBackup(p, c)
                                     \/ Consume(p, c) \/ Disconnect(p, c)

Actors ==
  \/ Still
  \/ \E p \in Procs : Acts(p) \/ Restore(p)
  \/ \E c \in Conns, x \in Postings : Post(c, x)

\* Every step is one of theirs.
LEMMA StepsOfActors == [Next]_vars => Actors
BY StepKinds DEF Actors, Acts, Procs

\* Which action leads where: no step leaves an invocation where it is.
Leads(p, at) ==
  /\ at \in {"finish", "restore"} => Record(p)
  /\ at = "record" => Upload(p)
  /\ at = "upload" => Build(p) \/ Find(p)
  /\ at = "find" => Build(p)
  /\ at = "build" => NextClaim(p) \/ GetToken(p) \/ Refresh(p) \/ Download(p)
  /\ at = "refresh" => NextClaim(p) \/ GetToken(p)
  /\ at = "save" => Connect(p)

\* What an invocation carries to where it goes; only a claim brings it a run.
Carried(p, j, b) ==
  Claim(p) \/ NextClaim(p) \/ (b \subseteq batch[p] /\ j.run \in {NoRun, job[p].run})

\* Each of those actions moves its invocation to a place that is right, and not its own.
LEMMA Destinations ==
  ASSUME Base, FilesTrue, NEW p \in Procs, Acts(p)
  PROVE  \E at, j, b : /\ Place(p, at, j, b) /\ Moves(p, at, j, b) /\ at # pc[p]
                        /\ Leads(p, at) /\ Carried(p, j, b)
<1> DEFINE Goal == \E at, j, b : /\ Place(p, at, j, b) /\ Moves(p, at, j, b) /\ at # pc[p]
                                  /\ Leads(p, at) /\ Carried(p, j, b)
<1>0. NoJob.run = NoRun
  BY DEF NoJob
<1>1. CASE Claim(p)
  <2>1. PICK b : Place(p, "batch", NoJob, b) /\ Moves(p, "batch", NoJob, b)
    BY <1>1, ClaimPlaces
  <2>2. pc[p] = "idle"
    BY <1>1 DEF Claim, At
  <2> QED BY <1>0, <1>1, <2>1, <2>2 DEF Leads, Carried
<1>2. CASE NextClaim(p)
  BY <1>0, <1>2, NextClaimPlaces DEF Leads, Carried, Alike, NextClaim, At
<1>3. CASE Refresh(p)
  BY <1>0, <1>3, RefreshPlaces DEF Leads, Carried, Alike, Refresh, At
<1>4. CASE Build(p)
  <2> DEFINE at == IF job[p].kind = "scheduled" THEN "find" ELSE "upload"
  <2>1. at \in {"find", "upload"} /\ \E j : Alike(j, job[p]) /\ Place(p, at, j, batch[p])
                                          /\ Moves(p, at, j, batch[p])
    BY <1>4, BuildPlaces
  <2>2. pc[p] = "build"
    BY <1>4 DEF Build, At
  <2> HIDE DEF at
  <2> QED BY <1>0, <1>4, <2>1, <2>2 DEF Leads, Carried, Alike
<1>5. CASE Find(p)
  <2>1. PICK f \in Nat :
          LET j == [job[p] EXCEPT !.file = f]
          IN Alike(j, job[p]) /\ Place(p, "upload", j, batch[p]) /\ Moves(p, "upload", j, batch[p])
    BY <1>5, FindPlaces
  <2>2. pc[p] = "find"
    BY <1>5 DEF Find, At
  <2> DEFINE j == [job[p] EXCEPT !.file = f]
  <2>3. Alike(j, job[p]) /\ Place(p, "upload", j, batch[p]) /\ Moves(p, "upload", j, batch[p])
    BY <2>1
  <2> HIDE DEF j
  <2>4. Leads(p, "upload") /\ Carried(p, j, batch[p])
    BY <1>5, <2>3 DEF Leads, Carried, Alike
  <2> QED BY <2>2, <2>3, <2>4
<1>6. CASE Upload(p)
  <2> DEFINE f == IF job[p].file = 0 THEN Len(drive) + 1 ELSE job[p].file
             j == [job[p] EXCEPT !.file = f]
  <2>1. Alike(j, job[p]) /\ Place(p, "record", j, batch[p]) /\ Moves(p, "record", j, batch[p])
    BY <1>6, UploadPlaces
  <2>2. pc[p] = "upload"
    BY <1>6 DEF Upload, At
  <2> HIDE DEF j
  <2> QED BY <1>0, <1>6, <2>1, <2>2 DEF Leads, Carried, Alike
<1>7. CASE Record(p)
  <2> DEFINE at == AfterRecord(job[p].kind)
             k == IF at = "idle" THEN NoJob ELSE job[p]
  <2>1. at \in {"finish", "restore", "idle"} /\ Place(p, at, k, batch[p]) /\ Moves(p, at, k, batch[p])
    BY <1>7, RecordPlaces
  <2>2. pc[p] = "record"
    BY <1>7 DEF Record, At
  <2>3. k.run \in {NoRun, job[p].run}
    BY <1>0
  <2> HIDE DEF at, k
  <2>4. Leads(p, at) /\ Carried(p, k, batch[p])
    BY <1>7, <2>1, <2>3 DEF Leads, Carried
  <2> QED BY <2>1, <2>2, <2>4
<1>8. CASE \E s \in {"succeeded", "failed"} : Finish(p, s)
  <2>1. Place(p, AfterRun(p), NoJob, batch[p]) /\ Moves(p, AfterRun(p), NoJob, batch[p])
    BY <1>8, FinishPlaces
  <2>2. AfterRun(p) \in {"idle", "batch"} /\ pc[p] \in {"finish", "fail"}
    BY <1>8 DEF Finish, At, AfterRun
  <2> QED BY <1>0, <2>1, <2>2 DEF Leads, Carried
<1>9. CASE GetToken(p)
  BY <1>0, <1>9, TokenPlaces DEF Leads, Carried, Alike, GetToken, At
<1>10. CASE Download(p)
  BY <1>0, <1>10, DownloadPlaces, DownloadTyped DEF Leads, Carried, Alike, Download, At
<1>11. CASE Connect(p)
  <2>1. Place(p, "save", job[p], batch[p]) /\ Moves(p, "save", job[p], batch[p])
    BY <1>11, ConnectPlaces
  <2>2. pc[p] = "exchange"
    BY <1>11 DEF Connect, At
  <2> QED BY <1>0, <1>11, <2>1, <2>2 DEF Leads, Carried, Alike
<1>12. CASE SaveTokens(p) \/ Revoke(p)
  BY <1>0, <1>12, EndPlaces DEF Leads, Carried, Alike, SaveTokens, Revoke, At
<1>13. CASE FailCall(p)
  <2>1. \E at \in {"idle", "fail"}, j \in {NoJob, job[p]} :
          Place(p, at, j, batch[p]) /\ Moves(p, at, j, batch[p])
    BY <1>13, FailCallPlaces
  <2>2. pc[p] \notin {"idle", "fail"}
    BY <1>13 DEF FailCall
  <2> QED BY <1>0, <2>1, <2>2 DEF Leads, Carried
<1>14. CASE Stop(p)
  <2>1. Place(p, "idle", NoJob, {}) /\ Moves(p, "idle", NoJob, {})
    BY <1>14, StopPlaces
  <2>2. pc[p] # "idle"
    BY <1>14 DEF Stop
  <2> QED BY <1>0, <2>1, <2>2 DEF Leads, Carried
<1>15. ASSUME NEW c \in Conns, p \in Users, CreateBackup(p, c) \/ RestoreBackup(p, c) PROVE Goal
  <2>1. \E j : j.run = NoRun /\ Place(p, "token", j, batch[p]) /\ Moves(p, "token", j, batch[p])
    BY <1>15, AskedPlaces
  <2>2. pc[p] = "idle"
    BY <1>15 DEF CreateBackup, RestoreBackup, Begin, At
  <2> QED BY <1>0, <2>1, <2>2 DEF Leads, Carried
<1>16. ASSUME NEW c \in Conns, p \in Users, Consume(p, c) PROVE Goal
  <2>1. \E j : j.run = NoRun /\ Place(p, "exchange", j, batch[p]) /\ Moves(p, "exchange", j, batch[p])
    BY <1>16, RequestPlaces
  <2>2. pc[p] = "idle"
    BY <1>16 DEF Consume, At
  <2> QED BY <1>0, <2>1, <2>2 DEF Leads, Carried
<1>17. ASSUME NEW c \in Conns, p \in Users, Disconnect(p, c) PROVE Goal
  <2>1. \E j : j.run = NoRun /\ Place(p, "revoke", j, batch[p]) /\ Moves(p, "revoke", j, batch[p])
    BY <1>17, RequestPlaces
  <2>2. pc[p] = "idle"
    BY <1>17 DEF Disconnect, At
  <2> QED BY <1>0, <2>1, <2>2 DEF Leads, Carried
<1> QED BY <1>1, <1>2, <1>3, <1>4, <1>5, <1>6, <1>7, <1>8, <1>9, <1>10, <1>11, <1>12, <1>13, <1>14,
           <1>15, <1>16, <1>17 DEF Acts

\* So every step leaves every invocation in its place.
LEMMA PlacesKept ==
  ASSUME Base, FilesTrue, [Next]_vars
  PROVE  Places'
<1>1. CASE Still
  BY <1>1, StillPlaces DEF Base, Places
<1>2. ASSUME NEW p \in Procs, Acts(p) PROVE Places'
  BY <1>2, Destinations, PlacesAfterMove DEF Base
<1> QED BY <1>1, <1>2, RestorePlaces, PostPlaces, StepsOfActors DEF Actors

\* The files hold after a move if they do for the one that moves, and for the rows it adds.
LEMMA HeldAfterMove ==
  ASSUME Base, FilesTrue, NEW p \in Procs, NEW at, NEW j, NEW b, Moves(p, at, j, b),
         drive' \in Seq(FileSpace), Kept(drive, drive'), HeldFile(at, j, drive'),
         \A r \in backups' : r \in backups \/ HeldRow(r, drive')
  PROVE  FilesTrue'
<1>1. drive \in Seq(FileSpace)
  BY DEF Base, Tables
<1>2. ASSUME NEW q \in Procs PROVE HeldFile(pc'[q], job'[q], drive')
  <2>1. CASE q = p
    BY <2>1 DEF Moves, Base, Places
  <2>2. CASE q # p
    <3>1. pc'[q] = pc[q] /\ job'[q] = job[q]
      BY <2>2 DEF Moves, Base, Places
    <3>2. HeldFile(pc[q], job[q], drive)
      BY DEF FilesTrue
    <3> QED BY <1>1, <3>1, <3>2, StillHeld
  <2> QED BY <2>1, <2>2
<1>3. ASSUME NEW r \in backups' PROVE HeldRow(r, drive')
  BY <1>1, StillHeld DEF FilesTrue
<1>4. (\A q \in Procs : HeldFile(pc[q], job[q], drive))' /\ (\A r \in backups : HeldRow(r, drive))'
  BY <1>2, <1>3
<1> QED BY <1>4 DEF FilesTrue

\* Files that are not written are kept.
LEMMA KeptSame == \A d : Len(d) \in Nat => Kept(d, d)
BY DEF Kept

\* A job that only has its history extended holds the same file.
LEMMA HeldAlike ==
  ASSUME NEW at, NEW j, NEW k, NEW d, Alike(k, j), k.doc = j.doc, k.file = j.file, HeldFile(at, j, d)
  PROVE  HeldFile(at, k, d)
BY DEF Alike, HeldFile

\* Every step leaves the files true.
LEMMA FilesKept ==
  ASSUME Base, FilesTrue, [Next]_vars
  PROVE  FilesTrue'
<1>1. drive \in Seq(FileSpace) /\ Len(drive) \in Nat /\ Kept(drive, drive)
  BY KeptSame DEF Base, Tables
\* A step that writes neither the storage nor its records.
<1>2. ASSUME NEW p \in Procs, NEW at, NEW j, NEW b, Moves(p, at, j, b),
             HeldFile(at, j, drive), drive' = drive, backups' = backups
      PROVE  FilesTrue'
  BY <1>1, <1>2, HeldAfterMove
<1>3. \A j : \A at \in Pcs \ {"token", "refresh", "download", "upload", "record"} : HeldFile(at, j, drive)
  BY DEF HeldFile
<1>4. CASE Still
  <2>1. pc' = pc /\ job' = job /\ drive' = drive /\ backups' = backups
    BY <1>4, StillPlaces DEF Still, StartOAuth, SetFrequency, Expire, Tick, vars, cloud
  <2> QED BY <2>1 DEF FilesTrue
<1>5. ASSUME NEW p \in Procs, Claim(p) PROVE FilesTrue'
  <2>1. drive' = drive /\ backups' = backups
    BY <1>5 DEF Claim
  <2>2. PICK b : Moves(p, "batch", NoJob, b)
    BY <1>5, ClaimPlaces
  <2> QED BY <1>2, <1>3, <2>1, <2>2 DEF Pcs
<1>6. ASSUME NEW p \in Procs, NextClaim(p) PROVE FilesTrue'
  <2>1. drive' = drive /\ backups' = backups
    BY <1>6 DEF NextClaim, cloud
  <2>2. PICK cl \in batch[p], at \in {"fail", "refresh", "build"} :
          Moves(p, at, Claimed(cl), batch[p] \ {cl})
    BY <1>6, NextClaimPlaces
  <2>3. Claimed(cl).kind = "scheduled"
    BY ClaimedFields DEF Base, Places
  <2>4. HeldFile(at, Claimed(cl), drive)
    BY <2>3 DEF HeldFile
  <2> QED BY <1>2, <2>1, <2>2, <2>4
<1>7. ASSUME NEW p \in Procs, Refresh(p) PROVE FilesTrue'
  <2>1. drive' = drive /\ backups' = backups /\ pc[p] = "refresh"
    BY <1>7 DEF Refresh, At
  <2>2. LET at == AfterToken(job[p].kind)
        IN at \in {"download", "build"} /\ Moves(p, at, job[p], batch[p])
    BY <1>7, RefreshPlaces
  <2>3. HeldFile("refresh", job[p], drive)
    BY <2>1 DEF FilesTrue
  <2>4. HeldFile(AfterToken(job[p].kind), job[p], drive)
    BY <2>2, <2>3 DEF HeldFile
  <2> QED BY <1>2, <2>1, <2>2, <2>4
<1>8. ASSUME NEW p \in Procs, Build(p) PROVE FilesTrue'
  <2>1. drive' = drive /\ backups' = backups /\ pc[p] = "build"
    BY <1>8 DEF Build, At, cloud
  <2> DEFINE at == IF job[p].kind = "scheduled" THEN "find" ELSE "upload"
             j == [job[p] EXCEPT !.doc = data[C(p)]]
  <2>2. Alike(j, job[p]) /\ j.file = job[p].file /\ Moves(p, at, j, batch[p])
    BY <1>8, BuildPlaces
  <2>3. Place(p, "build", job[p], batch[p]) /\ job[p].kind \in {"scheduled", "manual", "restore"}
    BY <2>1, PlaceOf DEF Base
  <2>4. at = "find" \/ (at = "upload" /\ job[p].file = 0)
    BY <2>3 DEF Place
  <2> HIDE DEF at, j
  <2>5. HeldFile(at, j, drive)
    BY <2>2, <2>4 DEF HeldFile
  <2> QED BY <1>2, <2>1, <2>2, <2>5
<1>9. ASSUME NEW p \in Procs, Find(p) PROVE FilesTrue'
  <2>1. drive' = drive /\ backups' = backups
    BY <1>9 DEF Find, cloud
  <2>2. PICK f \in Nat :
           LET j == [job[p] EXCEPT !.file = f]
           IN /\ f # 0 => f \in FilesOfRun(p)
              /\ Alike(j, job[p]) /\ j.file = f
              /\ Moves(p, "upload", j, batch[p])
    BY <1>9, FindPlaces
  <2> DEFINE j == [job[p] EXCEPT !.file = f]
  <2>3. f # 0 => f \in FilesOfRun(p)
    BY <2>2
  <2>4. Alike(j, job[p]) /\ j.file = f /\ Moves(p, "upload", j, batch[p])
    BY <2>2
  <2> HIDE DEF j
  <2>5. HeldFile("upload", j, drive)
    BY <2>3, <2>4 DEF HeldFile, FilesOfRun, Alike
  <2> QED BY <1>2, <2>1, <2>4, <2>5
<1>10. ASSUME NEW p \in Procs, Upload(p) PROVE FilesTrue'
  <2> DEFINE f == IF job[p].file = 0 THEN Len(drive) + 1 ELSE job[p].file
             j == [job[p] EXCEPT !.file = f]
  <2>1. Alike(j, job[p]) /\ j.file = f /\ j.doc = job[p].doc /\ Moves(p, "record", j, batch[p])
    BY <1>10, UploadPlaces
  <2>2. /\ drive' \in Seq(FileSpace) /\ f \in 1..Len(drive') /\ Kept(drive, drive')
        /\ drive'[f] = [run |-> job[p].run, content |-> job[p].doc]
    BY <1>10, Written
  <2>3. backups' = backups
    BY <1>10 DEF Upload
  <2> HIDE DEF j, f
  <2>4. HeldFile("record", j, drive')
    BY <2>1, <2>2 DEF HeldFile, Alike
  <2> QED BY <2>1, <2>2, <2>3, <2>4, HeldAfterMove
<1>11. ASSUME NEW p \in Procs, Record(p) PROVE FilesTrue'
  <2>1. drive' = drive /\ pc[p] = "record"
    BY <1>11 DEF Record, At
  <2> DEFINE at == AfterRecord(job[p].kind)
             k == IF at = "idle" THEN NoJob ELSE job[p]
             row == [conn |-> C(p), run |-> job[p].run, file |-> job[p].file, sum |-> job[p].doc]
  <2>2. at \in {"finish", "restore", "idle"} /\ Moves(p, at, k, batch[p])
    BY <1>11, RecordPlaces
  <2>3. HeldFile("record", job[p], drive)
    BY <2>1 DEF FilesTrue
  <2>4. HeldRow(row, drive)
    BY <2>3 DEF HeldFile, HeldRow
  <2>5. \A r \in backups' : r \in backups \/ r = row
    BY <1>11 DEF Record
  <2> HIDE DEF at, k, row
  <2>6. HeldFile(at, k, drive)
    BY <2>2 DEF HeldFile
  <2> QED BY <1>1, <2>1, <2>2, <2>4, <2>5, <2>6, HeldAfterMove
<1>12. ASSUME NEW p \in Procs, NEW s \in {"succeeded", "failed"}, Finish(p, s) PROVE FilesTrue'
  <2>1. drive' = drive /\ backups' = backups /\ Moves(p, AfterRun(p), NoJob, batch[p])
    BY <1>12, FinishPlaces DEF Finish
  <2>2. HeldFile(AfterRun(p), NoJob, drive)
    BY DEF HeldFile, AfterRun
  <2> QED BY <1>2, <2>1, <2>2
<1>13. ASSUME NEW p \in Procs, GetToken(p) PROVE FilesTrue'
  <2>1. drive' = drive /\ backups' = backups /\ pc[p] = "token"
    BY <1>13 DEF GetToken, At, cloud
  <2>2. PICK at \in {"idle", "refresh", "download", "build"} :
            Moves(p, at, IF at = "idle" THEN NoJob ELSE job[p], batch[p])
    BY <1>13, TokenPlaces
  <2>3. HeldFile("token", job[p], drive)
    BY <2>1 DEF FilesTrue
  <2>4. HeldFile(at, IF at = "idle" THEN NoJob ELSE job[p], drive)
    BY <2>3 DEF HeldFile
  <2> QED BY <1>2, <2>1, <2>2, <2>4
<1>14. ASSUME NEW p \in Procs, Download(p) PROVE FilesTrue'
  <2>1. drive' = drive /\ backups' = backups
    BY <1>14 DEF Download, cloud
  <2>2. PICK at, k : at \in {"idle", "build"} /\ Moves(p, at, k, batch[p])
    BY <1>14, DownloadPlaces, DownloadTyped
  <2> QED BY <1>2, <1>3, <2>1, <2>2 DEF Pcs
<1>15. ASSUME NEW p \in Procs, Connect(p) \/ SaveTokens(p) \/ Revoke(p) \/ FailCall(p) \/ Stop(p)
       PROVE  FilesTrue'
  <2>1. drive' = drive /\ backups' = backups
    BY <1>15 DEF Connect, SaveTokens, Revoke, FailCall, Stop, cloud
  <2>2. PICK at, j, b : at \in {"idle", "save", "fail"} /\ Moves(p, at, j, b)
    <3>1. FailCall(p) => \E at \in {"idle", "fail"} : \E j, b : Moves(p, at, j, b)
      BY FailCallPlaces
    <3>2. Connect(p) \/ SaveTokens(p) \/ Revoke(p) \/ Stop(p) =>
            \E at \in {"idle", "save"} : \E j, b : Moves(p, at, j, b)
      BY ConnectPlaces, EndPlaces, StopPlaces
    <3> QED BY <1>15, <3>1, <3>2
  <2> QED BY <1>2, <1>3, <2>1, <2>2 DEF Pcs
<1>16. ASSUME NEW p \in Users, NEW c \in Conns, CreateBackup(p, c) \/ RestoreBackup(p, c) PROVE FilesTrue'
  <2>1. PICK kind, j :
           /\ kind \in {"manual", "restore"}
           /\ j.kind = kind
           /\ kind = "restore" => \E b \in backups : j.file = b.file
           /\ Moves(p, "token", j, batch[p]) /\ drive' = drive /\ backups' = backups
    BY <1>16, AskedPlaces
  <2>2. HeldFile("token", j, drive)
    BY <2>1 DEF HeldFile, FilesTrue, HeldRow
  <2> QED BY <1>2, <2>1, <2>2 DEF Procs
<1>17. ASSUME NEW p \in Users, NEW c \in Conns, Consume(p, c) \/ Disconnect(p, c) PROVE FilesTrue'
  <2>1. PICK at, j : at \in {"exchange", "revoke"} /\ Moves(p, at, j, batch[p])
    <3>1. Consume(p, c) => \E j : Moves(p, "exchange", j, batch[p])
      BY RequestPlaces
    <3>2. Disconnect(p, c) => \E j : Moves(p, "revoke", j, batch[p])
      BY RequestPlaces
    <3> QED BY <1>17, <3>1, <3>2
  <2>2. drive' = drive /\ backups' = backups
    BY <1>17 DEF Consume, Disconnect
  <2> QED BY <1>2, <1>3, <2>1, <2>2 DEF Procs, Pcs
<1>18. ASSUME NEW p \in Procs, Restore(p) PROVE FilesTrue'
  <2>1. /\ pc' = [pc EXCEPT ![p] = "idle"] /\ C(p) \in Conns /\ job[p].want \in SUBSET Postings
        /\ \A q \in Procs \ {p} : job'[q] = Late(C(p), job[p].want)[q]
    BY <1>18, RestorePlaces
  <2>2. drive' = drive /\ backups' = backups
    BY <1>18 DEF Restore
  <2>3. ASSUME NEW q \in Procs PROVE HeldFile(pc'[q], job'[q], drive)
    <3>1. CASE q = p
      BY <1>3, <2>1, <3>1 DEF Base, Places, Pcs
    <3>2. CASE q # p
      <4>1. pc'[q] = pc[q] /\ HeldFile(pc[q], job[q], drive)
        BY <2>1, <3>2 DEF Base, Places, FilesTrue
      <4>2. Alike(job'[q], job[q]) /\ job'[q].doc = job[q].doc /\ job'[q].file = job[q].file
        <5> DEFINE k == Late(C(p), job[p].want)[q]
        <5>1. job'[q] = k
          BY <2>1, <3>2
        <5>2. Alike(k, job[q]) /\ k.doc = job[q].doc /\ k.file = job[q].file
          BY <2>1, LateJobs DEF Base
        <5> QED BY <5>1, <5>2
      <4> QED BY <4>1, <4>2, HeldAlike
    <3> QED BY <3>1, <3>2
  <2>4. (\A q \in Procs : HeldFile(pc[q], job[q], drive))'
    BY <2>2, <2>3
  <2> QED BY <2>2, <2>4 DEF FilesTrue
<1>19. ASSUME NEW c \in Conns, NEW x \in Postings, Post(c, x) PROVE FilesTrue'
  <2>1. pc' = pc /\ \A q \in Procs : job'[q] = Late(c, {x})[q]
    BY <1>19, PostPlaces
  <2>2. drive' = drive /\ backups' = backups
    BY <1>19 DEF Post
  <2>3. ASSUME NEW q \in Procs PROVE HeldFile(pc'[q], job'[q], drive)
    <3>1. HeldFile(pc[q], job[q], drive)
      BY DEF FilesTrue
    <3>2. Alike(job'[q], job[q]) /\ job'[q].doc = job[q].doc /\ job'[q].file = job[q].file
      <4> DEFINE k == Late(c, {x})[q]
      <4>1. job'[q] = k
        BY <2>1
      <4>2. {x} \in SUBSET Postings
        OBVIOUS
      <4>3. Alike(k, job[q]) /\ k.doc = job[q].doc /\ k.file = job[q].file
        BY <4>2, LateJobs DEF Base
      <4> QED BY <4>1, <4>3
    <3> QED BY <2>1, <3>1, <3>2, HeldAlike
  <2>4. (\A q \in Procs : HeldFile(pc[q], job[q], drive))'
    BY <2>2, <2>3
  <2> QED BY <2>2, <2>4 DEF FilesTrue
<1> QED BY <1>4, <1>5, <1>6, <1>7, <1>8, <1>9, <1>10, <1>11, <1>12, <1>13, <1>14, <1>15, <1>16,
           <1>17, <1>18, <1>19, StepKinds

\* An invocation that stays where it is keeps its job, up to the history of a restore; one
\* that goes elsewhere does so by its own step.
LEMMA Staying ==
  ASSUME Base, FilesTrue, [Next]_vars, NEW q \in Procs, pc'[q] = pc[q]
  PROVE  /\ Alike(job'[q], job[q]) /\ job'[q].doc = job[q].doc /\ job'[q].file = job[q].file
         /\ batch'[q] = batch[q]
<1> DEFINE Goal == /\ Alike(job'[q], job[q]) /\ job'[q].doc = job[q].doc /\ job'[q].file = job[q].file
                   /\ batch'[q] = batch[q]
<1>1. Alike(job[q], job[q])
  BY DEF Base, Places, Alike, JobSpace
<1>2. CASE Still
  BY <1>1, <1>2, StillPlaces
<1>3. ASSUME NEW p \in Procs, Acts(p) PROVE Goal
  <2>1. PICK at, j, b : Moves(p, at, j, b) /\ at # pc[p]
    BY <1>3, Destinations
  <2>2. q # p /\ job'[q] = job[q] /\ batch'[q] = batch[q]
    BY <2>1 DEF Moves, Base, Places
  <2> QED BY <1>1, <2>2
<1>4. ASSUME NEW p \in Procs, Restore(p) PROVE Goal
  <2>1. /\ pc'[p] = "idle" /\ C(p) \in Conns /\ job[p].want \in SUBSET Postings
        /\ \A r \in Procs \ {p} : job'[r] = Late(C(p), job[p].want)[r]
    BY <1>4, RestorePlaces
  <2>2. pc[p] = "restore" /\ batch' = batch
    BY <1>4 DEF Restore, At
  <2> DEFINE k == Late(C(p), job[p].want)[q]
  <2>3. job'[q] = k
    BY <2>1, <2>2
  <2>4. Alike(k, job[q]) /\ k.doc = job[q].doc /\ k.file = job[q].file
    BY <2>1, LateJobs DEF Base
  <2> QED BY <2>2, <2>3, <2>4
<1>5. ASSUME NEW c \in Conns, NEW x \in Postings, Post(c, x) PROVE Goal
  <2> DEFINE k == Late(c, {x})[q]
  <2>1. job'[q] = k /\ batch' = batch /\ {x} \in SUBSET Postings
    BY <1>5, PostPlaces DEF Post
  <2>2. Alike(k, job[q]) /\ k.doc = job[q].doc /\ k.file = job[q].file
    BY <2>1, LateJobs DEF Base
  <2> QED BY <2>1, <2>2
<1> QED BY <1>2, <1>3, <1>4, <1>5, StepsOfActors DEF Actors

\* Who leaves its place has acted.
LEMMA Leaving ==
  ASSUME Base, FilesTrue, [Next]_vars, NEW q \in Procs, pc'[q] # pc[q]
  PROVE  \/ Acts(q) /\ Leads(q, pc'[q])
         \/ Restore(q) /\ pc'[q] = "idle"
<1>1. ~Still
  BY StillPlaces
<1>2. ASSUME NEW p \in Procs, Acts(p) PROVE Acts(q) /\ Leads(q, pc'[q])
  <2>1. PICK at, j, b : Moves(p, at, j, b) /\ Leads(p, at)
    BY <1>2, Destinations
  <2>2. q = p /\ pc'[q] = at
    BY <2>1 DEF Moves, Base, Places
  <2> QED BY <1>2, <2>1, <2>2
<1>3. ASSUME NEW p \in Procs, Restore(p) PROVE Restore(q) /\ pc'[q] = "idle"
  <2>1. pc' = [pc EXCEPT ![p] = "idle"]
    BY <1>3 DEF Restore
  <2>2. q = p
    BY <2>1 DEF Base, Places
  <2> QED BY <1>3, <2>1, <2>2 DEF Base, Places
<1>4. ~\E c \in Conns, x \in Postings : Post(c, x)
  BY PostPlaces
<1> QED BY <1>1, <1>2, <1>3, <1>4, StepsOfActors DEF Actors

\* The program starts like that,
LEMMA BaseInitially == Init => Base /\ FilesTrue
<1> SUFFICES ASSUME Init PROVE Base /\ FilesTrue
  OBVIOUS
<1>1. Tables
  <2>1. \A t \in Days : t \in Int
    BY BackupAssumption DEF Days
  <2>2. conn \in [Conns -> [status : {"active", "revoked"}, freq : Frequencies, next : Int]]
    BY <2>1 DEF Init, Frequencies
  <2>3. quiet \in [Conns -> BOOLEAN]
    BY DEF Init
  <2>4. runs \in [Conns -> [Days -> RunSpace]]
    BY DEF Init, RunSpace
  <2>5. drive \in Seq(FileSpace)
    BY DEF Init
  <2> QED BY <2>2, <2>3, <2>4, <2>5 DEF Init, Tables
<1>2. Places
  BY NoJobFits DEF Init, Places, Pcs
<1>3. FilesTrue
  BY DEF Init, FilesTrue, HeldFile
<1> QED BY <1>1, <1>2, <1>3 DEF Base

\* and stays so.
LEMMA BaseAlways == Spec => [](Base /\ FilesTrue)
<1>1. Base /\ FilesTrue /\ [Next]_vars => (Base /\ FilesTrue)'
  BY TablesKept, PlacesKept, FilesKept DEF Base
<1> QED BY <1>1, BaseInitially, PTL DEF Spec

(***************************************************************************)
(* Disconnecting. While a user is quietly disconnected nobody holds tokens *)
(* to save: only an expired token is refreshed, and a callback ends the    *)
(* quiet before it saves.                                                  *)
(***************************************************************************)
QuietTrue ==
  \A c \in Conns : quiet[c] =>
    /\ creds[c] = "none"
    /\ \A q \in Procs : pc[q] \in {"refresh", "save"} => job[q].conn # c

\* The quiet lasts after a move that neither saves for a quiet connection nor goes to save.
LEMMA QuietAfterMove ==
  ASSUME Base, QuietTrue, NEW p \in Procs, NEW at, NEW j, NEW b, Moves(p, at, j, b),
         \A c \in Conns : quiet'[c] => /\ quiet[c] /\ creds'[c] = "none"
                                       /\ at \in {"refresh", "save"} => j.conn # c
  PROVE  QuietTrue'
<1>1. ASSUME NEW c \in Conns, quiet'[c], NEW q \in Procs, pc'[q] \in {"refresh", "save"}
      PROVE  job'[q].conn # c
  <2>1. CASE q = p
    BY <1>1, <2>1 DEF Moves, Base, Places
  <2>2. CASE q # p
    BY <1>1, <2>2 DEF Moves, Base, Places, QuietTrue
  <2> QED BY <2>1, <2>2
<1>2. \A c \in Conns : quiet'[c] => /\ creds'[c] = "none"
                                    /\ \A q \in Procs : pc'[q] \in {"refresh", "save"} => job'[q].conn # c
  BY <1>1
<1> QED BY <1>2 DEF QuietTrue

\* Every step keeps the quiet.
LEMMA QuietKept ==
  ASSUME Base, FilesTrue, QuietTrue, [Next]_vars
  PROVE  QuietTrue'
<1>1. CASE Still
  <2>1. pc' = pc /\ job' = job
    BY <1>1, StillPlaces
  <2>2. quiet' = quiet /\ \A c \in Conns : creds[c] = "none" => creds'[c] = "none"
    BY <1>1 DEF Still, StartOAuth, SetFrequency, Expire, Tick, vars, cloud
  <2> QED BY <2>1, <2>2 DEF QuietTrue
<1>2. ASSUME NEW p \in Procs, NextClaim(p) PROVE QuietTrue'
  <2>1. PICK cl \in batch[p], at \in {"fail", "refresh", "build"} :
           /\ Moves(p, at, Claimed(cl), batch[p] \ {cl})
           /\ at = "refresh" <=> creds[cl.conn] = "old"
    BY <1>2, NextClaimPlaces
  <2>2. Claimed(cl).conn = cl.conn
    BY ClaimedFields DEF Base, Places
  <2>3. creds' = creds /\ quiet' = quiet
    BY <1>2 DEF NextClaim, cloud
  <2>4. \A c \in Conns : quiet'[c] => /\ quiet[c] /\ creds'[c] = "none"
                                      /\ at \in {"refresh", "save"} => Claimed(cl).conn # c
    BY <2>1, <2>2, <2>3 DEF QuietTrue
  <2> QED BY <2>1, <2>4, QuietAfterMove
<1>3. ASSUME NEW p \in Procs, GetToken(p) PROVE QuietTrue'
  <2>1. PICK at \in {"idle", "refresh", "download", "build"} :
            /\ Moves(p, at, IF at = "idle" THEN NoJob ELSE job[p], batch[p])
            /\ at = "refresh" <=> creds[C(p)] = "old"
    BY <1>3, TokenPlaces
  <2> DEFINE j == IF at = "idle" THEN NoJob ELSE job[p]
  <2>2. creds' = creds /\ quiet' = quiet
    BY <1>3 DEF GetToken, cloud
  <2>3. \A c \in Conns : quiet'[c] => /\ quiet[c] /\ creds'[c] = "none"
                                      /\ at \in {"refresh", "save"} => j.conn # c
    BY <2>1, <2>2 DEF QuietTrue, C
  <2>4. Moves(p, at, j, batch[p])
    BY <2>1
  <2> HIDE DEF j
  <2> QED BY <2>3, <2>4, QuietAfterMove
<1>4. ASSUME NEW p \in Procs, Connect(p) PROVE QuietTrue'
  <2>1. Moves(p, "save", job[p], batch[p])
    BY <1>4, ConnectPlaces
  <2>2. creds' = creds /\ quiet' = [quiet EXCEPT ![C(p)] = FALSE]
    BY <1>4 DEF Connect
  <2>3. \A c \in Conns : quiet'[c] => /\ quiet[c] /\ creds'[c] = "none"
                                      /\ job[p].conn # c
    BY <2>2 DEF QuietTrue, C, Base, Tables
  <2> QED BY <2>1, <2>3, QuietAfterMove
<1>5. ASSUME NEW p \in Procs, Refresh(p) \/ SaveTokens(p) PROVE QuietTrue'
  <2>1. PICK at, j : at \in {"download", "build", "idle"} /\ Moves(p, at, j, batch[p])
    BY <1>5, RefreshPlaces, EndPlaces
  <2>2. pc[p] \in {"refresh", "save"} /\ quiet' = quiet /\ creds' = [creds EXCEPT ![C(p)] = "good"]
    BY <1>5 DEF Refresh, SaveTokens, At
  <2>3. \A c \in Conns : quiet[c] => C(p) # c
    BY <2>2 DEF QuietTrue, C
  <2>4. \A c \in Conns : quiet'[c] => quiet[c] /\ creds'[c] = "none"
    BY <2>2, <2>3 DEF QuietTrue, Base, Tables
  <2> QED BY <2>1, <2>4, QuietAfterMove
<1>6. ASSUME NEW p \in Users, NEW c \in Conns, Disconnect(p, c) PROVE QuietTrue'
  <2>1. p \in Procs /\ pc[p] = "idle"
    BY <1>6 DEF Procs, Disconnect, At
  <2>2. PICK j : Moves(p, "revoke", j, batch[p])
    BY <1>6, RequestPlaces
  <2>3. creds' = [creds EXCEPT ![c] = "none"] /\ quiet' = [quiet EXCEPT ![c] = ~AboutToSave(c)]
    BY <1>6 DEF Disconnect, ForgetCredentials
  <2>4. ASSUME NEW q \in Procs, pc'[q] \in {"refresh", "save"}
        PROVE  pc[q] = pc'[q] /\ job'[q] = job[q]
    BY <2>2, <2>4 DEF Moves, Base, Places
  <2>5. quiet'[c] <=> ~AboutToSave(c)
    BY <2>3, Zenon DEF Base, Tables
  <2>6. ASSUME NEW d \in Conns, quiet'[d]
        PROVE  /\ creds'[d] = "none"
               /\ \A q \in Procs : pc'[q] \in {"refresh", "save"} => job'[q].conn # d
    <3>1. CASE d = c
      <4>1. creds'[d] = "none"
        BY <2>3, <3>1 DEF Base, Tables
      <4>2. \A q \in Procs : pc[q] \in {"refresh", "save"} => job[q].conn # d
        BY <2>5, <2>6, <3>1 DEF AboutToSave, C
      <4> QED BY <2>4, <4>1, <4>2
    <3>2. CASE d # c
      <4>1. quiet[d] /\ creds'[d] = creds[d]
        BY <2>3, <2>6, <3>2 DEF Base, Tables
      <4> QED BY <2>4, <4>1 DEF QuietTrue
    <3> QED BY <3>1, <3>2
  <2>7. \A d \in Conns : quiet'[d] =>
           /\ creds'[d] = "none"
           /\ \A q \in Procs : pc'[q] \in {"refresh", "save"} => job'[q].conn # d
    BY <2>6
  <2> QED BY <2>7 DEF QuietTrue
\* Nobody else touches the credentials, or comes to where tokens are saved.
<1>7. ASSUME NEW p \in Procs, Acts(p), ~NextClaim(p), ~GetToken(p), ~Connect(p), ~Refresh(p),
             ~SaveTokens(p), ~(p \in Users /\ \E c \in Conns : Disconnect(p, c))
      PROVE  QuietTrue'
  <2>1. PICK at, j, b : Moves(p, at, j, b) /\ Leads(p, at)
    BY <1>7, Destinations
  <2>2. at \notin {"refresh", "save"}
    BY <1>7, <2>1 DEF Leads
  <2>3. creds' = creds /\ quiet' = quiet
    BY <1>7 DEF Acts, Claim, Build, Find, Upload, Record, Finish, Download, Revoke, FailCall, Stop,
       CreateBackup, RestoreBackup, Begin, Consume, cloud
  <2> QED BY <2>1, <2>2, <2>3, QuietAfterMove DEF QuietTrue
<1>8. ASSUME NEW p \in Procs, Restore(p) PROVE QuietTrue'
  <2>1. /\ pc' = [pc EXCEPT ![p] = "idle"] /\ C(p) \in Conns /\ job[p].want \in SUBSET Postings
        /\ \A q \in Procs \ {p} : job'[q] = Late(C(p), job[p].want)[q]
    BY <1>8, RestorePlaces
  <2>2. creds' = creds /\ quiet' = quiet
    BY <1>8 DEF Restore
  <2>3. \A q \in Procs : pc'[q] \in {"refresh", "save"} => q # p /\ pc'[q] = pc[q]
    BY <2>1 DEF Base, Places
  <2>4. \A q \in Procs : Alike(Late(C(p), job[p].want)[q], job[q])
    BY <2>1, LateJobs DEF Base
  <2>5. \A q \in Procs : pc'[q] \in {"refresh", "save"} => pc'[q] = pc[q] /\ job'[q].conn = job[q].conn
    BY <2>1, <2>3, <2>4 DEF Alike
  <2> QED BY <2>2, <2>5 DEF QuietTrue
<1>9. ASSUME NEW c \in Conns, NEW x \in Postings, Post(c, x) PROVE QuietTrue'
  <2>1. pc' = pc /\ \A q \in Procs : job'[q] = Late(c, {x})[q]
    BY <1>9, PostPlaces
  <2>2. creds' = creds /\ quiet' = quiet /\ {x} \in SUBSET Postings
    BY <1>9 DEF Post
  <2>3. \A q \in Procs : Alike(Late(c, {x})[q], job[q])
    BY <2>2, LateJobs DEF Base
  <2>4. \A q \in Procs : job'[q].conn = job[q].conn
    BY <2>1, <2>3 DEF Alike
  <2> QED BY <2>1, <2>2, <2>4 DEF QuietTrue
<1> QED BY <1>1, <1>2, <1>3, <1>4, <1>5, <1>6, <1>7, <1>8, <1>9, StepsOfActors DEF Actors, Acts

\* After a disconnect the credentials stay deleted until the user connects again.
THEOREM BackupDisconnects == Spec => []NoOrphanCredentials
<1>1. Init => QuietTrue
  BY DEF Init, QuietTrue
<1>2. Base /\ FilesTrue /\ QuietTrue /\ [Next]_vars => QuietTrue'
  BY QuietKept
<1>3. QuietTrue => NoOrphanCredentials
  BY DEF QuietTrue, NoOrphanCredentials
<1> QED BY <1>1, <1>2, <1>3, BaseAlways, PTL DEF Spec

(***************************************************************************)
(* The schedule. A worker that is about to report a success has recorded   *)
(* its copy.                                                               *)
(***************************************************************************)
Recorded == \A p \in Procs : pc[p] = "finish" => \E b \in backups : b.run = job[p].run

\* A row is replaced by a row of its run, and one of no run never is.
LEMMA RowsStay ==
  ASSUME [Next]_vars
  PROVE  /\ \A b \in backups : \E d \in backups' : d.run = b.run
         /\ \A b \in backups : b.run = NoRun => b \in backups'
<1>1. CASE backups' = backups
  BY <1>1
<1>2. ASSUME NEW p \in Procs, Record(p)
      PROVE  /\ \A b \in backups : \E d \in backups' : d.run = b.run
             /\ \A b \in backups : b.run = NoRun => b \in backups'
  <2> DEFINE row == [conn |-> C(p), run |-> job[p].run, file |-> job[p].file, sum |-> job[p].doc]
  <2>1. backups' = (backups \ {b \in backups : b.run = job[p].run /\ b.run # NoRun}) \cup {row}
    BY <1>2 DEF Record
  <2>2. row.run = job[p].run
    OBVIOUS
  <2> HIDE DEF row
  <2> QED BY <2>1, <2>2
<1> QED BY <1>1, <1>2, Writers

\* What a record leaves behind.
LEMMA RecordWrites ==
  ASSUME Base, NEW p \in Procs, Record(p)
  PROVE  /\ [conn |-> C(p), run |-> job[p].run, file |-> job[p].file, sum |-> job[p].doc] \in backups'
         /\ \A b \in backups' :
              \/ b \in backups /\ (b.run # job[p].run \/ b.run = NoRun)
              \/ b = [conn |-> C(p), run |-> job[p].run, file |-> job[p].file, sum |-> job[p].doc]
         /\ pc'[p] # "idle" => job'[p] = job[p]
<1>1. LET at == AfterRecord(job[p].kind)
          k == IF at = "idle" THEN NoJob ELSE job[p]
      IN Moves(p, at, k, batch[p])
  BY RecordPlaces
<1>2. pc'[p] # "idle" => job'[p] = job[p]
  BY <1>1 DEF Moves, Base, Places
<1> QED BY <1>2 DEF Record

\* Every step keeps the copies recorded.
LEMMA RecordedKept ==
  ASSUME Base, FilesTrue, Recorded, [Next]_vars
  PROVE  Recorded'
<1>1. ASSUME NEW q \in Procs, pc'[q] = "finish"
      PROVE  \E b \in backups' : b.run = job'[q].run
  <2>1. CASE pc'[q] = pc[q]
    <3>1. job'[q].run = job[q].run
      BY <2>1, Staying DEF Alike
    <3> QED BY <1>1, <2>1, <3>1, RowsStay DEF Recorded
  <2>2. CASE pc'[q] # pc[q]
    <3>1. Record(q)
      BY <1>1, <2>2, Leaving DEF Leads
    <3> QED BY <1>1, <3>1, RecordWrites
  <2> QED BY <2>1, <2>2
<1> QED BY <1>1 DEF Recorded

\* A step that changes a date is one of the three the property names.
LEMMA DatesMove ==
  ASSUME Base, Recorded, [Next]_vars, NEW c \in Conns, conn'[c].next # conn[c].next
  PROVE  \/ conn'[c].freq # conn[c].freq
         \/ \E p \in Users : pc[p] = "exchange" /\ C(p) = c
         \/ \E b \in backups, p \in Workers : b.run = <<c, job[p].run[2]>> /\ pc[p] = "finish"
<1>1. conn \in [Conns -> [status : {"active", "revoked"}, freq : Frequencies, next : Int]]
  BY DEF Base, Tables
<1>2. ASSUME NEW p \in Procs, NEW s \in {"succeeded", "failed"}, Finish(p, s)
      PROVE  \E b \in backups, q \in Workers : b.run = <<c, job[q].run[2]>> /\ pc[q] = "finish"
  <2>1. C(p) = c /\ s = "succeeded" /\ pc[p] = "finish"
    BY <1>1, <1>2 DEF Finish, At
  <2>2. p \in Workers /\ job[p].run = <<c, job[p].run[2]>>
    BY <2>1, RunOf
  <2> QED BY <2>1, <2>2 DEF Recorded
<1>3. ASSUME NEW d \in Conns, NEW f \in Frequencies, SetFrequency(d, f)
      PROVE  conn'[c].freq # conn[c].freq
  BY <1>1, <1>3 DEF SetFrequency
<1>4. ASSUME NEW p \in Procs, Connect(p)
      PROVE  \E q \in Users : pc[q] = "exchange" /\ C(q) = c
  <2>1. pc[p] = "exchange" /\ C(p) = c
    BY <1>1, <1>4 DEF Connect, At
  <2>2. p \in Users
    BY <2>1, PlaceOf DEF Base
  <2> QED BY <2>1, <2>2
<1>5. ASSUME NEW p \in Procs PROVE ~Revoke(p)
  BY <1>1 DEF Revoke
<1> QED BY <1>2, <1>3, <1>4, <1>5, Writers

\* The schedule moves on from a date only when a copy made for that date has been recorded,
\* or when the user chooses another schedule or connects again.
THEOREM BackupDates == Spec => NoDateSkipped
<1>1. Init => Recorded
  BY DEF Init, Recorded
<1>2. Base /\ FilesTrue /\ Recorded /\ [Next]_vars => Recorded'
  BY RecordedKept
<1>3. Base /\ Recorded /\ [Next]_vars =>
        [\A c \in Conns :
           conn'[c].next # conn[c].next =>
             \/ conn'[c].freq # conn[c].freq
             \/ \E p \in Users : pc[p] = "exchange" /\ C(p) = c
             \/ \E b \in backups, p \in Workers : b.run = <<c, job[p].run[2]>> /\ pc[p] = "finish"]_vars
  BY DatesMove
<1> QED BY <1>1, <1>2, <1>3, BaseAlways, PTL DEF Spec, NoDateSkipped

(***************************************************************************)
(* The restore. From its safety copy on, what a restore would take away is *)
(* in that copy, or came since; the copy is recorded before the restore,   *)
(* and nothing replaces it.                                                *)
(***************************************************************************)
Safe(at, j, D, rows) ==
  j.kind = "restore" =>
    /\ at \in {"upload", "record", "restore"} => \A x \in D[j.conn] : x \in j.doc \/ x \in j.late
    /\ at = "restore" => \E b \in rows : b.conn = j.conn /\ b.run = NoRun /\ b.sum = j.doc

SafetyCopied == \A p \in Procs : Safe(pc[p], job[p], data, backups)

\* Every step keeps the safety copies: what comes late is in the history.
LEMMA SafetyKept ==
  ASSUME Base, FilesTrue, SafetyCopied, [Next]_vars
  PROVE  SafetyCopied'
<1>1. ASSUME NEW q \in Procs
      PROVE  Safe(pc'[q], job'[q], data', backups')
  <2>1. CASE pc'[q] = pc[q]
    <3>1. Alike(job'[q], job[q]) /\ job'[q].doc = job[q].doc
      BY <2>1, Staying
    <3>2. Safe(pc[q], job[q], data, backups)
      BY DEF SafetyCopied
    <3>3. ASSUME job[q].kind = "restore", pc[q] = "restore"
          PROVE  \E b \in backups' : b.conn = job[q].conn /\ b.run = NoRun /\ b.sum = job[q].doc
      BY <3>2, <3>3, RowsStay DEF Safe
    <3>4. ASSUME job[q].kind = "restore", pc[q] \in {"upload", "record", "restore"},
                 NEW x \in data'[job[q].conn]
          PROVE  x \in job[q].doc \/ x \in job'[q].late
      <4>1. x \in data[job[q].conn] => x \in job[q].doc \/ x \in job[q].late
        BY <3>2, <3>4 DEF Safe
      <4>2. ASSUME NEW c \in Conns, NEW S \in SUBSET Postings, job'[q] = Late(c, S)[q],
                   \A d \in Conns \ {c} : data'[d] = data[d], data'[c] \subseteq data[c] \cup S
            PROVE  x \in job[q].doc \/ x \in job'[q].late
        <5> DEFINE k == Late(c, S)[q]
        <5>1. k.late = IF job[q].conn = c /\ job[q].kind = "restore" /\ pc[q] \in {"upload", "record", "restore"}
                         THEN job[q].late \cup S ELSE job[q].late
          BY LateJobs DEF Base
        <5>2. job'[q].late = k.late
          BY <4>2
        <5>3. job[q].conn \in Conns
          BY <3>4 DEF Base, Places, Place
        <5> QED BY <3>4, <4>1, <4>2, <5>1, <5>2, <5>3
      <4>3. ASSUME NEW p \in Procs, Restore(p)
            PROVE  x \in job[q].doc \/ x \in job'[q].late
        <5>1. /\ pc'[p] = "idle" /\ C(p) \in Conns /\ job[p].want \in SUBSET Postings
              /\ \A r \in Procs \ {p} : job'[r] = Late(C(p), job[p].want)[r]
          BY <4>3, RestorePlaces
        <5>2. q # p
          BY <2>1, <3>4, <5>1
        <5>3. data' = [data EXCEPT ![C(p)] = job[p].want]
          BY <4>3 DEF Restore
        <5>4. (\A d \in Conns \ {C(p)} : data'[d] = data[d]) /\ data'[C(p)] \subseteq data[C(p)] \cup job[p].want
          BY <5>1, <5>3 DEF Base, Tables
        <5>5. job'[q] = Late(C(p), job[p].want)[q]
          BY <5>1, <5>2
        <5> QED BY <4>2, <5>1, <5>4, <5>5
      <4>4. ASSUME NEW c \in Conns, NEW y \in Postings, Post(c, y)
            PROVE  x \in job[q].doc \/ x \in job'[q].late
        <5>1. job'[q] = Late(c, {y})[q] /\ {y} \in SUBSET Postings
          BY <4>4, PostPlaces
        <5>2. data' = [data EXCEPT ![c] = @ \cup {y}]
          BY <4>4 DEF Post
        <5>3. (\A d \in Conns \ {c} : data'[d] = data[d]) /\ data'[c] \subseteq data[c] \cup {y}
          BY <5>2 DEF Base, Tables
        <5> QED BY <4>2, <5>1, <5>3
      <4>5. CASE data' = data /\ job'[q] = job[q]
        BY <3>4, <4>1, <4>5
      <4>6. ASSUME ~\E p \in Procs : Restore(p), ~\E c \in Conns, y \in Postings : Post(c, y)
            PROVE  data' = data /\ job'[q] = job[q]
        <5>1. data' = data
          BY <4>6, Writers
        <5>2. CASE Still
          BY <5>1, <5>2, StillPlaces
        <5>3. ASSUME NEW p \in Procs, Acts(p) PROVE job'[q] = job[q]
          <6>1. PICK at, j, b : Moves(p, at, j, b) /\ at # pc[p]
            BY <5>3, Destinations
          <6> QED BY <2>1, <6>1 DEF Moves, Base, Places
        <5> QED BY <4>6, <5>1, <5>2, <5>3, StepsOfActors DEF Actors
      <4> QED BY <4>3, <4>4, <4>5, <4>6
    <3> QED BY <2>1, <3>1, <3>3, <3>4 DEF Safe, Alike
  <2>2. CASE pc'[q] # pc[q]
    <3>1. CASE pc'[q] \notin {"upload", "record", "restore"}
      BY <3>1 DEF Safe
    <3>2. CASE pc'[q] = "upload"
      <4>1. Build(q) \/ Find(q)
        BY <2>2, <3>2, Leaving DEF Leads
      <4>2. CASE Build(q)
        <5> DEFINE j == [job[q] EXCEPT !.doc = data[C(q)]]
        <5>1. Alike(j, job[q]) /\ j.doc = data[C(q)] /\ job'[q] = j
          BY <4>2, BuildPlaces DEF Moves, Base, Places
        <5>2. data' = data
          BY <4>2 DEF Build, cloud
        <5> HIDE DEF j
        <5> QED BY <3>2, <5>1, <5>2 DEF Safe, Alike, C
      <4>3. CASE Find(q)
        <5>1. PICK f \in Nat :
                LET j == [job[q] EXCEPT !.file = f]
                IN Alike(j, job[q]) /\ Moves(q, "upload", j, batch[q])
          BY <4>3, FindPlaces
        <5>2. job'[q].kind = job[q].kind
          BY <5>1 DEF Alike, Moves, Base, Places
        <5>3. job[q].kind = "scheduled"
          BY <4>3, PlaceOf DEF Find, At, Base
        <5> QED BY <5>2, <5>3 DEF Safe
      <4> QED BY <4>1, <4>2, <4>3
    <3>3. CASE pc'[q] = "record"
      <4>1. Upload(q)
        BY <2>2, <3>3, Leaving DEF Leads
      <4> DEFINE f == IF job[q].file = 0 THEN Len(drive) + 1 ELSE job[q].file
                 j == [job[q] EXCEPT !.file = f]
      <4>2. Alike(j, job[q]) /\ j.doc = job[q].doc /\ j.late = job[q].late /\ Moves(q, "record", j, batch[q])
        BY <4>1, UploadPlaces
      <4>3. data' = data /\ pc[q] = "upload"
        BY <4>1 DEF Upload, At
      <4> HIDE DEF j
      <4>4. job'[q] = j
        BY <4>2 DEF Moves, Base, Places
      <4>5. Safe("upload", job[q], data, backups)
        BY <4>3 DEF SafetyCopied
      <4> QED BY <3>3, <4>2, <4>3, <4>4, <4>5 DEF Safe, Alike
    <3>4. CASE pc'[q] = "restore"
      <4>1. Record(q)
        BY <2>2, <3>4, Leaving DEF Leads
      <4>2. data' = data /\ pc[q] = "record"
        BY <4>1 DEF Record, At
      <4>3. /\ [conn |-> C(q), run |-> job[q].run, file |-> job[q].file, sum |-> job[q].doc] \in backups'
            /\ job'[q] = job[q]
        BY <3>4, <4>1, RecordWrites
      <4>4. Safe("record", job[q], data, backups)
        BY <4>2 DEF SafetyCopied
      <4>5. job[q].kind = "restore" => job[q].run = NoRun
        BY DEF Base, Places, Place
      <4> QED BY <3>4, <4>2, <4>3, <4>4, <4>5 DEF Safe, C
    <3> QED BY <3>1, <3>2, <3>3, <3>4
  <2> QED BY <2>1, <2>2
<1> QED BY <1>1 DEF SafetyCopied

\* So a restore takes away what its safety copy has, or what came late.
LEMMA OnlyLateLost ==
  ASSUME Base, SafetyCopied, [Next]_vars, NEW c \in Conns, NEW x \in data[c] \ data'[c]
  PROVE  \/ \E b \in backups : b.conn = c /\ x \in b.sum
         \/ \E p \in Users : x \in job[p].late
<1>1. PICK p \in Procs : Restore(p)
  BY Writers DEF Post, Base, Tables
<1>2. C(p) = c /\ pc[p] = "restore"
  BY <1>1 DEF Restore, At, Base, Tables
<1>3. job[p].kind = "restore" /\ p \in Users
  BY <1>1, RestorePlaces
<1>4. Safe("restore", job[p], data, backups)
  BY <1>2 DEF SafetyCopied
<1> QED BY <1>2, <1>3, <1>4 DEF Safe, C

\* What a restore takes away is in a recorded copy of the same user, or came after its
\* safety copy was read.
THEOREM BackupLoses == Spec => OnlyLatePostingsLost
<1>1. Init => SafetyCopied
  BY DEF Init, SafetyCopied, Safe, NoJob
<1>2. Base /\ FilesTrue /\ SafetyCopied /\ [Next]_vars => SafetyCopied'
  BY SafetyKept
<1>3. Base /\ SafetyCopied /\ [Next]_vars =>
        [\A c \in Conns : \A x \in data[c] \ data'[c] :
           \/ \E b \in backups : b.conn = c /\ x \in b.sum
           \/ \E p \in Users : x \in job[p].late]_vars
  BY OnlyLateLost
<1> QED BY <1>1, <1>2, <1>3, BaseAlways, PTL DEF Spec, OnlyLatePostingsLost

(***************************************************************************)
(* The copies. A run that was taken once is in the hands of one invocation *)
(* at most, which writes its only file before the row that names it.       *)
(***************************************************************************)
Carries(j, b, r) == j.run = r \/ \E d \in b : <<d.conn, d.at>> = r
NoFile(r, D) == \A f \in 1..Len(D) : D[f].run # r

Fresh(r, s) ==
  s.status = "none" =>
    ~s.again /\ NoFile(r, drive) /\ \A p \in Procs : ~Carries(job[p], batch[p], r)

Once(r) ==
  /\ \A p, q \in Procs : Carries(job[p], batch[p], r) /\ Carries(job[q], batch[q], r) => p = q
  /\ \A p \in Procs : (\E d \in batch[p] : <<d.conn, d.at>> = r) => NoFile(r, drive)
  /\ \A p \in Procs : job[p].run = r =>
       /\ pc[p] \in {"refresh", "build", "find", "upload"} => NoFile(r, drive)
       /\ pc[p] = "record" => drive[job[p].file].content = job[p].doc
  /\ \A b \in backups : b.run = r => drive[b.file].content = b.sum

OnceTrue ==
  \A c \in Conns, t \in Days :
    /\ Fresh(<<c, t>>, runs[c][t])
    /\ ~runs[c][t].again => Once(<<c, t>>)

\* No invocation carries the run that is none.
LEMMA CarriesNothing ==
  ASSUME NEW r \in Conns \X Days
  PROVE  r # NoRun /\ NoJob.run # r
BY Distinct DEF NoJob

\* What a claim takes, and how it marks it.
LEMMA ClaimMarks ==
  ASSUME Base, NEW p \in Procs, Claim(p), NEW c \in Conns, NEW t \in Days
  PROVE  /\ (\E d \in batch'[p] : <<d.conn, d.at>> = <<c, t>>) =>
              /\ runs'[c][t].status = "claimed"
              /\ runs'[c][t].again <=> runs[c][t].status # "none"
         /\ (~\E d \in batch'[p] : <<d.conn, d.at>> = <<c, t>>) => runs'[c][t] = runs[c][t]
         /\ batch[p] = {} /\ pc[p] = "idle" /\ job'[p] = NoJob /\ pc'[p] = "batch"
<1>1. PICK S \in SUBSET Due :
        LET taken == {d \in S : Claimable(runs[d][conn[d].next])}
            Row(d) == [status |-> "claimed", tok |-> p, live |-> TRUE,
                       again |-> runs[d][conn[d].next].status # "none"]
        IN /\ runs' = [d \in Conns |-> IF d \in taken
                                         THEN [runs[d] EXCEPT ![conn[d].next] = Row(d)]
                                         ELSE runs[d]]
           /\ batch' = [batch EXCEPT ![p] =
                   {[conn |-> d, at |-> conn[d].next, freq |-> conn[d].freq] : d \in taken}]
  BY DEF Claim
<1> DEFINE taken == {d \in S : Claimable(runs[d][conn[d].next])}
           Row(d) == [status |-> "claimed", tok |-> p, live |-> TRUE,
                      again |-> runs[d][conn[d].next].status # "none"]
           B == {[conn |-> d, at |-> conn[d].next, freq |-> conn[d].freq] : d \in taken}
<1>2. batch'[p] = B
  BY <1>1 DEF Base, Places
<1>3. (\E d \in B : <<d.conn, d.at>> = <<c, t>>) <=> (c \in taken /\ conn[c].next = t)
  <2>1. ASSUME NEW d \in B, <<d.conn, d.at>> = <<c, t>> PROVE c \in taken /\ conn[c].next = t
    <3>1. PICK e \in taken : d = [conn |-> e, at |-> conn[e].next, freq |-> conn[e].freq]
      OBVIOUS
    <3>2. d.conn = c /\ d.at = t
      BY <2>1
    <3> QED BY <3>1, <3>2
  <2>2. ASSUME c \in taken, conn[c].next = t PROVE \E d \in B : <<d.conn, d.at>> = <<c, t>>
    <3> DEFINE d == [conn |-> c, at |-> conn[c].next, freq |-> conn[c].freq]
    <3>1. d \in B
      BY <2>2
    <3>2. <<d.conn, d.at>> = <<c, t>>
      BY <2>2
    <3> QED BY <3>1, <3>2
  <2> QED BY <2>1, <2>2
<1>4. runs'[c] = IF c \in taken THEN [runs[c] EXCEPT ![conn[c].next] = Row(c)] ELSE runs[c]
  BY <1>1
<1>5. runs[c] \in [Days -> RunSpace]
  BY DEF Base, Tables
<1>6. /\ batch[p] = {} /\ pc[p] = "idle" /\ job'[p] = NoJob /\ pc'[p] = "batch"
  <2>1. PICK b : Moves(p, "batch", NoJob, b)
    BY ClaimPlaces
  <2>2. pc[p] = "idle" /\ Place(p, pc[p], job[p], batch[p])
    BY DEF Claim, At, Base, Places
  <2>3. batch[p] = {}
    BY <2>2 DEF Place
  <2> QED BY <2>1, <2>2, <2>3 DEF Moves, Base, Places
<1>7. CASE c \in taken /\ conn[c].next = t
  <2>1. runs'[c][t] = Row(c)
    BY <1>4, <1>5, <1>7
  <2>2. Row(c).status = "claimed" /\ (Row(c).again <=> runs[c][t].status # "none")
    BY <1>7
  <2> QED BY <1>2, <1>3, <1>6, <1>7, <2>1, <2>2
<1>8. CASE ~(c \in taken /\ conn[c].next = t)
  <2>1. runs'[c][t] = runs[c][t]
    BY <1>4, <1>5, <1>8
  <2> QED BY <1>2, <1>3, <1>6, <1>8, <2>1
<1> QED BY <1>7, <1>8

\* A run is marked as taken again by a claim only, and no run becomes untaken.
LEMMA MarksStay ==
  ASSUME Base, [Next]_vars, NEW c \in Conns, NEW t \in Days, ~\E p \in Procs : Claim(p)
  PROVE  /\ runs'[c][t].again = runs[c][t].again
         /\ runs'[c][t].status = "none" => runs[c][t].status = "none"
<1>1. runs \in [Conns -> [Days -> RunSpace]]
  BY DEF Base, Tables
<1>2. CASE runs' = runs
  BY <1>2
<1>3. ASSUME NEW p \in Procs, NEW s \in {"succeeded", "failed"}, Finish(p, s), runs' # runs
      PROVE  /\ runs'[c][t].again = runs[c][t].again
             /\ runs'[c][t].status = "none" => runs[c][t].status = "none"
  <2>1. pc[p] \in {"finish", "fail"} /\ runs' = [runs EXCEPT ![C(p)][job[p].run[2]] = Finished(p, s)]
    BY <1>3 DEF Finish, At
  <2>2. /\ C(p) \in Conns /\ job[p].run[2] \in Days
        /\ Run(p) = runs[C(p)][job[p].run[2]] /\ Run(p) \in RunSpace
    BY <2>1, RunOf
  <2>3. Finished(p, s).again = Run(p).again /\ Finished(p, s).status = s
    BY <2>2 DEF Finished, RunSpace
  <2>4. CASE c = C(p) /\ t = job[p].run[2]
    <3>1. runs'[c][t] = Finished(p, s)
      BY <1>1, <2>1, <2>2, <2>4
    <3> QED BY <2>2, <2>3, <2>4, <3>1
  <2>5. CASE ~(c = C(p) /\ t = job[p].run[2])
    <3>1. runs'[c][t] = runs[c][t]
      BY <1>1, <2>1, <2>2, <2>5
    <3> QED BY <3>1
  <2> QED BY <2>4, <2>5
<1>4. ASSUME NEW d \in Conns, NEW u \in Days, Expire(d, u)
      PROVE  /\ runs'[c][t].again = runs[c][t].again
             /\ runs'[c][t].status = "none" => runs[c][t].status = "none"
  <2>1. runs' = [runs EXCEPT ![d][u].live = FALSE] /\ runs[c][t] \in RunSpace
    BY <1>1, <1>4 DEF Expire
  <2>2. runs'[c][t] = runs[c][t] \/ runs'[c][t] = [runs[c][t] EXCEPT !.live = FALSE]
    BY <1>1, <2>1
  <2> QED BY <2>1, <2>2 DEF RunSpace
<1> QED BY <1>2, <1>3, <1>4, Writers

\* A run comes into an invocation's hands by a claim only.
LEMMA ComesByClaim ==
  ASSUME Base, FilesTrue, [Next]_vars, NEW r \in Conns \X Days, NEW q \in Procs,
         Carries(job'[q], batch'[q], r), ~Claim(q)
  PROVE  /\ Carries(job[q], batch[q], r)
         /\ (\E d \in batch'[q] : <<d.conn, d.at>> = r) => \E d \in batch[q] : <<d.conn, d.at>> = r
         /\ job'[q].run = r => \/ job[q].run = r
                               \/ NextClaim(q) /\ \E d \in batch[q] : <<d.conn, d.at>> = r
<1> DEFINE Goal ==
      /\ (\E d \in batch'[q] : <<d.conn, d.at>> = r) => \E d \in batch[q] : <<d.conn, d.at>> = r
      /\ job'[q].run = r => \/ job[q].run = r
                            \/ NextClaim(q) /\ \E d \in batch[q] : <<d.conn, d.at>> = r
<1>1. NoJob.run # r /\ r # NoRun
  BY CarriesNothing
<1>2. CASE pc'[q] = pc[q]
  <2>1. batch'[q] = batch[q] /\ job'[q].run = job[q].run
    BY <1>2, Staying DEF Alike
  <2> QED BY <2>1 DEF Carries
<1>3. CASE pc'[q] # pc[q] /\ Restore(q)
  <2>1. job'[q] = NoJob /\ batch' = batch
    BY <1>3, RestorePlaces DEF Restore
  <2> QED BY <1>1, <2>1 DEF Carries
<1>4. CASE Acts(q)
  <2>1. PICK at, j, b : Moves(q, at, j, b) /\ Carried(q, j, b)
    BY <1>4, Destinations
  <2>2. job'[q] = j /\ batch'[q] = b
    BY <2>1 DEF Moves, Base, Places
  <2>3. CASE NextClaim(q)
    <3>1. PICK cl, to : cl \in batch[q] /\ Moves(q, to, Claimed(cl), batch[q] \ {cl})
      BY <2>3, NextClaimPlaces
    <3>2. job'[q].run = <<cl.conn, cl.at>> /\ batch'[q] = batch[q] \ {cl}
      <4>1. cl \in ClaimSpace
        BY <3>1 DEF Base, Places
      <4> QED BY <3>1, <4>1, ClaimedFields DEF Moves, Base, Places
    <3> QED BY <2>3, <3>1, <3>2 DEF Carries
  <2>4. CASE ~NextClaim(q)
    <3>1. b \subseteq batch[q] /\ j.run \in {NoRun, job[q].run}
      BY <2>1, <2>4 DEF Carried
    <3> QED BY <1>1, <2>2, <3>1 DEF Carries
  <2> QED BY <2>3, <2>4
<1> QED BY <1>2, <1>3, <1>4, Leaving

\* Only who carries a run writes a file of it.
LEMMA FilesOfOthers ==
  ASSUME Base, FilesTrue, [Next]_vars, NEW r, r # NoRun,
         ~\E q \in Procs : Upload(q) /\ job[q].run = r
  PROVE  /\ \A f \in 1..Len(drive') : drive'[f].run = r => f \in 1..Len(drive) /\ drive'[f] = drive[f]
         /\ \A f \in 1..Len(drive) : drive[f].run = r => drive'[f] = drive[f]
         /\ NoFile(r, drive) => NoFile(r, drive')
<1>1. CASE drive' = drive
  BY <1>1
<1>2. ASSUME NEW q \in Procs, Upload(q)
      PROVE  /\ \A f \in 1..Len(drive') : drive'[f].run = r => f \in 1..Len(drive) /\ drive'[f] = drive[f]
             /\ \A f \in 1..Len(drive) : drive[f].run = r => drive'[f] = drive[f]
  <2> DEFINE g == IF job[q].file = 0 THEN Len(drive) + 1 ELSE job[q].file
  <2>1. /\ drive'[g] = [run |-> job[q].run, content |-> job[q].doc]
        /\ \A f \in 1..Len(drive') : f # g => f \in 1..Len(drive) /\ drive'[f] = drive[f]
        /\ job[q].file = 0 => g \notin 1..Len(drive)
        /\ job[q].file # 0 => g \in 1..Len(drive) /\ drive[g].run = job[q].run
        /\ Len(drive) <= Len(drive') /\ drive' \in Seq(FileSpace)
    BY <1>2, Written DEF Kept
  <2>2. job[q].run # r
    BY <1>2
  <2>3. drive'[g].run # r
    BY <2>1, <2>2
  <2>4. \A f \in 1..Len(drive) : drive[f].run = r => f # g
    BY <2>1, <2>2
  <2>5. Len(drive) \in Nat /\ Len(drive') \in Nat
    BY <2>1 DEF Base, Tables
  <2>6. \A f \in 1..Len(drive) : f \in 1..Len(drive')
    BY <2>1, <2>5
  <2> HIDE DEF g
  <2> QED BY <2>1, <2>3, <2>4, <2>6
<1>3. /\ \A f \in 1..Len(drive') : drive'[f].run = r => f \in 1..Len(drive) /\ drive'[f] = drive[f]
      /\ \A f \in 1..Len(drive) : drive[f].run = r => drive'[f] = drive[f]
  BY <1>1, <1>2, Writers
<1> QED BY <1>3 DEF NoFile

\* A claim gives a run that was never taken to one invocation, before it has a file.
LEMMA OnceAfterClaim ==
  ASSUME Base, FilesTrue, OnceTrue, [Next]_vars, NEW p \in Procs, Claim(p),
         NEW c \in Conns, NEW t \in Days
  PROVE  Fresh(<<c, t>>, runs[c][t])' /\ (~runs'[c][t].again => Once(<<c, t>>)')
<1> DEFINE r == <<c, t>>
<1>1. /\ (\E d \in batch'[p] : <<d.conn, d.at>> = r) =>
           /\ runs'[c][t].status = "claimed"
           /\ runs'[c][t].again <=> runs[c][t].status # "none"
      /\ (~\E d \in batch'[p] : <<d.conn, d.at>> = r) => runs'[c][t] = runs[c][t]
      /\ pc[p] = "idle" /\ job'[p] = NoJob /\ pc'[p] = "batch"
  BY ClaimMarks
<1>2. drive' = drive /\ backups' = backups
  BY DEF Claim
<1>3. Fresh(r, runs[c][t]) /\ (~runs[c][t].again => Once(r)) /\ r \in Conns \X Days
  BY DEF OnceTrue
<1> HIDE DEF r
<1>4. NoJob.run # r
  BY <1>3, CarriesNothing
<1>5. ASSUME NEW q \in Procs \ {p}
      PROVE  pc'[q] = pc[q] /\ job'[q] = job[q] /\ batch'[q] = batch[q]
  <2>1. PICK b : Moves(p, "batch", NoJob, b)
    BY ClaimPlaces
  <2> QED BY <2>1 DEF Moves, Base, Places
<1>6. CASE \E d \in batch'[p] : <<d.conn, d.at>> = r
  <2>1. runs'[c][t].status = "claimed" /\ (~runs'[c][t].again => runs[c][t].status = "none")
    BY <1>1, <1>6
  <2>2. ASSUME ~runs'[c][t].again PROVE Once(r)'
    <3>1. NoFile(r, drive) /\ \A q \in Procs : ~Carries(job[q], batch[q], r)
      BY <1>3, <2>1, <2>2 DEF Fresh
    <3>2. \A q \in Procs : Carries(job'[q], batch'[q], r) => q = p
      BY <1>5, <3>1
    <3>3. \A q \in Procs : job'[q].run # r
      BY <1>1, <1>4, <3>2 DEF Carries
    <3>4. \A b \in backups : b.run # r
      BY <3>1 DEF FilesTrue, HeldRow, NoFile
    <3> QED BY <1>2, <3>1, <3>2, <3>3, <3>4 DEF Once
  <2> QED BY <2>1, <2>2 DEF Fresh, r
<1>7. CASE ~\E d \in batch'[p] : <<d.conn, d.at>> = r
  <2>1. runs'[c][t] = runs[c][t]
    BY <1>1, <1>7
  <2>2. ~Carries(job'[p], batch'[p], r)
    BY <1>1, <1>4, <1>7 DEF Carries
  <2>3. Fresh(r, runs[c][t])'
    BY <1>2, <1>3, <1>5, <2>1, <2>2 DEF Fresh, r
  <2>4. ASSUME ~runs'[c][t].again PROVE Once(r)'
    <3>1. Once(r)
      BY <1>3, <2>1, <2>4
    <3>2. \A q, s \in Procs : Carries(job'[q], batch'[q], r) /\ Carries(job'[s], batch'[s], r) => q = s
      BY <1>5, <2>2, <3>1 DEF Once
    <3>3. \A q \in Procs : (\E d \in batch'[q] : <<d.conn, d.at>> = r) => NoFile(r, drive)
      BY <1>5, <1>7, <3>1 DEF Once
    <3>4. \A q \in Procs : job'[q].run = r =>
             /\ pc'[q] \in {"refresh", "build", "find", "upload"} => NoFile(r, drive)
             /\ pc'[q] = "record" => drive[job'[q].file].content = job'[q].doc
      BY <1>1, <1>4, <1>5, <3>1 DEF Once
    <3>5. \A b \in backups : b.run = r => drive[b.file].content = b.sum
      BY <3>1 DEF Once
    <3> QED BY <1>2, <3>2, <3>3, <3>4, <3>5 DEF Once
  <2> QED BY <2>3, <2>4 DEF r
<1> QED BY <1>6, <1>7

\* Any other step leaves the run with whoever carries it, who alone writes its file.
LEMMA OnceAfterOthers ==
  ASSUME Base, FilesTrue, OnceTrue, [Next]_vars, ~\E p \in Procs : Claim(p),
         NEW c \in Conns, NEW t \in Days
  PROVE  Fresh(<<c, t>>, runs[c][t])' /\ (~runs'[c][t].again => Once(<<c, t>>)')
<1> DEFINE r == <<c, t>>
<1>1. Fresh(r, runs[c][t]) /\ (~runs[c][t].again => Once(r)) /\ r \in Conns \X Days /\ r # NoRun
  BY CarriesNothing DEF OnceTrue
<1>2. /\ runs'[c][t].again = runs[c][t].again
      /\ runs'[c][t].status = "none" => runs[c][t].status = "none"
  BY MarksStay
<1> HIDE DEF r
<1>3. \A q \in Procs : Carries(job'[q], batch'[q], r) => Carries(job[q], batch[q], r)
  BY <1>1, ComesByClaim
<1>4. Fresh(r, runs[c][t])'
  <2> SUFFICES ASSUME runs'[c][t].status = "none"
               PROVE  /\ ~runs'[c][t].again /\ NoFile(r, drive')
                      /\ \A p \in Procs : ~Carries(job'[p], batch'[p], r)
    BY DEF Fresh, r
  <2>1. /\ ~runs[c][t].again /\ NoFile(r, drive)
        /\ \A p \in Procs : ~Carries(job[p], batch[p], r)
    BY <1>1, <1>2 DEF Fresh
  <2>2. ~\E q \in Procs : Upload(q) /\ job[q].run = r
    BY <2>1 DEF Carries
  <2>3. NoFile(r, drive')
    BY <1>1, <2>1, <2>2, FilesOfOthers
  <2> QED BY <1>2, <1>3, <2>1, <2>3
<1>5. ASSUME ~runs'[c][t].again PROVE Once(r)'
  <2>1. Once(r)
    BY <1>1, <1>2, <1>5
  <2>2. \A p, q \in Procs : Carries(job'[p], batch'[p], r) /\ Carries(job'[q], batch'[q], r) => p = q
    BY <1>3, <2>1 DEF Once
  \* whoever uploads for this run is the one who carries it, and has no claim on it left
  <2>3. ASSUME NEW u \in Procs, Upload(u), job[u].run = r
        PROVE  /\ pc[u] = "upload" /\ pc'[u] = "record" /\ NoFile(r, drive)
               /\ \A q \in Procs : Carries(job[q], batch[q], r) => q = u
               /\ ~\E d \in batch[u] : <<d.conn, d.at>> = r
    <3>1. pc[u] = "upload" /\ NoFile(r, drive)
      BY <2>1, <2>3 DEF Upload, At, Once
    <3>2. \A q \in Procs : Carries(job[q], batch[q], r) => q = u
      BY <2>1, <2>3 DEF Once, Carries
    <3>3. pc'[u] = "record"
      BY <2>3, UploadPlaces DEF Moves, Base, Places
    <3>4. ~\E d \in batch[u] : <<d.conn, d.at>> = r
      <4>1. Place(u, pc[u], job[u], batch[u]) /\ job[u].kind # "none"
        BY <3>1, PlaceOf DEF Base
      <4>2. \E v \in Days : job[u].run = <<job[u].conn, v>>
        BY <1>1, <2>3, <4>1 DEF Place
      <4>3. \A d \in batch[u] : d.conn # job[u].conn
        BY <4>1 DEF Place
      <4> QED BY <2>3, <4>2, <4>3
    <3> QED BY <3>1, <3>2, <3>3, <3>4
  <2>4. ASSUME NEW p \in Procs, \E d \in batch'[p] : <<d.conn, d.at>> = r
        PROVE  NoFile(r, drive')
    <3>1. \E d \in batch[p] : <<d.conn, d.at>> = r
      BY <1>1, <2>4, ComesByClaim DEF Carries
    <3>2. NoFile(r, drive)
      BY <2>1, <3>1 DEF Once
    <3>3. ~\E u \in Procs : Upload(u) /\ job[u].run = r
      BY <2>3, <3>1 DEF Carries
    <3> QED BY <1>1, <3>2, <3>3, FilesOfOthers
  <2>5. ASSUME NEW p \in Procs, job'[p].run = r, pc'[p] \in {"refresh", "build", "find", "upload"}
        PROVE  NoFile(r, drive')
    <3>1. \/ job[p].run = r
          \/ NextClaim(p) /\ \E d \in batch[p] : <<d.conn, d.at>> = r
      BY <1>1, <2>5, ComesByClaim DEF Carries
    <3>2. Carries(job[p], batch[p], r)
      BY <3>1 DEF Carries
    <3>3. NoFile(r, drive)
      <4>1. CASE NextClaim(p) /\ \E d \in batch[p] : <<d.conn, d.at>> = r
        BY <2>1, <4>1 DEF Once
      <4>2. CASE job[p].run = r
        <5>1. pc[p] \in {"refresh", "build", "find", "upload"}
          <6>1. CASE pc'[p] = pc[p]
            BY <2>5, <6>1
          <6>2. CASE pc'[p] # pc[p]
            <7>1. Leads(p, pc'[p])
              BY <2>5, <6>2, Leaving
            <7>2. NextClaim(p) => pc[p] = "batch"
              BY DEF NextClaim, At
            <7>3. (GetToken(p) => pc[p] = "token") /\ (Download(p) => pc[p] = "download")
              BY DEF GetToken, Download, At
            <7>4. (Refresh(p) => pc[p] = "refresh") /\ (Build(p) => pc[p] = "build") /\ (Find(p) => pc[p] = "find")
              BY DEF Refresh, Build, Find, At
            <7>5. pc[p] \in {"batch", "token", "download", "refresh", "build", "find"}
              BY <2>5, <7>1, <7>2, <7>3, <7>4 DEF Leads
            <7>6. pc[p] \notin {"batch", "token", "download"}
              <8>1. Place(p, pc[p], job[p], batch[p])
                BY DEF Base, Places
              <8>2. job[p].kind = "scheduled"
                BY <1>1, <4>2, <8>1 DEF Place
              <8> QED BY <8>1, <8>2 DEF Place
            <7> QED BY <7>5, <7>6
          <6> QED BY <6>1, <6>2
        <5> QED BY <2>1, <4>2, <5>1 DEF Once
      <4> QED BY <3>1, <4>1, <4>2
    <3>4. ~\E u \in Procs : Upload(u) /\ job[u].run = r
      BY <2>3, <2>5, <3>2
    <3> QED BY <1>1, <3>3, <3>4, FilesOfOthers
  <2>6. ASSUME NEW p \in Procs, job'[p].run = r, pc'[p] = "record"
        PROVE  drive'[job'[p].file].content = job'[p].doc
    <3>1. CASE pc'[p] = pc[p]
      <4>1. job'[p].run = job[p].run /\ job'[p].doc = job[p].doc /\ job'[p].file = job[p].file
        BY <3>1, Staying DEF Alike
      <4>2. drive[job[p].file].content = job[p].doc
        BY <2>1, <2>6, <3>1, <4>1 DEF Once
      <4>3. job[p].file \in 1..Len(drive) /\ drive[job[p].file].run = r
        BY <2>6, <3>1, <4>1 DEF FilesTrue, HeldFile
      <4>4. ~\E u \in Procs : Upload(u) /\ job[u].run = r
        BY <2>3, <2>6, <3>1, <4>1 DEF Carries
      <4>5. drive'[job[p].file] = drive[job[p].file]
        BY <1>1, <4>3, <4>4, FilesOfOthers
      <4> QED BY <4>1, <4>2, <4>5
    <3>2. CASE pc'[p] # pc[p]
      <4>1. Upload(p)
        BY <2>6, <3>2, Leaving DEF Leads
      <4> DEFINE f == IF job[p].file = 0 THEN Len(drive) + 1 ELSE job[p].file
                 j == [job[p] EXCEPT !.file = f]
      <4>2. drive'[f] = [run |-> job[p].run, content |-> job[p].doc]
        BY <4>1, Written
      <4>3. j.file = f /\ j.doc = job[p].doc /\ Moves(p, "record", j, batch[p])
        BY <4>1, UploadPlaces
      <4> HIDE DEF j, f
      <4>4. job'[p] = j
        BY <4>3 DEF Moves, Base, Places
      <4> QED BY <4>2, <4>3, <4>4
    <3> QED BY <3>1, <3>2
  <2>7. ASSUME NEW b \in backups', b.run = r
        PROVE  drive'[b.file].content = b.sum
    <3>1. CASE b \in backups
      <4>1. drive[b.file].content = b.sum /\ b.file \in 1..Len(drive) /\ drive[b.file].run = r
        BY <2>1, <2>7, <3>1 DEF Once, FilesTrue, HeldRow
      <4>2. ~\E u \in Procs : Upload(u) /\ job[u].run = r
        BY <2>3, <4>1 DEF NoFile
      <4>3. drive'[b.file] = drive[b.file]
        BY <1>1, <4>1, <4>2, FilesOfOthers
      <4> QED BY <4>1, <4>3
    <3>2. CASE b \notin backups
      <4>1. PICK p \in Procs : Record(p)
        BY <3>2, Writers
      <4>2. b = [conn |-> C(p), run |-> job[p].run, file |-> job[p].file, sum |-> job[p].doc]
        BY <3>2, <4>1, RecordWrites
      <4>3. b.run = job[p].run /\ b.file = job[p].file /\ b.sum = job[p].doc
        BY <4>2
      <4>4. pc[p] = "record" /\ drive' = drive
        BY <4>1 DEF Record, At
      <4> QED BY <2>1, <2>7, <4>3, <4>4 DEF Once
    <3> QED BY <3>1, <3>2
  <2>8. \A p \in Procs : (\E d \in batch'[p] : <<d.conn, d.at>> = r) => NoFile(r, drive')
    BY <2>4
  <2>9. \A p \in Procs : job'[p].run = r =>
          /\ pc'[p] \in {"refresh", "build", "find", "upload"} => NoFile(r, drive')
          /\ pc'[p] = "record" => drive'[job'[p].file].content = job'[p].doc
    BY <2>5, <2>6
  <2>10. \A b \in backups' : b.run = r => drive'[b.file].content = b.sum
    BY <2>7
  <2> QED BY <2>2, <2>8, <2>9, <2>10 DEF Once
<1> QED BY <1>4, <1>5 DEF r

\* So every step keeps what is true of the runs taken once.
LEMMA OnceKept ==
  ASSUME Base, FilesTrue, OnceTrue, [Next]_vars
  PROVE  OnceTrue'
<1>1. ASSUME NEW c \in Conns, NEW t \in Days
      PROVE  Fresh(<<c, t>>, runs[c][t])' /\ (~runs'[c][t].again => Once(<<c, t>>)')
  BY OnceAfterClaim, OnceAfterOthers
<1> QED BY <1>1 DEF OnceTrue

\* A copy can be restored as long as its run was taken once only.
THEOREM BackupRestorable == Spec => []CopyRestorable
<1>1. Init => OnceTrue
  <2> SUFFICES ASSUME Init PROVE OnceTrue
    OBVIOUS
  <2>1. ASSUME NEW c \in Conns, NEW t \in Days
        PROVE  /\ Fresh(<<c, t>>, runs[c][t])
               /\ ~runs[c][t].again => Once(<<c, t>>)
    <3> DEFINE r == <<c, t>>
    <3>1. NoFile(r, drive) /\ backups = {}
      BY DEF Init, NoFile
    <3>2. NoJob.run # r
      BY CarriesNothing
    <3> HIDE DEF r
    <3>3. \A p \in Procs : job[p] = NoJob /\ batch[p] = {} /\ pc[p] = "idle"
      BY DEF Init
    <3>4. \A p \in Procs : ~Carries(job[p], batch[p], r)
      BY <3>2, <3>3 DEF Carries
    <3>5. Once(r)
      BY <3>1, <3>3, <3>4 DEF Once
    <3>6. ~runs[c][t].again
      BY DEF Init
    <3> QED BY <3>1, <3>4, <3>5, <3>6 DEF Fresh, r
  <2> QED BY <2>1 DEF OnceTrue
<1>2. Base /\ FilesTrue /\ OnceTrue /\ [Next]_vars => OnceTrue'
  BY OnceKept
<1>3. Base /\ FilesTrue /\ OnceTrue => CopyRestorable
  <2> SUFFICES ASSUME Base, FilesTrue, OnceTrue, NEW b \in backups,
                      b.run = NoRun \/ ~runs[b.run[1]][b.run[2]].again
               PROVE  drive[b.file].content = b.sum
    BY DEF CopyRestorable
  <2>1. b.run \in AllRuns /\ HeldRow(b, drive)
    BY DEF Base, Tables, RowSpace, FilesTrue
  <2>2. CASE b.run = NoRun
    BY <2>1, <2>2 DEF HeldRow
  <2>3. CASE b.run # NoRun
    <3>1. PICK c \in Conns, t \in Days : b.run = <<c, t>>
      BY <2>1, <2>3 DEF AllRuns
    <3>2. ~runs[c][t].again
      BY <2>3, <3>1
    <3> QED BY <3>1, <3>2 DEF OnceTrue, Once
  <2> QED BY <2>2, <2>3
<1> QED BY <1>1, <1>2, <1>3, BaseAlways, PTL DEF Spec

=============================================================================
