------------------------------ MODULE MailSync ------------------------------
(***************************************************************************)
(* The Gmail synchronisation pipeline around the queue of MailQueue: the   *)
(* mail-sync-worker cron function, the user's manual gmail-sync, the       *)
(* Pub/Sub webhook, the OAuth callback, and the watch renewal cron         *)
(* function with its own leases.  All of them share the rows of            *)
(* public.source_connections, whose cursor says how much of a mailbox has  *)
(* been read.                                                              *)
(*                                                                         *)
(* Every edge function invocation is a process; every RPC or table write   *)
(* it awaits is one step, so invocations interleave between awaits and may *)
(* stop at any of them.                                                    *)
(*                                                                         *)
(* Google's mailbox is a history: each arrival of a message and each       *)
(* change of its labels gets the next history id.  A message is named by   *)
(* the id of its arrival; the historyId Google reports for it is the one   *)
(* of its latest change.                                                   *)
(***************************************************************************)
EXTENDS MailQueue

CONSTANTS
  Renewers,   \* concurrent invocations of renew-mail-watches
  PageCap,    \* messages one Gmail list or history request returns
  MaxHistory  \* bound: history records of each mailbox

Procs == Syncers \cup Renewers

ASSUME PipelineAssumption ==
  /\ Workers \cap Users = {} /\ Syncers \cap Renewers = {}
  /\ PageCap \in Nat \ {0} /\ MaxHistory \in Nat

VARIABLES
  status,    \* source_connections.status, "absent" before and after the row exists
  cursor,    \* source_connections.cursor
  synced,    \* source_connections.last_sync_at is not null
  watch,     \* how far source_connections.watch_expires_at is: none, fresh, due (< 24 h), lapsed
  wlease,    \* private.mail_watch_renewal_leases
  wclaims,   \* claims a renewal invocation holds in memory
  wfaults,   \* faults of renewals so far, for MaxFaults
  head,      \* historyId of the mailbox at Google
  mail,      \* historyId of each message at Google, 0 before it arrives
  push,      \* a Pub/Sub notification for the mailbox is undelivered
  processed, \* messages that went through parseMailMessage and ingestCandidate
  skipped,   \* history: messages that a step left unread behind, and which kind of step
  pc,        \* where an invocation is
  at,        \* the connection it is working on
  newest,    \* its newestHistoryId
  todo       \* its messageIds not processed yet

connVars == <<status, cursor, synced, watch>>
watchVars == <<wlease, wclaims, wfaults>>
mailVars == <<head, mail, push, processed, skipped>>
localVars == <<at, newest, todo>>
vars == <<qvars, connVars, watchVars, mailVars, pc, localVars>>

Msgs == 1..MaxHistory
Reasons == {"page", "watch", "jump"}
WClaim == [conn : Conns, tok : Tokens]
NoLease == [tok |-> NoTok, live |-> FALSE]

-----------------------------------------------------------------------------
Exists(c) == status[c] \in {"active", "error"}

Arrived(c) == {m \in Msgs : mail[c][m] > 0}

Unread(c, lo, hi) == {m \in Arrived(c) : lo < m /\ m <= hi /\ m \notin processed[c]}

\* one page of users.history.list, oldest first, and of users.messages.list, newest first
HistoryPage(c, from) ==
  {m \in Arrived(c) : from < m /\ Cardinality({k \in Arrived(c) : from < k /\ k < m}) < PageCap}
ListPage(c) ==
  {m \in Arrived(c) : Cardinality({k \in Arrived(c) : m < k}) < PageCap}

LargerId(a, b) == IF a >= b THEN a ELSE b

Skipped(c) == {m \in Msgs : \E why \in Reasons : <<m, why>> \in skipped[c]}

\* the messages S are left behind unread; the first reason stays
Skip(c, S, why) ==
  skipped' = [skipped EXCEPT ![c] = @ \cup ((S \ Skipped(c)) \X {why})]

Goto(p, l) == pc' = [pc EXCEPT ![p] = l]

\* an invocation's variables end with it (with each claim, in a worker's loop)
Forget(p) ==
  /\ at' = [at EXCEPT ![p] = NoConn]
  /\ newest' = [newest EXCEPT ![p] = 0]
  /\ todo' = [todo EXCEPT ![p] = {}]

-----------------------------------------------------------------------------
(* mail-sync-worker: claim a batch, then work through it one claim at a time. *)

WorkerStart(p) ==
  /\ pc[p] = "idle"
  /\ WorkerClaim(p)
  /\ Goto(p, "load")
  /\ UNCHANGED <<connVars, watchVars, mailVars, localVars>>

\* processClaim reads the connection row; without one the claim fails
WorkerLoad(p) ==
  /\ pc[p] = "load"
  /\ \E cl \in claims[p] :
       /\ at' = [at EXCEPT ![p] = cl.conn]
       /\ newest' = [newest EXCEPT ![p] = cursor[cl.conn]]
       /\ Goto(p, IF ~Exists(cl.conn) THEN "failed"
                  ELSE IF synced[cl.conn] THEN "history" ELSE "backfill")
  /\ UNCHANGED <<qvars, connVars, watchVars, mailVars, todo>>

-----------------------------------------------------------------------------
(* gmail-sync: the user's manual sync, which reads the row before it queues. *)

ManualStart(p, c) ==
  /\ pc[p] = "idle" /\ Exists(c)
  /\ at' = [at EXCEPT ![p] = c]
  /\ newest' = [newest EXCEPT ![p] = cursor[c]]
  /\ Goto(p, "enqueue")
  /\ UNCHANGED <<qvars, connVars, watchVars, mailVars, todo>>

ManualEnqueue(p) ==
  /\ pc[p] = "enqueue"
  /\ Enqueue(at[p])
  /\ Goto(p, "claim")
  /\ UNCHANGED <<connVars, watchVars, mailVars, localVars>>

\* claim(1, connection): the job just queued or an expired one; otherwise 202
ManualClaim(p) ==
  /\ pc[p] = "claim"
  /\ \/ /\ UserClaim(p, at[p])
        /\ Goto(p, "backfill")
        /\ UNCHANGED localVars
     \/ /\ \A j \in ClaimableJobs : jobs[j].conn # at[p]
        /\ Goto(p, "idle") /\ Forget(p)
        /\ UNCHANGED qvars
  /\ UNCHANGED <<connVars, watchVars, mailVars>>

-----------------------------------------------------------------------------
(* syncGmailConnection. *)

\* users.history.list from the cursor: one page, and the mailbox's current historyId
FetchHistory(p) ==
  LET c == at[p]
      page == HistoryPage(c, newest[p])
  IN
    /\ pc[p] = "history"
    /\ todo' = [todo EXCEPT ![p] = page]
    /\ newest' = [newest EXCEPT ![p] = head[c]]
    /\ Skip(c, Unread(c, newest[p], head[c]) \ page, "page")
    /\ Goto(p, "ingest")
    /\ UNCHANGED <<qvars, connVars, watchVars, head, mail, push, processed, at>>

\* users.messages.list: the backfill (last_sync_at is null, or cleared by a manual sync),
\* and the fallback when the history call fails
FetchList(p) ==
  LET c == at[p]
      page == ListPage(c)
  IN
    /\ pc[p] \in {"history", "backfill"}
    /\ todo' = [todo EXCEPT ![p] = page]
    /\ Skip(c, Unread(c, 0, head[c]) \ page, "page")
    /\ Goto(p, "ingest")
    /\ UNCHANGED <<qvars, connVars, watchVars, head, mail, push, processed, at, newest>>

\* One message: fetched, parsed and handed to ingestCandidate.  newestHistoryId grows to
\* the id Google reports now, which may lie beyond messages that arrived after the page.
Ingest(p) ==
  LET c == at[p] IN
    /\ pc[p] = "ingest"
    /\ \E m \in todo[p] :
         /\ todo' = [todo EXCEPT ![p] = @ \ {m}]
         /\ processed' = [processed EXCEPT ![c] = @ \cup {m}]
         /\ newest' = [newest EXCEPT ![p] = LargerId(@, mail[c][m])]
         /\ Skip(c, Unread(c, newest[p], mail[c][m]) \ todo[p], "jump")
    /\ UNCHANGED <<qvars, connVars, watchVars, head, mail, push, pc, at>>

\* mutant: the loop ends early and the cursor is written all the same
PassAbandoned(p) == pc[p] = "ingest"

PassComplete(p) == todo[p] = {}

\* The unconditional update after the loop; no lease is checked.  Its error is not
\* looked at, so the write may also be lost.
CommitCursor(p) ==
  LET c == at[p] IN
    /\ pc[p] = "ingest" /\ PassComplete(p)
    /\ \/ UNCHANGED <<status, cursor, synced>>
       \/ /\ Exists(c)
          /\ cursor' = [cursor EXCEPT ![c] = newest[p]]
          /\ synced' = [synced EXCEPT ![c] = TRUE]
          /\ status' = [status EXCEPT ![c] = "active"]
    /\ Goto(p, "synced")
    /\ UNCHANGED <<qvars, watch, watchVars, mailVars, localVars>>

\* a Google or database call throws: the rest of the pass is abandoned
SyncFails(p) ==
  /\ pc[p] \in {"history", "backfill", "ingest"}
  /\ Goto(p, "failed")
  /\ UNCHANGED <<qvars, connVars, watchVars, mailVars, localVars>>

\* finish_mail_sync_job, whose refusal is not an error; then the next claim of the batch.
\* A worker that cannot reload the cursor finishes the job as failed after all.
Finish(p) ==
  /\ pc[p] \in {"synced", "failed"}
  /\ \E cl \in claims[p], s \in {"succeeded", "failed"} :
       /\ cl.conn = at[p]
       /\ pc[p] = "failed" => s = "failed"
       /\ FinishJob(p, cl, s)
       /\ Goto(p, IF claims[p] = {cl} THEN "idle" ELSE "load")
  /\ Forget(p)
  /\ UNCHANGED <<connVars, watchVars, mailVars>>

-----------------------------------------------------------------------------
(* gmail-oauth-callback and gmail-pubsub-webhook. *)

\* the callback has exchanged its code and asks Google for the mailbox's historyId
CallbackProfile(p, c) ==
  /\ pc[p] = "idle" /\ c \notin gone
  /\ at' = [at EXCEPT ![p] = c]
  /\ newest' = [newest EXCEPT ![p] = head[c]]
  /\ Goto(p, "upsert")
  /\ UNCHANGED <<qvars, connVars, watchVars, mailVars, todo>>

\* moving the cursor of c to h leaves behind what nobody has read below h
MoveCursor(c, h) ==
  /\ cursor' = [cursor EXCEPT ![c] = h]
  /\ Skip(c, Unread(c, cursor[c], h), "watch")

\* upsert on (user, provider); after a disconnect it inserts a row of another id
CallbackUpsert(p) ==
  LET c == at[p] IN
    /\ pc[p] = "upsert"
    /\ IF c \notin gone
         THEN /\ status' = [status EXCEPT ![c] = "active"]
              /\ MoveCursor(c, newest[p])
              /\ Goto(p, "watchcall")
              /\ UNCHANGED localVars
         ELSE /\ Goto(p, "idle") /\ Forget(p)
              /\ UNCHANGED <<status, cursor, skipped>>
    /\ UNCHANGED <<qvars, synced, watch, watchVars, head, mail, push, processed>>

\* a notification finds its active connection.  Pub/Sub delivers at least once, so the
\* notification may stay to be delivered again.
PushReceived(p, c) ==
  /\ pc[p] = "idle" /\ push[c] /\ status[c] = "active"
  /\ push' \in {push, [push EXCEPT ![c] = FALSE]}
  /\ at' = [at EXCEPT ![p] = c]
  /\ Goto(p, "notify")
  /\ UNCHANGED <<qvars, connVars, watchVars, head, mail, processed, skipped, newest, todo>>

\* a notification for a connection that is not active is acknowledged and dropped
PushIgnored(c) ==
  /\ push[c] /\ status[c] # "active"
  /\ push' = [push EXCEPT ![c] = FALSE]
  /\ UNCHANGED <<qvars, connVars, watchVars, head, mail, processed, skipped, pc, localVars>>

\* the callback, once the watch is set, and the webhook end with enqueueMailSync
NotifyEnqueue(p) ==
  /\ pc[p] = "notify"
  /\ Enqueue(at[p])
  /\ Goto(p, "idle") /\ Forget(p)
  /\ UNCHANGED <<connVars, watchVars, mailVars>>

-----------------------------------------------------------------------------
(* configureGmailWatch and renew-mail-watches. *)

WFresh ==
  {t \in Tokens : /\ \A c \in Conns : wlease[c].tok # t
                  /\ \A p \in Renewers : \A cl \in wclaims[p] : cl.tok # t}

WAssignments(S) == {f \in [S -> WFresh] : \A x, y \in S : f[x] = f[y] => x = y}

WFault == wfaults < MaxFaults /\ wfaults' = wfaults + 1

\* the lease row, if any, still carries the caller's token
WOwns(cl) == wlease[cl.conn].tok = cl.tok

WHolds(p, c) == \E cl \in wclaims[p] : cl.conn = c /\ WOwns(cl)

\* mutant: the on conflict clause takes over any lease row
RenewableTwice(c) == status[c] = "active" /\ watch[c] # "fresh"

\* claim_mail_watch_connections: active connections without a fresh watch whose lease
\* row is absent or expired
Renewable(c) == status[c] = "active" /\ watch[c] # "fresh" /\ ~wlease[c].live

RenewClaim(p) ==
  LET S == {c \in Conns : Renewable(c)}
      f == CHOOSE f \in WAssignments(S) : TRUE
  IN
    /\ pc[p] = "idle" /\ S # {} /\ WAssignments(S) # {}
    /\ wlease' = [c \in Conns |-> IF c \in S THEN [tok |-> f[c], live |-> TRUE] ELSE wlease[c]]
    /\ wclaims' = [wclaims EXCEPT ![p] = {[conn |-> c, tok |-> f[c]] : c \in S}]
    /\ Goto(p, "load")
    /\ UNCHANGED <<qvars, connVars, wfaults, mailVars, localVars>>

\* reads the connection row; without one there is nothing to renew or to mark
RenewLoad(p) ==
  /\ pc[p] = "load"
  /\ \E cl \in wclaims[p] :
       /\ at' = [at EXCEPT ![p] = cl.conn]
       /\ Goto(p, IF Exists(cl.conn) THEN "watchcall" ELSE "release")
  /\ UNCHANGED <<qvars, connVars, watchVars, mailVars, newest, todo>>

\* users.watch answers with the mailbox's current historyId ...
WatchCall(p) ==
  /\ pc[p] = "watchcall"
  /\ newest' = [newest EXCEPT ![p] = head[at[p]]]
  /\ Goto(p, "watchwrite")
  /\ UNCHANGED <<qvars, connVars, watchVars, mailVars, at, todo>>

\* ... which configureGmailWatch stores as the cursor, whatever has been read so far
WatchWrite(p) ==
  LET c == at[p] IN
    /\ pc[p] = "watchwrite"
    /\ IF Exists(c)
         THEN /\ MoveCursor(c, newest[p])
              /\ watch' = [watch EXCEPT ![c] = "fresh"]
              /\ status' = [status EXCEPT ![c] = "active"]
         ELSE UNCHANGED <<cursor, skipped, watch, status>>
    /\ Goto(p, IF p \in Renewers THEN "release" ELSE "notify")
    /\ UNCHANGED <<qvars, synced, watchVars, head, mail, push, processed, localVars>>

\* renewal marks the connection as failed; the callback just answers with an error
WatchFails(p) ==
  LET c == at[p] IN
    /\ pc[p] \in {"watchcall", "watchwrite"}
    /\ IF p \in Renewers
         THEN /\ status' = [status EXCEPT ![c] = IF Exists(c) THEN "error" ELSE @]
              /\ Goto(p, "release")
              /\ UNCHANGED localVars
         ELSE /\ Goto(p, "idle") /\ Forget(p)
              /\ UNCHANGED status
    /\ UNCHANGED <<qvars, cursor, synced, watch, watchVars, mailVars>>

\* release_mail_watch_lease deletes the lease row only when the token is still the caller's
Release(p) ==
  /\ pc[p] = "release"
  /\ \E cl \in wclaims[p] :
       /\ cl.conn = at[p]
       /\ wlease' = IF WOwns(cl) THEN [wlease EXCEPT ![cl.conn] = NoLease] ELSE wlease
       /\ wclaims' = [wclaims EXCEPT ![p] = @ \ {cl}]
       /\ Goto(p, IF wclaims[p] = {cl} THEN "idle" ELSE "load")
  /\ Forget(p)
  /\ UNCHANGED <<qvars, connVars, wfaults, mailVars>>

-----------------------------------------------------------------------------
(* The mailbox, the clock, the user's disconnect, and crashes. *)

\* the next history record concerns m; while a watch is in force Google publishes it
Record(c, m) ==
  /\ head[c] < MaxHistory
  /\ head' = [head EXCEPT ![c] = @ + 1]
  /\ mail' = [mail EXCEPT ![c][m] = head[c] + 1]
  /\ push' = [push EXCEPT ![c] = @ \/ watch[c] \in {"fresh", "due"}]
  /\ UNCHANGED <<qvars, connVars, watchVars, processed, skipped, pc, localVars>>

Deliver(c) == Record(c, head[c] + 1)

\* the labels of a message change, as when its owner opens it
Relabel(c) == \E m \in Arrived(c) : Record(c, m)

ExpireJobLease(j) ==
  /\ ExpireJob(j)
  /\ UNCHANGED <<connVars, watchVars, mailVars, pc, localVars>>

\* under a live holder the expiry of a lease is a fault, as in ExpireJob
ExpireWatchLease(c) ==
  /\ wlease[c].live
  /\ wlease' = [wlease EXCEPT ![c].live = FALSE]
  /\ IF \E p \in Renewers : WHolds(p, c) THEN WFault ELSE wfaults' = wfaults
  /\ UNCHANGED <<qvars, connVars, wclaims, mailVars, pc, localVars>>

WatchAges(c) ==
  /\ watch[c] \in {"fresh", "due"}
  /\ watch' = [watch EXCEPT ![c] = IF @ = "fresh" THEN "due" ELSE "lapsed"]
  /\ UNCHANGED <<qvars, status, cursor, synced, watchVars, mailVars, pc, localVars>>

\* mutant: on delete set null instead of on delete cascade
DisconnectKeepsJobs(c) ==
  /\ Exists(c)
  /\ gone' = gone \cup {c}
  /\ status' = [status EXCEPT ![c] = "absent"]
  /\ watch' = [watch EXCEPT ![c] = "none"]
  /\ wlease' = [wlease EXCEPT ![c] = NoLease]
  /\ UNCHANGED <<jobs, claims, faults, cursor, synced, wclaims, wfaults, mailVars, pc, localVars>>

\* disconnectMailConnection deletes the row; its jobs and its lease go with it
Disconnect(c) ==
  /\ Exists(c)
  /\ DropConn(c)
  /\ status' = [status EXCEPT ![c] = "absent"]
  /\ watch' = [watch EXCEPT ![c] = "none"]
  /\ wlease' = [wlease EXCEPT ![c] = NoLease]
  /\ UNCHANGED <<cursor, synced, wclaims, wfaults, mailVars, pc, localVars>>

\* The platform stops an invocation between two awaits.  A webhook that did not answer
\* gets its notification again.
Crash(p) ==
  /\ pc[p] # "idle"
  /\ Goto(p, "idle") /\ Forget(p)
  /\ push' = IF pc[p] = "notify" THEN [push EXCEPT ![at[p]] = TRUE] ELSE push
  /\ UNCHANGED <<connVars, wlease, head, mail, processed, skipped>>
  /\ \/ p \in Syncers /\ Stop(p) /\ UNCHANGED <<wclaims, wfaults>>
     \/ p \in Renewers /\ WFault /\ wclaims' = [wclaims EXCEPT ![p] = {}] /\ UNCHANGED qvars

-----------------------------------------------------------------------------
\* Some connections are linked and watched, none of their mail read yet; a notification
\* may be under way.
Init ==
  /\ QInit
  /\ status \in [Conns -> {"absent", "active"}]
  /\ \A j \in Jobs : jobs[j].status = "running" => status[jobs[j].conn] = "active"
  /\ cursor = [c \in Conns |-> 0]
  /\ synced = [c \in Conns |-> FALSE]
  /\ watch = [c \in Conns |-> IF status[c] = "active" THEN "fresh" ELSE "none"]
  /\ wlease = [c \in Conns |-> NoLease]
  /\ wclaims = [p \in Renewers |-> {}]
  /\ wfaults = 0
  /\ head = [c \in Conns |-> 0]
  /\ mail = [c \in Conns |-> [m \in Msgs |-> 0]]
  /\ push \in [Conns -> BOOLEAN]
  /\ \A c \in Conns : push[c] => status[c] = "active"
  /\ processed = [c \in Conns |-> {}]
  /\ skipped = [c \in Conns |-> {}]
  /\ pc = [p \in Procs |-> "idle"]
  /\ at = [p \in Procs |-> NoConn]
  /\ newest = [p \in Procs |-> 0]
  /\ todo = [p \in Procs |-> {}]

SyncStep(p) ==
  \/ FetchHistory(p) \/ FetchList(p) \/ Ingest(p)
  \/ CommitCursor(p) \/ SyncFails(p) \/ Finish(p)

UserStep(p) ==
  \/ \E c \in Conns : ManualStart(p, c) \/ CallbackProfile(p, c) \/ PushReceived(p, c)
  \/ ManualEnqueue(p) \/ ManualClaim(p) \/ CallbackUpsert(p) \/ NotifyEnqueue(p)

WatchStep(p) == WatchCall(p) \/ WatchWrite(p) \/ WatchFails(p)

RenewStep(p) == RenewClaim(p) \/ RenewLoad(p) \/ WatchStep(p) \/ Release(p)

ConnStep(c) ==
  \/ Deliver(c) \/ Relabel(c) \/ PushIgnored(c)
  \/ WatchAges(c) \/ ExpireWatchLease(c) \/ Disconnect(c)

Next ==
  \/ \E p \in Workers : WorkerStart(p) \/ WorkerLoad(p)
  \/ \E p \in Users : UserStep(p) \/ WatchStep(p)
  \/ \E p \in Syncers : SyncStep(p)
  \/ \E p \in Renewers : RenewStep(p)
  \/ \E c \in Conns : ConnStep(c)
  \/ \E j \in Jobs : ExpireJobLease(j)
  \/ \E p \in Procs : Crash(p)

Spec == Init /\ [][Next]_vars

-----------------------------------------------------------------------------
ConnTypes ==
  /\ status \in [Conns -> {"absent", "active", "error"}]
  /\ cursor \in [Conns -> 0..MaxHistory]
  /\ synced \in [Conns -> BOOLEAN]
  /\ watch \in [Conns -> {"none", "fresh", "due", "lapsed"}]

WatchTypes ==
  /\ wlease \in [Conns -> [tok : Tokens \cup {NoTok}, live : BOOLEAN]]
  /\ wclaims \in [Renewers -> SUBSET WClaim]
  /\ wfaults \in 0..MaxFaults

MailTypes ==
  /\ head \in [Conns -> 0..MaxHistory]
  /\ mail \in [Conns -> [Msgs -> 0..MaxHistory]]
  /\ push \in [Conns -> BOOLEAN]
  /\ processed \in [Conns -> SUBSET Msgs]
  /\ skipped \in [Conns -> SUBSET (Msgs \X Reasons)]

Places == {"idle", "load", "enqueue", "claim", "upsert", "notify", "watchcall", "watchwrite",
           "release", "history", "backfill", "ingest", "synced", "failed"}

ProcTypes ==
  /\ pc \in [Procs -> Places]
  /\ at \in [Procs -> Conns \cup {NoConn}]
  /\ \A p \in Procs : pc[p] \notin {"idle", "load"} => at[p] \in Conns
  /\ newest \in [Procs -> 0..MaxHistory]
  /\ todo \in [Procs -> SUBSET Msgs]
  /\ \A p \in Procs : todo[p] # {} => pc[p] \in {"ingest", "failed"}

\* Types, and the shape of an invocation: it works on a connection except before it has
\* one, and has messages left only while it ingests or after it failed.
TypeOK == QTypeOK /\ ConnTypes /\ WatchTypes /\ MailTypes /\ ProcTypes

\* Whatever overlaps, a sync pass never commits a cursor beyond a message it still had to
\* read: below a cursor, the unread messages are those a page left out, a watch or
\* callback write moved past, or the historyId of a later change jumped over.
NoSilentSkip ==
  \A c \in Conns : Unread(c, 0, cursor[c]) \subseteq Skipped(c)

\* A live renewal lease stays with its holder: it is taken over only after it expired, and
\* deleted only by the holder itself or with the connection, although stale holders
\* release too, and the lease rows they name may belong to a successor by then.
WatchLeaseKept ==
  [][\A c \in Conns : wlease[c].live /\ wlease'[c] # wlease[c] =>
       \/ wlease'[c] = [wlease[c] EXCEPT !.live = FALSE]
       \/ wlease'[c] = NoLease /\ c \in gone'
       \/ wlease'[c] = NoLease /\ \E p \in Renewers : WHolds(p, c) /\ wclaims'[p] # wclaims[p]
    ]_vars

\* FR-MAIL-005: incremental changes are processed.  Once a connection has been synced,
\* no message that arrived before its cursor is left unread.
IncrementalComplete ==
  \A c \in Conns : synced[c] => Unread(c, 0, cursor[c]) = {}
=============================================================================
