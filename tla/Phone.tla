------------------------------- MODULE Phone --------------------------------
(***************************************************************************)
(* The Android application: the notification listener fills a bounded      *)
(* queue in the application's preferences, and the web application on the  *)
(* phone uploads what it finds there and then acknowledges it by local id. *)
(* An upload awaits the plugin, the edge function and the plugin again,    *)
(* and several may overlap (timer, visibility and online events all start  *)
(* one).  The queue's methods are synchronized, but every caller makes a   *)
(* NotificationQueue of its own, so the lock excludes nobody: the listener *)
(* runs on the main thread, the plugin on its own, and a method that reads *)
(* the list and stores another one is two steps.                           *)
(***************************************************************************)
EXTENDS Integers, Sequences, SequencesExt, Lists

CONSTANTS
  Signals,   \* local ids of what the parser finds in notifications
  Refused,   \* those notification-ingest does not accept (validateDeviceCandidate)
  Uploads,   \* overlapping calls of syncAndroidCandidates
  QueueMax,  \* MAX_QUEUE_SIZE
  BatchMax,  \* what notification-ingest takes in one request
  MaxPosts,  \* bound: notifications
  MaxLosses  \* bound: failing calls, lost answers, kills

ASSUME PhoneAssumption ==
  /\ Refused \subseteq Signals /\ QueueMax \in Nat \ {0} /\ BatchMax \in Nat \ {0}
  /\ MaxPosts \in Nat /\ MaxLosses \in Nat

VARIABLES
  queue,    \* candidate_queue as the application sees it
  disk,     \* candidate_queue as it is stored: apply() writes it later
  arriving, \* the list that enqueue is about to store, <<>> when none is
  cloudHas, \* candidates the server has; a second one of a fingerprint is a duplicate
  up, seen, todo, acks, \* an upload: where it is, the queue it read, what is left, what was taken
  posts, losses \* for the bounds

uploads == <<up, seen, todo, acks>>
phone == <<queue, arriving, disk, cloudHas, uploads, posts, losses>>

Items(q) == {q[i] : i \in 1..Len(q)}

Lossy == losses < MaxLosses /\ losses' = losses + 1

\* the last QueueMax of the queue and x
Enqueued(x) ==
  LET q == Append(queue, x)
  IN  IF Len(q) <= QueueMax THEN q ELSE SubSeq(q, Len(q) - QueueMax + 1, Len(q))

\* onNotificationPosted on the main thread, enqueue: a local id that is there changes nothing
Notify(x) ==
  /\ arriving = <<>> /\ posts < MaxPosts /\ posts' = posts + 1
  /\ arriving' = IF x \in Items(queue) THEN <<>> ELSE Enqueued(x)
  /\ UNCHANGED <<queue, disk, cloudHas, uploads, losses>>

\* the rest of enqueue: what it worked out from the list it read
Store ==
  /\ arriving # <<>> /\ arriving' = <<>>
  /\ queue' = arriving
  /\ UNCHANGED <<disk, cloudHas, uploads, posts, losses>>

\* the preferences reach the disk
Flush ==
  /\ disk # queue /\ disk' = queue
  /\ UNCHANGED <<queue, arriving, cloudHas, uploads, posts, losses>>

\* the plugin answers one call after the other
PluginFree == \A s \in Uploads : up[s] # "ack"

\* syncAndroidCandidates: peekCandidates, nothing to do when there are none
Peek(s) ==
  /\ up[s] = "idle" /\ queue # <<>> /\ PluginFree
  /\ up' = [up EXCEPT ![s] = "send"]
  /\ seen' = [seen EXCEPT ![s] = queue]
  /\ UNCHANGED <<queue, arriving, disk, cloudHas, todo, acks, posts, losses>>

Leave(s, to) == up' = [up EXCEPT ![s] = to]

\* mutant: a full batch is one too many
TooManyFull(n) == n >= BatchMax

TooMany(n) == n > BatchMax

\* notification-ingest takes the batch or refuses it as a whole
Receive(s) ==
  /\ up[s] = "send"
  /\ IF TooMany(Len(seen[s]))
       THEN Leave(s, "idle") /\ UNCHANGED <<todo, acks>>
       ELSE /\ Leave(s, "server")
            /\ todo' = [todo EXCEPT ![s] = seen[s]]
            /\ acks' = [acks EXCEPT ![s] = {}]
  /\ seen' = [seen EXCEPT ![s] = <<>>]
  /\ UNCHANGED <<queue, arriving, disk, cloudHas, posts, losses>>

\* mutant: a candidate that is not accepted is acknowledged as well
TakenAny(x) == {x}

Taken(x) == {x} \ Refused

\* the loop of notification-ingest, for one candidate
Ingest(s) ==
  /\ up[s] \in {"server", "orphan"} /\ todo[s] # <<>>
  /\ cloudHas' = cloudHas \cup ({Head(todo[s])} \ Refused)
  /\ acks' = [acks EXCEPT ![s] = @ \cup Taken(Head(todo[s]))]
  /\ todo' = [todo EXCEPT ![s] = Tail(@)]
  /\ UNCHANGED <<queue, arriving, disk, up, seen, posts, losses>>

\* the answer arrives: ackCandidates reads the queue, unless nothing was taken
Answered(s) ==
  /\ up[s] \in {"server", "orphan"} /\ todo[s] = <<>>
  /\ IF up[s] = "orphan" \/ acks[s] = {}
       THEN Leave(s, "idle") /\ acks' = [acks EXCEPT ![s] = {}] /\ UNCHANGED seen
       ELSE PluginFree /\ Leave(s, "ack") /\ seen' = [seen EXCEPT ![s] = queue] /\ UNCHANGED acks
  /\ UNCHANGED <<queue, arriving, disk, cloudHas, todo, posts, losses>>

\* the rest of acknowledge: what it read, without what was taken, replaces the queue
Acknowledge(s) ==
  /\ up[s] = "ack" /\ Leave(s, "idle")
  /\ queue' = Without(seen[s], acks[s])
  /\ seen' = [seen EXCEPT ![s] = <<>>]
  /\ acks' = [acks EXCEPT ![s] = {}]
  /\ UNCHANGED <<arriving, disk, cloudHas, todo, posts, losses>>

\* the call fails on its way, in the middle of the batch, or with its answer; the hook
\* keeps the queue and waits for the next round
FailUpload(s) ==
  /\ up[s] \notin {"idle", "ack"} /\ Lossy
  /\ Leave(s, "idle")
  /\ seen' = [seen EXCEPT ![s] = <<>>]
  /\ todo' = [todo EXCEPT ![s] = <<>>]
  /\ acks' = [acks EXCEPT ![s] = {}]
  /\ UNCHANGED <<queue, arriving, disk, cloudHas, posts>>

\* the process dies: what had not reached the disk is gone, the server carries on
Kill ==
  /\ Lossy
  /\ queue' = disk /\ arriving' = <<>>
  /\ up' = [s \in Uploads |-> IF up[s] = "server" THEN "orphan"
                              ELSE IF up[s] \in {"send", "ack"} THEN "idle" ELSE up[s]]
  /\ seen' = [s \in Uploads |-> <<>>]
  /\ acks' = [s \in Uploads |-> IF up[s] = "ack" THEN {} ELSE acks[s]]
  /\ UNCHANGED <<disk, cloudHas, todo, posts>>

UploadStep(s) == Peek(s) \/ Receive(s) \/ Ingest(s) \/ Answered(s) \/ Acknowledge(s)

PhoneInit ==
  /\ queue = <<>> /\ arriving = <<>> /\ disk = <<>> /\ cloudHas = {}
  /\ up = [s \in Uploads |-> "idle"]
  /\ seen = [s \in Uploads |-> <<>>] /\ todo = seen /\ acks = [s \in Uploads |-> {}]
  /\ posts = 0 /\ losses = 0

PhoneNext ==
  \/ \E x \in Signals : Notify(x)
  \/ \E s \in Uploads : UploadStep(s) \/ FailUpload(s)
  \/ Store \/ Flush \/ Kill

\* The application comes to the foreground again and again, and its timer starts an upload
\* every minute there; calls that do not fail end.
PhoneSpec == PhoneInit /\ [][PhoneNext]_phone /\ \A s \in Uploads : WF_phone(UploadStep(s))

-----------------------------------------------------------------------------
\* How a signal that the server does not have may leave the queue, in a step: newer ones push it
\* out of the full queue; the process is killed before the signal was stored; or an
\* acknowledgement writes over it, because the signal arrived after that had read the queue.
PushedOut(x) == queue' = arriving /\ Len(arriving) = QueueMax /\ x \notin Items(arriving)
Killed(x) == losses' > losses /\ queue' = disk /\ x \notin Items(disk)
Overwritten(x) == \E s \in Uploads : up[s] = "ack" /\ up'[s] = "idle" /\ x \notin Items(seen[s])

\* A signal leaves the phone only when the server has it or in one of these ways: overlapping
\* uploads, late and lost answers, and batches that are cut short lose nothing.
NothingForgotten ==
  [][\A x \in Items(queue) \ Items(queue') :
        x \in cloudHas \/ PushedOut(x) \/ Killed(x) \/ Overwritten(x)]_phone

\* A signal the server accepts gets there, or out of the queue, unless the queue has grown
\* past what one request may carry: then every upload is refused as a whole.
Delivered ==
  \A x \in Signals \ Refused :
    x \in Items(queue) ~> (x \in cloudHas \/ x \notin Items(queue) \/ Len(queue) > BatchMax)

\* docs/PRD.md: a candidate leaves the local queue only after a successful answer of the
\* backend, the queue's limit (FR-AND-006) and a kill of the process apart.
RemovedAfterAnswer ==
  [][\A x \in Items(queue) \ Items(queue') : x \in cloudHas \/ PushedOut(x) \/ Killed(x)]_phone
=============================================================================
