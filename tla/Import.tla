------------------------------- MODULE Import -------------------------------
(***************************************************************************)
(* Importing a file of movements: the page cuts it into chunks and calls   *)
(* import-transactions for one after the other, each request a chain of    *)
(* statements of its own.  The user may import a file again, from another  *)
(* window or after an error, while an earlier request is still running.    *)
(***************************************************************************)
EXTENDS Integers, Sequences, FiniteSets, SequencesExt, Lists

CONSTANTS
  Attempts,    \* imports, each from one press of the button
  Files,       \* what may be imported: sequences of chunks of rows
  Keys,        \* import_key of the rows: equal rows have equal keys
  Bad,         \* rows validateRow or the check of the currency turns down
  CategoryOf,  \* the category a row names, or "none"
  MaxDrops,    \* bound: failing statements, lost answers, closed windows
  MaxDeletions \* bound: imported movements the user deletes

ASSUME ImportAssumption ==
  /\ Files \subseteq Seq(Seq(Keys)) \ {<<>>} /\ Bad \subseteq Keys /\ DOMAIN CategoryOf = Keys
  /\ MaxDrops \in Nat /\ MaxDeletions \in Nat

VARIABLES
  file,    \* the file of an attempt
  page,    \* "ready", "waiting", "done", "stopped": the attempt as the user sees it
  chunk,   \* the chunk it is at
  import,  \* its row of data_imports
  req,     \* its request: the statement it is at and its local variables
  ledger,  \* key -> import_batch_id of the transaction that has it
  names,   \* categories of the user
  drops, deletions, \* for the bounds
  written, refused, everPosted \* history: movements written, keys turned down by an attempt, ever posted

importing == <<file, page, chunk, import, req, ledger, names, drops, deletions,
               written, refused, everPosted>>

NoImport == [status |-> "none", seen |-> 0, imported |-> 0, duplicate |-> 0, rejected |-> 0]
NoRequest == [at |-> "idle", record |-> NoImport, known |-> {}, row |-> 0, valid |-> <<>>,
              insert |-> <<>>, rejected |-> 0, inserted |-> 0]
Unposted == "unposted"
InLedger == {k \in Keys : ledger[k] # Unposted}

Rows(a) == file[a][chunk[a]]
Row(a) == Rows(a)[req[a].row]
Final(a) == chunk[a] = Len(file[a])
Put(a, r) == req' = [req EXCEPT ![a] = r]
At(a, where) == req[a].at = where
Show(a, what) == page' = [page EXCEPT ![a] = what]
Mishap == drops < MaxDrops /\ drops' = drops + 1

\* runImport calls importTransactionRows for the next chunk; the first call creates the row
\* (createImport), the others load it, which a row that is not 'processing' answers with 409
Open(a) ==
  /\ page[a] = "ready" /\ At(a, "idle")
  /\ LET record == IF chunk[a] = 1 THEN [NoImport EXCEPT !.status = "processing"] ELSE import[a]
     IN  /\ record.status = "processing"
         /\ import' = [import EXCEPT ![a] = record]
         /\ Put(a, [NoRequest EXCEPT !.at = "categories", !.record = record])
  /\ Show(a, "waiting")
  /\ UNCHANGED <<file, chunk, ledger, names, drops, deletions, written, refused, everPosted>>

ReadCategories(a) ==
  /\ At(a, "categories")
  /\ Put(a, [req[a] EXCEPT !.at = "rows", !.known = names, !.row = 1])
  /\ UNCHANGED <<file, page, chunk, import, ledger, names, drops, deletions, written, refused, everPosted>>

Accepted(a, known) ==
  Put(a, [req[a] EXCEPT !.row = @ + 1, !.valid = Append(@, Row(a)), !.known = known])
Rejected(a) ==
  /\ Put(a, [req[a] EXCEPT !.row = @ + 1, !.rejected = @ + 1])
  /\ refused' = [refused EXCEPT ![a] = @ \cup {Row(a)}]

\* validateRow and resolveCategory for one row: a category that is missing is inserted, and
\* one that somebody else has inserted since is read again
NextRow(a) ==
  /\ At(a, "rows") /\ req[a].row <= Len(Rows(a))
  /\ IF Row(a) \in Bad
       THEN Rejected(a) /\ UNCHANGED names
       ELSE LET c == CategoryOf[Row(a)]
            IN  /\ names' = IF c = "none" THEN names ELSE names \cup {c}
                /\ Accepted(a, req[a].known \cup (names' \ names))
                /\ UNCHANGED refused
  /\ UNCHANGED <<file, page, chunk, import, ledger, drops, deletions, written, everPosted>>

\* the statement that inserts or reads the category fails: the row is turned down, not the chunk
CategoryFails(a) ==
  /\ At(a, "rows") /\ req[a].row <= Len(Rows(a)) /\ Row(a) \notin Bad
  /\ CategoryOf[Row(a)] \notin req[a].known \cup {"none"}
  /\ Mishap /\ Rejected(a)
  /\ UNCHANGED <<file, page, chunk, import, ledger, names, deletions, written, everPosted>>

\* the keys that the ledger has already are duplicates
Compare(a) ==
  /\ At(a, "rows") /\ req[a].row > Len(Rows(a))
  /\ LET new == Without(req[a].valid, InLedger)
     IN  Put(a, [req[a] EXCEPT !.insert = new, !.at = IF new = <<>> THEN "stats" ELSE "insert"])
  /\ UNCHANGED <<file, page, chunk, import, ledger, names, drops, deletions, written, refused, everPosted>>

Post(a, keys) ==
  /\ ledger' = [k \in Keys |-> IF k \in keys THEN a ELSE ledger[k]]
  /\ written' = [written EXCEPT ![a] = @ + Cardinality(keys)]
  /\ everPosted' = everPosted \cup keys

\* mutant: what the unique index turns down is skipped and still counted as imported
InsertSkips(a) ==
  /\ At(a, "insert")
  /\ Post(a, ToSet(req[a].insert) \ InLedger)
  /\ Put(a, [req[a] EXCEPT !.at = "stats", !.inserted = Len(req[a].insert)])
  /\ UNCHANGED <<file, page, chunk, import, names, drops, deletions, refused>>

\* one insert for the chunk: a key that occurs twice, in it or by now in the ledger, fails
\* the whole of it (409 concurrent_import_duplicate_detected) and the page stops
Insert(a) ==
  /\ At(a, "insert")
  /\ LET keys == ToSet(req[a].insert)
     IN  IF keys \cap InLedger = {} /\ Cardinality(keys) = Len(req[a].insert)
           THEN /\ Post(a, keys)
                /\ Put(a, [req[a] EXCEPT !.at = "stats", !.inserted = Len(req[a].insert)])
                /\ UNCHANGED page
           ELSE /\ Put(a, NoRequest) /\ Show(a, "stopped")
                /\ UNCHANGED <<ledger, written, everPosted>>
  /\ UNCHANGED <<file, chunk, import, names, drops, deletions, refused>>

\* the counts are added to those read when the request began
Stats(a) ==
  /\ At(a, "stats")
  /\ LET r == req[a]
         old == r.record
     IN  import' = [import EXCEPT ![a] =
           [status |-> IF Final(a) THEN "completed" ELSE @.status,
            seen |-> old.seen + Len(Rows(a)),
            imported |-> old.imported + r.inserted,
            duplicate |-> old.duplicate + Len(r.valid) - Len(r.insert),
            rejected |-> old.rejected + r.rejected]]
  /\ Put(a, [NoRequest EXCEPT !.at = "answer"])
  /\ UNCHANGED <<file, page, chunk, ledger, names, drops, deletions, written, refused, everPosted>>

\* the answer, if somebody still waits for it: the next chunk, or the message of completion
Answer(a) ==
  /\ At(a, "answer") /\ Put(a, NoRequest)
  /\ IF page[a] # "waiting" THEN UNCHANGED <<page, chunk>>
     ELSE IF Final(a) THEN Show(a, "done") /\ UNCHANGED chunk
     ELSE Show(a, "ready") /\ chunk' = [chunk EXCEPT ![a] = @ + 1]
  /\ UNCHANGED <<file, import, ledger, names, drops, deletions, written, refused, everPosted>>

\* the connection breaks or the window is closed: the page gives the import up, the request runs on
LoseAnswer(a) ==
  /\ page[a] = "waiting" /\ Mishap /\ Show(a, "stopped")
  /\ UNCHANGED <<file, chunk, import, req, ledger, names, deletions, written, refused, everPosted>>

\* a statement fails, with or without effect, or the platform stops the request
FailRequest(a) ==
  /\ req[a].at \notin {"idle", "answer"} /\ Mishap
  /\ Put(a, NoRequest) /\ Show(a, "stopped")
  /\ \/ UNCHANGED <<ledger, written, everPosted>>
     \/ /\ At(a, "insert") /\ ToSet(req[a].insert) \cap InLedger = {}
        /\ IsInjective(req[a].insert)
        /\ Post(a, ToSet(req[a].insert))
  /\ UNCHANGED <<file, chunk, import, names, deletions, refused>>

\* the user deletes a movement: its key is free again
DeleteImported(k) ==
  /\ k \in InLedger /\ deletions < MaxDeletions /\ deletions' = deletions + 1
  /\ ledger' = [ledger EXCEPT ![k] = Unposted]
  /\ UNCHANGED <<file, page, chunk, import, req, names, drops, written, refused, everPosted>>

RequestStep(a) ==
  ReadCategories(a) \/ NextRow(a) \/ Compare(a) \/ Insert(a) \/ Stats(a) \/ Answer(a)

ImportInit ==
  /\ file \in [Attempts -> Files]
  /\ page = [a \in Attempts |-> "ready"] /\ chunk = [a \in Attempts |-> 1]
  /\ import = [a \in Attempts |-> NoImport] /\ req = [a \in Attempts |-> NoRequest]
  /\ ledger = [k \in Keys |-> Unposted] /\ names = {} /\ drops = 0 /\ deletions = 0
  /\ written = [a \in Attempts |-> 0] /\ refused = [a \in Attempts |-> {}] /\ everPosted = {}

ImportNext ==
  \/ \E a \in Attempts : Open(a) \/ RequestStep(a) \/ CategoryFails(a) \/ LoseAnswer(a) \/ FailRequest(a)
  \/ \E k \in Keys : DeleteImported(k)

ImportSpec == ImportInit /\ [][ImportNext]_importing

-----------------------------------------------------------------------------
\* The summary of a completed import is the truth: every row of the file was counted once,
\* as many are called imported as this import wrote, and each row is accounted for - it was
\* turned down, or it is in the ledger unless the user has deleted it since.  This holds
\* whatever other imports of the same file, lost answers and failures came before.
SummaryTrue ==
  \A a \in Attempts : import[a].status = "completed" =>
    LET rows == FlattenSeq(file[a]) IN
    /\ import[a].seen = Len(rows)
    /\ import[a].seen = import[a].imported + import[a].duplicate + import[a].rejected
    /\ import[a].imported = written[a]
    /\ ToSet(rows) \subseteq refused[a] \cup everPosted
=============================================================================
