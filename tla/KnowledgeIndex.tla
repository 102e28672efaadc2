--------------------------- MODULE KnowledgeIndex ---------------------------
(***************************************************************************)
(* The knowledge base of one tenant: its rows in MySQL, the source of      *)
(* truth, and its points in Qdrant, derived from them.  Requests of the    *)
(* administrators change a row in one transaction and then index it; the   *)
(* index worker scans for rows that are not indexed yet and indexes those. *)
(* Both call indexer.index_items, which reads the rows, embeds their text  *)
(* remotely, upserts the points and only then marks the rows, each of them *)
(* an await at which the others run.                                       *)
(*                                                                         *)
(* A text is its version: 0 before the row exists, 1 when it is created,   *)
(* one more with every update.  A point is the version it was embedded     *)
(* from, 0 if there is none.                                               *)
(***************************************************************************)
EXTENDS Naturals, FiniteSets

CONSTANTS Items,         \* ids that AUTO_INCREMENT will hand out
          Writers,       \* slots for requests to /kb
          Workers,       \* index worker processes
          Refused,       \* items whose text the embedding gateway rejects
          MaxVersion,    \* bound: versions of one text
          MaxFailures    \* bound: failed or killed index operations

ASSUME ProcessAssumption == Writers \cap Workers = {}

ASSUME BoundAssumption == MaxVersion \in Nat /\ MaxFailures \in Nat

ASSUME RefusedAssumption == Refused \subseteq Items

Procs == Writers \cup Workers

VARIABLES
    version,     \* version[i]: the text of row i (of the last one, once deleted)
    live,        \* the rows that exist
    indexed,     \* the rows whose vector_status is indexed, not pending
    point,       \* point[i]: the version in Qdrant
    pc,          \* where each request or worker stands
    ids,         \* ids[p]: what p was asked to index or to remove
    snap,        \* snap[p]: the versions p's SELECT returned, 0 for no row
    failures     \* how many index operations failed so far

rows == << version, live, indexed >>
locals == << pc, ids, snap >>
vars == << rows, point, locals, failures >>

\* idle; index: rows committed or scanned, not read yet; embed: read;
\* upserted: points written, rows not marked; unindex: row gone, point not yet.
Place == {"idle", "index", "embed", "upserted", "unindex"}

NoVersions == [i \in Items |-> 0]

\* The rows p read: what index_items works on.
Batch(p) == {i \in Items : snap[p][i] > 0}

TypeOK ==
    /\ version \in [Items -> Nat]
    /\ live \subseteq Items
    /\ indexed \subseteq Items
    /\ point \in [Items -> Nat]
    /\ pc \in [Procs -> Place]
    /\ ids \in [Procs -> SUBSET Items]
    /\ snap \in [Procs -> [Items -> Nat]]
    /\ failures \in Nat

Init ==
    /\ version = NoVersions
    /\ live = {}
    /\ indexed = {}
    /\ point = NoVersions
    /\ pc = [p \in Procs |-> "idle"]
    /\ ids = [p \in Procs |-> {}]
    /\ snap = [p \in Procs |-> NoVersions]
    /\ failures = 0
-----------------------------------------------------------------------------
\* p goes on at place l with the ids S.
Begin(p, l, S) ==
    /\ pc[p] = "idle"
    /\ pc' = [pc EXCEPT ![p] = l]
    /\ ids' = [ids EXCEPT ![p] = S]
    /\ UNCHANGED << snap, point, failures >>

\* p is through, or has given up.
End(p) ==
    /\ pc' = [pc EXCEPT ![p] = "idle"]
    /\ ids' = [ids EXCEPT ![p] = {}]
    /\ snap' = [snap EXCEPT ![p] = NoVersions]
-----------------------------------------------------------------------------
(* The requests: each commits its rows and goes on to the index.           *)

Fresh == {i \in Items : version[i] = 0}

Insert(p, S) ==
    /\ S \subseteq Fresh
    /\ version' = [i \in Items |-> IF i \in S THEN 1 ELSE version[i]]
    /\ live' = live \cup S
    /\ indexed' = indexed \ S
    /\ Begin(p, "index", S)

\* POST /kb/items
CreateItem(p) == \E i \in Items : Insert(p, {i})

\* POST /kb/import: one transaction for the whole file; a file without a
\* titled entry changes nothing.
ImportMarkdown(p) == \E S \in SUBSET Items : Cardinality(S) > 1 /\ Insert(p, S)

\* Fault: a changed text stays marked as indexed.
UpdateItemKeepingStatus(p, i) ==
    /\ version[i] \in 1 .. MaxVersion - 1
    /\ version' = [version EXCEPT ![i] = IF i \in live THEN @ + 1 ELSE @]
    /\ UNCHANGED << live, indexed >>
    /\ Begin(p, "index", {i})

\* PUT /kb/items/{id}: no row is not an error; the index then finds none.
UpdateItem(p, i) ==
    /\ version[i] \in 1 .. MaxVersion - 1
    /\ IF i \in live
         THEN /\ version' = [version EXCEPT ![i] = @ + 1]
              /\ indexed' = indexed \ {i}
         ELSE UNCHANGED << version, indexed >>
    /\ UNCHANGED live
    /\ Begin(p, "index", {i})

\* DELETE /kb/items/{id}
DeleteItem(p, i) ==
    /\ version[i] > 0
    /\ live' = live \ {i}
    /\ indexed' = indexed \ {i}
    /\ UNCHANGED version
    /\ Begin(p, "unindex", {i})

\* The worker's scan: every row that is not indexed.
Scan(k) ==
    /\ live \ indexed # {}
    /\ UNCHANGED rows
    /\ Begin(k, "index", live \ indexed)
-----------------------------------------------------------------------------
(* indexer.index_items and delete_item                                     *)

\* SELECT of the rows that are there; none ends the operation.
IndexRead(p) ==
    /\ pc[p] = "index"
    /\ IF ids[p] \cap live = {}
         THEN End(p)
         ELSE /\ snap' = [snap EXCEPT ![p] = [i \in Items |->
                               IF i \in ids[p] \cap live THEN version[i] ELSE 0]]
              /\ pc' = [pc EXCEPT ![p] = "embed"]
              /\ UNCHANGED ids
    /\ UNCHANGED << rows, point, failures >>

\* Fault: a point that is there already is not replaced.
IndexUpsertNewOnly(p) ==
    /\ pc[p] = "embed"
    /\ Batch(p) \cap Refused = {}
    /\ point' = [i \in Items |->
                    IF i \in Batch(p) /\ point[i] = 0 THEN snap[p][i] ELSE point[i]]
    /\ pc' = [pc EXCEPT ![p] = "upserted"]
    /\ UNCHANGED << rows, ids, snap, failures >>

\* The texts are embedded as they were read, in one call for the whole batch,
\* and replace whatever points there are.
IndexUpsert(p) ==
    /\ pc[p] = "embed"
    /\ Batch(p) \cap Refused = {}
    /\ point' = [i \in Items |-> IF i \in Batch(p) THEN snap[p][i] ELSE point[i]]
    /\ pc' = [pc EXCEPT ![p] = "upserted"]
    /\ UNCHANGED << rows, ids, snap, failures >>

\* Fault: the rows are not marked.
IndexCommitUnmarked(p) ==
    /\ pc[p] = "upserted"
    /\ End(p)
    /\ UNCHANGED << rows, point, failures >>

\* UPDATE ... SET vector_status = 'indexed', whatever the text has become; a
\* row that is gone stays gone.
IndexCommit(p) ==
    /\ pc[p] = "upserted"
    /\ indexed' = indexed \cup (Batch(p) \cap live)
    /\ End(p)
    /\ UNCHANGED << version, live, point, failures >>

\* The gateway refuses the call: the batch as a whole is given up.
IndexRefused(p) ==
    /\ pc[p] = "embed"
    /\ Batch(p) \cap Refused # {}
    /\ End(p)
    /\ UNCHANGED << rows, point, failures >>

\* Fault: the row, gone by now, is looked up before its point is removed.
DeletePointOfRowsOnly(p) ==
    /\ pc[p] = "unindex"
    /\ point' = [i \in Items |-> IF i \in ids[p] \cap live THEN 0 ELSE point[i]]
    /\ End(p)
    /\ UNCHANGED << rows, failures >>

\* The point goes after its row, in a step of its own.
DeletePoint(p) ==
    /\ pc[p] = "unindex"
    /\ point' = [i \in Items |-> IF i \in ids[p] THEN 0 ELSE point[i]]
    /\ End(p)
    /\ UNCHANGED << rows, failures >>

\* Fault: the rows are marked although the index failed.
FailMarking(p) ==
    /\ pc[p] # "idle"
    /\ failures < MaxFailures
    /\ failures' = failures + 1
    /\ indexed' = indexed \cup (Batch(p) \cap live)
    /\ End(p)
    /\ UNCHANGED << version, live, point >>

\* Fault: the caller is left at a place of its own.
FailStuck(p) ==
    /\ pc[p] # "idle"
    /\ failures < MaxFailures
    /\ failures' = failures + 1
    /\ pc' = [pc EXCEPT ![p] = "failed"]
    /\ UNCHANGED << rows, point, ids, snap >>

\* MySQL, the gateway or Qdrant fails, or the process dies: the caller swallows
\* the exception, the transaction of the index rolls back.
Fail(p) ==
    /\ pc[p] # "idle"
    /\ failures < MaxFailures
    /\ failures' = failures + 1
    /\ End(p)
    /\ UNCHANGED << rows, point >>

IndexNext(p) == \/ IndexRead(p) \/ IndexUpsert(p) \/ IndexCommit(p)
                \/ IndexRefused(p) \/ DeletePoint(p)

WriterNext(p) == \/ CreateItem(p) \/ ImportMarkdown(p)
                 \/ \E i \in Items : UpdateItem(p, i) \/ DeleteItem(p, i)

Next == \/ \E p \in Writers : WriterNext(p)
        \/ \E k \in Workers : Scan(k)
        \/ \E p \in Procs : IndexNext(p) \/ Fail(p)

Spec == Init /\ [][Next]_vars

\* The same code when one operation is through before the next one starts.
Alone == \A p, q \in Procs : pc[p] # "idle" /\ pc[q] # "idle" => p = q

SerialSpec == Init /\ [][Next /\ Alone']_vars
-----------------------------------------------------------------------------
(* Properties of every interleaving                                        *)

\* A row that says indexed can be found: it has a point, of whatever version.
\* The row is marked after the upsert and a point is removed only after its
\* row, so no order of requests, worker and failures leaves one without.
IndexedHasPoint == \A i \in live \cap indexed : point[i] > 0

\* Once no refused text is left in the knowledge base, every row that waits
\* for the index is indexed, or deleted, in the end: the worker picks up what
\* the requests failed to do.
WorkerCatchesUp ==
    <>[](live \cap Refused = {}) =>
        \A i \in Items : i \in live \ indexed ~> i \notin live \ indexed
-----------------------------------------------------------------------------
(* Properties the documents state; they hold while one operation runs at a *)
(* time and fail when they interleave.                                     *)

\* Whatever a row that says indexed can be found by is its present text
\* (rest-api.md 33, spec.md 88).
IndexedIsCurrent == \A i \in live \cap indexed : point[i] = version[i]

Quiet == \A p \in Procs : pc[p] = "idle"

\* With all operations through and no row waiting, every point is that of the
\* present text: nothing will correct it any more.
QuietIsCurrent == Quiet /\ live \subseteq indexed => IndexedIsCurrent

\* With all operations through, what was deleted has no point
\* (rest-api.md 34), as long as no removal fails.
QuietHasNoOrphan == Quiet => \A i \in Items \ live : point[i] = 0
=============================================================================
